------------------------------- MODULE WebDav -------------------------------
(***************************************************************************)
(* The WebDAV server of one account (webdav/handler.rs, path.rs, auth.rs,  *)
(* carddav.rs, propfind.rs).  Every request is a task of its own; between  *)
(* two awaited file operations any other request may run, and no lock is   *)
(* held.  The tree maps paths (sequences of names below the account's      *)
(* root) to nodes.                                                         *)
(*                                                                         *)
(* A file's content is the number of the PUT that wrote it, 0 when a       *)
(* failed write left it cut short; size and modification time, which make  *)
(* the ETag, change with every write, so that number stands for the ETag   *)
(* too.                                                                    *)
(***************************************************************************)
EXTENDS Integers, Sequences, FiniteSets, SequencesExt

CONSTANTS
    DavTasks,      \* requests that may be in flight together
    DavNames,      \* names of resources
    DavDepth,      \* bound: depth of the paths used
    DavMaxWrites,  \* bound: PUTs that reach the disk
    DavMaxRequests \* bound: requests begun

VARIABLES
    davTree,       \* path -> node
    davTask,       \* task -> request in flight
    davAnswer,     \* task -> status of its last answer
    davWrites, davRequests,
    \* history
    davRef,        \* the tree RFC 4918 asks for, if requests had not overlapped
    davDisturbed   \* two requests overlapped, a file operation failed, or a
                   \* COPY or MOVE named a destination above or below its source

davVars == <<davTree, davTask, davAnswer, davWrites, davRequests, davRef, davDisturbed>>

Marker == ".marker"    \* .addressbook or .calendar
DavPaths == {p \in SeqOf(DavNames \cup {Marker}, DavDepth) :
                 \A i \in DOMAIN p : p[i] = Marker => i = Len(p)}
Named == {p \in DavPaths : p = <<>> \/ Last(p) # Marker}
Folder == [dir |-> TRUE, data |-> 0]
File(n) == [dir |-> FALSE, data |-> n]
NoTask == [pc |-> "idle", method |-> "-", path |-> <<>>, dest |-> <<>>, existed |-> FALSE,
           overwrite |-> FALSE, mark |-> FALSE, n |-> 0]

DavInit ==
    /\ davTree = <<>> :> Folder
    /\ davTask = [t \in DavTasks |-> NoTask]
    /\ davAnswer = [t \in DavTasks |-> 0]
    /\ davWrites = 0 /\ davRequests = 0
    /\ davRef = <<>> :> Folder
    /\ davDisturbed = FALSE

----------------------------------------------------------------------------
(* Paths and credentials *)

\* percent_decode and the split: the segments a written segment stands for
Decode(s) ==
    CASE s = "%2e%2e" -> <<"..">>
      [] s = "a%2f.." -> <<"a", "..">>
      [] s = "%00"    -> <<"NUL">>
      [] OTHER        -> <<s>>

\* resolve: the path below root, or {} for what is refused
Resolve(root, uri) ==
    LET segments == FlattenSeq([i \in DOMAIN uri |-> Decode(uri[i])])
        kept == SelectSeq(segments, LAMBDA s : s \notin {"", "."})
    IN  IF \E i \in DOMAIN uri : uri[i] = "%zz" THEN {}
        ELSE IF \E i \in DOMAIN segments : segments[i] \in {"..", "NUL", "a\\b"} THEN {}
        ELSE {root \o kept}

\* account_root: a name is one path component or is refused
AccountRoot(name) == IF name \in {"", ".", "..", "a/b", "a\\b", "NUL"} THEN {}
                     ELSE {<<"accounts", name, "dav">>}

\* authenticate: the account the directory resolved, not the login typed
Authenticate(header, directory) ==
    IF header.scheme \notin {"Basic ", "basic "} \/ ~header.base64 \/ ~header.utf8 \/ ~header.colon
    THEN {} ELSE directory[header.login]

----------------------------------------------------------------------------
(* Reading the tree *)

Exists(tree, p) == p \in DOMAIN tree
IsDir(tree, p) == Exists(tree, p) /\ tree[p].dir
IsFile(tree, p) == Exists(tree, p) /\ ~tree[p].dir
Below(tree, p) == {q \in DOMAIN tree : IsPrefix(p, q)}
Children(tree, p) == {q \in Below(tree, p) : Len(q) = Len(p) + 1}
Without(tree, ps) == [q \in DOMAIN tree \ ps |-> tree[q]]
Parent(p) == IF p = <<>> THEN <<>> ELSE Front(p)

\* is_addressbook, is_calendar
IsMarked(tree, p) == IsDir(tree, p) /\ IsFile(tree, Append(p, Marker))

\* propfind: the target and, unless Depth is 0, its children but the markers
Propfind(tree, p, depth) ==
    IF ~Exists(tree, p) THEN {}
    ELSE {p} \cup IF depth = "0" \/ ~tree[p].dir THEN {}
                  ELSE {q \in Children(tree, p) : Last(q) # Marker}

\* entry_for and response: what a PROPFIND says of a resource
EntryFor(tree, p) == [path |-> p, collection |-> tree[p].dir, marked |-> IsMarked(tree, p),
                      etag |-> IF tree[p].dir THEN 0 ELSE tree[p].data]

\* propfind::response: a collection is one kind at most, and has no length or ETag
EntryOf(e) == [path |-> e.path, type |-> IF ~e.collection THEN "file"
                                         ELSE IF e.marked THEN "marked" ELSE "collection",
               etag |-> IF e.collection THEN {} ELSE {e.etag}]

\* get: a file with its ETag; a collection is not served
Get(tree, p) == IF IsFile(tree, p) THEN [status |-> 200, etag |-> tree[p].data, body |-> tree[p].data]
                ELSE [status |-> 404, etag |-> 0, body |-> 0]

\* account_home, discovery: the first segment of whatever path was asked
AccountHome(uri) == IF uri = <<>> THEN <<>> ELSE <<uri[1]>>
Discovery(uri) == [principal |-> AccountHome(uri), home |-> AccountHome(uri),
                   outbox |-> Append(AccountHome(uri), "outbox"),
                   inbox |-> Append(AccountHome(uri), "inbox")]

\* post: answered with the free-busy times at an Outbox, 405 elsewhere
IsOutbox(uri) == \E i \in 1..2 : i \in DOMAIN uri /\ uri[i] = "outbox"

\* report_kind: the report whose name comes first in the body
ReportKind(body, names) ==
    LET at == {i \in DOMAIN body : body[i] \in names}
    IN  IF at = {} THEN "none" ELSE body[Min(at)]

CalReports == {"free-busy-query", "calendar-multiget", "calendar-query"}
CardReports == {"addressbook-multiget", "addressbook-query"}
\* handler::report: a CalDAV report named anywhere wins
ReportOf(body) == IF ReportKind(body, CalReports) # "none" THEN ReportKind(body, CalReports)
                  ELSE ReportKind(body, CardReports)

\* hrefs: the text of every href element, whatever its prefix, that is not empty
Hrefs(body) == LET at == SelectSeq(body, LAMBDA e : e.local = "href" /\ e.text # <<>>)
               IN  [i \in DOMAIN at |-> at[i].text]

\* push_card, push_event, collect_cards: files only, silently
PushCards(tree, hrefs) ==
    LET resolved == UNION {Resolve(<<>>, hrefs[i]) : i \in DOMAIN hrefs}
    IN  {p \in resolved : IsFile(tree, p)}
CollectEvents(tree, p) == IF IsDir(tree, p) THEN {q \in Children(tree, p) : IsFile(tree, q)} ELSE {}
CollectCards(tree, p) == IF IsDir(tree, p) THEN {q \in Children(tree, p) : IsFile(tree, q)} ELSE {}

----------------------------------------------------------------------------
(* Requests.  The guard of the first step reads what the handler checks    *)
(* before its first await.                                                 *)

Idle(t) == davTask[t].pc = "idle"
Alone(t) == \A u \in DavTasks \ {t} : Idle(u)
Related(p, q) == IsPrefix(p, q) \/ IsPrefix(q, p)

\* dispatch creates the account's root again when it is gone
Rooted(tree) == IF Exists(tree, <<>>) THEN tree ELSE <<>> :> Folder

\* copy_dir, fs::copy: what lies at and below source, put below dest
CopyOf(tree, source, dest) ==
    LET moved == {dest \o SubSeq(q, Len(source) + 1, Len(q)) : q \in Below(tree, source)}
        From(q) == source \o SubSeq(q, Len(dest) + 1, Len(q))
    IN  [q \in DOMAIN tree \cup moved |-> IF q \in moved THEN tree[From(q)] ELSE tree[q]]

\* what the request asks for, taken as one step
Meaning(tree, r) ==
    LET p == r.path
        copied == CopyOf(Without(tree, Below(tree, r.dest)), p, r.dest)
    IN  CASE r.method = "PUT" -> IF IsDir(tree, p) \/ ~IsDir(tree, Parent(p)) THEN tree
                                 ELSE (p :> File(r.n)) @@ tree
          [] r.method = "MKCOL" -> IF Exists(tree, p) \/ ~IsDir(tree, Parent(p)) THEN tree
                                   ELSE (p :> Folder) @@ (IF r.mark THEN Append(p, Marker) :> File(0)
                                                          ELSE p :> Folder) @@ tree
          [] r.method = "DELETE" -> Without(tree, Below(tree, p))
          [] r.method \in {"COPY", "MOVE"} ->
                IF ~Exists(tree, p) \/ ~IsDir(tree, Parent(r.dest))
                   \/ (Exists(tree, r.dest) /\ ~r.overwrite) \/ Related(p, r.dest) THEN tree
                ELSE IF r.method = "COPY" THEN copied ELSE Without(copied, Below(copied, p))

Begin(t, r) ==
    /\ Idle(t) /\ davRequests < DavMaxRequests
    /\ davRequests' = davRequests + 1
    /\ davTree' = Rooted(davTree)
    /\ davTask' = [davTask EXCEPT ![t] = r]
    /\ davRef' = Meaning(Rooted(davRef), r)
    /\ davDisturbed' = (\/ davDisturbed \/ ~Alone(t)
                        \/ r.method \in {"COPY", "MOVE"} /\ Related(r.path, r.dest))
    /\ UNCHANGED <<davAnswer, davWrites>>

\* answering ends the request
Finish(t, status) ==
    /\ davTask' = [davTask EXCEPT ![t] = NoTask]
    /\ davAnswer' = [davAnswer EXCEPT ![t] = status]
    /\ UNCHANGED <<davWrites, davRequests, davRef>>

Go(t, pc) ==
    /\ davTask' = [davTask EXCEPT ![t].pc = pc]
    /\ UNCHANGED <<davAnswer, davWrites, davRequests, davRef, davDisturbed>>

Failed(t) == Finish(t, 500) /\ davDisturbed' = TRUE

Leave(t, status) == Finish(t, status) /\ UNCHANGED <<davTree, davDisturbed>>

----------------------------------------------------------------------------
(* PUT *)

PutBegin(t, p) ==
    /\ davWrites < DavMaxWrites
    /\ \A u \in DavTasks : davTask[u].method # "PUT"
    /\ Begin(t, [NoTask EXCEPT !.pc = "putCheck", !.method = "PUT", !.path = p, !.n = davWrites + 1])

PutCheck(t) ==
    LET r == davTask[t] IN
    /\ r.pc = "putCheck"
    /\ IF IsDir(davTree, r.path) THEN Leave(t, 405)
       ELSE IF ~IsDir(davTree, Parent(r.path)) THEN Leave(t, 409)
       ELSE /\ davTask' = [davTask EXCEPT ![t].pc = "putWrite", ![t].existed = IsFile(davTree, r.path)]
            /\ UNCHANGED <<davTree, davAnswer, davWrites, davRequests, davRef, davDisturbed>>

\* fs::write opens, truncates and writes; it may fail at either
PutWrite(t) ==
    LET r == davTask[t]
        status == IF r.existed THEN 204 ELSE 201
    IN  /\ r.pc = "putWrite"
        /\ \/ /\ ~IsDir(davTree, r.path) /\ IsDir(davTree, Parent(r.path))
              /\ davTree' = (r.path :> File(r.n)) @@ davTree
              /\ davWrites' = r.n
              /\ davTask' = [davTask EXCEPT ![t] = NoTask]
              /\ davAnswer' = [davAnswer EXCEPT ![t] = status]
              /\ UNCHANGED <<davRequests, davRef, davDisturbed>>
           \/ /\ davTree' \in {davTree} \cup (IF IsFile(davTree, r.path)
                                              THEN {(r.path :> File(0)) @@ davTree} ELSE {})
              /\ Failed(t)

(* DELETE *)

DeleteBegin(t, p) ==
    Begin(t, [NoTask EXCEPT !.pc = "delete", !.method = "DELETE", !.path = p])

\* remove_dir_all removes entry after entry and stops at an error
RemoveSome(p) == \E gone \in SUBSET (Below(davTree, p) \ {p}) :
                    /\ \A q \in gone : Below(davTree, q) \subseteq gone
                    /\ davTree' = Without(davTree, gone)

Delete(t) ==
    LET r == davTask[t] IN
    /\ r.pc = "delete"
    /\ IF ~Exists(davTree, r.path) THEN Leave(t, 404)
       ELSE \/ davTree' = Without(davTree, Below(davTree, r.path)) /\ Finish(t, 204)
               /\ UNCHANGED davDisturbed
            \/ RemoveSome(r.path) /\ Failed(t)

(* MKCOL *)

MkcolBegin(t, p, mark) ==
    Begin(t, [NoTask EXCEPT !.pc = "mkcolCheck", !.method = "MKCOL", !.path = p, !.mark = mark])

MkcolCheck(t) ==
    LET r == davTask[t] IN
    /\ r.pc = "mkcolCheck"
    /\ IF Exists(davTree, r.path) THEN Leave(t, 405)
       ELSE IF ~IsDir(davTree, Parent(r.path)) THEN Leave(t, 409)
       ELSE Go(t, "mkcol") /\ UNCHANGED davTree

\* create_dir, then the marker
Mkcol(t) ==
    LET r == davTask[t] IN
    /\ r.pc = "mkcol"
    /\ IF Exists(davTree, r.path) \/ ~IsDir(davTree, Parent(r.path))
       THEN UNCHANGED davTree /\ Failed(t)
       ELSE /\ davTree' = (r.path :> Folder) @@ davTree
            /\ IF r.mark THEN Go(t, "mark") ELSE Finish(t, 201) /\ UNCHANGED davDisturbed

\* mark_addressbook, mark_calendar
Mark(t) ==
    LET r == davTask[t] IN
    /\ r.pc = "mark"
    /\ \/ /\ IsDir(davTree, r.path)
          /\ davTree' = (Append(r.path, Marker) :> File(0)) @@ davTree
          /\ Finish(t, 201) /\ UNCHANGED davDisturbed
       \/ UNCHANGED davTree /\ Failed(t)

(* COPY and MOVE *)

CopyMoveBegin(t, method, p, q, overwrite) ==
    Begin(t, [NoTask EXCEPT !.pc = "cmCheck", !.method = method, !.path = p, !.dest = q,
                            !.overwrite = overwrite])

CopyMoveCheck(t) ==
    LET r == davTask[t]
        existed == Exists(davTree, r.dest)
    IN  /\ r.pc = "cmCheck"
        /\ IF ~Exists(davTree, r.path) THEN Leave(t, 404)
           ELSE IF existed /\ ~r.overwrite THEN Leave(t, 412)
           ELSE IF ~IsDir(davTree, Parent(r.dest)) THEN Leave(t, 409)
           ELSE /\ davTask' = [davTask EXCEPT ![t].pc = IF existed THEN "cmReplace" ELSE "cmCopy",
                                              ![t].existed = existed]
                /\ UNCHANGED <<davTree, davAnswer, davWrites, davRequests, davRef, davDisturbed>>

\* perform_copy: an existing destination goes first
CopyMoveReplace(t) ==
    LET r == davTask[t] IN
    /\ r.pc = "cmReplace"
    /\ IF ~Exists(davTree, r.dest) THEN UNCHANGED davTree /\ Failed(t)
       ELSE \/ davTree' = Without(davTree, Below(davTree, r.dest)) /\ Go(t, "cmCopy")
            \/ RemoveSome(r.dest) /\ Failed(t)

\* then the copy; a collection is copied into a collection below it again and
\* again until a path is too long, and fails
CopyMoveCopy(t) ==
    LET r == davTask[t]
        dir == IsDir(davTree, r.path)
        fits == IF dir THEN ~IsFile(davTree, r.dest) /\ ~IsPrefix(r.path, r.dest)
                ELSE ~IsDir(davTree, r.dest)
        cut == (r.dest :> IF dir THEN Folder ELSE File(0)) @@ davTree
    IN  /\ r.pc = "cmCopy"
        /\ IF ~Exists(davTree, r.path) \/ ~IsDir(davTree, Parent(r.dest))
           THEN UNCHANGED davTree /\ Failed(t)
           ELSE \/ /\ fits /\ davTree' = CopyOf(davTree, r.path, r.dest)
                   /\ IF r.method = "MOVE" THEN Go(t, "cmRemove")
                      ELSE Finish(t, IF r.existed THEN 204 ELSE 201) /\ UNCHANGED davDisturbed
                \/ davTree' \in {davTree} \cup (IF fits \/ dir THEN {cut} ELSE {}) /\ Failed(t)

\* mutant: the source of a MOVE stays
MoveRemoveSkips(t) ==
    /\ davTask[t].pc = "cmRemove"
    /\ Finish(t, IF davTask[t].existed THEN 204 ELSE 201) /\ UNCHANGED <<davTree, davDisturbed>>

\* and, for a MOVE, the source goes
MoveRemove(t) ==
    LET r == davTask[t] IN
    /\ r.pc = "cmRemove"
    /\ IF ~Exists(davTree, r.path) THEN UNCHANGED davTree /\ Failed(t)
       ELSE \/ /\ davTree' = Without(davTree, Below(davTree, r.path))
               /\ Finish(t, IF r.existed THEN 204 ELSE 201) /\ UNCHANGED davDisturbed
            \/ RemoveSome(r.path) /\ Failed(t)

\* OPTIONS, GET, HEAD, POST, PROPFIND, REPORT and an unknown method change nothing
Read(t) == Idle(t) /\ Exists(davTree, <<>>) /\ UNCHANGED davVars

DavBegin(t) ==
    \E p \in Named :
        \/ p # <<>> /\ PutBegin(t, p)
        \/ DeleteBegin(t, p)
        \/ \E mark \in BOOLEAN : p # <<>> /\ MkcolBegin(t, p, mark)
        \/ \E m \in {"COPY", "MOVE"}, q \in Named \ {<<>>}, overwrite \in BOOLEAN :
              CopyMoveBegin(t, m, p, q, overwrite)

DavNext ==
    \E t \in DavTasks :
        \/ DavBegin(t)
        \/ PutCheck(t) \/ PutWrite(t) \/ Delete(t) \/ MkcolCheck(t) \/ Mkcol(t) \/ Mark(t)
        \/ CopyMoveCheck(t) \/ CopyMoveReplace(t) \/ CopyMoveCopy(t) \/ MoveRemove(t) \/ Read(t)

DavSpec == DavInit /\ [][DavNext]_davVars

----------------------------------------------------------------------------
(* Properties *)

\* The nodes form a tree of folders and files, whatever the interleaving.
DavTypeOK ==
    /\ \A p \in DOMAIN davTree : /\ davTree[p].dir \in BOOLEAN /\ davTree[p].data \in 0..DavMaxWrites
                                 /\ p # <<>> => IsDir(davTree, Parent(p))
    /\ davWrites \in 0..DavMaxWrites /\ davRequests \in 0..DavMaxRequests

\* The handlers' several file operations amount to what RFC 4918 asks for when
\* requests follow one another: PUT, DELETE, MKCOL (with its marker), COPY and
\* MOVE leave the tree the request describes (handler.rs 178-455).
SerialFaithful ==
    (~davDisturbed /\ \A t \in DavTasks : Idle(t)) => davTree = davRef

\* A request changes nothing outside the subtrees of the resources it names
\* (handler.rs 178-455), at any moment and whatever fails.
OnlyNamed ==
    [][\A p \in (DOMAIN davTree \cup DOMAIN davTree') \ {<<>>} :
          \/ p \in DOMAIN davTree /\ p \in DOMAIN davTree' /\ davTree[p] = davTree'[p]
          \/ \E t \in DavTasks : /\ davTask[t].pc # "idle"
                                 /\ \/ IsPrefix(davTask[t].path, p)
                                    \/ davTask[t].dest # <<>> /\ IsPrefix(davTask[t].dest, p)]_davVars

\* Whatever a client writes in a path or a Destination, resolve stays below the
\* root (path.rs 37-69).
Segments == {"", ".", "..", "%2e%2e", "a%2f..", "%00", "a\\b", "%zz", "a", "b"}
Confined ==
    \A uri \in SeqOf(Segments, 3) : \A out \in Resolve(<<"accounts", "u", "dav">>, uri) :
        /\ IsPrefix(<<"accounts", "u", "dav">>, out)
        /\ \A i \in DOMAIN out : out[i] \notin {"", ".", "..", "NUL"}
=============================================================================
