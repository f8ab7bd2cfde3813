--------------------------- MODULE SieveScript ---------------------------
(***************************************************************************)
(* Sieve (sieve/): strings and numbers of the lexer, the recursive-descent *)
(* parser, the tests and their comparators, variables, and the interpreter *)
(* that turns a script and a message into a delivery decision.             *)
(*                                                                         *)
(* Everything is a pure function, checked against what it is meant to be   *)
(* over bounded inputs.  A text is a sequence of characters, or of words   *)
(* where nothing looks inside them; a token is [k, v]: its kind and text.  *)
(***************************************************************************)
EXTENDS Integers, Sequences, SequencesExt, FiniteSetsExt, TLC

CONSTANTS
  SvTokens,      \* the tokens scripts are put together from
  SvMaxTokens,   \* how many
  SvChars,       \* the characters of short texts
  SvMaxText,     \* how long they are
  SvOrder,       \* the characters and words in the order of their octets
  SvScripts,     \* scripts, sequences of tokens, the interpreter is run on
  SvMessages,    \* messages it is run on
  SvNumberMax    \* the largest number the machine holds (u64::MAX)

Texts(n) == UNION {[1..k -> SvChars] : k \in 0..n}

---------------------------------------------------------------------------
(* Lexer *)

\* lex_quoted: the characters after the opening quote; a backslash takes the
\* next character as it is
RECURSIVE LexQuoted(_, _)
LexQuoted(chars, value) ==
  IF chars = <<>> THEN [ok |-> FALSE, value |-> value, rest |-> <<>>]
  ELSE CASE Head(chars) = "\"" -> [ok |-> TRUE, value |-> value, rest |-> Tail(chars)]
         [] Head(chars) = "\\" ->
              IF Len(chars) = 1 THEN [ok |-> FALSE, value |-> value, rest |-> <<>>]
              ELSE LexQuoted(SubSeq(chars, 3, Len(chars)), Append(value, chars[2]))
         [] OTHER -> LexQuoted(Tail(chars), Append(value, Head(chars)))

\* lex_multiline: lines up to one that is a single dot, a doubled leading dot
\* undone
Unstuff(line) ==
  IF Len(line) > 1 /\ SubSeq(line, 1, 2) = <<".", ".">> THEN Tail(line) ELSE line

LexMultiline(lines) ==
  LET dots == {i \in DOMAIN lines : lines[i] = <<".">>}
  IN IF dots = {} THEN [ok |-> FALSE, value |-> <<>>]
     ELSE [ok |-> TRUE, value |-> [i \in 1..(Min(dots) - 1) |-> Unstuff(lines[i])]]

\* lex_number: a quantifier multiplies, and what does not fit is refused
LexNumber(digits, quantifier) ==
  LET factor == CASE quantifier = "K" -> 1024
                  [] quantifier = "M" -> 1024 * 1024
                  [] quantifier = "G" -> 1024 * 1024 * 1024
                  [] OTHER -> 1
  IN IF digits > SvNumberMax \/ digits > SvNumberMax \div factor THEN -1
     ELSE digits * factor

---------------------------------------------------------------------------
(* Parser: each operator returns the set of what it can read, [it, at] with *)
(* at the position after it: one element, or none where it fails            *)

Id(name) == [k |-> "id", v |-> <<name>>]
Punct(sign) == [k |-> "punct", v |-> <<sign>>]
Read(it, at) == {[it |-> it, at |-> at]}

Peek(toks, at, token) == at <= Len(toks) /\ toks[at] = token
IsKind(toks, at, kind) == at <= Len(toks) /\ toks[at].k = kind

\* Parser::eat: what was read so far, if the sign follows, without the sign
Eat(reads, toks, sign) ==
  {[it |-> r.it, at |-> r.at + 1] : r \in {q \in reads : Peek(toks, q.at, Punct(sign))}}

\* Argument: a tag, a number, a string or a string list
Argument(kind, vals) == [kind |-> kind, vals |-> vals]

\* Parser::string_list, from just after the bracket: at least one string
RECURSIVE StringList(_, _, _)
StringList(toks, at, items) ==
  IF ~IsKind(toks, at, "str") THEN {}
  ELSE CASE Peek(toks, at + 1, Punct(",")) ->
              StringList(toks, at + 2, Append(items, toks[at].v))
         [] Peek(toks, at + 1, Punct("]")) ->
              Read(Argument("StrList", Append(items, toks[at].v)), at + 2)
         [] OTHER -> {}

\* Parser::arguments: as long as the next token can begin one
RECURSIVE Arguments(_, _, _)
Arguments(toks, at, args) ==
  LET kinds == [tag |-> "Tag", num |-> "Number", str |-> "Str"]
  IN IF at <= Len(toks) /\ toks[at].k \in DOMAIN kinds
     THEN Arguments(toks, at + 1, Append(args, Argument(kinds[toks[at].k], <<toks[at].v>>)))
     ELSE IF Peek(toks, at, Punct("["))
     THEN UNION {Arguments(toks, list.at, Append(args, list.it)) :
                   list \in StringList(toks, at + 1, <<>>)}
     ELSE Read(args, at)

TestNode(name, args, children) == [name |-> name, args |-> args, children |-> children]

\* Parser::test and test_list
RECURSIVE ParseTest(_, _), TestList(_, _, _)
ParseTest(toks, at) ==
  IF ~IsKind(toks, at, "id") THEN {}
  ELSE CASE toks[at].v[1] \in {"allof", "anyof"} ->
              {[it |-> TestNode(toks[at].v[1], <<>>, list.it), at |-> list.at] :
                 list \in IF Peek(toks, at + 1, Punct("("))
                          THEN Eat(TestList(toks, at + 2, <<>>), toks, ")") ELSE {}}
         [] toks[at].v[1] = "not" ->
              {[it |-> TestNode("not", <<>>, <<inner.it>>), at |-> inner.at] :
                 inner \in ParseTest(toks, at + 1)}
         [] OTHER ->
              {[it |-> TestNode(toks[at].v[1], args.it, <<>>), at |-> args.at] :
                 args \in Arguments(toks, at + 1, <<>>)}
TestList(toks, at, tests) ==
  UNION {IF Peek(toks, test.at, Punct(","))
         THEN TestList(toks, test.at + 1, Append(tests, test.it))
         ELSE Read(Append(tests, test.it), test.at) : test \in ParseTest(toks, at)}

\* Command: an action, or a conditional with its branches and its else
Action(name, args) == [name |-> name, args |-> args, branches |-> <<>>, otherwise |-> <<>>]
IfNode(branches, otherwise) ==
  [name |-> "if", args |-> <<>>, branches |-> branches, otherwise |-> otherwise]

\* Parser::commands, command, conditional, branch and block; an else is a
\* sequence of one block, its absence the empty one
RECURSIVE Commands(_, _, _, _), ParseCommand(_, _), Branches(_, _, _), Block(_, _)
Commands(toks, at, inBlock, commands) ==
  IF at > Len(toks) \/ (inBlock /\ Peek(toks, at, Punct("}"))) THEN Read(commands, at)
  ELSE UNION {Commands(toks, command.at, inBlock, Append(commands, command.it)) :
                command \in ParseCommand(toks, at)}
ParseCommand(toks, at) ==
  IF ~IsKind(toks, at, "id") THEN {}
  ELSE IF toks[at].v[1] = "if"
  THEN UNION {IF Peek(toks, branches.at, Id("else"))
              THEN {[it |-> IfNode(branches.it, <<block.it>>), at |-> block.at] :
                      block \in Block(toks, branches.at + 1)}
              ELSE Read(IfNode(branches.it, <<>>), branches.at) :
                branches \in Branches(toks, at + 1, <<>>)}
  ELSE {[it |-> Action(toks[at].v[1], args.it), at |-> args.at] :
          args \in Eat(Arguments(toks, at + 1, <<>>), toks, ";")}
Branches(toks, at, branches) ==
  UNION {UNION {LET more == Append(branches, [test |-> test.it, body |-> body.it])
                IN IF Peek(toks, body.at, Id("elsif")) THEN Branches(toks, body.at + 1, more)
                   ELSE Read(more, body.at) :
                  body \in Block(toks, test.at)} : test \in ParseTest(toks, at)}
Block(toks, at) ==
  IF Peek(toks, at, Punct("{"))
  THEN Eat(Commands(toks, at + 1, TRUE, <<>>), toks, "}") ELSE {}

\* parse: nothing may be left over
ParseLenient(toks) == {script.it : script \in Commands(toks, 1, TRUE, <<>>)}

Parse(toks) ==
  {script.it : script \in {s \in Commands(toks, 1, FALSE, <<>>) : s.at = Len(toks) + 1}}

---------------------------------------------------------------------------
(* Comparators *)

Lower(text) == [i \in DOMAIN text |-> IF text[i] = "A" THEN "a" ELSE text[i]]

\* Collation::order as a sort key, for :is and :value; i;ascii-numeric takes
\* the leading digits, and a text without them sorts after every number
Digits == "0" :> 0 @@ "1" :> 1
NumericKey(text) ==
  LET run == {i \in DOMAIN text : \A j \in 1..i : text[j] \in DOMAIN Digits}
  IN IF run = {} THEN <<1, 0>>
     ELSE <<0, FoldLeft(LAMBDA n, c : 10 * n + Digits[c], 0, SubSeq(text, 1, Max(run)))>>

\* Collation::order: -1, 0 or 1
TextOrder(a, b) ==
  LET differ == {i \in DOMAIN a \cap DOMAIN b : a[i] # b[i]}
      rank(c) == CHOOSE n \in DOMAIN SvOrder : SvOrder[n] = c
  IN CASE a = b -> 0
       [] differ = {} -> IF Len(a) < Len(b) THEN -1 ELSE 1
       [] OTHER -> IF rank(a[Min(differ)]) < rank(b[Min(differ)]) THEN -1 ELSE 1

CollateOrder(collation, a, b) ==
  CASE collation = "i;ascii-numeric" ->
         LET x == NumericKey(a)  y == NumericKey(b)
         IN IF x = y THEN 0 ELSE IF x[1] < y[1] \/ (x[1] = y[1] /\ x[2] < y[2]) THEN -1 ELSE 1
    [] collation = "i;octet" -> TextOrder(a, b)
    [] OTHER -> TextOrder(Lower(a), Lower(b))

\* Rel::test
RelTest(rel, order) ==
  CASE rel = "gt" -> order = 1 [] rel = "ge" -> order # -1 [] rel = "lt" -> order = -1
    [] rel = "le" -> order # 1 [] rel = "eq" -> order = 0 [] OTHER -> order # 0

\* Collation::contains
CollateContains(collation, value, key) ==
  LET has(v, k) == \E i \in 0..(Len(v) - Len(k)) : SubSeq(v, i + 1, i + Len(k)) = k
  IN IF collation \in {"i;octet", "i;ascii-numeric"} THEN has(value, key)
     ELSE has(Lower(value), Lower(key))

\* glob_match: one row of the table per pattern character, updated in place
GlobRowStale(row, pc, text) ==
  [j \in DOMAIN row |->
     CASE j = 0 -> row[0] /\ pc = "*"
       [] pc = "*" -> row[j - 1] \/ row[j]
       [] OTHER -> (pc = "?" \/ pc = text[j]) /\ row[j - 1]]

GlobRow(row, pc, text) ==
  LET next[j \in DOMAIN row] ==
        CASE j = 0 -> row[0] /\ pc = "*"
          [] pc = "*" -> next[j - 1] \/ row[j]
          [] OTHER -> (pc = "?" \/ pc = text[j]) /\ row[j - 1]
  IN next

GlobMatch(pattern, text) ==
  FoldLeft(LAMBDA row, pc : GlobRow(row, pc, text),
           [j \in 0..Len(text) |-> j = 0], pattern)[Len(text)]

\* glob_captures and capture_rec: the shortest run for each star; the captures,
\* or none
NoMatch == [ok |-> FALSE, caps |-> <<>>]
RECURSIVE CaptureRec(_, _, _)
CaptureRec(pattern, text, caps) ==
  IF pattern = <<>> THEN (IF text = <<>> THEN [ok |-> TRUE, caps |-> caps] ELSE NoMatch)
  ELSE CASE Head(pattern) = "*" ->
         LET split(n) == CaptureRec(Tail(pattern), SubSeq(text, n + 1, Len(text)),
                                    Append(caps, SubSeq(text, 1, n)))
             fits == {n \in 0..Len(text) : split(n).ok}
         IN IF fits = {} THEN NoMatch ELSE split(Min(fits))
    [] text = <<>> -> NoMatch
    [] Head(pattern) = "?" ->
         CaptureRec(Tail(pattern), Tail(text), Append(caps, <<Head(text)>>))
    [] OTHER -> IF Head(pattern) = Head(text)
                THEN CaptureRec(Tail(pattern), Tail(text), caps) ELSE NoMatch

---------------------------------------------------------------------------
(* Addresses *)

\* AddressPart::of on local@domain: the set of the part, empty where there is none
AddressPart(part, addr) ==
  LET ats == {i \in DOMAIN addr : addr[i] = "@"}
      local == IF ats = {} THEN addr ELSE SubSeq(addr, 1, Max(ats) - 1)
      plus == {i \in DOMAIN local : local[i] = "+"}
  IN CASE part = "localpart" -> IF ats = {} THEN {} ELSE {local}
       [] part = "domain" -> IF ats = {} THEN {} ELSE {SubSeq(addr, Max(ats) + 1, Len(addr))}
       [] part = "user" -> {IF plus = {} THEN local ELSE SubSeq(local, 1, Min(plus) - 1)}
       [] part = "detail" -> IF plus = {} THEN {} ELSE {SubSeq(local, Min(plus) + 1, Len(local))}
       [] OTHER -> {addr}

---------------------------------------------------------------------------
(* Arguments *)

\* has_tag, first_str and strings
HasTag(args, tag) == \E i \in DOMAIN args : args[i] = Argument("Tag", <<<<tag>>>>)
FirstStr(args) ==
  LET strs == SelectSeq(args, LAMBDA a : a.kind = "Str")
  IN IF strs = <<>> THEN {} ELSE {strs[1].vals[1]}
Strings(args) ==
  FlattenSeq([i \in DOMAIN args |->
    IF args[i].kind \in {"Str", "StrList"} THEN args[i].vals ELSE <<>>])

\* tag_arg: the string that follows the tag, if one does
RECURSIVE TagArg(_, _)
TagArg(args, name) ==
  IF args = <<>> THEN {}
  ELSE IF Head(args) # Argument("Tag", <<<<name>>>>) THEN TagArg(Tail(args), name)
  ELSE IF Len(args) > 1 /\ args[2].kind = "Str" THEN {args[2].vals[1]}
  ELSE TagArg(SubSeq(args, 3, Len(args)), name)

\* positional_groups: the strings no tag consumes, a list as one group
RECURSIVE PositionalGroups(_, _, _)
PositionalGroups(args, skip, groups) ==
  IF args = <<>> THEN groups
  ELSE LET arg == Head(args)
       IN CASE arg.kind = "Tag" ->
                 PositionalGroups(Tail(args),
                   arg.vals[1] \in {<<"comparator">>, <<"value">>, <<"count">>}, groups)
            [] arg.kind = "StrList" \/ (arg.kind = "Str" /\ ~skip) ->
                 PositionalGroups(Tail(args), FALSE, Append(groups, arg.vals))
            [] OTHER -> PositionalGroups(Tail(args), FALSE, groups)

\* match_spec: the match type, its relation and the collation
Rels == {"gt", "ge", "lt", "le", "eq", "ne"}
MatchSpec(args) ==
  LET rel(tag) == {r \in Rels : <<r>> \in TagArg(args, tag)}
      of == CASE rel("count") # {} -> "count"
              [] rel("value") # {} -> "value"
              [] HasTag(args, "contains") -> "contains"
              [] HasTag(args, "matches") -> "matches"
              [] OTHER -> "is"
  IN [match |-> of,
      rel |-> IF of \in {"count", "value"} THEN CHOOSE r \in rel(of) : TRUE ELSE "eq",
      collation |-> CASE TagArg(args, "comparator") = {<<"i;octet">>} -> "i;octet"
                      [] TagArg(args, "comparator") = {<<"i;ascii-numeric">>} ->
                           "i;ascii-numeric"
                      [] OTHER -> "i;ascii-casemap"]

\* address_part
PartOf(args) ==
  CASE HasTag(args, "localpart") -> "localpart" [] HasTag(args, "domain") -> "domain"
    [] HasTag(args, "user") -> "user" [] HasTag(args, "detail") -> "detail"
    [] OTHER -> "all"

---------------------------------------------------------------------------
(* Tests: a result is [is, vars], since a :matches that holds sets variables *)

\* MatchSpec::test and test_simple; :matches does not ask for the collation
MatchOne(spec, value, key, vars) ==
  CASE spec.match = "matches" ->
         LET found == CaptureRec(Lower(key), Lower(value), <<>>)
             caps == [name \in {<<ToString(n)>> : n \in DOMAIN found.caps} |->
                        found.caps[CHOOSE n \in DOMAIN found.caps : <<ToString(n)>> = name]]
         IN IF found.ok THEN [is |-> TRUE, vars |-> caps @@ (<<"0">> :> value) @@ vars]
            ELSE [is |-> FALSE, vars |-> vars]
    [] spec.match = "contains" ->
         [is |-> CollateContains(spec.collation, value, key), vars |-> vars]
    [] OTHER -> [is |-> RelTest(spec.rel, CollateOrder(spec.collation, value, key)),
                 vars |-> vars]

\* match_values and header_test: value by value, key by key, up to the first
\* that holds; :count compares how many there are
RECURSIVE MatchPairs(_, _, _)
MatchPairs(spec, pairs, vars) ==
  IF pairs = <<>> THEN [is |-> FALSE, vars |-> vars]
  ELSE LET first == MatchOne(spec, Head(pairs).value, Head(pairs).key, vars)
       IN IF first.is THEN first ELSE MatchPairs(spec, Tail(pairs), vars)

MatchValues(spec, values, keys, vars) ==
  IF spec.match = "count"
  THEN [is |-> \E k \in DOMAIN keys :
                 RelTest(spec.rel, CollateOrder(spec.collation, <<ToString(Len(values))>>, keys[k])),
        vars |-> vars]
  ELSE MatchPairs(spec, FlattenSeq([v \in DOMAIN values |->
         [k \in DOMAIN keys |-> [value |-> values[v], key |-> keys[k]]]]), vars)

\* Message::header_values, by name without regard to case
HeaderValues(message, name) ==
  LET named == SelectSeq(message.headers, LAMBDA h : Lower(h.name) = Lower(name))
  IN [i \in DOMAIN named |-> named[i].value]

\* header_test, address_test and envelope_test: split_names_keys, then the
\* values of the names, cut down to the address part
NamedTest(test, message, vars) ==
  LET groups == PositionalGroups(test.args, FALSE, <<>>)
      names == groups[1]
      keys == FlattenSeq(Tail(groups))
      raw(name) == CASE test.name # "envelope" -> HeaderValues(message, name)
                     [] name = <<"from">> -> <<message.from>>
                     [] name = <<"to">> -> message.to
                     [] OTHER -> <<>>
      part == IF test.name = "header" THEN "all" ELSE PartOf(test.args)
      values == FlattenSeq([n \in DOMAIN names |-> raw(names[n])])
      parts == FlattenSeq([v \in DOMAIN values |-> SetToSeq(AddressPart(part, values[v]))])
  IN IF Len(groups) < 2 THEN [is |-> FALSE, vars |-> vars]
     ELSE MatchValues(MatchSpec(test.args), parts, keys, vars)

\* date_test and currentdate_test: the parts the clock or a header's date has
DateTest(test, message) ==
  LET strs == FlattenSeq(PositionalGroups(test.args, FALSE, <<>>))
      skip == IF test.name = "date" THEN 1 ELSE 0
      dates == IF test.name = "date"
               THEN {message.headers[h].date : h \in {i \in DOMAIN message.headers :
                       Lower(message.headers[i].name) = Lower(strs[1])}}
               ELSE {message.now}
  IN /\ Len(strs) >= skip + 2
     /\ \E date \in dates : strs[skip + 1][1] \in DOMAIN date /\
          \E k \in (skip + 2)..Len(strs) :
            LET spec == MatchSpec(test.args)
            IN spec.match # "count" /\
               MatchOne(spec, date[strs[skip + 1][1]], strs[k], <<>>).is

\* size_test: the first number, over or under it
SizeTest(args, message) ==
  LET numbers == SelectSeq(args, LAMBDA a : a.kind = "Number")
      limit == NumericKey(numbers[1].vals[1])[2]
  IN /\ numbers # <<>>
     /\ \/ HasTag(args, "over") /\ message.size > limit
        \/ ~HasTag(args, "over") /\ HasTag(args, "under") /\ message.size < limit

\* eval_test: an unknown test is false; all and any stop early
RECURSIVE EvalTest(_, _, _), EvalAll(_, _, _), EvalAny(_, _, _)
EvalTest(test, message, vars) ==
  CASE test.name = "true" -> [is |-> TRUE, vars |-> vars]
    [] test.name = "not" ->
         LET inner == EvalTest(test.children[1], message, vars)
         IN [is |-> ~inner.is, vars |-> inner.vars]
    [] test.name = "allof" -> EvalAll(test.children, message, vars)
    [] test.name = "anyof" -> EvalAny(test.children, message, vars)
    [] test.name = "exists" ->
         [is |-> \A i \in DOMAIN Strings(test.args) :
                   HeaderValues(message, Strings(test.args)[i]) # <<>>, vars |-> vars]
    [] test.name = "size" -> [is |-> SizeTest(test.args, message), vars |-> vars]
    [] test.name \in {"header", "address", "envelope"} -> NamedTest(test, message, vars)
    [] test.name = "body" ->
         MatchPairs(MatchSpec(test.args),
           LET keys == FlattenSeq(PositionalGroups(test.args, FALSE, <<>>))
           IN [k \in DOMAIN keys |-> [value |-> message.body, key |-> keys[k]]], vars)
    [] test.name \in {"date", "currentdate"} ->
         [is |-> DateTest(test, message), vars |-> vars]
    [] OTHER -> [is |-> FALSE, vars |-> vars]
EvalAll(tests, message, vars) ==
  IF tests = <<>> THEN [is |-> TRUE, vars |-> vars]
  ELSE LET first == EvalTest(Head(tests), message, vars)
       IN IF first.is THEN EvalAll(Tail(tests), message, first.vars) ELSE first
EvalAny(tests, message, vars) ==
  IF tests = <<>> THEN [is |-> FALSE, vars |-> vars]
  ELSE LET first == EvalTest(Head(tests), message, vars)
       IN IF first.is THEN first ELSE EvalAny(Tail(tests), message, first.vars)

---------------------------------------------------------------------------
(* Interpreter *)

\* expand: ${name} gives the value, or nothing where it is not set; what is
\* not closed stays
RECURSIVE Expand(_, _)
Expand(text, vars) ==
  LET opens == {i \in 1..(Len(text) - 1) : SubSeq(text, i, i + 1) = <<"$", "{">>}
      start == Min(opens)
      closes == {i \in (start + 2)..Len(text) : text[i] = "}"}
      name == SubSeq(text, start + 2, Min(closes) - 1)
  IN IF opens = {} THEN text
     ELSE IF closes = {} THEN text
     ELSE SubSeq(text, 1, start - 1) \o (IF name \in DOMAIN vars THEN vars[name] ELSE <<>>)
            \o Expand(SubSeq(text, Min(closes) + 1, Len(text)), vars)

NoOutcome == [keep |-> FALSE, fileinto |-> <<>>, redirects |-> <<>>, discarded |-> FALSE,
              reject |-> FALSE, vacation |-> FALSE, flags |-> <<>>, cancelled |-> FALSE,
              stopped |-> FALSE, vars |-> [n \in {} |-> <<>>]]

\* parse_vacation: there is a reason, a string no tag consumes; the values of
\* :subject, :from, :handle and :addresses are not it
RECURSIVE ParseVacation(_, _)
ParseVacation(args, reason) ==
  IF args = <<>> THEN reason
  ELSE LET arg == Head(args)
           valued == arg.kind = "Tag" /\ arg.vals[1] \in
             {<<"days">>, <<"subject">>, <<"from">>, <<"handle">>, <<"addresses">>}
       IN ParseVacation(SubSeq(args, IF valued THEN 3 ELSE 2, Len(args)),
                        reason \/ arg.kind = "Str")

\* run, one action: an unsupported one does nothing, :copy leaves the
\* implicit keep in place
Perform(command, out) ==
  LET name == command.name
      args == command.args
      given == FirstStr(args) # {}
      text == Expand(CHOOSE t \in FirstStr(args) : TRUE, out.vars)
      cancel == out.cancelled \/ ~HasTag(args, "copy")
      flags == Strings(args)
  IN CASE name = "keep" -> [out EXCEPT !.keep = TRUE]
       [] name = "discard" -> [out EXCEPT !.discarded = TRUE, !.cancelled = TRUE]
       [] name \in {"reject", "ereject"} /\ given ->
            [out EXCEPT !.reject = TRUE, !.cancelled = TRUE]
       [] name = "set" /\ Len(flags) >= 2 ->
            [out EXCEPT !.vars = (flags[1] :> Expand(flags[2], out.vars)) @@ @]
       [] name = "vacation" -> [out EXCEPT !.vacation = ParseVacation(args, FALSE)]
       [] name = "fileinto" /\ given ->
            [out EXCEPT !.fileinto = Append(@, text), !.cancelled = cancel]
       [] name = "redirect" /\ given ->
            [out EXCEPT !.redirects = Append(@, text), !.cancelled = cancel]
       [] name = "stop" -> [out EXCEPT !.stopped = TRUE]
       [] name = "setflag" -> [out EXCEPT !.flags = flags]
       [] name = "addflag" ->
            [out EXCEPT !.flags = FoldLeft(LAMBDA fs, f :
                                    IF f \in ToSet(fs) THEN fs ELSE Append(fs, f), @, flags)]
       [] name = "removeflag" ->
            [out EXCEPT !.flags = SelectSeq(@, LAMBDA f : f \notin ToSet(flags))]
       [] OTHER -> out

\* evaluate: the implicit keep, unless an action took its place
ImplicitKeepEager(out) == out.keep \/ (~out.cancelled /\ ~out.stopped)

ImplicitKeep(out) == out.keep \/ ~out.cancelled

\* run: the first branch that holds, and nothing after a stop
RECURSIVE RunScript(_, _, _), RunBranches(_, _, _, _)
RunScript(commands, message, out) ==
  IF commands = <<>> \/ out.stopped THEN out
  ELSE LET command == Head(commands)
       IN RunScript(Tail(commands), message,
            IF command.name = "if"
            THEN RunBranches(command.branches, command.otherwise, message, out)
            ELSE Perform(command, out))
RunBranches(branches, otherwise, message, out) ==
  IF branches = <<>>
  THEN (IF otherwise = <<>> THEN out ELSE RunScript(otherwise[1], message, out))
  ELSE LET test == EvalTest(Head(branches).test, message, out.vars)
           seen == [out EXCEPT !.vars = test.vars]
       IN IF test.is THEN RunScript(Head(branches).body, message, seen)
          ELSE RunBranches(Tail(branches), otherwise, message, seen)

EvaluateScript(script, message) ==
  LET out == RunScript(script, message, NoOutcome)
  IN [out EXCEPT !.keep = ImplicitKeep(out)]

---------------------------------------------------------------------------
(* Properties *)

\* The grammar, written out: a tree back to the tokens it stands for.
PrintArg(arg) ==
  CASE arg.kind = "Tag" -> <<[k |-> "tag", v |-> arg.vals[1]]>>
    [] arg.kind = "Number" -> <<[k |-> "num", v |-> arg.vals[1]]>>
    [] arg.kind = "Str" -> <<[k |-> "str", v |-> arg.vals[1]]>>
    [] OTHER -> <<Punct("[")>> \o FlattenSeq([i \in DOMAIN arg.vals |->
                  (IF i = 1 THEN <<>> ELSE <<Punct(",")>>)
                    \o <<[k |-> "str", v |-> arg.vals[i]]>>]) \o <<Punct("]")>>
PrintArgs(args) == FlattenSeq([i \in DOMAIN args |-> PrintArg(args[i])])

RECURSIVE PrintTest(_), PrintScript(_)
PrintTest(test) ==
  <<Id(test.name)>> \o
  (IF test.name \in {"allof", "anyof"}
   THEN <<Punct("(")>> \o FlattenSeq([i \in DOMAIN test.children |->
          (IF i = 1 THEN <<>> ELSE <<Punct(",")>>) \o PrintTest(test.children[i])])
          \o <<Punct(")")>>
   ELSE IF test.name = "not" THEN PrintTest(test.children[1])
   ELSE PrintArgs(test.args))
PrintScript(commands) ==
  FlattenSeq([c \in DOMAIN commands |->
    LET command == commands[c]
        block(body) == <<Punct("{")>> \o PrintScript(body) \o <<Punct("}")>>
    IN IF command.name # "if"
       THEN <<Id(command.name)>> \o PrintArgs(command.args) \o <<Punct(";")>>
       ELSE FlattenSeq([b \in DOMAIN command.branches |->
              <<Id(IF b = 1 THEN "if" ELSE "elsif")>> \o PrintTest(command.branches[b].test)
                \o block(command.branches[b].body)])
            \o (IF command.otherwise = <<>> THEN <<>>
                ELSE <<Id("else")>> \o block(command.otherwise[1]))])

\* A script the parser accepts is the one it reads: every token of it has its
\* place in the tree, whatever tokens follow each other (parser.rs).
ParsesExactly ==
  \A n \in 0..SvMaxTokens : \A toks \in [1..n -> SvTokens] :
    \A script \in Parse(toks) : PrintScript(script) = toks

\* A string between quotes, and a text: block, denote the text that was quoted
\* or dot-stuffed, for every short text (lexer.rs).
LexesBack ==
  /\ \A text \in Texts(SvMaxText) :
       LET quoted == FlattenSeq([i \in DOMAIN text |->
                       IF text[i] \in {"\"", "\\"} THEN <<"\\", text[i]>> ELSE <<text[i]>>])
           lexed == LexQuoted(Append(quoted, "\""), <<>>)
       IN lexed.ok /\ lexed.value = text /\ lexed.rest = <<>>
  /\ \A a, b \in Texts(2) :
       LET stuffed(line) == IF Len(line) > 0 /\ line[1] = "." THEN <<".">> \o line ELSE line
           lexed == LexMultiline(<<stuffed(a), stuffed(b), <<".">>, a>>)
       IN lexed.ok /\ lexed.value = <<a, b>>
  /\ \A n \in 0..(SvNumberMax + 1), q \in {"", "K"} :
       LexNumber(n, q) \in -1..SvNumberMax /\ (LexNumber(n, q) = -1 <=>
         n * (IF q = "K" THEN 1024 ELSE 1) > SvNumberMax)

\* The table of glob_match and the backtracking of glob_captures accept the
\* same texts, those the wildcards can be filled in to give, and the captures
\* fill them in (compare.rs).
GlobsAgree ==
  \A pattern \in Texts(SvMaxText), text \in Texts(SvMaxText) :
    LET found == CaptureRec(pattern, text, <<>>)
        wild == {i \in DOMAIN pattern : pattern[i] \in {"*", "?"}}
        nth(i) == Cardinality({j \in wild : j <= i})
    IN /\ found.ok = GlobMatch(pattern, text)
       /\ (wild = {} => found.ok = (pattern = text))
       /\ found.ok => FlattenSeq([i \in DOMAIN pattern |->
            IF i \in wild THEN found.caps[nth(i)] ELSE <<pattern[i]>>]) = text
       /\ found.ok => \A i \in wild : pattern[i] = "?" => Len(found.caps[nth(i)]) = 1

\* No script makes a message vanish: whatever the tests make of it and wherever
\* a stop falls, it is kept, filed, redirected or rejected unless a discard was
\* carried out (interp.rs: "an unsupported script fails safe"), and what a
\* script filed is what the message matched.
NeverVanishes ==
  \A script \in SvScripts, message \in SvMessages :
    \E out \in {EvaluateScript(parsed, message) : parsed \in Parse(script)} :
       \/ out.keep \/ out.fileinto # <<>> \/ out.redirects # <<>> \/ out.reject
       \/ out.discarded

\* A string of a test is the argument of a tag or one of the names and keys,
\* never both (compare.rs: "must not be mistaken for a test's header names or
\* keys"): the tags of a test and its groups take no more strings than it has.
StringsTakenOnce ==
  \A n \in 0..SvMaxTokens : \A toks \in [1..n -> {t \in SvTokens : t.k \in {"tag", "str"}}] :
    \A read \in Arguments(toks, 1, <<>>) :
      Len(PositionalGroups(read.it, FALSE, <<>>)) + Cardinality(TagArg(read.it, "comparator"))
        <= Cardinality({i \in DOMAIN read.it : read.it[i].kind = "Str"})

\* The user and detail of a subaddress put together give the local part back
\* (eval.rs).
PartsRecombine ==
  \A addr \in Texts(SvMaxText) :
    LET local == AddressPart("localpart", addr)
        user == AddressPart("user", addr)
        detail == AddressPart("detail", addr)
    IN \A l \in local, u \in user :
         IF detail = {} THEN u = l ELSE \E d \in detail : u \o <<"+">> \o d = l
=============================================================================
