---------------------------- MODULE MCInbound ----------------------------
(* Values of the constants of Inbound for TLC. *)
EXTENDS Inbound

Command(do, to, copy) == [do |-> do, to |-> to, copy |-> copy]
Keep == Command("keep", "", FALSE)
Discard == Command("discard", "", FALSE)
Reject == Command("reject", "", FALSE)
Vacation == Command("vacation", "", FALSE)
File(name) == Command("fileinto", name, FALSE)
FileCopy(name) == Command("fileinto", name, TRUE)
Redirect == Command("redirect", "", FALSE)
RedirectCopy == Command("redirect", "", TRUE)

Message(from, rcpts, auth) ==
    [from |-> from, rcpts |-> rcpts, auth |-> auth, hops |-> 0, automated |-> FALSE,
     noDsn |-> {}, rule |-> "none"]

MCNoFilter == <<Command("none", "", FALSE)>>

\* Two accounts, an alias of both that is also a list, a remote address and an
\* SRS return.
MCMembers == [r1 |-> {1}, r2 |-> {2}, team |-> {1, 2}, out |-> {}, srs |-> {}]
MCForwarding == <<"also", "only">>

\* The first connection may carry any kind of message, the second an
\* authenticated one from the same sender.
MCMails ==
    << { Message("s", <<"r1", "r2">>, FALSE),
         [Message("s", <<"r1", "team">>, FALSE) EXCEPT !.rule = "Rule"],
         [Message("null", <<"r2", "srs">>, FALSE) EXCEPT !.automated = TRUE],
         [Message("s", <<"r1", "out">>, TRUE) EXCEPT !.noDsn = {"r1"}, !.hops = 1],
         [Message("s", <<"r2">>, TRUE) EXCEPT !.hops = 2],
         [Message("s", <<"r2">>, TRUE) EXCEPT !.rule = "a/b"] },
       { Message("s", <<"r1">>, TRUE) } >>
MCScripts ==
    << {<<Keep, Vacation>>, <<FileCopy("Filed"), Redirect>>, <<Reject>>},
       {MCNoFilter, <<Discard, File("Filed"), RedirectCopy>>} >>

\* A filter that files into a folder below another.
MCScriptsUnsafe == [a \in Accounts |-> {MCNoFilter, <<File("a/b")>>}]
MCMaxAttempts == <<3, 1>>
==========================================================================
