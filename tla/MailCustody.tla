---------------------------- MODULE MailCustody ----------------------------
(***************************************************************************)
(* What a mail queue promises, with no spool, no worker and no crash: the  *)
(* server takes custody of a message before it confirms it to the client,  *)
(* and gives custody up only when each addressed recipient has a copy, is  *)
(* named to the sender, or is excused (suppressed, no notice owed, a       *)
(* notice that could not be handed over), or when an operator withdraws    *)
(* the message.  OutboundQueue implements this specification.              *)
(***************************************************************************)
CONSTANTS
    Ids,          \* the messages offered
    Recipients    \* the addresses they may name

VARIABLES
    taken,        \* messages the server took custody of
    confirmed,    \* messages whose client was told so
    held,         \* messages in the server's custody now
    withdrawn,    \* messages an operator withdrew
    addressed,    \* addressed[id]: the recipients of id
    got,          \* got[id]: recipients with a copy
    told,         \* told[id]: recipients whose failure the sender was told
    excused       \* excused[id]: recipients owed neither

custodyVars == <<taken, confirmed, held, withdrawn, addressed, got, told, excused>>

Init ==
    /\ taken = {} /\ confirmed = {} /\ held = {} /\ withdrawn = {}
    /\ addressed \in [Ids -> SUBSET Recipients]
    /\ got = [id \in Ids |-> {}] /\ told = [id \in Ids |-> {}]
    /\ excused \in [Ids -> SUBSET Recipients]

\* The server takes custody, once.
Take(id) ==
    /\ id \notin taken
    /\ taken' = taken \cup {id} /\ held' = held \cup {id}
    /\ UNCHANGED <<confirmed, withdrawn, addressed, got, told, excused>>

\* The client is told, never before custody is taken.
Confirm(id) ==
    /\ id \in taken
    /\ confirmed' = confirmed \cup {id}
    /\ UNCHANGED <<taken, held, withdrawn, addressed, got, told, excused>>

\* Some recipients get a copy.  A withdrawal does not recall an attempt that is
\* under way.
Deliver(id, S) ==
    /\ id \in held \cup withdrawn /\ S \subseteq addressed[id]
    /\ got' = [got EXCEPT ![id] = @ \cup S]
    /\ UNCHANGED <<taken, confirmed, held, withdrawn, addressed, told, excused>>

\* The sender is told of some recipients.
Tell(id, S) ==
    /\ id \in held
    /\ told' = [told EXCEPT ![id] = @ \cup S]
    /\ UNCHANGED <<taken, confirmed, held, withdrawn, addressed, got, excused>>

\* An attempt finds out anew who is excused.
Excuse(id, S) ==
    /\ id \in held
    /\ excused' = [excused EXCEPT ![id] = S]
    /\ UNCHANGED <<taken, confirmed, held, withdrawn, addressed, got, told>>

\* Custody ends: nobody is owed anything, or an operator withdrew the message.
Release(id) ==
    /\ id \in held
    /\ addressed[id] \subseteq got[id] \cup told[id] \cup excused[id] \/ id \in withdrawn
    /\ held' = held \ {id}
    /\ UNCHANGED <<taken, confirmed, withdrawn, addressed, got, told, excused>>

\* An operator withdraws the message.
Withdraw(id) ==
    /\ id \in taken
    /\ withdrawn' = withdrawn \cup {id} /\ held' = held \ {id}
    /\ UNCHANGED <<taken, confirmed, addressed, got, told, excused>>

\* A withdrawal raced an attempt, which puts the message back.
Return(id) ==
    /\ id \in withdrawn
    /\ held' = held \cup {id}
    /\ UNCHANGED <<taken, confirmed, withdrawn, addressed, got, told, excused>>

Next ==
    \E id \in Ids :
        \/ Take(id) \/ Confirm(id) \/ Release(id) \/ Withdraw(id) \/ Return(id)
        \/ \E S \in SUBSET Recipients : Deliver(id, S) \/ Tell(id, S) \/ Excuse(id, S)

Spec == Init /\ [][Next]_custodyVars
=============================================================================
