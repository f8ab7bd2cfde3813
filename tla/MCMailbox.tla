----------------------------- MODULE MCMailbox -----------------------------
(* Small instances of Mailbox. *)
EXTENDS Mailbox, TLC

CONSTANTS s1, s2

Connections == Permutations(Sessions)

(* Nothing but the types is claimed once a handler has been cut short, so  *)
(* the search goes no further there.                                       *)
NotCutShort == disturbed \intersect {"crash", "fault"} = {}
============================================================================
