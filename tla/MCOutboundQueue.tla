-------------------------- MODULE MCOutboundQueue --------------------------
(* Small instances of OutboundQueue for TLC. *)
EXTENDS OutboundQueue, TLC

CONSTANTS r1, r2, r3, r4, alice

\* r1, r2 and r3 are in three domains, contacted in this order; r4 cannot be
\* parsed back into an address.
MCDomainOf == (r1 :> 1) @@ (r2 :> 2) @@ (r3 :> 3) @@ (r4 :> 1)

To(from, rcpts, noDsn) == [from |-> from, rcpts |-> rcpts, noDsn |-> noDsn]

\* Every kind of message that matters to the worker.
MCMessages ==
    {To(alice, {r1, r2}, {r2}), To(alice, {r2}, {r2}), To(alice, {r1, r3}, {}),
     To(alice, {r1, r4}, {}), To(NullSender, {r1, r2}, {})}

\* One message for two domains.
MCPair == {To(alice, {r1, r2}, {})}
=============================================================================
