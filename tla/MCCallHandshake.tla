-------------------------- MODULE MCCallHandshake --------------------------
(* CallHandshake for TLC: the caller's device, and the callee's one or two.*)
EXTENDS CallHandshake, TLC

CONSTANTS pc, phone, laptop

MCOwner == [d \in Devices |-> IF d = pc THEN 1 ELSE 2]
\* One call, or one from either side: at the same time or one after the other.
MCPlacer == [i \in Calls |-> IF i = 1 THEN pc ELSE phone]
=============================================================================
