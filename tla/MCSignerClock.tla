--------------------------- MODULE MCSignerClock ---------------------------
(* Small instances of the durable clock for TLC. *)
EXTENDS SignerClock

CONSTANTS a1, a2

\* a1 expires before a2; neither at once.
MCExpiry == [a \in Approvals |-> IF a = a1 THEN 1 ELSE 2]
=============================================================================
