---------------------------- MODULE MCRevocation ----------------------------
(* Small instances of revocation for TLC. *)
EXTENDS Revocation, TLC

CONSTANTS a1, a2, wal

\* Two approvals of one wallet, sealed for consecutive epochs: a2 can be
\* activated first, which sets the wallet's epoch, or only after a revoke_all.
MCWallet == [a \in Approvals |-> wal]
MCEpoch == [a \in Approvals |-> IF a = a1 THEN 0 ELSE 1]

Symmetry == Permutations(RevocationIds)
=============================================================================
