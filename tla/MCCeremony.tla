---------------------------- MODULE MCCeremony ----------------------------
(* Small instances of the ceremonies for TLC. *)
EXTENDS Ceremony, TLC

CONSTANTS w1, a1, MCExpires

\* The terms of a1 are of epoch 0, those of any other approval of epoch 1.
MCWallet == [a \in Approvals |-> w1]
MCEpoch == [a \in Approvals |-> IF a = a1 THEN 0 ELSE 1]
MCApprovalExpires == [a \in Approvals |-> MCExpires]

Symmetry == Permutations(Operations) \union Permutations(Credentials)
=============================================================================
