------------------------------ MODULE MCBackup ------------------------------
(* A small instance of backup and restore for TLC: two hosts, two wallets. *)
EXTENDS Backup, TLC

CONSTANTS a1, a2, o1, o2

\* a1 stands from the start; a2 is for the epoch after a revoke_all.
MCEpoch == a1 :> 0 @@ a2 :> 1
MCApproval == o1 :> a1 @@ o2 :> a1
Symmetry ==
    Permutations(Wallets) \union Permutations(Updates) \union Permutations(Revocations)
=============================================================================
