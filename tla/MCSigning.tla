----------------------------- MODULE MCSigning -----------------------------
(* Small instances of the signing path for TLC. *)
EXTENDS Signing, TLC

CONSTANTS
    wal, key, a1, a2, b1, b2, MCLastTick, MCRates

\* a1 carries lifetime limits of two operations and two signatures, and the
\* rolling windows of the run; a2 is an Exact approval for the one content b1.
MCWallet == [a \in Approvals |-> wal]
MCEpoch == [a \in Approvals |-> 0]
MCTerms ==
    [a \in Approvals |->
        [key |-> key, notBefore |-> 1, expires |-> MCLastTick + 1,
         maxOperations |-> IF a = a1 THEN 2 ELSE 1,
         maxSignatures |-> IF a = a1 THEN 2 ELSE 1,
         operationRates |-> IF a = a1 THEN MCRates ELSE {},
         signatureRates |-> {}, valueWindows |-> FALSE]]
MCCount == [b \in Bindings |-> IF b = b1 THEN 1 ELSE 2]
MCAdmits == [a \in Approvals |-> IF a = a1 THEN Bindings ELSE {b1}]
MCWindows == {[notBefore |-> 1, expires |-> MCLastTick + 1]}

MCNoRates == {}
MCOnePerTwoTicks == {[duration |-> 2, maximum |-> 1]}

Symmetry ==
    Permutations(Operations) \union Permutations(Attempts)
      \union Permutations(Workers)
=============================================================================
