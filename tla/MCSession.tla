----------------------------- MODULE MCSession -----------------------------
(* A small instance of the Signer process for TLC. *)
EXTENDS Session

CONSTANTS k1, k2

\* The first key, a planned rotation to the second, and the second alone without
\* its predecessor's public key.
MCConfigs ==
    {[current |-> k1, previous |-> NoKey, historical |-> {}],
     [current |-> k2, previous |-> k1, historical |-> {}],
     [current |-> k2, previous |-> NoKey, historical |-> {}]}
=============================================================================
