---------------------------- MODULE MCDerivation ----------------------------
(* A small instance of the derivation registry for TLC. *)
EXTENDS DerivationRegistry, TLC

CONSTANTS both, evm, sol, p, q

MCFamilies == both :> {"evm", "sol"} @@ evm :> {"evm"} @@ sol :> {"sol"}
MCRole == both :> p @@ evm :> q @@ sol :> p
=============================================================================
