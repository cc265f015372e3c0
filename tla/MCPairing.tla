----------------------------- MODULE MCPairing -----------------------------
(* A small instance of pairing for TLC. *)
EXTENDS Pairing, TLC

CONSTANTS w, l, r, n, p1, p2

MCWallet == l :> w @@ r :> w @@ n :> w
MCSurface == l :> "local" @@ r :> "remote" @@ n :> "local"
\* Up, and up while it is being closed.  (One without a route yet has the effect
\* of the last; what the report of a closed surface leads to, Restart leads to.)
MCReports ==
    {[tls |-> TRUE, routing |-> TRUE, closed |-> d] : d \in BOOLEAN}
Symmetry == Permutations({l, n})
MCDestination == p1 :> "remote" @@ p2 :> "local"
=============================================================================
