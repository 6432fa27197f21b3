------------------------- MODULE MCContractPublisher -------------------------
(* ContractPublisher on small instances. *)
EXTENDS ContractPublisher, TLC

CONSTANTS d1, d2, p1, p2

\* Two documents of two projects, handed over any number of times.
OwnProject == d1 :> p1 @@ d2 :> p2
OneProject == d1 :> p1

CloserSymmetry == Permutations(Closers)
==============================================================================
