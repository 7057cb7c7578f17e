--------------------------- MODULE MCConstellation ---------------------------
(* Instances of Constellation for TLC; the .cfg files give the bounds.       *)
EXTENDS Constellation

\* Urls and history states are only ever copied and compared.
Interchangeable == Permutations(Urls) \cup Permutations(States)
=============================================================================
