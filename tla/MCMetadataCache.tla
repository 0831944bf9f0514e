--------------------------- MODULE MCMetadataCache ---------------------------
(***************************************************************************)
(* Instances of MetadataCache for TLC.                                     *)
(***************************************************************************)
EXTENDS MetadataCache, TLC

Symmetry == Permutations(Keys) \cup Permutations(Isolates)
              \cup Permutations(Procs)

\* Bound of the run: only one key is overwritten, the other is only loaded.
OneKeyIsPut == Cardinality({k \in Keys : kv[k] > 0}) <= 1
==============================================================================
