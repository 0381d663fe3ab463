--------------------------- MODULE MCSqliteStores ----------------------------
(* Processes, ids and fingerprints are interchangeable: nothing orders them. *)
EXTENDS SqliteStores, TLC

MCSymmetry == Permutations(Calls) \cup Permutations(Prints) \cup Permutations(Ids)
=============================================================================
