----------------------------- MODULE MCIdentity -----------------------------
(* Identity on a small instance: three processes, two identifiers. *)
EXTENDS Identity, TLC

CONSTANTS email, uid, e1, e2, e3, e4, p1, p2, p3

MCIdents == {uid, email}
MCRecords == {{uid}, {email}, {uid, email}, {}}
MCRank == (uid :> 1) @@ (email :> 5)
MCEntities == {e1, e2, e3, e4}
Symmetry == Permutations(MCEntities) \cup Permutations(Procs)
=============================================================================
