-------------------------- MODULE MCOfflineDatabase --------------------------
(* OfflineDatabase on a small instance; projects and contents are symmetric.  *)
EXTENDS OfflineDatabase, TLC

Symmetry == Permutations(Project) \cup Permutations(Content) \cup Permutations(Segment)

=============================================================================
