-------------------------- MODULE MCOfflineService ---------------------------
(* OfflineService on a small instance; projects and contents are symmetric.  *)
EXTENDS OfflineService, TLC

Symmetry == Permutations(Content) \cup Permutations(Project)

=============================================================================
