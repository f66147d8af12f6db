---------------------------- MODULE MCProjectHook -----------------------------
(* One component and two projects, which share a duct and a fitting as the    *)
(* projects of the sample page do.                                            *)
EXTENDS ProjectHook, TLC

Symmetry == Permutations(Content)
=============================================================================
