-------------------------- MODULE MCProjectService ---------------------------
(* ProjectService on a small instance, without calculations and layers: two   *)
(* projects that share a duct and a fitting.                                  *)
EXTENDS ProjectService, TLC
=============================================================================
