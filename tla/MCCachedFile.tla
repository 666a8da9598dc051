---------------------------- MODULE MCCachedFile ----------------------------
(* CachedFile with contents that are alike. *)
EXTENDS CachedFile, TLC

Alike == Permutations(Pages)

(* The history is not told apart: no step depends on the call before, and  *)
(* TLC checks each step it generates, those to states it knows included.   *)
AllButCall == <<file, held>>
=============================================================================
