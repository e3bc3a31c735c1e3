-------------------------- MODULE MCEventPipeline ---------------------------
(***************************************************************************)
(* Instances of EventPipeline for TLC.                                     *)
(***************************************************************************)
EXTENDS EventPipeline, TLC

CONSTANTS r1, r2, k1

OneKey == r1 :> k1
SameKey == r1 :> k1 @@ r2 :> k1

TwiceOnce == r1 :> 2 @@ r2 :> 1
Twice == r1 :> 2
=============================================================================
