------------------------ MODULE MCIncidentCorrelation ------------------------
(***************************************************************************)
(* Instances of IncidentCorrelation for TLC.                               *)
(***************************************************************************)
EXTENDS IncidentCorrelation, TLC

CONSTANTS i1, i2, i3, e1, e2, e3, e4, k1, k2

IncidentSymmetry == Permutations(Incident)

\* A storm of one key, two events apart and one between them, and an event of another key.
StormKey == e1 :> k1 @@ e2 :> k1 @@ e3 :> k1 @@ e4 :> k2
Storm == e1 :> 1 @@ e2 :> 4 @@ e3 :> 3 @@ e4 :> 3
StormSeverity == e1 :> 2 @@ e2 :> 0 @@ e3 :> 3 @@ e4 :> 1

\* Policies route two of them and suppress the last.
StormPolicy == e1 :> {} @@ e2 :> {"oncall"} @@ e3 :> {"oncall", "mock"} @@ e4 :> {}

\* Copies of the first of them come after it.
StormCopies == e1 :> 1 @@ e2 :> 0 @@ e3 :> 0 @@ e4 :> 0

\* Two events of one key, and one policy for both.
Pair == e1 :> 1 @@ e2 :> 2
PairKey == e1 :> k1 @@ e2 :> k1
PairSeverity == e1 :> 1 @@ e2 :> 2
PairCopies == e1 :> 1 @@ e2 :> 0
PairPolicy == e1 :> {"oncall"} @@ e2 :> {"oncall"}
=============================================================================
