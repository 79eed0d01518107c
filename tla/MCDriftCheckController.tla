------------------------ MODULE MCDriftCheckController ------------------------
(* Constants of DriftCheckController for TLC. *)
EXTENDS DriftCheckProperties, TLC

CONSTANTS w1, w2, deploy

(* In sync, drifted, and drifted another way. *)
InSync == deploy :> "unchanged"
Changed == deploy :> "changed"
Deleted == deploy :> "deleted"

MCResources == {deploy}
TwoReadings == {InSync, Changed}
ThreeReadings == {InSync, Changed, Deleted}

MCSpec(hooks, valid) == [webhooks |-> hooks, selectorValid |-> valid]
OneHook == {MCSpec(<<w1>>, TRUE)}
TwoHooks == {MCSpec(<<w1, w2>>, TRUE)}
AnySpec == {MCSpec(<<>>, TRUE), MCSpec(<<w1, w2>>, TRUE), MCSpec(<<w1>>, FALSE)}

InvalidOrOneHook == {MCSpec(<<w1>>, TRUE), MCSpec(<<w1>>, FALSE)}

(* Bound: a third edit is one that creates a deleted check again. *)
ThirdEditRecreates ==
    spent.edits = 3 => \A c \in Checks : api[c] # Absent /\ api[c].generation = 1

(* The replicas are interchangeable; runs that check liveness do without. *)
ReplicaSymmetry == Permutations(Replicas)

=============================================================================
