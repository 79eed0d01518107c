------------------------------ MODULE DriftStatus ------------------------------
(***************************************************************************)
(* The values a DriftCheck's status is made of, and the pure functions     *)
(* that compute them from one evaluation: summarize of                     *)
(* internal/controller/driftcheck_controller.go and driftCount, driftHash  *)
(* and buildEvent of internal/controller/notify.go.                        *)
(***************************************************************************)
EXTENDS Naturals, FiniteSets

CONSTANT Resources       \* the cluster resources an evaluation may compare

ASSUME ResourcesFinite == IsFiniteSet(Resources)

(* What kube-diff says of one compared resource. *)
DriftOutcomes == {"changed", "new", "deleted"}
Outcomes == DriftOutcomes \cup {"unchanged"}

(* The result list of one comparison: every compared resource, once, with  *)
(* its outcome.  The engine may compare any subset of the resources.       *)
AllReadings == UNION {[S -> Outcomes] : S \in SUBSET Resources}

-----------------------------------------------------------------------------
(* Bug: unchanged resources are listed too. *)
Drifted_All(reading) == {<<x, reading[x]>> : x \in DOMAIN reading}

(* status.driftedResources: identity and status of what is not unchanged.  *)
Drifted(reading) ==
    {<<x, reading[x]>> : x \in {y \in DOMAIN reading : reading[y] # "unchanged"}}

Tally(reading, outcome) == Cardinality({x \in DOMAIN reading : reading[x] = outcome})

(* status.summary: a tally over every compared resource. *)
Summarize(reading) == [o \in Outcomes |-> Tally(reading, o)]

NoSummary == [o \in Outcomes |-> 0]

DriftSets == SUBSET (Resources \X DriftOutcomes)
Summaries == [Outcomes -> Nat]

DriftCount(summary) == summary["changed"] + summary["new"] + summary["deleted"]

-----------------------------------------------------------------------------
(* status.lastNotifiedHash.  SHA-256 over the sorted keys is taken to tell *)
(* drift sets apart, so the digest of a set is the set itself, wrapped:    *)
(* the empty string that means "never notified" stays distinct from the    *)
(* digest of the empty drift set.                                          *)
NeverNotified == {}
DriftHash(drifted) == {drifted}
Fingerprints == SUBSET DriftSets

(* A notification, as a webhook receives it: resolved, or the drift. *)
BuildEvent(drifted, resolved) ==
    [resolved |-> resolved, drifted |-> IF resolved THEN {} ELSE drifted]

Events == [resolved : BOOLEAN, drifted : DriftSets]

-----------------------------------------------------------------------------
(* The Ready condition: "Unknown" stands for a condition not yet set. *)
Reasons == {"None", "DriftEvaluated", "SourceError", "InvalidTarget",
            "FetchError", "CompareError"}

Condition(status, reason, generation) ==
    [status |-> status, reason |-> reason, observedGeneration |-> generation]

Conditions == [status : {"Unknown", "True", "False"}, reason : Reasons,
               observedGeneration : Nat]

Statuses == [drifted : DriftSets, summary : Summaries, observedGeneration : Nat,
             ready : Conditions, lastNotifiedHash : Fingerprints]

(* The status of a DriftCheck that was just created. *)
NewStatus == [drifted |-> {}, summary |-> NoSummary, observedGeneration |-> 0,
              ready |-> Condition("Unknown", "None", 0),
              lastNotifiedHash |-> NeverNotified]

(* What a completed comparison writes: lines 136 to 147 of Reconcile. *)
Evaluated(status, reading, generation) ==
    [status EXCEPT !.drifted = Drifted(reading),
                   !.summary = Summarize(reading),
                   !.observedGeneration = generation,
                   !.ready = Condition("True", "DriftEvaluated", generation)]

(* What a failed one writes: only the condition changes. *)
NotReady(status, reason, generation) ==
    [status EXCEPT !.ready = Condition("False", reason, generation)]

=============================================================================
