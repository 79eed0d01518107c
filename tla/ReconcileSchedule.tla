--------------------------- MODULE ReconcileSchedule ---------------------------
(***************************************************************************)
(* When the controller reconciles one DriftCheck, in time: the interval    *)
(* and backoff that Reconcile asks the workqueue for, and the watch events *)
(* that come back from its own status writes, since SetupWithManager sets  *)
(* no predicate.  DriftCheckController has the same queue without a clock, *)
(* and leaves out what of a status is only text or time; here these decide *)
(* whether a write is a change.                                            *)
(***************************************************************************)
EXTENDS Naturals

CONSTANTS Interval,      \* spec.interval, in seconds
          MaxDelay,      \* where the exponential backoff stops growing
          MaxTime,       \* bound: the clock
          MaxChanges,    \* bound: edits, and changes of what a reconcile meets
          MaxEarly       \* bound: how far early runs are counted

ASSUME ScheduleBounds ==
    /\ Interval \in Nat \ {0} /\ MaxDelay \in Nat \ {0}
    /\ MaxTime \in Nat /\ MaxChanges \in Nat /\ MaxEarly \in Nat

VARIABLES
    clock,       \* in seconds: what metav1.Time keeps of a time
    generation,  \* metadata.generation of the stored object
    status,      \* the stored status: of its fields, what decides if a write is a change
    lag,         \* how many versions the cache is behind: the watch events on their way
    ready,       \* the workqueue has the check ready
    wakeAt,      \* or has it waiting until then; Never
    running,     \* where the reconcile in progress is
    fresh,       \* the object it holds has the current resourceVersion
    failures,    \* the rate limiter's count for the check
    outcome,     \* what a reconcile would meet
    requested,   \* history: the earliest time the last run asked for its successor
    edited,      \* history: a user wrote the object and no run has read it since
    early,       \* history: runs in a row that were neither asked for nor due
    changes      \* how much of MaxChanges is used up

vars == <<clock, generation, status, lag, ready, wakeAt, running, fresh, failures, outcome,
          requested, edited, early, changes>>

queueVars == <<lag, ready, wakeAt>>
runVars == <<running, fresh, failures>>
history == <<requested, edited, early>>

-----------------------------------------------------------------------------
Never == MaxTime + Interval + MaxDelay + 1

Drifts == {"inSync", "drifted"}
Outcomes == Drifts \cup {"broken", "unreachable"}

(* The messages of a condition: the tally of an evaluation, the text of a  *)
(* permanent failure, and that of a load that failed, which quotes the     *)
(* path of a temporary directory that differs from one load to the next.   *)
Messages == Drifts \cup {"fixed", "dirA", "dirB"}

(* checkedAt is lastCheckedAt, notified the drift that lastNotifiedHash is *)
(* the fingerprint of; the rest is the Ready condition.                    *)
Statuses == [checkedAt : Nat, notified : Drifts \cup {"none"},
             reason : {"None", "DriftEvaluated", "SourceError", "CompareError"},
             message : Messages, observed : Nat]

Init ==
    /\ clock = 0 /\ generation = 1
    /\ status = [checkedAt |-> 0, notified |-> "none", reason |-> "None", message |-> "fixed",
                 observed |-> 0]
    /\ lag = 1 /\ ready = FALSE /\ wakeAt = Never
    /\ running = "idle" /\ fresh = FALSE /\ failures = 0
    /\ outcome \in Outcomes
    /\ requested = 0 /\ edited = TRUE /\ early = 0
    /\ changes = 0

Tick ==
    /\ clock < MaxTime
    /\ clock' = clock + 1
    /\ UNCHANGED <<generation, status, queueVars, runVars, outcome, history, changes>>

Change == changes < MaxChanges /\ changes' = changes + 1

(* An edit of the spec, or one of the metadata that is no new generation. *)
EditObject ==
    /\ Change
    /\ generation' \in {generation, generation + 1}
    /\ lag' = lag + 1 /\ fresh' = FALSE /\ edited' = TRUE
    /\ UNCHANGED <<clock, status, ready, wakeAt, running, failures, outcome, requested, early>>

(* The source breaks or heals, the cluster does, or the drift changes. *)
OutcomeChanges ==
    /\ Change
    /\ outcome' \in Outcomes \ {outcome}
    /\ early' = 0
    /\ UNCHANGED <<clock, generation, status, queueVars, runVars, requested, edited>>

-----------------------------------------------------------------------------
(* The workqueue: the check is in it once, at the sooner of its times. *)

(* Bug: the handler leaves out a check that is being reconciled. *)
EventArrives_SkippingBusy ==
    /\ lag > 0
    /\ lag' \in 0..(lag - 1) /\ ready' = (ready \/ running = "idle") /\ wakeAt' = Never
    /\ UNCHANGED <<clock, generation, status, runVars, outcome, history, changes>>

(* The watch tells of every version, or after a relist of the newest. *)
EventArrives ==
    /\ lag > 0
    /\ lag' \in 0..(lag - 1) /\ ready' = TRUE /\ wakeAt' = Never
    /\ UNCHANGED <<clock, generation, status, runVars, outcome, history, changes>>

TimerFires ==
    /\ wakeAt <= clock
    /\ ready' = TRUE /\ wakeAt' = Never
    /\ UNCHANGED <<clock, generation, status, lag, runVars, outcome, history, changes>>

(* Bug: a requeue is added beside what is ready. *)
EnqueueAfter_Beside(delay) ==
    /\ wakeAt' = clock + delay
    /\ UNCHANGED ready

EnqueueAfter(delay) ==
    /\ wakeAt' = IF ready THEN Never ELSE clock + delay
    /\ UNCHANGED ready

Backoff(n) == IF 2 ^ n \in 1..MaxDelay THEN 2 ^ n ELSE MaxDelay

-----------------------------------------------------------------------------
(* Reconcile.  Time passes between its begin and its end by Tick. *)

(* The object is read from the cache, which may be behind. *)
BeginReconcile ==
    /\ ready /\ running = "idle"
    /\ running' = "evaluating" /\ ready' = FALSE
    /\ fresh' = (lag = 0)
    /\ early' = IF clock >= requested \/ edited THEN 0
                ELSE IF early < MaxEarly THEN early + 1 ELSE early
    /\ edited' = (edited /\ lag > 0)
    /\ UNCHANGED <<clock, generation, status, lag, wakeAt, failures, outcome, requested, changes>>

Ends(delay) ==
    /\ EnqueueAfter(delay)
    /\ requested' = clock + delay
    /\ running' = "idle" /\ fresh' = FALSE

(* An error is returned, and the rate limiter asked. *)
Retries ==
    /\ Ends(Backoff(failures))
    /\ failures' = IF Backoff(failures) < MaxDelay THEN failures + 1 ELSE failures

(* RequeueAfter: the rate limiter forgets the check. *)
Waits == Ends(Interval) /\ failures' = 0

(* A write that changes nothing makes no version, and no event. *)
Store(new) ==
    /\ status' = new
    /\ lag' = lag + (IF new = status THEN 0 ELSE 1)

(* The API server takes no write of an object that was not current. *)
Writes(new) == fresh /\ Store(new)

(* A conflict, a failed call, or a lost answer. *)
WriteFails(new) == Writes(new) \/ UNCHANGED <<status, lag>>

(* A last write: the interval once it is stored, else the error. *)
WritesAndEnds(new) ==
    \/ Writes(new) /\ Waits
    \/ WriteFails(new) /\ Retries

(* Bug: what keeps a status from being stored is only logged. *)
Evaluates_IgnoringFailure ==
    /\ running = "evaluating" /\ outcome \in Drifts
    /\ LET new == [status EXCEPT !.checkedAt = clock, !.reason = "DriftEvaluated",
                                 !.message = outcome, !.observed = generation]
       IN  \/ /\ Writes(new)
              /\ running' = "notifying"
              /\ UNCHANGED <<ready, wakeAt, fresh, failures, requested>>
           \/ /\ WriteFails(new)
              /\ running' = "idle" /\ fresh' = FALSE /\ failures' = 0
              /\ UNCHANGED <<ready, wakeAt, requested>>
    /\ UNCHANGED <<clock, generation, outcome, edited, early, changes>>

(* The comparison, and the write of what it found. *)
Evaluates ==
    /\ running = "evaluating" /\ outcome \in Drifts
    /\ LET new == [status EXCEPT !.checkedAt = clock, !.reason = "DriftEvaluated",
                                 !.message = outcome, !.observed = generation]
       IN  \/ /\ Writes(new)
              /\ running' = "notifying"
              /\ UNCHANGED <<ready, wakeAt, fresh, failures, requested>>
           \/ WriteFails(new) /\ Retries
    /\ UNCHANGED <<clock, generation, outcome, edited, early, changes>>

(* A drift set that is not the one announced last; none, before the first *)
(* announcement, is nothing to tell.                                       *)
Unannounced ==
    /\ status.message # status.notified
    /\ status.message = "drifted" \/ status.notified # "none"

(* The fingerprint is stored once every webhook took the announcement.  A  *)
(* webhook that fails ends the run as one that has nothing to send.        *)
Notifies ==
    /\ running = "notifying"
    /\ \/ UNCHANGED <<status, lag>> /\ Waits
       \/ /\ Unannounced
          /\ WritesAndEnds([status EXCEPT !.notified = status.message])
    /\ UNCHANGED <<clock, generation, outcome, edited, early, changes>>

(* Bug: the error is told with the time it was met at. *)
PermanentFail_Dated ==
    /\ running = "evaluating" /\ outcome = "broken"
    /\ WritesAndEnds([status EXCEPT !.reason = "SourceError", !.observed = generation,
                                    !.message = IF @ = "dirA" THEN "dirB" ELSE "dirA"])
    /\ UNCHANGED <<clock, generation, outcome, edited, early, changes>>

(* What a permanent failure makes of a status; the condition tells for     *)
(* which generation, so the same failure of an edited spec is a change.    *)
Failed(s) == [s EXCEPT !.reason = "SourceError", !.message = "fixed", !.observed = generation]

PermanentFail ==
    /\ running = "evaluating" /\ outcome = "broken"
    /\ WritesAndEnds(Failed(status))
    /\ UNCHANGED <<clock, generation, outcome, edited, early, changes>>

(* A CompareError: the write is not checked, and the error returned. *)
CompareFails ==
    /\ running = "evaluating" /\ outcome = "unreachable"
    /\ \E m \in {"fixed", "dirA", "dirB"} :
          WriteFails([status EXCEPT !.reason = "CompareError", !.message = m,
                                    !.observed = generation])
    /\ Retries
    /\ UNCHANGED <<clock, generation, outcome, edited, early, changes>>

-----------------------------------------------------------------------------
Next ==
    \/ Tick \/ EditObject \/ OutcomeChanges
    \/ EventArrives \/ TimerFires
    \/ BeginReconcile \/ Evaluates \/ Notifies \/ PermanentFail \/ CompareFails

Spec == Init /\ [][Next]_vars

-----------------------------------------------------------------------------
(* The type invariant. *)
TypeOK ==
    /\ clock \in 0..MaxTime /\ generation \in Nat
    /\ status \in Statuses
    /\ lag \in Nat /\ ready \in BOOLEAN /\ wakeAt \in 0..Never
    /\ running \in {"idle", "evaluating", "notifying"} /\ fresh \in BOOLEAN
    /\ failures \in Nat /\ outcome \in Outcomes
    /\ requested \in 0..Never /\ edited \in BOOLEAN
    /\ early \in 0..MaxEarly /\ changes \in 0..MaxChanges

(* However events, timers, refused writes and reconciles interleave, a     *)
(* check that is not being reconciled is ready, about to get an event, or  *)
(* waits for a time no later than the one its last reconcile asked for:    *)
(* neither an event that displaces a timer nor a requeue over an event     *)
(* postpones a run.                                                        *)
NeverLate ==
    running # "idle" \/ ready \/ lag > 0 \/ wakeAt <= requested

(* An edit made while a reconcile of the old spec is under way, or while a *)
(* run reads a cache that does not have it, is not swallowed by that       *)
(* reconcile's own requeue for an interval or a backoff later.             *)
EditsArePrompt ==
    edited => lag > 0 \/ ready

(* internal/controller/driftcheck_controller.go on source failures: they   *)
(* "retry on the interval rather than hot-looping".  The event of a        *)
(* failure's own write brings one more run, which writes nothing new; the  *)
(* events of a run that wrote an evaluation and its fingerprint just       *)
(* before the source broke bring one each.  A run that a refused or failed *)
(* write was told to retry is due when its backoff is over, as is one      *)
(* whose interval is.                                                      *)
EarlyRuns == 3

PermanentFailureSettles ==
    status.reason = "SourceError" => early <= EarlyRuns

(* The workqueue has one time for the check at most: the one asked for.    *)
(* Only a run holds an object, and one that notifies has stored what it    *)
(* found.                                                                  *)
QueueShape ==
    /\ wakeAt \in {requested, Never}
    /\ running # "idle" \/ ready => wakeAt = Never
    /\ fresh => running # "idle"
    /\ running = "notifying" => status.reason = "DriftEvaluated" /\ status.message \in Drifts

Count(flag) == IF flag THEN 1 ELSE 0

(* The next run is one that was asked for. *)
Due == running = "idle" /\ clock >= requested

(* How many versions the run in progress may still make: of an evaluation  *)
(* and of its fingerprint.                                                 *)
StillToWrite == Count(fresh) + Count(fresh /\ running = "evaluating")

(* A run starts from a cache that has everything, or writes nothing: it    *)
(* leaves two events at most.                                              *)
EventsAreFew ==
    ~edited => /\ lag + StillToWrite <= 2
               /\ Due \/ lag + Count(ready) + StillToWrite <= 2

(* What a broken source will still be written to the status: a fingerprint *)
(* of the run that did not meet it, and its failure.                       *)
FailureToWrite ==
    Count(outcome = "broken" /\ fresh /\ running = "notifying")
      + Count(outcome = "broken" /\ status # Failed(status))

(* From the time a source breaks, the runs that were early, those that the *)
(* queue has in store and those that writes to come will bring are no more *)
(* than three together, unless the next one will be due, or owed to an     *)
(* edit.                                                                   *)
EarlyRunsAreLimited ==
    outcome = "broken" \/ status.reason = "SourceError" =>
        /\ early <= EarlyRuns
        /\ \/ edited \/ Due
           \/ early + lag + Count(ready) + FailureToWrite <= EarlyRuns

(* What the properties above rest on, as an invariant every step keeps. *)
IndInv ==
    /\ TypeOK /\ NeverLate /\ EditsArePrompt
    /\ QueueShape /\ EventsAreFew /\ EarlyRunsAreLimited

(* README.md: "re-run after spec.interval".  The same for evaluations. *)
EvaluationSettles ==
    status.reason = "DriftEvaluated" => early <= EarlyRuns

=============================================================================
