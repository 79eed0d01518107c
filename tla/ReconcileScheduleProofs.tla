------------------------- MODULE ReconcileScheduleProofs -------------------------
(***************************************************************************)
(* The safety properties of ReconcileSchedule, for any interval, backoff   *)
(* and clock, whatever writes are refused or fail.  That a permanent       *)
(* failure settles is a matter of counting: the early runs so far, those   *)
(* an event or a ready entry still has in store, and those that a write to *)
(* come will bring, are together no more than EarlyRuns.                   *)
(***************************************************************************)
EXTENDS ReconcileSchedule, TLAPS

(* The exponential backoff stays within its limit, which is more than 0. *)
LEMMA BackoffType ==
    ASSUME NEW n
    PROVE  Backoff(n) \in 1..MaxDelay
  BY ScheduleBounds DEF Backoff

LEMMA NeverIsLater ==
    TypeOK => Never \in Nat /\ clock + Interval < Never /\ clock + MaxDelay < Never
  BY ScheduleBounds DEF TypeOK, Never

LEMMA CountType ==
    ASSUME NEW flag \in BOOLEAN
    PROVE  Count(flag) \in 0..1 /\ (flag => Count(flag) = 1) /\ (~flag => Count(flag) = 0)
  BY DEF Count

(* The sums that the invariants bound are of numbers. *)
LEMMA CountsType ==
    ASSUME TypeOK
    PROVE  /\ Count(ready) \in 0..1 /\ Count(fresh) \in 0..1
           /\ Count(fresh /\ running = "evaluating") \in 0..1
           /\ Count(outcome = "broken" /\ fresh /\ running = "notifying") \in 0..1
           /\ Count(outcome = "broken" /\ status # Failed(status)) \in 0..1
  BY DEF Count

(* What a write adds to the events on their way. *)
LEMMA StoreEffect ==
    ASSUME TypeOK, NEW new \in Statuses, Store(new)
    PROVE  /\ status' = new /\ status' \in Statuses
           /\ lag' \in Nat /\ lag' >= lag /\ lag' <= lag + 1
           /\ new = status => lag' = lag
  BY DEF TypeOK, Store

LEMMA WriteFailsEffect ==
    ASSUME TypeOK, NEW new \in Statuses, WriteFails(new)
    PROVE  /\ status' \in {status, new} /\ status' \in Statuses
           /\ lag' \in Nat /\ lag' >= lag /\ lag' <= lag + 1
           /\ status' = status => lag' = lag
           /\ ~fresh => status' = status
  <1>1. CASE Writes(new)
    <2>1. fresh /\ Store(new)
      BY <1>1 DEF Writes
    <2> QED
      BY <2>1, StoreEffect
  <1>2. CASE UNCHANGED <<status, lag>>
    BY <1>2 DEF TypeOK
  <1> QED
    BY <1>1, <1>2 DEF WriteFails

(* What a run asks of the workqueue at its end is what the history notes   *)
(* as requested, unless the check is ready anyway; and it is yet to come.  *)
LEMMA EndsEffect ==
    ASSUME TypeOK, QueueShape, running # "idle",
           NEW delay \in 1..Interval \cup 1..MaxDelay, Ends(delay)
    PROVE  /\ wakeAt' \in 0..Never /\ requested' \in 0..Never /\ ready' = ready
           /\ wakeAt' \in {requested', Never} /\ (ready => wakeAt' = Never)
           /\ ready \/ wakeAt' <= requested'
           /\ running' = "idle" /\ fresh' = FALSE
           /\ clock < requested'
  BY NeverIsLater, ScheduleBounds DEF TypeOK, QueueShape, EnqueueAfter, Ends

LEMMA RetriesEffect ==
    ASSUME TypeOK, Retries
    PROVE  /\ \E delay \in 1..Interval \cup 1..MaxDelay : Ends(delay)
           /\ failures' \in Nat
  BY BackoffType DEF Retries, TypeOK

LEMMA WaitsEffect ==
    ASSUME TypeOK, Waits
    PROVE  /\ \E delay \in 1..Interval \cup 1..MaxDelay : Ends(delay)
           /\ failures' \in Nat
  BY ScheduleBounds DEF Waits

-----------------------------------------------------------------------------
(* Time, and the owner of the check. *)

LEMMA TickKeeps ==
    ASSUME IndInv, Tick
    PROVE  IndInv'
  <1>1. /\ clock' \in 0..MaxTime /\ clock' >= clock
        /\ UNCHANGED <<generation, status, lag, ready, wakeAt, running, fresh, failures, outcome,
                       requested, edited, early, changes>>
    BY ScheduleBounds DEF Tick, queueVars, runVars, history, IndInv, TypeOK
  <1>2. TypeOK'
    BY <1>1 DEF IndInv, TypeOK
  <1>3. NeverLate' /\ EditsArePrompt' /\ QueueShape'
    BY <1>1 DEF IndInv, NeverLate, EditsArePrompt, QueueShape
  <1>4. Due => Due'
    BY <1>1 DEF IndInv, TypeOK, Due
  <1>5. StillToWrite' = StillToWrite /\ FailureToWrite' = FailureToWrite
    BY <1>1 DEF StillToWrite, FailureToWrite, Failed
  <1>6. EventsAreFew'
    BY <1>1, <1>4, <1>5 DEF IndInv, EventsAreFew
  <1>7. EarlyRunsAreLimited'
    BY <1>1, <1>4, <1>5 DEF IndInv, EarlyRunsAreLimited
  <1> QED
    BY <1>2, <1>3, <1>6, <1>7 DEF IndInv

LEMMA EditObjectKeeps ==
    ASSUME IndInv, EditObject
    PROVE  IndInv'
  <1>1. /\ generation' \in Nat /\ lag' \in Nat /\ lag' > 0 /\ fresh' = FALSE /\ edited' = TRUE
        /\ changes' \in 0..MaxChanges
        /\ UNCHANGED <<clock, status, ready, wakeAt, running, failures, outcome, requested, early>>
    BY ScheduleBounds DEF EditObject, Change, IndInv, TypeOK
  <1>2. TypeOK'
    BY <1>1 DEF IndInv, TypeOK
  <1>3. NeverLate' /\ EditsArePrompt' /\ QueueShape'
    BY <1>1 DEF IndInv, TypeOK, NeverLate, EditsArePrompt, QueueShape
  <1>4. EventsAreFew' /\ EarlyRunsAreLimited'
    BY <1>1 DEF IndInv, EventsAreFew, EarlyRunsAreLimited
  <1> QED
    BY <1>2, <1>3, <1>4 DEF IndInv

(* The count begins when the outcome changes, with what the events on      *)
(* their way and the run in progress can still bring.                      *)
LEMMA OutcomeChangesKeeps ==
    ASSUME IndInv, OutcomeChanges
    PROVE  IndInv'
  <1>1. /\ outcome' \in Outcomes /\ early' = 0 /\ changes' \in 0..MaxChanges
        /\ UNCHANGED <<clock, generation, status, lag, ready, wakeAt, running, fresh, failures,
                       requested, edited>>
    BY ScheduleBounds DEF OutcomeChanges, Change, queueVars, runVars, IndInv, TypeOK
  <1>2. TypeOK'
    BY <1>1, ScheduleBounds DEF IndInv, TypeOK
  <1>3. NeverLate' /\ EditsArePrompt' /\ QueueShape'
    BY <1>1 DEF IndInv, NeverLate, EditsArePrompt, QueueShape
  <1>4. /\ Due' <=> Due
        /\ StillToWrite' = StillToWrite
    BY <1>1 DEF Due, StillToWrite
  <1>5. EventsAreFew'
    BY <1>1, <1>4 DEF IndInv, EventsAreFew
  <1>6. EarlyRunsAreLimited'
    <2>1. /\ lag \in Nat /\ lag' = lag /\ early' = 0 /\ Count(ready)' = Count(ready)
          /\ Count(ready) \in 0..1 /\ Count(fresh) \in 0..1
          /\ Count(fresh /\ running = "evaluating") \in 0..1
      BY <1>1, CountsType DEF IndInv, TypeOK, Count
    <2>2. /\ Count(outcome = "broken" /\ fresh /\ running = "notifying")' <= Count(fresh)
          /\ Count(outcome = "broken" /\ fresh /\ running = "notifying")' \in 0..1
          /\ Count(outcome = "broken" /\ status # Failed(status))' \in 0..1
      BY <1>1 DEF Count
    <2>3. ~edited /\ ~Due => lag + Count(ready) + StillToWrite <= 2
      BY DEF IndInv, EventsAreFew
    <2>4. ~edited /\ ~Due => early' + lag' + Count(ready)' + FailureToWrite' <= EarlyRuns
      BY <2>1, <2>2, <2>3 DEF EarlyRuns, StillToWrite, FailureToWrite
    <2> QED
      BY <1>1, <1>4, <2>4 DEF EarlyRunsAreLimited, EarlyRuns
  <1> QED
    BY <1>2, <1>3, <1>5, <1>6 DEF IndInv

-----------------------------------------------------------------------------
(* The workqueue. *)

LEMMA Below ==
    ASSUME NEW n \in Nat, NEW m \in 0..(n - 1)
    PROVE  m \in Nat /\ m <= n - 1
  OBVIOUS

(* An event becomes an entry that is ready: of the two, no more than there *)
(* were.                                                                   *)
LEMMA EventArrivesKeeps ==
    ASSUME IndInv, EventArrives
    PROVE  IndInv'
  <1>1. /\ lag > 0 /\ lag' \in Nat /\ lag' <= lag - 1 /\ ready' = TRUE /\ wakeAt' = Never
        /\ UNCHANGED <<clock, generation, status, running, fresh, failures, outcome, requested,
                       edited, early, changes>>
    <2>1. lag \in Nat /\ lag > 0 /\ lag' \in 0..(lag - 1)
      BY DEF EventArrives, IndInv, TypeOK
    <2>2. lag' \in Nat /\ lag' <= lag - 1
      BY <2>1, Below
    <2> QED
      BY <2>1, <2>2 DEF EventArrives, runVars, history
  <1>9. lag \in Nat /\ lag' \in Nat /\ lag' <= lag - 1
    BY <1>1 DEF IndInv, TypeOK
  <1>2. TypeOK'
    <2>1. wakeAt' \in 0..Never
      BY <1>1, NeverIsLater DEF IndInv
    <2> QED
      BY <1>1, <2>1 DEF IndInv, TypeOK
  <1>3. NeverLate' /\ EditsArePrompt' /\ QueueShape'
    BY <1>1 DEF IndInv, NeverLate, EditsArePrompt, QueueShape, Never
  <1>4. /\ Due' <=> Due
        /\ Count(ready)' = 1
        /\ Count(fresh)' = Count(fresh)
        /\ Count(fresh /\ running = "evaluating")' = Count(fresh /\ running = "evaluating")
        /\ FailureToWrite' = FailureToWrite
    BY <1>1 DEF Due, FailureToWrite, Failed, Count
  <1>5. Count(ready) \in 0..1 /\ Count(fresh) \in 0..1
        /\ Count(fresh /\ running = "evaluating") \in 0..1
    BY CountsType DEF IndInv
  <1>6. lag' + Count(ready)' <= lag + Count(ready)
    BY <1>9, <1>4, <1>5
  <1>7. EventsAreFew'
    <2>1. ~edited => lag' + StillToWrite' <= 2
      BY <1>4, <1>5, <1>9 DEF IndInv, EventsAreFew, StillToWrite
    <2>2. ~edited => Due' \/ lag' + Count(ready)' + StillToWrite' <= 2
      BY <1>4, <1>5, <1>9 DEF IndInv, EventsAreFew, StillToWrite
    <2> QED
      BY <1>1, <2>1, <2>2 DEF EventsAreFew
  <1>8. EarlyRunsAreLimited'
    <2>1. /\ Count(outcome = "broken" /\ fresh /\ running = "notifying") \in 0..1
          /\ Count(outcome = "broken" /\ status # Failed(status)) \in 0..1
          /\ early \in Nat
      BY CountsType DEF IndInv, TypeOK
    <2>2. early + lag + Count(ready) + FailureToWrite <= EarlyRuns =>
             early + lag' + Count(ready)' + FailureToWrite <= EarlyRuns
      BY <1>4, <1>5, <1>9, <2>1 DEF EarlyRuns, FailureToWrite
    <2> QED
      BY <1>1, <1>4, <2>2 DEF IndInv, EarlyRunsAreLimited
  <1> QED
    BY <1>2, <1>3, <1>7, <1>8 DEF IndInv

(* A timer fires when the next run is due. *)
LEMMA TimerFiresKeeps ==
    ASSUME IndInv, TimerFires
    PROVE  IndInv'
  <1>1. /\ wakeAt <= clock /\ ready' = TRUE /\ wakeAt' = Never
        /\ UNCHANGED <<clock, generation, status, lag, running, fresh, failures, outcome,
                       requested, edited, early, changes>>
    BY DEF TimerFires, runVars, history
  <1>2. Due /\ Due'
    BY <1>1, NeverIsLater, ScheduleBounds DEF IndInv, TypeOK, QueueShape, Due
  <1>3. TypeOK'
    BY <1>1, NeverIsLater DEF IndInv, TypeOK
  <1>4. NeverLate' /\ EditsArePrompt' /\ QueueShape'
    BY <1>1 DEF IndInv, NeverLate, EditsArePrompt, QueueShape, Never
  <1>5. StillToWrite' = StillToWrite
    BY <1>1 DEF StillToWrite
  <1>6. EventsAreFew' /\ EarlyRunsAreLimited'
    BY <1>1, <1>2, <1>5 DEF IndInv, EventsAreFew, EarlyRunsAreLimited
  <1> QED
    BY <1>3, <1>4, <1>6 DEF IndInv

-----------------------------------------------------------------------------
(* Reconcile. *)

(* A run that starts from a cache that is behind will write nothing; one   *)
(* that does not has no event left from before.                            *)
LEMMA BeginReconcileKeeps ==
    ASSUME IndInv, BeginReconcile
    PROVE  IndInv'
  <1>1. /\ ready /\ running = "idle" /\ running' = "evaluating" /\ ready' = FALSE
        /\ fresh' = (lag = 0) /\ edited' = (edited /\ lag > 0)
        /\ UNCHANGED <<clock, generation, status, lag, wakeAt, failures, outcome, requested, changes>>
    BY DEF BeginReconcile
  <1>2. /\ early' \in 0..MaxEarly /\ early' <= early + 1
        /\ Due \/ edited => early' = 0
    BY <1>1, ScheduleBounds DEF BeginReconcile, IndInv, TypeOK, Due
  <1>3. /\ fresh' \in BOOLEAN /\ edited' \in BOOLEAN
        /\ edited' => edited /\ lag > 0
        /\ edited /\ ~edited' => lag = 0
        /\ lag # 0 => ~fresh'
    <2>1. lag \in Nat
      BY DEF IndInv, TypeOK
    <2>2. lag > 0 \/ lag = 0
      BY <2>1
    <2>3. fresh' = (lag = 0) /\ edited' = (edited /\ lag > 0)
      BY <1>1
    <2> QED
      BY <2>2, <2>3, Zenon
  <1>4. TypeOK'
    BY <1>1, <1>2, <1>3 DEF IndInv, TypeOK
  <1>5. NeverLate' /\ EditsArePrompt' /\ QueueShape'
    BY <1>1, <1>3 DEF IndInv, NeverLate, EditsArePrompt, QueueShape
  <1>6. /\ lag \in Nat /\ lag' = lag /\ early \in Nat /\ early' \in Nat
        /\ Count(ready) = 1 /\ Count(ready)' = 0
        /\ Count(fresh)' \in 0..1 /\ Count(fresh /\ running = "evaluating")' \in 0..1
        /\ lag # 0 => Count(fresh)' = 0 /\ Count(fresh /\ running = "evaluating")' = 0
    <2>1. /\ lag # 0 => Count(fresh)' = 0 /\ Count(fresh /\ running = "evaluating")' = 0
          /\ Count(ready) = 1 /\ Count(ready)' = 0
      BY <1>1, <1>3, Zenon DEF Count
    <2>2. Count(fresh)' \in 0..1 /\ Count(fresh /\ running = "evaluating")' \in 0..1
      BY DEF Count
    <2>3. lag \in Nat /\ early \in Nat /\ early' \in Nat
      BY <1>2 DEF IndInv, TypeOK
    <2> QED
      BY <1>1, <2>1, <2>2, <2>3
  <1>7. EventsAreFew'
    <2>1. ~edited' => lag' + StillToWrite' <= 2
      <3>1. CASE lag = 0
        BY <1>6, <3>1 DEF StillToWrite
      <3>2. CASE lag # 0
        <4>1. ~edited' => lag + StillToWrite <= 2
          BY <1>1, <1>3, <3>2 DEF IndInv, EventsAreFew
        <4>2. Count(fresh) \in 0..1 /\ Count(fresh /\ running = "evaluating") \in 0..1
          BY CountsType DEF IndInv
        <4> QED
          BY <1>6, <3>2, <4>1, <4>2 DEF StillToWrite
      <3> QED
        BY <3>1, <3>2
    <2>2. ~edited' => lag' + Count(ready)' + StillToWrite' <= 2
      <3>1. Count(ready)' + lag' + StillToWrite' = lag' + StillToWrite'
        BY <1>6 DEF StillToWrite
      <3>2. lag' + Count(ready)' + StillToWrite' = Count(ready)' + lag' + StillToWrite'
        BY <1>6 DEF StillToWrite
      <3> QED
        BY <2>1, <3>1, <3>2
    <2> QED
      BY <2>1, <2>2 DEF EventsAreFew
  <1>8. EarlyRunsAreLimited'
    <2> SUFFICES ASSUME outcome = "broken" \/ status.reason = "SourceError"
                 PROVE  /\ early' <= EarlyRuns
                        /\ edited' \/ early' + lag' + Count(ready)' + FailureToWrite' <= EarlyRuns
      BY <1>1 DEF EarlyRunsAreLimited
    <2>1. /\ Count(outcome = "broken" /\ fresh /\ running = "notifying")' = 0
          /\ Count(outcome = "broken" /\ status # Failed(status))' =
                Count(outcome = "broken" /\ status # Failed(status))
          /\ Count(outcome = "broken" /\ fresh /\ running = "notifying") = 0
          /\ Count(outcome = "broken" /\ status # Failed(status)) \in 0..1
      BY <1>1 DEF Count, Failed
    <2>2. CASE edited'
      BY <1>2, <1>3, <2>2 DEF EarlyRuns
    <2>3. CASE ~edited' /\ edited
      BY <1>2, <1>3, <1>6, <2>1, <2>3 DEF EarlyRuns, FailureToWrite
    <2>4. CASE ~edited /\ Due
      <3>1. Count(fresh) \in 0..1 /\ Count(fresh /\ running = "evaluating") \in 0..1
        BY CountsType DEF IndInv
      <3>2. lag <= 2
        BY <1>6, <2>4, <3>1 DEF IndInv, EventsAreFew, StillToWrite
      <3> QED
        BY <1>2, <1>6, <2>1, <2>4, <3>2 DEF EarlyRuns, FailureToWrite
    <2>5. CASE ~edited /\ ~Due
      <3>1. early + lag + Count(ready) + FailureToWrite <= EarlyRuns
        BY <2>5 DEF IndInv, EarlyRunsAreLimited
      <3> QED
        BY <1>2, <1>6, <2>1, <3>1 DEF EarlyRuns, FailureToWrite
    <2> QED
      BY <2>2, <2>3, <2>4, <2>5
  <1> QED
    BY <1>4, <1>5, <1>7, <1>8 DEF IndInv

(* However a reconcile ends, the check stays scheduled, and the status it  *)
(* leaves took no more writes than the run had in store.                   *)
LEMMA EndKeepsSchedule ==
    ASSUME IndInv, running # "idle", NEW delay \in 1..Interval \cup 1..MaxDelay, Ends(delay),
           failures' \in Nat, status' \in Statuses, lag' \in Nat, lag' >= lag,
           lag' <= lag + StillToWrite,
           UNCHANGED <<clock, generation, outcome, edited, early, changes>>
    PROVE  TypeOK' /\ NeverLate' /\ EditsArePrompt' /\ QueueShape' /\ EventsAreFew'
  <1>1. TypeOK /\ QueueShape
    BY DEF IndInv
  <1>2. /\ wakeAt' \in 0..Never /\ requested' \in 0..Never /\ ready' = ready
        /\ wakeAt' \in {requested', Never} /\ (ready => wakeAt' = Never)
        /\ ready \/ wakeAt' <= requested'
        /\ running' = "idle" /\ fresh' = FALSE
    BY <1>1, EndsEffect
  <1>3. TypeOK'
    BY <1>1, <1>2 DEF TypeOK
  <1>4. NeverLate' /\ QueueShape'
    BY <1>2 DEF NeverLate, QueueShape, Never
  <1>5. EditsArePrompt'
    BY <1>1, <1>2 DEF IndInv, TypeOK, EditsArePrompt
  <1>6. EventsAreFew'
    <2>1. /\ lag \in Nat /\ Count(ready)' = Count(ready)
          /\ Count(ready) \in 0..1 /\ Count(fresh) \in 0..1
          /\ Count(fresh /\ running = "evaluating") \in 0..1
          /\ Count(fresh)' = 0 /\ Count(fresh /\ running = "evaluating")' = 0
      BY <1>1, <1>2, CountsType DEF TypeOK, Count
    <2>2. ~edited => lag + Count(ready) + StillToWrite <= 2
      BY DEF IndInv, EventsAreFew, Due
    <2>3. ~edited => lag' + StillToWrite' <= 2
      BY <2>1, <2>2 DEF StillToWrite
    <2>4. ~edited => lag' + Count(ready)' + StillToWrite' <= 2
      BY <2>1, <2>2 DEF StillToWrite
    <2> QED
      BY <2>3, <2>4 DEF EventsAreFew
  <1> QED
    BY <1>3, <1>4, <1>5, <1>6

(* An end at which the failure to write has become the event it brings, or *)
(* stays to be written, leaves the count of early runs as it was.          *)
LEMMA EndKeepsCount ==
    ASSUME IndInv, running # "idle", NEW delay \in 1..Interval \cup 1..MaxDelay, Ends(delay),
           lag' \in Nat, UNCHANGED <<early, edited>>,
           (outcome = "broken" \/ status.reason = "SourceError")'
              => outcome = "broken" \/ status.reason = "SourceError",
           (outcome = "broken" \/ status.reason = "SourceError")'
              => FailureToWrite' + lag' <= FailureToWrite + lag
    PROVE  EarlyRunsAreLimited'
  <1>1. ready' = ready /\ ~Due
    BY EndsEffect DEF IndInv, Due
  <1>2. /\ early \in Nat /\ early' = early /\ lag \in Nat
        /\ Count(ready)' = Count(ready) /\ Count(ready) \in 0..1
    BY <1>1, CountsType DEF IndInv, TypeOK, Count
  <1>3. /\ Count(outcome = "broken" /\ fresh /\ running = "notifying") \in 0..1
        /\ Count(outcome = "broken" /\ status # Failed(status)) \in 0..1
        /\ Count(outcome = "broken" /\ fresh /\ running = "notifying")' \in 0..1
        /\ Count(outcome = "broken" /\ status # Failed(status))' \in 0..1
    BY DEF Count
  <1> SUFFICES ASSUME (outcome = "broken" \/ status.reason = "SourceError")'
               PROVE  /\ early' <= EarlyRuns
                      /\ edited' \/ early' + lag' + Count(ready)' + FailureToWrite' <= EarlyRuns
    BY DEF EarlyRunsAreLimited
  <1>4. /\ early <= EarlyRuns
        /\ edited \/ early + lag + Count(ready) + FailureToWrite <= EarlyRuns
    BY <1>1 DEF IndInv, EarlyRunsAreLimited
  <1>5. early + lag + Count(ready) + FailureToWrite <= EarlyRuns =>
           early' + lag' + Count(ready)' + FailureToWrite' <= EarlyRuns
    BY <1>2, <1>3 DEF EarlyRuns, FailureToWrite
  <1> QED
    BY <1>2, <1>4, <1>5

(* A failed run's status is what it would write again. *)
LEMMA FailedIsMet ==
    ASSUME TypeOK, NEW s \in Statuses
    PROVE  /\ Failed(s) \in Statuses /\ Failed(s).reason = "SourceError"
           /\ Failed(Failed(s)) = Failed(s)
           /\ s = Failed(s) <=> /\ s.reason = "SourceError" /\ s.message = "fixed"
                                /\ s.observed = generation
  <1>1. generation \in Nat
    BY DEF TypeOK
  <1>2. Failed(s) \in Statuses
    BY <1>1 DEF Failed, Statuses, Messages
  <1>3. Failed(s).reason = "SourceError" /\ Failed(s).message = "fixed"
        /\ Failed(s).observed = generation
    BY DEF Failed, Statuses
  <1>4. ASSUME NEW t \in Statuses, t.reason = "SourceError", t.message = "fixed",
               t.observed = generation
        PROVE  t = Failed(t)
    BY <1>4 DEF Failed, Statuses
  <1> HIDE DEF Failed
  <1> QED
    BY <1>2, <1>3, <1>4

(* A failed write keeps what a run met from the status, or, when only the  *)
(* answer was lost, stores it.                                             *)
LEMMA FailedWriteKeeps ==
    ASSUME IndInv, running = "evaluating", outcome # "broken",
           NEW new \in Statuses, new.reason # "SourceError",
           WriteFails(new), Retries,
           UNCHANGED <<clock, generation, outcome, edited, early, changes>>
    PROVE  IndInv'
  <1>1. TypeOK
    BY DEF IndInv
  <1>2. /\ status' \in {status, new} /\ status' \in Statuses
        /\ lag' \in Nat /\ lag' >= lag /\ lag' <= lag + 1
        /\ status' = status => lag' = lag
        /\ ~fresh => status' = status
    BY <1>1, WriteFailsEffect
  <1>3. PICK delay \in 1..Interval \cup 1..MaxDelay : Ends(delay)
    BY <1>1, RetriesEffect
  <1>4. failures' \in Nat
    BY <1>1, RetriesEffect
  <1>5. lag' <= lag + StillToWrite
    <2>1. /\ fresh => Count(fresh) = 1 /\ Count(fresh /\ running = "evaluating") = 1
          /\ ~fresh => Count(fresh) = 0 /\ Count(fresh /\ running = "evaluating") = 0
      BY DEF Count
    <2>2. lag \in Nat
      BY <1>1 DEF TypeOK
    <2> QED
      BY <1>2, <2>1, <2>2 DEF StillToWrite
  <1>6. TypeOK' /\ NeverLate' /\ EditsArePrompt' /\ QueueShape' /\ EventsAreFew'
    BY <1>2, <1>3, <1>4, <1>5, EndKeepsSchedule
  <1>7. EarlyRunsAreLimited'
    <2>1. (outcome = "broken" \/ status.reason = "SourceError")' => status' = status /\ lag' = lag
      BY <1>2
    <2>2. /\ Count(outcome = "broken" /\ fresh /\ running = "notifying") = 0
          /\ Count(outcome = "broken" /\ status # Failed(status)) = 0
          /\ Count(outcome = "broken" /\ fresh /\ running = "notifying")' = 0
          /\ Count(outcome = "broken" /\ status # Failed(status))' = 0
      BY DEF Count
    <2>3. lag \in Nat
      BY <1>1 DEF TypeOK
    <2>4. lag' = lag => FailureToWrite' + lag' <= FailureToWrite + lag
      BY <2>2, <2>3 DEF FailureToWrite
    <2> QED
      BY <1>2, <1>3, <2>1, <2>4, EndKeepsCount
  <1> QED
    BY <1>6, <1>7 DEF IndInv

LEMMA CompareFailsKeeps ==
    ASSUME IndInv, CompareFails
    PROVE  IndInv'
  <1> DEFINE new(m) == [status EXCEPT !.reason = "CompareError", !.message = m,
                                      !.observed = generation]
  <1>1. PICK m \in {"fixed", "dirA", "dirB"} : WriteFails(new(m))
    BY DEF CompareFails
  <1>2. new(m) \in Statuses /\ new(m).reason = "CompareError"
    BY DEF IndInv, TypeOK, Statuses, Messages
  <1>3. /\ running = "evaluating" /\ outcome = "unreachable" /\ Retries
        /\ UNCHANGED <<clock, generation, outcome, edited, early, changes>>
    BY DEF CompareFails
  <1> HIDE DEF new
  <1> QED
    BY <1>1, <1>2, <1>3, FailedWriteKeeps

(* An evaluation that is stored is no end yet. *)
LEMMA EvaluatesKeeps ==
    ASSUME IndInv, Evaluates
    PROVE  IndInv'
  <1> DEFINE new == [status EXCEPT !.checkedAt = clock, !.reason = "DriftEvaluated",
                                   !.message = outcome, !.observed = generation]
  <1>1. /\ running = "evaluating" /\ outcome \in Drifts
        /\ \/ /\ Writes(new)
              /\ running' = "notifying"
              /\ UNCHANGED <<ready, wakeAt, fresh, failures, requested>>
           \/ WriteFails(new) /\ Retries
        /\ UNCHANGED <<clock, generation, outcome, edited, early, changes>>
    BY DEF Evaluates
  <1>2. new \in Statuses /\ new.reason = "DriftEvaluated" /\ new.message = outcome
    <2>1. status \in Statuses /\ generation \in Nat
      BY DEF IndInv, TypeOK
    <2>2. clock \in Nat
      BY ScheduleBounds DEF IndInv, TypeOK
    <2>3. outcome \in Messages
      BY <1>1 DEF Messages
    <2> QED
      BY <2>1, <2>2, <2>3 DEF Statuses
  <1>3. outcome # "broken"
    BY <1>1 DEF Drifts
  <1> HIDE DEF new
  <1>4. CASE WriteFails(new) /\ Retries
    BY <1>1, <1>2, <1>3, <1>4, FailedWriteKeeps
  <1>5. CASE /\ Writes(new)
             /\ running' = "notifying"
             /\ UNCHANGED <<ready, wakeAt, fresh, failures, requested>>
    <2>1. TypeOK /\ fresh /\ Store(new)
      BY <1>5 DEF Writes, IndInv
    <2>2. /\ status' = new /\ status' \in Statuses
          /\ lag' \in Nat /\ lag' >= lag /\ lag' <= lag + 1
      BY <1>2, <2>1, StoreEffect
    <2>3. TypeOK'
      BY <1>1, <1>5, <2>1, <2>2 DEF TypeOK
    <2>4. NeverLate' /\ QueueShape'
      BY <1>1, <1>2, <1>5, <2>2 DEF IndInv, NeverLate, QueueShape, Never
    <2>5. EditsArePrompt'
      BY <1>1, <1>5, <2>1, <2>2 DEF IndInv, TypeOK, EditsArePrompt
    <2>6. EventsAreFew'
      <3>1. /\ lag \in Nat /\ Count(ready)' = Count(ready) /\ Count(ready) \in 0..1
            /\ Count(fresh) = 1 /\ Count(fresh /\ running = "evaluating") = 1
            /\ Count(fresh)' = 1 /\ Count(fresh /\ running = "evaluating")' = 0
        BY <1>1, <1>5, <2>1 DEF TypeOK, Count
      <3>2. ~edited => lag + Count(ready) + StillToWrite <= 2
        BY <1>1 DEF IndInv, EventsAreFew, Due
      <3>3. ~edited => lag' + StillToWrite' <= 2
        BY <2>2, <3>1, <3>2 DEF StillToWrite
      <3>4. ~edited => lag' + Count(ready)' + StillToWrite' <= 2
        BY <2>2, <3>1, <3>2 DEF StillToWrite
      <3> QED
        BY <1>1, <3>3, <3>4 DEF EventsAreFew
    <2>7. EarlyRunsAreLimited'
      BY <1>1, <1>2, <1>3, <2>2 DEF EarlyRunsAreLimited
    <2> QED
      BY <2>3, <2>4, <2>5, <2>6, <2>7 DEF IndInv
  <1> QED
    BY <1>1, <1>4, <1>5

(* How a last write ends a run. *)
LEMMA WritesAndEndsEffect ==
    ASSUME TypeOK, NEW new \in Statuses, WritesAndEnds(new)
    PROVE  /\ \E delay \in 1..Interval \cup 1..MaxDelay : Ends(delay)
           /\ failures' \in Nat
           /\ status' \in {status, new} /\ status' \in Statuses
           /\ lag' \in Nat /\ lag' >= lag /\ lag' <= lag + 1
           /\ status' = status => lag' = lag
           /\ ~fresh => status' = status
  <1>1. CASE Writes(new) /\ Waits
    <2>1. fresh /\ Store(new)
      BY <1>1 DEF Writes
    <2> QED
      BY <1>1, <2>1, StoreEffect, WaitsEffect
  <1>2. CASE WriteFails(new) /\ Retries
    BY <1>2, WriteFailsEffect, RetriesEffect
  <1> QED
    BY <1>1, <1>2 DEF WritesAndEnds

(* The fingerprint is no part of what a failure is known by: beside a      *)
(* source that broke meanwhile, the run's second write was counted.        *)
LEMMA NotifiesKeeps ==
    ASSUME IndInv, Notifies
    PROVE  IndInv'
  <1> DEFINE new == [status EXCEPT !.notified = status.message]
  <1>1. /\ running = "notifying" /\ status.reason = "DriftEvaluated" /\ status.message \in Drifts
        /\ TypeOK /\ lag \in Nat
        /\ UNCHANGED <<clock, generation, outcome, edited, early, changes>>
    BY DEF Notifies, IndInv, QueueShape, TypeOK
  <1>2. new \in Statuses /\ new.reason = "DriftEvaluated"
    BY <1>1 DEF TypeOK, Statuses
  <1>3. (UNCHANGED <<status, lag>> /\ Waits) \/ WritesAndEnds(new)
    BY DEF Notifies
  <1> HIDE DEF new
  <1>4. /\ \E delay \in 1..Interval \cup 1..MaxDelay : Ends(delay)
        /\ failures' \in Nat
        /\ status' \in {status, new} /\ status' \in Statuses
        /\ lag' \in Nat /\ lag' >= lag /\ lag' <= lag + 1
        /\ ~fresh => lag' = lag
    <2>1. CASE UNCHANGED <<status, lag>> /\ Waits
      BY <1>1, <2>1, WaitsEffect DEF TypeOK
    <2>2. CASE WritesAndEnds(new)
      BY <1>1, <1>2, <2>2, WritesAndEndsEffect
    <2> QED
      BY <1>3, <2>1, <2>2
  <1>5. PICK delay \in 1..Interval \cup 1..MaxDelay : Ends(delay)
    BY <1>4
  <1>6. lag' <= lag + StillToWrite
    <2>1. /\ fresh => Count(fresh) = 1
          /\ Count(fresh) \in 0..1 /\ Count(fresh /\ running = "evaluating") = 0
      BY <1>1 DEF Count
    <2> QED
      BY <1>1, <1>4, <2>1 DEF StillToWrite
  <1>7. TypeOK' /\ NeverLate' /\ EditsArePrompt' /\ QueueShape' /\ EventsAreFew'
    BY <1>1, <1>4, <1>5, <1>6, EndKeepsSchedule
  <1>8. EarlyRunsAreLimited'
    <2>1. status'.reason = "DriftEvaluated" /\ outcome' = outcome
      BY <1>1, <1>2, <1>4
    <2>2. outcome = "broken" => FailureToWrite' + lag' <= FailureToWrite + lag
      <3> SUFFICES ASSUME outcome = "broken"
                   PROVE  FailureToWrite' + lag' <= FailureToWrite + lag
        OBVIOUS
      <3>1. status # Failed(status) /\ status' # Failed(status)'
        <4>1. Failed(status).reason = "SourceError"
          BY <1>1, FailedIsMet DEF TypeOK
        <4>2. status'.reason # Failed(status)'.reason
          BY <1>4, <2>1 DEF Failed, Statuses
        <4> QED
          BY <1>1, <4>1, <4>2
      <3>2. /\ Count(outcome = "broken" /\ status # Failed(status)) = 1
            /\ Count(outcome = "broken" /\ status # Failed(status))' = 1
            /\ Count(outcome = "broken" /\ fresh /\ running = "notifying")' = 0
            /\ fresh => Count(outcome = "broken" /\ fresh /\ running = "notifying") = 1
            /\ Count(outcome = "broken" /\ fresh /\ running = "notifying") \in 0..1
        BY <1>1, <1>4, <2>1, <3>1 DEF Count, Ends
      <3> QED
        BY <1>1, <1>4, <3>2 DEF FailureToWrite
    <2> QED
      BY <1>1, <1>4, <1>5, <2>1, <2>2, EndKeepsCount
  <1> QED
    BY <1>7, <1>8 DEF IndInv

(* The first failure changes the status, which is an event to come; the    *)
(* same failure met again changes nothing, and one that was not stored is  *)
(* still to write.                                                         *)
LEMMA PermanentFailKeeps ==
    ASSUME IndInv, PermanentFail
    PROVE  IndInv'
  <1>1. /\ running = "evaluating" /\ outcome = "broken" /\ WritesAndEnds(Failed(status))
        /\ TypeOK /\ status \in Statuses /\ lag \in Nat
        /\ UNCHANGED <<clock, generation, outcome, edited, early, changes>>
    BY DEF PermanentFail, IndInv, TypeOK
  <1>2. /\ Failed(status) \in Statuses
        /\ Failed(Failed(status)) = Failed(status)
    BY <1>1, FailedIsMet
  <1>3. /\ \E delay \in 1..Interval \cup 1..MaxDelay : Ends(delay)
        /\ failures' \in Nat
        /\ status' \in {status, Failed(status)} /\ status' \in Statuses
        /\ lag' \in Nat /\ lag' >= lag /\ lag' <= lag + 1
        /\ status' = status => lag' = lag
        /\ ~fresh => status' = status
    BY <1>1, <1>2, WritesAndEndsEffect
  <1>4. PICK delay \in 1..Interval \cup 1..MaxDelay : Ends(delay)
    BY <1>3
  <1>5. lag' <= lag + StillToWrite
    <2>1. /\ fresh => Count(fresh) = 1 /\ Count(fresh /\ running = "evaluating") = 1
          /\ ~fresh => Count(fresh) = 0 /\ Count(fresh /\ running = "evaluating") = 0
      BY <1>1 DEF Count
    <2> QED
      BY <1>1, <1>3, <2>1 DEF StillToWrite
  <1>6. TypeOK' /\ NeverLate' /\ EditsArePrompt' /\ QueueShape' /\ EventsAreFew'
    BY <1>1, <1>3, <1>4, <1>5, EndKeepsSchedule
  <1>7. FailureToWrite' + lag' <= FailureToWrite + lag
    <2>1. /\ Count(outcome = "broken" /\ fresh /\ running = "notifying") = 0
          /\ Count(outcome = "broken" /\ fresh /\ running = "notifying")' = 0
      BY <1>1, <1>4 DEF Count, Ends
    <2>2. Failed(status)' = [status' EXCEPT !.reason = "SourceError", !.message = "fixed",
                                            !.observed = generation]
      BY <1>1 DEF Failed
    <2>3. CASE status' = status
      <3>1. Count(outcome = "broken" /\ status # Failed(status))' =
               Count(outcome = "broken" /\ status # Failed(status))
        BY <1>1, <2>3 DEF Count, Failed
      <3>2. Count(outcome = "broken" /\ status # Failed(status)) \in 0..1 /\ lag' = lag
        BY <1>3, <2>3 DEF Count
      <3> QED
        BY <1>1, <2>1, <3>1, <3>2 DEF FailureToWrite
    <2>4. CASE status' # status /\ status' = Failed(status)
      <3>1. Failed(status)' = Failed(status')
        BY <2>2 DEF Failed
      <3>2. status' = Failed(status)'
        BY <1>2, <2>4, <3>1
      <3>3. /\ Count(outcome = "broken" /\ status # Failed(status)) = 1
            /\ Count(outcome = "broken" /\ status # Failed(status))' = 0
        BY <1>1, <2>4, <3>2 DEF Count
      <3> QED
        BY <1>1, <1>3, <2>1, <3>3 DEF FailureToWrite
    <2> QED
      BY <1>3, <2>3, <2>4
  <1>8. EarlyRunsAreLimited'
    BY <1>1, <1>3, <1>4, <1>7, EndKeepsCount
  <1> QED
    BY <1>6, <1>8 DEF IndInv

-----------------------------------------------------------------------------
LEMMA InitIndInv == Init => IndInv
  <1> SUFFICES ASSUME Init PROVE IndInv
    OBVIOUS
  <1>1. TypeOK
    <2>1. status \in Statuses
      BY DEF Init, Statuses, Messages
    <2>2. Never \in 0..Never /\ 0 \in 0..Never
      BY ScheduleBounds DEF Never
    <2>3. /\ clock \in 0..MaxTime /\ early \in 0..MaxEarly /\ changes \in 0..MaxChanges
          /\ wakeAt \in 0..Never /\ requested \in 0..Never
          /\ generation \in Nat /\ lag \in Nat /\ failures \in Nat
      BY <2>2, ScheduleBounds DEF Init
    <2>4. /\ ready \in BOOLEAN /\ fresh \in BOOLEAN /\ edited \in BOOLEAN
          /\ outcome \in Outcomes /\ running \in {"idle", "evaluating", "notifying"}
      BY DEF Init
    <2> QED
      BY <2>1, <2>3, <2>4 DEF TypeOK
  <1>2. NeverLate /\ EditsArePrompt /\ QueueShape /\ EventsAreFew /\ EarlyRunsAreLimited
    BY DEF Init, NeverLate, EditsArePrompt, QueueShape, EventsAreFew, EarlyRunsAreLimited, EarlyRuns
  <1> QED
    BY <1>1, <1>2 DEF IndInv

LEMMA NextIndInv == IndInv /\ [Next]_vars => IndInv'
  <1> SUFFICES ASSUME IndInv, [Next]_vars PROVE IndInv'
    OBVIOUS
  <1>1. CASE Next
    BY <1>1, TickKeeps, EditObjectKeeps, OutcomeChangesKeeps, EventArrivesKeeps, TimerFiresKeeps,
       BeginReconcileKeeps, EvaluatesKeeps, NotifiesKeeps, PermanentFailKeeps, CompareFailsKeeps
       DEF Next
  <1>2. CASE UNCHANGED vars
    <2>1. TypeOK' /\ NeverLate' /\ EditsArePrompt' /\ QueueShape'
      BY <1>2 DEF vars, IndInv, TypeOK, NeverLate, EditsArePrompt, QueueShape
    <2>2. (Due' <=> Due) /\ StillToWrite' = StillToWrite /\ FailureToWrite' = FailureToWrite
          /\ Count(ready)' = Count(ready)
      BY <1>2 DEF vars, Due, StillToWrite, FailureToWrite, Failed, Count
    <2>3. EventsAreFew' /\ EarlyRunsAreLimited'
      BY <1>2, <2>2 DEF vars, IndInv, EventsAreFew, EarlyRunsAreLimited
    <2> QED
      BY <2>1, <2>3 DEF IndInv
  <1> QED
    BY <1>1, <1>2

(* IndInv holds in every reachable state, and with it the type invariant:  *)
(* the rate limiter's count and every time the queue is asked for are      *)
(* bounded, however long the cluster is unreachable or writes fail.        *)
THEOREM Inductive == Spec => []IndInv
  BY InitIndInv, NextIndInv, PTL DEF Spec

(* The variables keep their types. *)
THEOREM TypeCorrect == Spec => []TypeOK
  <1>1. IndInv => TypeOK
    BY DEF IndInv
  <1> QED
    BY <1>1, Inductive, PTL

(* No interleaving of watch events and refused writes with the requeue     *)
(* Reconcile asks for makes the next run later than that.                  *)
THEOREM RunsOnTime == Spec => []NeverLate
  <1>1. IndInv => NeverLate
    BY DEF IndInv
  <1> QED
    BY <1>1, Inductive, PTL

(* A write of the object during a reconcile, or one that the cache lacks,  *)
(* is an event or an entry of the queue, which the end of that reconcile   *)
(* does not postpone.                                                      *)
THEOREM EditsAreSeen == Spec => []EditsArePrompt
  <1>1. IndInv => EditsArePrompt
    BY DEF IndInv
  <1> QED
    BY <1>1, Inductive, PTL

(* A SourceError, which Reconcile answers with the interval, is met again  *)
(* early at most three times in a row, although its own status write is a  *)
(* watch event, conflicts with an edit or fails, and follows the writes of *)
(* an evaluation and of its fingerprint.                                   *)
THEOREM FailuresSettle == Spec => []PermanentFailureSettles
  <1>1. IndInv => PermanentFailureSettles
    BY DEF IndInv, EarlyRunsAreLimited, PermanentFailureSettles
  <1> QED
    BY <1>1, Inductive, PTL


=============================================================================
