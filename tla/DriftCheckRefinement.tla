-------------------------- MODULE DriftCheckRefinement --------------------------
(***************************************************************************)
(* The controller implements DriftPromise, and its gauges fit its status:  *)
(* both from HandInv, an invariant of what a reconcile has in hand between *)
(* its steps, which is inductive relative to IndInv.                       *)
(***************************************************************************)
EXTENDS DriftCheckSafety

-----------------------------------------------------------------------------
(* What a step leaves in hand, to the letter.                              *)

SetsGauge(r, series) == gauge' = [gauge EXCEPT ![r][worker[r].key] = series]

(* The reconcile of r has failed to evaluate, for the reason given. *)
Fails(r, pc, reason) ==
    /\ worker'[r].pc = pc
    /\ worker'[r].dc.status
          = NotReady(worker[r].dc.status, reason, worker[r].dc.generation)

LEMMA NotReadyOutcome ==
    ASSUME TypeInv, NEW r \in Replicas, ~At(r, "idle"),
           NEW pc \in {"fail", "transient"}, NEW reason \in Reasons, SetNotReady(r, pc, reason)
    PROVE  OthersWait(r) /\ GoesOn(r) /\ Fails(r, pc, reason)
  <1> DEFINE s == NotReady(worker[r].dc.status, reason, worker[r].dc.generation)
  <1>1. worker[r].dc \in Objects
    BY DEF TypeInv, WorkerShape
  <1>2. s \in Statuses
    BY <1>1, NotReadyType DEF Objects
  <1>3. Moves(r, pc, s)
    BY DEF SetNotReady, Moves
  <1>4. pc \in PCs \ {"idle"}
    BY DEF PCs
  <1>5. OthersWait(r) /\ GoesOn(r) /\ worker'[r].pc = pc /\ worker'[r].dc.status = s
    <2> HIDE DEF s
    <2> QED BY <1>2, <1>3, <1>4, StatusEffect
  <1> QED
    BY <1>5 DEF Fails

LEMMA BuildSourceOutcome ==
    ASSUME TypeInv, NEW r \in Replicas, BuildSource(r)
    PROVE  /\ OthersWait(r) /\ GoesOn(r)
           /\ \/ /\ worker'[r].pc = "compare" /\ worker'[r].dc = worker[r].dc
                 /\ UNCHANGED gauge
              \/ /\ \E reason \in {"SourceError", "InvalidTarget"} : Fails(r, "fail", reason)
                 /\ SetsGauge(r, Absent)
  <1>1. ~At(r, "idle") /\ worker[r] \in Workers
    BY DEF BuildSource, At, TypeInv, TypeOK
  <1>2. OthersWait(r) /\ GoesOn(r)
    BY BuildSourceEffect
  <1>3. CASE \E reason \in {"SourceError", "InvalidTarget"} : PermanentFail(r, reason)
    <2>1. PICK reason \in {"SourceError", "InvalidTarget"} : PermanentFail(r, reason)
      BY <1>3
    <2>2. SetNotReady(r, "fail", reason) /\ SetsGauge(r, Absent)
      BY <2>1 DEF PermanentFail, SetsGauge
    <2>3. Fails(r, "fail", reason)
      BY <1>1, <2>2, NotReadyOutcome DEF Reasons
    <2> QED
      BY <1>2, <2>2, <2>3
  <1>4. CASE Goto(r, "compare") /\ UNCHANGED gauge
    <2>1. worker'[r] = [worker[r] EXCEPT !.pc = "compare"]
      BY <1>4 DEF Goto, TypeInv, TypeOK
    <2>2. worker'[r].pc = "compare" /\ worker'[r].dc = worker[r].dc
      BY <1>1, <2>1 DEF Workers
    <2> QED
      BY <1>2, <1>4, <2>2
  <1> QED
    BY <1>3, <1>4 DEF BuildSource

(* The reconcile of r has evaluated, and read what the world has. *)
Evaluates(r, reading) ==
    /\ worker'[r].pc = "publish"
    /\ worker'[r].dc.status
          = Evaluated(worker[r].dc.status, reading, worker[r].dc.generation)

LEMMA CompareOutcome ==
    ASSUME TypeInv, NEW r \in Replicas, Compare(r)
    PROVE  /\ OthersWait(r) /\ GoesOn(r)
           /\ \/ Fails(r, "fail", "FetchError") /\ SetsGauge(r, Absent)
              \/ Fails(r, "transient", "CompareError") /\ UNCHANGED gauge
              \/ /\ \E reading \in Readings : Evaluates(r, reading)
                 /\ UNCHANGED gauge
  <1>1. ~At(r, "idle")
    BY DEF Compare, At
  <1>2. OthersWait(r) /\ GoesOn(r)
    BY CompareEffect
  <1>3. CASE PermanentFail(r, "FetchError")
    <2>1. SetNotReady(r, "fail", "FetchError") /\ SetsGauge(r, Absent)
      BY <1>3 DEF PermanentFail, SetsGauge
    <2> QED
      BY <1>1, <1>2, <2>1, NotReadyOutcome DEF Reasons
  <1>4. CASE SetNotReady(r, "transient", "CompareError") /\ UNCHANGED gauge
    BY <1>1, <1>2, <1>4, NotReadyOutcome DEF Reasons
  <1>5. CASE /\ worker' = [worker EXCEPT
                    ![r].pc = "publish",
                    ![r].dc.status = Evaluated(@, world[worker[r].key].reading,
                                               worker[r].dc.generation)]
             /\ UNCHANGED gauge
    <2> DEFINE rd == world[worker[r].key].reading
               s == Evaluated(worker[r].dc.status, rd, worker[r].dc.generation)
    <2>1. worker[r].key \in Checks /\ worker[r].dc \in Objects
      BY <1>1 DEF TypeInv, WorkerShape
    <2>2. rd \in Readings /\ rd \in AllReadings
      BY <2>1, ReadingsAreReadings DEF TypeInv, TypeOK
    <2> HIDE DEF rd
    <2>3. s \in Statuses
      BY <2>1, <2>2, EvaluatedType DEF Objects
    <2>4. Moves(r, "publish", s)
      BY <1>5 DEF rd, Moves
    <2>5. "publish" \in PCs \ {"idle"}
      BY DEF PCs
    <2>6. worker'[r].pc = "publish" /\ worker'[r].dc.status = s
      <3> HIDE DEF s
      <3> QED BY <1>1, <2>3, <2>4, <2>5, StatusEffect
    <2> QED
      BY <1>2, <1>5, <2>2, <2>6 DEF Evaluates
  <1> QED
    BY <1>3, <1>4, <1>5 DEF Compare

(* A reconcile starts with the cached object in hand. *)
LEMMA TakeOutcome ==
    ASSUME TypeInv, NEW r \in Replicas, NEW c \in Checks, ReconcileExisting(r, c)
    PROVE  /\ OthersWait(r)
           /\ worker[r].pc = "idle" /\ worker[r].key = Absent
           /\ worker'[r].pc = "build" /\ worker'[r].key = c /\ worker'[r].dc = cache[r][c]
  <1> DEFINE new == [Idle EXCEPT !.pc = "build", !.key = c, !.dc = cache[r][c]]
  <1>1. new.pc = "build" /\ new.key = c /\ new.dc = cache[r][c]
    BY IdleType DEF Workers
  <1>2. worker' = [worker EXCEPT ![r] = new]
    BY DEF ReconcileExisting
  <1>3. worker[r].pc = "idle" /\ worker[r] = Idle
    BY DEF ReconcileExisting, Take, At, TypeInv, WorkerShape
  <1>4. worker[r].key = Absent
    BY <1>3 DEF Idle
  <1> HIDE DEF new
  <1> QED
    BY <1>1, <1>2, <1>3, <1>4 DEF OthersWait, TypeInv, TypeOK

(* A status write that the API server takes replaces the stored status by  *)
(* the one in hand; one that changes nothing, or fails, leaves it.         *)
LEMMA WriteOutcome ==
    ASSUME TypeInv, NEW r \in Replicas,
           MarkFailed(r) \/ MarkTransient(r) \/ Publish(r) \/ PersistFingerprint(r)
    PROVE  LET c == worker[r].key
               object == [api[c] EXCEPT !.status = worker[r].dc.status]
           IN /\ OthersWait(r)
              /\ c \in Checks /\ worker[r].dc \in Objects
              /\ \/ /\ worker'[r] = Idle /\ worker'[r].pc = "idle" /\ worker'[r].key = Absent
                    /\ r \notin fresh'
                    /\ \/ Accepted(r) /\ Replace(c, object, {})
                       \/ UNCHANGED objectVars /\ fresh' = fresh \ {r}
                 \/ /\ worker[r].pc = "publish" /\ worker'[r].pc = "record"
                    /\ worker'[r].key = c /\ worker'[r].dc = worker[r].dc
                    /\ Accepted(r) /\ r \in fresh'
                    /\ \/ Replace(c, object, {r})
                       \/ UNCHANGED objectVars /\ fresh' = fresh /\ object = api[c]
  <1> DEFINE c == worker[r].key
             object == [api[c] EXCEPT !.status = worker[r].dc.status]
  <1>1. OthersWait(r) /\ c \in Checks /\ worker[r].dc \in Objects
    BY WriteEffect
    DEF MarkFailed, MarkTransient, Publish, PersistFingerprint, At, TypeInv, WorkerShape
  <1>2. Idle.key = Absent
    BY DEF Idle
  <1>3. CASE /\ worker'[r] = Idle /\ worker'[r].pc = "idle"
             /\ UpdateSucceeds(r, {}) \/ UpdateFails(r)
    <2>1. \/ Accepted(r) /\ Replace(c, object, {})
          \/ UNCHANGED objectVars /\ fresh' = fresh \ {r}
      BY <1>3 DEF UpdateSucceeds, UpdateFails, Store
    <2>2. r \notin fresh'
      BY <2>1 DEF Replace
    <2> QED
      BY <1>1, <1>2, <1>3, <2>1, <2>2
  <1>4. CASE /\ worker[r].pc = "publish" /\ worker'[r].pc = "record"
             /\ worker'[r].key = c /\ worker'[r].dc = worker[r].dc
             /\ UpdateSucceeds(r, {r})
    <2>1. Accepted(r) /\ Store(r, {r})
      BY <1>4 DEF UpdateSucceeds
    <2>2. \/ Replace(c, object, {r})
          \/ UNCHANGED objectVars /\ fresh' = fresh /\ object = api[c]
      BY <2>1 DEF Store, Accepted
    <2>3. r \in fresh'
      BY <2>1, <2>2 DEF Replace, Accepted
    <2> QED
      BY <1>1, <1>4, <2>1, <2>2, <2>3
  <1> QED
    BY <1>3, <1>4, WriteEffect

-----------------------------------------------------------------------------
(* Fresh workers.                                                          *)

(* The check of a fresh worker is the one it was, and so is its worker. *)
Unaffected(q) ==
    /\ q \in fresh /\ worker'[q] = worker[q]
    /\ api'[worker[q].key] = api[worker[q].key]

(* How a worker comes to be fresh: it was, and nothing or a step of its    *)
(* own has happened to it; or it has just read a current copy.             *)
LEMMA HowFresh ==
    ASSUME TypeInv, FreshWorkers, [Next]_vars, NEW q \in Replicas, q \in fresh'
    PROVE  \/ Unaffected(q)
           \/ \E c \in Checks : /\ ReconcileExisting(q, c) /\ UNCHANGED api
                                /\ <<q, c>> \in synced
           \/ /\ q \in fresh /\ UNCHANGED api
              /\ \/ BuildSource(q) \/ Compare(q) \/ SendWebhook(q) \/ NotifyComplete(q)
                 \/ RecordDrift(q) /\ worker'[q].pc = "send"
           \/ /\ q \in fresh /\ Publish(q) /\ worker'[q].pc = "record"
              /\ worker'[q].key = worker[q].key /\ worker'[q].dc = worker[q].dc
              /\ api'[worker[q].key]
                    = [api[worker[q].key] EXCEPT !.status = worker[q].dc.status]
  <1> DEFINE key == worker[q].key
  <1>1. ASSUME q \in fresh PROVE key \in Checks
    BY <1>1 DEF TypeInv, TypeOK, WorkerShape, FreshWorkers
  <1>2. ASSUME NEW c \in Checks, NEW object, NEW holders, Replace(c, object, holders),
               q \notin holders, worker'[q] = worker[q]
        PROVE  Unaffected(q)
    BY <1>1, <1>2 DEF Replace, Unaffected, TypeInv, TypeOK
  <1>3. ASSUME NEW c \in Checks, User(c)
        PROVE  Unaffected(q)
    BY <1>2, <1>3 DEF User, CreateCheck, EditSpec, DeleteCheck
  <1>4. ASSUME \/ \E c \in Checks : WorldChanges(c)
               \/ \E r \in Replicas, c \in Checks : Manager(r, c) /\ ~ReconcileExisting(r, c)
               \/ UNCHANGED vars
        PROVE  Unaffected(q)
    BY <1>4 DEF Unaffected, WorldChanges, Manager, Deliver, TimerFires, ReconcileGone,
                ReconcileUnread, Take, objectVars, vars
  <1>5. ASSUME NEW r \in Replicas, NEW c \in Checks, ReconcileExisting(r, c), r # q
        PROVE  Unaffected(q)
    <2>1. UNCHANGED api /\ q \in fresh
      BY <1>5 DEF ReconcileExisting, Take, objectVars
    <2> QED
      BY <1>5, <2>1, TakeOutcome DEF Unaffected, OthersWait
  <1>6. ASSUME NEW c \in Checks, ReconcileExisting(q, c)
        PROVE  UNCHANGED api /\ <<q, c>> \in synced
    BY <1>6 DEF ReconcileExisting, Take, objectVars
  <1>7. ASSUME NEW r \in Replicas, Restart(r)
        PROVE  Unaffected(q)
    BY <1>7 DEF Restart, Unaffected, TypeInv, TypeOK
  <1>8. ASSUME NEW r \in Replicas, Worker(r), r # q
        PROVE  Unaffected(q)
    <2>1. CASE MarkFailed(r) \/ MarkTransient(r) \/ Publish(r) \/ PersistFingerprint(r)
      <3> DEFINE c == worker[r].key
                 object == [api[c] EXCEPT !.status = worker[r].dc.status]
      <3>1. /\ OthersWait(r) /\ c \in Checks
            /\ \/ Replace(c, object, {}) \/ Replace(c, object, {r})
               \/ UNCHANGED objectVars /\ fresh' \subseteq fresh
        BY <2>1, WriteOutcome
      <3>2. worker'[q] = worker[q]
        BY <1>8, <3>1 DEF OthersWait
      <3> HIDE DEF object
      <3> QED
        BY <1>2, <1>8, <3>1, <3>2 DEF Unaffected, objectVars
    <2>2. CASE ~(MarkFailed(r) \/ MarkTransient(r) \/ Publish(r) \/ PersistFingerprint(r))
      <3>1. UNCHANGED api /\ fresh' \subseteq fresh
        BY <1>8, <2>2 DEF Worker, BuildSource, Compare, RecordDrift, SendWebhook,
                          NotifyIncomplete, NotifyComplete, objectVars
      <3>2. OthersWait(r)
        BY <1>8, OnlyOneWorks
      <3> QED
        BY <1>8, <3>1, <3>2 DEF Unaffected, OthersWait
    <2> QED
      BY <2>1, <2>2
  <1>9. CASE MarkFailed(q) \/ MarkTransient(q) \/ Publish(q) \/ PersistFingerprint(q)
    <2> DEFINE object == [api[key] EXCEPT !.status = worker[q].dc.status]
    <2>1. /\ worker[q].pc = "publish" /\ worker'[q].pc = "record"
          /\ worker'[q].key = key /\ worker'[q].dc = worker[q].dc
          /\ Accepted(q) /\ key \in Checks
          /\ \/ Replace(key, object, {q})
             \/ UNCHANGED objectVars /\ object = api[key]
      BY <1>9, WriteOutcome
    <2>2. Publish(q) /\ q \in fresh
      BY <1>9, <2>1
      DEF MarkFailed, MarkTransient, Publish, PersistFingerprint, At, Accepted
    <2>3. api'[key] = object
      <3> HIDE DEF object
      <3> QED
        BY <2>1 DEF Replace, objectVars, TypeInv, TypeOK
    <2> QED
      BY <2>1, <2>2, <2>3
  <1>10. CASE BuildSource(q) \/ Compare(q) \/ SendWebhook(q) \/ NotifyComplete(q)
    BY <1>10 DEF BuildSource, Compare, SendWebhook, NotifyComplete, objectVars
  <1>11. CASE RecordDrift(q)
    <2>1. UNCHANGED api /\ fresh' \subseteq fresh
      BY <1>11 DEF RecordDrift, objectVars
    <2> QED
      BY <1>11, <2>1, RecordEffect
  <1>12. CASE NotifyIncomplete(q)
    BY <1>12 DEF NotifyIncomplete
  <1>13. CASE \E r \in Replicas : Worker(r)
    BY <1>8, <1>9, <1>10, <1>11, <1>12, <1>13 DEF Worker
  <1> QED
    BY <1>3, <1>4, <1>5, <1>6, <1>7, <1>13 DEF Next

LEMMA StatusInHandKept ==
    ASSUME TypeInv, SyncedCopies, FreshWorkers, StatusInHand, [Next]_vars
    PROVE  StatusInHand'
  <1> DEFINE Stored(q) == api[worker[q].key].status
  <1>1. ASSUME NEW q \in Replicas, q \in fresh'
        PROVE  OneStatement(worker'[q].pc, worker'[q].dc, api'[worker'[q].key].status)
    <2>1. CASE Unaffected(q)
      BY <2>1 DEF Unaffected, StatusInHand
    <2>2. ASSUME NEW c \in Checks, ReconcileExisting(q, c), UNCHANGED api,
                 <<q, c>> \in synced
          PROVE  OneStatement(worker'[q].pc, worker'[q].dc, api'[worker'[q].key].status)
      <3>1. worker'[q].dc = api[c]
        BY <2>2, TakeOutcome DEF SyncedCopies
      <3> QED
        BY <2>2, <3>1, TakeOutcome DEF OneStatement
    <2>3. CASE q \in fresh /\ UNCHANGED api /\ BuildSource(q)
      <3>1. worker[q].pc = "build" /\ worker[q].dc.status = Stored(q)
        BY <2>3 DEF BuildSource, At, StatusInHand, OneStatement
      <3> QED
        BY <2>3, <3>1, BuildSourceOutcome
        DEF OneStatement, GoesOn, Fails, FailureReasons
    <2>4. CASE q \in fresh /\ UNCHANGED api /\ Compare(q)
      <3>1. worker[q].pc = "compare" /\ worker[q].dc.status = Stored(q)
        BY <2>4 DEF Compare, At, StatusInHand, OneStatement
      <3> QED
        BY <2>4, <3>1, CompareOutcome
        DEF OneStatement, GoesOn, Fails, FailureReasons, Evaluates
    <2>5. CASE q \in fresh /\ UNCHANGED api
                 /\ ((RecordDrift(q) /\ worker'[q].pc = "send") \/ SendWebhook(q))
      <3>1. worker[q].dc.status = Stored(q)
        BY <2>5 DEF RecordDrift, SendWebhook, At, StatusInHand, OneStatement
      <3>2. worker'[q].pc = "send" /\ worker'[q].key = worker[q].key
              /\ worker'[q].dc = worker[q].dc
        BY <2>5, RecordEffect, SendEffect
      <3> QED
        BY <2>5, <3>1, <3>2 DEF OneStatement
    <2>6. CASE q \in fresh /\ UNCHANGED api /\ NotifyComplete(q)
      <3>1. worker[q].dc.status = Stored(q)
        BY <2>6 DEF NotifyComplete, At, StatusInHand, OneStatement
      <3>2. /\ worker'[q].pc = "persist" /\ api'[worker'[q].key].status = Stored(q)
            /\ worker'[q].dc.status
                  = [Stored(q) EXCEPT !.lastNotifiedHash = DriftHash(Stored(q).drifted)]
        BY <2>6, <3>1, CompleteEffect DEF GoesOn
      <3> HIDE DEF Stored
      <3> QED
        BY <3>2 DEF OneStatement
    <2>7. CASE /\ q \in fresh /\ worker'[q].pc = "record"
               /\ worker'[q].key = worker[q].key /\ worker'[q].dc = worker[q].dc
               /\ api'[worker[q].key]
                     = [api[worker[q].key] EXCEPT !.status = worker[q].dc.status]
      <3>1. worker[q].key \in Checks /\ worker[q].dc \in Objects
        BY <2>7 DEF FreshWorkers, TypeInv, TypeOK, WorkerShape
      <3>2. api[worker[q].key] \in Objects
        BY <2>7, <3>1 DEF FreshWorkers, TypeInv, TypeOK
      <3>3. api'[worker[q].key].status = worker[q].dc.status
        BY <2>7, <3>1, <3>2, WrittenObject
      <3> QED
        BY <2>7, <3>3 DEF OneStatement
    <2> QED
      BY <1>1, <2>1, <2>2, <2>3, <2>4, <2>5, <2>6, <2>7, HowFresh
  <1>2. fresh' \subseteq Replicas
    BY NextTypeInv DEF TypeInv, TypeOK
  <1> QED
    BY <1>1, <1>2 DEF StatusInHand

(* The drift list in hand stays what the comparison read. *)
LEMMA ListInHandKept ==
    ASSUME TypeInv, ListInHand, [Next]_vars
    PROVE  ListInHand'
  <1> DEFINE Listed(q) == \E reading \in Readings :
                             worker[q].dc.status.drifted = Drifted(reading)
  <1>1. ASSUME NEW r \in Replicas, Compare(r), worker'[r].pc = "publish"
        PROVE  Listed(r)'
    <2>1. PICK reading \in Readings : Evaluates(r, reading)
      BY <1>1, CompareOutcome DEF Fails
    <2>2. worker[r].dc \in Objects
      BY <1>1 DEF Compare, At, TypeInv, WorkerShape
    <2>3. Evaluated(worker[r].dc.status, reading, worker[r].dc.generation).drifted
             = Drifted(reading)
      BY <2>2 DEF Evaluated, Objects, Statuses
    <2> QED
      BY <2>1, <2>3 DEF Evaluates
  <1>2. ASSUME NEW r \in Replicas, OthersWait(r),
               \/ \E c \in Checks : ReconcileExisting(r, c)
               \/ Worker(r) \/ Restart(r),
               worker'[r].pc \in Publishing
        PROVE  Listed(r)'
    <2>1. CASE Compare(r)
      <3>1. worker'[r].pc = "publish"
        BY <1>2, <2>1, CompareOutcome DEF Fails, Evaluates, Publishing
      <3> QED
        BY <1>1, <2>1, <3>1
    <2>2. CASE NotifyComplete(r)
      BY <2>2, CompleteKeeps DEF NotifyComplete, At, ListInHand, Publishing
    <2>3. CASE worker'[r].dc = worker[r].dc /\ worker[r].pc \in Publishing
      BY <2>3 DEF ListInHand
    <2>4. ASSUME ~Compare(r), worker'[r].pc = "publish" PROVE FALSE
      <3>1. CASE \E c \in Checks : ReconcileExisting(r, c)
        BY <2>4, <3>1, TakeOutcome
      <3>2. CASE Restart(r)
        BY <2>4, <3>2 DEF Restart, Idle, TypeInv, TypeOK
      <3>3. CASE NotifyIncomplete(r)
        <4>1. worker[r].key \in Checks
          BY <3>3 DEF NotifyIncomplete, At, TypeInv, WorkerShape
        <4> QED
          BY <2>4, <3>3, <4>1, ReturnEffect DEF NotifyIncomplete
      <3> QED
        BY <1>2, <2>4, <3>1, <3>2, <3>3, BuildSourceEffect, WriteEffect, RecordEffect,
           SendEffect, CompleteEffect DEF Worker
    <2> QED
      BY <1>2, <2>1, <2>2, <2>3, <2>4, WorkerCases DEF Publishing
  <1> QED
    BY <1>2, OneWorker DEF ListInHand, OthersWait

-----------------------------------------------------------------------------
(* Gauges.                                                                 *)

(* A worker at rest in a step keeps the series of its check. *)
LEMMA GaugeAtRest ==
    ASSUME TypeInv, [Next]_vars, NEW q \in Replicas, worker'[q] = worker[q],
           worker[q].pc # "idle"
    PROVE  gauge'[q][worker[q].key] = gauge[q][worker[q].key]
  <1>1. ASSUME NEW r \in Replicas, NEW c \in Checks, Manager(r, c)
        PROVE  gauge'[q] = gauge[q]
    <2>1. CASE ReconcileGone(r, c)
      BY <2>1 DEF ReconcileGone, Take, At, TypeInv, TypeOK
    <2> QED
      BY <1>1, <2>1 DEF Manager, Deliver, TimerFires, ReconcileUnread, ReconcileExisting
  <1>2. ASSUME NEW r \in Replicas, BuildSource(r) \/ Compare(r)
        PROVE  gauge'[q] = gauge[q]
    <2>1. worker'[r].pc # worker[r].pc
      BY <1>2, BuildSourceOutcome, CompareOutcome DEF Fails, Evaluates, BuildSource, Compare, At
    <2> QED
      BY <1>2, <2>1, BuildSourceOutcome, CompareOutcome DEF SetsGauge, TypeInv, TypeOK
  <1>3. ASSUME NEW r \in Replicas, RecordDrift(r)
        PROVE  gauge'[q] = gauge[q]
    <2>1. worker'[r].pc # "record" /\ worker[r].pc = "record"
      BY <1>3, RecordEffect DEF RecordDrift, At
    <2> QED
      BY <1>3, <2>1 DEF RecordDrift, TypeInv, TypeOK
  <1>4. ASSUME NEW r \in Replicas, Restart(r)
        PROVE  gauge'[q] = gauge[q]
    <2>1. r # q
      BY <1>4 DEF Restart, Idle, TypeInv, TypeOK
    <2> QED
      BY <1>4, <2>1 DEF Restart, TypeInv, TypeOK
  <1>5. ASSUME NEW r \in Replicas, Worker(r), ~BuildSource(r), ~Compare(r), ~RecordDrift(r)
        PROVE  UNCHANGED gauge
    BY <1>5 DEF Worker, MarkFailed, MarkTransient, Publish, SendWebhook, NotifyIncomplete,
                NotifyComplete, PersistFingerprint
  <1>6. ASSUME NEW c \in Checks, User(c) \/ WorldChanges(c)
        PROVE  UNCHANGED gauge
    BY <1>6 DEF User, CreateCheck, EditSpec, DeleteCheck, WorldChanges
  <1> QED
    BY <1>1, <1>2, <1>3, <1>4, <1>5, <1>6 DEF Next, vars

LEMMA NotReadyCondition ==
    ASSUME NEW s \in Statuses, NEW reason, NEW generation
    PROVE  /\ NotReady(s, reason, generation).ready.status = "False"
           /\ NotReady(s, reason, generation).ready.reason = reason
  BY DEF NotReady, Condition, Statuses

LEMMA EvaluatedCondition ==
    ASSUME NEW s \in Statuses, NEW reading, NEW generation
    PROVE  Evaluated(s, reading, generation).ready.status = "True"
  BY DEF Evaluated, Condition, Statuses

LEMMA GaugeInHandKept ==
    ASSUME TypeInv, GaugeInHand, [Next]_vars
    PROVE  GaugeInHand'
  <1> DEFINE Right(q) == SeriesInHand(worker[q].pc, worker[q].dc.status,
                                      gauge[q][worker[q].key])
  <1>1. \A q \in Replicas : worker[q].pc # "idle" => Right(q)
    BY DEF GaugeInHand, At
  <1>2. ASSUME NEW q \in Replicas, worker'[q] = worker[q], worker'[q].pc # "idle"
        PROVE  Right(q)'
    <2>1. gauge'[q][worker[q].key] = gauge[q][worker[q].key] /\ Right(q)
      BY <1>1, <1>2, GaugeAtRest
    <2> QED
      BY <1>2, <2>1
  <1>3. ASSUME NEW r \in Replicas, OthersWait(r),
               \/ \E c \in Checks : ReconcileExisting(r, c)
               \/ Worker(r) \/ Restart(r),
               worker'[r].pc # "idle"
        PROVE  Right(r)'
    <2>1. CASE \E c \in Checks : ReconcileExisting(r, c)
      BY <2>1, TakeOutcome DEF SeriesInHand, Publishing
    <2>2. CASE BuildSource(r) \/ Compare(r)
      <3>1. /\ worker[r].dc \in Objects /\ worker[r].dc.status \in Statuses
            /\ worker[r].key \in Checks
        BY <2>2 DEF BuildSource, Compare, At, TypeInv, WorkerShape, Objects
      <3>2. CASE \E reason \in {"SourceError", "InvalidTarget", "FetchError"} :
                    Fails(r, "fail", reason) /\ SetsGauge(r, Absent) /\ GoesOn(r)
        <4>1. PICK reason \in {"SourceError", "InvalidTarget", "FetchError"} :
                 Fails(r, "fail", reason) /\ SetsGauge(r, Absent) /\ GoesOn(r)
          BY <3>2
        <4>2. /\ worker'[r].dc.status.ready.status = "False"
              /\ worker'[r].dc.status.ready.reason = reason
          BY <3>1, <4>1, NotReadyCondition DEF Fails
        <4>3. gauge'[r][worker'[r].key] = Absent
          BY <3>1, <4>1 DEF SetsGauge, GoesOn, TypeInv, TypeOK
        <4> QED
          BY <4>1, <4>2, <4>3 DEF SeriesInHand, Publishing, Fails
      <3>3. CASE worker'[r].pc \in {"compare", "transient"}
        BY <3>3 DEF SeriesInHand, Publishing
      <3>4. CASE \E reading \in Readings : Evaluates(r, reading)
        BY <3>1, <3>4, EvaluatedCondition DEF Evaluates, SeriesInHand
      <3> QED
        BY <2>2, <3>2, <3>3, <3>4, BuildSourceOutcome, CompareOutcome DEF Fails
    <2>3. CASE MarkFailed(r) \/ MarkTransient(r) \/ Publish(r) \/ PersistFingerprint(r)
      <3>1. /\ worker[r].pc = "publish" /\ worker'[r].pc = "record"
            /\ worker'[r].dc = worker[r].dc
        BY <1>3, <2>3, WriteOutcome
      <3> QED
        BY <1>1, <3>1 DEF SeriesInHand, Publishing
    <2>4. CASE RecordDrift(r)
      <3>1. worker[r].pc = "record" /\ worker[r].key \in Checks
        BY <2>4 DEF RecordDrift, At, TypeInv, WorkerShape
      <3>2. /\ worker'[r].pc = "send" /\ worker'[r].key = worker[r].key
            /\ worker'[r].dc = worker[r].dc
        BY <1>3, <2>4, RecordEffect
      <3>3. gauge'[r][worker[r].key] = worker[r].dc.status.summary
        BY <2>4, <3>1 DEF RecordDrift, TypeInv, TypeOK
      <3> QED
        BY <1>1, <3>1, <3>2, <3>3 DEF SeriesInHand, Publishing
    <2>5. CASE SendWebhook(r)
      <3>1. worker[r].pc = "send" /\ UNCHANGED gauge
        BY <2>5 DEF SendWebhook, At
      <3> QED
        BY <1>1, <2>5, <3>1, SendEffect DEF SeriesInHand, Publishing
    <2>6. CASE NotifyIncomplete(r)
      <3>1. worker[r].key \in Checks
        BY <2>6 DEF NotifyIncomplete, At, TypeInv, WorkerShape
      <3> QED
        BY <1>3, <2>6, <3>1, ReturnEffect DEF NotifyIncomplete
    <2>7. CASE NotifyComplete(r)
      <3>1. worker[r].pc = "send" /\ UNCHANGED gauge
        BY <2>7 DEF NotifyComplete, At
      <3> QED
        BY <1>1, <2>7, <3>1, CompleteEffect, CompleteKeeps
        DEF SeriesInHand, Publishing, GoesOn
    <2>8. CASE Restart(r)
      BY <1>3, <2>8 DEF Restart, Idle, TypeInv, TypeOK
    <2> QED
      BY <1>3, <2>1, <2>2, <2>3, <2>4, <2>5, <2>6, <2>7, <2>8 DEF Worker
  <1>4. \A q \in Replicas : worker'[q].pc # "idle" => Right(q)'
    BY <1>2, <1>3, OneWorker DEF OthersWait
  <1> QED
    BY <1>4 DEF GaugeInHand, At

-----------------------------------------------------------------------------
(* Stale workers.                                                          *)

(* The watch has yet to tell r of the object under name c, or has queued it. *)
Coming(r, c) == <<r, c>> \notin synced \/ c \in queue[r]

(* News stays on its way until its name is taken. *)
LEMMA NewsStays ==
    ASSUME TypeInv, [Next]_vars, NEW r \in Replicas, NEW c \in Checks, Coming(r, c),
           worker[r].pc # "idle"
    PROVE  Coming(r, c)' \/ worker'[r].pc = "idle"
  <1>1. ASSUME NEW d \in Checks, NEW object, NEW holders, Replace(d, object, holders),
               UNCHANGED queue
        PROVE  Coming(r, c)'
    BY <1>1 DEF Coming, Replace
  <1>2. ASSUME UNCHANGED <<synced, queue>>
        PROVE  Coming(r, c)'
    BY <1>2 DEF Coming
  <1>3. ASSUME NEW d \in Checks, User(d) \/ WorldChanges(d)
        PROVE  Coming(r, c)'
    BY <1>1, <1>2, <1>3 DEF User, CreateCheck, EditSpec, DeleteCheck, WorldChanges, objectVars
  <1>4. ASSUME NEW q \in Replicas, NEW d \in Checks, Manager(q, d)
        PROVE  Coming(r, c)'
    <2>1. CASE Deliver(q, d) \/ TimerFires(q, d)
      <3>1. queue' = [queue EXCEPT ![q] = @ \cup {d}]
        BY <2>1 DEF Deliver, TimerFires
      <3>2. queue[r] \subseteq queue'[r] /\ d \in queue'[q]
        BY <3>1 DEF TypeInv, TypeOK
      <3>3. synced' \subseteq synced \cup {<<q, d>>}
        BY <2>1 DEF Deliver, TimerFires, objectVars
      <3> QED
        BY <3>2, <3>3 DEF Coming
    <2>2. CASE ~(Deliver(q, d) \/ TimerFires(q, d))
      <3>1. q # r /\ queue' = [queue EXCEPT ![q] = @ \ {d}] /\ UNCHANGED synced
        BY <1>4, <2>2
        DEF Manager, ReconcileGone, ReconcileUnread, ReconcileExisting, Take, At, objectVars
      <3> QED
        BY <3>1 DEF Coming, TypeInv, TypeOK
    <2> QED
      BY <2>1, <2>2
  <1>5. ASSUME NEW q \in Replicas, Worker(q)
        PROVE  Coming(r, c)'
    <2>1. CASE MarkFailed(q) \/ MarkTransient(q) \/ Publish(q) \/ PersistFingerprint(q)
      <3> DEFINE object == [api[worker[q].key] EXCEPT !.status = worker[q].dc.status]
      <3>1. /\ worker[q].key \in Checks
            /\ \/ Replace(worker[q].key, object, {}) \/ Replace(worker[q].key, object, {q})
               \/ UNCHANGED objectVars
        BY <2>1, WriteOutcome
      <3>2. UNCHANGED queue
        BY <2>1 DEF MarkFailed, MarkTransient, Publish, PersistFingerprint
      <3> HIDE DEF object
      <3> QED
        BY <1>1, <1>2, <3>1, <3>2 DEF objectVars
    <2>2. CASE ~(MarkFailed(q) \/ MarkTransient(q) \/ Publish(q) \/ PersistFingerprint(q))
      BY <1>2, <1>5, <2>2 DEF Worker, BuildSource, Compare, RecordDrift, SendWebhook,
                              NotifyIncomplete, NotifyComplete, objectVars
    <2> QED
      BY <2>1, <2>2
  <1>6. ASSUME NEW q \in Replicas, Restart(q)
        PROVE  Coming(r, c)' \/ worker'[r].pc = "idle"
    <2>1. CASE q = r
      BY <1>6, <2>1 DEF Restart, Idle, TypeInv, TypeOK
    <2>2. CASE q # r
      BY <1>6, <2>2 DEF Restart, Coming, TypeInv, TypeOK
    <2> QED
      BY <2>1, <2>2
  <1>7. CASE UNCHANGED vars
    BY <1>2, <1>7 DEF vars
  <1> QED
    BY <1>3, <1>4, <1>5, <1>6, <1>7 DEF Next

(* A worker in the middle of a reconcile goes stale by a write to its      *)
(* check, of which the watch will tell.                                    *)
LEMMA HowStale ==
    ASSUME TypeInv, [Next]_vars, NEW r \in Replicas, r \in fresh, r \notin fresh',
           worker[r].key \in Checks
    PROVE  \/ <<r, worker[r].key>> \notin synced' \/ worker'[r].pc = "idle"
  <1> DEFINE c == worker[r].key
  <1>1. ASSUME NEW d \in Checks, NEW object, NEW holders, Replace(d, object, holders)
        PROVE  <<r, c>> \notin synced'
    BY <1>1 DEF Replace
  <1>2. ASSUME NEW d \in Checks, User(d) \/ WorldChanges(d)
        PROVE  <<r, c>> \notin synced'
    BY <1>1, <1>2 DEF User, CreateCheck, EditSpec, DeleteCheck, WorldChanges
  <1>3. ASSUME NEW q \in Replicas, NEW d \in Checks, Manager(q, d)
        PROVE  worker[r].key = Absent
    <2>1. CASE ReconcileExisting(q, d)
      BY <2>1, TakeOutcome DEF ReconcileExisting, TypeInv, TypeOK
    <2> QED
      BY <1>3, <2>1 DEF Manager, Deliver, TimerFires, ReconcileGone, ReconcileUnread
  <1>4. ASSUME NEW q \in Replicas, Worker(q)
        PROVE  <<r, c>> \notin synced' \/ worker'[r].pc = "idle"
    <2>1. CASE MarkFailed(q) \/ MarkTransient(q) \/ Publish(q) \/ PersistFingerprint(q)
      <3> DEFINE object == [api[worker[q].key] EXCEPT !.status = worker[q].dc.status]
      <3>1. /\ worker[q].key \in Checks
            /\ \/ Replace(worker[q].key, object, {}) \/ Replace(worker[q].key, object, {q})
               \/ fresh' = fresh \ {q} /\ worker'[q].pc = "idle"
               \/ fresh' = fresh
        BY <2>1, WriteOutcome
      <3> HIDE DEF object
      <3> QED
        BY <1>1, <3>1
    <2>2. CASE RecordDrift(q)
      BY <2>2, RecordEffect DEF RecordDrift
    <2>3. CASE NotifyIncomplete(q)
      <3>1. worker[q].key \in Checks
        BY <2>3 DEF NotifyIncomplete, At, TypeInv, WorkerShape
      <3> QED
        BY <2>3, <3>1, ReturnEffect DEF NotifyIncomplete
    <2> QED
      BY <1>4, <2>1, <2>2, <2>3
      DEF Worker, BuildSource, Compare, SendWebhook, NotifyComplete
  <1>5. ASSUME NEW q \in Replicas, Restart(q)
        PROVE  worker'[r].pc = "idle"
    <2>1. q = r
      BY <1>5 DEF Restart
    <2> QED
      BY <1>5, <2>1 DEF Restart, Idle, TypeInv, TypeOK
  <1> QED
    BY <1>2, <1>3, <1>4, <1>5, AbsentIsNoObject DEF Next, vars

LEMMA StaleIsNoticedKept ==
    ASSUME TypeInv, StaleIsNoticed, [Next]_vars
    PROVE  StaleIsNoticed'
  <1>1. ASSUME NEW r \in Replicas, r \notin fresh', worker'[r].pc # "idle"
        PROVE  Coming(r, worker[r].key)'
    <2>1. ASSUME NEW c \in Checks, ReconcileExisting(r, c)
          PROVE  Coming(r, worker[r].key)'
      <3>1. <<r, c>> \notin synced /\ UNCHANGED synced
        BY <1>1, <2>1 DEF ReconcileExisting, Take, objectVars, TypeInv, TypeOK
      <3> QED
        BY <2>1, <3>1, TakeOutcome DEF Coming
    <2>2. ASSUME worker'[r].key = worker[r].key, worker[r].pc # "idle"
          PROVE  Coming(r, worker[r].key)'
      <3>1. worker[r].key \in Checks
        BY <2>2 DEF TypeInv, WorkerShape, At
      <3>2. CASE r \in fresh
        <4>1. <<r, worker[r].key>> \notin synced'
          BY <1>1, <3>1, <3>2, HowStale
        <4> QED
          BY <2>2, <4>1 DEF Coming
      <3>3. CASE r \notin fresh
        <4>1. Coming(r, worker[r].key)
          BY <2>2, <3>3 DEF StaleIsNoticed, Coming, At
        <4>2. ASSUME NEW d \in Checks, d = worker[r].key
              PROVE  Coming(r, d)'
          BY <1>1, <2>2, <4>1, <4>2, NewsStays
        <4> QED
          BY <2>2, <3>1, <4>2 DEF Coming
      <3> QED
        BY <3>2, <3>3
    <2>3. \/ \E c \in Checks : ReconcileExisting(r, c)
          \/ worker'[r].key = worker[r].key /\ worker[r].pc # "idle"
      <3>1. CASE worker'[r] = worker[r]
        BY <1>1, <3>1
      <3>2. CASE Restart(r)
        BY <1>1, <3>2 DEF Restart, Idle, TypeInv, TypeOK
      <3>3. CASE Worker(r)
        <4>1. CASE NotifyIncomplete(r)
          <5>1. worker[r].key \in Checks
            BY <4>1 DEF NotifyIncomplete, At, TypeInv, WorkerShape
          <5> QED
            BY <1>1, <4>1, <5>1, ReturnEffect DEF NotifyIncomplete
        <4>2. worker[r].pc # "idle"
          BY <3>3 DEF Worker, BuildSource, Compare, MarkFailed, MarkTransient, Publish,
                      RecordDrift, SendWebhook, NotifyIncomplete, NotifyComplete,
                      PersistFingerprint, At
        <4> QED
          BY <1>1, <3>3, <4>1, <4>2, BuildSourceEffect, CompareEffect, WriteOutcome,
             RecordEffect, SendEffect, CompleteEffect DEF Worker, GoesOn
      <3> QED
        BY <1>1, <3>1, <3>2, <3>3, OneWorker DEF OthersWait
    <2> QED
      BY <2>1, <2>2, <2>3
  <1> QED
    BY <1>1 DEF StaleIsNoticed, Coming, At

-----------------------------------------------------------------------------
(* Settled replicas.                                                       *)

(* A check that comes to rest by a return of its reconcile waits for the   *)
(* interval, and the series its reconcile leaves fit what it has stored.   *)
LEMMA RestAfterReturn ==
    ASSUME TypeInv, FreshWorkers, StatusInHand, StaleIsNoticed, GaugeInHand,
           NEW r \in Replicas, Worker(r),
           NEW c \in Checks, c = worker[r].key, Settled(r, c)'
    PROVE  Exports(gauge'[r][c], api'[c])
  <1> DEFINE dc == worker[r].dc
             Unnoticed == <<r, c>> \in synced /\ c \notin queue[r]
  <1>1. <<r, c>> \in synced' /\ c \notin queue'[r] /\ timer'[r][c] # "backoff"
    BY DEF Settled
  <1>2. worker'[r].key # c
    BY DEF Settled
  <1>3. worker[r].pc # "idle" /\ dc \in Objects
    BY AbsentIsNoObject DEF TypeInv, WorkerShape, At, Idle
  <1>4. SeriesInHand(worker[r].pc, dc.status, gauge[r][c])
    BY <1>3 DEF GaugeInHand, At
  <1>5. ASSUME Unnoticed
        PROVE  r \in fresh /\ api[c] # Absent /\ OneStatement(worker[r].pc, dc, api[c].status)
    BY <1>3, <1>5 DEF StaleIsNoticed, FreshWorkers, StatusInHand, At
  <1>6. ASSUME NEW wait \in {"interval", "backoff"}, Return(r, c, wait), UNCHANGED queue
        PROVE  wait = "interval" /\ c \notin queue[r]
    BY <1>1, <1>6 DEF Return, TypeInv, TypeOK
  <1>7. ASSUME UNCHANGED api, Unnoticed, gauge'[r][c] = api[c].status.summary,
               api[c].status.ready.status = "True"
        PROVE  Exports(gauge'[r][c], api'[c])
    BY <1>5, <1>7 DEF Exports
  (* The early returns of notify. *)
  <1>8. CASE RecordDrift(r)
    <2>1. /\ worker[r].pc = "record" /\ gauge'[r][c] = dc.status.summary
          /\ UNCHANGED objectVars
      BY <1>8 DEF RecordDrift, At, TypeInv, TypeOK
    <2>2. ~NotifyWanted(dc)
      <3>1. ASSUME NotifyWanted(dc) PROVE worker'[r].key = c
        <4> DEFINE new == [worker[r] EXCEPT !.pc = "send", !.todo = dc.spec.webhooks]
        <4>1. worker'[r] = new
          BY <1>8, <3>1 DEF RecordDrift, TypeInv, TypeOK
        <4>2. new.key = c
          BY DEF TypeInv, TypeOK, Workers
        <4> QED
          BY <4>1, <4>2
      <3> QED
        BY <1>2, <3>1
    <2>3. Return(r, c, "interval") /\ UNCHANGED queue
      BY <1>8, <2>2 DEF RecordDrift
    <2>4. Unnoticed
      BY <1>1, <1>6, <2>1, <2>3 DEF objectVars
    <2>5. dc.status = api[c].status /\ dc.status.ready.status = "True"
      BY <1>4, <1>5, <2>1, <2>4 DEF OneStatement, SeriesInHand, Publishing
    <2> QED
      BY <1>7, <2>1, <2>4, <2>5 DEF objectVars
  <1>9. CASE NotifyIncomplete(r)
    <2>1. /\ worker[r].pc = "send" /\ Return(r, c, "interval")
          /\ UNCHANGED <<objectVars, gauge, queue>>
      BY <1>9 DEF NotifyIncomplete, At
    <2>2. Unnoticed
      BY <1>1, <1>6, <2>1 DEF objectVars
    <2>3. /\ dc.status = api[c].status /\ dc.status.ready.status = "True"
          /\ gauge[r][c] = dc.status.summary
      BY <1>4, <1>5, <2>1, <2>2 DEF OneStatement, SeriesInHand, Publishing
    <2> QED
      BY <1>7, <2>1, <2>2, <2>3 DEF objectVars
  (* A write that changes the status is noticed; one that does not has      *)
  (* stored what is in hand.                                               *)
  <1>10. ASSUME UpdateSucceeds(r, {}), UNCHANGED <<gauge, queue>>, c \notin queue[r]
         PROVE  Unnoticed /\ UNCHANGED api /\ api[c].status = dc.status
    <2> DEFINE object == [api[c] EXCEPT !.status = dc.status]
    <2>1. /\ Accepted(r)
          /\ Replace(c, object, {}) \/ (object = api[c] /\ UNCHANGED objectVars)
      <3>1. Accepted(r) /\ Store(r, {})
        BY <1>10 DEF UpdateSucceeds
      <3> QED
        BY <3>1 DEF Store
    <2>2. object = api[c] /\ UNCHANGED objectVars
      <3>1. ~Replace(c, object, {})
        <4> HIDE DEF object
        <4> QED BY <1>1 DEF Replace
      <3> QED
        BY <2>1, <3>1
    <2>3. api[c] \in Objects
      BY <2>1 DEF Accepted, TypeInv, TypeOK
    <2>4. object.status = dc.status
      BY <1>3, <2>3, WrittenObject
    <2> QED
      BY <1>1, <1>10, <2>2, <2>4 DEF objectVars
  <1>11. CASE MarkFailed(r)
    <2>1. /\ worker[r].pc = "fail" /\ UNCHANGED <<gauge, queue>>
          /\ UpdateSucceeds(r, {}) /\ Return(r, c, "interval")
      BY <1>6, <1>11 DEF MarkFailed, At
    <2>2. Unnoticed /\ UNCHANGED api /\ api[c].status = dc.status
      BY <1>6, <1>10, <2>1
    <2> QED
      BY <1>4, <1>5, <2>1, <2>2 DEF SeriesInHand, Exports
  <1>12. CASE PersistFingerprint(r)
    <2>1. /\ worker[r].pc = "persist" /\ UNCHANGED <<gauge, queue>>
          /\ UpdateSucceeds(r, {}) /\ Return(r, c, "interval")
      BY <1>6, <1>12 DEF PersistFingerprint, At
    <2>2. Unnoticed /\ UNCHANGED api /\ api[c].status = dc.status
      BY <1>6, <1>10, <2>1
    <2> QED
      BY <1>4, <1>7, <2>1, <2>2 DEF SeriesInHand, Publishing
  (* The other steps wait for the backoff, or do not return. *)
  <1>13. CASE MarkTransient(r)
    BY <1>6, <1>13 DEF MarkTransient
  <1>14. CASE Publish(r)
    <2>1. worker'[r].pc = "idle"
      BY <1>2, <1>14, WriteOutcome
    <2>2. Return(r, c, "backoff") /\ UNCHANGED queue
      BY <1>14, <2>1, GotoStep DEF Publish, Goto, PCs, TypeInv, TypeOK, Workers
    <2> QED
      BY <1>6, <2>2
  <1> QED
    BY <1>2, <1>8, <1>9, <1>11, <1>12, <1>13, <1>14, BuildSourceEffect, CompareEffect,
       SendEffect, CompleteEffect DEF Worker, GoesOn

LEMMA GaugeMatchesStatusKept ==
    ASSUME TypeInv, SyncedCopies, FreshWorkers, StatusInHand, StaleIsNoticed, GaugeInHand,
           GaugeMatchesStatus, [Next]_vars
    PROVE  GaugeMatchesStatus'
  <1>1. ASSUME NEW r \in Replicas, NEW c \in Checks, Settled(r, c)'
        PROVE  Exports(gauge'[r][c], api'[c])
    <2>1. /\ <<r, c>> \in synced' /\ c \notin queue'[r]
          /\ timer'[r][c] # "backoff" /\ worker'[r].key # c
      BY <1>1 DEF Settled
    <2>2. ASSUME Settled(r, c), api'[c] = api[c], gauge'[r][c] = gauge[r][c]
          PROVE  Exports(gauge'[r][c], api'[c])
      BY <2>2 DEF GaugeMatchesStatus
    <2>3. ASSUME NEW d \in Checks, NEW object, NEW holders, Replace(d, object, holders)
          PROVE  api'[c] = api[c] /\ <<r, c>> \in synced
      BY <2>1, <2>3 DEF Replace, TypeInv, TypeOK
    <2>4. ASSUME NEW d \in Checks, User(d) \/ WorldChanges(d)
          PROVE  Exports(gauge'[r][c], api'[c])
      <3>1. api'[c] = api[c] /\ <<r, c>> \in synced
        BY <2>1, <2>3, <2>4
        DEF User, CreateCheck, EditSpec, DeleteCheck, WorldChanges, objectVars
      <3>2. UNCHANGED <<queue, timer, worker, gauge>>
        BY <2>4 DEF User, CreateCheck, EditSpec, DeleteCheck, WorldChanges
      <3> QED
        BY <2>1, <2>2, <3>1, <3>2 DEF Settled
    <2>5. ASSUME NEW q \in Replicas, NEW d \in Checks, Manager(q, d)
          PROVE  Exports(gauge'[r][c], api'[c])
      <3>1. CASE Deliver(q, d) \/ TimerFires(q, d)
        <4>1. ~(q = r /\ d = c)
          BY <2>1, <3>1 DEF Deliver, TimerFires, TypeInv, TypeOK
        <4>2. <<r, c>> \in synced
          BY <2>1, <3>1, <4>1 DEF Deliver, TimerFires, objectVars
        <4>3. c \notin queue[r] /\ timer'[r][c] = timer[r][c]
          BY <2>1, <3>1, <4>1 DEF Deliver, TimerFires, TypeInv, TypeOK
        <4>4. UNCHANGED <<api, gauge, worker>>
          BY <3>1 DEF Deliver, TimerFires, objectVars
        <4> QED
          BY <2>1, <2>2, <4>2, <4>3, <4>4 DEF Settled
      <3>2. CASE ReconcileExisting(q, d)
        <4>1. UNCHANGED <<objectVars, timer, gauge>>
          BY <3>2 DEF ReconcileExisting, Take
        <4>2. c \notin queue[r]
          <5>1. ~(q = r /\ d = c)
            BY <2>1, <3>2, TakeOutcome
          <5> QED
            BY <2>1, <3>2, <5>1 DEF ReconcileExisting, Take, TypeInv, TypeOK
        <4>3. worker[r].key # c
          BY <2>1, <3>2, AbsentIsNoObject, TakeOutcome DEF OthersWait
        <4> QED
          BY <2>1, <2>2, <4>1, <4>2, <4>3 DEF Settled, objectVars
      <3>3. CASE ReconcileGone(q, d) /\ q = r /\ d = c
        <4>1. cache[r][c] = Absent /\ gauge'[r][c] = Absent /\ UNCHANGED objectVars
          BY <3>3 DEF ReconcileGone, Take, TypeInv, TypeOK
        <4>2. api'[c] = Absent
          BY <2>1, <4>1 DEF SyncedCopies, objectVars
        <4> QED
          BY <4>1, <4>2 DEF Exports
      <3>4. CASE ReconcileUnread(q, d) /\ q = r /\ d = c
        BY <2>1, <3>4 DEF ReconcileUnread, TypeInv, TypeOK
      <3>5. CASE (ReconcileGone(q, d) \/ ReconcileUnread(q, d)) /\ ~(q = r /\ d = c)
        <4>1. UNCHANGED <<objectVars, worker>>
          BY <3>5 DEF ReconcileGone, ReconcileUnread, Take
        <4>2. c \notin queue[r]
          BY <2>1, <3>5 DEF ReconcileGone, ReconcileUnread, Take, TypeInv, TypeOK
        <4>3. timer'[r][c] = timer[r][c] /\ gauge'[r][c] = gauge[r][c]
          BY <3>5 DEF ReconcileGone, ReconcileUnread, TypeInv, TypeOK
        <4> QED
          BY <2>1, <2>2, <4>1, <4>2, <4>3 DEF Settled, objectVars
      <3> QED
        BY <2>5, <3>1, <3>2, <3>3, <3>4, <3>5 DEF Manager
    <2>6. ASSUME NEW q \in Replicas, Restart(q)
          PROVE  Exports(gauge'[r][c], api'[c])
      <3>1. CASE q = r
        BY <2>1, <2>6, <3>1 DEF Restart, Exports, TypeInv, TypeOK
      <3>2. CASE q # r
        <4>1. /\ <<r, c>> \in synced /\ api' = api /\ worker'[r] = worker[r]
              /\ queue'[r] = queue[r] /\ timer'[r] = timer[r] /\ gauge'[r] = gauge[r]
          BY <2>1, <2>6, <3>2 DEF Restart, TypeInv, TypeOK
        <4> QED
          BY <2>1, <2>2, <4>1 DEF Settled
      <3> QED
        BY <3>1, <3>2
    <2>7. ASSUME NEW q \in Replicas, Worker(q)
          PROVE  Exports(gauge'[r][c], api'[c])
      <3>1. UNCHANGED queue /\ worker[q].key \in Checks
        BY <2>7, WorkerLeaves, OnlyOneWorks
      <3>2. CASE q = r /\ worker[q].key = c
        BY <1>1, <2>7, <3>1, <3>2, RestAfterReturn DEF Settled
      <3>3. CASE ~(q = r /\ worker[q].key = c)
        <4>1. api'[c] = api[c] /\ <<r, c>> \in synced
          <5>1. CASE MarkFailed(q) \/ MarkTransient(q) \/ Publish(q) \/ PersistFingerprint(q)
            <6> DEFINE object == [api[worker[q].key] EXCEPT !.status = worker[q].dc.status]
            <6>1. \/ Replace(worker[q].key, object, {}) \/ Replace(worker[q].key, object, {q})
                  \/ UNCHANGED objectVars
              BY <5>1, WriteOutcome
            <6> HIDE DEF object
            <6> QED
              BY <2>1, <2>3, <3>1, <6>1 DEF objectVars
          <5>2. CASE ~(MarkFailed(q) \/ MarkTransient(q) \/ Publish(q) \/ PersistFingerprint(q))
            BY <2>1, <2>7, <5>2 DEF Worker, BuildSource, Compare, RecordDrift, SendWebhook,
                                    NotifyIncomplete, NotifyComplete, objectVars
          <5> QED
            BY <5>1, <5>2
        <4>2. timer'[r][c] = timer[r][c]
          BY <2>7, <3>3, OwnTimer
        <4>3. gauge'[r][c] = gauge[r][c]
          <5>1. UNCHANGED gauge \/ \E series : SetsGauge(q, series)
            BY <2>7, BuildSourceOutcome, CompareOutcome
            DEF Worker, MarkFailed, MarkTransient, Publish, RecordDrift, SendWebhook,
                NotifyIncomplete, NotifyComplete, PersistFingerprint, SetsGauge
          <5>2. ASSUME NEW series, SetsGauge(q, series)
                PROVE  gauge'[r][c] = gauge[r][c]
            BY <3>1, <3>3, <5>2 DEF SetsGauge, TypeInv, TypeOK
          <5> QED
            BY <5>1, <5>2
        <4>4. worker[r].key # c
          <5>1. CASE q = r
            BY <3>3, <5>1
          <5>2. CASE q # r
            <6>1. worker'[r] = worker[r]
              BY <2>7, <5>2, OnlyOneWorks DEF OthersWait
            <6> QED
              BY <2>1, <6>1
          <5> QED
            BY <5>1, <5>2
        <4> QED
          BY <2>1, <2>2, <3>1, <4>1, <4>2, <4>3, <4>4 DEF Settled
      <3> QED
        BY <3>2, <3>3
    <2>8. CASE UNCHANGED vars
      BY <2>1, <2>2, <2>8 DEF vars, Settled
    <2> QED
      BY <2>4, <2>5, <2>6, <2>7, <2>8 DEF Next
  <1> QED
    BY <1>1 DEF GaugeMatchesStatus

-----------------------------------------------------------------------------
(* The second inductive invariant.                                         *)

LEMMA InitHandInv == Init => HandInv
  <1> SUFFICES ASSUME Init PROVE HandInv
    OBVIOUS
  <1>1. /\ \A c \in Checks : api[c] = Absent
        /\ \A r \in Replicas : worker[r].pc = "idle"
        /\ fresh = {}
        /\ \A r \in Replicas, c \in Checks : gauge[r][c] = Absent
    BY DEF Init, Idle
  <1> QED
    BY <1>1 DEF HandInv, StatusInHand, ListInHand, StaleIsNoticed, GaugeInHand, Publishing,
                At, GaugeMatchesStatus, Exports

LEMMA NextHandInv == IndInv /\ HandInv /\ [Next]_vars => HandInv'
  <1> SUFFICES ASSUME IndInv, HandInv, [Next]_vars PROVE HandInv'
    OBVIOUS
  <1>1. TypeInv /\ SyncedCopies /\ FreshWorkers
    BY DEF IndInv, TypeInv
  <1>2. StatusInHand'
    BY <1>1, StatusInHandKept DEF HandInv
  <1>3. ListInHand'
    BY <1>1, ListInHandKept DEF HandInv
  <1>4. StaleIsNoticed'
    BY <1>1, StaleIsNoticedKept DEF HandInv
  <1>5. GaugeInHand'
    BY <1>1, GaugeInHandKept DEF HandInv
  <1>6. GaugeMatchesStatus'
    BY <1>1, GaugeMatchesStatusKept DEF HandInv
  <1> QED
    BY <1>2, <1>3, <1>4, <1>5, <1>6 DEF HandInv

(* What a reconcile is about to write differs from what is stored by one   *)
(* whole statement; a worker that lost a race is told of it; the series it *)
(* leaves fit the status it leaves.                                        *)
THEOREM HandInductive == Spec => []HandInv
  <1>1. Init => IndInv /\ HandInv
    BY InitIndInv, InitHandInv
  <1>2. IndInv /\ HandInv /\ [Next]_vars => (IndInv /\ HandInv)'
    BY NextIndInv, NextHandInv
  <1> QED
    BY <1>1, <1>2, PTL DEF Spec

(* A replica that has settled exports the summary in the stored status, or *)
(* nothing after a permanent failure or a deletion, whichever of the       *)
(* writes failed, conflicted or was overtaken on the way.                  *)
THEOREM GaugesMatch == Spec => []GaugeMatchesStatus
  <1>1. HandInv => GaugeMatchesStatus
    BY DEF HandInv
  <1> QED
    BY <1>1, HandInductive, PTL

-----------------------------------------------------------------------------
(* Refinement: each step of the controller is one of DriftPromise, or      *)
(* changes neither the stored objects nor what webhooks were told.         *)

LEMMA SameWords ==
    /\ \A s, reading, generation :
          Promise!Evaluated(s, reading, generation) = Evaluated(s, reading, generation)
    /\ \A s, reason, generation :
          Promise!NotReady(s, reason, generation) = NotReady(s, reason, generation)
    /\ \A drifted : Promise!DriftHash(drifted) = DriftHash(drifted)
    /\ \A drifted, resolved :
          Promise!BuildEvent(drifted, resolved) = BuildEvent(drifted, resolved)
    /\ \A reading : Promise!Drifted(reading) = Drifted(reading)
    /\ Promise!NewStatus = NewStatus
  <1>1. \A reading : Promise!Drifted(reading) = Drifted(reading)
    BY DEF Promise!Drifted, Drifted
  <1>2. \A reading : Promise!Summarize(reading) = Summarize(reading)
    <2>1. \A S : Promise!Cardinality(S) = Cardinality(S)
      BY DEF Promise!Cardinality, Cardinality
    <2> QED
      BY <2>1 DEF Promise!Summarize, Summarize, Promise!Tally, Tally, Promise!Outcomes,
                  Outcomes, Promise!DriftOutcomes, DriftOutcomes
  <1>3. \A s, r, g : Promise!Condition(s, r, g) = Condition(s, r, g)
    BY DEF Promise!Condition, Condition
  <1>4. \A s, reading, generation :
          Promise!Evaluated(s, reading, generation) = Evaluated(s, reading, generation)
    BY <1>1, <1>2, <1>3 DEF Promise!Evaluated, Evaluated
  <1>5. \A s, reason, generation :
          Promise!NotReady(s, reason, generation) = NotReady(s, reason, generation)
    BY <1>3 DEF Promise!NotReady, NotReady
  <1>6. Promise!NewStatus = NewStatus
    BY <1>3 DEF Promise!NewStatus, NewStatus, Promise!NoSummary, NoSummary,
        Promise!Outcomes, Outcomes, Promise!DriftOutcomes, DriftOutcomes,
        Promise!NeverNotified, NeverNotified
  <1> QED
    BY <1>1, <1>4, <1>5, <1>6
    DEF Promise!DriftHash, DriftHash, Promise!BuildEvent, BuildEvent

LEMMA InitPromise == Init => Promise!Init
  BY DEF Init, Promise!Init

LEMMA UserPromise ==
    ASSUME NEW c \in Checks, User(c)
    PROVE  Promise!Create(c) \/ Promise!Edit(c) \/ Promise!Delete(c)
  <1>1. UNCHANGED delivered
    BY DEF User, CreateCheck, EditSpec, DeleteCheck, hookVars
  <1>2. CASE CreateCheck(c)
    BY <1>1, <1>2, SameWords DEF CreateCheck, Replace, Promise!Create, Promise!Exists, Promise!Becomes
  <1>3. CASE EditSpec(c)
    BY <1>1, <1>3 DEF EditSpec, Replace, Promise!Edit, Promise!Exists, Promise!Becomes
  <1>4. CASE DeleteCheck(c)
    BY <1>1, <1>4 DEF DeleteCheck, Replace, Promise!Delete, Promise!Exists, Promise!Becomes
  <1> QED
    BY <1>2, <1>3, <1>4 DEF User

(* An accepted status write is one whole statement about the current spec. *)
LEMMA WritePromise ==
    ASSUME IndInv, HandInv, NEW r \in Replicas,
           MarkFailed(r) \/ MarkTransient(r) \/ Publish(r) \/ PersistFingerprint(r)
    PROVE  \/ UNCHANGED Promise!promised
           \/ \E c \in Checks : Promise!Fail(c) \/ Promise!Evaluate(c) \/ Promise!Acknowledge(c)
  <1> DEFINE c == worker[r].key
             dc == worker[r].dc
             stored == api[c].status
             object == [api[c] EXCEPT !.status = dc.status]
  <1>1. TypeInv /\ worker[r].pc \in {"fail", "transient", "publish", "persist"}
    BY DEF IndInv, TypeInv, MarkFailed, MarkTransient, Publish, PersistFingerprint, At
  <1>2. /\ c \in Checks /\ dc \in Objects
        /\ \/ Accepted(r) /\ (Replace(c, object, {}) \/ Replace(c, object, {r}))
           \/ UNCHANGED objectVars
    BY <1>1, WriteOutcome
  <1>3. UNCHANGED delivered
    BY DEF MarkFailed, MarkTransient, Publish, PersistFingerprint, hookVars
  <1>4. CASE UNCHANGED objectVars
    BY <1>3, <1>4 DEF objectVars, Promise!promised
  <1>5. CASE Accepted(r) /\ (Replace(c, object, {}) \/ Replace(c, object, {r}))
    <2>1. r \in fresh /\ api[c] # Absent /\ api[c] \in Objects
      BY <1>1, <1>2, <1>5 DEF Accepted, TypeInv, TypeOK
    <2>2. /\ OneStatement(worker[r].pc, dc, stored)
          /\ api[c].generation = dc.generation /\ api[c].spec = dc.spec
      BY <2>1 DEF HandInv, StatusInHand, IndInv, FreshWorkers
    <2>3. Promise!Exists(c) /\ Promise!Says(c, dc.status)
      BY <1>3, <1>5, <2>1 DEF Replace, Promise!Exists, Promise!Says, Promise!Becomes
    <2>4. CASE worker[r].pc \in {"fail", "transient"}
      <3>1. PICK reason \in FailureReasons :
               dc.status = NotReady(stored, reason, api[c].generation)
        BY <2>2, <2>4 DEF OneStatement
      <3>2. dc.status = Promise!NotReady(stored, reason, api[c].generation)
        BY <3>1, SameWords
      <3> HIDE DEF dc
      <3>3. Promise!Fail(c)
        BY <2>3, <3>2 DEF Promise!Fail, FailureReasons
      <3> QED
        BY <1>2, <3>3
    <2>5. CASE worker[r].pc = "publish"
      <3>1. PICK reading \in Readings :
               dc.status = Evaluated(stored, reading, api[c].generation)
        BY <2>2, <2>5 DEF OneStatement
      <3>2. dc.status = Promise!Evaluated(stored, reading, api[c].generation)
        BY <3>1, SameWords
      <3> HIDE DEF dc
      <3>3. Promise!Evaluate(c)
        BY <2>3, <3>2 DEF Promise!Evaluate
      <3> QED
        BY <1>2, <3>3
    <2>6. CASE worker[r].pc = "persist"
      <3>1. stored \in Statuses
        BY <2>1 DEF Objects
      <3>2. dc.status = [stored EXCEPT !.lastNotifiedHash = DriftHash(stored.drifted)]
        BY <2>2, <2>6 DEF OneStatement
      <3>3. dc.status.drifted = stored.drifted
        <4> HIDE DEF stored, dc
        <4> QED BY <3>1, <3>2 DEF Statuses
      <3>4. \A w \in WebhooksOf(dc) : <<c, w, MessageFor(stored.drifted)>> \in delivered
        BY <2>6, <3>3, SendProgressDef DEF IndInv, Heard
      <3>5. \A i \in DOMAIN api[c].spec.webhooks :
               <<c, api[c].spec.webhooks[i],
                 Promise!BuildEvent(stored.drifted, stored.drifted = {})>> \in delivered
        BY <2>2, <3>4, SameWords DEF WebhooksOf, MessageFor
      <3>6. Promise!Says(c, [stored EXCEPT !.lastNotifiedHash = Promise!DriftHash(stored.drifted)])
        <4>1. [stored EXCEPT !.lastNotifiedHash = Promise!DriftHash(stored.drifted)] = dc.status
          BY <3>2, SameWords
        <4> HIDE DEF dc
        <4> QED
          BY <2>3, <4>1
      <3>7. Promise!Acknowledge(c)
        BY <2>3, <3>5, <3>6 DEF Promise!Acknowledge
      <3> QED
        BY <1>2, <3>7
    <2> QED
      BY <1>1, <2>4, <2>5, <2>6
  <1> QED
    BY <1>2, <1>4, <1>5

(* A delivery is a message about some reading's drift, or its end. *)
LEMMA SendPromise ==
    ASSUME IndInv, HandInv, NEW r \in Replicas, SendWebhook(r)
    PROVE  \/ UNCHANGED Promise!promised
           \/ \E c \in Checks, w \in Webhooks, message \in Promise!Messages :
                 Promise!Tell(c, w, message)
  <1> DEFINE c == worker[r].key
             dc == worker[r].dc
             w == Head(worker[r].todo)
             message == MessageOf(dc)
  <1>1. /\ TypeInv /\ UNCHANGED api /\ worker[r].pc = "send"
        /\ UNCHANGED delivered \/ delivered' = delivered \cup {<<c, w, message>>}
    BY DEF IndInv, TypeInv, SendWebhook, At, objectVars, hookVars, Arrives
  <1>2. c \in Checks /\ dc \in Objects
    BY <1>1 DEF TypeInv, WorkerShape, At
  <1>3. w \in Webhooks
    <2>1. worker[r].todo \in Seq(Webhooks) /\ worker[r].todo # <<>>
      BY <1>1 DEF TypeInv, TypeOK, Workers, SendWebhook
    <2> QED
      BY <2>1
  <1>4. message \in Promise!Messages
    <2>1. PICK reading \in Readings : dc.status.drifted = Drifted(reading)
      BY <1>1 DEF HandInv, ListInHand, Publishing
    <2>2. DriftCount(dc.status.summary) = 0 <=> dc.status.drifted = {}
      BY <1>1 DEF IndInv, CountedStatus
    <2>3. message = BuildEvent(Drifted(reading), Drifted(reading) = {})
      BY <2>1, <2>2 DEF MessageOf, BuildEvent
    <2> HIDE DEF message
    <2> QED
      BY <2>3, SameWords DEF Promise!Messages
  <1>5. message.resolved => \E earlier \in delivered : earlier[1] = c /\ ~earlier[3].resolved
    <2>1. ASSUME message.resolved
          PROVE  Fingerprinted(dc)
      <3>1. DriftCount(dc.status.summary) = 0
        BY <2>1 DEF MessageOf, BuildEvent
      <3>2. NotifyWanted(dc)
        BY <1>1, SendProgressDef DEF IndInv
      <3> QED
        BY <1>2, <3>1, <3>2, AbsentIsNoObject DEF NotifyWanted, Fingerprinted
    <2> HIDE DEF message
    <2> QED
      BY <1>1, <2>1 DEF IndInv, FingerprintMeansTold, ToldOfDrift, At
  <1> HIDE DEF w, message
  <1>6. CASE UNCHANGED delivered
    BY <1>1, <1>6 DEF Promise!promised
  <1>7. CASE delivered' = delivered \cup {<<c, w, message>>}
    <2>1. Promise!Tell(c, w, message)
      BY <1>1, <1>5, <1>7 DEF Promise!Tell
    <2> QED
      BY <1>2, <1>3, <1>4, <2>1
  <1> QED
    BY <1>1, <1>6, <1>7

LEMMA NextPromise ==
    ASSUME IndInv, HandInv, [Next]_vars
    PROVE  [Promise!Next]_(Promise!promised)
  <1>1. ASSUME NEW c \in Checks, User(c)
        PROVE  Promise!Next
    BY <1>1, UserPromise DEF Promise!Next
  <1>2. ASSUME NEW r \in Replicas,
               MarkFailed(r) \/ MarkTransient(r) \/ Publish(r) \/ PersistFingerprint(r)
        PROVE  [Promise!Next]_(Promise!promised)
    BY <1>2, WritePromise DEF Promise!Next
  <1>3. ASSUME NEW r \in Replicas, SendWebhook(r)
        PROVE  [Promise!Next]_(Promise!promised)
    BY <1>3, SendPromise DEF Promise!Next
  <1>4. CASE UNCHANGED <<api, hookVars>>
    BY <1>4 DEF hookVars, Promise!promised
  <1> QED
    BY <1>1, <1>2, <1>3, <1>4, ApiWriters, HookWriters DEF Writes

(* Whatever caches lag, replicas conflict and calls fail, readers of the   *)
(* status and owners of webhooks see a controller that makes one whole,    *)
(* current statement at a time: DriftCheckController implements            *)
(* DriftPromise.                                                           *)
THEOREM KeepsItsPromise == Spec => PromiseKept
  <1>1. Init => Promise!Init
    BY InitPromise
  <1>2. IndInv /\ HandInv /\ [Next]_vars => [Promise!Next]_(Promise!promised)
    BY NextPromise
  <1> QED
    BY <1>1, <1>2, Inductive, HandInductive, PTL DEF Spec, PromiseKept, Promise!Spec

=============================================================================
