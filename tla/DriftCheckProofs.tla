---------------------------- MODULE DriftCheckProofs ----------------------------
(***************************************************************************)
(* DriftCheckController, for any number of replicas, checks, webhooks,     *)
(* specs and readings and any bounds: its variables keep their types; what *)
(* each step does, who writes what; and two parts of IndInv, SyncedCopies  *)
(* and FreshWorkers, on what a resourceVersion tells of a copy.            *)
(***************************************************************************)
EXTENDS DriftCheckProperties, FiniteSetTheorems, TLAPS

-----------------------------------------------------------------------------
(* Lemmas on the values of a status.                                       *)

LEMMA DriftedType ==
    ASSUME NEW rd \in AllReadings
    PROVE  Drifted(rd) \in DriftSets
  BY DEF AllReadings, Drifted, DriftSets, Outcomes, DriftOutcomes

LEMMA TallyType ==
    ASSUME NEW rd \in AllReadings, NEW o
    PROVE  /\ IsFiniteSet({x \in DOMAIN rd : rd[x] = o})
           /\ Tally(rd, o) \in Nat
  <1>1. {x \in DOMAIN rd : rd[x] = o} \subseteq Resources
    BY DEF AllReadings
  <1>2. IsFiniteSet({x \in DOMAIN rd : rd[x] = o})
    BY <1>1, ResourcesFinite, FS_Subset
  <1> QED
    BY <1>2, FS_CardinalityType DEF Tally

LEMMA SummarizeType ==
    ASSUME NEW rd \in AllReadings
    PROVE  Summarize(rd) \in Summaries
  BY TallyType DEF Summarize, Summaries

LEMMA EvaluatedType ==
    ASSUME NEW s \in Statuses, NEW rd \in AllReadings, NEW g \in Nat
    PROVE  Evaluated(s, rd, g) \in Statuses
  BY DriftedType, SummarizeType DEF Evaluated, Statuses, Condition, Conditions, Reasons

LEMMA NotReadyType ==
    ASSUME NEW s \in Statuses, NEW reason \in Reasons, NEW g \in Nat
    PROVE  NotReady(s, reason, g) \in Statuses
  BY DEF NotReady, Statuses, Condition, Conditions

LEMMA NewStatusType == NewStatus \in Statuses
  BY DEF NewStatus, Statuses, Condition, Conditions, Reasons, DriftSets, Summaries,
         NoSummary, NeverNotified, Fingerprints

(* The tally a message is "resolved" by is zero exactly when the list is empty. *)
LEMMA NoDriftCounted ==
    ASSUME NEW rd \in AllReadings
    PROVE  DriftCount(Summarize(rd)) = 0 <=> Drifted(rd) = {}
  <1> DEFINE Of(o) == {x \in DOMAIN rd : rd[x] = o}
  <1>1. \A o : Tally(rd, o) \in Nat /\ (Tally(rd, o) = 0 <=> Of(o) = {})
    BY TallyType, FS_EmptySet DEF Tally
  <1>2. DriftCount(Summarize(rd)) = Tally(rd, "changed") + Tally(rd, "new") + Tally(rd, "deleted")
    BY DEF DriftCount, Summarize, Outcomes, DriftOutcomes
  <1>3. ASSUME NEW a \in Nat, NEW b \in Nat, NEW c \in Nat
        PROVE  a + b + c = 0 <=> a = 0 /\ b = 0 /\ c = 0
    OBVIOUS
  <1>4. DriftCount(Summarize(rd)) = 0 <=> Of("changed") = {} /\ Of("new") = {} /\ Of("deleted") = {}
    <2> HIDE DEF Of
    <2>1. \A o : Tally(rd, o) \in Nat
      BY <1>1
    <2>2. Tally(rd, "changed") + Tally(rd, "new") + Tally(rd, "deleted") = 0
            <=> Tally(rd, "changed") = 0 /\ Tally(rd, "new") = 0 /\ Tally(rd, "deleted") = 0
      BY <1>3, <2>1
    <2> QED BY <1>1, <1>2, <2>2
  <1>5. Drifted(rd) = {} <=> \A x \in DOMAIN rd : rd[x] = "unchanged"
    BY DEF Drifted
  <1>6. \A x \in DOMAIN rd : rd[x] \in {"changed", "new", "deleted", "unchanged"}
    BY DEF AllReadings, Outcomes, DriftOutcomes
  <1>7. (\A x \in DOMAIN rd : rd[x] = "unchanged")
          <=> Of("changed") = {} /\ Of("new") = {} /\ Of("deleted") = {}
    BY <1>6
  <1> QED
    BY <1>4, <1>5, <1>7

-----------------------------------------------------------------------------
(* Type correctness.                                                       *)

LEMMA ReplaceType ==
    ASSUME TypeOK, NEW c \in Checks, NEW object \in Objects \cup {Absent},
           NEW holders \in SUBSET Replicas, Replace(c, object, holders)
    PROVE  /\ api' \in [Checks -> Objects \cup {Absent}]
           /\ synced' \subseteq Replicas \X Checks
           /\ fresh' \subseteq Replicas
  BY DEF TypeOK, Replace

LEMMA StatusWriteType ==
    ASSUME TypeInv, NEW r \in Replicas, ~At(r, "idle"), NEW holders \in SUBSET Replicas,
           api[worker[r].key] # Absent, Store(r, holders)
    PROVE  /\ api' \in [Checks -> Objects \cup {Absent}]
           /\ synced' \subseteq Replicas \X Checks
           /\ fresh' \subseteq Replicas
  <1> DEFINE c == worker[r].key
             object == [api[c] EXCEPT !.status = worker[r].dc.status]
  <1>1. c \in Checks /\ worker[r].dc \in Objects
    BY DEF TypeInv, WorkerShape
  <1>2. api[c] \in Objects
    BY <1>1 DEF TypeInv, TypeOK
  <1>3. object \in Objects
    BY <1>1, <1>2 DEF Objects
  <1>4. CASE Replace(c, object, holders)
    BY <1>1, <1>3, <1>4, ReplaceType DEF TypeInv
  <1>5. CASE fresh' = (fresh \ {r}) \cup holders /\ UNCHANGED objectVars
    BY <1>5 DEF TypeInv, TypeOK, objectVars
  <1> QED
    BY <1>4, <1>5 DEF Store

LEMMA SpentType ==
    ASSUME TypeOK, Edit \/ Change \/ Fault \/ UNCHANGED spent
    PROVE  spent' \in [edits : 0..MaxEdits, changes : 0..MaxChanges, faults : 0..MaxFaults]
  BY BoundsAreNat DEF TypeOK, Edit, Change, Fault

LEMMA UpdateType ==
    ASSUME TypeInv, NEW r \in Replicas, ~At(r, "idle"),
           \/ \E holders \in SUBSET Replicas : UpdateSucceeds(r, holders)
           \/ UpdateFails(r)
    PROVE  /\ api' \in [Checks -> Objects \cup {Absent}]
           /\ synced' \subseteq Replicas \X Checks
           /\ fresh' \subseteq Replicas
           /\ spent' \in [edits : 0..MaxEdits, changes : 0..MaxChanges, faults : 0..MaxFaults]
  <1>1. Fault \/ UNCHANGED spent
    BY DEF UpdateSucceeds, UpdateFails
  <1>2. spent' \in [edits : 0..MaxEdits, changes : 0..MaxChanges, faults : 0..MaxFaults]
    BY <1>1, SpentType DEF TypeInv
  <1>3. CASE \E holders \in SUBSET Replicas : Accepted(r) /\ Store(r, holders)
    BY <1>2, <1>3, StatusWriteType DEF Accepted
  <1>4. CASE fresh' = fresh \ {r} /\ UNCHANGED objectVars
    BY <1>2, <1>4 DEF TypeInv, TypeOK, objectVars
  <1> QED
    BY <1>3, <1>4 DEF UpdateSucceeds, UpdateFails

LEMMA IdleType == Idle \in Workers
  BY DEF Idle, Workers, PCs

LEMMA IdleShape ==
    ASSUME TypeInv, NEW r \in Replicas, worker' = [worker EXCEPT ![r] = Idle]
    PROVE  worker' \in [Replicas -> Workers] /\ WorkerShape'
  <1>1. worker' \in [Replicas -> Workers]
    BY IdleType DEF TypeInv, TypeOK
  <1>2. \A q \in Replicas : worker'[q] = IF q = r THEN Idle ELSE worker[q]
    BY DEF TypeInv, TypeOK
  <1>3. Idle.pc = "idle"
    BY DEF Idle
  <1>4. WorkerShape'
    BY <1>2, <1>3 DEF TypeInv, WorkerShape, At
  <1> QED
    BY <1>1, <1>4

LEMMA ReturnType ==
    ASSUME TypeInv, NEW r \in Replicas, NEW c \in Checks, NEW wait \in {"interval", "backoff"},
           Return(r, c, wait)
    PROVE  /\ worker' \in [Replicas -> Workers]
           /\ timer' \in [Replicas -> [Checks -> {"none", "interval", "backoff"}]]
           /\ WorkerShape'
  <1>1. worker' \in [Replicas -> Workers] /\ WorkerShape'
    BY IdleShape DEF Return
  <1>2. timer' \in [Replicas -> [Checks -> {"none", "interval", "backoff"}]]
    BY DEF TypeInv, TypeOK, Return
  <1> QED
    BY <1>1, <1>2

(* A step that gives one worker a reconcile in progress. *)
LEMMA BusyType ==
    ASSUME TypeInv, NEW r \in Replicas, NEW new \in Workers,
           new.pc # "idle", new.key \in Checks, new.dc \in Objects,
           worker' = [worker EXCEPT ![r] = new]
    PROVE  worker' \in [Replicas -> Workers] /\ WorkerShape'
  <1>1. worker' \in [Replicas -> Workers]
    BY DEF TypeInv, TypeOK
  <1>2. \A q \in Replicas : worker'[q] = IF q = r THEN new ELSE worker[q]
    BY DEF TypeInv, TypeOK
  <1>3. WorkerShape'
    BY <1>2 DEF TypeInv, WorkerShape, At
  <1> QED
    BY <1>1, <1>3

LEMMA InitTypeInv == Init => TypeInv
  BY BoundsAreNat DEF Init, TypeInv, TypeOK, WorkerShape, Workers, Idle, PCs, At, Obstacles

LEMMA UserTypeInv ==
    ASSUME TypeInv, NEW c \in Checks, User(c) \/ WorldChanges(c)
    PROVE  TypeInv'
  <1>1. CASE CreateCheck(c)
    <2>1. PICK s \in Specs :
             Replace(c, [generation |-> 1, spec |-> s, status |-> NewStatus], {})
      BY <1>1 DEF CreateCheck
    <2>2. [generation |-> 1, spec |-> s, status |-> NewStatus] \in Objects
      BY NewStatusType DEF Objects
    <2> QED
      BY <1>1, <2>1, <2>2, ReplaceType, SpentType
      DEF CreateCheck, TypeInv, TypeOK, WorkerShape, At, hookVars
  <1>2. CASE EditSpec(c)
    <2>1. PICK s \in Specs :
             Replace(c, [api[c] EXCEPT !.generation = @ + 1, !.spec = s], {})
      BY <1>2 DEF EditSpec
    <2>2. api[c] \in Objects
      BY <1>2 DEF EditSpec, TypeInv, TypeOK
    <2>3. [api[c] EXCEPT !.generation = @ + 1, !.spec = s] \in Objects
      <3>1. api[c].generation + 1 \in Nat
        BY <2>2 DEF Objects
      <3> QED
        BY <2>2, <3>1, Zenon DEF Objects
    <2> QED
      BY <1>2, <2>1, <2>3, ReplaceType, SpentType
      DEF EditSpec, TypeInv, TypeOK, WorkerShape, At, hookVars
  <1>3. CASE DeleteCheck(c)
    BY <1>3, ReplaceType, SpentType
    DEF DeleteCheck, TypeInv, TypeOK, WorkerShape, At, hookVars
  <1>4. CASE WorldChanges(c)
    BY <1>4, SpentType
    DEF WorldChanges, TypeInv, TypeOK, WorkerShape, At, objectVars, hookVars
  <1> QED
    BY <1>1, <1>2, <1>3, <1>4 DEF User

LEMMA ManagerTypeInv ==
    ASSUME TypeInv, NEW r \in Replicas, NEW c \in Checks, Manager(r, c)
    PROVE  TypeInv'
  <1>1. CASE Deliver(r, c)
    BY <1>1 DEF Deliver, TypeInv, TypeOK, WorkerShape, At, hookVars
  <1>2. CASE TimerFires(r, c)
    BY <1>2 DEF TimerFires, TypeInv, TypeOK, WorkerShape, At, objectVars, hookVars
  <1>3. CASE ReconcileGone(r, c)
    BY <1>3 DEF ReconcileGone, Take, TypeInv, TypeOK, WorkerShape, At, objectVars, hookVars
  <1>4. CASE ReconcileUnread(r, c)
    BY <1>4, SpentType
    DEF ReconcileUnread, Take, TypeInv, TypeOK, WorkerShape, At, objectVars, hookVars
  <1>5. CASE ReconcileExisting(r, c)
    <2>1. cache[r][c] \in Objects
      BY <1>5 DEF ReconcileExisting, TypeInv, TypeOK
    <2> DEFINE new == [Idle EXCEPT !.pc = "build", !.key = c, !.dc = cache[r][c]]
    <2>2. new \in Workers /\ new.pc = "build" /\ new.key = c /\ new.dc = cache[r][c]
      BY <2>1, IdleType DEF Workers, PCs
    <2>3. worker' \in [Replicas -> Workers] /\ WorkerShape'
      <3>1. worker' = [worker EXCEPT ![r] = new]
        BY <1>5 DEF ReconcileExisting
      <3> HIDE DEF new
      <3> QED
        BY <2>1, <2>2, <3>1, BusyType
    <2> QED
      BY <1>5, <2>3 DEF ReconcileExisting, Take, TypeInv, TypeOK, objectVars, hookVars
  <1> QED
    BY <1>1, <1>2, <1>3, <1>4, <1>5 DEF Manager

LEMMA RestartTypeInv ==
    ASSUME TypeInv, NEW r \in Replicas, Restart(r)
    PROVE  TypeInv'
  <1>1. worker' = [worker EXCEPT ![r] = Idle]
    BY DEF Restart
  <1>2. worker' \in [Replicas -> Workers] /\ WorkerShape'
    BY <1>1, IdleShape
  <1>3. /\ timer' \in [Replicas -> [Checks -> {"none", "interval", "backoff"}]]
        /\ queue' \in [Replicas -> SUBSET Checks]
        /\ gauge' \in [Replicas -> [Checks -> Summaries \cup {Absent}]]
        /\ cache' \in [Replicas -> [Checks -> Objects \cup {Absent}]]
    BY DEF Restart, TypeInv, TypeOK
  <1>4. spent' \in [edits : 0..MaxEdits, changes : 0..MaxChanges, faults : 0..MaxFaults]
    BY SpentType DEF Restart, TypeInv
  <1> QED
    BY <1>2, <1>3, <1>4 DEF Restart, TypeInv, TypeOK, hookVars

(* A worker's reconcile goes on to another step with another status in hand. *)
LEMMA StatusStep ==
    ASSUME TypeInv, NEW r \in Replicas, ~At(r, "idle"),
           NEW pc \in PCs \ {"idle"}, NEW s \in Statuses,
           worker' = [worker EXCEPT ![r].pc = pc, ![r].dc.status = s]
    PROVE  /\ worker' \in [Replicas -> Workers] /\ WorkerShape'
           /\ worker'[r].pc = pc
           /\ worker'[r].key = worker[r].key
           /\ worker'[r].dc = [worker[r].dc EXCEPT !.status = s]
           /\ worker'[r].todo = worker[r].todo
           /\ worker'[r].failed = worker[r].failed
  <1> DEFINE dc == [worker[r].dc EXCEPT !.status = s]
             new == [[worker[r] EXCEPT !.pc = pc] EXCEPT !.dc = dc]
  <1>1. /\ worker[r] \in Workers
        /\ worker[r].key \in Checks /\ worker[r].dc \in Objects
    BY DEF TypeInv, TypeOK, WorkerShape
  <1>2. dc \in Objects
    BY <1>1 DEF Objects
  <1>3. new \in Workers /\ new.pc = pc /\ new.key = worker[r].key /\ new.dc = dc
          /\ new.todo = worker[r].todo /\ new.failed = worker[r].failed
    <2> HIDE DEF dc
    <2> QED BY <1>1, <1>2 DEF Workers
  <1>4. worker' = [worker EXCEPT ![r] = new]
    BY <1>1 DEF TypeInv, TypeOK, Workers
  <1> HIDE DEF dc, new
  <1>5. worker' \in [Replicas -> Workers] /\ WorkerShape'
    BY <1>1, <1>2, <1>3, <1>4, BusyType
  <1>6. worker'[r] = new
    BY <1>4 DEF TypeInv, TypeOK
  <1> QED
    BY <1>3, <1>5, <1>6 DEF dc

LEMMA GotoStep ==
    ASSUME TypeInv, NEW r \in Replicas, ~At(r, "idle"), NEW pc \in PCs \ {"idle"},
           Goto(r, pc)
    PROVE  worker' \in [Replicas -> Workers] /\ WorkerShape'
  <1> DEFINE new == [worker[r] EXCEPT !.pc = pc]
  <1>1. /\ worker[r] \in Workers
        /\ worker[r].key \in Checks /\ worker[r].dc \in Objects
    BY DEF TypeInv, TypeOK, WorkerShape
  <1>2. new \in Workers /\ new.pc = pc /\ new.key = worker[r].key /\ new.dc = worker[r].dc
    BY <1>1 DEF Workers
  <1>3. worker' = [worker EXCEPT ![r] = new]
    BY DEF Goto
  <1> HIDE DEF new
  <1> QED
    BY <1>1, <1>2, <1>3, BusyType

LEMMA SetNotReadyStep ==
    ASSUME TypeInv, NEW r \in Replicas, ~At(r, "idle"),
           NEW pc \in PCs \ {"idle"}, NEW reason \in Reasons, SetNotReady(r, pc, reason)
    PROVE  worker' \in [Replicas -> Workers] /\ WorkerShape'
  <1> DEFINE s == NotReady(worker[r].dc.status, reason, worker[r].dc.generation)
  <1>1. worker[r].dc \in Objects
    BY DEF TypeInv, WorkerShape
  <1>2. s \in Statuses
    BY <1>1, NotReadyType DEF Objects
  <1>3. worker' = [worker EXCEPT ![r].pc = pc, ![r].dc.status = s]
    BY DEF SetNotReady
  <1> HIDE DEF s
  <1> QED
    BY <1>2, <1>3, StatusStep

LEMMA PermanentFailStep ==
    ASSUME TypeInv, NEW r \in Replicas, ~At(r, "idle"), NEW reason \in Reasons,
           PermanentFail(r, reason)
    PROVE  /\ worker' \in [Replicas -> Workers] /\ WorkerShape'
           /\ gauge' \in [Replicas -> [Checks -> Summaries \cup {Absent}]]
  <1>1. worker' \in [Replicas -> Workers] /\ WorkerShape'
    BY SetNotReadyStep DEF PermanentFail, PCs
  <1>2. gauge' \in [Replicas -> [Checks -> Summaries \cup {Absent}]]
    BY DEF PermanentFail, TypeInv, TypeOK
  <1> QED
    BY <1>1, <1>2

LEMMA EvaluateTypeInv ==
    ASSUME TypeInv, NEW r \in Replicas, BuildSource(r) \/ Compare(r)
    PROVE  TypeInv'
  <1>1. ~At(r, "idle")
    BY DEF BuildSource, Compare, At
  <1>2. CASE BuildSource(r)
    <2>1. Fault \/ UNCHANGED spent
      BY <1>2 DEF BuildSource
    <2>2. /\ worker' \in [Replicas -> Workers] /\ WorkerShape'
          /\ gauge' \in [Replicas -> [Checks -> Summaries \cup {Absent}]]
      <3>1. CASE \E reason \in {"SourceError", "InvalidTarget"} : PermanentFail(r, reason)
        BY <1>1, <3>1, PermanentFailStep DEF Reasons
      <3>2. CASE Goto(r, "compare") /\ UNCHANGED gauge
        BY <1>1, <3>2, GotoStep DEF PCs, TypeInv, TypeOK
      <3> QED
        BY <1>2, <3>1, <3>2 DEF BuildSource
    <2> QED
      BY <1>2, <2>1, <2>2, SpentType DEF BuildSource, TypeInv, TypeOK, objectVars, hookVars
  <1>3. CASE Compare(r)
    <2>1. Fault \/ UNCHANGED spent
      BY <1>3 DEF Compare
    <2>2. /\ worker' \in [Replicas -> Workers] /\ WorkerShape'
          /\ gauge' \in [Replicas -> [Checks -> Summaries \cup {Absent}]]
      <3>1. CASE PermanentFail(r, "FetchError")
        BY <1>1, <3>1, PermanentFailStep DEF Reasons
      <3>2. CASE SetNotReady(r, "transient", "CompareError") /\ UNCHANGED gauge
        BY <1>1, <3>2, SetNotReadyStep DEF PCs, Reasons, TypeInv, TypeOK
      <3>3. CASE /\ worker' = [worker EXCEPT
                         ![r].pc = "publish",
                         ![r].dc.status = Evaluated(@, world[worker[r].key].reading,
                                                    worker[r].dc.generation)]
                 /\ UNCHANGED gauge
        <4> DEFINE s == Evaluated(worker[r].dc.status, world[worker[r].key].reading,
                                  worker[r].dc.generation)
        <4>1. worker[r].key \in Checks /\ worker[r].dc \in Objects
          BY <1>1 DEF TypeInv, WorkerShape
        <4>2. world[worker[r].key].reading \in AllReadings
          BY <4>1, ReadingsAreReadings DEF TypeInv, TypeOK
        <4>3. s \in Statuses
          BY <4>1, <4>2, EvaluatedType DEF Objects
        <4>4. worker' = [worker EXCEPT ![r].pc = "publish", ![r].dc.status = s]
          BY <3>3
        <4> HIDE DEF s
        <4>5. worker' \in [Replicas -> Workers] /\ WorkerShape'
          BY <1>1, <4>3, <4>4, StatusStep DEF PCs
        <4> QED
          BY <3>3, <4>5 DEF TypeInv, TypeOK
      <3> QED
        BY <1>3, <3>1, <3>2, <3>3 DEF Compare
    <2> QED
      BY <1>3, <2>1, <2>2, SpentType DEF Compare, TypeInv, TypeOK, objectVars, hookVars
  <1> QED
    BY <1>2, <1>3

LEMMA WriteTypeInv ==
    ASSUME TypeInv, NEW r \in Replicas,
           MarkFailed(r) \/ MarkTransient(r) \/ Publish(r) \/ PersistFingerprint(r)
    PROVE  TypeInv'
  <1>1. ~At(r, "idle")
    BY DEF MarkFailed, MarkTransient, Publish, PersistFingerprint, At
  <1>2. worker[r].key \in Checks
    BY <1>1 DEF TypeInv, WorkerShape
  <1>3. \/ UpdateSucceeds(r, {}) \/ UpdateSucceeds(r, {r})
        \/ UpdateFails(r)
    BY DEF MarkFailed, MarkTransient, Publish, PersistFingerprint
  <1>4. /\ api' \in [Checks -> Objects \cup {Absent}]
        /\ synced' \subseteq Replicas \X Checks
        /\ fresh' \subseteq Replicas
        /\ spent' \in [edits : 0..MaxEdits, changes : 0..MaxChanges, faults : 0..MaxFaults]
    <2>1. {} \in SUBSET Replicas /\ {r} \in SUBSET Replicas
      OBVIOUS
    <2> QED
      BY <1>1, <1>3, <2>1, UpdateType
  <1>5. /\ worker' \in [Replicas -> Workers]
        /\ timer' \in [Replicas -> [Checks -> {"none", "interval", "backoff"}]]
        /\ WorkerShape'
    <2>1. CASE \E wait \in {"interval", "backoff"} : Return(r, worker[r].key, wait)
      BY <1>2, <2>1, ReturnType
    <2>2. CASE Goto(r, "record") /\ UNCHANGED timer
      BY <1>1, <2>2, GotoStep DEF PCs, TypeInv, TypeOK
    <2> QED
      BY <2>1, <2>2 DEF MarkFailed, MarkTransient, Publish, PersistFingerprint
  <1>6. UNCHANGED <<cache, queue, gauge, world, hookVars>>
    BY DEF MarkFailed, MarkTransient, Publish, PersistFingerprint
  <1> QED
    BY <1>4, <1>5, <1>6 DEF TypeInv, TypeOK, hookVars

LEMMA MessageType ==
    ASSUME NEW dc \in Objects
    PROVE  MessageOf(dc) \in Events
  BY DEF MessageOf, BuildEvent, Events, Objects, Statuses, DriftSets

LEMMA RecordTypeInv ==
    ASSUME TypeInv, NEW r \in Replicas, RecordDrift(r)
    PROVE  TypeInv'
  <1>1. ~At(r, "idle")
    BY DEF RecordDrift, At
  <1>2. worker[r].key \in Checks /\ worker[r].dc \in Objects /\ worker[r] \in Workers
    BY <1>1 DEF TypeInv, TypeOK, WorkerShape
  <1>3. gauge' \in [Replicas -> [Checks -> Summaries \cup {Absent}]]
    BY <1>2 DEF RecordDrift, TypeInv, TypeOK, Objects, Statuses
  <1>4. /\ worker' \in [Replicas -> Workers] /\ WorkerShape'
        /\ timer' \in [Replicas -> [Checks -> {"none", "interval", "backoff"}]]
        /\ fresh' \subseteq Replicas
    <2>1. CASE /\ worker' = [worker EXCEPT ![r].pc = "send",
                                          ![r].todo = worker[r].dc.spec.webhooks]
               /\ UNCHANGED <<timer, fresh>>
      <3> DEFINE new == [worker[r] EXCEPT !.pc = "send", !.todo = worker[r].dc.spec.webhooks]
      <3>1. worker[r].dc.spec.webhooks \in Seq(Webhooks)
        BY <1>2, SpecsAreSpecs DEF Objects, SpecRecords
      <3>2. new \in Workers /\ new.pc = "send" /\ new.key = worker[r].key
              /\ new.dc = worker[r].dc
        BY <1>2, <3>1 DEF Workers, PCs
      <3>3. worker' = [worker EXCEPT ![r] = new]
        BY <2>1 DEF TypeInv, TypeOK, Workers
      <3> HIDE DEF new
      <3>4. worker' \in [Replicas -> Workers] /\ WorkerShape'
        BY <1>2, <3>2, <3>3, BusyType
      <3> QED
        BY <2>1, <3>4 DEF TypeInv, TypeOK
    <2>2. CASE Return(r, worker[r].key, "interval") /\ fresh' = fresh \ {r}
      <3>1. fresh' \subseteq Replicas
        BY <2>2 DEF TypeInv, TypeOK
      <3> QED
        BY <1>2, <2>2, <3>1, ReturnType
    <2> QED
      BY <2>1, <2>2 DEF RecordDrift
  <1> QED
    BY <1>3, <1>4 DEF RecordDrift, TypeInv, TypeOK, objectVars, hookVars

LEMMA NotifyTypeInv ==
    ASSUME TypeInv, NEW r \in Replicas,
           SendWebhook(r) \/ NotifyIncomplete(r) \/ NotifyComplete(r)
    PROVE  TypeInv'
  <1>1. ~At(r, "idle")
    BY DEF SendWebhook, NotifyIncomplete, NotifyComplete, At
  <1>2. worker[r].key \in Checks /\ worker[r].dc \in Objects /\ worker[r] \in Workers
    BY <1>1 DEF TypeInv, TypeOK, WorkerShape
  <1>3. CASE SendWebhook(r)
    <2> DEFINE w == Head(worker[r].todo)
               rest == Tail(worker[r].todo)
    <2>1. w \in Webhooks /\ rest \in Seq(Webhooks)
      BY <1>2, <1>3 DEF SendWebhook, Workers
    <2>2. /\ received' \in [Checks -> [Webhooks -> Events \cup {Absent}]]
          /\ delivered' \subseteq Checks \X Webhooks \X Events
      <3>1. MessageOf(worker[r].dc) \in Events
        BY <1>2, MessageType
      <3>2. CASE Arrives(worker[r].key, w, MessageOf(worker[r].dc))
        BY <1>2, <2>1, <3>1, <3>2 DEF Arrives, TypeInv, TypeOK
      <3>3. CASE UNCHANGED hookVars
        BY <3>3 DEF hookVars, TypeInv, TypeOK
      <3> QED
        BY <1>3, <3>2, <3>3 DEF SendWebhook
    <2>3. worker' \in [Replicas -> Workers] /\ WorkerShape'
      <3>1. PICK failed \in BOOLEAN :
               worker' = [worker EXCEPT ![r] = [worker[r] EXCEPT !.todo = rest,
                                                                 !.failed = failed]]
        <4>1. worker[r].failed \in BOOLEAN
          BY <1>2 DEF Workers
        <4>2. CASE worker' = [worker EXCEPT ![r].todo = rest]
          <5>1. [worker[r] EXCEPT !.todo = rest]
                  = [worker[r] EXCEPT !.todo = rest, !.failed = worker[r].failed]
            BY <1>2 DEF Workers
          <5>2. worker' = [worker EXCEPT ![r] = [worker[r] EXCEPT !.todo = rest]]
            BY <4>2
          <5> HIDE DEF rest
          <5> QED
            BY <4>1, <5>1, <5>2
        <4>3. CASE worker' = [worker EXCEPT ![r].todo = rest, ![r].failed = TRUE]
          BY <4>3 DEF TypeInv, TypeOK
        <4> QED
          BY <1>3, <4>2, <4>3 DEF SendWebhook
      <3> DEFINE new == [worker[r] EXCEPT !.todo = rest, !.failed = failed]
      <3>2. new \in Workers /\ new.pc = "send" /\ new.key = worker[r].key
              /\ new.dc = worker[r].dc
        <4> HIDE DEF rest
        <4> QED BY <1>2, <1>3, <2>1 DEF Workers, SendWebhook, At
      <3>3. worker' = [worker EXCEPT ![r] = new]
        BY <3>1
      <3> HIDE DEF new
      <3> QED
        BY <1>2, <3>2, <3>3, BusyType
    <2>4. spent' \in [edits : 0..MaxEdits, changes : 0..MaxChanges, faults : 0..MaxFaults]
      BY <1>3, SpentType DEF SendWebhook, TypeInv
    <2>5. UNCHANGED <<objectVars, cache, queue, timer, fresh, gauge, world>>
      BY <1>3 DEF SendWebhook
    <2> QED
      BY <2>2, <2>3, <2>4, <2>5 DEF TypeInv, TypeOK, objectVars
  <1>4. CASE NotifyIncomplete(r)
    <2>1. /\ worker' \in [Replicas -> Workers] /\ WorkerShape'
          /\ timer' \in [Replicas -> [Checks -> {"none", "interval", "backoff"}]]
      BY <1>2, <1>4, ReturnType DEF NotifyIncomplete
    <2> QED
      BY <1>4, <2>1 DEF NotifyIncomplete, TypeInv, TypeOK, objectVars, hookVars
  <1>5. CASE NotifyComplete(r)
    <2> DEFINE s == [worker[r].dc.status EXCEPT
                        !.lastNotifiedHash = DriftHash(worker[r].dc.status.drifted)]
    <2>1. s \in Statuses
      BY <1>2 DEF Objects, Statuses, DriftHash, Fingerprints
    <2>2. worker' = [worker EXCEPT ![r].pc = "persist", ![r].dc.status = s]
      BY <1>2, <1>5 DEF NotifyComplete, TypeInv, TypeOK, Workers, Objects
    <2> HIDE DEF s
    <2>3. worker' \in [Replicas -> Workers] /\ WorkerShape'
      BY <1>1, <2>1, <2>2, StatusStep DEF PCs
    <2> QED
      BY <1>5, <2>3 DEF NotifyComplete, TypeInv, TypeOK, objectVars, hookVars
  <1> QED
    BY <1>3, <1>4, <1>5

LEMMA NextTypeInv == TypeInv /\ [Next]_vars => TypeInv'
  <1> SUFFICES ASSUME TypeInv, [Next]_vars
               PROVE  TypeInv'
    OBVIOUS
  <1>1. CASE \E c \in Checks : User(c) \/ WorldChanges(c)
    BY <1>1, UserTypeInv
  <1>2. CASE \E r \in Replicas, c \in Checks : Manager(r, c)
    BY <1>2, ManagerTypeInv
  <1>3. CASE \E r \in Replicas : Worker(r)
    BY <1>3, EvaluateTypeInv, WriteTypeInv, RecordTypeInv, NotifyTypeInv DEF Worker
  <1>4. CASE \E r \in Replicas : Restart(r)
    BY <1>4, RestartTypeInv
  <1>5. CASE UNCHANGED vars
    BY <1>5 DEF vars, TypeInv, TypeOK, WorkerShape, At
  <1> QED
    BY <1>1, <1>2, <1>3, <1>4, <1>5 DEF Next

(* Every variable of the controller keeps its type: no step stores a       *)
(* status, a queue entry or a gauge the declarations do not allow.         *)
THEOREM TypeCorrect == Spec => [](TypeOK /\ WorkerShape)
  <1>1. Spec => []TypeInv
    BY InitTypeInv, NextTypeInv, PTL DEF Spec
  <1> QED
    BY <1>1, PTL DEF TypeInv

-----------------------------------------------------------------------------
(* What each step does to the reconcile it is a step of.                   *)

OthersWait(r) == \A q \in Replicas \ {r} : worker'[q] = worker[q]

(* The reconcile goes on with the object it has, but for the status. *)
GoesOn(r) ==
    /\ worker'[r].key = worker[r].key
    /\ worker'[r].dc.generation = worker[r].dc.generation
    /\ worker'[r].dc.spec = worker[r].dc.spec

KeepsHash(r) ==
    worker'[r].dc.status.lastNotifiedHash = worker[r].dc.status.lastNotifiedHash

KeepsLoop(r) ==
    worker'[r].todo = worker[r].todo /\ worker'[r].failed = worker[r].failed

Stamped(dc) == dc.status.ready.observedGeneration = dc.generation

Counted(status) == DriftCount(status.summary) = 0 <=> status.drifted = {}

(* The reconcile of r goes to pc with the status s in hand. *)
Moves(r, pc, s) == worker' = [worker EXCEPT ![r].pc = pc, ![r].dc.status = s]

LEMMA StatusEffect ==
    ASSUME TypeInv, NEW r \in Replicas, ~At(r, "idle"),
           NEW pc \in PCs \ {"idle"}, NEW s \in Statuses, Moves(r, pc, s)
    PROVE  /\ OthersWait(r) /\ GoesOn(r)
           /\ worker'[r].pc = pc /\ worker'[r].dc.status = s /\ KeepsLoop(r)
  <1> DEFINE dc == [worker[r].dc EXCEPT !.status = s]
             new == [[worker[r] EXCEPT !.pc = pc] EXCEPT !.dc = dc]
  <1>1. worker[r].dc \in Objects /\ worker[r] \in Workers
    BY DEF TypeInv, TypeOK, WorkerShape
  <1>2. /\ dc.status = s
        /\ dc.generation = worker[r].dc.generation /\ dc.spec = worker[r].dc.spec
    BY <1>1 DEF Objects
  <1>3. worker'[r] = new
    BY <1>1 DEF Moves, TypeInv, TypeOK, Workers
  <1>4. /\ new.pc = pc /\ new.key = worker[r].key /\ new.dc = dc
        /\ new.todo = worker[r].todo /\ new.failed = worker[r].failed
    BY <1>1 DEF Workers
  <1> HIDE DEF dc, new
  <1>5. ASSUME NEW q \in Replicas \ {r} PROVE worker'[q] = worker[q]
    BY DEF Moves, TypeInv, TypeOK
  <1> QED
    BY <1>2, <1>3, <1>4, <1>5 DEF OthersWait, GoesOn, KeepsLoop

LEMMA NotReadyEffect ==
    ASSUME TypeInv, NEW r \in Replicas, ~At(r, "idle"),
           NEW pc \in {"fail", "transient"}, NEW reason \in Reasons, SetNotReady(r, pc, reason)
    PROVE  /\ OthersWait(r) /\ GoesOn(r) /\ KeepsHash(r) /\ KeepsLoop(r)
           /\ worker'[r].pc = pc /\ Stamped(worker'[r].dc)
  <1> DEFINE s == NotReady(worker[r].dc.status, reason, worker[r].dc.generation)
  <1>1. worker[r].dc \in Objects
    BY DEF TypeInv, WorkerShape
  <1>2. s \in Statuses
    BY <1>1, NotReadyType DEF Objects
  <1>3. /\ s.lastNotifiedHash = worker[r].dc.status.lastNotifiedHash
        /\ s.ready.observedGeneration = worker[r].dc.generation
    BY <1>1 DEF NotReady, Condition, Objects, Statuses
  <1>4. Moves(r, pc, s)
    BY DEF SetNotReady, Moves
  <1>5. pc \in PCs \ {"idle"}
    BY DEF PCs
  <1> HIDE DEF s
  <1> QED
    BY <1>2, <1>3, <1>4, <1>5, StatusEffect DEF KeepsHash, Stamped, GoesOn

LEMMA BuildSourceEffect ==
    ASSUME TypeInv, NEW r \in Replicas, BuildSource(r)
    PROVE  /\ OthersWait(r) /\ GoesOn(r) /\ KeepsHash(r) /\ KeepsLoop(r)
           /\ \/ worker'[r].pc = "fail" /\ Stamped(worker'[r].dc)
              \/ worker'[r].pc = "compare"
  <1>1. ~At(r, "idle")
    BY DEF BuildSource, At
  <1>2. CASE \E reason \in {"SourceError", "InvalidTarget"} : PermanentFail(r, reason)
    BY <1>1, <1>2, NotReadyEffect DEF PermanentFail, Reasons
  <1>3. CASE Goto(r, "compare")
    <2>1. worker[r] \in Workers
      BY DEF TypeInv, TypeOK
    <2>2. /\ worker'[r].pc = "compare"
          /\ worker'[r].key = worker[r].key /\ worker'[r].dc = worker[r].dc
          /\ KeepsLoop(r)
      BY <1>3, <2>1 DEF Goto, KeepsLoop, TypeInv, TypeOK, Workers
    <2>3. OthersWait(r)
      BY <1>3 DEF Goto, OthersWait, TypeInv, TypeOK
    <2> QED
      BY <2>2, <2>3 DEF GoesOn, KeepsHash
  <1> QED
    BY <1>2, <1>3 DEF BuildSource

LEMMA CompareEffect ==
    ASSUME TypeInv, NEW r \in Replicas, Compare(r)
    PROVE  /\ OthersWait(r) /\ GoesOn(r) /\ KeepsHash(r) /\ KeepsLoop(r)
           /\ Stamped(worker'[r].dc)
           /\ \/ worker'[r].pc \in {"fail", "transient"}
              \/ worker'[r].pc = "publish" /\ Counted(worker'[r].dc.status)
  <1>1. ~At(r, "idle")
    BY DEF Compare, At
  <1>2. CASE PermanentFail(r, "FetchError") \/ SetNotReady(r, "transient", "CompareError")
    BY <1>1, <1>2, NotReadyEffect DEF PermanentFail, Reasons
  <1>3. CASE worker' = [worker EXCEPT
                  ![r].pc = "publish",
                  ![r].dc.status = Evaluated(@, world[worker[r].key].reading,
                                             worker[r].dc.generation)]
    <2> DEFINE rd == world[worker[r].key].reading
               s == Evaluated(worker[r].dc.status, rd, worker[r].dc.generation)
    <2>1. worker[r].key \in Checks /\ worker[r].dc \in Objects
      BY <1>1 DEF TypeInv, WorkerShape
    <2>2. rd \in AllReadings
      BY <2>1, ReadingsAreReadings DEF TypeInv, TypeOK
    <2> HIDE DEF rd
    <2>3. s \in Statuses
      BY <2>1, <2>2, EvaluatedType DEF Objects
    <2>4. /\ s.lastNotifiedHash = worker[r].dc.status.lastNotifiedHash
          /\ s.ready.observedGeneration = worker[r].dc.generation
          /\ s.drifted = Drifted(rd) /\ s.summary = Summarize(rd)
      BY <2>1 DEF Evaluated, Condition, Objects, Statuses
    <2>5. Counted(s)
      BY <2>2, <2>4, NoDriftCounted DEF Counted
    <2>6. Moves(r, "publish", s)
      BY <1>3 DEF rd, Moves
    <2> HIDE DEF s
    <2>7. "publish" \in PCs \ {"idle"}
      BY DEF PCs
    <2> QED
      BY <1>1, <2>3, <2>4, <2>5, <2>6, <2>7, StatusEffect DEF KeepsHash, Stamped, GoesOn
  <1> QED
    BY <1>2, <1>3 DEF Compare

LEMMA ReturnEffect ==
    ASSUME TypeInv, NEW r \in Replicas, NEW c \in Checks, NEW wait \in {"interval", "backoff"},
           Return(r, c, wait)
    PROVE  /\ OthersWait(r)
           /\ worker'[r] = Idle /\ worker'[r].pc = "idle"
           /\ c \in queue[r] \/ timer'[r][c] # "none"
           /\ \A q \in Replicas, d \in Checks :
                 q # r \/ d # c => timer'[q][d] = timer[q][d]
  <1>1. worker'[r] = Idle /\ OthersWait(r)
    BY DEF Return, OthersWait, TypeInv, TypeOK
  <1>2. Idle.pc = "idle"
    BY DEF Idle
  <1>3. /\ c \in queue[r] \/ timer'[r][c] # "none"
        /\ \A q \in Replicas, d \in Checks :
              q # r \/ d # c => timer'[q][d] = timer[q][d]
    BY DEF Return, TypeInv, TypeOK
  <1> QED
    BY <1>1, <1>2, <1>3

LEMMA RecordEffect ==
    ASSUME TypeInv, NEW r \in Replicas, RecordDrift(r)
    PROVE  /\ OthersWait(r)
           /\ \/ /\ worker'[r].pc = "send" /\ worker'[r].key = worker[r].key
                 /\ worker'[r].dc = worker[r].dc /\ NotifyWanted(worker[r].dc)
                 /\ worker'[r].todo = worker[r].dc.spec.webhooks
                 /\ worker'[r].failed = worker[r].failed
              \/ worker'[r] = Idle /\ worker'[r].pc = "idle" /\ r \notin fresh'
  <1>1. worker[r].key \in Checks /\ worker[r] \in Workers
    BY DEF RecordDrift, At, TypeInv, TypeOK, WorkerShape
  <1>2. CASE NotifyWanted(worker[r].dc)
    <2> DEFINE new == [[worker[r] EXCEPT !.pc = "send"] EXCEPT !.todo = worker[r].dc.spec.webhooks]
    <2>1. worker' = [worker EXCEPT ![r].pc = "send", ![r].todo = worker[r].dc.spec.webhooks]
      BY <1>2 DEF RecordDrift
    <2>2. worker'[r] = new
      BY <1>1, <2>1 DEF TypeInv, TypeOK, Workers
    <2>3. /\ new.pc = "send" /\ new.key = worker[r].key /\ new.dc = worker[r].dc
          /\ new.todo = worker[r].dc.spec.webhooks /\ new.failed = worker[r].failed
      BY <1>1 DEF Workers
    <2>4. ASSUME NEW q \in Replicas \ {r} PROVE worker'[q] = worker[q]
      BY <2>1 DEF TypeInv, TypeOK
    <2> HIDE DEF new
    <2> QED
      BY <1>2, <2>2, <2>3, <2>4 DEF OthersWait
  <1>3. CASE ~NotifyWanted(worker[r].dc)
    <2>1. Return(r, worker[r].key, "interval") /\ r \notin fresh'
      BY <1>3 DEF RecordDrift
    <2> QED
      BY <1>1, <2>1, ReturnEffect
  <1> QED
    BY <1>2, <1>3

LEMMA SendEffect ==
    ASSUME TypeInv, NEW r \in Replicas, SendWebhook(r)
    PROVE  /\ OthersWait(r)
           /\ worker'[r].pc = "send" /\ worker'[r].key = worker[r].key
           /\ worker'[r].dc = worker[r].dc
           /\ worker'[r].todo = Tail(worker[r].todo)
           /\ \/ worker'[r].failed
              \/ /\ worker'[r].failed = worker[r].failed
                 /\ Arrives(worker[r].key, Head(worker[r].todo), MessageOf(worker[r].dc))
  <1> DEFINE rest == Tail(worker[r].todo)
  <1>1. worker[r] \in Workers /\ worker[r].pc = "send"
    BY DEF SendWebhook, At, TypeInv, TypeOK
  <1>2. CASE /\ worker' = [worker EXCEPT ![r].todo = Tail(@)]
             /\ Arrives(worker[r].key, Head(worker[r].todo), MessageOf(worker[r].dc))
    <2> DEFINE new == [worker[r] EXCEPT !.todo = rest]
    <2>1. worker'[r] = new
      BY <1>2 DEF TypeInv, TypeOK
    <2>2. /\ new.pc = "send" /\ new.key = worker[r].key /\ new.dc = worker[r].dc
          /\ new.todo = rest /\ new.failed = worker[r].failed
      <3> HIDE DEF rest
      <3> QED BY <1>1 DEF Workers
    <2>3. ASSUME NEW q \in Replicas \ {r} PROVE worker'[q] = worker[q]
      BY <1>2 DEF TypeInv, TypeOK
    <2> HIDE DEF new
    <2> QED
      BY <1>2, <2>1, <2>2, <2>3 DEF OthersWait
  <1>3. CASE worker' = [worker EXCEPT ![r].todo = Tail(@), ![r].failed = TRUE]
    <2> DEFINE new == [[worker[r] EXCEPT !.todo = rest] EXCEPT !.failed = TRUE]
    <2>1. worker'[r] = new
      BY <1>1, <1>3 DEF TypeInv, TypeOK, Workers
    <2>2. /\ new.pc = "send" /\ new.key = worker[r].key /\ new.dc = worker[r].dc
          /\ new.todo = rest /\ new.failed
      <3> HIDE DEF rest
      <3> QED BY <1>1 DEF Workers
    <2>3. ASSUME NEW q \in Replicas \ {r} PROVE worker'[q] = worker[q]
      BY <1>3 DEF TypeInv, TypeOK
    <2> HIDE DEF new
    <2> QED
      BY <2>1, <2>2, <2>3 DEF OthersWait
  <1> QED
    BY <1>2, <1>3 DEF SendWebhook

LEMMA CompleteEffect ==
    ASSUME TypeInv, NEW r \in Replicas, NotifyComplete(r)
    PROVE  /\ OthersWait(r) /\ GoesOn(r) /\ KeepsLoop(r)
           /\ worker'[r].pc = "persist"
           /\ worker'[r].dc.status = [worker[r].dc.status EXCEPT
                    !.lastNotifiedHash = DriftHash(worker[r].dc.status.drifted)]
  <1> DEFINE s == [worker[r].dc.status EXCEPT
                        !.lastNotifiedHash = DriftHash(worker[r].dc.status.drifted)]
  <1>1. ~At(r, "idle")
    BY DEF NotifyComplete, At
  <1>2. worker[r].dc \in Objects /\ worker[r] \in Workers
    BY <1>1 DEF TypeInv, TypeOK, WorkerShape
  <1>3. s \in Statuses
    BY <1>2 DEF Objects, Statuses, DriftHash, Fingerprints
  <1>4. Moves(r, "persist", s)
    BY <1>2 DEF NotifyComplete, Moves, TypeInv, TypeOK, Workers, Objects
  <1>5. "persist" \in PCs \ {"idle"}
    BY DEF PCs
  <1>6. /\ OthersWait(r) /\ GoesOn(r) /\ KeepsLoop(r)
        /\ worker'[r].pc = "persist" /\ worker'[r].dc.status = s
    <2> HIDE DEF s
    <2> QED BY <1>1, <1>3, <1>4, <1>5, StatusEffect
  <1> QED
    BY <1>6

(* The four status writes end a reconcile, but for Publish that succeeds. *)
LEMMA WriteEffect ==
    ASSUME TypeInv, NEW r \in Replicas,
           MarkFailed(r) \/ MarkTransient(r) \/ Publish(r) \/ PersistFingerprint(r)
    PROVE  /\ OthersWait(r)
           /\ \/ /\ worker'[r] = Idle /\ worker'[r].pc = "idle"
                 /\ UpdateSucceeds(r, {}) \/ UpdateFails(r)
              \/ /\ worker[r].pc = "publish" /\ worker'[r].pc = "record"
                 /\ worker'[r].key = worker[r].key /\ worker'[r].dc = worker[r].dc
                 /\ KeepsLoop(r) /\ UpdateSucceeds(r, {r})
  <1>1. worker[r].key \in Checks /\ worker[r] \in Workers
    BY DEF MarkFailed, MarkTransient, Publish, PersistFingerprint, At, TypeInv, TypeOK, WorkerShape
  <1>2. CASE /\ \E wait \in {"interval", "backoff"} : Return(r, worker[r].key, wait)
             /\ UpdateSucceeds(r, {}) \/ UpdateFails(r)
    BY <1>1, <1>2, ReturnEffect
  <1>3. CASE Publish(r) /\ UpdateSucceeds(r, {r}) /\ Goto(r, "record")
    <2> DEFINE new == [worker[r] EXCEPT !.pc = "record"]
    <2>1. worker'[r] = new
      BY <1>3 DEF Goto, TypeInv, TypeOK
    <2>2. /\ new.pc = "record" /\ new.key = worker[r].key /\ new.dc = worker[r].dc
          /\ new.todo = worker[r].todo /\ new.failed = worker[r].failed
      BY <1>1 DEF Workers
    <2>3. ASSUME NEW q \in Replicas \ {r} PROVE worker'[q] = worker[q]
      BY <1>3 DEF Goto, TypeInv, TypeOK
    <2> HIDE DEF new
    <2> QED
      BY <1>3, <2>1, <2>2, <2>3 DEF OthersWait, KeepsLoop, Publish, At
  <1> QED
    BY <1>2, <1>3 DEF MarkFailed, MarkTransient, Publish, PersistFingerprint

-----------------------------------------------------------------------------
(* Who may change what. *)

Writes(r) == MarkFailed(r) \/ MarkTransient(r) \/ Publish(r) \/ PersistFingerprint(r)

LEMMA WorkerLeaves ==
    ASSUME NEW r \in Replicas, Worker(r)
    PROVE  /\ Writes(r) \/ UNCHANGED <<objectVars, world>>
           /\ SendWebhook(r) \/ UNCHANGED hookVars
           /\ UNCHANGED <<cache, queue>>
  <1>1. CASE BuildSource(r)
    BY <1>1 DEF BuildSource
  <1>2. CASE Compare(r)
    BY <1>2 DEF Compare
  <1>3. CASE Writes(r)
    BY <1>3 DEF Writes, MarkFailed, MarkTransient, Publish, PersistFingerprint
  <1>4. CASE RecordDrift(r)
    BY <1>4 DEF RecordDrift
  <1>5. CASE SendWebhook(r)
    BY <1>5 DEF SendWebhook
  <1>6. CASE NotifyIncomplete(r)
    BY <1>6 DEF NotifyIncomplete
  <1>7. CASE NotifyComplete(r)
    BY <1>7 DEF NotifyComplete
  <1> QED
    BY <1>1, <1>2, <1>3, <1>4, <1>5, <1>6, <1>7 DEF Worker, Writes

LEMMA ManagerLeaves ==
    ASSUME NEW r \in Replicas, NEW c \in Checks, Manager(r, c)
    PROVE  UNCHANGED <<api, hookVars>>
  <1>1. CASE Deliver(r, c)
    BY <1>1 DEF Deliver
  <1>2. CASE TimerFires(r, c)
    BY <1>2 DEF TimerFires, objectVars
  <1>3. CASE ReconcileGone(r, c) \/ ReconcileUnread(r, c) \/ ReconcileExisting(r, c)
    BY <1>3 DEF ReconcileGone, ReconcileUnread, ReconcileExisting, Take, objectVars
  <1> QED
    BY <1>1, <1>2, <1>3 DEF Manager

LEMMA ApiWriters ==
    ASSUME [Next]_vars
    PROVE  \/ \E c \in Checks : User(c)
           \/ \E r \in Replicas : Worker(r) /\ Writes(r)
           \/ UNCHANGED api
  <1>1. ASSUME NEW c \in Checks, WorldChanges(c) PROVE UNCHANGED api
    BY <1>1 DEF WorldChanges, objectVars
  <1>2. ASSUME NEW r \in Replicas, NEW c \in Checks, Manager(r, c) PROVE UNCHANGED api
    BY <1>2, ManagerLeaves
  <1>3. ASSUME NEW r \in Replicas, Restart(r) PROVE UNCHANGED api
    BY <1>3 DEF Restart
  <1>4. ASSUME NEW r \in Replicas, Worker(r) PROVE Writes(r) \/ UNCHANGED api
    BY <1>4, WorkerLeaves DEF objectVars
  <1>5. CASE UNCHANGED vars
    BY <1>5 DEF vars, objectVars
  <1> QED
    BY <1>1, <1>2, <1>3, <1>4, <1>5 DEF Next

LEMMA HookWriters ==
    ASSUME [Next]_vars
    PROVE  (\E r \in Replicas : SendWebhook(r)) \/ UNCHANGED hookVars
  <1>1. ASSUME NEW c \in Checks, User(c) \/ WorldChanges(c) PROVE UNCHANGED hookVars
    BY <1>1 DEF User, CreateCheck, EditSpec, DeleteCheck, WorldChanges
  <1>2. ASSUME NEW r \in Replicas, NEW c \in Checks, Manager(r, c) PROVE UNCHANGED hookVars
    BY <1>2, ManagerLeaves
  <1>3. ASSUME NEW r \in Replicas, Restart(r) PROVE UNCHANGED hookVars
    BY <1>3 DEF Restart
  <1>4. ASSUME NEW r \in Replicas, Worker(r) PROVE SendWebhook(r) \/ UNCHANGED hookVars
    BY <1>4, WorkerLeaves
  <1>5. CASE UNCHANGED vars
    BY <1>5 DEF vars, hookVars
  <1> QED
    BY <1>1, <1>2, <1>3, <1>4, <1>5 DEF Next

(* A step of one process's reconcile is a step of no other's. *)
LEMMA OnlyOneWorks ==
    ASSUME TypeInv, NEW r \in Replicas, Worker(r)
    PROVE  OthersWait(r) /\ worker[r].key \in Checks
  <1>1. worker[r].key \in Checks
    <2>1. worker[r].pc # "idle"
      BY DEF Worker, BuildSource, Compare, MarkFailed, MarkTransient, Publish,
             RecordDrift, SendWebhook, NotifyIncomplete, NotifyComplete,
             PersistFingerprint, At
    <2> QED
      BY <2>1 DEF At, TypeInv, WorkerShape
  <1>2. CASE BuildSource(r) \/ Compare(r) \/ NotifyComplete(r)
    BY <1>1, <1>2, BuildSourceEffect, CompareEffect, CompleteEffect
  <1>3. CASE Writes(r)
    BY <1>1, <1>3, WriteEffect DEF Writes
  <1>4. CASE RecordDrift(r) \/ SendWebhook(r)
    BY <1>1, <1>4, RecordEffect, SendEffect
  <1>5. CASE NotifyIncomplete(r)
    BY <1>1, <1>5, ReturnEffect DEF NotifyIncomplete
  <1> QED
    BY <1>2, <1>3, <1>4, <1>5 DEF Worker, Writes

(* Of the timers a reconcile sets the one of its own check, or none. *)
LEMMA OwnTimer ==
    ASSUME TypeInv, NEW r \in Replicas, Worker(r), NEW q \in Replicas, NEW d \in Checks,
           q # r \/ d # worker[r].key
    PROVE  timer'[q][d] = timer[q][d]
  <1>1. worker[r].key \in Checks
    BY OnlyOneWorks
  <1>2. CASE UNCHANGED timer
    BY <1>2
  <1>3. CASE \E wait \in {"interval", "backoff"} : Return(r, worker[r].key, wait)
    BY <1>1, <1>3, ReturnEffect
  <1>4. UNCHANGED timer \/ \E wait \in {"interval", "backoff"} : Return(r, worker[r].key, wait)
    <2>1. CASE BuildSource(r) \/ Compare(r) \/ SendWebhook(r) \/ NotifyComplete(r)
      BY <2>1 DEF BuildSource, Compare, SendWebhook, NotifyComplete
    <2>2. CASE MarkFailed(r) \/ MarkTransient(r)
      BY <2>2 DEF MarkFailed, MarkTransient
    <2>3. CASE Publish(r) \/ PersistFingerprint(r)
      BY <2>3 DEF Publish, PersistFingerprint
    <2>4. CASE RecordDrift(r) \/ NotifyIncomplete(r)
      BY <2>4 DEF RecordDrift, NotifyIncomplete
    <2> QED
      BY <2>1, <2>2, <2>3, <2>4 DEF Worker
  <1> QED
    BY <1>2, <1>3, <1>4

-----------------------------------------------------------------------------
(* Copies that have the current resourceVersion.                           *)

LEMMA UpdateCases ==
    ASSUME NEW r \in Replicas,
           UpdateSucceeds(r, {}) \/ UpdateSucceeds(r, {r}) \/ UpdateFails(r)
    PROVE  LET c == worker[r].key
               object == [api[c] EXCEPT !.status = worker[r].dc.status]
           IN \/ Accepted(r) /\ Replace(c, object, {})
              \/ Accepted(r) /\ UpdateSucceeds(r, {r}) /\ Replace(c, object, {r})
              \/ /\ UNCHANGED objectVars
                 /\ fresh' \subseteq fresh
  <1> DEFINE object == [api[worker[r].key] EXCEPT !.status = worker[r].dc.status]
  <1>1. ASSUME Accepted(r), Store(r, {})
        PROVE  \/ Replace(worker[r].key, object, {})
               \/ UNCHANGED objectVars /\ fresh' \subseteq fresh
    BY <1>1 DEF Store
  <1>2. ASSUME Accepted(r), Store(r, {r})
        PROVE  \/ Replace(worker[r].key, object, {r})
               \/ UNCHANGED objectVars /\ fresh' \subseteq fresh
    BY <1>2 DEF Store, Accepted
  <1> HIDE DEF object
  <1>3. CASE UpdateSucceeds(r, {})
    BY <1>1, <1>3 DEF UpdateSucceeds, object
  <1>4. CASE UpdateSucceeds(r, {r})
    BY <1>2, <1>4 DEF UpdateSucceeds, object
  <1>5. CASE UpdateFails(r)
    <2>1. CASE Accepted(r) /\ Store(r, {})
      BY <1>1, <2>1 DEF object
    <2>2. CASE fresh' = fresh \ {r} /\ UNCHANGED objectVars
      BY <2>2
    <2> QED
      BY <1>5, <2>1, <2>2 DEF UpdateFails
  <1> QED
    BY <1>3, <1>4, <1>5

LEMMA SyncedCopiesKept ==
    ASSUME TypeInv, SyncedCopies, [Next]_vars
    PROVE  SyncedCopies'
  <1>1. ASSUME NEW c \in Checks, NEW object, NEW holders,
               Replace(c, object, holders), UNCHANGED cache
        PROVE  SyncedCopies'
    BY <1>1 DEF Replace, SyncedCopies, TypeInv, TypeOK
  <1>2. ASSUME UNCHANGED <<cache, objectVars>>
        PROVE  SyncedCopies'
    BY <1>2 DEF SyncedCopies, objectVars
  <1>3. ASSUME NEW r \in Replicas, ~At(r, "idle"),
               UpdateSucceeds(r, {}) \/ UpdateSucceeds(r, {r}) \/ UpdateFails(r),
               UNCHANGED cache
        PROVE  SyncedCopies'
    <2>1. worker[r].key \in Checks
      BY <1>3 DEF TypeInv, WorkerShape
    <2> DEFINE object == [api[worker[r].key] EXCEPT !.status = worker[r].dc.status]
    <2>2. \/ Replace(worker[r].key, object, {}) \/ Replace(worker[r].key, object, {r})
          \/ UNCHANGED objectVars
      BY <1>3, UpdateCases
    <2> HIDE DEF object
    <2> QED
      BY <1>1, <1>2, <1>3, <2>1, <2>2
  <1>4. ASSUME NEW c \in Checks, User(c) \/ WorldChanges(c)
        PROVE  SyncedCopies'
    BY <1>1, <1>2, <1>4 DEF User, CreateCheck, EditSpec, DeleteCheck, WorldChanges
  <1>5. ASSUME NEW r \in Replicas, NEW c \in Checks, Manager(r, c)
        PROVE  SyncedCopies'
    <2>1. CASE Deliver(r, c)
      BY <2>1 DEF Deliver, SyncedCopies, TypeInv, TypeOK
    <2>2. CASE ~Deliver(r, c)
      BY <1>2, <1>5, <2>2
      DEF Manager, TimerFires, ReconcileGone, ReconcileUnread, ReconcileExisting, Take
    <2> QED
      BY <2>1, <2>2
  <1>6. ASSUME NEW r \in Replicas, Worker(r)
        PROVE  SyncedCopies'
    <2>1. CASE MarkFailed(r) \/ MarkTransient(r) \/ Publish(r) \/ PersistFingerprint(r)
      BY <1>3, <2>1 DEF MarkFailed, MarkTransient, Publish, PersistFingerprint, At
    <2>2. CASE \/ BuildSource(r) \/ Compare(r) \/ RecordDrift(r)
               \/ SendWebhook(r) \/ NotifyIncomplete(r) \/ NotifyComplete(r)
      BY <1>2, <2>2
      DEF BuildSource, Compare, RecordDrift, SendWebhook, NotifyIncomplete, NotifyComplete
    <2> QED
      BY <1>6, <2>1, <2>2 DEF Worker
  <1>7. ASSUME NEW r \in Replicas, Restart(r)
        PROVE  SyncedCopies'
    BY <1>7 DEF Restart, SyncedCopies, TypeInv, TypeOK
  <1>8. CASE UNCHANGED vars
    BY <1>2, <1>8 DEF vars, objectVars
  <1> QED
    BY <1>4, <1>5, <1>6, <1>7, <1>8 DEF Next

LEMMA FreshAcrossReplace ==
    ASSUME TypeInv, FreshWorkers, NEW c \in Checks, NEW object,
           Replace(c, object, {}),
           \A q \in fresh : worker[q].key # c => worker'[q] = worker[q]
    PROVE  FreshWorkers'
  <1>1. ASSUME NEW q \in fresh'
        PROVE  /\ q \in fresh /\ worker[q].key # c /\ worker'[q] = worker[q]
               /\ worker[q].key \in Checks /\ api'[worker[q].key] = api[worker[q].key]
    <2>1. q \in fresh /\ worker[q].key # c
      BY <1>1 DEF Replace
    <2>2. worker[q].key \in Checks
      BY <2>1 DEF TypeInv, TypeOK, WorkerShape, FreshWorkers
    <2> QED
      BY <2>1, <2>2 DEF Replace, TypeInv, TypeOK
  <1> QED
    BY <1>1 DEF FreshWorkers, At

LEMMA FreshAcrossStep ==
    ASSUME TypeInv, FreshWorkers, NEW r \in Replicas, OthersWait(r),
           UNCHANGED api, fresh' \subseteq fresh,
           r \in fresh' =>
              /\ GoesOn(r) /\ worker'[r].pc # "idle"
              /\ worker'[r].pc # "persist" => KeepsHash(r) /\ worker[r].pc # "persist"
    PROVE  FreshWorkers'
  <1>1. ASSUME NEW q \in fresh', q # r
        PROVE  worker'[q] = worker[q] /\ q \in fresh
    BY <1>1 DEF OthersWait, TypeInv, TypeOK
  <1>2. ASSUME r \in fresh'
        PROVE  /\ r \in fresh /\ GoesOn(r) /\ worker'[r].pc # "idle"
               /\ worker'[r].pc # "persist" => KeepsHash(r) /\ worker[r].pc # "persist"
    BY <1>2
  <1> QED
    BY <1>1, <1>2 DEF FreshWorkers, At, GoesOn, KeepsHash

LEMMA FreshAcrossWrite ==
    ASSUME TypeInv, FreshWorkers, NEW r \in Replicas,
           MarkFailed(r) \/ MarkTransient(r) \/ Publish(r) \/ PersistFingerprint(r)
    PROVE  FreshWorkers'
  <1> DEFINE c == worker[r].key
             object == [api[c] EXCEPT !.status = worker[r].dc.status]
  <1>1. c \in Checks /\ worker[r].dc \in Objects
    BY DEF MarkFailed, MarkTransient, Publish, PersistFingerprint, At, TypeInv, WorkerShape
  <1>2. OthersWait(r)
    BY WriteEffect
  <1>3. ASSUME worker'[r].pc = "idle" PROVE r \notin fresh'
    BY <1>3, WriteEffect DEF UpdateSucceeds, UpdateFails, Store, Replace
  <1>4. CASE Replace(c, object, {})
    <2> HIDE DEF object
    <2>1. ASSUME NEW q \in fresh, worker[q].key # c
          PROVE  worker'[q] = worker[q]
      BY <1>2, <2>1 DEF OthersWait, TypeInv, TypeOK
    <2> QED
      BY <1>1, <1>4, <2>1, FreshAcrossReplace
  <1>5. CASE Accepted(r) /\ UpdateSucceeds(r, {r}) /\ Replace(c, object, {r})
             /\ worker[r].pc = "publish" /\ worker'[r].pc = "record"
             /\ worker'[r].key = c /\ worker'[r].dc = worker[r].dc
    <2>1. api[c] \in Objects
      BY <1>1, <1>5 DEF Accepted, TypeInv, TypeOK
    <2>2. /\ object \in Objects /\ object.status = worker[r].dc.status
          /\ object.generation = api[c].generation /\ object.spec = api[c].spec
      BY <1>1, <2>1 DEF Objects
    <2> HIDE DEF object
    <2>3. /\ api'[c] = object /\ object # Absent
          /\ api[c].generation = worker[r].dc.generation /\ api[c].spec = worker[r].dc.spec
      <3>1. api'[c] = object
        BY <1>1, <1>5 DEF Replace, TypeInv, TypeOK
      <3>2. object # Absent
        BY <2>2, AbsentIsNoObject
      <3> QED
        BY <1>5, <3>1, <3>2 DEF Accepted, FreshWorkers
    <2>4. ASSUME NEW q \in fresh', q # r
          PROVE  /\ q \in fresh /\ worker[q].key # c /\ worker'[q] = worker[q]
                 /\ worker[q].key \in Checks /\ api'[worker[q].key] = api[worker[q].key]
      <3>1. q \in fresh /\ worker[q].key # c
        BY <1>5, <2>4 DEF Replace
      <3>2. worker[q].key \in Checks
        BY <3>1 DEF TypeInv, TypeOK, WorkerShape, FreshWorkers
      <3> QED
        BY <1>2, <1>5, <2>4, <3>1, <3>2 DEF Replace, OthersWait, TypeInv, TypeOK
    <2> QED
      BY <1>5, <2>2, <2>3, <2>4 DEF FreshWorkers, At
  <1>6. CASE UNCHANGED objectVars /\ fresh' \subseteq fresh
    <2>1. r \in fresh' => /\ GoesOn(r) /\ KeepsHash(r) /\ worker'[r].pc = "record"
                         /\ worker[r].pc = "publish"
      BY <1>3, WriteEffect DEF GoesOn, KeepsHash
    <2> QED
      BY <1>2, <1>6, <2>1, FreshAcrossStep DEF objectVars
  <1> QED
    <2>1. \/ Accepted(r) /\ Replace(c, object, {})
          \/ Accepted(r) /\ UpdateSucceeds(r, {r}) /\ Replace(c, object, {r})
          \/ UNCHANGED objectVars /\ fresh' \subseteq fresh
      BY WriteEffect, UpdateCases
    <2>2. CASE Accepted(r) /\ UpdateSucceeds(r, {r}) /\ Replace(c, object, {r})
      <3>1. r \in fresh'
        BY <2>2 DEF Replace
      <3>2. /\ worker[r].pc = "publish" /\ worker'[r].pc = "record"
            /\ worker'[r].key = c /\ worker'[r].dc = worker[r].dc
        BY <1>3, <3>1, WriteEffect
      <3> HIDE DEF object
      <3> QED
        BY <1>5, <2>2, <3>2
    <2> HIDE DEF object
    <2> QED
      BY <1>4, <1>6, <2>1, <2>2

LEMMA FreshWorkersKept ==
    ASSUME TypeInv, SyncedCopies, FreshWorkers, [Next]_vars
    PROVE  FreshWorkers'
  <1>1. ASSUME UNCHANGED <<api, worker>>, fresh' \subseteq fresh
        PROVE  FreshWorkers'
    BY <1>1 DEF FreshWorkers, At
  <1>2. ASSUME NEW c \in Checks, User(c)
        PROVE  FreshWorkers'
    <2>1. PICK object : Replace(c, object, {})
      BY <1>2 DEF User, CreateCheck, EditSpec, DeleteCheck
    <2>2. UNCHANGED worker
      BY <1>2 DEF User, CreateCheck, EditSpec, DeleteCheck
    <2> QED
      BY <2>1, <2>2, FreshAcrossReplace
  <1>3. ASSUME NEW c \in Checks, WorldChanges(c)
        PROVE  FreshWorkers'
    BY <1>1, <1>3 DEF WorldChanges, objectVars
  <1>4. ASSUME NEW r \in Replicas, NEW c \in Checks, Manager(r, c)
        PROVE  FreshWorkers'
    <2>1. CASE ReconcileExisting(r, c)
      <3> DEFINE new == [Idle EXCEPT !.pc = "build", !.key = c, !.dc = cache[r][c]]
      <3>1. new.pc = "build" /\ new.key = c /\ new.dc = cache[r][c]
        BY IdleType DEF Workers
      <3>2. worker' = [worker EXCEPT ![r] = new]
        BY <2>1 DEF ReconcileExisting
      <3> HIDE DEF new
      <3>3. worker'[r] = new /\ \A q \in Replicas : q # r => worker'[q] = worker[q]
        BY <3>2 DEF TypeInv, TypeOK
      <3>4. UNCHANGED api /\ cache[r][c] # Absent
        BY <2>1 DEF ReconcileExisting, Take, objectVars
      <3>5. ASSUME r \in fresh'
            PROVE  cache[r][c] = api[c]
        BY <2>1, <3>5 DEF ReconcileExisting, SyncedCopies
      <3>6. ASSUME NEW q \in fresh', q # r
            PROVE  q \in fresh /\ worker'[q] = worker[q]
        BY <2>1, <3>3, <3>6 DEF ReconcileExisting, TypeInv, TypeOK
      <3> QED
        BY <3>1, <3>3, <3>4, <3>5, <3>6 DEF FreshWorkers, At
    <2>2. CASE ~ReconcileExisting(r, c)
      BY <1>1, <1>4, <2>2
      DEF Manager, Deliver, TimerFires, ReconcileGone, ReconcileUnread, Take, objectVars
    <2> QED
      BY <2>1, <2>2
  <1>5. ASSUME NEW r \in Replicas, Worker(r)
        PROVE  FreshWorkers'
    <2>1. CASE MarkFailed(r) \/ MarkTransient(r) \/ Publish(r) \/ PersistFingerprint(r)
      BY <2>1, FreshAcrossWrite
    <2>2. CASE BuildSource(r)
      <3>1. UNCHANGED <<api, fresh>> /\ worker[r].pc = "build"
        BY <2>2 DEF BuildSource, objectVars, At
      <3> QED
        BY <2>2, <3>1, BuildSourceEffect, FreshAcrossStep
    <2>3. CASE Compare(r)
      <3>1. UNCHANGED <<api, fresh>> /\ worker[r].pc = "compare"
        BY <2>3 DEF Compare, objectVars, At
      <3> QED
        BY <2>3, <3>1, CompareEffect, FreshAcrossStep
    <2>4. CASE RecordDrift(r)
      <3>1. UNCHANGED api /\ fresh' \subseteq fresh /\ worker[r].pc = "record"
        BY <2>4 DEF RecordDrift, objectVars, At
      <3> QED
        BY <2>4, <3>1, RecordEffect, FreshAcrossStep DEF GoesOn, KeepsHash
    <2>5. CASE SendWebhook(r)
      <3>1. UNCHANGED <<api, fresh>> /\ worker[r].pc = "send"
        BY <2>5 DEF SendWebhook, objectVars, At
      <3> QED
        BY <2>5, <3>1, SendEffect, FreshAcrossStep DEF GoesOn, KeepsHash
    <2>6. CASE NotifyIncomplete(r)
      <3>1. UNCHANGED api /\ fresh' = fresh \ {r} /\ worker[r].key \in Checks
        BY <2>6 DEF NotifyIncomplete, objectVars, At, TypeInv, WorkerShape
      <3>2. OthersWait(r)
        BY <2>6, <3>1, ReturnEffect DEF NotifyIncomplete
      <3> QED
        BY <3>1, <3>2, FreshAcrossStep
    <2>7. CASE NotifyComplete(r)
      <3>1. UNCHANGED <<api, fresh>>
        BY <2>7 DEF NotifyComplete, objectVars
      <3> QED
        BY <2>7, <3>1, CompleteEffect, FreshAcrossStep
    <2> QED
      BY <1>5, <2>1, <2>2, <2>3, <2>4, <2>5, <2>6, <2>7 DEF Worker
  <1>6. ASSUME NEW r \in Replicas, Restart(r)
        PROVE  FreshWorkers'
    <2>1. OthersWait(r)
      BY <1>6 DEF Restart, OthersWait, TypeInv, TypeOK
    <2>2. UNCHANGED api /\ fresh' = fresh \ {r}
      BY <1>6 DEF Restart
    <2> QED
      BY <2>1, <2>2, FreshAcrossStep
  <1>7. CASE UNCHANGED vars
    BY <1>1, <1>7 DEF vars
  <1> QED
    BY <1>2, <1>3, <1>4, <1>5, <1>6, <1>7 DEF Next

=============================================================================
