-------------------------- MODULE LeaderElectionProofs --------------------------
(***************************************************************************)
(* What the controller promises holds across hand-overs of the lease, with *)
(* the old leader still at work: IndInv and HandInv are invariants of      *)
(* ElectionSpec too, next to LeaseInv.                                     *)
(***************************************************************************)
EXTENDS LeaderElection, DriftCheckRefinement

LeaseSteps == \E r \in Replicas : Acquire(r) \/ Exit(r)

(* But for Acquire and Exit, a step is one of DriftCheckController. *)
LEMMA ElectionSteps ==
    ASSUME [ElectionNext]_allVars
    PROVE  LeaseSteps \/ [Next]_vars
  <1>1. CASE \E r \in Replicas : Acquire(r) \/ LoseLease(r) \/ Exit(r)
    BY <1>1 DEF LeaseSteps, LoseLease
  <1>2. CASE \/ \E c \in Checks : User(c) \/ WorldChanges(c)
             \/ \E r \in Replicas : Worker(r) \/ \E c \in Checks : Manager(r, c)
    BY <1>2 DEF Next
  <1>3. CASE UNCHANGED allVars
    BY <1>3 DEF allVars
  <1> QED
    BY <1>1, <1>2, <1>3 DEF ElectionNext

(* Neither is seen by readers of the status or by webhooks. *)
LEMMA LeaseStepsUnseen ==
    ASSUME LeaseSteps
    PROVE  UNCHANGED <<api, world, hookVars, spent>>
  BY DEF LeaseSteps, Acquire, Exit

-----------------------------------------------------------------------------
(* The controller starts: it has nothing in hand, and every object queued. *)

LEMMA AcquireTypeInv ==
    ASSUME TypeInv, NEW r \in Replicas, Acquire(r)
    PROVE  TypeInv'
  <1>1. {c \in Checks : api[c] # Absent} \in SUBSET Checks
    OBVIOUS
  <1>2. TypeOK'
    BY <1>1 DEF TypeInv, TypeOK, Acquire, hookVars
  <1>3. WorkerShape'
    BY DEF TypeInv, WorkerShape, At, Acquire
  <1> QED
    BY <1>2, <1>3 DEF TypeInv

LEMMA AcquireIndInv ==
    ASSUME IndInv, LeaseInv, NEW r \in Replicas, Acquire(r)
    PROVE  IndInv'
  <1>1. TypeInv /\ TypeInv'
    BY AcquireTypeInv DEF IndInv, TypeInv
  <1>2. UNCHANGED <<api, worker, fresh, received, delivered>>
    BY DEF Acquire, hookVars
  <1>3. \A q \in Replicas, c \in Checks :
           cache'[q][c] = IF q = r THEN api[c] ELSE cache[q][c]
    BY <1>1 DEF Acquire, TypeInv, TypeOK
  <1>4. SyncedCopies'
    <2>1. \A q \in Replicas, c \in Checks : q # r /\ <<q, c>> \in synced' => <<q, c>> \in synced
      BY DEF Acquire
    <2> QED
      BY <1>2, <1>3, <2>1 DEF IndInv, SyncedCopies
  <1>5. FreshWorkers' /\ StampedStatus' /\ CountedStatus'
    BY <1>2 DEF IndInv, FreshWorkers, StampedStatus, CountedStatus, At
  <1>6. SendProgress'
    BY <1>2 DEF IndInv, SendProgress, At
  <1>7. FingerprintMeansTold'
    BY <1>2, <1>3 DEF IndInv, FingerprintMeansTold, ToldOfDrift, Fingerprinted, At
  <1>8. NoCheckForgotten'
    <2>1. queue'[r] = {c \in Checks : api[c] # Absent}
      BY <1>1 DEF Acquire, TypeInv, TypeOK
    <2>2. \A q \in Replicas \ {r}, c \in Checks :
             queue'[q] = queue[q] /\ (<<q, c>> \in synced' => <<q, c>> \in synced)
      BY <1>1 DEF Acquire, TypeInv, TypeOK
    <2>3. UNCHANGED timer
      BY DEF Acquire
    <2> QED
      BY <1>2, <2>1, <2>2, <2>3 DEF IndInv, NoCheckForgotten
  <1>9. ResolvedOnlyAfterDrift'
    BY <1>2 DEF IndInv, ResolvedOnlyAfterDrift
  <1> QED
    BY <1>1, <1>4, <1>5, <1>6, <1>7, <1>8, <1>9 DEF IndInv, TypeInv

LEMMA AcquireHandInv ==
    ASSUME IndInv, HandInv, LeaseInv, NEW r \in Replicas, Acquire(r)
    PROVE  HandInv'
  <1>1. TypeInv /\ UNCHANGED <<api, worker, fresh, gauge, timer>>
    BY DEF IndInv, TypeInv, Acquire
  <1>2. At(r, "idle") /\ \A c \in Checks : gauge[r][c] = Absent
    BY DEF LeaseInv, Acquire, Runs, Waiting, At, Idle
  <1>3. queue'[r] = {c \in Checks : api[c] # Absent}
    BY <1>1 DEF Acquire, TypeInv, TypeOK
  <1>4. \A q \in Replicas \ {r} :
           queue'[q] = queue[q] /\ \A c : <<q, c>> \in synced' <=> <<q, c>> \in synced
    BY <1>1 DEF Acquire, TypeInv, TypeOK
  <1>5. StatusInHand' /\ ListInHand' /\ GaugeInHand'
    BY <1>1 DEF HandInv, StatusInHand, ListInHand, GaugeInHand, At
  <1>6. StaleIsNoticed'
    BY <1>1, <1>2, <1>4 DEF HandInv, StaleIsNoticed, At
  <1>7. GaugeMatchesStatus'
    BY <1>1, <1>2, <1>3, <1>4 DEF HandInv, GaugeMatchesStatus, Settled, Exports
  <1> QED
    BY <1>5, <1>6, <1>7 DEF HandInv

-----------------------------------------------------------------------------
(* The process exits: what it had in hand goes, and its copies with it.    *)

LEMMA ExitEffect ==
    ASSUME TypeInv, NEW r \in Replicas, Exit(r)
    PROVE  /\ UNCHANGED <<api, received, delivered>>
           /\ worker'[r] = Idle /\ r \notin fresh' /\ fresh' \subseteq fresh
           /\ \A c \in Checks : <<r, c>> \notin synced' /\ cache'[r][c] = Absent
           /\ \A q \in Replicas \ {r} :
                 /\ worker'[q] = worker[q] /\ (q \in fresh' <=> q \in fresh)
                 /\ cache'[q] = cache[q] /\ queue'[q] = queue[q]
                 /\ timer'[q] = timer[q] /\ gauge'[q] = gauge[q]
                 /\ \A c \in Checks : <<q, c>> \in synced' <=> <<q, c>> \in synced
  <1>1. /\ worker' = [worker EXCEPT ![r] = Idle] /\ fresh' = fresh \ {r}
        /\ cache' = [cache EXCEPT ![r] = [c \in Checks |-> Absent]]
        /\ synced' = synced \ ({r} \X Checks)
        /\ queue' = [queue EXCEPT ![r] = {}]
        /\ timer' = [timer EXCEPT ![r] = [c \in Checks |-> "none"]]
        /\ gauge' = [gauge EXCEPT ![r] = [c \in Checks |-> Absent]]
        /\ UNCHANGED <<api, received, delivered>>
    BY DEF Exit, hookVars
  <1> QED
    BY <1>1 DEF TypeInv, TypeOK

LEMMA ExitTypeInv ==
    ASSUME TypeInv, NEW r \in Replicas, Exit(r)
    PROVE  TypeInv'
  <1>1. Idle \in Workers
    BY IdleType
  <1>2. TypeOK'
    BY <1>1 DEF TypeInv, TypeOK, Exit, hookVars
  <1>3. WorkerShape'
    BY IdleShape DEF Exit
  <1> QED
    BY <1>2, <1>3 DEF TypeInv

LEMMA ExitIndInv ==
    ASSUME IndInv, NEW r \in Replicas, Exit(r)
    PROVE  IndInv'
  <1>1. TypeInv /\ TypeInv'
    BY ExitTypeInv DEF IndInv, TypeInv
  <1>2. worker'[r].pc = "idle"
    BY <1>1, ExitEffect DEF Idle
  <1>3. SyncedCopies'
    BY <1>1, ExitEffect DEF IndInv, SyncedCopies
  <1>4. FreshWorkers'
    <2>1. \A q \in fresh' : /\ q \in fresh /\ worker'[q] = worker[q]
                            /\ UNCHANGED api
      BY <1>1, ExitEffect DEF TypeInv, TypeOK
    <2> QED
      BY <2>1 DEF IndInv, FreshWorkers, At
  <1>5. StampedStatus' /\ CountedStatus'
    BY <1>1, <1>2, ExitEffect DEF IndInv, StampedStatus, CountedStatus
  <1>6. SendProgress'
    BY <1>1, <1>2, ExitEffect DEF IndInv, SendProgress, At
  <1>7. FingerprintMeansTold'
    <2>1. \A c : (Fingerprinted(api[c]) <=> Fingerprinted(api'[c]))
                  /\ (ToldOfDrift(c) <=> ToldOfDrift(c)')
      BY <1>1, ExitEffect DEF ToldOfDrift
    <2>2. \A q \in Replicas, c \in Checks :
             Fingerprinted(cache'[q][c]) => Fingerprinted(cache[q][c])
      BY <1>1, ExitEffect DEF Fingerprinted
    <2>3. \A q \in Replicas : At(q, "idle")' \/ (worker'[q] = worker[q] /\ ~At(q, "idle"))
      BY <1>1, <1>2, ExitEffect DEF At
    <2> QED
      BY <2>1, <2>2, <2>3 DEF IndInv, FingerprintMeansTold
  <1>8. NoCheckForgotten'
    BY <1>1, ExitEffect DEF IndInv, NoCheckForgotten
  <1>9. ResolvedOnlyAfterDrift'
    BY <1>1, ExitEffect DEF IndInv, ResolvedOnlyAfterDrift
  <1> QED
    BY <1>1, <1>3, <1>4, <1>5, <1>6, <1>7, <1>8, <1>9 DEF IndInv, TypeInv

LEMMA ExitHandInv ==
    ASSUME IndInv, HandInv, NEW r \in Replicas, Exit(r)
    PROVE  HandInv'
  <1>1. TypeInv
    BY DEF IndInv, TypeInv
  <1>2. worker'[r].pc = "idle"
    BY <1>1, ExitEffect DEF Idle
  <1>3. StatusInHand'
    BY <1>1, ExitEffect DEF HandInv, StatusInHand, TypeInv, TypeOK
  <1>4. ListInHand'
    BY <1>1, <1>2, ExitEffect DEF HandInv, ListInHand, Publishing
  <1>5. StaleIsNoticed'
    <2>1. \A q \in Replicas : At(q, "idle") \/ worker[q].key \in Checks
      BY <1>1 DEF TypeInv, WorkerShape
    <2> QED
      BY <1>1, <1>2, <2>1, ExitEffect DEF HandInv, StaleIsNoticed, At
  <1>6. GaugeInHand'
    BY <1>1, <1>2, ExitEffect DEF HandInv, GaugeInHand, At
  <1>7. GaugeMatchesStatus'
    BY <1>1, ExitEffect DEF HandInv, GaugeMatchesStatus, Settled
  <1> QED
    BY <1>3, <1>4, <1>5, <1>6, <1>7 DEF HandInv

-----------------------------------------------------------------------------
(* The lease.                                                              *)

(* A process exports its own series. *)
LEMMA OwnGauge ==
    ASSUME TypeInv, NEW q \in Replicas, Worker(q), NEW r \in Replicas \ {q}
    PROVE  gauge'[r] = gauge[r]
  <1>1. CASE UNCHANGED gauge
    BY <1>1
  <1>2. CASE \E series : gauge' = [gauge EXCEPT ![q][worker[q].key] = series]
    BY <1>2 DEF TypeInv, TypeOK
  <1>3. CASE BuildSource(q)
    BY <1>1, <1>2, <1>3 DEF BuildSource, PermanentFail
  <1>4. CASE Compare(q)
    BY <1>1, <1>2, <1>4 DEF Compare, PermanentFail
  <1>5. CASE Writes(q)
    BY <1>1, <1>5 DEF Writes, MarkFailed, MarkTransient, Publish, PersistFingerprint
  <1>6. CASE RecordDrift(q)
    BY <1>2, <1>6 DEF RecordDrift
  <1>7. CASE SendWebhook(q) \/ NotifyIncomplete(q) \/ NotifyComplete(q)
    BY <1>1, <1>7 DEF SendWebhook, NotifyIncomplete, NotifyComplete
  <1> QED
    BY <1>3, <1>4, <1>5, <1>6, <1>7 DEF Worker, Writes

(* A step of another process, or of the world, leaves a waiting one alone. *)
LEMMA OthersLeaveIt ==
    ASSUME TypeInv, NEW r \in Replicas, Waiting(r), NEW q \in Replicas \ {r},
           Worker(q) \/ \E c \in Checks : Manager(q, c)
    PROVE  Waiting(r)'
  <1>1. CASE Worker(q)
    <2>1. UNCHANGED queue
      BY <1>1, WorkerLeaves
    <2>2. worker'[r] = worker[r]
      BY <1>1, OnlyOneWorks DEF OthersWait
    <2>3. \A c \in Checks : timer'[r][c] = timer[r][c]
      BY <1>1, OwnTimer
    <2>4. \A c \in Checks : gauge'[r][c] = gauge[r][c]
      BY <1>1, OwnGauge
    <2> QED
      BY <2>1, <2>2, <2>3, <2>4 DEF Waiting
  <1>2. ASSUME NEW c \in Checks, Manager(q, c)
        PROVE  Waiting(r)'
    <2>1. CASE Deliver(q, c) \/ TimerFires(q, c)
      BY <2>1 DEF Deliver, TimerFires, Waiting, TypeInv, TypeOK
    <2>2. CASE ReconcileGone(q, c) \/ ReconcileUnread(q, c) \/ ReconcileExisting(q, c)
      BY <2>2 DEF ReconcileGone, ReconcileUnread, ReconcileExisting, Take, Waiting,
                  TypeInv, TypeOK
    <2> QED
      BY <1>2, <2>1, <2>2 DEF Manager
  <1> QED
    BY <1>1, <1>2

LEMMA ElectionInitInv == ElectionInit => IndInv /\ HandInv /\ LeaseInv
  <1> SUFFICES ASSUME ElectionInit
               PROVE  IndInv /\ HandInv /\ LeaseInv
    OBVIOUS
  <1>1. IndInv /\ HandInv
    BY InitIndInv, InitHandInv DEF ElectionInit
  <1>2. \A r \in Replicas : Waiting(r)
    BY DEF ElectionInit, Init, Waiting
  <1>3. LeaseInv
    BY <1>2, MaxHandoversIsNat, AbsentIsNoProcess DEF ElectionInit, LeaseInv, LeaseTypeOK
  <1> QED
    BY <1>1, <1>3

LEMMA LeaseInvKept ==
    ASSUME TypeInv, LeaseInv, [ElectionNext]_allVars
    PROVE  LeaseInv'
  <1>1. CASE \E r \in Replicas : Acquire(r)
    <2>1. PICK r \in Replicas : Acquire(r)
      BY <1>1
    <2>2. LeaseTypeOK'
      BY <2>1 DEF Acquire, LeaseInv, LeaseTypeOK
    <2>3. /\ role' = [role EXCEPT ![r] = "leading"]
          /\ role \in [Replicas -> {"standby", "leading", "deposed"}]
      BY <2>1 DEF Acquire, LeaseInv, LeaseTypeOK
    <2>4. ASSUME NEW q \in Replicas, ~Runs(q)'
          PROVE  Waiting(q)'
      <3>1. q # r /\ Waiting(q)
        BY <2>3, <2>4 DEF Runs, LeaseInv
      <3> QED
        BY <2>1, <3>1 DEF Acquire, Waiting, TypeInv, TypeOK
    <2>5. elects' => \A q \in Replicas : role'[q] = "leading" <=> holder' = q
      BY <2>1, <2>3, AbsentIsNoProcess DEF Acquire, LeaseInv
    <2> QED
      BY <2>2, <2>4, <2>5 DEF LeaseInv
  <1>2. CASE \E r \in Replicas : LoseLease(r)
    <2>1. PICK r \in Replicas : LoseLease(r)
      BY <1>2
    <2>2. LeaseTypeOK'
      BY <2>1, MaxHandoversIsNat DEF LoseLease, LeaseInv, LeaseTypeOK
    <2>3. role' = [role EXCEPT ![r] = "deposed"] /\ UNCHANGED vars
      BY <2>1 DEF LoseLease
    <2>4. \A q \in Replicas : ~Runs(q)' => Waiting(q)'
      BY <2>3 DEF Runs, Waiting, vars, LeaseInv, LeaseTypeOK
    <2>5. elects' => \A q \in Replicas : role'[q] = "leading" <=> holder' = q
      BY <2>1, <2>3, AbsentIsNoProcess DEF LoseLease, LeaseInv, LeaseTypeOK
    <2> QED
      BY <2>2, <2>4, <2>5 DEF LeaseInv
  <1>3. CASE \E r \in Replicas : Exit(r)
    <2>1. PICK r \in Replicas : Exit(r)
      BY <1>3
    <2>2. LeaseTypeOK'
      BY <2>1 DEF Exit, LeaseInv, LeaseTypeOK
    <2>3. role' = [role EXCEPT ![r] = "standby"] /\ role[r] = "deposed"
      BY <2>1 DEF Exit
    <2>4. \A q \in Replicas \ {r} : ~Runs(q)' => Waiting(q)'
      BY <2>1, <2>3, ExitEffect DEF Runs, Waiting, LeaseInv, LeaseTypeOK
    <2>5. Waiting(r)'
      BY <2>1 DEF Exit, Waiting, TypeInv, TypeOK
    <2>6. elects' => \A q \in Replicas : role'[q] = "leading" <=> holder' = q
      BY <2>1, <2>3 DEF Exit, LeaseInv, LeaseTypeOK
    <2> QED
      BY <2>2, <2>4, <2>5, <2>6 DEF LeaseInv
  <1>4. ASSUME UNCHANGED leaseVars,
               \A q \in Replicas : Waiting(q) /\ ~Runs(q) => Waiting(q)'
        PROVE  LeaseInv'
    BY <1>4 DEF leaseVars, LeaseInv, LeaseTypeOK, Runs
  <1>5. CASE (\E c \in Checks : User(c) \/ WorldChanges(c)) /\ UNCHANGED leaseVars
    <2>1. UNCHANGED <<queue, timer, worker, gauge>>
      BY <1>5 DEF User, CreateCheck, EditSpec, DeleteCheck, WorldChanges
    <2> QED
      BY <1>4, <1>5, <2>1 DEF Waiting
  <1>6. CASE /\ \E r \in Replicas : Runs(r) /\ (Worker(r) \/ \E c \in Checks : Manager(r, c))
             /\ UNCHANGED leaseVars
    <2>1. PICK r \in Replicas : Runs(r) /\ (Worker(r) \/ \E c \in Checks : Manager(r, c))
      BY <1>6
    <2>2. \A q \in Replicas : Waiting(q) /\ ~Runs(q) => Waiting(q)'
      BY <2>1, OthersLeaveIt
    <2> QED
      BY <1>4, <1>6, <2>2
  <1>7. CASE UNCHANGED allVars
    BY <1>4, <1>7 DEF allVars, vars, Waiting
  <1> QED
    BY <1>1, <1>2, <1>3, <1>5, <1>6, <1>7 DEF ElectionNext

LEMMA ElectionNextInv ==
    IndInv /\ HandInv /\ LeaseInv /\ [ElectionNext]_allVars
        => IndInv' /\ HandInv' /\ LeaseInv'
  <1> SUFFICES ASSUME IndInv, HandInv, LeaseInv, [ElectionNext]_allVars
               PROVE  IndInv' /\ HandInv' /\ LeaseInv'
    OBVIOUS
  <1>1. LeaseInv'
    BY LeaseInvKept DEF IndInv, TypeInv
  <1>2. CASE LeaseSteps
    BY <1>1, <1>2, AcquireIndInv, AcquireHandInv, ExitIndInv, ExitHandInv DEF LeaseSteps
  <1>3. CASE [Next]_vars
    BY <1>1, <1>3, NextIndInv, NextHandInv
  <1> QED
    BY <1>2, <1>3, ElectionSteps

(* Whoever has had the lease, for however long after losing it: what       *)
(* caches, workers and stored objects say of one another holds, and a      *)
(* process that acquires the lease finds nothing of an earlier life.       *)
THEOREM ElectionInductive == ElectionSpec => [](IndInv /\ HandInv /\ LeaseInv)
  <1> QED
    BY ElectionInitInv, ElectionNextInv, PTL DEF ElectionSpec

(* No check is forgotten by a process that leads or is about to exit: the  *)
(* initial list of its controller has enqueued what was there before.      *)
THEOREM NothingForgottenByLeaders == ElectionSpec => []NoCheckForgotten
  <1>1. IndInv => NoCheckForgotten
    BY DEF IndInv
  <1> QED
    BY <1>1, ElectionInductive, PTL

(* A new leader exports nothing of its own or another's earlier life, and  *)
(* once it is done with a check the numbers of the stored status.          *)
THEOREM GaugesMatchAcrossHandovers == ElectionSpec => []GaugeMatchesStatus
  <1>1. HandInv => GaugeMatchesStatus
    BY DEF HandInv
  <1> QED
    BY <1>1, ElectionInductive, PTL

(* A deposed leader's status write is refused, or speaks of the generation *)
(* it is stored with.                                                      *)
THEOREM StatusIsCurrentAcrossHandovers == ElectionSpec => StatusDescribesCurrentSpec
  <1>1. IndInv /\ [ElectionNext]_allVars =>
           [\A c \in Checks :
               SameObject(c) /\ api'[c].status # api[c].status
                  => api'[c].status.ready.observedGeneration = api'[c].generation]_vars
    <2>1. CASE LeaseSteps
      BY <2>1, LeaseStepsUnseen
    <2>2. CASE [Next]_vars
      BY <2>2, WriteSpeaksOfCurrentSpec
    <2> QED
      BY <2>1, <2>2, ElectionSteps
  <1> QED
    BY <1>1, ElectionInductive, PTL DEF ElectionSpec, StatusDescribesCurrentSpec

(* Hand-overs of the lease, with the old leader still writing and telling  *)
(* webhooks, do not break the promise: leader election or none,            *)
(* LeaderElection implements DriftPromise.                                 *)
THEOREM LeadersKeepThePromise == ElectionSpec => PromiseKept
  <1>1. ElectionInit => Promise!Init
    BY InitPromise DEF ElectionInit
  <1>2. IndInv /\ HandInv /\ [ElectionNext]_allVars => [Promise!Next]_(Promise!promised)
    <2>1. CASE LeaseSteps
      BY <2>1, LeaseStepsUnseen DEF hookVars, Promise!promised
    <2>2. CASE [Next]_vars
      BY <2>2, NextPromise
    <2> QED
      BY <2>1, <2>2, ElectionSteps
  <1> QED
    BY <1>1, <1>2, ElectionInductive, PTL DEF ElectionSpec, PromiseKept, Promise!Spec

=============================================================================
