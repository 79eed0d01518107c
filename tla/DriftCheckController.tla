-------------------------- MODULE DriftCheckController --------------------------
(***************************************************************************)
(* The DriftCheck controller of internal/controller: Reconcile with the    *)
(* informer cache it reads, the workqueue that calls it, the API server it *)
(* writes status to, the gauges it exports and the webhooks it notifies.   *)
(* Several replicas may run at once: leader election is an opt-in flag of  *)
(* cmd/main.go, and a hand-over of the lease can overlap.                  *)
(*                                                                         *)
(* Between two steps of one reconcile anything else may happen: an edit of *)
(* the object, a change in the cluster, a watch event, a crash, a step of  *)
(* another replica.                                                        *)
(***************************************************************************)
EXTENDS DriftStatus, Sequences

CONSTANTS Replicas,      \* controller processes
          Checks,        \* names of DriftCheck objects
          Webhooks,      \* notification endpoints
          Specs,         \* the specs users write
          Readings,      \* the comparisons the cluster can yield
          MaxEdits,      \* bound: creations, spec edits and deletions
          MaxChanges,    \* bound: changes of the compared cluster and source
          MaxFaults,     \* bound: crashes, failed calls, failed deliveries
          Absent         \* no such object

SpecRecords == [webhooks : Seq(Webhooks), selectorValid : BOOLEAN]

ASSUME SpecsAreSpecs == Specs \subseteq SpecRecords
ASSUME ReadingsAreReadings == Readings \subseteq AllReadings /\ Readings # {}
ASSUME BoundsAreNat == MaxEdits \in Nat /\ MaxChanges \in Nat /\ MaxFaults \in Nat

(* A DriftCheck as the API server stores it. *)
Objects == [generation : Nat, spec : Specs, status : Statuses]

ASSUME AbsentIsNoObject == Absent \notin Objects /\ Absent \notin Checks /\ Absent \notin Events

(* What stands between a reconcile and a reading: the source cannot be     *)
(* resolved, the cluster refuses the read, or the load or read fails.      *)
Obstacles == {"none", "noSource", "noAccess", "noAnswer"}

VARIABLES
    api,         \* the object stored under each name, or Absent
    cache,       \* each replica's informer copy of it
    synced,      \* the <<replica, name>> whose copy has the current resourceVersion
    queue,       \* names each replica's workqueue has ready
    timer,       \* names it has waiting: for the interval or for a backoff
    worker,      \* the one reconcile each replica has in progress
    fresh,       \* replicas whose worker's object has the current resourceVersion
    gauge,       \* the metric series of each name in each process, or Absent
    world,       \* what an evaluation of each check would meet
    received,    \* the last message of each check each webhook received, or Absent
    delivered,   \* history: every <<check, webhook, message>> received
    spent        \* how much of each bound is used up

vars == <<api, cache, synced, queue, timer, worker, fresh, gauge, world,
          received, delivered, spent>>

(* What a reconcile changes only through a status write. *)
objectVars == <<api, synced>>
hookVars == <<received, delivered>>

-----------------------------------------------------------------------------
PCs == {"idle", "build", "compare", "fail", "transient", "publish", "record",
        "send", "persist"}

Idle == [pc |-> "idle", key |-> Absent, dc |-> Absent, todo |-> <<>>, failed |-> FALSE]

Workers == [pc : PCs, key : Checks \cup {Absent}, dc : Objects \cup {Absent},
            todo : Seq(Webhooks), failed : BOOLEAN]

Init ==
    /\ api = [c \in Checks |-> Absent]
    /\ cache = [r \in Replicas |-> [c \in Checks |-> Absent]]
    /\ synced = Replicas \X Checks
    /\ queue = [r \in Replicas |-> {}]
    /\ timer = [r \in Replicas |-> [c \in Checks |-> "none"]]
    /\ worker = [r \in Replicas |-> Idle]
    /\ fresh = {}
    /\ gauge = [r \in Replicas |-> [c \in Checks |-> Absent]]
    /\ world \in [Checks -> [obstacle : {"none"}, reading : Readings]]
    /\ received = [c \in Checks |-> [w \in Webhooks |-> Absent]]
    /\ delivered = {}
    /\ spent = [edits |-> 0, changes |-> 0, faults |-> 0]

Edit == spent.edits < MaxEdits /\ spent' = [spent EXCEPT !.edits = @ + 1]
Change == spent.changes < MaxChanges /\ spent' = [spent EXCEPT !.changes = @ + 1]
Fault == spent.faults < MaxFaults /\ spent' = [spent EXCEPT !.faults = @ + 1]

-----------------------------------------------------------------------------
(* The object store.  A write of any kind gives the object a resource-     *)
(* Version no copy has, except the writer's own if it goes on using it.    *)
Replace(c, object, holders) ==
    /\ api' = [api EXCEPT ![c] = object]
    /\ synced' = synced \ (Replicas \X {c})
    /\ fresh' = {q \in fresh : worker[q].key # c} \cup holders

CreateCheck(c) ==
    /\ api[c] = Absent
    /\ \E s \in Specs : Replace(c, [generation |-> 1, spec |-> s, status |-> NewStatus], {})
    /\ Edit
    /\ UNCHANGED <<cache, queue, timer, worker, gauge, world, hookVars>>

EditSpec(c) ==
    /\ api[c] # Absent
    /\ \E s \in Specs \ {api[c].spec} :
          Replace(c, [api[c] EXCEPT !.generation = @ + 1, !.spec = s], {})
    /\ Edit
    /\ UNCHANGED <<cache, queue, timer, worker, gauge, world, hookVars>>

DeleteCheck(c) ==
    /\ api[c] # Absent
    /\ Replace(c, Absent, {})
    /\ Edit
    /\ UNCHANGED <<cache, queue, timer, worker, gauge, world, hookVars>>

(* The cluster, the source or the access to either changes. *)
WorldChanges(c) ==
    /\ \E o \in Obstacles, rd \in Readings :
          /\ [obstacle |-> o, reading |-> rd] # world[c]
          /\ world' = [world EXCEPT ![c] = [obstacle |-> o, reading |-> rd]]
    /\ Change
    /\ UNCHANGED <<objectVars, cache, queue, timer, worker, fresh, gauge, hookVars>>

-----------------------------------------------------------------------------
(* The workqueue holds a name once, at the sooner of its ready times.  One *)
(* worker takes names from it: MaxConcurrentReconciles is left at 1.       *)

(* A watch event.  SetupWithManager sets no predicate, so the controller's *)
(* own status writes come back to it here too.                             *)
Deliver(r, c) ==
    /\ <<r, c>> \notin synced
    /\ cache' = [cache EXCEPT ![r][c] = api[c]]
    /\ synced' = synced \cup {<<r, c>>}
    /\ queue' = [queue EXCEPT ![r] = @ \cup {c}]
    /\ timer' = [timer EXCEPT ![r][c] = "none"]
    /\ UNCHANGED <<api, worker, fresh, gauge, world, hookVars, spent>>

TimerFires(r, c) ==
    /\ timer[r][c] # "none"
    /\ timer' = [timer EXCEPT ![r][c] = "none"]
    /\ queue' = [queue EXCEPT ![r] = @ \cup {c}]
    /\ UNCHANGED <<objectVars, cache, worker, fresh, gauge, world, hookVars, spent>>

(* Bug: nothing is requeued. *)
Return_Dropping(r, c, wait) ==
    /\ worker' = [worker EXCEPT ![r] = Idle]
    /\ timer' = timer

(* Reconcile returns: with RequeueAfter the name waits for the interval,   *)
(* with an error for the backoff, with an empty result for nothing.  A     *)
(* name that became ready meanwhile stays ready.                           *)
Return(r, c, wait) ==
    /\ worker' = [worker EXCEPT ![r] = Idle]
    /\ timer' = [timer EXCEPT ![r][c] = IF c \in queue[r] THEN "none" ELSE wait]

(* The process stops and starts: it loses its queue, its gauges and the    *)
(* reconcile in progress, and its initial list enqueues every object.      *)
Restart(r) ==
    /\ Fault
    /\ worker' = [worker EXCEPT ![r] = Idle]
    /\ fresh' = fresh \ {r}
    /\ gauge' = [gauge EXCEPT ![r] = [c \in Checks |-> Absent]]
    /\ cache' = [cache EXCEPT ![r] = api]
    /\ synced' = synced \cup ({r} \X Checks)
    /\ queue' = [queue EXCEPT ![r] = {c \in Checks : api[c] # Absent}]
    /\ timer' = [timer EXCEPT ![r] = [c \in Checks |-> "none"]]
    /\ UNCHANGED <<api, world, hookVars>>

-----------------------------------------------------------------------------
(* Reconcile, from the cached read to the reading. *)

At(r, pc) == worker[r].pc = pc
Goto(r, pc) == worker' = [worker EXCEPT ![r].pc = pc]

(* The worker takes a name and reads its object from the cache. *)
Take(r, c) ==
    /\ At(r, "idle") /\ c \in queue[r]
    /\ queue' = [queue EXCEPT ![r] = @ \ {c}]
    /\ UNCHANGED <<objectVars, cache, world, hookVars>>

ReconcileExisting(r, c) ==
    /\ Take(r, c)
    /\ cache[r][c] # Absent
    /\ worker' = [worker EXCEPT ![r] = [Idle EXCEPT !.pc = "build", !.key = c,
                                                    !.dc = cache[r][c]]]
    /\ fresh' = IF <<r, c>> \in synced THEN fresh \cup {r} ELSE fresh \ {r}
    /\ UNCHANGED <<timer, gauge, spent>>

(* NotFound: the metric series go, and nothing is requeued. *)
ReconcileGone(r, c) ==
    /\ Take(r, c)
    /\ cache[r][c] = Absent
    /\ gauge' = [gauge EXCEPT ![r][c] = Absent]
    /\ UNCHANGED <<timer, worker, fresh, spent>>

(* The cached read fails for another reason: nothing but a retry. *)
ReconcileUnread(r, c) ==
    /\ Take(r, c)
    /\ Fault
    /\ timer' = [timer EXCEPT ![r][c] = "backoff"]
    /\ UNCHANGED <<worker, fresh, gauge>>

(* Bug: a failure clears the last drift found. *)
SetNotReady_Clearing(r, pc, reason) ==
    worker' = [worker EXCEPT ![r].pc = pc,
                             ![r].dc.status = NotReady([@ EXCEPT !.drifted = {}], reason,
                                                       worker[r].dc.generation)]

(* permanentFail and markNotReady set the condition in memory; the first   *)
(* has dropped the gauges by then.  The status write is a step of its own. *)
SetNotReady(r, pc, reason) ==
    worker' = [worker EXCEPT ![r].pc = pc,
                             ![r].dc.status = NotReady(@, reason, worker[r].dc.generation)]

(* Bug: the gauges stay when there is no reading. *)
PermanentFail_KeepingGauge(r, reason) == SetNotReady(r, "fail", reason) /\ UNCHANGED gauge

PermanentFail(r, reason) ==
    /\ gauge' = [gauge EXCEPT ![r][worker[r].key] = Absent]
    /\ SetNotReady(r, "fail", reason)

(* buildSource, then applyTarget.  A read of a ConfigMap or Secret that    *)
(* fails for any reason, transient ones included, is a SourceError.        *)
BuildSource(r) ==
    /\ At(r, "build")
    /\ LET obstructed == world[worker[r].key].obstacle = "noSource" IN
       \/ obstructed /\ PermanentFail(r, "SourceError") /\ UNCHANGED spent
       \/ ~obstructed /\ Fault /\ PermanentFail(r, "SourceError")
       \/ /\ ~obstructed /\ ~worker[r].dc.spec.selectorValid
          /\ PermanentFail(r, "InvalidTarget") /\ UNCHANGED spent
       \/ /\ ~obstructed /\ worker[r].dc.spec.selectorValid
          /\ Goto(r, "compare") /\ UNCHANGED <<gauge, spent>>
    /\ UNCHANGED <<objectVars, cache, queue, timer, fresh, world, hookVars>>

(* engine.Run: load, diff and read the cluster.  The source was resolved   *)
(* a step before; that it cannot be resolved now is of no consequence.     *)
Compare(r) ==
    /\ At(r, "compare")
    /\ LET here == world[worker[r].key] IN
       \/ here.obstacle = "noAccess" /\ PermanentFail(r, "FetchError") /\ UNCHANGED spent
       \/ /\ here.obstacle = "noAnswer"
          /\ SetNotReady(r, "transient", "CompareError") /\ UNCHANGED <<gauge, spent>>
       \/ /\ here.obstacle \in {"none", "noSource"} /\ Fault
          /\ SetNotReady(r, "transient", "CompareError") /\ UNCHANGED gauge
       \/ /\ here.obstacle \in {"none", "noSource"}
          /\ worker' = [worker EXCEPT
                  ![r].pc = "publish",
                  ![r].dc.status = Evaluated(@, here.reading, worker[r].dc.generation)]
          /\ UNCHANGED <<gauge, spent>>
    /\ UNCHANGED <<objectVars, cache, queue, timer, fresh, world, hookVars>>

-----------------------------------------------------------------------------
(* r.Status().Update.  The API server takes the status of a writer whose   *)
(* resourceVersion is current; a write that changes no byte keeps the      *)
(* version.  lastCheckedAt (in seconds) and the condition's message are    *)
(* not modelled: equal statuses may differ in them, or not.                *)
Accepted(r) == api[worker[r].key] # Absent /\ r \in fresh

Store(r, holders) ==
    LET c == worker[r].key
        object == [api[c] EXCEPT !.status = worker[r].dc.status]
    IN \/ Replace(c, object, holders)
       \/ /\ object = api[c]
          /\ fresh' = (fresh \ {r}) \cup holders
          /\ UNCHANGED objectVars

(* Bug: a patch without a resourceVersion, which no newer version refuses. *)
UpdateSucceeds_Unversioned(r, holders) ==
    /\ api[worker[r].key] # Absent
    /\ Store(r, holders)
    /\ UNCHANGED spent

UpdateSucceeds(r, holders) ==
    /\ Accepted(r)
    /\ Store(r, holders)
    /\ UNCHANGED spent

(* A conflict, a deleted object, a failed call, or a lost answer. *)
UpdateFails(r) ==
    \/ Accepted(r) /\ Fault /\ Store(r, {})
    \/ /\ \/ Accepted(r) /\ Fault
          \/ ~Accepted(r) /\ UNCHANGED spent
       /\ fresh' = fresh \ {r}
       /\ UNCHANGED objectVars

(* The write of permanentFail: an error is returned for a prompt retry. *)
MarkFailed(r) ==
    /\ At(r, "fail")
    /\ \/ UpdateSucceeds(r, {}) /\ Return(r, worker[r].key, "interval")
       \/ UpdateFails(r) /\ Return(r, worker[r].key, "backoff")
    /\ UNCHANGED <<cache, queue, gauge, world, hookVars>>

(* The write of a CompareError is not checked; the cause is returned. *)
MarkTransient(r) ==
    /\ At(r, "transient")
    /\ UpdateSucceeds(r, {}) \/ UpdateFails(r)
    /\ Return(r, worker[r].key, "backoff")
    /\ UNCHANGED <<cache, queue, gauge, world, hookVars>>

(* The write of an evaluation comes before any other effect of it. *)
Publish(r) ==
    /\ At(r, "publish")
    /\ \/ UpdateSucceeds(r, {r}) /\ Goto(r, "record") /\ UNCHANGED timer
       \/ UpdateFails(r) /\ Return(r, worker[r].key, "backoff")
    /\ UNCHANGED <<cache, queue, gauge, world, hookVars>>

-----------------------------------------------------------------------------
(* RecordDrift, and the early returns of notify. *)

(* Bug: no deduplication. *)
NotifyWanted_Always(dc) ==
    /\ dc.spec.webhooks # <<>>
    /\ ~ (DriftCount(dc.status.summary) = 0 /\ dc.status.lastNotifiedHash = NeverNotified)

(* Bug: a check that never drifted announces that it is resolved. *)
NotifyWanted_WhenInSync(dc) ==
    /\ dc.spec.webhooks # <<>>
    /\ DriftHash(dc.status.drifted) # dc.status.lastNotifiedHash

NotifyWanted(dc) ==
    /\ dc.spec.webhooks # <<>>
    /\ DriftHash(dc.status.drifted) # dc.status.lastNotifiedHash
    /\ ~ (DriftCount(dc.status.summary) = 0 /\ dc.status.lastNotifiedHash = NeverNotified)

RecordDrift(r) ==
    LET dc == worker[r].dc IN
    /\ At(r, "record")
    /\ gauge' = [gauge EXCEPT ![r][worker[r].key] = dc.status.summary]
    /\ \/ /\ NotifyWanted(dc)
          /\ worker' = [worker EXCEPT ![r].pc = "send", ![r].todo = dc.spec.webhooks]
          /\ UNCHANGED <<timer, fresh>>
       \/ /\ ~NotifyWanted(dc)
          /\ Return(r, worker[r].key, "interval")
          /\ fresh' = fresh \ {r}
    /\ UNCHANGED <<objectVars, cache, queue, world, hookVars, spent>>

MessageOf(dc) == BuildEvent(dc.status.drifted, DriftCount(dc.status.summary) = 0)

Arrives(c, w, message) ==
    /\ received' = [received EXCEPT ![c][w] = message]
    /\ delivered' = delivered \cup {<<c, w, message>>}

(* One turn of the send loop.  An error (an unresolvable URL, a transport  *)
(* failure, a status outside 2xx) does not tell whether the message got    *)
(* through, and does not stop the loop.                                    *)
SendWebhook(r) ==
    LET w == Head(worker[r].todo)
        key == worker[r].key
        message == MessageOf(worker[r].dc)
    IN /\ At(r, "send") /\ worker[r].todo # <<>>
       /\ \/ /\ Arrives(key, w, message)
             /\ worker' = [worker EXCEPT ![r].todo = Tail(@)]
             /\ UNCHANGED spent
          \/ /\ Fault
             /\ Arrives(key, w, message) \/ UNCHANGED hookVars
             /\ worker' = [worker EXCEPT ![r].todo = Tail(@), ![r].failed = TRUE]
       /\ UNCHANGED <<objectVars, cache, queue, timer, fresh, gauge, world>>

(* Bug: an empty result, which waits for the next watch event. *)
NotifyIncomplete_Forgetting(r) ==
    /\ At(r, "send") /\ worker[r].todo = <<>> /\ worker[r].failed
    /\ worker' = [worker EXCEPT ![r] = Idle] /\ UNCHANGED timer
    /\ fresh' = fresh \ {r}
    /\ UNCHANGED <<objectVars, cache, queue, gauge, world, hookVars, spent>>

(* A webhook failed: the fingerprint stays, the next interval retries. *)
NotifyIncomplete(r) ==
    /\ At(r, "send") /\ worker[r].todo = <<>> /\ worker[r].failed
    /\ Return(r, worker[r].key, "interval")
    /\ fresh' = fresh \ {r}
    /\ UNCHANGED <<objectVars, cache, queue, gauge, world, hookVars, spent>>

(* Bug: the fingerprint advances although a webhook failed. *)
NotifyComplete_AfterFailure(r) ==
    /\ At(r, "send") /\ worker[r].todo = <<>>
    /\ worker' = [worker EXCEPT
            ![r].pc = "persist",
            ![r].dc.status.lastNotifiedHash = DriftHash(worker[r].dc.status.drifted)]
    /\ UNCHANGED <<objectVars, cache, queue, timer, fresh, gauge, world, hookVars, spent>>

NotifyComplete(r) ==
    /\ At(r, "send") /\ worker[r].todo = <<>> /\ ~worker[r].failed
    /\ worker' = [worker EXCEPT
            ![r].pc = "persist",
            ![r].dc.status.lastNotifiedHash = DriftHash(worker[r].dc.status.drifted)]
    /\ UNCHANGED <<objectVars, cache, queue, timer, fresh, gauge, world, hookVars, spent>>

PersistFingerprint(r) ==
    /\ At(r, "persist")
    /\ \/ UpdateSucceeds(r, {}) /\ Return(r, worker[r].key, "interval")
       \/ UpdateFails(r) /\ Return(r, worker[r].key, "backoff")
    /\ UNCHANGED <<cache, queue, gauge, world, hookVars>>

-----------------------------------------------------------------------------
User(c) == CreateCheck(c) \/ EditSpec(c) \/ DeleteCheck(c)

Manager(r, c) ==
    \/ Deliver(r, c)      \/ TimerFires(r, c)
    \/ ReconcileGone(r, c) \/ ReconcileUnread(r, c) \/ ReconcileExisting(r, c)

Worker(r) ==
    \/ BuildSource(r)      \/ Compare(r)
    \/ MarkFailed(r)       \/ MarkTransient(r)    \/ Publish(r)
    \/ RecordDrift(r)      \/ SendWebhook(r)
    \/ NotifyIncomplete(r) \/ NotifyComplete(r)   \/ PersistFingerprint(r)

Next ==
    \/ \E c \in Checks : User(c) \/ WorldChanges(c)
    \/ \E r \in Replicas, c \in Checks : Manager(r, c)
    \/ \E r \in Replicas : Worker(r) \/ Restart(r)

Spec == Init /\ [][Next]_vars

(* The process schedules its goroutines: a reconcile in progress goes on,  *)
(* watch events arrive, timers fire, and the queue, first in first out     *)
(* among its ready names, serves every one of them.                        *)
Fairness ==
    /\ \A r \in Replicas : WF_vars(Worker(r))
    /\ \A r \in Replicas, c \in Checks :
          /\ WF_vars(Deliver(r, c))
          /\ WF_vars(TimerFires(r, c))
          /\ SF_vars(ReconcileGone(r, c) \/ ReconcileExisting(r, c))

FairSpec == Spec /\ Fairness

=============================================================================
