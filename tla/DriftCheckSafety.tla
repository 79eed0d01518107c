---------------------------- MODULE DriftCheckSafety ----------------------------
(***************************************************************************)
(* The controller keeps its status, its fingerprint and its schedule       *)
(* right: IndInv is inductive, and what follows from it.  On top of it,    *)
(* one process on its own repeats no message, by QuietInv.                 *)
(***************************************************************************)
EXTENDS DriftCheckProofs

-----------------------------------------------------------------------------
(* What a reconcile has in hand.                                           *)

(* Every step either leaves the workers alone, or is of exactly one. *)
LEMMA OneWorker ==
    ASSUME TypeInv, [Next]_vars
    PROVE  \/ UNCHANGED worker
           \/ \E r \in Replicas :
                 /\ OthersWait(r)
                 /\ \/ \E c \in Checks : ReconcileExisting(r, c)
                    \/ Worker(r) \/ Restart(r)
  <1>1. ASSUME NEW r \in Replicas, NEW c \in Checks, ReconcileExisting(r, c)
        PROVE  OthersWait(r)
    BY <1>1 DEF ReconcileExisting, OthersWait, TypeInv, TypeOK
  <1>2. ASSUME NEW r \in Replicas, Restart(r)
        PROVE  OthersWait(r)
    BY <1>2 DEF Restart, OthersWait, TypeInv, TypeOK
  <1>3. ASSUME NEW r \in Replicas, Worker(r)
        PROVE  OthersWait(r)
    BY <1>3, OnlyOneWorks
  <1>4. ASSUME NEW c \in Checks, User(c) \/ WorldChanges(c)
        PROVE  UNCHANGED worker
    BY <1>4 DEF User, CreateCheck, EditSpec, DeleteCheck, WorldChanges
  <1>5. ASSUME NEW r \in Replicas, NEW c \in Checks, Manager(r, c), ~ReconcileExisting(r, c)
        PROVE  UNCHANGED worker
    BY <1>5 DEF Manager, Deliver, TimerFires, ReconcileGone, ReconcileUnread
  <1>6. CASE UNCHANGED vars
    BY <1>6 DEF vars
  <1> QED
    BY <1>1, <1>2, <1>3, <1>4, <1>5, <1>6 DEF Next

LEMMA WorkerCases ==
    ASSUME TypeInv, NEW r \in Replicas,
           \/ \E c \in Checks : ReconcileExisting(r, c)
           \/ Worker(r) \/ Restart(r)
    PROVE  \/ worker'[r].pc \in {"idle", "build", "compare"}
           \/ worker'[r].pc \in {"fail", "transient"} /\ Stamped(worker'[r].dc)
           \/ /\ worker'[r].pc = "publish" /\ Stamped(worker'[r].dc)
              /\ Counted(worker'[r].dc.status)
           \/ /\ worker'[r].dc = worker[r].dc /\ worker'[r].key = worker[r].key
              /\ \/ worker[r].pc = "publish" /\ worker'[r].pc = "record"
                 \/ worker[r].pc = "record" /\ worker'[r].pc = "send" /\ RecordDrift(r)
                 \/ worker[r].pc = "send" /\ worker'[r].pc = "send" /\ SendWebhook(r)
           \/ worker[r].pc = "send" /\ worker'[r].pc = "persist" /\ NotifyComplete(r)
  <1>1. ASSUME NEW c \in Checks, ReconcileExisting(r, c)
        PROVE  worker'[r].pc = "build"
    <2> DEFINE new == [Idle EXCEPT !.pc = "build", !.key = c, !.dc = cache[r][c]]
    <2>1. new.pc = "build"
      BY IdleType DEF Workers
    <2>2. worker' = [worker EXCEPT ![r] = new]
      BY <1>1 DEF ReconcileExisting
    <2> HIDE DEF new
    <2> QED
      BY <2>1, <2>2 DEF TypeInv, TypeOK
  <1>2. CASE Restart(r)
    <2>1. worker'[r] = Idle
      BY <1>2 DEF Restart, TypeInv, TypeOK
    <2> QED
      BY <2>1 DEF Idle
  <1>3. CASE NotifyIncomplete(r)
    <2>1. worker[r].key \in Checks
      BY <1>3 DEF NotifyIncomplete, At, TypeInv, WorkerShape
    <2> QED
      BY <1>3, <2>1, ReturnEffect DEF NotifyIncomplete
  <1>4. CASE BuildSource(r) \/ Compare(r)
    BY <1>4, BuildSourceEffect, CompareEffect
  <1>5. CASE MarkFailed(r) \/ MarkTransient(r) \/ Publish(r) \/ PersistFingerprint(r)
    BY <1>5, WriteEffect
  <1>6. CASE RecordDrift(r)
    <2>1. worker[r].pc = "record"
      BY <1>6 DEF RecordDrift, At
    <2> QED
      BY <1>6, <2>1, RecordEffect
  <1>7. CASE SendWebhook(r)
    <2>1. worker[r].pc = "send"
      BY <1>7 DEF SendWebhook, At
    <2> QED
      BY <1>7, <2>1, SendEffect
  <1>8. CASE NotifyComplete(r)
    <2>1. worker[r].pc = "send"
      BY <1>8 DEF NotifyComplete, At
    <2> QED
      BY <1>8, <2>1, CompleteEffect
  <1> QED
    BY <1>1, <1>2, <1>3, <1>4, <1>5, <1>6, <1>7, <1>8 DEF Worker

(* Marking a fingerprint delivered changes nothing else of the status. *)
LEMMA CompleteKeeps ==
    ASSUME TypeInv, NEW r \in Replicas, NotifyComplete(r)
    PROVE  LET old == worker[r].dc.status
               new == worker'[r].dc.status
           IN /\ new.drifted = old.drifted /\ new.summary = old.summary
              /\ new.ready = old.ready
              /\ new.lastNotifiedHash = DriftHash(old.drifted)
  <1> DEFINE old == worker[r].dc.status
             new == [old EXCEPT !.lastNotifiedHash = DriftHash(old.drifted)]
  <1>1. old \in Statuses
    BY DEF NotifyComplete, At, TypeInv, WorkerShape, Objects
  <1>2. /\ new.drifted = old.drifted /\ new.summary = old.summary
        /\ new.ready = old.ready
        /\ new.lastNotifiedHash = DriftHash(old.drifted)
    <2> HIDE DEF old
    <2> QED BY <1>1 DEF Statuses
  <1>3. worker'[r].dc.status = new
    BY CompleteEffect
  <1> QED
    BY <1>2, <1>3

LEMMA StampedCountedKept ==
    ASSUME TypeInv, StampedStatus, CountedStatus, [Next]_vars
    PROVE  StampedStatus' /\ CountedStatus'
  <1>1. CASE UNCHANGED worker
    BY <1>1 DEF StampedStatus, CountedStatus
  <1>2. ASSUME NEW r \in Replicas, OthersWait(r),
               \/ \E c \in Checks : ReconcileExisting(r, c)
               \/ Worker(r) \/ Restart(r)
        PROVE  StampedStatus' /\ CountedStatus'
    <2>1. /\ worker'[r].pc \notin {"idle", "build", "compare"} => Stamped(worker'[r].dc)
          /\ worker'[r].pc \in {"publish", "record", "send", "persist"}
                => Counted(worker'[r].dc.status)
      <3>1. CASE NotifyComplete(r)
        <4>1. worker[r].pc = "send" /\ GoesOn(r)
          BY <3>1, CompleteEffect DEF NotifyComplete, At
        <4>2. Stamped(worker[r].dc) /\ Counted(worker[r].dc.status)
          BY <4>1 DEF StampedStatus, CountedStatus, Stamped, Counted
        <4> QED
          BY <3>1, <4>1, <4>2, CompleteKeeps DEF GoesOn, Stamped, Counted
      <3>2. CASE ~NotifyComplete(r)
        <4>1. worker[r].pc \in {"publish", "record", "send"}
                => Stamped(worker[r].dc) /\ Counted(worker[r].dc.status)
          BY DEF StampedStatus, CountedStatus, Stamped, Counted
        <4> QED
          BY <1>2, <3>2, <4>1, WorkerCases
      <3> QED
        BY <3>1, <3>2
    <2>2. \A q \in Replicas \ {r} : worker'[q] = worker[q]
      BY <1>2 DEF OthersWait
    <2> QED
      BY <2>1, <2>2 DEF StampedStatus, CountedStatus, Stamped, Counted
  <1> QED
    BY <1>1, <1>2, OneWorker

-----------------------------------------------------------------------------
(* The send loop.                                                          *)

LEMMA OnlySendDelivers ==
    ASSUME [Next]_vars
    PROVE  UNCHANGED delivered \/ \E r \in Replicas : SendWebhook(r)
  BY HookWriters DEF hookVars

LEMMA DeliveredGrows ==
    ASSUME [Next]_vars
    PROVE  delivered \subseteq delivered'
  <1>1. ASSUME NEW r \in Replicas, SendWebhook(r)
        PROVE  delivered \subseteq delivered'
    BY <1>1 DEF SendWebhook, Arrives, hookVars
  <1> QED
    BY <1>1, OnlySendDelivers

LEMMA HeadOrTail ==
    ASSUME NEW S, NEW q \in Seq(S), q # <<>>, NEW i \in DOMAIN q
    PROVE  q[i] = Head(q) \/ \E j \in DOMAIN Tail(q) : Tail(q)[j] = q[i]
  <1>1. CASE i = 1
    BY <1>1
  <1>2. CASE i # 1
    <2>1. i - 1 \in DOMAIN Tail(q) /\ Tail(q)[i - 1] = q[i]
      BY <1>2
    <2> QED
      BY <2>1
  <1> QED
    BY <1>1, <1>2

(* What an object's webhooks hear of it. *)
Awaited(r) ==
    \A w \in WebhooksOf(worker[r].dc) :
        \/ <<worker[r].key, w, MessageFor(worker[r].dc.status.drifted)>> \in delivered
        \/ \E i \in DOMAIN worker[r].todo : worker[r].todo[i] = w

Heard(r) ==
    \A w \in WebhooksOf(worker[r].dc) :
        <<worker[r].key, w, MessageFor(worker[r].dc.status.drifted)>> \in delivered

LEMMA SendProgressDef ==
    SendProgress <=>
        \A r \in Replicas :
            /\ worker[r].pc = "send" =>
                  NotifyWanted(worker[r].dc) /\ (worker[r].failed \/ Awaited(r))
            /\ worker[r].pc = "persist" =>
                  /\ worker[r].dc.status.lastNotifiedHash
                        = DriftHash(worker[r].dc.status.drifted)
                  /\ Heard(r)
  BY DEF SendProgress, At, Awaited, Heard

LEMMA AwaitedAfterSend ==
    ASSUME TypeInv, CountedStatus, NEW r \in Replicas, SendWebhook(r),
           Awaited(r), ~worker'[r].failed
    PROVE  Awaited(r)'
  <1> DEFINE dc == worker[r].dc
             key == worker[r].key
             todo == worker[r].todo
             message == MessageFor(dc.status.drifted)
  <1>1. worker[r].pc = "send" /\ todo \in Seq(Webhooks) /\ todo # <<>>
    BY DEF SendWebhook, At, TypeInv, TypeOK, Workers
  <1>2. MessageOf(dc) = message
    BY <1>1 DEF CountedStatus, MessageOf, MessageFor
  <1>3. /\ worker'[r].dc = dc /\ worker'[r].key = key /\ worker'[r].todo = Tail(todo)
        /\ Arrives(key, Head(todo), message)
    BY <1>2, SendEffect
  <1>4. delivered' = delivered \cup {<<key, Head(todo), message>>}
    BY <1>3 DEF Arrives
  <1>5. ASSUME NEW w \in WebhooksOf(dc)
        PROVE  \/ <<key, w, message>> \in delivered'
               \/ \E i \in DOMAIN Tail(todo) : Tail(todo)[i] = w
    <2>1. CASE <<key, w, message>> \in delivered
      BY <1>4, <2>1
    <2>2. CASE \E i \in DOMAIN todo : todo[i] = w
      <3>1. PICK i \in DOMAIN todo : todo[i] = w
        BY <2>2
      <3>2. w = Head(todo) \/ \E j \in DOMAIN Tail(todo) : Tail(todo)[j] = w
        <4> HIDE DEF todo
        <4> QED BY <1>1, <3>1, HeadOrTail
      <3> QED
        BY <1>4, <3>2
    <2> QED
      BY <1>5, <2>1, <2>2 DEF Awaited
  <1> QED
    BY <1>3, <1>5 DEF Awaited

LEMMA SendProgressKept ==
    ASSUME TypeInv, CountedStatus, SendProgress, [Next]_vars
    PROVE  SendProgress'
  <1>1. delivered \subseteq delivered'
    BY DeliveredGrows
  <1>2. ASSUME NEW q \in Replicas, worker'[q] = worker[q]
        PROVE  /\ worker'[q].pc = "send" =>
                     NotifyWanted(worker'[q].dc) /\ (worker'[q].failed \/ Awaited(q)')
               /\ worker'[q].pc = "persist" =>
                     /\ worker'[q].dc.status.lastNotifiedHash
                           = DriftHash(worker'[q].dc.status.drifted)
                     /\ Heard(q)'
    <2>1. /\ worker[q].pc = "send" =>
                NotifyWanted(worker[q].dc) /\ (worker[q].failed \/ Awaited(q))
          /\ worker[q].pc = "persist" =>
                /\ worker[q].dc.status.lastNotifiedHash
                      = DriftHash(worker[q].dc.status.drifted)
                /\ Heard(q)
      BY SendProgressDef
    <2>2. (Awaited(q) => Awaited(q)') /\ (Heard(q) => Heard(q)')
      BY <1>1, <1>2 DEF Awaited, Heard
    <2> QED
      BY <1>2, <2>1, <2>2
  <1>3. ASSUME NEW r \in Replicas,
               \/ \E c \in Checks : ReconcileExisting(r, c)
               \/ Worker(r) \/ Restart(r)
        PROVE  /\ worker'[r].pc = "send" =>
                     NotifyWanted(worker'[r].dc) /\ (worker'[r].failed \/ Awaited(r)')
               /\ worker'[r].pc = "persist" =>
                     /\ worker'[r].dc.status.lastNotifiedHash
                           = DriftHash(worker'[r].dc.status.drifted)
                     /\ Heard(r)'
    <2>1. CASE worker'[r].pc = "send" /\ RecordDrift(r)
      <3>1. /\ worker'[r].dc = worker[r].dc /\ NotifyWanted(worker[r].dc)
            /\ worker'[r].todo = worker[r].dc.spec.webhooks
        <4>1. Idle.pc # "send"
          BY DEF Idle
        <4> QED
          BY <2>1, <4>1, RecordEffect
      <3>2. Awaited(r)'
        BY <3>1 DEF Awaited, WebhooksOf
      <3> QED
        BY <2>1, <3>1, <3>2
    <2>2. CASE worker'[r].pc = "send" /\ SendWebhook(r)
      <3>1. /\ worker'[r].dc = worker[r].dc
            /\ worker'[r].failed \/ worker'[r].failed = worker[r].failed
        BY <2>2, SendEffect
      <3>2. NotifyWanted(worker[r].dc) /\ (worker[r].failed \/ Awaited(r))
        BY <2>2, SendProgressDef DEF SendWebhook, At
      <3>3. worker'[r].failed \/ Awaited(r)'
        BY <2>2, <3>1, <3>2, AwaitedAfterSend
      <3> QED
        BY <2>2, <3>1, <3>2, <3>3
    <2>3. CASE worker'[r].pc = "persist" /\ NotifyComplete(r)
      <3>1. /\ GoesOn(r)
            /\ worker'[r].dc.status.drifted = worker[r].dc.status.drifted
            /\ worker'[r].dc.status.lastNotifiedHash = DriftHash(worker[r].dc.status.drifted)
        BY <2>3, CompleteEffect, CompleteKeeps
      <3>2. worker[r].todo = <<>> /\ Awaited(r)
        BY <2>3, SendProgressDef DEF NotifyComplete, At
      <3>3. Heard(r)
        BY <3>2 DEF Awaited, Heard
      <3>4. Heard(r)'
        BY <1>1, <3>1, <3>3 DEF Heard, GoesOn, WebhooksOf
      <3> QED
        BY <2>3, <3>1, <3>4
    <2> QED
      BY <1>3, <2>1, <2>2, <2>3, WorkerCases
  <1>4. \A q \in Replicas :
               /\ worker'[q].pc = "send" =>
                     NotifyWanted(worker'[q].dc) /\ (worker'[q].failed \/ Awaited(q)')
               /\ worker'[q].pc = "persist" =>
                     /\ worker'[q].dc.status.lastNotifiedHash
                           = DriftHash(worker'[q].dc.status.drifted)
                     /\ Heard(q)'
    <2>1. CASE UNCHANGED worker
      BY <1>2, <2>1
    <2>2. ASSUME NEW r \in Replicas, OthersWait(r),
                 \/ \E c \in Checks : ReconcileExisting(r, c)
                 \/ Worker(r) \/ Restart(r),
                 NEW q \in Replicas
          PROVE  /\ worker'[q].pc = "send" =>
                       NotifyWanted(worker'[q].dc) /\ (worker'[q].failed \/ Awaited(q)')
                 /\ worker'[q].pc = "persist" =>
                       /\ worker'[q].dc.status.lastNotifiedHash
                             = DriftHash(worker'[q].dc.status.drifted)
                       /\ Heard(q)'
      <3>1. CASE q = r
        BY <1>3, <2>2, <3>1
      <3>2. CASE q # r
        BY <1>2, <2>2, <3>2 DEF OthersWait
      <3> QED
        BY <3>1, <3>2
    <2> QED
      BY <2>1, <2>2, OneWorker
  <1> QED
    BY <1>4 DEF SendProgress, At, Awaited, Heard

-----------------------------------------------------------------------------
(* Fingerprints and the drift they were earned by.                         *)

LEMMA ToldForever ==
    ASSUME NEW c \in Checks, [Next]_vars, ToldOfDrift(c)
    PROVE  ToldOfDrift(c)'
  BY DeliveredGrows DEF ToldOfDrift

(* The object a status write stores has the fingerprint the worker holds.  *)
LEMMA WrittenObject ==
    ASSUME NEW object \in Objects, NEW dc \in Objects
    PROVE  LET written == [object EXCEPT !.status = dc.status] IN
           /\ written \in Objects /\ written # Absent
           /\ written.status = dc.status
           /\ written.generation = object.generation /\ written.spec = object.spec
  BY AbsentIsNoObject DEF Objects

LEMMA StoredFingerprintTold ==
    ASSUME TypeInv, FingerprintMeansTold, [Next]_vars
    PROVE  \A c \in Checks : Fingerprinted(api'[c]) => ToldOfDrift(c)'
  <1>1. ASSUME UNCHANGED api
        PROVE  \A c \in Checks : Fingerprinted(api'[c]) => ToldOfDrift(c)'
    BY <1>1, ToldForever DEF FingerprintMeansTold
  <1>2. ASSUME NEW c \in Checks, NEW object, NEW holders, Replace(c, object, holders),
               Fingerprinted(object) => ToldOfDrift(c)
        PROVE  \A d \in Checks : Fingerprinted(api'[d]) => ToldOfDrift(d)'
    <2>1. \A d \in Checks : api'[d] = IF d = c THEN object ELSE api[d]
      BY <1>2 DEF Replace, TypeInv, TypeOK
    <2> QED
      BY <1>2, <2>1, ToldForever DEF FingerprintMeansTold
  <1>3. ASSUME NEW c \in Checks, User(c)
        PROVE  \A d \in Checks : Fingerprinted(api'[d]) => ToldOfDrift(d)'
    <2>1. CASE CreateCheck(c)
      <3>1. PICK s \in Specs :
               Replace(c, [generation |-> 1, spec |-> s, status |-> NewStatus], {})
        BY <2>1 DEF CreateCheck
      <3>2. NewStatus.lastNotifiedHash = NeverNotified
        BY DEF NewStatus
      <3>3. ~Fingerprinted([generation |-> 1, spec |-> s, status |-> NewStatus])
        BY <3>2 DEF Fingerprinted
      <3> QED
        BY <1>2, <3>1, <3>3
    <2>2. CASE EditSpec(c)
      <3>1. PICK s \in Specs :
               Replace(c, [api[c] EXCEPT !.generation = @ + 1, !.spec = s], {})
        BY <2>2 DEF EditSpec
      <3> DEFINE object == [api[c] EXCEPT !.generation = @ + 1, !.spec = s]
      <3>2. api[c] # Absent /\ api[c] \in Objects
        BY <2>2 DEF EditSpec, TypeInv, TypeOK
      <3>3. object.status = api[c].status
        BY <3>2 DEF Objects
      <3>4. Fingerprinted(object) => Fingerprinted(api[c])
        BY <3>2, <3>3 DEF Fingerprinted
      <3>5. Fingerprinted(object) => ToldOfDrift(c)
        BY <3>4 DEF FingerprintMeansTold
      <3> HIDE DEF object
      <3> QED
        BY <1>2, <3>1, <3>5 DEF object
    <2>3. CASE DeleteCheck(c)
      BY <1>2, <2>3 DEF DeleteCheck, Fingerprinted
    <2> QED
      BY <1>3, <2>1, <2>2, <2>3 DEF User
  <1>4. ASSUME NEW r \in Replicas,
               MarkFailed(r) \/ MarkTransient(r) \/ Publish(r) \/ PersistFingerprint(r)
        PROVE  \A d \in Checks : Fingerprinted(api'[d]) => ToldOfDrift(d)'
    <2> DEFINE c == worker[r].key
               object == [api[c] EXCEPT !.status = worker[r].dc.status]
    <2>1. c \in Checks /\ worker[r].dc \in Objects /\ ~At(r, "idle")
      BY <1>4
      DEF MarkFailed, MarkTransient, Publish, PersistFingerprint, At, TypeInv, WorkerShape
    <2>2. \/ Accepted(r) /\ Replace(c, object, {})
          \/ Accepted(r) /\ Replace(c, object, {r})
          \/ UNCHANGED objectVars
      BY <1>4, WriteEffect, UpdateCases
    <2>3. ASSUME Accepted(r)
          PROVE  Fingerprinted(object) => ToldOfDrift(c)
      <3>1. api[c] \in Objects
        BY <2>1, <2>3 DEF Accepted, TypeInv, TypeOK
      <3>2. object.status = worker[r].dc.status
        BY <2>1, <3>1, WrittenObject
      <3>3. worker[r].dc # Absent
        BY <2>1, AbsentIsNoObject
      <3> HIDE DEF object
      <3> QED
        BY <2>1, <3>2, <3>3 DEF Fingerprinted, FingerprintMeansTold
    <2> HIDE DEF object
    <2> QED
      BY <1>1, <1>2, <2>1, <2>2, <2>3 DEF objectVars
  <1>5. CASE UNCHANGED api
    BY <1>1, <1>5
  <1> QED
    BY <1>3, <1>4, <1>5, ApiWriters DEF Writes

LEMMA CachedFingerprintTold ==
    ASSUME TypeInv, FingerprintMeansTold, [Next]_vars
    PROVE  \A r \in Replicas, c \in Checks : Fingerprinted(cache'[r][c]) => ToldOfDrift(c)'
  <1>1. ASSUME NEW r \in Replicas, NEW c \in Checks
        PROVE  cache'[r][c] = cache[r][c] \/ cache'[r][c] = api[c]
    <2>1. ASSUME NEW q \in Replicas, NEW d \in Checks, Manager(q, d)
          PROVE  cache'[r][c] = cache[r][c] \/ cache'[r][c] = api[c]
      <3>1. CASE Deliver(q, d)
        BY <3>1 DEF Deliver, TypeInv, TypeOK
      <3>2. CASE ~Deliver(q, d)
        BY <2>1, <3>2
        DEF Manager, TimerFires, ReconcileGone, ReconcileUnread, ReconcileExisting, Take
      <3> QED
        BY <3>1, <3>2
    <2>2. ASSUME NEW q \in Replicas, Worker(q)
          PROVE  UNCHANGED cache
      BY <2>2 DEF Worker, BuildSource, Compare, MarkFailed, MarkTransient, Publish,
                  RecordDrift, SendWebhook, NotifyIncomplete, NotifyComplete,
                  PersistFingerprint
    <2>3. ASSUME NEW q \in Replicas, Restart(q)
          PROVE  cache'[r][c] = cache[r][c] \/ cache'[r][c] = api[c]
      BY <2>3 DEF Restart, TypeInv, TypeOK
    <2>4. ASSUME NEW d \in Checks, User(d) \/ WorldChanges(d)
          PROVE  UNCHANGED cache
      BY <2>4 DEF User, CreateCheck, EditSpec, DeleteCheck, WorldChanges
    <2>5. CASE UNCHANGED vars
      BY <2>5 DEF vars
    <2> QED
      BY <2>1, <2>2, <2>3, <2>4, <2>5 DEF Next
  <1> QED
    BY <1>1, ToldForever DEF FingerprintMeansTold

LEMMA CompletedWasTold ==
    ASSUME TypeInv, CountedStatus, SendProgress, FingerprintMeansTold,
           NEW r \in Replicas, NotifyComplete(r)
    PROVE  ToldOfDrift(worker[r].key)
  <1> DEFINE dc == worker[r].dc
             key == worker[r].key
  <1>1. worker[r].pc = "send" /\ worker[r].todo = <<>> /\ key \in Checks /\ dc \in Objects
    BY DEF NotifyComplete, At, TypeInv, WorkerShape
  <1>2. NotifyWanted(dc) /\ Awaited(r)
    BY SendProgressDef DEF NotifyComplete, At
  <1>3. CASE dc.status.drifted = {}
    <2>1. DriftCount(dc.status.summary) = 0
      BY <1>1, <1>3 DEF CountedStatus
    <2>2. Fingerprinted(dc)
      BY <1>1, <1>2, <2>1, AbsentIsNoObject DEF NotifyWanted, Fingerprinted
    <2> QED
      BY <1>1, <2>2 DEF FingerprintMeansTold, At
  <1>4. CASE dc.status.drifted # {}
    <2> DEFINE w == dc.spec.webhooks[1]
               e == <<key, w, MessageFor(dc.status.drifted)>>
    <2>1. dc.spec.webhooks \in Seq(Webhooks) /\ dc.spec.webhooks # <<>>
      BY <1>1, <1>2, SpecsAreSpecs DEF Objects, SpecRecords, NotifyWanted
    <2>2. w \in WebhooksOf(dc)
      <3>1. 1 \in DOMAIN dc.spec.webhooks
        BY <2>1
      <3> QED
        BY <3>1 DEF WebhooksOf
    <2>3. e \in delivered
      BY <1>1, <1>2, <2>2 DEF Awaited
    <2>4. e[1] = key /\ ~e[3].resolved
      BY <1>4 DEF MessageFor, BuildEvent
    <2> HIDE DEF e
    <2> QED
      BY <2>3, <2>4 DEF ToldOfDrift
  <1> QED
    BY <1>3, <1>4

HeldTold(r) ==
    worker[r].pc # "idle" /\ Fingerprinted(worker[r].dc) => ToldOfDrift(worker[r].key)

LEMMA HeldAfter ==
    ASSUME [Next]_vars, NEW r \in Replicas,
           worker'[r].pc # "idle" /\ Fingerprinted(worker'[r].dc)
              => ToldOfDrift(worker'[r].key)
    PROVE  HeldTold(r)'
  <1>1. delivered \subseteq delivered'
    BY DeliveredGrows
  <1>2. (worker[r].pc)' = worker'[r].pc /\ (worker[r].key)' = worker'[r].key
    OBVIOUS
  <1> QED
    BY <1>1 DEF HeldTold, ToldOfDrift, Fingerprinted

LEMMA HeldFingerprintTold ==
    ASSUME TypeInv, CountedStatus, SendProgress, FingerprintMeansTold, [Next]_vars
    PROVE  \A r \in Replicas : HeldTold(r)'
  <1>1. \A r \in Replicas :
           worker[r].pc # "idle" /\ Fingerprinted(worker[r].dc) => ToldOfDrift(worker[r].key)
    BY DEF FingerprintMeansTold, At
  <1>2. ASSUME NEW r \in Replicas, worker'[r] = worker[r]
        PROVE  HeldTold(r)'
    BY <1>1, <1>2, HeldAfter
  <1>3. ASSUME NEW r \in Replicas, GoesOn(r), KeepsHash(r), worker[r].pc # "idle"
        PROVE  HeldTold(r)'
    <2>1. worker[r].dc \in Objects
      BY <1>3 DEF TypeInv, WorkerShape, At
    <2>2. Fingerprinted(worker'[r].dc) => Fingerprinted(worker[r].dc)
      BY <1>3, <2>1, AbsentIsNoObject DEF Fingerprinted, KeepsHash
    <2>3. worker'[r].key = worker[r].key
      BY <1>3 DEF GoesOn
    <2> QED
      BY <1>1, <1>3, <2>2, <2>3, HeldAfter
  <1>4. ASSUME NEW r \in Replicas, worker'[r].pc = "idle"
        PROVE  HeldTold(r)'
    BY <1>4 DEF HeldTold
  <1>5. Idle.pc = "idle"
    BY DEF Idle
  <1>6. ASSUME NEW r \in Replicas, NEW c \in Checks, ReconcileExisting(r, c)
        PROVE  HeldTold(r)'
    <2> DEFINE new == [Idle EXCEPT !.pc = "build", !.key = c, !.dc = cache[r][c]]
    <2>1. new.key = c /\ new.dc = cache[r][c]
      BY IdleType DEF Workers
    <2>2. worker' = [worker EXCEPT ![r] = new]
      BY <1>6 DEF ReconcileExisting
    <2> HIDE DEF new
    <2>3. worker'[r].key = c /\ worker'[r].dc = cache[r][c]
      BY <2>1, <2>2 DEF TypeInv, TypeOK
    <2> QED
      BY <2>3, HeldAfter DEF FingerprintMeansTold
  <1>7. ASSUME NEW r \in Replicas, Worker(r)
        PROVE  HeldTold(r)'
    <2>1. CASE BuildSource(r) \/ Compare(r)
      <3>1. worker[r].pc # "idle"
        BY <2>1 DEF BuildSource, Compare, At
      <3> QED
        BY <1>3, <2>1, <3>1, BuildSourceEffect, CompareEffect
    <2>2. CASE MarkFailed(r) \/ MarkTransient(r) \/ Publish(r) \/ PersistFingerprint(r)
      <3>1. worker[r].pc # "idle"
        BY <2>2 DEF MarkFailed, MarkTransient, Publish, PersistFingerprint, At
      <3> QED
        BY <1>3, <1>4, <1>5, <2>2, <3>1, WriteEffect DEF GoesOn, KeepsHash
    <2>3. CASE RecordDrift(r)
      <3>1. worker[r].pc # "idle"
        BY <2>3 DEF RecordDrift, At
      <3> QED
        BY <1>3, <1>4, <1>5, <2>3, <3>1, RecordEffect DEF GoesOn, KeepsHash
    <2>4. CASE SendWebhook(r)
      <3>1. worker[r].pc # "idle"
        BY <2>4 DEF SendWebhook, At
      <3> QED
        BY <1>3, <2>4, <3>1, SendEffect DEF GoesOn, KeepsHash
    <2>5. CASE NotifyIncomplete(r)
      <3>1. worker[r].key \in Checks
        BY <2>5 DEF NotifyIncomplete, At, TypeInv, WorkerShape
      <3>2. worker'[r] = Idle
        BY <2>5, <3>1, ReturnEffect DEF NotifyIncomplete
      <3> QED
        BY <1>4, <1>5, <3>2
    <2>6. CASE NotifyComplete(r)
      <3>1. worker'[r].key = worker[r].key
        BY <2>6, CompleteEffect DEF GoesOn
      <3> QED
        BY <2>6, <3>1, CompletedWasTold, HeldAfter
    <2> QED
      BY <1>7, <2>1, <2>2, <2>3, <2>4, <2>5, <2>6 DEF Worker
  <1>8. ASSUME NEW r \in Replicas, Restart(r)
        PROVE  HeldTold(r)'
    <2>1. worker'[r] = Idle
      BY <1>8 DEF Restart, TypeInv, TypeOK
    <2> QED
      BY <1>4, <1>5, <2>1
  <1>9. CASE UNCHANGED worker
    BY <1>2, <1>9
  <1>10. ASSUME NEW r \in Replicas, OthersWait(r), HeldTold(r)'
         PROVE  \A q \in Replicas : HeldTold(q)'
    <2>1. ASSUME NEW q \in Replicas, q # r
          PROVE  HeldTold(q)'
      BY <1>2, <1>10, <2>1 DEF OthersWait
    <2> QED
      BY <1>10, <2>1
  <1> QED
    BY <1>6, <1>7, <1>8, <1>9, <1>10, OneWorker

LEMMA ResolvedAfterDriftKept ==
    ASSUME TypeInv, CountedStatus, SendProgress, FingerprintMeansTold,
           ResolvedOnlyAfterDrift, [Next]_vars
    PROVE  ResolvedOnlyAfterDrift'
  <1>1. delivered \subseteq delivered'
    BY DeliveredGrows
  <1>2. CASE UNCHANGED delivered
    BY <1>2 DEF ResolvedOnlyAfterDrift
  <1>3. ASSUME NEW r \in Replicas, SendWebhook(r)
        PROVE  ResolvedOnlyAfterDrift'
    <2> DEFINE dc == worker[r].dc
               new == <<worker[r].key, Head(worker[r].todo), MessageOf(dc)>>
    <2>1. delivered' = delivered \/ delivered' = delivered \cup {new}
      BY <1>3 DEF SendWebhook, Arrives, hookVars
    <2>2. ASSUME new[3].resolved
          PROVE  \E e \in delivered : e[1] = new[1] /\ ~e[3].resolved
      <3>1. DriftCount(dc.status.summary) = 0
        BY <2>2 DEF MessageOf, BuildEvent
      <3>2. NotifyWanted(dc) /\ dc \in Objects /\ ~At(r, "idle")
        BY <1>3 DEF SendProgress, SendWebhook, At, TypeInv, WorkerShape
      <3>3. Fingerprinted(dc)
        BY <3>1, <3>2, AbsentIsNoObject DEF NotifyWanted, Fingerprinted
      <3> QED
        BY <3>2, <3>3 DEF FingerprintMeansTold, ToldOfDrift
    <2> HIDE DEF new
    <2> QED
      BY <1>2, <2>1, <2>2 DEF ResolvedOnlyAfterDrift
  <1> QED
    BY <1>2, <1>3, OnlySendDelivers

-----------------------------------------------------------------------------
(* No check is forgotten.                                                  *)

Tracked(r, c) ==
    \/ api[c] = Absent
    \/ <<r, c>> \notin synced
    \/ c \in queue[r] \/ timer[r][c] # "none"
    \/ worker[r].key = c

(* A step that leaves the schedule of r and c alone keeps c tracked: a     *)
(* changed object is a watch event to come.                                *)
LEMMA TrackedAcrossObjects ==
    ASSUME TypeInv, NEW r \in Replicas, NEW c \in Checks, Tracked(r, c),
           \/ \E d \in Checks : \E object, holders : Replace(d, object, holders)
           \/ UNCHANGED objectVars,
           c \in queue[r] => c \in queue'[r] \/ timer'[r][c] # "none" \/ worker'[r].key = c,
           timer[r][c] # "none" => c \in queue'[r] \/ timer'[r][c] # "none",
           worker[r].key = c =>
              worker'[r].key = c \/ c \in queue'[r] \/ timer'[r][c] # "none"
    PROVE  Tracked(r, c)'
  <1>1. CASE UNCHANGED objectVars
    BY <1>1 DEF Tracked, objectVars
  <1>2. ASSUME NEW d \in Checks, NEW object, NEW holders, Replace(d, object, holders)
        PROVE  Tracked(r, c)'
    <2>1. CASE c = d
      BY <1>2, <2>1 DEF Tracked, Replace
    <2>2. CASE c # d
      <3>1. api'[c] = api[c] /\ synced' \subseteq synced
        BY <1>2, <2>2 DEF Replace, TypeInv, TypeOK
      <3> QED
        BY <3>1 DEF Tracked
    <2> QED
      BY <2>1, <2>2
  <1> QED
    BY <1>1, <1>2

LEMMA UserTracked ==
    ASSUME TypeInv, NEW r \in Replicas, NEW c \in Checks, Tracked(r, c),
           NEW d \in Checks, User(d) \/ WorldChanges(d)
    PROVE  Tracked(r, c)'
  <1>1. UNCHANGED <<queue, timer, worker>>
    BY DEF User, CreateCheck, EditSpec, DeleteCheck, WorldChanges
  <1>2. \/ \E e \in Checks : \E object, holders : Replace(e, object, holders)
        \/ UNCHANGED objectVars
    BY DEF User, CreateCheck, EditSpec, DeleteCheck, WorldChanges
  <1> QED
    BY <1>1, <1>2, TrackedAcrossObjects

LEMMA ManagerTracked ==
    ASSUME TypeInv, SyncedCopies, NEW r \in Replicas, NEW c \in Checks, Tracked(r, c),
           NEW q \in Replicas, NEW d \in Checks, Manager(q, d)
    PROVE  Tracked(r, c)'
  <1>1. CASE Deliver(q, d)
    <2>1. CASE q = r /\ d = c
      BY <1>1, <2>1 DEF Deliver, Tracked, TypeInv, TypeOK
    <2>2. CASE q # r \/ d # c
      <3>1. /\ <<r, c>> \in synced' => <<r, c>> \in synced
            /\ api' = api /\ worker' = worker
            /\ c \in queue[r] => c \in queue'[r]
            /\ timer'[r][c] = timer[r][c]
        BY <1>1, <2>2 DEF Deliver, TypeInv, TypeOK
      <3> QED
        BY <3>1 DEF Tracked
    <2> QED
      BY <2>1, <2>2
  <1>2. CASE TimerFires(q, d)
    <2>1. /\ c \in queue[r] => c \in queue'[r]
          /\ timer[r][c] # "none" => c \in queue'[r] \/ timer'[r][c] # "none"
          /\ UNCHANGED objectVars /\ worker' = worker
      BY <1>2 DEF TimerFires, TypeInv, TypeOK
    <2> QED
      BY <2>1, TrackedAcrossObjects
  <1>3. CASE ReconcileExisting(q, d)
    <2> DEFINE new == [Idle EXCEPT !.pc = "build", !.key = d, !.dc = cache[q][d]]
    <2>1. new.key = d
      BY IdleType DEF Workers
    <2>2. worker' = [worker EXCEPT ![q] = new]
      BY <1>3 DEF ReconcileExisting
    <2> HIDE DEF new
    <2>3. worker'[q].key = d /\ (r # q => worker'[r] = worker[r])
      BY <2>1, <2>2 DEF TypeInv, TypeOK
    <2>4. worker[q].key # c
      BY <1>3, AbsentIsNoObject DEF ReconcileExisting, Take, At, Idle, TypeInv, WorkerShape
    <2>5. /\ timer' = timer /\ UNCHANGED objectVars
          /\ c \in queue[r] => c \in queue'[r] \/ (q = r /\ d = c)
      BY <1>3 DEF ReconcileExisting, Take, TypeInv, TypeOK
    <2> QED
      BY <2>3, <2>4, <2>5, TrackedAcrossObjects
  <1>4. CASE ReconcileGone(q, d)
    <2>1. /\ timer' = timer /\ worker' = worker /\ UNCHANGED objectVars
          /\ c \in queue[r] => c \in queue'[r] \/ (q = r /\ d = c)
      BY <1>4 DEF ReconcileGone, Take, TypeInv, TypeOK
    <2>2. CASE q = r /\ d = c
      BY <1>4, <2>1, <2>2 DEF ReconcileGone, SyncedCopies, Tracked, objectVars
    <2>3. CASE ~(q = r /\ d = c)
      BY <2>1, <2>3 DEF Tracked, objectVars
    <2> QED
      BY <2>2, <2>3
  <1>5. CASE ReconcileUnread(q, d)
    <2>1. /\ worker' = worker /\ UNCHANGED objectVars
          /\ c \in queue[r] => c \in queue'[r] \/ timer'[r][c] # "none"
          /\ timer[r][c] # "none" => timer'[r][c] # "none"
      BY <1>5 DEF ReconcileUnread, Take, TypeInv, TypeOK
    <2> QED
      BY <2>1, TrackedAcrossObjects
  <1> QED
    BY <1>1, <1>2, <1>3, <1>4, <1>5 DEF Manager

LEMMA RestartTracked ==
    ASSUME TypeInv, NEW r \in Replicas, NEW c \in Checks, Tracked(r, c),
           NEW q \in Replicas, Restart(q)
    PROVE  Tracked(r, c)'
  <1>1. CASE q = r
    BY <1>1 DEF Restart, Tracked, TypeInv, TypeOK
  <1>2. CASE q # r
    <2>1. /\ <<r, c>> \in synced' => <<r, c>> \in synced
          /\ api' = api /\ worker'[r] = worker[r]
          /\ queue'[r] = queue[r] /\ timer'[r] = timer[r]
      BY <1>2 DEF Restart, TypeInv, TypeOK
    <2> QED
      BY <2>1 DEF Tracked
  <1> QED
    BY <1>1, <1>2

(* Every return of Reconcile leaves its name waiting, or ready. *)
LEMMA ReturnTracked ==
    ASSUME TypeInv, NEW r \in Replicas, NEW c \in Checks, Tracked(r, c),
           NEW q \in Replicas, worker[q].key \in Checks,
           NEW wait \in {"interval", "backoff"}, Return(q, worker[q].key, wait),
           UNCHANGED queue,
           \/ \E d \in Checks : \E object, holders : Replace(d, object, holders)
           \/ UNCHANGED objectVars
    PROVE  Tracked(r, c)'
  <1> DEFINE key == worker[q].key
  <1>1. /\ OthersWait(q)
        /\ key \in queue[q] \/ timer'[q][key] # "none"
        /\ q # r \/ key # c => timer'[r][c] = timer[r][c]
    BY ReturnEffect
  <1>2. CASE q = r /\ key = c
    BY <1>1, <1>2, TrackedAcrossObjects
  <1>3. CASE q # r
    BY <1>1, <1>3, TrackedAcrossObjects DEF OthersWait
  <1>4. CASE q = r /\ key # c
    BY <1>1, <1>4, TrackedAcrossObjects
  <1> QED
    BY <1>2, <1>3, <1>4

LEMMA WorkerTracked ==
    ASSUME TypeInv, NEW r \in Replicas, NEW c \in Checks, Tracked(r, c),
           NEW q \in Replicas, Worker(q)
    PROVE  Tracked(r, c)'
  <1>1. ASSUME worker[q].pc # "idle"
        PROVE  worker[q].key \in Checks
    BY <1>1 DEF TypeInv, WorkerShape, At
  <1>2. ASSUME OthersWait(q), worker'[q].key = worker[q].key, UNCHANGED <<queue, timer>>,
               \/ \E d \in Checks : \E object, holders : Replace(d, object, holders)
               \/ UNCHANGED objectVars
        PROVE  Tracked(r, c)'
    <2>1. worker'[r].key = worker[r].key
      BY <1>2 DEF OthersWait
    <2> QED
      BY <1>2, <2>1, TrackedAcrossObjects
  <1>3. CASE BuildSource(q) \/ Compare(q)
    BY <1>2, <1>3, BuildSourceEffect, CompareEffect DEF BuildSource, Compare, GoesOn
  <1>4. CASE SendWebhook(q)
    BY <1>2, <1>4, SendEffect DEF SendWebhook, UpdateFails, UpdateSucceeds
  <1>5. CASE NotifyComplete(q)
    BY <1>2, <1>5, CompleteEffect DEF NotifyComplete, GoesOn
  <1>6. CASE NotifyIncomplete(q)
    BY <1>1, <1>6, ReturnTracked DEF NotifyIncomplete, At
  <1>7. CASE RecordDrift(q)
    <2>1. UNCHANGED <<objectVars, queue>> /\ worker[q].pc = "record"
      BY <1>7 DEF RecordDrift, At
    <2>2. CASE Return(q, worker[q].key, "interval")
      BY <1>1, <2>1, <2>2, ReturnTracked
    <2>3. CASE UNCHANGED timer /\ ~Return(q, worker[q].key, "interval")
      <3>1. worker'[q].pc = "send" \/ worker'[q] = Idle
        BY <1>7, RecordEffect
      <3>2. worker'[q].key = worker[q].key
        <4> DEFINE new == [worker[q] EXCEPT !.pc = "send", !.todo = worker[q].dc.spec.webhooks]
        <4>1. worker' = [worker EXCEPT ![q].pc = "send",
                                       ![q].todo = worker[q].dc.spec.webhooks]
          BY <1>7, <2>3 DEF RecordDrift
        <4>2. worker'[q] = new
          BY <4>1 DEF TypeInv, TypeOK
        <4>3. new.key = worker[q].key
          BY DEF TypeInv, TypeOK, Workers
        <4> QED
          BY <4>2, <4>3
      <3> QED
        BY <1>2, <1>7, <2>1, <2>3, <3>2, RecordEffect
    <2> QED
      BY <1>7, <2>2, <2>3 DEF RecordDrift
  <1>8. CASE MarkFailed(q) \/ MarkTransient(q) \/ Publish(q) \/ PersistFingerprint(q)
    <2>1. UNCHANGED queue /\ worker[q].pc # "idle"
      BY <1>8 DEF MarkFailed, MarkTransient, Publish, PersistFingerprint, At
    <2>2. \/ \E d \in Checks : \E object, holders : Replace(d, object, holders)
          \/ UNCHANGED objectVars
      BY <1>1, <1>8, <2>1, WriteEffect, UpdateCases
    <2>3. CASE \E wait \in {"interval", "backoff"} : Return(q, worker[q].key, wait)
      BY <1>1, <2>1, <2>2, <2>3, ReturnTracked
    <2>4. CASE Publish(q) /\ UNCHANGED timer /\ Goto(q, "record")
      <3>1. OthersWait(q)
        BY <1>8, WriteEffect
      <3> DEFINE new == [worker[q] EXCEPT !.pc = "record"]
      <3>2. worker'[q] = new
        BY <2>4 DEF Goto, TypeInv, TypeOK
      <3>3. new.key = worker[q].key
        BY DEF TypeInv, TypeOK, Workers
      <3> HIDE DEF new
      <3> QED
        BY <1>2, <2>1, <2>2, <2>4, <3>1, <3>2, <3>3
    <2> QED
      BY <1>8, <2>3, <2>4 DEF MarkFailed, MarkTransient, Publish, PersistFingerprint
  <1> QED
    BY <1>3, <1>4, <1>5, <1>6, <1>7, <1>8 DEF Worker

LEMMA NoCheckForgottenKept ==
    ASSUME TypeInv, SyncedCopies, NoCheckForgotten, [Next]_vars
    PROVE  NoCheckForgotten'
  <1>1. ASSUME NEW r \in Replicas, NEW c \in Checks
        PROVE  Tracked(r, c)'
    <2>1. Tracked(r, c)
      BY DEF NoCheckForgotten, Tracked
    <2>2. CASE UNCHANGED vars
      BY <2>1, <2>2 DEF vars, Tracked
    <2> QED
      BY <2>1, <2>2, UserTracked, ManagerTracked, RestartTracked, WorkerTracked DEF Next
  <1> QED
    BY <1>1 DEF NoCheckForgotten, Tracked

-----------------------------------------------------------------------------
(* The inductive invariant.                                                *)

LEMMA InitIndInv == Init => IndInv
  <1> SUFFICES ASSUME Init PROVE IndInv
    OBVIOUS
  <1>1. TypeInv
    BY InitTypeInv
  <1>2. /\ \A c \in Checks : api[c] = Absent
        /\ \A r \in Replicas, c \in Checks : cache[r][c] = Absent
        /\ \A r \in Replicas : worker[r].pc = "idle"
        /\ fresh = {} /\ delivered = {}
    BY DEF Init, Idle
  <1>3. SyncedCopies /\ FreshWorkers /\ NoCheckForgotten /\ ResolvedOnlyAfterDrift
    BY <1>2 DEF SyncedCopies, FreshWorkers, NoCheckForgotten, ResolvedOnlyAfterDrift
  <1>4. StampedStatus /\ CountedStatus /\ SendProgress
    BY <1>2 DEF StampedStatus, CountedStatus, SendProgress, At
  <1>5. FingerprintMeansTold
    BY <1>2 DEF FingerprintMeansTold, Fingerprinted, At
  <1> QED
    BY <1>1, <1>3, <1>4, <1>5 DEF IndInv, TypeInv

LEMMA NextIndInv == IndInv /\ [Next]_vars => IndInv'
  <1> SUFFICES ASSUME IndInv, [Next]_vars PROVE IndInv'
    OBVIOUS
  <1>1. TypeInv
    BY DEF IndInv, TypeInv
  <1>2. TypeOK' /\ WorkerShape'
    BY <1>1, NextTypeInv DEF TypeInv
  <1>3. SyncedCopies' /\ FreshWorkers'
    BY <1>1, SyncedCopiesKept, FreshWorkersKept DEF IndInv
  <1>4. StampedStatus' /\ CountedStatus'
    BY <1>1, StampedCountedKept DEF IndInv
  <1>5. SendProgress'
    BY <1>1, SendProgressKept DEF IndInv
  <1>6. FingerprintMeansTold'
    <2>1. \A c \in Checks : Fingerprinted(api'[c]) => ToldOfDrift(c)'
      BY <1>1, StoredFingerprintTold DEF IndInv
    <2>2. \A r \in Replicas, c \in Checks : Fingerprinted(cache'[r][c]) => ToldOfDrift(c)'
      BY <1>1, CachedFingerprintTold DEF IndInv
    <2>3. \A r \in Replicas : HeldTold(r)'
      BY <1>1, HeldFingerprintTold DEF IndInv
    <2> QED
      BY <2>1, <2>2, <2>3 DEF FingerprintMeansTold, Fingerprinted, HeldTold, At
  <1>7. NoCheckForgotten' /\ ResolvedOnlyAfterDrift'
    BY <1>1, NoCheckForgottenKept, ResolvedAfterDriftKept DEF IndInv
  <1> QED
    BY <1>2, <1>3, <1>4, <1>5, <1>6, <1>7 DEF IndInv

(* The conjuncts of IndInv hold in every reachable state: what workers,    *)
(* caches and stored objects say of one another never goes wrong.          *)
THEOREM Inductive == Spec => []IndInv
  <1> QED
    BY InitIndInv, NextIndInv, PTL DEF Spec

(* Whatever path a reconcile returns by, and whoever edits, fails or       *)
(* restarts meanwhile, an object that exists stays scheduled everywhere.   *)
THEOREM NothingForgotten == Spec => []NoCheckForgotten
  <1>1. IndInv => NoCheckForgotten
    BY DEF IndInv
  <1> QED
    BY <1>1, Inductive, PTL

(* A webhook is told "resolved" only about drift that was announced: the   *)
(* empty fingerprint of buildEvent's caller stands for silence so far.     *)
THEOREM ResolvedAnswersDrift == Spec => []ResolvedOnlyAfterDrift
  <1>1. IndInv => ResolvedOnlyAfterDrift
    BY DEF IndInv
  <1> QED
    BY <1>1, Inductive, PTL

-----------------------------------------------------------------------------
(* Status writes.                                                          *)

(* Only a write the API server accepts changes the status of an object     *)
(* that stays: its writer's copy was current.                              *)
LEMMA StatusWriters ==
    ASSUME TypeInv, [Next]_vars, NEW c \in Checks,
           SameObject(c), api'[c].status # api[c].status
    PROVE  \E r \in Replicas :
              /\ r \in fresh /\ worker[r].key = c
              /\ worker[r].pc \in {"fail", "transient", "publish", "persist"}
              /\ api'[c].generation = api[c].generation /\ api'[c].spec = api[c].spec
              /\ api'[c].status = worker[r].dc.status
  <1>1. api[c] \in Objects /\ api[c] # Absent /\ api'[c] # Absent
    BY DEF TypeInv, TypeOK, SameObject
  <1>2. api'[c] # api[c]
    OBVIOUS
  <1>3. ASSUME NEW d \in Checks, User(d)
        PROVE  FALSE
    <2>1. CASE CreateCheck(d)
      BY <1>1, <1>2, <2>1 DEF CreateCheck, Replace, TypeInv, TypeOK
    <2>2. CASE EditSpec(d)
      <3>1. PICK s \in Specs :
               Replace(d, [api[d] EXCEPT !.generation = @ + 1, !.spec = s], {})
        BY <2>2 DEF EditSpec
      <3>2. d = c /\ api'[c] = [api[c] EXCEPT !.generation = @ + 1, !.spec = s]
        BY <1>2, <3>1 DEF Replace, TypeInv, TypeOK
      <3> QED
        BY <1>1, <3>2 DEF Objects
    <2>3. CASE DeleteCheck(d)
      BY <1>1, <1>2, <2>3 DEF DeleteCheck, Replace, TypeInv, TypeOK
    <2> QED
      BY <1>3, <2>1, <2>2, <2>3 DEF User
  <1>4. ASSUME NEW r \in Replicas,
               MarkFailed(r) \/ MarkTransient(r) \/ Publish(r) \/ PersistFingerprint(r)
        PROVE  /\ r \in fresh /\ worker[r].key = c
               /\ worker[r].pc \in {"fail", "transient", "publish", "persist"}
               /\ api'[c].generation = api[c].generation /\ api'[c].spec = api[c].spec
               /\ api'[c].status = worker[r].dc.status
    <2> DEFINE key == worker[r].key
               object == [api[key] EXCEPT !.status = worker[r].dc.status]
    <2>1. /\ worker[r].pc \in {"fail", "transient", "publish", "persist"}
          /\ key \in Checks /\ worker[r].dc \in Objects
      BY <1>4
      DEF MarkFailed, MarkTransient, Publish, PersistFingerprint, At, TypeInv, WorkerShape
    <2>2. \/ Accepted(r) /\ Replace(key, object, {})
          \/ Accepted(r) /\ Replace(key, object, {r})
      BY <1>2, <1>4, WriteEffect, UpdateCases DEF objectVars
    <2>3. key = c /\ api'[c] = object
      <3> HIDE DEF object
      <3> QED
        BY <1>2, <2>1, <2>2 DEF Replace, TypeInv, TypeOK
    <2>4. r \in fresh
      BY <2>2 DEF Accepted
    <2> QED
      BY <1>1, <2>1, <2>3, <2>4, WrittenObject
  <1> QED
    BY <1>2, <1>3, <1>4, ApiWriters DEF Writes

LEMMA WriteSpeaksOfCurrentSpec ==
    ASSUME IndInv, [Next]_vars, NEW c \in Checks,
           SameObject(c), api'[c].status # api[c].status
    PROVE  api'[c].status.ready.observedGeneration = api'[c].generation
  <1>1. PICK r \in Replicas :
           /\ r \in fresh /\ worker[r].key = c
           /\ worker[r].pc \in {"fail", "transient", "publish", "persist"}
           /\ api'[c].generation = api[c].generation /\ api'[c].spec = api[c].spec
           /\ api'[c].status = worker[r].dc.status
    BY StatusWriters DEF IndInv, TypeInv
  <1>2. worker[r].dc.status.ready.observedGeneration = worker[r].dc.generation
    BY <1>1 DEF IndInv, StampedStatus
  <1>3. api[c].generation = worker[r].dc.generation
    BY <1>1 DEF IndInv, FreshWorkers
  <1> QED
    BY <1>1, <1>2, <1>3

LEMMA FingerprintWriteEarned ==
    ASSUME IndInv, [Next]_vars, NEW c \in Checks,
           SameObject(c), api'[c].status.lastNotifiedHash # api[c].status.lastNotifiedHash
    PROVE  /\ api'[c].status.lastNotifiedHash = DriftHash(api'[c].status.drifted)
           /\ \A w \in WebhooksOf(api'[c]) :
                 <<c, w, MessageFor(api'[c].status.drifted)>> \in delivered'
  <1>1. PICK r \in Replicas :
           /\ r \in fresh /\ worker[r].key = c
           /\ worker[r].pc \in {"fail", "transient", "publish", "persist"}
           /\ api'[c].generation = api[c].generation /\ api'[c].spec = api[c].spec
           /\ api'[c].status = worker[r].dc.status
    BY StatusWriters DEF IndInv, TypeInv
  <1>2. /\ api[c].spec = worker[r].dc.spec
        /\ worker[r].pc # "persist" =>
              api[c].status.lastNotifiedHash = worker[r].dc.status.lastNotifiedHash
    BY <1>1 DEF IndInv, FreshWorkers, At
  <1>3. worker[r].pc = "persist"
    BY <1>1, <1>2
  <1>4. worker[r].dc.status.lastNotifiedHash = DriftHash(worker[r].dc.status.drifted) /\ Heard(r)
    BY <1>3, SendProgressDef DEF IndInv
  <1>5. WebhooksOf(api'[c]) = WebhooksOf(worker[r].dc)
    BY <1>1, <1>2 DEF WebhooksOf
  <1> QED
    BY <1>1, <1>4, <1>5, DeliveredGrows DEF Heard

(* Every status write the API server takes, of an evaluation or a failure, *)
(* speaks of the generation of the spec it is stored beside.               *)
THEOREM StatusIsCurrent == Spec => StatusDescribesCurrentSpec
  <1>1. IndInv /\ [Next]_vars =>
           [\A c \in Checks :
               SameObject(c) /\ api'[c].status # api[c].status
                  => api'[c].status.ready.observedGeneration = api'[c].generation]_vars
    BY WriteSpeaksOfCurrentSpec
  <1> QED
    BY <1>1, Inductive, PTL DEF Spec, StatusDescribesCurrentSpec

(* lastNotifiedHash is only ever set to the fingerprint of drift that      *)
(* every webhook of the stored spec has received.                          *)
THEOREM FingerprintsAreEarned == Spec => FingerprintEarned
  <1>1. IndInv /\ [Next]_vars =>
           [\A c \in Checks :
               SameObject(c)
                 /\ api'[c].status.lastNotifiedHash # api[c].status.lastNotifiedHash
                  => LET status == api'[c].status IN
                     /\ status.lastNotifiedHash = DriftHash(status.drifted)
                     /\ \A w \in WebhooksOf(api'[c]) :
                           <<c, w, MessageFor(status.drifted)>> \in delivered']_vars
    BY FingerprintWriteEarned
  <1> QED
    BY <1>1, Inductive, PTL DEF Spec, FingerprintEarned

-----------------------------------------------------------------------------
(* One process, undisturbed.                                               *)

(* No two processes run, and no spec lists a webhook twice: what NoRepeat  *)
(* says of a sweep over a list with a repetition is false by its shape.    *)
HooksListedOnce ==
    \A s \in Specs : \A i, j \in DOMAIN s.webhooks : s.webhooks[i] = s.webhooks[j] => i = j

(* Every bound is used up by a step of its own. *)
LEMMA StepSpends ==
    ASSUME [Next]_vars
    PROVE  \/ Fault \/ Change \/ UNCHANGED spent
           \/ \E c \in Checks : User(c) /\ Edit
  <1>1. ASSUME NEW c \in Checks, User(c) PROVE Edit
    BY <1>1 DEF User, CreateCheck, EditSpec, DeleteCheck
  <1>2. ASSUME NEW c \in Checks, WorldChanges(c) PROVE Change
    BY <1>2 DEF WorldChanges
  <1>3. ASSUME NEW r \in Replicas, NEW c \in Checks, Manager(r, c)
        PROVE  Fault \/ UNCHANGED spent
    BY <1>3 DEF Manager, Deliver, TimerFires, ReconcileGone, ReconcileUnread, ReconcileExisting
  <1>4. ASSUME NEW r \in Replicas, Restart(r) PROVE Fault
    BY <1>4 DEF Restart
  <1>5. ASSUME NEW r \in Replicas, Worker(r) PROVE Fault \/ UNCHANGED spent
    <2>1. CASE BuildSource(r) \/ Compare(r)
      BY <2>1 DEF BuildSource, Compare
    <2>2. CASE Writes(r)
      BY <2>2 DEF Writes, MarkFailed, MarkTransient, Publish, PersistFingerprint,
                  UpdateSucceeds, UpdateFails
    <2>3. CASE RecordDrift(r) \/ SendWebhook(r) \/ NotifyIncomplete(r) \/ NotifyComplete(r)
      BY <2>3 DEF RecordDrift, SendWebhook, NotifyIncomplete, NotifyComplete
    <2> QED
      BY <1>5, <2>1, <2>2, <2>3 DEF Worker, Writes
  <1>6. CASE UNCHANGED vars
    BY <1>6 DEF vars
  <1> QED
    BY <1>1, <1>2, <1>3, <1>4, <1>5, <1>6 DEF Next

LEMMA QuietBefore ==
    ASSUME TypeOK, [Next]_vars, SoFarQuiet'
    PROVE  /\ SoFarQuiet /\ ~Fault
           /\ Edit => spent.edits = 0
           /\ spent'.edits = spent.edits \/ \E c \in Checks : User(c) /\ Edit
  <1>1. spent \in [edits : 0..MaxEdits, changes : 0..MaxChanges, faults : 0..MaxFaults]
    BY DEF TypeOK
  <1>2. /\ spent.edits \in Nat /\ spent.faults \in Nat
    BY <1>1, BoundsAreNat
  <1>3. ASSUME Fault PROVE FALSE
    <2>1. spent'.faults = spent.faults + 1
      BY <1>1, <1>3 DEF Fault
    <2> QED
      BY <1>2, <2>1 DEF SoFarQuiet
  <1>4. ASSUME Edit PROVE spent'.edits = spent.edits + 1 /\ spent'.faults = spent.faults
    BY <1>1, <1>4 DEF Edit
  <1>5. ASSUME Change PROVE spent'.edits = spent.edits /\ spent'.faults = spent.faults
    BY <1>1, <1>5 DEF Change
  <1> QED
    BY <1>2, <1>3, <1>4, <1>5, StepSpends DEF SoFarQuiet

(* The step leaves the object under c as webhooks know it. *)
KeepsWord(c) ==
    IF api[c] = Absent THEN api'[c] = Absent
    ELSE /\ api'[c] # Absent
         /\ api'[c].spec = api[c].spec
         /\ api'[c].status.lastNotifiedHash = api[c].status.lastNotifiedHash

LEMMA HeardLastKept ==
    ASSUME NEW r, Replicas = {r}, HeardLast, UNCHANGED received,
           \A c \in Checks : KeepsWord(c),
           \A c \in Checks, w \in Webhooks :
              api[c] # Absent /\ w \in WebhooksOf(api[c]) =>
                 /\ BeenAt(r, c, w)' <=> BeenAt(r, c, w)
                 /\ BeenAt(r, c, w) => MessageOf(worker'[r].dc) = MessageOf(worker[r].dc)
    PROVE  HeardLast'
  <1>1. ASSUME NEW c \in Checks, NEW w \in Webhooks
        PROVE  IF api'[c] = Absent THEN received'[c][w] = Absent
               ELSE w \in WebhooksOf(api'[c]) =>
                       IF BeenAt(r, c, w)' THEN received'[c][w] = MessageOf(worker'[r].dc)
                       ELSE Acknowledged(api'[c].status.lastNotifiedHash, received'[c][w])
    <2>1. CASE api[c] = Absent
      BY <2>1 DEF KeepsWord, HeardLast
    <2>2. CASE api[c] # Absent
      <3>1. /\ api'[c] # Absent /\ WebhooksOf(api'[c]) = WebhooksOf(api[c])
            /\ api'[c].status.lastNotifiedHash = api[c].status.lastNotifiedHash
        BY <2>2 DEF KeepsWord, WebhooksOf
      <3>2. w \in WebhooksOf(api[c]) =>
               IF BeenAt(r, c, w) THEN received[c][w] = MessageOf(worker[r].dc)
               ELSE Acknowledged(api[c].status.lastNotifiedHash, received[c][w])
        BY <2>2 DEF HeardLast
      <3>3. CASE w \in WebhooksOf(api[c]) /\ BeenAt(r, c, w)
        BY <2>2, <3>1, <3>2, <3>3
      <3>4. CASE w \in WebhooksOf(api[c]) /\ ~BeenAt(r, c, w)
        BY <2>2, <3>1, <3>2, <3>4
      <3> QED
        BY <3>1, <3>3, <3>4
    <2> QED
      BY <2>1, <2>2
  <1> QED
    BY <1>1 DEF HeardLast

QuietParts == OneSpec /\ LoopUndisturbed /\ HeardLast

(* The check is created: nobody has it in hand yet. *)
LEMMA CreateQuiet ==
    ASSUME NEW r, Replicas = {r}, TypeInv, QuietParts, spent.edits = 0,
           NEW c \in Checks, User(c), spent'.edits # 0
    PROVE  QuietParts'
  <1>1. \A d \in Checks : /\ api[d] = Absent
                          /\ cache[r][d] = Absent
                          /\ \A w \in Webhooks : received[d][w] = Absent
    BY DEF QuietParts, OneSpec, HeardLast
  <1>2. worker[r] = Idle /\ worker[r].pc = "idle"
    BY <1>1 DEF QuietParts, OneSpec, TypeInv, WorkerShape, At
  <1>3. CreateCheck(c)
    BY <1>1 DEF User, EditSpec, DeleteCheck
  <1>4. UNCHANGED <<cache, worker, received>>
    BY <1>3 DEF CreateCheck, hookVars
  <1>5. PICK s \in Specs :
           Replace(c, [generation |-> 1, spec |-> s, status |-> NewStatus], {})
    BY <1>3 DEF CreateCheck
  <1>6. \A d \in Checks : api'[d] # Absent => api'[d].status.lastNotifiedHash = NeverNotified
    <2> DEFINE new == [generation |-> 1, spec |-> s, status |-> NewStatus]
    <2>1. api'[c] = new /\ \A d \in Checks \ {c} : api'[d] = Absent
      BY <1>1, <1>5 DEF Replace, TypeInv, TypeOK
    <2>2. new.status.lastNotifiedHash = NeverNotified
      BY DEF NewStatus
    <2> HIDE DEF new
    <2> QED
      BY <2>1, <2>2
  <1>7. OneSpec'
    BY <1>1, <1>2, <1>4 DEF OneSpec, At
  <1>8. LoopUndisturbed'
    BY <1>2, <1>4 DEF QuietParts, LoopUndisturbed, At
  <1>9. HeardLast'
    BY <1>1, <1>2, <1>4, <1>6 DEF HeardLast, BeenAt, Acknowledged
  <1> QED
    BY <1>7, <1>8, <1>9 DEF QuietParts

(* A loop is undisturbed as long as the workers are as they were. *)
LEMMA SameWorkers ==
    ASSUME worker' = worker, fresh' = fresh, LoopUndisturbed
    PROVE  LoopUndisturbed'
  <1>1. ASSUME NEW r PROVE At(r, "send")' = At(r, "send") /\ StillToTell(r)' = StillToTell(r)
    BY DEF At, StillToTell
  <1> QED
    BY <1>1 DEF LoopUndisturbed

(* The manager, the world and the clock do not touch what is in hand. *)
LEMMA RestQuiet ==
    ASSUME NEW r, Replicas = {r}, TypeInv, QuietParts,
           UNCHANGED <<api, worker, received, fresh>>, spent'.edits = spent.edits,
           \A d \in Checks : cache'[r][d] = cache[r][d] \/ cache'[r][d] = api[d]
    PROVE  QuietParts'
  <1>1. OneSpec'
    BY DEF QuietParts, OneSpec, At
  <1>2. LoopUndisturbed'
    BY SameWorkers DEF QuietParts
  <1>3. HeardLast'
    BY DEF QuietParts, HeardLast, BeenAt, StillToTell, MessageOf
  <1> QED
    BY <1>1, <1>2, <1>3 DEF QuietParts

(* What the reconcile has in hand after a step outside of its send loop, or *)
(* into it.                                                                 *)
GoodHand(r) ==
    LET new == worker'[r] IN
    \/ new = Idle /\ new.pc = "idle"
    \/ /\ new.key \in Checks /\ api[new.key] # Absent
       /\ new.dc.spec = api[new.key].spec /\ new.dc.spec \in Specs
       /\ ~new.failed
       /\ \/ new.pc \in {"build", "compare", "fail", "transient", "publish"} /\ new.todo = <<>>
          \/ new.pc = "record" /\ new.todo = <<>> /\ r \in fresh'
          \/ new.pc = "send" /\ new.todo = new.dc.spec.webhooks /\ r \in fresh'

LEMMA MoveQuiet ==
    ASSUME NEW r, Replicas = {r}, HooksListedOnce, TypeInv, QuietParts,
           UNCHANGED <<cache, received>>, spent'.edits = spent.edits,
           \A c \in Checks : KeepsWord(c),
           worker[r].pc \notin {"send", "persist"}, GoodHand(r)
    PROVE  QuietParts'
  <1>1. OneSpec'
    <2>1. spent'.edits = 0 => \A c \in Checks : api'[c] = Absent
      BY DEF QuietParts, OneSpec, KeepsWord
    <2>2. \A c \in Checks :
             cache'[r][c] # Absent => api'[c] # Absent /\ cache'[r][c].spec = api'[c].spec
      BY DEF QuietParts, OneSpec, KeepsWord
    <2>3. worker'[r].pc # "idle" =>
             LET key == worker'[r].key IN
             api'[key] # Absent /\ worker'[r].dc.spec = api'[key].spec
      BY DEF GoodHand, KeepsWord
    <2> QED
      BY <2>1, <2>2, <2>3 DEF OneSpec, At
  <1>2. LoopUndisturbed'
    <2>1. Idle.todo = <<>> /\ ~Idle.failed
      BY DEF Idle
    <2>2. worker'[r].pc = "send" =>
             \A i, j \in DOMAIN worker'[r].todo :
                worker'[r].todo[i] = worker'[r].todo[j] => i = j
      BY DEF GoodHand, HooksListedOnce
    <2>3. /\ worker'[r].pc \in {"record", "send", "persist"} => r \in fresh'
          /\ ~worker'[r].failed
          /\ worker'[r].todo # <<>> => worker'[r].pc = "send"
      BY <2>1 DEF GoodHand
    <2>4. worker'[r].todo # <<>> => worker'[r].todo = worker'[r].dc.spec.webhooks
      BY <2>1 DEF GoodHand
    <2>5. worker'[r].todo # <<>> => StillToTell(r)' \subseteq WebhooksOf(worker'[r].dc)
      BY <2>4 DEF StillToTell, WebhooksOf
    <2> QED
      BY <2>2, <2>3, <2>5 DEF LoopUndisturbed, At
  <1>3. HeardLast'
    <2>1. ASSUME NEW c \in Checks, NEW w \in Webhooks,
                 api[c] # Absent, w \in WebhooksOf(api[c])
          PROVE  ~BeenAt(r, c, w) /\ ~BeenAt(r, c, w)'
      <3>1. ~BeenAt(r, c, w)
        BY DEF BeenAt
      <3>2. ASSUME worker'[r].key = c, worker'[r].pc \in {"send", "persist"}
            PROVE  w \in StillToTell(r)'
        <4>1. worker'[r].todo = api[c].spec.webhooks
          BY <3>2 DEF GoodHand
        <4> QED
          BY <2>1, <4>1 DEF StillToTell, WebhooksOf
      <3> QED
        BY <3>1, <3>2 DEF BeenAt
    <2> QED
      BY <2>1, HeardLastKept DEF QuietParts
  <1> QED
    BY <1>1, <1>2, <1>3 DEF QuietParts

(* A webhook is told. *)
LEMMA SendQuiet ==
    ASSUME NEW r, Replicas = {r}, TypeInv, QuietParts, SendWebhook(r), ~Fault
    PROVE  QuietParts'
  <1> DEFINE todo == worker[r].todo
             key == worker[r].key
             dc == worker[r].dc
  <1>1. /\ worker[r].pc = "send" /\ todo # <<>> /\ todo \in Seq(Webhooks)
        /\ key \in Checks /\ dc \in Objects /\ ~worker[r].failed
    BY DEF SendWebhook, At, TypeInv, TypeOK, WorkerShape, Workers, QuietParts, LoopUndisturbed
  <1>2. /\ Arrives(key, Head(todo), MessageOf(dc)) /\ UNCHANGED <<api, cache, fresh, spent>>
        /\ worker' = [worker EXCEPT ![r].todo = Tail(@)]
    BY DEF SendWebhook, objectVars
  <1>3. /\ worker'[r].pc = "send" /\ worker'[r].key = key /\ worker'[r].dc = dc
        /\ worker'[r].todo = Tail(todo)
    BY SendEffect
  <1>4. ~worker'[r].failed
    <2> DEFINE new == [worker[r] EXCEPT !.todo = Tail(worker[r].todo)]
    <2>1. worker'[r] = new
      BY <1>2 DEF TypeInv, TypeOK
    <2>2. new.failed = worker[r].failed
      BY DEF TypeInv, TypeOK, Workers
    <2> QED
      BY <1>1, <2>1, <2>2
  <1>5. received' = [received EXCEPT ![key][Head(todo)] = MessageOf(dc)]
    BY <1>2 DEF Arrives
  <1>6. \A i, j \in DOMAIN todo : todo[i] = todo[j] => i = j
    BY DEF QuietParts, LoopUndisturbed
  <1> HIDE DEF todo
  <1>7. /\ \A i \in DOMAIN Tail(todo) : i + 1 \in DOMAIN todo /\ Tail(todo)[i] = todo[i + 1]
        /\ 1 \in DOMAIN todo /\ todo[1] = Head(todo)
    BY <1>1
  <1>8. /\ \A i, j \in DOMAIN Tail(todo) : Tail(todo)[i] = Tail(todo)[j] => i = j
        /\ Head(todo) \in StillToTell(r)
        /\ Head(todo) \notin StillToTell(r)'
        /\ \A w : w # Head(todo) => (w \in StillToTell(r)' <=> w \in StillToTell(r))
    <2>1. \A i, j \in DOMAIN Tail(todo) : Tail(todo)[i] = Tail(todo)[j] => i = j
      <3>1. DOMAIN Tail(todo) \subseteq Nat
        BY <1>1
      <3> QED
        BY <1>6, <1>7, <3>1
    <2>2. Head(todo) \in StillToTell(r)
      BY <1>7 DEF StillToTell, todo
    <2>3. StillToTell(r)' = {Tail(todo)[i] : i \in DOMAIN Tail(todo)}
      BY <1>3 DEF StillToTell
    <2>4. Head(todo) \notin StillToTell(r)'
      <3>1. \A i \in DOMAIN Tail(todo) : i + 1 # 1
        BY <1>1
      <3> QED
        BY <1>6, <1>7, <2>3, <3>1
    <2>5. ASSUME NEW w, w # Head(todo)
          PROVE  w \in StillToTell(r)' <=> w \in StillToTell(r)
      <3>1. ASSUME w \in StillToTell(r) PROVE w \in StillToTell(r)'
        <4>1. PICK i \in DOMAIN todo : todo[i] = w
          BY <3>1 DEF StillToTell, todo
        <4> QED
          BY <1>1, <2>3, <2>5, <4>1, HeadOrTail
      <3>2. ASSUME w \in StillToTell(r)' PROVE w \in StillToTell(r)
        <4>1. PICK i \in DOMAIN Tail(todo) : Tail(todo)[i] = w
          BY <2>3, <3>2
        <4>2. i + 1 \in DOMAIN todo /\ todo[i + 1] = w
          BY <1>7, <4>1
        <4> QED
          BY <4>2 DEF StillToTell, todo
      <3> QED
        BY <3>1, <3>2
    <2> QED
      BY <2>1, <2>2, <2>4, <2>5
  <1>9. OneSpec'
    BY <1>1, <1>2, <1>3 DEF QuietParts, OneSpec, At
  <1>10. LoopUndisturbed'
    <2>1. r \in fresh'
      BY <1>1, <1>2 DEF QuietParts, LoopUndisturbed
    <2>2. StillToTell(r) \subseteq WebhooksOf(dc)
      BY <1>1 DEF QuietParts, LoopUndisturbed, todo
    <2>3. StillToTell(r)' \subseteq WebhooksOf(worker'[r].dc)
      BY <1>3, <1>8, <2>2
    <2> QED
      BY <1>3, <1>4, <1>8, <2>1, <2>3 DEF LoopUndisturbed, At
  <1>11. HeardLast'
    <2>1. ASSUME NEW c \in Checks, NEW w \in Webhooks
          PROVE  IF api'[c] = Absent THEN received'[c][w] = Absent
                 ELSE w \in WebhooksOf(api'[c]) =>
                         IF BeenAt(r, c, w)' THEN received'[c][w] = MessageOf(worker'[r].dc)
                         ELSE Acknowledged(api'[c].status.lastNotifiedHash, received'[c][w])
      <3>1. IF api[c] = Absent THEN received[c][w] = Absent
            ELSE w \in WebhooksOf(api[c]) =>
                    IF BeenAt(r, c, w) THEN received[c][w] = MessageOf(dc)
                    ELSE Acknowledged(api[c].status.lastNotifiedHash, received[c][w])
        BY DEF QuietParts, HeardLast
      <3>2. CASE c = key /\ w = Head(todo)
        <4>1. received'[c][w] = MessageOf(dc)
          BY <1>5, <3>2 DEF TypeInv, TypeOK
        <4>2. BeenAt(r, c, w)'
          BY <1>3, <1>8, <3>2 DEF BeenAt
        <4>3. api[key] # Absent
          BY <1>1 DEF QuietParts, OneSpec, At
        <4> QED
          BY <1>2, <1>3, <3>2, <4>1, <4>2, <4>3
      <3>3. CASE ~(c = key /\ w = Head(todo))
        <4>1. received'[c][w] = received[c][w]
          BY <1>5, <3>3 DEF TypeInv, TypeOK
        <4>2. BeenAt(r, c, w)' <=> BeenAt(r, c, w)
          BY <1>1, <1>3, <1>8, <3>3 DEF BeenAt
        <4> QED
          BY <1>2, <1>3, <3>1, <4>1, <4>2
      <3> QED
        BY <3>2, <3>3
    <2> QED
      BY <2>1 DEF HeardLast
  <1> QED
    BY <1>9, <1>10, <1>11 DEF QuietParts

(* Every webhook was told: the fingerprint is due. *)
LEMMA CompleteQuiet ==
    ASSUME NEW r, Replicas = {r}, TypeInv, QuietParts, NotifyComplete(r)
    PROVE  QuietParts'
  <1>1. /\ worker[r].pc = "send" /\ worker[r].todo = <<>>
        /\ worker[r].key \in Checks /\ worker[r].dc \in Objects
        /\ UNCHANGED <<api, cache, fresh, spent, received>>
    BY DEF NotifyComplete, At, TypeInv, WorkerShape, objectVars, hookVars
  <1>2. /\ worker'[r].pc = "persist" /\ worker'[r].key = worker[r].key
        /\ worker'[r].dc.spec = worker[r].dc.spec /\ KeepsLoop(r)
        /\ worker'[r].dc.status.drifted = worker[r].dc.status.drifted
        /\ worker'[r].dc.status.summary = worker[r].dc.status.summary
    BY CompleteEffect, CompleteKeeps DEF GoesOn
  <1>3. MessageOf(worker'[r].dc) = MessageOf(worker[r].dc)
    BY <1>2 DEF MessageOf
  <1>4. OneSpec'
    BY <1>1, <1>2 DEF QuietParts, OneSpec, At
  <1>5. LoopUndisturbed'
    BY <1>1, <1>2 DEF QuietParts, LoopUndisturbed, KeepsLoop, At
  <1>6. HeardLast'
    <2>1. \A c \in Checks : KeepsWord(c)
      BY <1>1 DEF KeepsWord
    <2>2. ASSUME NEW c \in Checks, NEW w \in Webhooks
          PROVE  BeenAt(r, c, w)' <=> BeenAt(r, c, w)
      BY <1>1, <1>2 DEF BeenAt, StillToTell, KeepsLoop
    <2> QED
      BY <1>1, <1>3, <2>1, <2>2, HeardLastKept DEF QuietParts
  <1> QED
    BY <1>4, <1>5, <1>6 DEF QuietParts

(* What a message lists is the drift it is about, if summary and list fit. *)
LEMMA MessageLists ==
    ASSUME NEW dc \in Objects, Counted(dc.status)
    PROVE  MessageOf(dc).drifted = dc.status.drifted /\ MessageOf(dc) # Absent
  <1>1. MessageOf(dc).drifted = dc.status.drifted
    BY DEF MessageOf, BuildEvent, Counted
  <1>2. MessageOf(dc) # Absent
    BY MessageType, AbsentIsNoObject
  <1> QED
    BY <1>1, <1>2

(* The process is alone, and nothing fails: its fingerprint is stored. *)
LEMMA PersistQuiet ==
    ASSUME NEW r, Replicas = {r}, IndInv, QuietParts, PersistFingerprint(r), ~Fault,
           spent'.edits = spent.edits
    PROVE  QuietParts'
  <1> DEFINE c == worker[r].key
             dc == worker[r].dc
             object == [api[c] EXCEPT !.status = dc.status]
  <1>1. /\ worker[r].pc = "persist" /\ c \in Checks /\ dc \in Objects
        /\ worker[r].todo = <<>> /\ r \in fresh /\ api[c] # Absent
        /\ UNCHANGED <<cache, received>>
    BY DEF PersistFingerprint, At, IndInv, TypeInv, WorkerShape, QuietParts, OneSpec,
           LoopUndisturbed, hookVars
  <1>2. api[c] \in Objects /\ TypeInv
    BY <1>1 DEF IndInv, TypeInv, TypeOK
  <1>3. worker'[r] = Idle /\ worker'[r].pc = "idle"
    BY <1>1, <1>2, WriteEffect
  <1>4. ~UpdateFails(r)
    BY <1>1 DEF UpdateFails, Accepted
  <1>5. \/ Replace(c, object, {})
        \/ object = api[c] /\ UNCHANGED objectVars
    BY <1>4 DEF PersistFingerprint, UpdateSucceeds, Store
  <1>6. /\ object.spec = api[c].spec /\ object.status = dc.status /\ object # Absent
    BY <1>1, <1>2, WrittenObject
  <1>7. dc.status.lastNotifiedHash = DriftHash(dc.status.drifted) /\ Counted(dc.status)
    BY <1>1, SendProgressDef DEF IndInv, CountedStatus, Counted
  <1>8. api'[c] = object /\ \A d \in Checks \ {c} : api'[d] = api[d]
    <2> HIDE DEF object
    <2> QED
      BY <1>1, <1>2, <1>5 DEF Replace, TypeInv, TypeOK, objectVars
  <1> HIDE DEF object
  <1>9. OneSpec'
    BY <1>1, <1>3, <1>6, <1>8 DEF QuietParts, OneSpec, At
  <1>10. LoopUndisturbed'
    BY <1>3 DEF LoopUndisturbed, At, Idle
  <1>11. HeardLast'
    <2>1. ASSUME NEW w \in Webhooks, w \in WebhooksOf(api[c])
          PROVE  Acknowledged(api'[c].status.lastNotifiedHash, received'[c][w])
      <3>1. BeenAt(r, c, w)
        BY <1>1 DEF BeenAt, StillToTell
      <3>2. received[c][w] = MessageOf(dc)
        BY <1>1, <2>1, <3>1 DEF QuietParts, HeardLast
      <3>3. MessageOf(dc).drifted = dc.status.drifted /\ MessageOf(dc) # Absent
        BY <1>1, <1>7, MessageLists
      <3> QED
        BY <1>1, <1>6, <1>7, <1>8, <3>2, <3>3 DEF Acknowledged, DriftHash, NeverNotified
    <2>2. WebhooksOf(api'[c]) = WebhooksOf(api[c])
      BY <1>6, <1>8 DEF WebhooksOf
    <2>3. ASSUME NEW d \in Checks, d # c, NEW w \in Webhooks
          PROVE  ~BeenAt(r, d, w)
      BY <2>3 DEF BeenAt
    <2>4. ASSUME NEW d \in Checks, NEW w \in Webhooks
          PROVE  ~BeenAt(r, d, w)'
      BY <1>3 DEF BeenAt
    <2>5. ASSUME NEW d \in Checks, NEW w \in Webhooks
          PROVE  IF api'[d] = Absent THEN received'[d][w] = Absent
                 ELSE w \in WebhooksOf(api'[d]) =>
                         IF BeenAt(r, d, w)' THEN received'[d][w] = MessageOf(worker'[r].dc)
                         ELSE Acknowledged(api'[d].status.lastNotifiedHash, received'[d][w])
      <3>1. CASE d = c
        <4>1. ~BeenAt(r, d, w)'
          BY <2>4
        <4>2. api'[d] = api'[c] /\ api'[c] # Absent /\ received'[d][w] = received'[c][w]
          BY <1>6, <1>8, <3>1
        <4> QED
          BY <2>1, <2>2, <4>1, <4>2
      <3>2. CASE d # c
        <4>1. IF api[d] = Absent THEN received[d][w] = Absent
              ELSE w \in WebhooksOf(api[d]) =>
                      IF BeenAt(r, d, w) THEN received[d][w] = MessageOf(dc)
                      ELSE Acknowledged(api[d].status.lastNotifiedHash, received[d][w])
          BY DEF QuietParts, HeardLast
        <4>2. api'[d] = api[d] /\ received'[d][w] = received[d][w]
          BY <1>1, <1>8, <3>2
        <4>3. ~BeenAt(r, d, w) /\ ~BeenAt(r, d, w)'
          BY <2>3, <2>4, <3>2
        <4> QED
          BY <4>1, <4>2, <4>3
      <3> QED
        BY <3>1, <3>2
    <2> QED
      BY <2>5 DEF HeardLast
  <1> QED
    BY <1>9, <1>10, <1>11 DEF QuietParts

(* A status write before the send loop takes the fingerprint along. *)
LEMMA WriteKeepsWord ==
    ASSUME IndInv, NEW r \in Replicas, MarkFailed(r) \/ MarkTransient(r) \/ Publish(r)
    PROVE  \A c \in Checks : KeepsWord(c)
  <1> DEFINE key == worker[r].key
             object == [api[key] EXCEPT !.status = worker[r].dc.status]
  <1>1. /\ worker[r].pc \in {"fail", "transient", "publish"} /\ TypeInv
        /\ key \in Checks /\ worker[r].dc \in Objects
    BY DEF MarkFailed, MarkTransient, Publish, At, IndInv, TypeInv, WorkerShape
  <1>2. \/ Accepted(r) /\ (Replace(key, object, {}) \/ Replace(key, object, {r}))
        \/ UNCHANGED api
    <2>1. UpdateSucceeds(r, {}) \/ UpdateSucceeds(r, {r}) \/ UpdateFails(r)
      BY DEF MarkFailed, MarkTransient, Publish
    <2> QED
      BY <2>1, UpdateCases DEF objectVars
  <1>3. CASE UNCHANGED api
    BY <1>3 DEF KeepsWord
  <1>4. CASE Accepted(r) /\ (Replace(key, object, {}) \/ Replace(key, object, {r}))
    <2>1. api[key] \in Objects
      BY <1>1, <1>4 DEF Accepted, TypeInv, TypeOK
    <2>2. object # Absent /\ object.spec = api[key].spec /\ object.status = worker[r].dc.status
      BY <1>1, <2>1, WrittenObject
    <2>3. /\ api[key] # Absent
          /\ api[key].status.lastNotifiedHash = worker[r].dc.status.lastNotifiedHash
      BY <1>1, <1>4 DEF Accepted, IndInv, FreshWorkers, At
    <2> HIDE DEF object
    <2>4. api'[key] = object /\ \A d \in Checks \ {key} : api'[d] = api[d]
      BY <1>1, <1>4 DEF Replace, TypeInv, TypeOK
    <2>5. ASSUME NEW c \in Checks
          PROVE  KeepsWord(c)
      <3>1. CASE c = key
        BY <2>2, <2>3, <2>4, <3>1 DEF KeepsWord
      <3>2. CASE c # key
        BY <2>4, <3>2 DEF KeepsWord
      <3> QED
        BY <3>1, <3>2
    <2> QED
      BY <2>5
  <1> QED
    BY <1>2, <1>3, <1>4

(* An evaluation that is published leaves its worker fresh. *)
LEMMA EvaluateQuiet ==
    ASSUME NEW r, Replicas = {r}, HooksListedOnce, IndInv, QuietParts, spent'.edits = spent.edits,
           \/ BuildSource(r) \/ Compare(r) \/ RecordDrift(r)
           \/ MarkFailed(r) \/ MarkTransient(r) \/ Publish(r)
    PROVE  QuietParts'
  <1>1. /\ worker[r].pc \in {"build", "compare", "record", "fail", "transient", "publish"}
        /\ worker[r].todo = <<>> /\ ~worker[r].failed /\ TypeInv
        /\ worker[r].key \in Checks /\ worker[r].dc \in Objects
    BY DEF BuildSource, Compare, RecordDrift, MarkFailed, MarkTransient, Publish, At,
           IndInv, TypeInv, WorkerShape, QuietParts, LoopUndisturbed
  <1>2. /\ api[worker[r].key] # Absent /\ worker[r].dc.spec = api[worker[r].key].spec
        /\ worker[r].dc.spec \in Specs
    BY <1>1 DEF QuietParts, OneSpec, At, Objects
  <1>3. UNCHANGED <<cache, received>>
    BY DEF BuildSource, Compare, RecordDrift, MarkFailed, MarkTransient, Publish, hookVars
  <1>4. CASE BuildSource(r) \/ Compare(r)
    <2>1. GoodHand(r)
      <3>1. /\ worker'[r].pc \in {"fail", "compare", "transient", "publish"}
            /\ GoesOn(r) /\ KeepsLoop(r)
        BY <1>1, <1>4, BuildSourceEffect, CompareEffect
      <3> QED
        BY <1>1, <1>2, <3>1 DEF GoodHand, GoesOn, KeepsLoop
    <2>2. \A c \in Checks : KeepsWord(c)
      BY <1>4 DEF BuildSource, Compare, objectVars, KeepsWord
    <2> QED
      BY <1>1, <1>3, <2>1, <2>2, MoveQuiet
  <1>5. CASE RecordDrift(r)
    <2>1. GoodHand(r)
      <3>1. ASSUME worker'[r].pc = "send" PROVE r \in fresh'
        <4>1. worker'[r] # Idle
          BY <3>1 DEF Idle
        <4>2. worker[r].pc = "record" /\ UNCHANGED fresh
          BY <1>5, <4>1, RecordEffect, <1>1 DEF RecordDrift, At, Return, TypeInv, TypeOK
        <4> QED
          BY <4>2 DEF QuietParts, LoopUndisturbed
      <3> QED
        BY <1>1, <1>2, <1>5, <3>1, RecordEffect DEF GoodHand
    <2>2. \A c \in Checks : KeepsWord(c)
      BY <1>5 DEF RecordDrift, objectVars, KeepsWord
    <2> QED
      BY <1>1, <1>3, <2>1, <2>2, MoveQuiet
  <1>6. CASE MarkFailed(r) \/ MarkTransient(r) \/ Publish(r)
    <2>1. GoodHand(r)
      <3>1. CASE worker'[r] = Idle /\ worker'[r].pc = "idle"
        BY <3>1 DEF GoodHand
      <3>2. CASE /\ worker[r].pc = "publish" /\ worker'[r].pc = "record"
                 /\ worker'[r].key = worker[r].key /\ worker'[r].dc = worker[r].dc
                 /\ KeepsLoop(r) /\ UpdateSucceeds(r, {r})
        <4>1. r \in fresh'
          BY <3>2 DEF UpdateSucceeds, Store, Replace
        <4> QED
          BY <1>1, <1>2, <3>2, <4>1 DEF GoodHand, KeepsLoop
      <3> QED
        BY <1>1, <1>6, <3>1, <3>2, WriteEffect
    <2>2. \A c \in Checks : KeepsWord(c)
      BY <1>6, WriteKeepsWord
    <2> QED
      BY <1>1, <1>3, <2>1, <2>2, MoveQuiet
  <1> QED
    BY <1>4, <1>5, <1>6

LEMMA ManagerQuiet ==
    ASSUME NEW r, Replicas = {r}, HooksListedOnce, IndInv, QuietParts, spent'.edits = spent.edits,
           ~Fault, NEW c \in Checks, Manager(r, c)
    PROVE  QuietParts'
  <1>1. TypeInv
    BY DEF IndInv, TypeInv
  <1>2. CASE ReconcileExisting(r, c)
    <2>1. /\ worker[r].pc = "idle" /\ cache[r][c] # Absent
          /\ UNCHANGED <<api, cache, received>>
      BY <1>2 DEF ReconcileExisting, Take, At, objectVars, hookVars
    <2>2. /\ api[c] # Absent /\ cache[r][c].spec = api[c].spec /\ cache[r][c] \in Objects
      BY <1>1, <2>1 DEF QuietParts, OneSpec, TypeInv, TypeOK
    <2> DEFINE new == [Idle EXCEPT !.pc = "build", !.key = c, !.dc = cache[r][c]]
    <2>3. /\ new.pc = "build" /\ new.key = c /\ new.dc = cache[r][c]
          /\ new.todo = <<>> /\ ~new.failed
      BY DEF Idle
    <2>4. worker'[r] = new
      BY <1>1, <1>2 DEF ReconcileExisting, TypeInv, TypeOK
    <2> HIDE DEF new
    <2>5. GoodHand(r)
      BY <2>2, <2>3, <2>4 DEF GoodHand, Objects
    <2>6. \A d \in Checks : KeepsWord(d)
      BY <2>1 DEF KeepsWord
    <2> QED
      BY <1>1, <2>1, <2>5, <2>6, MoveQuiet
  <1>3. CASE Deliver(r, c)
    <2>1. \A d \in Checks : cache'[r][d] = cache[r][d] \/ cache'[r][d] = api[d]
      BY <1>1, <1>3 DEF Deliver, TypeInv, TypeOK
    <2>2. UNCHANGED <<api, worker, received, fresh>>
      BY <1>3 DEF Deliver, hookVars
    <2> QED
      BY <1>1, <2>1, <2>2, RestQuiet
  <1>4. CASE TimerFires(r, c) \/ ReconcileGone(r, c)
    <2>1. UNCHANGED <<api, worker, received, fresh, cache>>
      BY <1>4 DEF TimerFires, ReconcileGone, Take, objectVars, hookVars
    <2> QED
      BY <1>1, <2>1, RestQuiet
  <1>5. CASE ReconcileUnread(r, c)
    BY <1>5 DEF ReconcileUnread
  <1> QED
    BY <1>2, <1>3, <1>4, <1>5 DEF Manager

LEMMA NextQuietInv ==
    ASSUME NEW r, Replicas = {r}, HooksListedOnce, IndInv, QuietInv, [Next]_vars
    PROVE  QuietInv'
  <1> SUFFICES ASSUME SoFarQuiet'
               PROVE  QuietParts'
    BY DEF QuietInv, QuietParts
  <1>1. /\ SoFarQuiet /\ ~Fault /\ (Edit => spent.edits = 0)
        /\ spent'.edits = spent.edits \/ \E c \in Checks : User(c) /\ Edit
    BY QuietBefore DEF IndInv, TypeInv
  <1>2. QuietParts /\ TypeInv
    BY <1>1 DEF QuietInv, QuietParts, IndInv, TypeInv
  <1>3. ASSUME NEW c \in Checks, User(c)
        PROVE  QuietParts'
    <2>1. Edit
      BY <1>3 DEF User, CreateCheck, EditSpec, DeleteCheck
    <2>2. spent.edits = 0 /\ spent'.edits = 1
      BY <1>1, <1>2, <2>1 DEF Edit, TypeInv, TypeOK
    <2> QED
      BY <1>2, <1>3, <2>2, CreateQuiet
  <1>4. ASSUME spent'.edits = spent.edits, NEW c \in Checks, WorldChanges(c)
        PROVE  QuietParts'
    <2>1. UNCHANGED <<api, worker, received, fresh, cache>>
      BY <1>4 DEF WorldChanges, objectVars, hookVars
    <2> QED
      BY <1>2, <1>4, <2>1, RestQuiet
  <1>5. ASSUME spent'.edits = spent.edits, NEW c \in Checks, Manager(r, c)
        PROVE  QuietParts'
    BY <1>1, <1>2, <1>5, ManagerQuiet
  <1>6. CASE Restart(r)
    BY <1>1, <1>6 DEF Restart
  <1>7. ASSUME spent'.edits = spent.edits, Worker(r)
        PROVE  QuietParts'
    <2>1. CASE SendWebhook(r)
      BY <1>1, <1>2, <2>1, SendQuiet
    <2>2. CASE NotifyIncomplete(r)
      BY <1>2, <2>2 DEF NotifyIncomplete, QuietParts, LoopUndisturbed
    <2>3. CASE NotifyComplete(r)
      BY <1>2, <2>3, CompleteQuiet
    <2>4. CASE PersistFingerprint(r)
      BY <1>1, <1>2, <1>7, <2>4, PersistQuiet
    <2>5. CASE \/ BuildSource(r) \/ Compare(r) \/ RecordDrift(r)
               \/ MarkFailed(r) \/ MarkTransient(r) \/ Publish(r)
      BY <1>2, <1>7, <2>5, EvaluateQuiet
    <2> QED
      BY <1>7, <2>1, <2>2, <2>3, <2>4, <2>5 DEF Worker
  <1>8. CASE UNCHANGED vars
    <2>1. UNCHANGED <<api, worker, received, fresh, cache, spent>>
      BY <1>8 DEF vars
    <2> QED
      BY <1>2, <2>1, RestQuiet
  <1>9. CASE spent'.edits = spent.edits
    BY <1>3, <1>4, <1>5, <1>6, <1>7, <1>8, <1>9 DEF Next
  <1> QED
    BY <1>1, <1>3, <1>9

LEMMA InitQuietInv == Init => QuietInv
  <1> SUFFICES ASSUME Init PROVE OneSpec /\ LoopUndisturbed /\ HeardLast
    BY DEF QuietInv
  <1>1. \A r \in Replicas : worker[r] = Idle
    BY DEF Init
  <1>2. Idle.pc = "idle" /\ ~Idle.failed /\ Idle.todo = <<>>
    BY DEF Idle
  <1>3. OneSpec
    BY <1>1, <1>2 DEF Init, OneSpec, At
  <1>4. LoopUndisturbed
    BY <1>1, <1>2 DEF LoopUndisturbed, At
  <1>5. HeardLast
    BY DEF Init, HeardLast
  <1> QED
    BY <1>3, <1>4, <1>5

(* A message that is about to be sent is not the last one w heard. *)
LEMMA SendIsNew ==
    ASSUME NEW r, Replicas = {r}, IndInv, QuietParts, SendWebhook(r)
    PROVE  received[worker[r].key][Head(worker[r].todo)] # MessageOf(worker[r].dc)
  <1> DEFINE c == worker[r].key
             dc == worker[r].dc
             w == Head(worker[r].todo)
  <1>1. /\ worker[r].pc = "send" /\ c \in Checks /\ dc \in Objects
        /\ worker[r].todo \in Seq(Webhooks) /\ worker[r].todo # <<>>
    BY DEF SendWebhook, At, IndInv, TypeOK, WorkerShape, Workers
  <1>2. w \in Webhooks /\ w \in StillToTell(r)
    BY <1>1 DEF StillToTell
  <1>3. r \in fresh /\ api[c] # Absent /\ dc.spec = api[c].spec
    BY <1>1 DEF QuietParts, OneSpec, LoopUndisturbed, At
  <1>4. api[c].status.lastNotifiedHash = dc.status.lastNotifiedHash
    BY <1>1, <1>3 DEF IndInv, FreshWorkers, At
  <1>5. NotifyWanted(dc) /\ Counted(dc.status)
    BY <1>1, SendProgressDef DEF IndInv, CountedStatus, Counted
  <1>6. MessageOf(dc).drifted = dc.status.drifted /\ MessageOf(dc) # Absent
    BY <1>1, <1>5, MessageLists
  <1>7. w \in WebhooksOf(api[c]) /\ ~BeenAt(r, c, w)
    BY <1>1, <1>2, <1>3 DEF QuietParts, LoopUndisturbed, WebhooksOf, BeenAt
  <1>8. Acknowledged(dc.status.lastNotifiedHash, received[c][w])
    BY <1>1, <1>2, <1>3, <1>4, <1>7 DEF QuietParts, HeardLast
  <1> QED
    BY <1>5, <1>6, <1>8 DEF Acknowledged, NotifyWanted, DriftHash

(* Of all steps only one of the send loop moves on in the list. *)
LEMMA StepRepeatsNothing ==
    ASSUME NEW r, Replicas = {r}, IndInv, QuietInv, [Next]_vars, Undisturbed',
           worker[r].todo # <<>>, worker'[r].todo = Tail(worker[r].todo)
    PROVE  received[worker[r].key][Head(worker[r].todo)] # MessageOf(worker[r].dc)
  <1>1. TypeInv /\ SoFarQuiet'
    BY DEF IndInv, TypeInv, Undisturbed, SoFarQuiet
  <1>2. SoFarQuiet /\ ~Fault
    BY <1>1, QuietBefore DEF TypeInv
  <1>3. QuietParts
    BY <1>2 DEF QuietInv, QuietParts
  <1>4. worker[r].pc = "send" /\ worker[r].todo \in Seq(Webhooks)
    BY <1>1, <1>3 DEF QuietParts, LoopUndisturbed, At, TypeInv, TypeOK, Workers
  <1>5. worker' # worker
    <2> DEFINE todo == worker[r].todo
    <2>1. Tail(todo) # todo
      <3>1. todo \in Seq(Webhooks) /\ todo # <<>>
        BY <1>4
      <3> HIDE DEF todo
      <3>2. Len(Tail(todo)) = Len(todo) - 1 /\ Len(todo) \in Nat
        BY <3>1
      <3> QED
        BY <3>2
    <2> QED
      BY <2>1
  <1>6. Worker(r)
    <2>1. PICK q \in Replicas :
             \/ \E c \in Checks : ReconcileExisting(q, c)
             \/ Worker(q) \/ Restart(q)
      BY <1>1, <1>5, OneWorker
    <2>2. ~Restart(r)
      BY <1>2 DEF Restart
    <2>3. \A c \in Checks : ~ReconcileExisting(r, c)
      BY <1>4 DEF ReconcileExisting, Take, At
    <2> QED
      BY <2>1, <2>2, <2>3
  <1>7. SendWebhook(r)
    BY <1>4, <1>6 DEF Worker, At, BuildSource, Compare, MarkFailed, MarkTransient, Publish,
                      RecordDrift, NotifyIncomplete, NotifyComplete, PersistFingerprint
  <1> QED
    BY <1>3, <1>7, SendIsNew

(* QuietInv is inductive, for one process. *)
THEOREM QuietInductive ==
    ASSUME NEW r, Replicas = {r}, HooksListedOnce
    PROVE  Spec => []QuietInv
  <1>1. IndInv /\ QuietInv /\ [Next]_vars => QuietInv'
    BY NextQuietInv
  <1> QED
    BY <1>1, InitQuietInv, Inductive, PTL DEF Spec

(* One process sends no webhook the same message twice in a row, as long   *)
(* as nothing fails and its one check is not edited: whatever the cache    *)
(* lags, the status write before the send loop is refused if the           *)
(* fingerprint of the last loop is not in it.                              *)
THEOREM NothingRepeated ==
    ASSUME NEW only, Replicas = {only}, HooksListedOnce
    PROVE  Spec => NoRepeat
  <1>1. IndInv /\ QuietInv /\ [Next]_vars
           => [\A r \in Replicas : SendsNews(r)]_vars
    BY StepRepeatsNothing DEF SendsNews
  <1>2. Spec => []QuietInv
    BY QuietInductive
  <1> QED
    BY <1>1, <1>2, Inductive, PTL DEF Spec, NoRepeat

=============================================================================
