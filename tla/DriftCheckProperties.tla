-------------------------- MODULE DriftCheckProperties --------------------------
(***************************************************************************)
(* What the DriftCheck controller must keep true: a type invariant, safety *)
(* invariants, properties of its steps, and what it must reach once users, *)
(* cluster and failures leave it alone.                                    *)
(***************************************************************************)
EXTENDS DriftCheckController

MessageFor(drifted) == BuildEvent(drifted, drifted = {})

WebhooksOf(object) == {object.spec.webhooks[i] : i \in DOMAIN object.spec.webhooks}

(* The object under name c before and after the step is one object. *)
SameObject(c) == api[c] # Absent /\ api'[c] # Absent

-----------------------------------------------------------------------------
(* The type invariant: every variable of the controller has its type. *)
TypeOK ==
    /\ api \in [Checks -> Objects \cup {Absent}]
    /\ cache \in [Replicas -> [Checks -> Objects \cup {Absent}]]
    /\ synced \subseteq Replicas \X Checks
    /\ queue \in [Replicas -> SUBSET Checks]
    /\ timer \in [Replicas -> [Checks -> {"none", "interval", "backoff"}]]
    /\ worker \in [Replicas -> Workers]
    /\ fresh \subseteq Replicas
    /\ gauge \in [Replicas -> [Checks -> Summaries \cup {Absent}]]
    /\ world \in [Checks -> [obstacle : Obstacles, reading : Readings]]
    /\ received \in [Checks -> [Webhooks -> Events \cup {Absent}]]
    /\ delivered \subseteq Checks \X Webhooks \X Events
    /\ spent \in [edits : 0..MaxEdits, changes : 0..MaxChanges, faults : 0..MaxFaults]

(* A worker without a reconcile holds nothing; one with a reconcile holds  *)
(* the object it read, under the name it took.                             *)
WorkerShape ==
    \A r \in Replicas :
        IF At(r, "idle") THEN worker[r] = Idle
        ELSE worker[r].key \in Checks /\ worker[r].dc \in Objects

TypeInv == TypeOK /\ WorkerShape

-----------------------------------------------------------------------------
(* Safety.                                                                 *)

(* A reconcile evaluates the spec it read from a cache that may be behind, *)
(* and writes status several calls later.  No status write that the API    *)
(* server takes, of any path and any replica, may speak of a generation    *)
(* other than the one it is stored with.                                   *)
StatusDescribesCurrentSpec ==
    [][\A c \in Checks :
          SameObject(c) /\ api'[c].status # api[c].status
              => api'[c].status.ready.observedGeneration = api'[c].generation]_vars

(* notify's dedup rests on lastNotifiedHash.  It may change only to the    *)
(* fingerprint of the drift that status lists at that moment, and only     *)
(* when every webhook of the spec stored there has received that drift;    *)
(* failures, partial deliveries and conflicting writers never advance it.  *)
FingerprintEarned ==
    [][\A c \in Checks :
          SameObject(c) /\ api'[c].status.lastNotifiedHash # api[c].status.lastNotifiedHash
              => LET status == api'[c].status IN
                 /\ status.lastNotifiedHash = DriftHash(status.drifted)
                 /\ \A w \in WebhooksOf(api'[c]) :
                       <<c, w, MessageFor(status.drifted)>> \in delivered']_vars

(* No return path of Reconcile drops a check: an object that exists is, in *)
(* every replica, in the queue, waiting for a timer, being reconciled, or  *)
(* about to arrive as a watch event.                                       *)
NoCheckForgotten ==
    \A r \in Replicas, c \in Checks :
        \/ api[c] = Absent
        \/ <<r, c>> \notin synced
        \/ c \in queue[r] \/ timer[r][c] # "none"
        \/ worker[r].key = c

(* Replica r has nothing left to do about c before the next interval. *)
Settled(r, c) ==
    /\ <<r, c>> \in synced
    /\ c \notin queue[r]
    /\ timer[r][c] # "backoff"
    /\ worker[r].key # c

(* The series that fit an object: the summary of the last evaluation, or   *)
(* none after a permanent failure or a deletion.  A CompareError keeps the *)
(* last reading on purpose.                                                *)
Exports(series, object) ==
    IF object = Absent THEN series = Absent
    ELSE LET ready == object.status.ready IN
         /\ ready.status = "True" => series = object.status.summary
         /\ ready.status # "True" /\ ready.reason # "CompareError" => series = Absent

(* The gauges are written by RecordDrift, and dropped by permanentFail and *)
(* by the NotFound path, each before or after a status write that can      *)
(* fail.  Whenever the replica has settled, the series it exports fit the  *)
(* stored status.                                                          *)
GaugeMatchesStatus ==
    \A r \in Replicas, c \in Checks : Settled(r, c) => Exports(gauge[r][c], api[c])

(* A "resolved" message is announced only for drift that was announced:    *)
(* some webhook has heard of drift of that check before.                   *)
ResolvedOnlyAfterDrift ==
    \A d \in delivered :
        d[3].resolved => \E e \in delivered : e[1] = d[1] /\ ~e[3].resolved

(* Nothing has failed, and nobody has edited or deleted the one check. *)
Undisturbed == spent.faults = 0 /\ spent.edits = 1

SendsNews(r) ==
    LET todo == worker[r].todo IN
    Undisturbed' /\ todo # <<>> /\ worker'[r].todo = Tail(todo)
        => received[worker[r].key][Head(todo)] # MessageOf(worker[r].dc)

(* With one replica, as long as nothing fails, no webhook gets the same    *)
(* message twice in a row, however stale the cached object is that a       *)
(* reconcile starts from: the status write before the send loop refuses a  *)
(* reconcile that has not seen the fingerprint of the last one.            *)
NoRepeat == [][\A r \in Replicas : SendsNews(r)]_vars

(* Stale caches, half-done reconciles, conflicting replicas and lost calls *)
(* amount, for readers of status and webhooks, to the whole and current    *)
(* statements of DriftPromise, or to nothing.                              *)
Promise == INSTANCE DriftPromise WITH object <- api, told <- delivered

PromiseKept == Promise!Spec

-----------------------------------------------------------------------------
(* The inductive invariant behind StatusDescribesCurrentSpec,              *)
(* FingerprintEarned, NoCheckForgotten and ResolvedOnlyAfterDrift.         *)

(* A copy with the current resourceVersion is a copy of the current object. *)
SyncedCopies ==
    \A r \in Replicas, c \in Checks : <<r, c>> \in synced => cache[r][c] = api[c]

(* So is the object in the hands of a fresh worker, but for the status it  *)
(* is about to write; and the fingerprint in that one is the stored one    *)
(* until the send loop is through.                                         *)
FreshWorkers ==
    \A r \in fresh :
        /\ ~At(r, "idle")
        /\ LET dc == worker[r].dc
               stored == api[worker[r].key]
           IN /\ stored # Absent
              /\ stored.generation = dc.generation /\ stored.spec = dc.spec
              /\ ~At(r, "persist")
                    => stored.status.lastNotifiedHash = dc.status.lastNotifiedHash

(* Whatever is written is stamped with the generation it was found for. *)
StampedStatus ==
    \A r \in Replicas :
        worker[r].pc \notin {"idle", "build", "compare"} =>
            worker[r].dc.status.ready.observedGeneration = worker[r].dc.generation

(* The summary in hand, by which "resolved" is decided, counts the list.   *)
CountedStatus ==
    \A r \in Replicas :
        worker[r].pc \in {"publish", "record", "send", "persist"} =>
            LET status == worker[r].dc.status IN
            DriftCount(status.summary) = 0 <=> status.drifted = {}

(* How far the send loop has come. *)
SendProgress ==
    \A r \in Replicas :
        LET dc == worker[r].dc
            Received(w) == <<worker[r].key, w, MessageFor(dc.status.drifted)>> \in delivered
        IN /\ At(r, "send") =>
                 /\ NotifyWanted(dc)
                 /\ worker[r].failed \/ \A w \in WebhooksOf(dc) :
                       Received(w) \/ \E i \in DOMAIN worker[r].todo : worker[r].todo[i] = w
           /\ At(r, "persist") =>
                 /\ dc.status.lastNotifiedHash = DriftHash(dc.status.drifted)
                 /\ \A w \in WebhooksOf(dc) : Received(w)

(* A fingerprint, in any copy of an object, means drift was announced. *)
ToldOfDrift(c) == \E e \in delivered : e[1] = c /\ ~e[3].resolved

Fingerprinted(object) ==
    object # Absent /\ object.status.lastNotifiedHash # NeverNotified

FingerprintMeansTold ==
    /\ \A c \in Checks : Fingerprinted(api[c]) => ToldOfDrift(c)
    /\ \A r \in Replicas, c \in Checks : Fingerprinted(cache[r][c]) => ToldOfDrift(c)
    /\ \A r \in Replicas :
          ~At(r, "idle") /\ Fingerprinted(worker[r].dc) => ToldOfDrift(worker[r].key)

IndInv ==
    /\ TypeOK /\ WorkerShape
    /\ SyncedCopies /\ FreshWorkers
    /\ StampedStatus /\ CountedStatus /\ SendProgress
    /\ FingerprintMeansTold
    /\ NoCheckForgotten /\ ResolvedOnlyAfterDrift

-----------------------------------------------------------------------------
(* The inductive invariant that GaugeMatchesStatus and PromiseKept need on *)
(* top of IndInv: what a reconcile is about to write or to leave behind.   *)

FailureReasons == {"SourceError", "InvalidTarget", "FetchError", "CompareError"}

(* How the status in the hands of a fresh worker differs from the stored   *)
(* one at each step: by one whole statement, or not at all.                *)
OneStatement(pc, dc, stored) ==
    /\ pc \in {"build", "compare", "record", "send"} => dc.status = stored
    /\ pc \in {"fail", "transient"} =>
          \E reason \in FailureReasons : dc.status = NotReady(stored, reason, dc.generation)
    /\ pc = "publish" =>
          \E reading \in Readings : dc.status = Evaluated(stored, reading, dc.generation)
    /\ pc = "persist" =>
          dc.status = [stored EXCEPT !.lastNotifiedHash = DriftHash(stored.drifted)]

StatusInHand ==
    \A r \in fresh : OneStatement(worker[r].pc, worker[r].dc, api[worker[r].key].status)

Publishing == {"publish", "record", "send", "persist"}

(* The drift in the hands of any worker, fresh or not, came from a reading. *)
ListInHand ==
    \A r \in Replicas : worker[r].pc \in Publishing =>
        \E reading \in Readings : worker[r].dc.status.drifted = Drifted(reading)

(* A worker that lost a race comes back to its check: the event of the     *)
(* write it lost to is still to come, or has queued the name.              *)
StaleIsNoticed ==
    \A r \in Replicas \ fresh :
        At(r, "idle") \/ <<r, worker[r].key>> \notin synced \/ worker[r].key \in queue[r]

(* The series and the condition a reconcile in progress will leave.        *)
SeriesInHand(pc, status, series) ==
    /\ pc = "fail" => /\ series = Absent
                      /\ status.ready.status = "False"
                      /\ status.ready.reason # "CompareError"
    /\ pc \in Publishing => status.ready.status = "True"
    /\ pc \in {"send", "persist"} => series = status.summary

GaugeInHand ==
    \A r \in Replicas :
        ~At(r, "idle") =>
            SeriesInHand(worker[r].pc, worker[r].dc.status, gauge[r][worker[r].key])

HandInv ==
    /\ StatusInHand /\ ListInHand /\ StaleIsNoticed
    /\ GaugeInHand /\ GaugeMatchesStatus

-----------------------------------------------------------------------------
(* The inductive invariant that NoRepeat needs on top of IndInv: what one  *)
(* process alone can rely on until something fails or the check is edited. *)

SoFarQuiet == spent.faults = 0 /\ spent.edits <= 1

(* There is one spec, and every copy has it. *)
OneSpec ==
    /\ spent.edits = 0 => \A c \in Checks : api[c] = Absent
    /\ \A r \in Replicas, c \in Checks :
          cache[r][c] # Absent => api[c] # Absent /\ cache[r][c].spec = api[c].spec
    /\ \A r \in Replicas :
          LET key == worker[r].key IN
          ~At(r, "idle") => api[key] # Absent /\ worker[r].dc.spec = api[key].spec

StillToTell(r) == {worker[r].todo[i] : i \in DOMAIN worker[r].todo}

(* Once an evaluation is stored nobody writes the object but the one who   *)
(* stored it, who sends each webhook one message.                          *)
LoopUndisturbed ==
    \A r \in Replicas :
        LET todo == worker[r].todo IN
        /\ worker[r].pc \in {"record", "send", "persist"} => r \in fresh
        /\ ~worker[r].failed
        /\ todo # <<>> => At(r, "send") /\ StillToTell(r) \subseteq WebhooksOf(worker[r].dc)
        /\ \A i, j \in DOMAIN todo : todo[i] = todo[j] => i = j

(* What a webhook heard last is what the fingerprint says it did. *)
Acknowledged(fingerprint, message) ==
    IF fingerprint = NeverNotified THEN message = Absent
    ELSE message # Absent /\ fingerprint = DriftHash(message.drifted)

(* The send loop in progress has been at w. *)
BeenAt(r, c, w) ==
    /\ worker[r].key = c /\ worker[r].pc \in {"send", "persist"}
    /\ w \notin StillToTell(r)

(* The stored fingerprint says what each webhook heard last, but for those *)
(* that the loop has been at: they have its message.                       *)
HeardLast ==
    \A r \in Replicas, c \in Checks, w \in Webhooks :
        IF api[c] = Absent THEN received[c][w] = Absent
        ELSE w \in WebhooksOf(api[c]) =>
                IF BeenAt(r, c, w) THEN received[c][w] = MessageOf(worker[r].dc)
                ELSE Acknowledged(api[c].status.lastNotifiedHash, received[c][w])

QuietInv == SoFarQuiet => OneSpec /\ LoopUndisturbed /\ HeardLast

-----------------------------------------------------------------------------
(* Liveness.                                                               *)

Evaluable(c) == world[c].obstacle = "none" /\ api[c].spec.selectorValid

ExpectedReason(c) ==
    CASE world[c].obstacle = "noSource" -> "SourceError"
      [] ~api[c].spec.selectorValid -> "InvalidTarget"
      [] world[c].obstacle = "noAccess" -> "FetchError"
      [] world[c].obstacle = "noAnswer" -> "CompareError"
      [] OTHER -> "DriftEvaluated"

(* Once nothing changes and nothing fails any more, status comes to say    *)
(* what an evaluation of the stored spec finds, and stays so: the reading, *)
(* or the reason there is none.                                            *)
StatusConverges ==
    \A c \in Checks :
        <>[](api[c] # Absent =>
                LET status == api[c].status IN
                /\ status.ready.reason = ExpectedReason(c)
                /\ status.ready.observedGeneration = api[c].generation
                /\ Evaluable(c) =>
                      /\ status.drifted = Drifted(world[c].reading)
                      /\ status.summary = Summarize(world[c].reading)
                      /\ status.observedGeneration = api[c].generation)

(* A failed delivery, or a fingerprint write that conflicts, is retried:   *)
(* the drift set status settles on comes to be the one acknowledged by     *)
(* every webhook, unless there was never any to announce.                  *)
NotificationConverges ==
    \A c \in Checks :
        <>[](api[c] # Absent /\ Evaluable(c) /\ api[c].spec.webhooks # <<>> =>
                LET status == api[c].status IN
                \/ status.lastNotifiedHash = DriftHash(status.drifted)
                \/ status.lastNotifiedHash = NeverNotified /\ status.drifted = {})

-----------------------------------------------------------------------------
(* What the documentation says and the code does not do.                   *)

NobodyReconciles(c) == \A r \in Replicas : worker[r].key # c

(* api/v1alpha1/types.go on LastNotifiedHash: it "fingerprints the drift   *)
(* set last delivered to the configured webhooks".  When the fingerprint   *)
(* is that of the current drift set, the message each webhook got last is  *)
(* the one about it.                                                       *)
FingerprintIsLastDelivered ==
    \A c \in Checks :
        api[c] # Absent /\ NobodyReconciles(c) =>
            LET status == api[c].status IN
            status.lastNotifiedHash = DriftHash(status.drifted) =>
                \A w \in WebhooksOf(api[c]) :
                    received[c][w] = MessageFor(status.drifted)

(* internal/controller/notify.go on the empty fingerprint: "A fresh,       *)
(* in-sync DriftCheck has never drifted", so it announces nothing.  When   *)
(* the fingerprint is empty and status in sync, no webhook is left with a  *)
(* message that says there is drift.                                       *)
NothingToResolve ==
    \A c \in Checks :
        api[c] # Absent /\ NobodyReconciles(c) =>
            LET status == api[c].status IN
            status.lastNotifiedHash = NeverNotified
              /\ status.ready.status = "True" /\ status.drifted = {} =>
                \A w \in WebhooksOf(api[c]) :
                    received[c][w] # Absent => received[c][w].resolved

=============================================================================
