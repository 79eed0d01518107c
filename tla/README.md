# kube-drift in TLA+

kube-drift is a Kubernetes controller. A `DriftCheck` names a source of
manifests (a ConfigMap, or a Git repository with plain manifests, a Helm chart or
a Kustomize overlay), the controller renders it, compares it with the cluster
with the kube-diff library, writes what differs into the object's status, exports
it as metrics and tells webhooks when the set of differences changes. It never
writes anything but status.

The specifications here model the controller of `src/internal/controller`, the
sources of `src/internal/source` it loads, the webhooks of `src/internal/notify` it
tells, and the processes of `src/cmd/main.go` it runs in. The comparison itself is
a library outside the repository. All line numbers are those of `PROJECT.json`, which maps
every definition to the code it stands for.

## Inventory

| Component | State it keeps | Operations | Where it is hard |
|---|---|---|---|
| Reconciler (`driftcheck_controller.go`, `notify.go`) | none between reconciles but what it wrote to status | `Reconcile`, `permanentFail`, `markNotReady`, `notify` | starts from a stale copy, writes status twice, ends at a dozen places; a crash between any two steps |
| Status and fingerprint (`summarize`, `driftCount`, `driftHash`, `buildEvent`) | `status` of the object | pure functions | "drifted" is decided once by the tally, once by the list, once by the hash |
| Manager and workqueue (controller-runtime, wired in `SetupWithManager` and `main.go`) | informer cache, queue, timers, rate limiter | watch events, delayed and rate-limited requeues | own status writes come back as events; leader election is opt-in |
| Source resolution (`buildSource`, `resolveGitAuth`, `configMapManifests`, `authMethod`) | none | read a ConfigMap or a Secret, choose credentials | contents change at any time; "nil" means "no credentials" at two levels |
| Source loading (`withCheckout`, `gitClone`, `runBuildDeps`, `buildDependencies`) | temporary directories, one goroutine, one channel | clone, fetch dependencies, render, remove | a fetch that outlives the reconcile that started it |
| Rendering (`resolveRevision`, `renderHelmChart`, `mergeValues`) | maps shared between layers of values | choose a commit, merge values, render | the remote moves; a merge in place aliases; hooks and pruned subcharts read as drift |
| Target filter (`target.go`) | none | select manifests by namespace, label | an invalid selector is found late |
| Webhooks (`resolveWebhookURL`, `internal/notify`) | none | find the endpoint, POST a message | an error does not tell whether it arrived; a redirect can drop the message |
| Metrics (`internal/metrics`) | gauges per check and process | set, delete | written before one status write and after another |
| API types, scheme, deep copies | - | - | - |
| Process (`cmd/main.go`) | the lease, with `--leader-elect` | start, stop | a stop cancels every context; a deposed leader still works for a while |

They interact so: the API server sends watch events to each process's cache and
queue; the queue hands a name to the single worker; the worker resolves the source
(reads of ConfigMaps and Secrets), loads it (clone, fetch, render), compares, writes
status (conditionally on the resourceVersion it read), sets gauges, sends to the
webhooks one after the other, and writes status again with the fingerprint of what
was sent; the status writes come back as watch events.

What makes each correct:

- reconciler: no status speaks of a generation other than the stored one; a
  fingerprint stands only for drift that every webhook received; no check is ever
  dropped from the schedule; gauges agree with status once a process is done; status
  and notification converge when things rest;
- queue: nothing postpones a run; an edit is not swallowed; a wait that was asked
  for is observed;
- resolution: a clone uses the credentials that were asked for, never fewer; a
  manifest is compared exactly once; nothing is compared silently as nothing;
- loading: what is rendered is complete and no longer written to; a load that returns
  resources leaves nothing behind, and no single failure does so in silence; a fetch
  never blocks, and a stop gets its worker back from it;
- evaluation: the commit is one the reference stood for; values have the documented
  precedence; what is compared is what an installation leaves in the cluster; each
  outcome was true of its object while it was compared;
- webhooks: an event goes only where the spec points; an error is retried, and a
  fingerprint is stored after a 2xx of every webhook;
- processes: with leader election, notification converges across a hand-over.

`PROJECT.json` lists the hazards at their lines, each with the properties that
would catch it going wrong.

## Modules

```
DriftStatus                   values of a status, pure functions
   |
   +-- DriftCheckController   the controller
   |      |
   |   DriftCheckProperties   its properties
   |      |          |    \
   |      |          |     LeaderElection             several processes and a lease
   |      |   MCDriftCheckController \         \
   |      |                    MCLeaderElection \
   |   DriftCheckProofs -> DriftCheckSafety -> DriftCheckRefinement -> LeaderElectionProofs
   |
   +-- DriftPromise           what the controller promises (implemented by DriftCheckController)

ReconcileSchedule             the queue with a clock
   +-- ReconcileScheduleProofs
SourceLoading                 checkout, fetch, render and remove, with goroutine and stop
   +-- SourceLoadingProofs
SourceResolution              credentials and manifests a spec refers to
   |-- MCSourceResolution
   +-- WebhookDelivery        one turn of the send loop after it
          |-- MCWebhookDelivery
          +-- WebhookDeliveryProofs         (SourceResolution included)
GitRevision  HelmRendering    which commit; what a chart stands for
      \        /
     Evaluation               clone, render, filter and compare in one evaluation
          |-- MCEvaluation
          +-- EvaluationProofs
```

The modules meet at interfaces the others take for granted. `DriftCheckController`
has one step for what `SourceResolution` (`BuildSource`), `SourceLoading` and
`Evaluation` (`Compare`) and `WebhookDelivery` (`SendWebhook`) spell out, and those
show what makes it a fair summary: a resolution fails or yields what was asked for,
a load ends or is stuck as a whole, a reading is complete and has outcomes that were
each true, and a webhook that answered 2xx has taken its message. The last has one exception,
a redirect that drops the body (below, after the runs): `received` of
`DriftCheckController` is what webhooks without such redirects got.

### DriftStatus

One evaluation is a function from the resources it compared to their outcome
(`changed`, `new`, `deleted`, `unchanged`). `Drifted` is the list in status,
`Summarize` the tally, `Evaluated` and `NotReady` the two ways a reconcile changes
status in memory. `DriftHash` takes SHA-256 to tell drift sets apart: a digest is
the set, wrapped, so that the empty string `NeverNotified` stays distinct from the
digest of the empty set, as it is in the code. Names, kinds and API versions cannot
contain the separator that `driftHash` joins them with.

### DriftCheckController

State: `api` (the stored objects), `cache` (each process's copy), `queue`, `timer`
and `worker` per process, `gauge` per process, `world` (what an evaluation would
meet), `received` and `delivered` (what webhooks got, last and ever).

resourceVersions are not numbers here. The code only ever compares one for equality
with the stored one, in the API server, so the model keeps exactly that: `synced` is
the set of cached copies that have the current version, `fresh` the set of workers
whose object has it. A write takes everybody else out of both (`Replace`); a write
that changes no byte keeps the version, as the API server does. `lastCheckedAt` and
the condition's message are not part of the state; where they decide whether a
write changes something, both outcomes are allowed (`Store`).

| Action | Code |
|---|---|
| `Deliver`, `TimerFires`, `Return` | watch event; delayed add; what `Reconcile` returns |
| `ReconcileExisting`, `ReconcileGone`, `ReconcileUnread` | the cached `Get` and its three outcomes |
| `BuildSource` | `buildSource` and `applyTarget`: SourceError, InvalidTarget or on |
| `Compare` | `engine.Run`: FetchError, CompareError, or an evaluation |
| `MarkFailed`, `MarkTransient` | status write of a permanent failure (checked), of a CompareError (not) |
| `Publish` | status write of an evaluation |
| `RecordDrift` | gauges, then the early returns of `notify` |
| `SendWebhook` | one turn of the send loop |
| `NotifyIncomplete`, `NotifyComplete`, `PersistFingerprint` | a webhook failed; none did; the second status write |
| `Restart` | the process ends anywhere and starts again |

A step is what others can see at once: between two of them anything may happen.
Every call can fail (`MaxFaults` bounds how often). A failed status write has two
cases: it was not stored, or it was and the answer was lost. A failed delivery has
the same two. A read of a Secret that fails for a passing reason is a SourceError,
as in the code.

`Deliver` brings the copy to the current object, and so can skip versions; a cache
that shows an older one in between is a cache that is still behind. `Restart` lists
the objects at once. `r.Fetcher == nil` is left out: `main.go` always sets one.

`Compare` takes a reading at one moment, where `Evaluation` shows that it is put
together of several. Nothing in the controller tells the two apart: a torn reading is
some reading, and `world` may have any of `Readings` at any step within its bound.

### LeaderElection

The controller's actions under a lease. With `elects`, the flag `--leader-elect`, a
process takes part once it has acquired the lease (`Acquire`, with the initial list of
a controller that starts); when it has lost it (`LoseLease`), it goes on with its
reconcile and may even start others, until `mgr.Start` returns an error and `main`
exits (`Exit`, with its copies, its queue and its series). Without the flag every
process takes part, always. `Acquire` waits for the old lease but not for the old
leader: the two overlap.

### DriftPromise

What owners of checks and webhooks may rely on, without caches, queues or processes:
every change of a stored status is one of three whole statements about the *stored*
spec - an evaluation (list, tally and condition together), a failure (condition
alone), or an acknowledgement of the listed drift after every webhook of the stored
spec was told of it. A message of resolution only follows one of drift.
`PromiseKept` maps `object` to `api` and `told` to `delivered`; all of a reconcile but
its status writes and sends are stuttering steps.

### ReconcileSchedule

The same queue with a clock in seconds (what `metav1.Time` keeps), one check, and
the parts of status that `DriftCheckController` leaves out: the time of the last
evaluation and the message. They decide whether a status write is a change and so
whether it comes back as an event; the generation in the condition does too, so the
same failure of an edited spec is a change.

A run reads the object from a cache that is `lag` versions behind, and holds an object
that is `fresh` or not: only then is a write taken (`Writes`). A write may also be
lost, or stored with its answer lost (`WriteFails`). A run ends in one of two ways:
`Waits` for the interval, or `Retries` after the backoff, which an evaluation that was
not stored (`Evaluates`), a fingerprint that was not (`Notifies`), a failure that was
not (`PermanentFail`) and every CompareError do; the write of a CompareError alone is
not checked (`CompareFails`). A source that is not broken is `inSync` or `drifted`,
which is all that `Unannounced`, the early returns of `notify`, depends on. That a
webhook fails looks from the queue like a run that has nothing to send.

`early` counts runs in a row that were neither due, nor asked for by an edit. A retry
is due when its backoff is over, so failing writes alone are not early. Checks are not
deleted here.

### SourceLoading

One process that loads sources one after the other: `withCheckout` makes a
directory (`Begin`), clones (`Clone`), hands over to a renderer (`Render`), and
removes the directory (`Remove`, whose error is returned unless there is one
already, and then dropped). A load ends in one of three `Outcomes`: well, with the
error of a call, or with the error of the removal alone (`leak`), the only one that
names the directory; a fetch likewise, with its directory. A chart with dependencies goes through `runBuildDeps`: a goroutine
(`Fetcher`) that makes a directory of its own, writes `charts/` below the checkout,
removes its directory and sends its outcome to a channel of capacity one, while the
worker waits for it or for the end of the context (`AwaitFetch`, `AbandonFetch`).
The context ends when the process is told to stop, and never otherwise. A process that
is told to stop exits when its worker is back, or before, when its grace period is
over (`Exit`). A fetch that
was abandoned goes on until the process exits, and may make the removed directory
anew (`debris`). That is lost with the container, so only a running process has to
keep tidy.

### SourceResolution

`buildSource` from the spec to a source with credentials or documents, and
`authMethod`, which makes a clone's credentials of them. A value in a Secret is one
of four kinds: missing or empty, line ends, other blanks, text - what the code's two
trimmings tell apart. A ConfigMap has up to three keys, each in `data` or in
`binaryData`. Others may write the Secret and the ConfigMap at any time; the next
reconcile resolves everything anew.

### WebhookDelivery

After a source was resolved and evaluated, one turn of the send loop:
`ResolveURL` is `resolveWebhookURL`, with every way a reference can fail, `Send` and
`Payload` the request, `Answer`, `NoAnswer` and `Redirect` what Go's client makes of
the server: an answer of any class, none within ten seconds, or a redirect, which
repeats the POST (307, 308) or fetches without a body (301, 302, 303). The code asks
for a 2xx of whatever answered last. What was resolved for the source is
forgotten before a delivery begins, so that the two parts' states add up instead of
multiplying; nothing in a delivery depends on them.

### GitRevision, HelmRendering, Evaluation

`Evaluation` is one whole evaluation after the other. `Begin` and `Fetch` clone a
remote that is pushed to meanwhile and check out what `ResolveRevision` finds: a
commit, a tag, a local branch (a clone has only the default one), and then the
branch under `origin/`. The clone, the resolution and the checkout can each fail
(`CloneFails`, `RefuseRevision`, `CheckOutFails`). `named` is a history of what the reference stood for at the
remote since the load began, a tag before a branch of the same name.

A chart goes through `MergeLayer`, one turn of the loop over values files, and the
inline values after it. `mergeValues` works in place and keeps the nested maps it is
given, so nested maps are references into `heap`: `MergeNested` is what becomes of
the maps, `MergeValues` of the top level. Parsing allocates (`Allocated`), which is
what makes the aliasing harmless; a file that is listed twice is parsed twice. The
reference definition, `Layered`, is written from the documented precedence, of any
number of first layers, and knows no order of steps; the merge is compared with it
after each layer. `RenderChart` prunes the subchart by its condition, renders,
drops hooks and notes, and puts the custom resource definitions in front (`Stream`).

`Filter` is `NewTargetFilter` and its `Load`. `Read` then reads one live object at a
time, in any order, while `ClusterChanges` changes objects and access; the errors of
a read end the evaluation as Reconcile tells them apart.

Inputs (a remote, layers of values, a target, the live objects) are chosen where the
code first looks at them and forgotten when nothing depends on them any more. What a
commit contains is left open: any documents, any values files. The stream is a set:
a manifest that occurs twice in it is compared twice by the code, with outcomes of the
same object.

## Runs

All are listed in `PROJECT.json`. A component's run checks its inductive invariant
(`IndInv`, `HandInv`, `QuietInv`) among its properties; a type invariant that is not
listed is a part of it. `LeaseInv`, which the proofs about `ElectionSpec` add, is not
in a run; the theorem `ElectionInductive` includes it. Each property has a mutant, a
plausible bug in a mapped definition (the operators that begin with `(* Bug: ... *)`)
with which TLC finds the property violated.

| Run | Bounds | Shows |
|---|---|---|
| `core` | 1 process, 1 check, 2 webhooks, specs with no, two, or one webhook and an invalid selector; 2 edits, 2 changes, 2 faults; fairness | type invariant, two inductive invariants, the safety properties, that no message is repeated while nothing is edited or fails, that status comes to say what an evaluation finds, and that its drift comes to be acknowledged |
| `overlap` | 2 processes, 1 check, valid or invalid selector; 3 edits, the third only to create a deleted check again, 1 change | conflicting writers never mix generations or readings, and nothing of a deleted check gets into its namesake; each process's gauges match status: that is part of the inductive invariant `HandInv`; every step is one of `DriftPromise` or none |
| `overlap_converge` | 2 processes, with election and without; 1 edit, 1 change (of reading or of access), 1 lost lease; fairness | status settles though each conflicts with the other; with election the drift is acknowledged too; with either, every step is one of `DriftPromise` or none |
| `schedule` | interval 4 s, backoff up to 2 s, 9 s, 3 edits or changes, early runs counted to 5; any status write refused or failing | nothing is late, no edit is swallowed, a permanent failure settles |
| `loading` | 3 loads, 2 faults, a stop | directories, fetches and channel; what a failing removal says; a stop gets its worker back from clones and fetches |
| `resolution` | every source, every Secret that differs in one key from a complete one or has the same kind of value everywhere, every ConfigMap of two entries; every kind of webhook, 2 redirects | credentials, host keys, manifests; where events go |
| `evaluation` | 2 branches or tags, 2 commits, 2 pushes; 3 values layers of 2 files and inline values on top, one of the files twice, a key with 2 nested keys; a chart with a subchart, 7 roles of documents; 2 namespaces; 2 changes of the cluster | the commit, the values, the steady state, and that every outcome was true |

The bounds. Two edits are a creation and an edit, or a creation and a deletion; with
two a reconcile can meet each of them at each of its steps. The third of `overlap` is
the new object of the old name, which a reconcile of the old one may then meet at each
of its steps (`ThirdEditRecreates`, a constraint of that run). One change turns drift on or off, two
turn it on and off again (both initial readings are tried). Two faults let one happen
while another is being retried. A second check adds nothing but contention for the
worker: no action relates two names, and the theorems hold for any number of them.
In `overlap_converge` one hand-over is enough for every overlap of an old and a new
leader; each of the two processes can be either. In `evaluation`, two pushes let a
name turn from a branch into a tag and back before the clone, two nested keys let
layers disagree about one and not the other, a list of three files has one of
them twice with another in between, and two changes let an object change and change
back between two reads; the depth of values is two, since the recursion of
`mergeValues` treats every level alike.
The counters only stop the environment; the controller's own actions are not bounded,
its state is finite without. `MaxTime` covers two intervals, or an interval and two full backoffs, and the
longest backoff is reached by a second failure. Three changes break a source after it
was evaluated, and edit before and after. Early runs are counted beyond the three that
`PermanentFailureSettles` allows, and three do happen: an evaluation, its fingerprint
and the failure each bring one. Two faults of `loading` let a removal fail after
another call.
Two processes are what a hand-over of the lease, or two replicas without leader
election, bring about.

Runs whose name ends a story the documents tell differently:

| Run | Expected | Shows |
|---|---|---|
| `stale_fingerprint` | violation | drift A was acknowledged; drift B reached one webhook and failed at another; drift reverts to A; nothing is sent and the first webhook keeps B |
| `nothing_to_resolve` | violation | a first announcement reached one of two webhooks, the drift clears before the retry: the empty fingerprint is read as "never drifted", and that webhook is never told |
| `hot_loop` | violation | there is no predicate on the watch: an evaluation that ends in a later second than the one before writes a new `lastCheckedAt`, whose event brings the next at once |
| `hung_fetch` | violation | the context of a fetch has no deadline, so waiting for its end bounds nothing while the process runs |
| `blank_configmap` | violation | two blank entries are joined with a separator, and so are not empty |

Four smaller things met on the way. `status.observedGeneration` is set by an
evaluation alone, so a failure of a newer generation leaves it behind the
condition's (the API comment calls it the generation "last reconciled"). And a
CompareError whose text quotes the temporary checkout changes status each time, so
its own event overtakes the backoff, in the manner of `hot_loop`. The removal of a
checkout, or of the directory of a fetch, that fails after another call had failed
is told to nobody (`rerr != nil && err == nil`, git.go:115 and helm.go:139), though
the comment at git.go:104 says that a cleanup failure is returned; `LeaksAreNamed`
allows that, and only that. And `Send` takes the 2xx of a page that a 301, 302 or
303 points to for a delivery, though Go's client asks for it by a GET without the
event; its comment (notify.go:81-83) promises an error for a response that is not a
2xx.

`CHECK_DEADLOCK FALSE` stands wherever a system may rest: no check exists, or the
bounds are used up. `resolution` and `evaluation` never rest, and are checked for
deadlock.

## Fairness

`DriftCheckController!Fairness`: a reconcile in progress goes on (`WF` of `Worker`),
watch events arrive and timers fire (`WF`), and a name that is ready again and again
is served (`SF` of taking it). The last needs more than weak fairness because a
taken name leaves the queue and the single worker is busy in between; it is what a
first-in-first-out queue gives. That a reconcile goes on assumes that clones,
fetches and kustomize builds end; `hung_fetch` shows what becomes of that. Nothing is assumed of users,
cluster or faults, all of which stop at their bounds.

`NotificationConverges` does not hold of two processes without leader election: each
one's evaluation can invalidate the other's fingerprint write for ever, and both send
again each time. No document says otherwise. With election it holds, which is
`LeaderNotifies`. `ElectionFairness` has the same assumptions of each process while it
runs, and two more: a free lease is acquired by a process that waits for it, and a
process that lost the lease exits, as `main` does when `mgr.Start` returns. Leases
are lost `MaxHandovers` times; a system whose lease never rests need not converge.

`SourceLoading!Fairness`: the process's own steps, the send, and a clone whose
context has ended. Neither clones nor fetches have to answer, nor need a kustomize
build end, whose overlay may name remote files that it gets without the context and
without a timeout (`Building`); `StopReleasesWorker` promises nothing for such a
build but the end of the grace period. `CloneFairSpec`, used
by `hung_fetch` alone, lets clones answer, so that only the fetch is to blame.

## Proofs

TLC checks small instances; the theorems hold for every value of the constants. Each
component's proof has the same plan: the properties that matter are not inductive, so
an invariant `IndInv` is stated in the component's module, which says what holds at
every step in between. A run checks it, and the proof module shows that the initial
states satisfy it, that every action keeps it, one lemma per action, and that the
properties follow.

| Theorem | Module | Says |
|---|---|---|
| `TypeCorrect` | DriftCheckProofs | `Spec => []TypeInv` |
| `Inductive` | DriftCheckSafety | `Spec => []IndInv` |
| `NothingForgotten` | DriftCheckSafety | `Spec => []NoCheckForgotten` |
| `ResolvedAnswersDrift` | DriftCheckSafety | `Spec => []ResolvedOnlyAfterDrift` |
| `StatusIsCurrent` | DriftCheckSafety | `Spec => StatusDescribesCurrentSpec` |
| `FingerprintsAreEarned` | DriftCheckSafety | `Spec => FingerprintEarned` |
| `QuietInductive` | DriftCheckSafety | `Spec => []QuietInv`, of one process |
| `NothingRepeated` | DriftCheckSafety | `Spec => NoRepeat`, of one process |
| `HandInductive` | DriftCheckRefinement | `Spec => []HandInv` |
| `GaugesMatch` | DriftCheckRefinement | `Spec => []GaugeMatchesStatus` |
| `KeepsItsPromise` | DriftCheckRefinement | `Spec => PromiseKept`: DriftCheckController implements DriftPromise |
| `ElectionInductive` | LeaderElectionProofs | `ElectionSpec => [](IndInv /\ HandInv /\ LeaseInv)` |
| `NothingForgottenByLeaders` | LeaderElectionProofs | `ElectionSpec => []NoCheckForgotten` |
| `GaugesMatchAcrossHandovers` | LeaderElectionProofs | `ElectionSpec => []GaugeMatchesStatus` |
| `StatusIsCurrentAcrossHandovers` | LeaderElectionProofs | `ElectionSpec => StatusDescribesCurrentSpec` |
| `LeadersKeepThePromise` | LeaderElectionProofs | `ElectionSpec => PromiseKept`: LeaderElection implements DriftPromise |
| `Inductive`, `TypeCorrect` | ReconcileScheduleProofs | `IndInv` and `TypeOK` of the queue |
| `RunsOnTime` | ReconcileScheduleProofs | `Spec => []NeverLate` |
| `EditsAreSeen` | ReconcileScheduleProofs | `Spec => []EditsArePrompt` |
| `FailuresSettle` | ReconcileScheduleProofs | `Spec => []PermanentFailureSettles` |
| `Inductive`, `TypeCorrect` | SourceLoadingProofs | `IndInv` and `TypeOK` of loads and fetches |
| `NoLeakWithoutError` | SourceLoadingProofs | `Spec => []LeaksAreNamed` |
| `RendersAreComplete` | SourceLoadingProofs | `Spec => []RendersWhatWasFetched` |
| `OneFetchAtATime` | SourceLoadingProofs | `Spec => []FetchesDoNotOverlap` |
| `RoomForTheAnswer` | SourceLoadingProofs | `Spec => []SendsNeverBlock` |
| `Inductive`, `TypeCorrect` | WebhookDeliveryProofs | `IndInv` and `TypeOK` of resolution and delivery |
| `NoAnonymousFallback` | WebhookDeliveryProofs | `DeliverySpec => []ClonesAsAsked` |
| `FailClosed` | WebhookDeliveryProofs | `DeliverySpec => []HostKeysArePinned` |
| `NothingLost` | WebhookDeliveryProofs | `DeliverySpec => NoManifestLost` |
| `ToldWhereAsked` | WebhookDeliveryProofs | `DeliverySpec => []ShownWhereAsked` |
| `Inductive`, `TypeCorrect` | EvaluationProofs | `IndInv` and `TypeOK` of an evaluation |
| `RevisionWasNamed` | EvaluationProofs | `Spec => []ChecksOutWhatWasNamed` |
| `PrecedenceHolds` | EvaluationProofs | `Spec => []ValuesAsLayered` |
| `OutcomesWereTrue` | EvaluationProofs | `Spec => []ReadingWasTrue` |
| `SteadyStateRendered` | EvaluationProofs | `Spec => RendersSteadyState` |

### Assumptions

All are named, in the module that declares the constants, and TLC evaluates them:

- `DriftStatus`: finitely many resources. `DriftCheckController`: specs, readings and
  bounds are of their types; `Absent` is neither an object, nor a name, nor a message.
- `LeaderElection`: the bound is a number, the obstacles are obstacles; `Absent`, here
  also "nobody", is not the name of a process.
- `ReconcileSchedule`: the interval and the longest backoff are at least a second, the
  bounds are numbers. `SourceLoading`: the bounds are numbers.
- `SourceResolution`: requests, Secrets and ConfigMaps are of their types (no key of a
  ConfigMap is in `data` and `binaryData` at once, which the API server rejects);
  `Nil`, Go's nil, is none of the credentials.
- `GitRevision`: names and commits are apart, since git ignores a branch or tag that
  looks like a commit id; the default branch is a name. `HelmRendering`: a leaf of
  values is not a reference to a map. `Evaluation`: documents have placements.

### The controller

None of the properties is inductive. That an accepted write speaks of
the stored generation needs that the worker's object *is* the stored one, but for
the status it holds: `FreshWorkers`. A worker becomes fresh by reading a synced
copy, so that needs that a synced copy is the stored object: `SyncedCopies`. And it
needs that what a worker is about to write is stamped with its object's generation:
`StampedStatus`. That a fingerprint is earned needs to know how far the send loop has
come - every webhook of the spec either has the message, or is still to come, or the
loop has failed: `SendProgress`. The message is chosen by the tally and the
fingerprint by the list, so the two must agree on "no drift": `CountedStatus`, which
rests on the lemma that `Summarize` counts zero exactly when `Drifted` is empty. That
resolution follows drift needs that a stored fingerprint means somebody was told,
and since it travels through caches and workers, so must the invariant:
`FingerprintMeansTold`. `IndInv` is the conjunction; `core` checks it as an
invariant.

`DriftCheckProofs` has facts on the data, one lemma per action for the types, what
each step does to the reconcile it is a step of, who writes what (`ApiWriters`,
`HookWriters`, `OnlyOneWorks`), and the two parts on resourceVersions, `SyncedCopies`
and `FreshWorkers`. `DriftCheckSafety` has one lemma for each other part of `IndInv`
and action that can disturb it, and puts the parts together.

### One process repeats nothing

`NoRepeat` is about one process, as long as nothing has failed and its one check was
written by its user once. The theorem has that as `Replicas = {r}` and, since a webhook
that is listed twice does get every message twice, `HooksListedOnce`: no spec lists a
webhook twice. `core` meets both. `QuietInv` is inductive relative to `IndInv`. All
copies have the one spec (`OneSpec`). Once an evaluation is stored nobody else writes
the object: a user would edit it, another process there is not. So the reconcile that
stored it stays fresh, and sends each webhook one message (`LoopUndisturbed`). And
what each webhook heard last is what the stored fingerprint says, but for those that
the loop in progress has been at, which have its message (`HeardLast`). A reconcile
that starts from a cache without the last fingerprint is not fresh, and its status
write is refused before it sends; that is how a stale copy comes to nothing. At a send
`notify` found the list's fingerprint to differ from the stored one, and with
`HeardLast` the message differs from the last. `StepRepeatsNothing` has to exclude
every other step that could shorten the list.

### Hand-overs of the lease

While processes run, their steps are those of `DriftCheckController`
(`ElectionSteps`), so the lemmas about `Next` carry over; `Acquire` and `Exit` are
new. `Exit` takes away what the invariants speak of: copies with the current version,
a worker, a queue. `Acquire` gives a process a full cache and queue, and keeps its
worker and its series, so it needs that one that waits for the lease has none:
`LeaseInv`, whose part on the running of others rests on `OnlyOneWorks`, `OwnTimer`
and `OwnGauge`. Readers of status and webhooks see neither step, hence
`LeadersKeepThePromise`. The old leader needs no case of its own: its versions are
those of its copies, and whatever its successor has written makes them old.

### Gauges, and the refinement of DriftPromise

Both rest on `HandInv`, which is inductive relative to `IndInv` and says what every
program counter has in hand. `StatusInHand`: a worker whose object has the stored
version holds the stored status, or that status changed by exactly one statement - the
failure, evaluation or fingerprint it is about to write. `ListInHand`: the list a
worker will announce came from a reading. `GaugeInHand`: a worker that is about to
record a permanent failure has dropped its series, one that sends has set them to its
summary. `StaleIsNoticed`: a worker that lost a race will have its check again, since
the event of the write it lost to is still to come or has queued the name - without it
`GaugeMatchesStatus` fails, since a process that lost its write has its gauge wrong
until it comes back. That last part is why `Settled` may ask for an empty queue.

`KeepsItsPromise` maps `object` to `api` and `told` to `delivered`, and every step to
a step of `DriftPromise`: `CreateCheck`, `EditSpec` and `DeleteCheck` to `Create`,
`Edit` and `Delete`; an accepted `Publish` to `Evaluate` with the reading that
`StatusInHand` names; an accepted `MarkFailed` or `MarkTransient` to `Fail`; an
accepted `PersistFingerprint` to `Acknowledge`, whose guard - that every webhook of
the stored spec was told - is the earned fingerprint; `SendWebhook` to `Tell`, whose
guard for a resolution is `FingerprintMeansTold`. A refused write, a write that changes
nothing and all other steps stutter.

### The other components

`ReconcileSchedule`. `QueueShape` has at most one wake-up time, the one asked for,
from which `NeverLate` follows. That a permanent failure settles is an argument by
credit: `EarlyRunsAreLimited` bounds the early runs that there were *and* those that
events, the queue and the writes to come have in store by three, unless the next run
is due or owed to an edit. A write that is refused or fails spends no credit: its run
asks for the next one, which is then due. That a source may break with no more than
two events under way is `EventsAreFew`: a run that is not owed to an edit begins with
a cache that has everything, or all its writes are refused.

`SourceLoading`. The states of the load, its directory, its fetch and its channel are
not independent, and `IndInv` is the table of the combinations that can be:
`FetchProgress` for each fetch, `LoadProgress` for the load in progress,
`FetchesAreAwaited`: a fetch that is not over belongs to the load that waits for it,
or the process is being stopped. `Explains` counts the failures behind an outcome: an
error beside a directory that stays needs two, the one it names and the removal's,
from which `LeaksAreNamed` follows.

`SourceResolution` and `WebhookDelivery` are proved together, in the composition the
run checks. `CredentialsFit` is the agreement between `resolveGitAuth`, which fills
exactly one scheme, and `authMethod`, which takes the first it finds. `EventInHand`
ties what is sent to the webhook, whatever is redirected. `NothingLost` is proved from
the definitions alone.

`Evaluation`. For the revision, a clone is a copy of a remote that was there since the
load began, and every such remote has left what the reference stood for in `named`
(`RevisionInHand`); go-git's order of names then finds one of them. For the values,
`ValuesInHand` says that the result of the merge owns its maps: a key of it has a leaf,
or a map that a merged layer had under that same key, so that no map is reached
through two keys and merging in place can disturb no other. With that, one more layer
moves `Layered` as it moves `vals` and `heap`. The steady state follows from the
precedence after the last layer, read at the subchart's condition. For the comparison,
what is left to read is what has no outcome yet, and the truth at each moment is in
`truth` (`ComparisonInHand`).

### What is only model-checked

- All liveness (`StatusConverges`, `NotificationConverges`, `LeaderNotifies`,
  `StopReleasesWorker`): the prover does not reach fairness.
- The five counterexamples.

## Not modelled

- How two objects are compared (kube-diff), git, Helm and Kustomize themselves:
  libraries. What the code does with their outcomes is modelled, and what it relies
  on of them is marked external: the order in which go-git tries names, the pruning
  of subcharts, the roles of rendered files.
- References that look like an abbreviated commit, subcharts of subcharts, tags and
  `import-values` of charts, values nested deeper than two levels.
- Paths within a checkout and `SecureJoin`: which files are read is data here.
- Namespaces that ConfigMaps and Secrets are read from: the code passes that of the
  check, or the one the ConfigMap block names, and nothing else depends on it.
- Wording: messages, payloads, JSON, URLs, Kubernetes events. Nothing branches on
  them, with the exception noted under `ReconcileSchedule`.
- What the manager's client does with kinds it may not list. The markers grant `get`
  on Secrets alone, and the client reads through an informer that lists and watches;
  the models let a read of a Secret answer or fail.
- Flags other than `--leader-elect`, TLS, probes, RBAC manifests, Helm chart, CI
  scripts, generated code: static, or without state of their own.

## Plan

Written: the modules above and their proofs. Every safety property that a run checks
is a theorem. What is left is liveness, which stays with the runs until the prover
reaches fairness, and what "Not modelled" lists.
