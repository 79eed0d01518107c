----------------------------- MODULE SourceLoading -----------------------------
(***************************************************************************)
(* Load of the Git, Kustomize and Helm sources of internal/source: the     *)
(* checkout withCheckout makes and removes, the clone, the render, and the *)
(* goroutine in which runBuildDeps fetches a chart's dependencies, with    *)
(* the channel it answers on and the cancellation that abandons it.        *)
(*                                                                         *)
(* One controller process: its single worker loads one source after the    *)
(* other, each under the context of its reconcile, which ends only when    *)
(* the process is told to stop.                                            *)
(***************************************************************************)
EXTENDS Naturals, Sequences

CONSTANTS MaxLoads,      \* bound: loads of one process
          MaxFaults      \* bound: calls of the file system, git and helm that fail

ASSUME LoadBounds == MaxLoads \in Nat /\ MaxFaults \in Nat

(* A load is numbered, and so is the temporary directory MkdirTemp gives it. *)
Loads == 1..MaxLoads

Kinds == {"Git", "Kustomize", "Helm", "HelmWithDependencies"}

(* How a load or a fetch ends: well, with the error of a call that failed, *)
(* or with the error of the removal that failed after all else went well.  *)
Outcomes == {"ok", "error", "leak"}

VARIABLES
    process,     \* "running", "stopping" once contexts are cancelled, or "stopped"
    load,        \* the load in progress: its number, kind, place and outcome
    next,        \* the number of the next load
    tree,        \* what is in each load's directory
    result,      \* what each load returned
    fetch,       \* the goroutine of each load
    answer,      \* what it is about to send
    done,        \* the channel of each load
    scratch,     \* loads whose fetch has a repository directory of its own
    faults       \* how much of MaxFaults is used up

vars == <<process, load, next, tree, result, fetch, answer, done, scratch, faults>>
fetchVars == <<fetch, answer, done, scratch>>

-----------------------------------------------------------------------------
Places == {"idle", "clone", "spawn", "await", "render", "cleanup"}
NoLoad == [number |-> 0, kind |-> "Git", at |-> "idle", outcome |-> "ok"]

(* "partial" is what a call that failed half way leaves behind; "debris"   *)
(* is what is written after the directory was removed.                     *)
Trees == {"absent", "empty", "partial", "checkout", "vendored", "debris"}

Init ==
    /\ process = "running"
    /\ load = NoLoad /\ next = 1
    /\ tree = [n \in Loads |-> "absent"]
    /\ result = [n \in Loads |-> "none"]
    /\ fetch = [n \in Loads |-> "none"]
    /\ answer = [n \in Loads |-> "none"]
    /\ done = [n \in Loads |-> <<>>]
    /\ scratch = {}
    /\ faults = 0

At(place) == load.at = place /\ process # "stopped"
Goto(place) == load' = [load EXCEPT !.at = place]
Cleanup(outcome) == load' = [load EXCEPT !.at = "cleanup", !.outcome = outcome]
Spend(count) == faults + count <= MaxFaults /\ faults' = faults + count
Fault == Spend(1)
Cancelled == process = "stopping"

(* A call under the context fails because of a fault, or once cancelled. *)
Fails == Fault \/ (Cancelled /\ UNCHANGED faults)

-----------------------------------------------------------------------------
(* withCheckout. *)

Begin(kind) ==
    /\ process = "running" /\ load.at = "idle" /\ next \in Loads
    /\ next' = next + 1
    /\ \/ /\ tree' = [tree EXCEPT ![next] = "empty"]
          /\ load' = [number |-> next, kind |-> kind, at |-> "clone", outcome |-> "ok"]
          /\ UNCHANGED <<result, faults>>
       \/ /\ Fault
          /\ result' = [result EXCEPT ![next] = "error"]
          /\ UNCHANGED <<tree, load>>
    /\ UNCHANGED <<process, fetchVars>>

(* Authentication, clone, and checkout of ref; a failure of any of them,   *)
(* or of the sub-path's resolution, leaves what was written so far.        *)
Clone ==
    /\ At("clone")
    /\ \/ /\ tree' = [tree EXCEPT ![load.number] = "checkout"]
          /\ Goto(IF load.kind = "HelmWithDependencies" THEN "spawn" ELSE "render")
          /\ UNCHANGED faults
       \/ /\ Fails
          /\ \E left \in {"empty", "partial", "checkout"} :
                tree' = [tree EXCEPT ![load.number] = left]
          /\ Cleanup("error")
    /\ UNCHANGED <<process, next, result, fetchVars>>

(* Loading of plain manifests, kustomize build, or helm render. *)
Render ==
    /\ At("render")
    /\ \/ Cleanup("ok") /\ UNCHANGED faults
       \/ Fault /\ Cleanup("error")
    /\ UNCHANGED <<process, next, tree, result, fetchVars>>

(* Bug: the error of the removal is dropped. *)
Remove_Unreported ==
    /\ At("cleanup")
    /\ \/ tree' = [tree EXCEPT ![load.number] = "absent"] /\ UNCHANGED faults
       \/ UNCHANGED tree /\ Fault
    /\ result' = [result EXCEPT ![load.number] = load.outcome]
    /\ load' = NoLoad
    /\ UNCHANGED <<process, next, fetchVars>>

(* The deferred removal.  Its error is returned if there is none already,  *)
(* and dropped otherwise.                                                  *)
Remove ==
    /\ At("cleanup")
    /\ \/ /\ tree' = [tree EXCEPT ![load.number] = "absent"]
          /\ result' = [result EXCEPT ![load.number] = load.outcome]
          /\ UNCHANGED faults
       \/ /\ Fault
          /\ result' = [result EXCEPT ![load.number] =
                            IF load.outcome = "ok" THEN "leak" ELSE load.outcome]
          /\ UNCHANGED tree
    /\ load' = NoLoad
    /\ UNCHANGED <<process, next, fetchVars>>

-----------------------------------------------------------------------------
(* runBuildDeps. *)

SpawnFetch ==
    /\ At("spawn")
    /\ fetch' = [fetch EXCEPT ![load.number] = "started"]
    /\ Goto("await")
    /\ UNCHANGED <<process, next, tree, result, answer, done, scratch, faults>>

(* Bug: any answer will do. *)
AwaitFetch_Unchecked ==
    /\ At("await") /\ done[load.number] # <<>>
    /\ done' = [done EXCEPT ![load.number] = Tail(@)]
    /\ Goto("render")
    /\ UNCHANGED <<process, next, tree, result, fetch, answer, scratch, faults>>

AwaitFetch ==
    /\ At("await") /\ done[load.number] # <<>>
    /\ done' = [done EXCEPT ![load.number] = Tail(@)]
    /\ LET outcome == Head(done[load.number]) IN
       IF outcome = "ok" THEN Goto("render") ELSE Cleanup(outcome)
    /\ UNCHANGED <<process, next, tree, result, fetch, answer, scratch, faults>>

(* Bug: the worker waits for the fetch whatever happens. *)
AbandonFetch_Never == FALSE /\ UNCHANGED vars

(* Bug: a deadline, which a fetch does not know of. *)
AbandonFetch_AnyTime ==
    /\ At("await")
    /\ Cleanup("error")
    /\ UNCHANGED <<process, next, tree, result, fetchVars, faults>>

(* The other arm of the select: the fetch goes on without its load. *)
AbandonFetch ==
    /\ At("await") /\ Cancelled
    /\ Cleanup("error")
    /\ UNCHANGED <<process, next, tree, result, fetchVars, faults>>

(* The goroutine: buildDependencies reads the chart and makes a directory  *)
(* for repository files, then the Helm SDK writes charts/ under the chart, *)
(* making the directories above it if they are gone.                       *)
Fetching(n) == process # "stopped" /\ fetch[n] = "started"
Writes(n) == IF tree[n] \in {"absent", "debris"} THEN "debris" ELSE "partial"

FetchPrepares(n) ==
    /\ Fetching(n) /\ n \notin scratch /\ tree[n] # "absent"
    /\ scratch' = scratch \cup {n}
    /\ UNCHANGED <<process, load, next, tree, result, fetch, answer, done, faults>>

FetchWrites(n) ==
    /\ Fetching(n) /\ n \in scratch
    /\ tree' = [tree EXCEPT ![n] = Writes(n)]
    /\ UNCHANGED <<process, load, next, result, fetchVars, faults>>

(* Bug: the outcome is not passed on. *)
Answers_Nothing(n, outcome) ==
    /\ fetch' = [fetch EXCEPT ![n] = "sending"]
    /\ UNCHANGED answer

Answers(n, outcome) ==
    /\ fetch' = [fetch EXCEPT ![n] = "sending"]
    /\ answer' = [answer EXCEPT ![n] = outcome]

(* Bug: the error of that removal is dropped. *)
FetchSucceeds_Unreported(n) ==
    /\ Fetching(n) /\ n \in scratch /\ tree[n] \in {"partial", "debris"}
    /\ tree' = [tree EXCEPT ![n] = IF @ = "partial" THEN "vendored" ELSE @]
    /\ Answers(n, "ok")
    /\ \/ scratch' = scratch \ {n} /\ UNCHANGED faults
       \/ Fault /\ UNCHANGED scratch
    /\ UNCHANGED <<process, load, next, result, done>>

(* The deferred removal of the repository directory may fail too. *)
FetchSucceeds(n) ==
    /\ Fetching(n) /\ n \in scratch /\ tree[n] \in {"partial", "debris"}
    /\ tree' = [tree EXCEPT ![n] = IF @ = "partial" THEN "vendored" ELSE @]
    /\ \/ scratch' = scratch \ {n} /\ Answers(n, "ok") /\ UNCHANGED faults
       \/ Fault /\ Answers(n, "leak") /\ UNCHANGED scratch
    /\ UNCHANGED <<process, load, next, result, done>>

(* An error, or a panic that recover turns into one: of some call, or      *)
(* because the chart is gone.  If the deferred removal fails as well, the  *)
(* answer does not say so.                                                 *)
Causes(n) == IF tree[n] \in {"absent", "debris"} THEN 0 ELSE 1

FetchFails(n) ==
    /\ Fetching(n)
    /\ \/ scratch' = scratch \ {n} /\ Spend(Causes(n))
       \/ n \in scratch /\ UNCHANGED scratch /\ Spend(Causes(n) + 1)
    /\ Answers(n, "error")
    /\ UNCHANGED <<process, load, next, tree, result, done>>

(* Bug: an unbuffered channel. *)
ChannelCapacity_Unbuffered == 0

ChannelCapacity == 1

(* A send goes through when the channel has room, or a receiver waits. *)
Receiving(n) == At("await") /\ load.number = n
CanSend(n) == Len(done[n]) < ChannelCapacity \/ Receiving(n)

FetchSends(n) ==
    /\ process # "stopped" /\ fetch[n] = "sending" /\ CanSend(n)
    /\ done' = [done EXCEPT ![n] = Append(@, answer[n])]
    /\ fetch' = [fetch EXCEPT ![n] = "ended"]
    /\ UNCHANGED <<process, load, next, tree, result, answer, scratch, faults>>

-----------------------------------------------------------------------------
(* The manager is told to stop, waits for its worker, and exits; it does   *)
(* not wait longer than its grace period.                                  *)
Stop ==
    /\ process = "running"
    /\ process' = "stopping"
    /\ UNCHANGED <<load, next, tree, result, fetchVars, faults>>

Exit ==
    /\ process = "stopping"
    /\ process' = "stopped"
    /\ UNCHANGED <<load, next, tree, result, fetchVars, faults>>

Worker ==
    \/ \E kind \in Kinds : Begin(kind)
    \/ Clone \/ SpawnFetch \/ AwaitFetch \/ AbandonFetch \/ Render \/ Remove

Fetcher(n) ==
    \/ FetchPrepares(n) \/ FetchWrites(n) \/ FetchSucceeds(n) \/ FetchFails(n)
    \/ FetchSends(n)

Next == Worker \/ (\E n \in Loads : Fetcher(n)) \/ Stop \/ Exit

Spec == Init /\ [][Next]_vars

(* What the process does by itself it goes on doing.  A clone, a fetch or  *)
(* a kustomize build, whose overlay may name remote files, waits for a     *)
(* remote side, which may never answer; a clone ends when its context      *)
(* does, the other two do not.                                             *)
Building == load.at = "render" /\ load.kind = "Kustomize"
OwnSteps ==
    SpawnFetch \/ AwaitFetch \/ AbandonFetch \/ (~Building /\ Render) \/ Remove

Fairness ==
    /\ WF_vars(OwnSteps)
    /\ WF_vars(Cancelled /\ Clone)
    /\ \A n \in Loads : WF_vars(FetchSends(n))

FairSpec == Spec /\ Fairness

(* The remotes of clones answer; dependency repositories still may not. *)
CloneFairSpec == FairSpec /\ WF_vars(Clone)

-----------------------------------------------------------------------------
(* The type invariant. *)
TypeOK ==
    /\ process \in {"running", "stopping", "stopped"}
    /\ load \in [number : 0..MaxLoads, kind : Kinds, at : Places, outcome : Outcomes]
    /\ next \in 1..(MaxLoads + 1)
    /\ tree \in [Loads -> Trees]
    /\ result \in [Loads -> {"none"} \cup Outcomes]
    /\ fetch \in [Loads -> {"none", "started", "sending", "ended"}]
    /\ answer \in [Loads -> {"none"} \cup Outcomes]
    /\ done \in [Loads -> Seq(Outcomes)]
    /\ scratch \subseteq Loads
    /\ faults \in 0..MaxFaults

(* What load n left behind: its checkout, or the directory of its fetch. *)
Leaves(n) == tree[n] # "absent" \/ n \in scratch

(* While the process runs, a load that returned resources has left nothing *)
(* behind, and the error of one that did names the directory.  Only when   *)
(* another call of it had failed before is a failed removal told to        *)
(* nobody, against internal/source/git.go, "A cleanup failure is returned  *)
(* via the named err": no single failure leaks in silence, two may.        *)
LeaksAreNamed ==
    process = "running" =>
        \A n \in Loads :
            result[n] # "none" /\ Leaves(n) =>
                result[n] = "leak" \/ (result[n] = "error" /\ faults >= 2)

(* A chart with dependencies is rendered only from a directory they have   *)
(* been fetched into, completely, and that nobody writes any more.         *)
RendersWhatWasFetched ==
    At("render") =>
        IF load.kind = "HelmWithDependencies"
        THEN tree[load.number] = "vendored" /\ fetch[load.number] = "ended"
        ELSE tree[load.number] = "checkout"

(* While the process runs, at most the load in progress has a fetch: none  *)
(* outlives its load and writes into, or beside, the checkout of another.  *)
FetchesDoNotOverlap ==
    process = "running" =>
        \A n \in Loads : fetch[n] \in {"started", "sending"} => load.number = n

(* A fetch that has its outcome never waits for somebody to take it, also  *)
(* when its load has gone: "the buffered channel keeps that goroutine from *)
(* leaking".                                                               *)
SendsNeverBlock ==
    \A n \in Loads : fetch[n] = "sending" /\ process # "stopped" => CanSend(n)

(* The load in progress is the latest that began, and has not returned.    *)
LoadShape ==
    IF load.at = "idle" THEN load = NoLoad
    ELSE load.number \in 1..(next - 1) /\ result[load.number] = "none"

UntouchedBeforehand ==
    \A n \in Loads : n >= next =>
        tree[n] = "absent" /\ result[n] = "none" /\ fetch[n] = "none"

(* What an outcome says of the directory of the fetch of load n, and of    *)
(* what has failed.                                                        *)
Explains(outcome, n) ==
    /\ outcome = "ok" => n \notin scratch
    /\ outcome = "error" => faults >= IF n \in scratch THEN 2 ELSE 1

(* A fetch answers once. *)
Answering(n) ==
    /\ fetch[n] = "none" => n \notin scratch
    /\ fetch[n] # "ended" => done[n] = <<>>
    /\ fetch[n] = "sending" => answer[n] # "none"
    /\ Len(done[n]) <= 1

FetchProgress == \A n \in Loads : Answering(n)

(* What an awaited answer says of load n and its directory. *)
Says(outcome, n) ==
    Explains(outcome, n) /\ (outcome = "ok" => tree[n] = "vendored")

Awaited(n) ==
    /\ fetch[n] # "none"
    /\ fetch[n] = "started" => tree[n] \in {"checkout", "partial"}
    /\ fetch[n] = "sending" => Says(answer[n], n)
    /\ fetch[n] = "ended" => done[n] # <<>> /\ Says(Head(done[n]), n)

(* How far the load in progress has come, and its fetch with it. *)
LoadProgress ==
    LET n == load.number IN
    /\ load.at = "clone" => tree[n] = "empty" /\ fetch[n] = "none"
    /\ load.at = "spawn" => tree[n] = "checkout" /\ fetch[n] = "none"
    /\ load.at \in {"spawn", "await"} => load.kind = "HelmWithDependencies"
    /\ load.at # "idle" /\ load.kind # "HelmWithDependencies" => fetch[n] = "none"
    /\ load.at = "await" => Awaited(n)
    /\ load.at = "render" =>
          IF load.kind = "HelmWithDependencies" THEN Says("ok", n) /\ fetch[n] = "ended"
          ELSE tree[n] = "checkout"
    /\ load.at = "cleanup" /\ process = "running" => Explains(load.outcome, n)

(* Only a load that waits has a fetch, as long as nothing is cancelled. *)
FetchesAreAwaited ==
    process = "running" =>
        \A n \in Loads :
            fetch[n] \in {"started", "sending"} => load.at = "await" /\ load.number = n

(* What the properties above rest on, as an invariant every step keeps:    *)
(* each place of a load says how far its directory, its fetch and the      *)
(* channel between them have come.                                         *)
IndInv ==
    /\ TypeOK /\ LoadShape /\ UntouchedBeforehand /\ FetchProgress
    /\ LoadProgress /\ FetchesAreAwaited /\ LeaksAreNamed

(* A process that is told to stop gets its worker back, however long       *)
(* clones and fetches take, or its grace period ends.  A kustomize build   *)
(* of remote files knows neither the context nor a timeout: it may pin the *)
(* worker.                                                                 *)
StopReleasesWorker ==
    process = "stopping" ~> load.at = "idle" \/ Building \/ process = "stopped"

(* internal/source/helm.go: a hung dependency repository "would otherwise  *)
(* pin the reconcile worker indefinitely; honoring ctx bounds that wait".  *)
(* A worker that waits for a fetch goes on, sooner or later, or its        *)
(* process is gone.                                                        *)
FetchWaitIsBounded == load.at = "await" ~> load.at # "await" \/ process = "stopped"

=============================================================================
