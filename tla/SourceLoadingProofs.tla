--------------------------- MODULE SourceLoadingProofs ---------------------------
(***************************************************************************)
(* The safety properties of SourceLoading, for any number of loads and of  *)
(* faults: IndInv, which says how far the directory, the fetch and the     *)
(* channel of each load have come, is kept by every step, and implies      *)
(* what the runs check.                                                    *)
(***************************************************************************)
EXTENDS SourceLoading, TLAPS

LoadType == [number : 0..MaxLoads, kind : Kinds, at : Places, outcome : Outcomes]

-----------------------------------------------------------------------------
(* What moving the load in progress changes of it. *)

LEMMA GotoEffect ==
    ASSUME TypeOK, NEW place \in Places, Goto(place)
    PROVE  /\ load' \in LoadType
           /\ load'.number = load.number /\ load'.kind = load.kind
           /\ load'.at = place /\ load'.outcome = load.outcome
  BY DEF TypeOK, Goto, LoadType

LEMMA CleanupEffect ==
    ASSUME TypeOK, NEW outcome \in Outcomes, Cleanup(outcome)
    PROVE  /\ load' \in LoadType
           /\ load'.number = load.number /\ load'.kind = load.kind
           /\ load'.at = "cleanup" /\ load'.outcome = outcome
  BY DEF TypeOK, Cleanup, LoadType, Places

(* A load that is in progress is one of Loads, and has not returned. *)
LEMMA InProgress ==
    ASSUME IndInv, load.at # "idle"
    PROVE  /\ load.number \in Loads /\ load.number < next
           /\ result[load.number] = "none"
  BY LoadBounds DEF IndInv, TypeOK, LoadShape, Loads

(* Faults stay within the bound, and none is taken back. *)
LEMMA FaultType ==
    ASSUME TypeOK, Fault \/ UNCHANGED faults
    PROVE  /\ faults' \in 0..MaxFaults /\ faults' >= faults
           /\ Fault => faults' >= 1
  BY LoadBounds DEF TypeOK, Fault, Spend

-----------------------------------------------------------------------------
(* The steps of the worker. *)

LEMMA BeginKeeps ==
    ASSUME IndInv, NEW kind \in Kinds, Begin(kind)
    PROVE  IndInv'
  <1>1. /\ load = NoLoad /\ process = "running" /\ next \in Loads /\ next' = next + 1
        /\ UNCHANGED <<process, fetch, answer, done, scratch>>
    BY DEF IndInv, LoadShape, Begin, fetchVars
  <1>2. /\ next' \in 1..(MaxLoads + 1) /\ next \in 1..MaxLoads
        /\ faults' \in 0..MaxFaults /\ faults' >= faults
    BY <1>1, LoadBounds, FaultType DEF Begin, IndInv, Loads
  <1>3. /\ tree[next] = "absent" /\ result[next] = "none" /\ fetch[next] = "none"
        /\ next \notin scratch
    BY <1>1 DEF IndInv, TypeOK, UntouchedBeforehand, FetchProgress, Answering, Loads
  <1>4. FetchProgress'
    BY <1>1 DEF IndInv, FetchProgress, Answering
  <1>5. FetchesAreAwaited'
    BY <1>1 DEF IndInv, FetchesAreAwaited, NoLoad
  <1>6. CASE /\ tree' = [tree EXCEPT ![next] = "empty"]
             /\ load' = [number |-> next, kind |-> kind, at |-> "clone", outcome |-> "ok"]
             /\ UNCHANGED result
    <2>1. /\ load'.number = next /\ load'.kind = kind /\ load'.at = "clone"
          /\ load' \in LoadType
      BY <1>2, <1>6 DEF LoadType, Places, Outcomes
    <2>2. /\ tree' \in [Loads -> Trees] /\ tree'[next] = "empty"
          /\ \A n \in Loads : n # next => tree'[n] = tree[n]
      BY <1>1, <1>6 DEF IndInv, TypeOK, Trees
    <2>3. TypeOK'
      BY <1>1, <1>2, <1>6, <2>1, <2>2 DEF IndInv, TypeOK, LoadType
    <2>4. LoadShape'
      BY <1>1, <1>2, <1>3, <1>6, <2>1 DEF IndInv, TypeOK, LoadShape, Loads
    <2>5. UntouchedBeforehand'
      BY <1>1, <1>2, <1>6, <2>2 DEF IndInv, TypeOK, UntouchedBeforehand, Loads
    <2>6. LoadProgress'
      BY <1>1, <1>3, <2>1, <2>2 DEF LoadProgress
    <2>7. LeaksAreNamed'
      BY <1>1, <1>2, <1>3, <1>6, <2>2 DEF IndInv, TypeOK, LeaksAreNamed, Leaves
    <2> QED
      BY <1>4, <1>5, <2>3, <2>4, <2>5, <2>6, <2>7 DEF IndInv
  <1>7. CASE result' = [result EXCEPT ![next] = "error"] /\ UNCHANGED <<tree, load>>
    <2>1. /\ result' \in [Loads -> {"none"} \cup Outcomes] /\ result'[next] = "error"
          /\ \A n \in Loads : n # next => result'[n] = result[n]
      BY <1>1, <1>7 DEF IndInv, TypeOK, Outcomes
    <2>2. TypeOK'
      BY <1>1, <1>2, <1>7, <2>1 DEF IndInv, TypeOK
    <2>3. LoadShape'
      BY <1>1, <1>7 DEF LoadShape, NoLoad
    <2>4. UntouchedBeforehand'
      BY <1>1, <1>2, <1>7, <2>1 DEF IndInv, TypeOK, UntouchedBeforehand, Loads
    <2>5. LoadProgress'
      BY <1>1, <1>7 DEF LoadProgress, NoLoad
    <2>6. LeaksAreNamed'
      BY <1>1, <1>2, <1>3, <1>7, <2>1 DEF IndInv, TypeOK, LeaksAreNamed, Leaves
    <2> QED
      BY <1>4, <1>5, <2>2, <2>3, <2>4, <2>5, <2>6 DEF IndInv
  <1> QED
    BY <1>6, <1>7 DEF Begin

(* A step that moves the load in progress without ending it, and writes at *)
(* most its own directory, keeps what is not about its progress.           *)
LEMMA MoveKeeps ==
    ASSUME IndInv, load.at # "idle", load' \in LoadType,
           load'.number = load.number, load'.at # "idle",
           UNCHANGED <<process, next, result, answer, scratch>>,
           tree' \in [Loads -> Trees], fetch' \in [Loads -> {"none", "started", "sending", "ended"}],
           done' \in [Loads -> Seq(Outcomes)],
           faults' \in 0..MaxFaults, faults' >= faults,
           \A n \in Loads : n # load.number =>
              tree'[n] = tree[n] /\ fetch'[n] = fetch[n] /\ done'[n] = done[n]
    PROVE  TypeOK' /\ LoadShape' /\ UntouchedBeforehand' /\ LeaksAreNamed'
  <1>1. TypeOK'
    BY DEF IndInv, TypeOK, LoadType
  <1>2. LoadShape'
    BY DEF IndInv, LoadShape
  <1>3. UntouchedBeforehand'
    BY InProgress DEF IndInv, UntouchedBeforehand, TypeOK, Loads
  <1>4. LeaksAreNamed'
    BY InProgress DEF IndInv, TypeOK, LeaksAreNamed, Leaves
  <1> QED
    BY <1>1, <1>2, <1>3, <1>4

LEMMA CloneKeeps ==
    ASSUME IndInv, Clone
    PROVE  IndInv'
  <1> DEFINE n == load.number
  <1>1. load.at = "clone" /\ process # "stopped" /\ UNCHANGED <<process, next, result, fetchVars>>
    BY DEF Clone, At
  <1>2. /\ n \in Loads /\ fetch[n] = "none" /\ n \notin scratch
        /\ faults' \in 0..MaxFaults /\ faults' >= faults
    BY <1>1, InProgress, FaultType
    DEF IndInv, LoadProgress, FetchProgress, Answering, Clone, Fails
  <1>3. PICK left \in {"empty", "partial", "checkout"} :
           /\ tree' = [tree EXCEPT ![n] = left]
           /\ load' \in LoadType /\ load'.number = n /\ load'.kind = load.kind
           /\ \/ /\ left = "checkout"
                 /\ load'.at = IF load.kind = "HelmWithDependencies" THEN "spawn" ELSE "render"
              \/ /\ load'.at = "cleanup" /\ load'.outcome = "error"
                 /\ process = "running" => faults' >= 1
    <2>1. CASE Goto(IF load.kind = "HelmWithDependencies" THEN "spawn" ELSE "render")
               /\ tree' = [tree EXCEPT ![n] = "checkout"]
      BY <2>1, GotoEffect DEF IndInv, Places
    <2>2. CASE /\ \E left \in {"empty", "partial", "checkout"} : tree' = [tree EXCEPT ![n] = left]
               /\ Cleanup("error") /\ Fails
      BY <2>2, CleanupEffect, FaultType DEF IndInv, Fails, Cancelled, Outcomes
    <2> QED
      BY <2>1, <2>2 DEF Clone
  <1>4. /\ tree' \in [Loads -> Trees] /\ tree'[n] = left
        /\ \A m \in Loads : m # n => tree'[m] = tree[m]
    BY <1>2, <1>3 DEF IndInv, TypeOK, Trees
  <1>5. TypeOK' /\ LoadShape' /\ UntouchedBeforehand' /\ LeaksAreNamed'
    BY <1>1, <1>2, <1>3, <1>4, MoveKeeps DEF IndInv, TypeOK, fetchVars
  <1>6. FetchProgress'
    BY <1>1 DEF IndInv, FetchProgress, Answering, fetchVars
  <1>7. LoadProgress'
    BY <1>1, <1>2, <1>3, <1>4 DEF LoadProgress, Explains, Says, fetchVars
  <1>8. FetchesAreAwaited'
    BY <1>1 DEF IndInv, FetchesAreAwaited, fetchVars
  <1> QED
    BY <1>5, <1>6, <1>7, <1>8 DEF IndInv

LEMMA SpawnFetchKeeps ==
    ASSUME IndInv, SpawnFetch
    PROVE  IndInv'
  <1> DEFINE n == load.number
  <1>1. /\ load.at = "spawn" /\ process # "stopped"
        /\ UNCHANGED <<process, next, tree, result, answer, done, scratch, faults>>
    BY DEF SpawnFetch, At
  <1>2. n \in Loads /\ fetch[n] = "none" /\ n \notin scratch /\ tree[n] = "checkout"
    BY <1>1, InProgress DEF IndInv, LoadProgress, FetchProgress, Answering
  <1>3. /\ load' \in LoadType /\ load'.number = n /\ load'.at = "await"
        /\ load'.kind = "HelmWithDependencies"
    BY <1>1, GotoEffect DEF IndInv, LoadProgress, SpawnFetch, Places
  <1>4. /\ fetch' \in [Loads -> {"none", "started", "sending", "ended"}]
        /\ fetch'[n] = "started" /\ \A m \in Loads : m # n => fetch'[m] = fetch[m]
    BY <1>2 DEF SpawnFetch, IndInv, TypeOK
  <1>5. TypeOK' /\ LoadShape' /\ UntouchedBeforehand' /\ LeaksAreNamed'
    <2>1. faults' \in 0..MaxFaults /\ faults' >= faults
      BY <1>1, FaultType DEF IndInv
    <2> QED
      BY <1>1, <1>2, <1>3, <1>4, <2>1, MoveKeeps DEF IndInv, TypeOK
  <1>6. FetchProgress'
    BY <1>1, <1>2, <1>4 DEF IndInv, FetchProgress, Answering
  <1>7. LoadProgress'
    BY <1>1, <1>2, <1>3, <1>4 DEF LoadProgress, Awaited
  <1>8. FetchesAreAwaited'
    BY <1>1, <1>3, <1>4 DEF IndInv, FetchesAreAwaited
  <1> QED
    BY <1>5, <1>6, <1>7, <1>8 DEF IndInv

LEMMA AwaitFetchKeeps ==
    ASSUME IndInv, AwaitFetch
    PROVE  IndInv'
  <1> DEFINE n == load.number
  <1>1. /\ load.at = "await" /\ process # "stopped" /\ done[n] # <<>>
        /\ UNCHANGED <<process, next, tree, result, fetch, answer, scratch, faults>>
    BY DEF AwaitFetch, At
  <1>2. n \in Loads /\ fetch[n] = "ended" /\ load.kind = "HelmWithDependencies"
    BY <1>1, InProgress DEF IndInv, TypeOK, LoadProgress, FetchProgress, Answering, Awaited
  <1>3. done[n] \in Seq(Outcomes) /\ Len(done[n]) <= 1
    BY <1>2 DEF IndInv, TypeOK, FetchProgress, Answering
  <1>4. Tail(done[n]) \in Seq(Outcomes) /\ Len(Tail(done[n])) <= 1
    BY <1>1, <1>3
  <1>5. /\ done' \in [Loads -> Seq(Outcomes)] /\ Len(done'[n]) <= 1
        /\ \A m \in Loads : m # n => done'[m] = done[m]
    BY <1>2, <1>4 DEF AwaitFetch, IndInv, TypeOK
  <1>6. PICK outcome \in Outcomes :
           /\ Says(outcome, n)
           /\ load' \in LoadType /\ load'.number = n /\ load'.kind = load.kind
           /\ \/ load'.at = "render" /\ outcome = "ok"
              \/ load'.at = "cleanup" /\ load'.outcome = outcome
    <2> DEFINE outcome == Head(done[n])
    <2>1. outcome \in Outcomes
      BY <1>1, <1>3
    <2>2. Says(outcome, n)
      BY <1>1, <1>2 DEF IndInv, LoadProgress, Awaited
    <2>3. CASE outcome = "ok" /\ Goto("render")
      BY <2>1, <2>2, <2>3, GotoEffect DEF IndInv, Places
    <2>4. CASE Cleanup(outcome)
      BY <2>1, <2>2, <2>4, CleanupEffect DEF IndInv
    <2> QED
      BY <2>3, <2>4 DEF AwaitFetch
  <1>7. TypeOK' /\ LoadShape' /\ UntouchedBeforehand' /\ LeaksAreNamed'
    <2>1. faults' \in 0..MaxFaults /\ faults' >= faults
      BY <1>1, FaultType DEF IndInv
    <2> QED
      BY <1>1, <1>5, <1>6, <2>1, MoveKeeps DEF IndInv, TypeOK
  <1>8. FetchProgress'
    BY <1>1, <1>2, <1>5 DEF IndInv, FetchProgress, Answering
  <1>9. LoadProgress'
    BY <1>1, <1>2, <1>6 DEF LoadProgress, Says, Explains
  <1>10. FetchesAreAwaited'
    BY <1>1, <1>2, <1>6 DEF IndInv, FetchesAreAwaited
  <1> QED
    BY <1>7, <1>8, <1>9, <1>10 DEF IndInv

LEMMA AbandonFetchKeeps ==
    ASSUME IndInv, AbandonFetch
    PROVE  IndInv'
  <1>1. /\ load.at = "await" /\ process = "stopping"
        /\ UNCHANGED <<process, next, tree, result, fetch, answer, done, scratch, faults>>
    BY DEF AbandonFetch, At, Cancelled, fetchVars
  <1>2. /\ load' \in LoadType /\ load'.number = load.number /\ load'.kind = load.kind
        /\ load'.at = "cleanup"
    BY CleanupEffect DEF IndInv, AbandonFetch, Outcomes
  <1>3. TypeOK' /\ LoadShape' /\ UntouchedBeforehand' /\ LeaksAreNamed'
    <2>1. faults' \in 0..MaxFaults /\ faults' >= faults
      BY <1>1, FaultType DEF IndInv
    <2> QED
      BY <1>1, <1>2, <2>1, MoveKeeps DEF IndInv, TypeOK
  <1>4. FetchProgress' /\ FetchesAreAwaited'
    BY <1>1 DEF IndInv, FetchProgress, Answering, FetchesAreAwaited
  <1>5. LoadProgress'
    BY <1>1, <1>2 DEF IndInv, LoadProgress
  <1> QED
    BY <1>3, <1>4, <1>5 DEF IndInv

LEMMA RenderKeeps ==
    ASSUME IndInv, Render
    PROVE  IndInv'
  <1> DEFINE n == load.number
  <1>1. /\ load.at = "render" /\ process # "stopped"
        /\ UNCHANGED <<process, next, tree, result, fetch, answer, done, scratch>>
    BY DEF Render, At, fetchVars
  <1>2. n \in Loads /\ n \notin scratch
    BY <1>1, InProgress DEF IndInv, LoadProgress, FetchProgress, Answering, Says, Explains
  <1>3. /\ load' \in LoadType /\ load'.number = n /\ load'.kind = load.kind
        /\ load'.at = "cleanup"
        /\ load'.outcome = "ok" \/ (load'.outcome = "error" /\ faults' >= 1)
    BY CleanupEffect, FaultType DEF IndInv, Render, Outcomes
  <1>4. faults' \in 0..MaxFaults /\ faults' >= faults
    BY FaultType DEF IndInv, Render
  <1>5. TypeOK' /\ LoadShape' /\ UntouchedBeforehand' /\ LeaksAreNamed'
    BY <1>1, <1>3, <1>4, MoveKeeps DEF IndInv, TypeOK
  <1>6. FetchProgress'
    BY <1>1 DEF IndInv, FetchProgress, Answering
  <1>7. LoadProgress'
    BY <1>1, <1>2, <1>3 DEF IndInv, LoadProgress, Explains
  <1>8. FetchesAreAwaited'
    BY <1>1, <1>3 DEF IndInv, FetchesAreAwaited
  <1> QED
    BY <1>5, <1>6, <1>7, <1>8 DEF IndInv

(* The load in progress returns: what it leaves behind is in its result. *)
LEMMA RemoveKeeps ==
    ASSUME IndInv, Remove
    PROVE  IndInv'
  <1> DEFINE n == load.number
  <1>1. /\ load.at = "cleanup" /\ process # "stopped" /\ load' = NoLoad
        /\ UNCHANGED <<process, next, fetch, answer, done, scratch>>
    BY DEF Remove, At, fetchVars
  <1>2. /\ n \in Loads /\ n < next /\ load.outcome \in Outcomes
        /\ faults' \in 0..MaxFaults /\ faults' >= faults /\ (Fault => faults' = faults + 1)
    BY <1>1, InProgress, FaultType DEF IndInv, TypeOK, Remove, Spend, Fault
  <1>3. PICK outcome \in Outcomes, left \in Trees :
           /\ result' = [result EXCEPT ![n] = outcome]
           /\ tree' = [tree EXCEPT ![n] = left]
           /\ \/ left = "absent" /\ outcome = load.outcome
              \/ outcome = "leak"
              \/ outcome = "error" /\ load.outcome = "error" /\ faults' = faults + 1
    <2>1. CASE /\ tree' = [tree EXCEPT ![n] = "absent"]
               /\ result' = [result EXCEPT ![n] = load.outcome]
      BY <1>2, <2>1 DEF Trees
    <2>2. CASE /\ UNCHANGED tree /\ Fault
               /\ result' = [result EXCEPT ![n] =
                                IF load.outcome = "ok" THEN "leak" ELSE load.outcome]
      <3>1. tree[n] \in Trees /\ tree' = [tree EXCEPT ![n] = tree[n]]
        BY <1>2, <2>2 DEF IndInv, TypeOK
      <3> QED
        BY <1>2, <2>2, <3>1 DEF Outcomes
    <2> QED
      BY <2>1, <2>2 DEF Remove
  <1>4. /\ result' \in [Loads -> {"none"} \cup Outcomes] /\ result'[n] = outcome
        /\ \A m \in Loads : m # n => result'[m] = result[m]
    BY <1>2, <1>3 DEF IndInv, TypeOK
  <1>5. /\ tree' \in [Loads -> Trees] /\ tree'[n] = left
        /\ \A m \in Loads : m # n => tree'[m] = tree[m]
    BY <1>2, <1>3 DEF IndInv, TypeOK
  <1>6. TypeOK'
    <2>1. load' \in LoadType
      BY <1>1, LoadBounds DEF NoLoad, LoadType, Kinds, Places, Outcomes
    <2> QED
      BY <1>1, <1>2, <1>4, <1>5, <2>1 DEF IndInv, TypeOK, LoadType
  <1>7. LoadShape' /\ LoadProgress'
    BY <1>1 DEF LoadShape, LoadProgress, NoLoad
  <1>8. UntouchedBeforehand'
    <2> SUFFICES ASSUME NEW m \in Loads, m >= next
                 PROVE  tree'[m] = "absent" /\ result'[m] = "none" /\ fetch'[m] = "none"
      BY <1>1 DEF UntouchedBeforehand
    <2>1. m # n
      BY <1>2 DEF IndInv, TypeOK, Loads
    <2> QED
      BY <1>1, <1>4, <1>5, <2>1 DEF IndInv, UntouchedBeforehand
  <1>9. FetchProgress'
    BY <1>1 DEF IndInv, FetchProgress, Answering
  <1>10. FetchesAreAwaited'
    BY <1>1 DEF IndInv, FetchesAreAwaited
  <1>11. LeaksAreNamed'
    <2> SUFFICES ASSUME process = "running", NEW m \in Loads, result'[m] # "none", Leaves(m)'
                 PROVE  result'[m] = "leak" \/ (result'[m] = "error" /\ faults' >= 2)
      BY <1>1 DEF LeaksAreNamed
    <2>1. CASE m = n
      <3>1. Explains(load.outcome, n)
        BY <1>1 DEF IndInv, LoadProgress
      <3>2. CASE left = "absent" /\ outcome = load.outcome
        <4>1. n \in scratch
          BY <1>1, <1>5, <2>1, <3>2 DEF Leaves
        <4> QED
          BY <1>2, <1>3, <1>4, <2>1, <3>1, <3>2, <4>1
          DEF IndInv, TypeOK, Explains, Outcomes
      <3>3. CASE outcome = "leak"
        BY <1>4, <2>1, <3>3
      <3>4. CASE outcome = "error" /\ load.outcome = "error" /\ faults' = faults + 1
        BY <1>4, <2>1, <3>1, <3>4 DEF IndInv, TypeOK, Explains
      <3> QED
        BY <1>3, <3>2, <3>3, <3>4
    <2>2. CASE m # n
      BY <1>1, <1>2, <1>4, <1>5, <2>2 DEF IndInv, TypeOK, LeaksAreNamed, Leaves
    <2> QED
      BY <2>1, <2>2
  <1> QED
    BY <1>6, <1>7, <1>8, <1>9, <1>10, <1>11 DEF IndInv

-----------------------------------------------------------------------------
(* The steps of a fetch. *)

(* A fetch that has not ended is one of a load that began; the load waits  *)
(* for it or, once contexts are cancelled, has given it up.                *)
LEMMA FetchInProgress ==
    ASSUME IndInv, NEW m \in Loads, fetch[m] \in {"started", "sending"}
    PROVE  /\ m < next
           /\ process = "running" => load.at = "await" /\ load.number = m
           /\ load.number = m => load.at \in {"await", "cleanup"}
  <1>1. m < next
    BY DEF IndInv, TypeOK, UntouchedBeforehand, Loads
  <1>2. process = "running" => load.at = "await" /\ load.number = m
    BY DEF IndInv, FetchesAreAwaited
  <1>3. load.number = m => load.at # "idle"
    BY LoadBounds DEF IndInv, LoadShape, NoLoad, Loads
  <1>4. load.number = m => load.at \notin {"clone", "spawn", "render"}
    BY <1>3 DEF IndInv, LoadProgress
  <1>5. load.at \in Places
    BY DEF IndInv, TypeOK
  <1> QED
    BY <1>1, <1>2, <1>3, <1>4, <1>5 DEF Places

(* A step of a fetch under way is about its own load only, and keeps what  *)
(* does not depend on how far the fetch has come.                          *)
LEMMA FetcherKeeps ==
    ASSUME IndInv, NEW m \in Loads, fetch[m] \in {"started", "sending"},
           UNCHANGED <<process, load, next, result>>,
           tree' \in [Loads -> Trees], fetch' \in [Loads -> {"none", "started", "sending", "ended"}],
           answer' \in [Loads -> {"none"} \cup Outcomes],
           done' \in [Loads -> Seq(Outcomes)],
           faults' \in 0..MaxFaults, faults' >= faults, scratch' \subseteq Loads,
           \A n \in Loads : n # m =>
              /\ tree'[n] = tree[n] /\ fetch'[n] = fetch[n]
              /\ answer'[n] = answer[n] /\ done'[n] = done[n]
              /\ n \in scratch' <=> n \in scratch,
           Answering(m)',
           load.at = "await" /\ load.number = m => Awaited(m)'
    PROVE  IndInv'
  <1>1. TypeOK'
    BY DEF IndInv, TypeOK
  <1>2. LoadShape'
    BY DEF IndInv, LoadShape
  <1>3. UntouchedBeforehand'
    BY FetchInProgress DEF IndInv, TypeOK, UntouchedBeforehand, Loads
  <1>4. FetchProgress'
    BY DEF IndInv, FetchProgress, Answering
  <1>5. LoadProgress'
    <2>1. CASE load.number = m
      BY <2>1, FetchInProgress DEF IndInv, LoadProgress
    <2>2. CASE load.number # m /\ load.at # "idle"
      <3>1. \A outcome : Explains(outcome, load.number) => Explains(outcome, load.number)'
        BY <2>2, InProgress DEF IndInv, TypeOK, Explains
      <3>2. \A outcome : Says(outcome, load.number) => Says(outcome, load.number)'
        BY <2>2, <3>1, InProgress DEF Says
      <3> QED
        BY <2>2, <3>1, <3>2, InProgress DEF IndInv, TypeOK, LoadProgress, Awaited
    <2>3. CASE load.at = "idle"
      BY <2>3 DEF LoadProgress
    <2> QED
      BY <2>1, <2>2, <2>3
  <1>6. FetchesAreAwaited'
    BY FetchInProgress DEF IndInv, FetchesAreAwaited
  <1>7. LeaksAreNamed'
    BY FetchInProgress, InProgress DEF IndInv, TypeOK, LeaksAreNamed, Leaves
  <1> QED
    BY <1>1, <1>2, <1>3, <1>4, <1>5, <1>6, <1>7 DEF IndInv

LEMMA FetchPreparesKeeps ==
    ASSUME IndInv, NEW m \in Loads, FetchPrepares(m)
    PROVE  IndInv'
  <1>1. /\ fetch[m] = "started" /\ scratch' = scratch \cup {m}
        /\ UNCHANGED <<process, load, next, tree, result, fetch, answer, done, faults>>
    BY DEF FetchPrepares, Fetching
  <1>2. Answering(m)'
    BY <1>1 DEF IndInv, FetchProgress, Answering
  <1>3. load.at = "await" /\ load.number = m => Awaited(m)'
    BY <1>1 DEF IndInv, LoadProgress, Awaited
  <1> QED
    BY FaultType, <1>1, <1>2, <1>3, FetcherKeeps DEF IndInv, TypeOK

LEMMA FetchWritesKeeps ==
    ASSUME IndInv, NEW m \in Loads, FetchWrites(m)
    PROVE  IndInv'
  <1>1. /\ fetch[m] = "started"
        /\ UNCHANGED <<process, load, next, result, fetch, answer, done, scratch, faults>>
    BY DEF FetchWrites, Fetching, fetchVars
  <1>2. /\ tree' \in [Loads -> Trees] /\ tree'[m] = Writes(m)
        /\ \A n \in Loads : n # m => tree'[n] = tree[n]
    BY DEF FetchWrites, IndInv, TypeOK, Trees, Writes
  <1>3. Answering(m)'
    BY <1>1 DEF IndInv, FetchProgress, Answering
  <1>4. load.at = "await" /\ load.number = m => Awaited(m)'
    BY <1>1, <1>2 DEF IndInv, LoadProgress, Awaited, Writes
  <1> QED
    BY FaultType, <1>1, <1>2, <1>3, <1>4, FetcherKeeps DEF IndInv, TypeOK

LEMMA AnswersEffect ==
    ASSUME IndInv, NEW m \in Loads, NEW outcome \in Outcomes, Answers(m, outcome)
    PROVE  /\ fetch' \in [Loads -> {"none", "started", "sending", "ended"}]
           /\ answer' \in [Loads -> {"none"} \cup Outcomes]
           /\ fetch'[m] = "sending" /\ answer'[m] = outcome
           /\ \A n \in Loads : n # m => fetch'[n] = fetch[n] /\ answer'[n] = answer[n]
  BY DEF Answers, IndInv, TypeOK

LEMMA FetchSucceedsKeeps ==
    ASSUME IndInv, NEW m \in Loads, FetchSucceeds(m)
    PROVE  IndInv'
  <1>1. /\ fetch[m] = "started" /\ tree[m] \in {"partial", "debris"}
        /\ UNCHANGED <<process, load, next, result, done>>
    BY DEF FetchSucceeds, Fetching
  <1>2. /\ tree' \in [Loads -> Trees] /\ (tree[m] = "partial" => tree'[m] = "vendored")
        /\ \A n \in Loads : n # m => tree'[n] = tree[n]
    BY DEF FetchSucceeds, IndInv, TypeOK, Trees
  <1>3. PICK outcome \in {"ok", "leak"} :
           /\ Answers(m, outcome) /\ scratch' \in {scratch, scratch \ {m}}
           /\ outcome = "ok" => m \notin scratch'
    BY DEF FetchSucceeds
  <1>4. /\ faults' \in 0..MaxFaults /\ faults' >= faults /\ scratch' \subseteq Loads
        /\ \A n \in Loads : n # m => (n \in scratch' <=> n \in scratch)
    BY <1>3, FaultType DEF FetchSucceeds, IndInv, TypeOK
  <1>5. Answering(m)'
    BY <1>1, <1>3, AnswersEffect DEF IndInv, FetchProgress, Answering, Outcomes
  <1>6. load.at = "await" /\ load.number = m => Awaited(m)'
    BY <1>1, <1>2, <1>3, AnswersEffect DEF IndInv, LoadProgress, Awaited, Says, Explains, Outcomes
  <1>7. /\ fetch' \in [Loads -> {"none", "started", "sending", "ended"}]
        /\ answer' \in [Loads -> {"none"} \cup Outcomes] /\ done' \in [Loads -> Seq(Outcomes)]
        /\ \A n \in Loads : n # m => fetch'[n] = fetch[n] /\ answer'[n] = answer[n] /\ done'[n] = done[n]
    BY <1>1, <1>3, AnswersEffect DEF IndInv, TypeOK, Outcomes
  <1> QED
    BY <1>1, <1>2, <1>4, <1>5, <1>6, <1>7, FetcherKeeps

LEMMA FetchFailsKeeps ==
    ASSUME IndInv, NEW m \in Loads, FetchFails(m)
    PROVE  IndInv'
  <1>1. /\ fetch[m] = "started" /\ Answers(m, "error") /\ "error" \in Outcomes
        /\ UNCHANGED <<process, load, next, tree, result, done>>
    BY DEF FetchFails, Fetching, Outcomes
  <1>2. /\ scratch' \subseteq Loads
        /\ \A n \in Loads : n # m => (n \in scratch' <=> n \in scratch)
    BY DEF FetchFails, IndInv, TypeOK
  <1>3. /\ faults' \in 0..MaxFaults /\ faults' >= faults
        /\ tree[m] \notin {"absent", "debris"} => faults' >= IF m \in scratch' THEN 2 ELSE 1
    BY LoadBounds DEF FetchFails, IndInv, TypeOK, Spend, Causes
  <1>4. Answering(m)'
    BY <1>1, AnswersEffect DEF IndInv, FetchProgress, Answering
  <1>5. load.at = "await" /\ load.number = m => Awaited(m)'
    <2> SUFFICES ASSUME load.at = "await", load.number = m
                 PROVE  Awaited(m)'
      OBVIOUS
    <2>1. tree[m] \notin {"absent", "debris"}
      BY <1>1 DEF IndInv, LoadProgress, Awaited
    <2> QED
      BY <1>1, <1>3, <2>1, AnswersEffect DEF Awaited, Says, Explains
  <1> QED
    BY <1>1, <1>2, <1>3, <1>4, <1>5, AnswersEffect, FetcherKeeps DEF IndInv, TypeOK

LEMMA FetchSendsKeeps ==
    ASSUME IndInv, NEW m \in Loads, FetchSends(m)
    PROVE  IndInv'
  <1>1. /\ fetch[m] = "sending" /\ done' = [done EXCEPT ![m] = Append(@, answer[m])]
        /\ fetch' = [fetch EXCEPT ![m] = "ended"]
        /\ UNCHANGED <<process, load, next, tree, result, answer, scratch, faults>>
    BY DEF FetchSends
  <1>2. done[m] = <<>> /\ answer[m] \in Outcomes
    BY <1>1 DEF IndInv, TypeOK, FetchProgress, Answering
  <1>3. /\ done' \in [Loads -> Seq(Outcomes)] /\ done'[m] = <<answer[m]>>
        /\ \A n \in Loads : n # m => done'[n] = done[n]
    <2>1. Append(done[m], answer[m]) = <<answer[m]>> /\ <<answer[m]>> \in Seq(Outcomes)
      BY <1>2
    <2> QED
      BY <1>1, <2>1 DEF IndInv, TypeOK
  <1>4. /\ fetch' \in [Loads -> {"none", "started", "sending", "ended"}] /\ fetch'[m] = "ended"
        /\ \A n \in Loads : n # m => fetch'[n] = fetch[n]
    BY <1>1 DEF IndInv, TypeOK
  <1>5. Answering(m)'
    BY <1>1, <1>3, <1>4 DEF Answering
  <1>6. load.at = "await" /\ load.number = m => Awaited(m)'
    <2>1. done'[m] # <<>> /\ Head(done'[m]) = answer[m]
      BY <1>2, <1>3
    <2>2. load.at = "await" /\ load.number = m => Says(answer[m], m)
      BY <1>1 DEF IndInv, LoadProgress, Awaited
    <2>3. Says(answer[m], m) => Says(answer[m], m)'
      BY <1>1 DEF Says, Explains
    <2>4. Says(answer[m], m)' => Says(Head(done[m]), m)'
      BY <1>1, <2>1 DEF Says, Explains
    <2> QED
      BY <1>1, <1>4, <2>1, <2>2, <2>3, <2>4 DEF Awaited
  <1> QED
    BY FaultType, <1>1, <1>3, <1>4, <1>5, <1>6, FetcherKeeps DEF IndInv, TypeOK

-----------------------------------------------------------------------------
(* The manager. *)

LEMMA StopKeeps ==
    ASSUME IndInv, Stop \/ Exit
    PROVE  IndInv'
  <1>1. /\ UNCHANGED <<load, next, tree, result, fetch, answer, done, scratch, faults>>
        /\ process' \in {"stopping", "stopped"}
        /\ process' = "running" => process = "running"
    BY DEF Stop, Exit, fetchVars
  <1>2. TypeOK' /\ LoadShape' /\ UntouchedBeforehand'
    BY <1>1 DEF IndInv, TypeOK, LoadShape, UntouchedBeforehand
  <1>3. FetchProgress'
    BY <1>1 DEF IndInv, FetchProgress, Answering
  <1>4. LoadProgress'
    BY <1>1 DEF IndInv, LoadProgress, Awaited, Says, Explains
  <1>5. FetchesAreAwaited' /\ LeaksAreNamed'
    BY <1>1 DEF FetchesAreAwaited, LeaksAreNamed
  <1> QED
    BY <1>2, <1>3, <1>4, <1>5 DEF IndInv

LEMMA InitIndInv == Init => IndInv
  <1> SUFFICES ASSUME Init PROVE IndInv
    OBVIOUS
  <1>1. NoLoad \in LoadType
    BY LoadBounds DEF NoLoad, LoadType, Kinds, Places, Outcomes
  <1>2. TypeOK
    BY <1>1, LoadBounds DEF Init, TypeOK, LoadType, Trees
  <1>3. LoadShape /\ UntouchedBeforehand
    BY DEF Init, NoLoad, LoadShape, UntouchedBeforehand
  <1>4. FetchProgress
    BY DEF Init, FetchProgress, Answering
  <1>5. LoadProgress
    BY DEF Init, NoLoad, LoadProgress
  <1>6. FetchesAreAwaited /\ LeaksAreNamed
    BY DEF Init, FetchesAreAwaited, LeaksAreNamed
  <1> QED
    BY <1>2, <1>3, <1>4, <1>5, <1>6 DEF IndInv

LEMMA NextIndInv == IndInv /\ [Next]_vars => IndInv'
  <1> SUFFICES ASSUME IndInv, [Next]_vars PROVE IndInv'
    OBVIOUS
  <1>1. CASE Worker
    BY <1>1, BeginKeeps, CloneKeeps, SpawnFetchKeeps, AwaitFetchKeeps, AbandonFetchKeeps,
       RenderKeeps, RemoveKeeps DEF Worker
  <1>2. CASE \E n \in Loads : Fetcher(n)
    BY <1>2, FetchPreparesKeeps, FetchWritesKeeps, FetchSucceedsKeeps, FetchFailsKeeps,
       FetchSendsKeeps DEF Fetcher
  <1>3. CASE Stop \/ Exit
    BY <1>3, StopKeeps
  <1>4. CASE UNCHANGED vars
    BY <1>4 DEF vars, IndInv, TypeOK, LoadShape, UntouchedBeforehand, FetchProgress, Answering,
       LoadProgress, Awaited, Says, Explains, FetchesAreAwaited, LeaksAreNamed, Leaves
  <1> QED
    BY <1>1, <1>2, <1>3, <1>4 DEF Next

-----------------------------------------------------------------------------
(* IndInv holds in every reachable state, and with it the type invariant:  *)
(* no interleaving of the worker with the goroutines it has left behind    *)
(* takes a load, its directory or its channel anywhere else.               *)
THEOREM Inductive == Spec => []IndInv
  BY InitIndInv, NextIndInv, PTL DEF Spec

(* The variables keep their types; in particular a channel is a sequence   *)
(* of answers and nothing is counted beyond its bound.                     *)
THEOREM TypeCorrect == Spec => []TypeOK
  <1>1. IndInv => TypeOK
    BY DEF IndInv
  <1> QED
    BY <1>1, Inductive, PTL

(* Until the process is told to stop, a load that returned resources has   *)
(* removed its directory and its fetch the one of its own; an error names  *)
(* what was left, unless an earlier failure hides that of the removal.     *)
THEOREM NoLeakWithoutError == Spec => []LeaksAreNamed
  <1>1. IndInv => LeaksAreNamed
    BY DEF IndInv
  <1> QED
    BY <1>1, Inductive, PTL

(* runBuildDeps: renderHelmChart goes on only once the fetch has answered  *)
(* that the dependencies are there, and has ended.                         *)
THEOREM RendersAreComplete == Spec => []RendersWhatWasFetched
  <1>1. IndInv => RendersWhatWasFetched
    BY DEF IndInv, LoadProgress, Says, At, RendersWhatWasFetched
  <1> QED
    BY <1>1, Inductive, PTL

(* Until the process is told to stop, the worker waits for its fetch, so   *)
(* that no goroutine of an earlier load writes beside the next one.        *)
THEOREM OneFetchAtATime == Spec => []FetchesDoNotOverlap
  <1>1. IndInv => FetchesDoNotOverlap
    BY DEF IndInv, FetchesAreAwaited, FetchesDoNotOverlap
  <1> QED
    BY <1>1, Inductive, PTL

(* The one place in the buffered channel is free when a fetch has its      *)
(* answer, whether or not its load still waits for it.                     *)
THEOREM RoomForTheAnswer == Spec => []SendsNeverBlock
  <1>1. ASSUME IndInv, NEW n \in Loads, fetch[n] = "sending"
        PROVE  CanSend(n)
    BY <1>1 DEF IndInv, FetchProgress, Answering, CanSend, ChannelCapacity
  <1>2. IndInv => SendsNeverBlock
    BY <1>1 DEF SendsNeverBlock
  <1> QED
    BY <1>2, Inductive, PTL

=============================================================================
