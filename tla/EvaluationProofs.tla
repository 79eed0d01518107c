---------------------------- MODULE EvaluationProofs ----------------------------
(***************************************************************************)
(* What Evaluation promises, and with it GitRevision and HelmRendering,    *)
(* proved for every remote, every list of values files, every placement of *)
(* manifests and every number of pushes and changes of the cluster.        *)
(* IndInv is the inductive invariant; evaluation.cfg checks it with TLC.   *)
(***************************************************************************)
EXTENDS Evaluation, TLAPS

-----------------------------------------------------------------------------
(* References and what they stand for. *)

(* A remote has a pointer for every name, and one for its default branch. *)
LEMMA RemotePointers ==
    ASSUME NEW r \in Remotes, NEW n \in Names
    PROVE  /\ r.branches[n] \in Commits \cup {NoCommit}
           /\ r.tags[n] \in Commits \cup {NoCommit}
           /\ r.branches[Main] \in Commits /\ Main \in Names
  BY RevisionConstants DEF Remotes, Pointers

(* A reference stands for a commit, or for nothing. *)
LEMMA StandsForType ==
    ASSUME NEW r \in Remotes, NEW ref \in Refs
    PROVE  StandsFor(r, ref) \in Commits \cup {NoCommit}
  <1>1. CASE ref = NoRef
    BY <1>1, RemotePointers, RevisionConstants DEF StandsFor
  <1>2. CASE ref \in Commits
    BY <1>2, RevisionConstants DEF StandsFor
  <1>3. CASE ref \in Names
    BY <1>3, RemotePointers, RevisionConstants DEF StandsFor
  <1>. QED
    BY <1>1, <1>2, <1>3 DEF Refs

(* What resolveRevision, or the clone's own checkout, makes of a reference. *)
Resolves(c, ref) == IF ref = NoRef THEN c.heads[Main] ELSE ResolveRevision(c, ref)

(* In a clone, where all branches but one are remote-tracking, a reference *)
(* resolves to what it stood for at the remote that was cloned.            *)
LEMMA ClonesResolveAsTheirRemote ==
    ASSUME NEW r \in Remotes, NEW ref \in Refs
    PROVE  Resolves(Cloned(r), ref) = StandsFor(r, ref)
  <1>. DEFINE c == Cloned(r)
  <1>1. /\ c.tags = r.tags /\ c.origin = r.branches
        /\ c.heads = [n \in {Main} |-> r.branches[n]]
    BY DEF Cloned
  <1>2. DOMAIN c.heads = {Main} /\ c.heads[Main] = r.branches[Main]
    BY <1>1
  <1>3. Objects(c) = History(RemoteTips(r))
    BY <1>1 DEF Objects, RemoteTips
  <1>. HIDE DEF c
  <1>4. CASE ref = NoRef
    BY <1>2, <1>4, RevisionConstants DEF Resolves, StandsFor, c
  <1>5. CASE ref \in Commits
    <2>1. ref # NoRef /\ ref \notin Names
      BY <1>5, RevisionConstants
    <2>2. ResolveLocal(c, ref) = IF ref \in History(RemoteTips(r)) THEN ref ELSE NoCommit
      BY <1>2, <1>3, <1>5, <2>1, RevisionConstants DEF ResolveLocal
    <2>3. ResolveOrigin(c, ref) = NoCommit
      BY <2>1 DEF ResolveOrigin
    <2>4. StandsFor(r, ref) = IF ref \in History(RemoteTips(r)) THEN ref ELSE NoCommit
      BY <1>5, <2>1 DEF StandsFor
    <2>. QED
      BY <2>1, <2>2, <2>3, <2>4 DEF Resolves, ResolveRevision, c
  <1>6. CASE ref \in Names
    <2>1. ref # NoRef /\ ref \notin Commits
      BY <1>6, RevisionConstants
    <2>2. StandsFor(r, ref) = IF r.tags[ref] # NoCommit THEN r.tags[ref] ELSE r.branches[ref]
      BY <1>6, <2>1 DEF StandsFor
    <2>3. ResolveOrigin(c, ref) = r.branches[ref]
      BY <1>1, <1>6 DEF ResolveOrigin
    <2>4. CASE r.tags[ref] # NoCommit
      <3>1. ResolveLocal(c, ref) = r.tags[ref]
        BY <1>1, <1>6, <2>1, <2>4 DEF ResolveLocal
      <3>. QED
        BY <2>1, <2>2, <2>4, <3>1 DEF Resolves, ResolveRevision, c
    <2>5. CASE r.tags[ref] = NoCommit
      <3>1. ResolveLocal(c, ref) = IF ref = Main THEN r.branches[Main] ELSE NoCommit
        BY <1>1, <1>2, <1>6, <2>1, <2>5 DEF ResolveLocal
      <3>. QED
        BY <2>1, <2>2, <2>3, <2>5, <3>1 DEF Resolves, ResolveRevision, c
    <2>. QED
      BY <2>4, <2>5
  <1>. QED
    BY <1>4, <1>5, <1>6 DEF Refs

-----------------------------------------------------------------------------
(* The part of IndInv that is about the revision. *)
RevisionInv ==
    /\ commit \in Commits \cup {NoCommit} /\ (stage = "render" => commit # NoCommit)
    /\ named \subseteq Commits \cup {NoCommit}
    /\ RevisionInHand /\ ChecksOutWhatWasNamed

(* What a clone in hand resolves to was named since the load began. *)
LEMMA ResolvedWasNamed ==
    ASSUME RevisionInv, stage = "checkout", repo.clone # NoCommit
    PROVE  Resolved \in named
  <1>1. repo.ref \in Refs
    BY DEF RevisionInv, RevisionInHand, Repos
  <1>2. PICK r \in Remotes : repo.clone = Cloned(r) /\ StandsFor(r, repo.ref) \in named
    BY DEF RevisionInv, RevisionInHand
  <1>3. Resolved = Resolves(Cloned(r), repo.ref)
    BY <1>2 DEF Resolved, Resolves
  <1>. QED
    BY <1>1, <1>2, <1>3, ClonesResolveAsTheirRemote

(* Once nothing is named any more, nothing is left to be said of it. *)
LEMMA NothingNamed ==
    ASSUME commit' \in Commits \cup {NoCommit}, named' = {}, stage' \notin {"checkout", "render"}
    PROVE  RevisionInv'
  BY DEF RevisionInv, RevisionInHand, ChecksOutWhatWasNamed

(* The load begins: what the reference stands for is named. *)
LEMMA BeginNames ==
    ASSUME RevisionInv, Begin
    PROVE  RevisionInv'
  <1>1. PICK r \in Remotes, ref \in Refs :
          /\ repo' = [remote |-> r, ref |-> ref, clone |-> NoCommit, pushes |-> 0]
          /\ named' = {StandsFor(r, ref)}
    BY DEF Begin, OpenRepo
  <1>2. stage' = "checkout" /\ commit' = commit
    BY DEF Begin, OpenRepo, Goto
  <1>3. repo' \in Repos /\ repo'.clone = NoCommit /\ StandsFor(repo'.remote, repo'.ref) \in named'
    BY <1>1 DEF Repos
  <1>. QED
    BY <1>1, <1>2, <1>3, StandsForType DEF RevisionInv, RevisionInHand, ChecksOutWhatWasNamed

(* withCheckout, while pushes go on: each names what it makes of the       *)
(* reference, until the revision is checked out or refused.                *)
LEMMA FetchNames ==
    ASSUME RevisionInv, Fetch
    PROVE  RevisionInv'
  <1>. USE DEF RevisionInv, RevisionInHand, ChecksOutWhatWasNamed
  <1>1. stage = "checkout" /\ repo \in Repos /\ StandsFor(repo.remote, repo.ref) \in named
    BY DEF Fetch
  <1>2. repo.remote \in Remotes /\ repo.ref \in Refs /\ repo.pushes \in Nat
    BY <1>1 DEF Repos
  <1>3. CASE Push /\ UNCHANGED stage
    <2>1. PICK r \in Remotes \ {repo.remote} :
            /\ repo' = [repo EXCEPT !.remote = r, !.pushes = @ + 1]
            /\ named' = named \cup {StandsFor(r, repo.ref)}
      BY <1>3 DEF Push
    <2>2. /\ repo' \in Repos /\ repo'.remote = r /\ repo'.ref = repo.ref /\ repo'.clone = repo.clone
      <3>1. r \in Remotes /\ repo.pushes + 1 \in Nat
        BY <1>2
      <3>. HIDE DEF RevisionInv, RevisionInHand
      <3>2. repo' \in Repos
        BY <1>1, <2>1, <3>1 DEF Repos
      <3>. QED
        BY <1>1, <2>1, <3>2 DEF Repos
    <2>3. commit' = commit
      BY <1>3 DEF Push
    <2>. QED
      BY <1>1, <1>2, <1>3, <2>1, <2>2, <2>3, StandsForType
  <1>4. CASE CloneRemote /\ UNCHANGED stage
    <2>1. /\ repo' = [repo EXCEPT !.clone = Cloned(repo.remote)]
          /\ UNCHANGED <<commit, named>>
      BY <1>4 DEF CloneRemote
    <2>. DEFINE clone == Cloned(repo.remote)
    <2>2. clone \in Clones /\ repo' = [repo EXCEPT !.clone = clone]
      BY <1>2, <2>1 DEF Clones
    <2>. HIDE DEF clone
    <2>3. /\ repo' \in Repos /\ repo'.remote = repo.remote /\ repo'.ref = repo.ref
          /\ repo'.clone = clone
      BY <1>1, <2>2 DEF Repos
    <2>4. \E r \in Remotes : repo'.clone = Cloned(r) /\ StandsFor(r, repo'.ref) \in named'
      <3>1. repo'.clone = Cloned(repo.remote) /\ StandsFor(repo.remote, repo'.ref) \in named'
        BY <1>1, <2>1, <2>3 DEF clone
      <3>. QED
        BY <1>2, <3>1
    <2>5. StandsFor(repo'.remote, repo'.ref) \in named' /\ stage' = "checkout"
      BY <1>1, <1>4, <2>1, <2>3
    <2>. QED
      BY <2>1, <2>3, <2>4, <2>5
  <1>5. CASE CheckOut /\ Goto("render")
    <2>1. /\ stage' = "render" /\ repo.clone # NoCommit /\ Resolved # NoCommit
          /\ commit' = Resolved /\ named' = named
      BY <1>5 DEF CheckOut, Goto
    <2>2. Resolved \in named
      BY <1>1, <2>1, ResolvedWasNamed
    <2>. QED
      BY <2>1, <2>2
  <1>6. CASE (CloneFails \/ CheckOutFails) /\ Goto("CompareError")
    BY <1>6, NothingNamed DEF CloneFails, CheckOutFails, Goto
  <1>7. CASE RefuseRevision /\ Goto("CompareError")
    <2>1. /\ stage' = "CompareError" /\ repo.clone # NoCommit /\ Resolved = NoCommit
          /\ UNCHANGED <<commit, named>>
      BY <1>7 DEF RefuseRevision, Goto
    <2>2. NoCommit \in named
      BY <1>1, <2>1, ResolvedWasNamed
    <2>. QED
      BY <2>1, <2>2
  <1>. QED
    BY <1>3, <1>4, <1>5, <1>6, <1>7 DEF Fetch

(* Every step names, and checks out, as withCheckout does. *)
LEMMA RevisionSteps ==
    ASSUME RevisionInv, [Next]_vars
    PROVE  RevisionInv'
  <1>1. commit \in Commits \cup {NoCommit}
    BY DEF RevisionInv
  <1>2. CASE RenderPlain
    BY <1>2, NothingNamed DEF RenderPlain, Goto
  <1>3. CASE BeginHelm
    BY <1>3, NothingNamed DEF BeginHelm, Goto
  <1>4. CASE End
    BY <1>4, NothingNamed DEF End, Goto
  <1>5. CASE Merge \/ RenderChart
    <2>1. stage = "merge" /\ stage' \in {"merge", "filter", "CompareError"} /\ UNCHANGED <<commit, named>>
      BY <1>5 DEF Merge, RenderChart, Goto, revisionVars
    <2>. QED
      BY <1>1, <2>1, NothingNamed DEF RevisionInv, RevisionInHand
  <1>6. CASE Filter \/ CompareNext \/ ClusterChanges
    <2>1. /\ stage \in {"filter", "compare"} /\ UNCHANGED <<commit, named>>
          /\ stage' \in {"compare", "evaluated", "FetchError", "CompareError"}
      BY <1>6 DEF Filter, CompareNext, ClusterChanges, Read, Record, Goto, revisionVars
    <2>. QED
      BY <1>1, <2>1, NothingNamed DEF RevisionInv, RevisionInHand
  <1>7. CASE UNCHANGED vars
    BY <1>7 DEF vars, revisionVars, RevisionInv, RevisionInHand, ChecksOutWhatWasNamed
  <1>. QED
    BY <1>2, <1>3, <1>4, <1>5, <1>6, <1>7, BeginNames, FetchNames DEF Next

-----------------------------------------------------------------------------
(* The part of IndInv that is about the comparison. *)
ComparisonInv ==
    /\ stream \subseteq Documents /\ target \in Targets \cup {Missing}
    /\ ComparisonInHand

LiveOutcomes == {"unchanged", "changed", "new"}

(* Comparing a live object has an outcome. *)
LEMMA OutcomeType ==
    ASSUME NEW state \in LiveStates
    PROVE  Outcome(state) \in LiveOutcomes
  BY DEF LiveStates, Outcome, LiveOutcomes

(* The target filter lets through what spec.target asks for, no more and   *)
(* no less.                                                                *)
LEMMA FilterKeepsWanted ==
    ASSUME target \in Targets, NEW d \in Documents
    PROVE  InNamespaces(d, target.namespaces) /\ Matches(d, target.selector) <=> ~Excluded(d)
  <1>1. target.selector \in {"none", "in", "notIn"}
    BY DEF Targets
  <1>2. InNamespaces(d, target.namespaces) <=>
          ~(target.namespaces # {} /\ (\A n \in target.namespaces : Placements[d].namespace # n))
    BY DEF InNamespaces
  <1>3. CASE target.selector = "none"
    BY <1>2, <1>3 DEF Matches, Excluded
  <1>4. CASE target.selector = "in"
    BY <1>2, <1>4 DEF Matches, Excluded
  <1>5. CASE target.selector = "notIn"
    BY <1>2, <1>5 DEF Matches, Excluded
  <1>. QED
    BY <1>1, <1>3, <1>4, <1>5

(* A step to a stage in which nothing is compared. *)
LEMMA NothingCompared ==
    ASSUME stage' \notin {"filter", "compare", "evaluated"},
           stream' \subseteq Documents, target' \in Targets \cup {Missing}
    PROVE  ComparisonInv'
  BY DEF ComparisonInv, ComparisonInHand

(* The rendered documents are some of the chart's, or of the checkout's. *)
LEMMA RenderingPreserves ==
    ASSUME ComparisonInv, RenderPlain \/ RenderChart
    PROVE  ComparisonInv'
  <1>1. stream \subseteq Documents /\ target \in Targets \cup {Missing}
    BY DEF ComparisonInv
  <1>2. CASE stage' = "CompareError" /\ UNCHANGED filterVars
    BY <1>1, <1>2, NothingCompared DEF filterVars
  <1>3. CASE stage' = "filter" /\ target' \in Targets /\ stream' \subseteq Documents
    BY <1>3 DEF ComparisonInv, ComparisonInHand
  <1>4. Stream(Kept) \subseteq Documents
    BY DEF Stream, CRDObjects, SortManifests, DropNotes, RenderedFiles
  <1>. QED
    BY <1>2, <1>3, <1>4 DEF RenderPlain, RenderChart, Goto

(* Filter: what is kept is what was wanted, and all of it is left to do. *)
LEMMA FilterPreserves ==
    ASSUME ComparisonInv, Filter
    PROVE  ComparisonInv'
  <1>. DEFINE kept == {d \in stream :
                        InNamespaces(d, target.namespaces) /\ Matches(d, target.selector)}
              wanted == {d \in stream : ~Excluded(d)}
  <1>1. stage = "filter" /\ stream \subseteq Documents /\ target \in Targets
    BY DEF Filter, ComparisonInv, ComparisonInHand
  <1>2. kept = wanted /\ kept \subseteq Documents
    BY <1>1, FilterKeepsWanted
  <1>3. PICK live \in [kept -> LiveStates] :
          cmp' = [todo |-> kept, live |-> live, access |-> "granted", reading |-> NoValues,
                  changes |-> 0, truth |-> [d \in kept |-> {Outcome(live[d])}], wanted |-> wanted]
    BY DEF Filter
  <1>4. stage' = "compare" /\ stream' = {} /\ target' = Missing
    BY DEF Filter, Goto
  <1>. HIDE DEF kept, wanted
  <1>. DEFINE truth == [d \in kept |-> {Outcome(live[d])}]
  <1>5. truth \in [kept -> SUBSET LiveOutcomes]
    BY <1>3, OutcomeType
  <1>6. \A d \in kept : Outcome(live[d]) \in truth[d]
    OBVIOUS
  <1>. HIDE DEF truth
  <1>7. cmp' = [todo |-> kept, live |-> live, access |-> "granted", reading |-> NoValues,
                changes |-> 0, truth |-> truth, wanted |-> kept]
    BY <1>2, <1>3 DEF truth
  <1>8. DOMAIN NoValues = {} /\ NoValues \in [{} -> LiveOutcomes]
    BY DEF NoValues
  <1>9. NoValues \in UNION {[S -> LiveOutcomes] : S \in SUBSET kept}
    BY <1>8
  <1>10. cmp' \in Comparisons(kept)
    BY <1>5, <1>7, <1>9 DEF Comparisons, LiveOutcomes
  <1>11. /\ cmp'.wanted = kept /\ cmp'.todo = kept /\ cmp'.live = live
         /\ cmp'.truth = truth /\ cmp'.reading = NoValues
    BY <1>7
  <1>. QED
    BY <1>2, <1>4, <1>6, <1>8, <1>10, <1>11 DEF ComparisonInv, ComparisonInHand

(* What is known of a comparison in progress, in the fields of cmp. *)
LEMMA InProgress ==
    ASSUME ComparisonInv, stage = "compare"
    PROVE  /\ cmp.wanted \subseteq Documents /\ cmp \in Comparisons(cmp.wanted)
           /\ cmp.todo \subseteq cmp.wanted /\ cmp.live \in [cmp.wanted -> LiveStates]
           /\ cmp.truth \in [cmp.wanted -> SUBSET LiveOutcomes]
           /\ cmp.reading \in [cmp.wanted \ cmp.todo -> LiveOutcomes] /\ cmp.changes \in Nat
           /\ \A d \in cmp.wanted : Outcome(cmp.live[d]) \in cmp.truth[d]
           /\ \A d \in cmp.wanted \ cmp.todo : cmp.reading[d] \in cmp.truth[d]
  <1>1. /\ cmp.wanted \subseteq Documents /\ cmp \in Comparisons(cmp.wanted)
        /\ DOMAIN cmp.reading = cmp.wanted \ cmp.todo
        /\ \A d \in cmp.wanted : Outcome(cmp.live[d]) \in cmp.truth[d]
        /\ \A d \in DOMAIN cmp.reading : cmp.reading[d] \in cmp.truth[d]
    BY DEF ComparisonInv, ComparisonInHand
  <1>2. /\ cmp.todo \subseteq cmp.wanted /\ cmp.live \in [cmp.wanted -> LiveStates]
        /\ cmp.truth \in [cmp.wanted -> SUBSET LiveOutcomes] /\ cmp.changes \in Nat
        /\ cmp.reading \in UNION {[S -> LiveOutcomes] : S \in SUBSET cmp.wanted}
    BY <1>1 DEF Comparisons, LiveOutcomes
  <1>. QED
    BY <1>1, <1>2

(* Read: the outcome that is recorded is true of the object at that moment. *)
LEMMA ReadPreserves ==
    ASSUME ComparisonInv, stage = "compare", NEW d \in cmp.todo,
           Record(d, Outcome(cmp.live[d])), UNCHANGED filterVars
    PROVE  ComparisonInv'
  <1>. DEFINE outcome == Outcome(cmp.live[d])
              reading == Over(cmp.reading, [o \in {d} |-> outcome])
              todo == cmp.todo \ {d}
              wanted == cmp.wanted
  <1>1. /\ wanted \subseteq Documents /\ cmp \in Comparisons(wanted)
        /\ cmp.todo \subseteq wanted /\ cmp.live \in [wanted -> LiveStates]
        /\ cmp.reading \in [wanted \ cmp.todo -> LiveOutcomes]
        /\ \A e \in wanted : Outcome(cmp.live[e]) \in cmp.truth[e]
        /\ \A e \in wanted \ cmp.todo : cmp.reading[e] \in cmp.truth[e]
    BY InProgress
  <1>2. outcome \in LiveOutcomes /\ outcome \in cmp.truth[d]
    BY <1>1, OutcomeType
  <1>3. cmp' = [cmp EXCEPT !.todo = todo, !.reading = reading] /\ stage' = "compare"
    BY DEF Record
  <1>. HIDE DEF outcome
  <1>4. reading = [e \in wanted \ todo |-> IF e \in wanted \ cmp.todo THEN cmp.reading[e] ELSE outcome]
    BY <1>1 DEF Over
  <1>5. /\ reading \in [wanted \ todo -> LiveOutcomes]
        /\ \A e \in wanted \ todo : reading[e] \in cmp.truth[e]
    BY <1>1, <1>2, <1>4
  <1>6. reading \in UNION {[S -> LiveOutcomes] : S \in SUBSET wanted}
    BY <1>5
  <1>7. todo \in SUBSET wanted
    BY <1>1
  <1>. HIDE DEF reading, todo
  <1>8. cmp' \in Comparisons(wanted)
    BY <1>1, <1>3, <1>6, <1>7 DEF Comparisons, LiveOutcomes
  <1>9. /\ cmp'.wanted = cmp.wanted /\ cmp'.live = cmp.live /\ cmp'.truth = cmp.truth
        /\ cmp'.todo = todo /\ cmp'.reading = reading
    BY <1>1, <1>3 DEF Comparisons
  <1>10. DOMAIN reading = wanted \ todo
    BY <1>5
  <1>11. stream' \subseteq Documents /\ target' \in Targets \cup {Missing}
    BY DEF ComparisonInv, filterVars
  <1>. QED
    BY <1>1, <1>3, <1>5, <1>8, <1>9, <1>10, <1>11 DEF ComparisonInv, ComparisonInHand

(* A change of the cluster becomes true of the object, and what was true   *)
(* of it before stays so.                                                  *)
LEMMA ClusterPreserves ==
    ASSUME ComparisonInv, ClusterChanges
    PROVE  ComparisonInv'
  <1>. DEFINE wanted == cmp.wanted
  <1>1. stage = "compare" /\ UNCHANGED <<stage, filterVars>>
    BY DEF ClusterChanges
  <1>2. /\ wanted \subseteq Documents /\ cmp \in Comparisons(wanted)
        /\ cmp.todo \subseteq wanted /\ cmp.live \in [wanted -> LiveStates]
        /\ cmp.truth \in [wanted -> SUBSET LiveOutcomes]
        /\ cmp.reading \in [wanted \ cmp.todo -> LiveOutcomes] /\ cmp.changes \in Nat
        /\ \A e \in wanted : Outcome(cmp.live[e]) \in cmp.truth[e]
        /\ \A e \in wanted \ cmp.todo : cmp.reading[e] \in cmp.truth[e]
    BY <1>1, InProgress
  <1>3. stream' \subseteq Documents /\ target' \in Targets \cup {Missing}
    BY <1>1 DEF ComparisonInv, filterVars
  <1>4. CASE \E d \in DOMAIN cmp.live : \E state \in LiveStates \ {cmp.live[d]} :
               cmp' = [cmp EXCEPT !.changes = @ + 1, !.live[d] = state,
                                  !.truth[d] = @ \cup {Outcome(state)}]
    <2>1. PICK d \in wanted, state \in LiveStates :
            cmp' = [cmp EXCEPT !.changes = @ + 1, !.live[d] = state,
                               !.truth[d] = @ \cup {Outcome(state)}]
      BY <1>2, <1>4
    <2>. DEFINE live == [cmp.live EXCEPT ![d] = state]
                truth == [cmp.truth EXCEPT ![d] = @ \cup {Outcome(state)}]
                changes == cmp.changes + 1
    <2>2. cmp' = [cmp EXCEPT !.changes = changes, !.live = live, !.truth = truth]
      BY <1>2, <2>1 DEF Comparisons
    <2>3. changes \in Nat /\ live \in [wanted -> LiveStates]
      BY <1>2
    <2>4. Outcome(state) \in LiveOutcomes
      BY OutcomeType
    <2>5. truth \in [wanted -> SUBSET LiveOutcomes]
      BY <1>2, <2>4
    <2>6. \A e \in wanted : cmp.truth[e] \subseteq truth[e] /\ Outcome(live[e]) \in truth[e]
      BY <1>2
    <2>. HIDE DEF live, truth, changes
    <2>7. cmp' \in Comparisons(wanted)
      BY <1>2, <2>2, <2>3, <2>5 DEF Comparisons, LiveOutcomes
    <2>8. /\ cmp'.wanted = cmp.wanted /\ cmp'.live = live /\ cmp'.truth = truth
          /\ cmp'.todo = cmp.todo /\ cmp'.reading = cmp.reading
      BY <1>2, <2>2 DEF Comparisons
    <2>9. DOMAIN cmp.reading = wanted \ cmp.todo
      BY <1>2
    <2>10. \A e \in wanted \ cmp.todo : cmp.reading[e] \in truth[e]
      BY <1>2, <2>6
    <2>. QED
      BY <1>1, <1>2, <1>3, <2>6, <2>7, <2>8, <2>9, <2>10 DEF ComparisonInv, ComparisonInHand
  <1>5. CASE \E access \in {"granted", "forbidden", "broken"} \ {cmp.access} :
               cmp' = [cmp EXCEPT !.changes = @ + 1, !.access = access]
    <2>1. PICK access \in {"granted", "forbidden", "broken"} :
            cmp' = [cmp EXCEPT !.changes = @ + 1, !.access = access]
      BY <1>5
    <2>2. cmp' \in Comparisons(wanted)
      <3>. DEFINE changes == cmp.changes + 1
      <3>1. changes \in Nat /\ cmp' = [cmp EXCEPT !.changes = changes, !.access = access]
        BY <1>2, <2>1 DEF Comparisons
      <3>. HIDE DEF changes
      <3>. QED
        BY <1>2, <3>1 DEF Comparisons
    <2>3. /\ cmp'.wanted = cmp.wanted /\ cmp'.live = cmp.live /\ cmp'.truth = cmp.truth
          /\ cmp'.todo = cmp.todo /\ cmp'.reading = cmp.reading
      BY <1>2, <2>1 DEF Comparisons
    <2>4. DOMAIN cmp.reading = wanted \ cmp.todo
      BY <1>2
    <2>. QED
      BY <1>1, <1>2, <1>3, <2>2, <2>3, <2>4 DEF ComparisonInv, ComparisonInHand
  <1>. QED
    BY <1>4, <1>5 DEF ClusterChanges

(* Every step compares what is wanted, with outcomes that were true. *)
LEMMA ComparisonSteps ==
    ASSUME ComparisonInv, [Next]_vars
    PROVE  ComparisonInv'
  <1>1. stream \subseteq Documents /\ target \in Targets \cup {Missing}
    BY DEF ComparisonInv
  <1>2. CASE Begin \/ Fetch \/ BeginHelm \/ Merge
    <2>1. /\ stage' \in {"checkout", "render", "merge", "CompareError"}
          /\ UNCHANGED filterVars
      BY <1>2 DEF Begin, Fetch, BeginHelm, Merge, Goto
    <2>. QED
      BY <1>1, <2>1, NothingCompared DEF filterVars
  <1>3. CASE RenderPlain \/ RenderChart
    BY <1>3, RenderingPreserves
  <1>4. CASE CompareNext
    <2>1. stage = "compare" /\ UNCHANGED filterVars
      BY <1>4 DEF CompareNext
    <2>2. CASE \E d \in cmp.todo : Read(d)
      <3>1. PICK d \in cmp.todo : Read(d)
        BY <2>2
      <3>2. CASE Record(d, Outcome(cmp.live[d]))
        BY <2>1, <3>2, ReadPreserves
      <3>3. CASE Goto(IF cmp.access = "forbidden" THEN "FetchError" ELSE "CompareError")
        <4>1. stage' \in {"FetchError", "CompareError"}
          BY <3>3 DEF Goto
        <4>. QED
          BY <1>1, <2>1, <4>1, NothingCompared DEF filterVars
      <3>. QED
        BY <3>1, <3>2, <3>3 DEF Read
    <2>3. CASE cmp.todo = {} /\ Goto("evaluated") /\ UNCHANGED cmp
      BY <2>1, <2>3 DEF Goto, filterVars, ComparisonInv, ComparisonInHand
    <2>. QED
      BY <1>4, <2>2, <2>3 DEF CompareNext
  <1>5. CASE End
    BY <1>1, <1>5, NothingCompared DEF End, Goto, filterVars
  <1>6. CASE UNCHANGED vars
    BY <1>6 DEF vars, filterVars, ComparisonInv, ComparisonInHand
  <1>. QED
    BY <1>2, <1>3, <1>4, <1>5, <1>6, FilterPreserves, ClusterPreserves DEF Next

(* The evaluation ends when every wanted object has an outcome. *)
LEMMA ReadingSteps ==
    ASSUME ComparisonInv, ReadingWasTrue, [Next]_vars
    PROVE  ReadingWasTrue'
  <1>1. SUFFICES ASSUME stage' = "evaluated"
                 PROVE  ReadingWasTrue'
    BY DEF ReadingWasTrue
  <1>2. CASE UNCHANGED vars
    BY <1>2 DEF vars, ReadingWasTrue
  <1>3. CASE Next
    <2>1. stage = "compare" /\ cmp.todo = {} /\ UNCHANGED cmp
      BY <1>1, <1>3 DEF Next, Begin, Fetch, RenderPlain, BeginHelm, Merge, RenderChart, Filter,
         CompareNext, Read, Record, ClusterChanges, End, Goto
    <2>2. DOMAIN cmp.reading = cmp.wanted /\ \A d \in cmp.wanted : cmp.reading[d] \in cmp.truth[d]
      BY <2>1, InProgress
    <2>. QED
      BY <2>1, <2>2 DEF ReadingWasTrue
  <1>. QED
    BY <1>2, <1>3

-----------------------------------------------------------------------------
(* Maps, and the largest of a set. *)

(* The largest of a set of numbers is the one that bounds the others. *)
LEMMA LargestIs ==
    ASSUME NEW S \in SUBSET Nat, NEW x \in S, \A y \in S : y <= x
    PROVE  Max(S) = x
  <1>. DEFINE Bounds(z) == z \in S /\ \A y \in S : z >= y
  <1>1. Max(S) = CHOOSE z : Bounds(z)
    BY DEF Max
  <1>2. Bounds(x)
    OBVIOUS
  <1>3. \A z : Bounds(z) => z = x
    OBVIOUS
  <1>. HIDE DEF Bounds
  <1>4. Bounds(CHOOSE z : Bounds(z))
    BY <1>2
  <1>. QED
    BY <1>1, <1>3, <1>4

(* A nested map has nested keys, and is the function of its entries. *)
LEMMA NestedMap ==
    ASSUME NEW f \in NestedMaps
    PROVE  /\ DOMAIN f \subseteq NestedKeys /\ f = [j \in DOMAIN f |-> f[j]]
           /\ \A j \in DOMAIN f : f[j] \in Leaves
  <1>1. PICK S \in SUBSET NestedKeys : f \in [S -> Leaves]
    BY DEF NestedMaps
  <1>. QED
    BY <1>1

(* A nested map over another is a nested map. *)
LEMMA OverIsNested ==
    ASSUME NEW f \in NestedMaps, NEW g \in NestedMaps
    PROVE  Over(f, g) \in NestedMaps
  <1>. DEFINE S == DOMAIN f \cup DOMAIN g
  <1>1. S \in SUBSET NestedKeys
    BY NestedMap
  <1>2. \A j \in S : (IF j \in DOMAIN f THEN f[j] ELSE g[j]) \in Leaves
    BY NestedMap
  <1>3. Over(f, g) \in [S -> Leaves]
    BY <1>2 DEF Over
  <1>. QED
    BY <1>1, <1>3 DEF NestedMaps

(* What a layer holds is a leaf or a nested map under keys of the values. *)
LEMMA ContentOfLayer ==
    ASSUME NEW c \in Contents
    PROVE  /\ DOMAIN c \subseteq TopKeys
           /\ \A k \in DOMAIN c : IsMap(c[k]) => c[k] \in NestedMaps
           /\ \A k \in DOMAIN c : c[k] \in Leaves \cup NestedMaps
  <1>1. PICK S \in SUBSET TopKeys : c \in [S -> Leaves \cup NestedMaps]
    BY DEF Contents
  <1>. QED
    BY <1>1 DEF IsMap

(* A reference is no leaf. *)
LEMMA ReferencesAreMaps ==
    ASSUME NEW n \in Nat, NEW k \in TopKeys
    PROVE  IsMap(<<n, k>>)
  BY HelmConstants DEF IsMap, Leaves

-----------------------------------------------------------------------------
(* What one more layer does to the documented precedence. *)

(* A layer is mentioned if it has the key. *)
LEMMA MentionsGrow ==
    ASSUME NEW n \in Nat \ {0}, NEW k
    PROVE  Mentions(n, k) = Mentions(n - 1, k) \cup
                              (IF k \in DOMAIN layers[n].content THEN {n} ELSE {})
  BY DEF Mentions

(* A layer without the key changes nothing under it. *)
LEMMA LayerWithout ==
    ASSUME NEW n \in Nat \ {0}, NEW k, k \notin DOMAIN layers[n].content
    PROVE  /\ Mentions(n, k) = Mentions(n - 1, k) /\ Floor(n, k) = Floor(n - 1, k)
           /\ Overlays(n, k) = Overlays(n - 1, k) /\ Layered(n, k) = Layered(n - 1, k)
  <1>1. Mentions(n, k) = Mentions(n - 1, k)
    BY MentionsGrow
  <1>2. Floor(n, k) = Floor(n - 1, k)
    BY <1>1 DEF Floor
  <1>3. Overlays(n, k) = Overlays(n - 1, k)
    BY <1>1, <1>2 DEF Overlays
  <1>4. \A j : Giving(n, k, j) = Giving(n - 1, k, j)
    BY <1>3 DEF Giving
  <1>5. Layered(n, k) = Layered(n - 1, k)
    BY <1>2, <1>3, <1>4 DEF Layered
  <1>. QED
    BY <1>1, <1>2, <1>3, <1>5

(* A layer with a leaf hides what is below. *)
LEMMA LayerWithLeaf ==
    ASSUME NEW n \in Nat \ {0}, NEW k, k \in DOMAIN layers[n].content,
           ~IsMap(layers[n].content[k])
    PROVE  /\ Mentions(n, k) # {} /\ Floor(n, k) = n /\ Overlays(n, k) = {}
           /\ Layered(n, k) = layers[n].content[k]
  <1>1. n \in Mentions(n, k) /\ Mentions(n, k) \subseteq 1..n
    BY DEF Mentions
  <1>2. Floor(n, k) = n
    <2>. DEFINE S == {0} \cup {i \in Mentions(n, k) : ~IsMap(layers[i].content[k])}
    <2>1. S \in SUBSET Nat /\ n \in S /\ \A y \in S : y <= n
      BY <1>1
    <2>. HIDE DEF S
    <2>2. Max(S) = n
      BY <2>1, LargestIs
    <2>. QED
      BY <2>2 DEF Floor, S
  <1>3. Overlays(n, k) = {}
    BY <1>1, <1>2 DEF Overlays
  <1>. QED
    BY <1>1, <1>2, <1>3 DEF Layered

(* A layer with a nested map is laid over what is there, entry by entry. *)
LEMMA LayerWithMap ==
    ASSUME NEW n \in Nat \ {0}, NEW k, k \in DOMAIN layers[n].content,
           IsMap(layers[n].content[k]), layers[n].content[k] \in NestedMaps,
           Floor(n - 1, k) \in 0..(n - 1)
    PROVE  /\ Mentions(n, k) # {} /\ Floor(n, k) = Floor(n - 1, k) /\ Overlays(n, k) # {}
           /\ Layered(n, k) = IF Overlays(n - 1, k) = {} THEN layers[n].content[k]
                              ELSE Over(layers[n].content[k], Layered(n - 1, k))
  <1>. DEFINE f == layers[n].content[k]
  <1>1. Mentions(n, k) = Mentions(n - 1, k) \cup {n}
    BY MentionsGrow
  <1>2. Mentions(n - 1, k) \subseteq 1..(n - 1)
    BY DEF Mentions
  <1>3. Floor(n, k) = Floor(n - 1, k)
    <2>1. {i \in Mentions(n, k) : ~IsMap(layers[i].content[k])}
            = {i \in Mentions(n - 1, k) : ~IsMap(layers[i].content[k])}
      BY <1>1
    <2>. QED
      BY <2>1 DEF Floor
  <1>4. Overlays(n, k) = Overlays(n - 1, k) \cup {n}
    BY <1>1, <1>3 DEF Overlays
  <1>5. \A j : Giving(n, k, j) = Giving(n - 1, k, j) \cup (IF j \in DOMAIN f THEN {n} ELSE {})
    BY <1>4 DEF Giving
  <1>6. \A j : Giving(n - 1, k, j) \subseteq 1..(n - 1)
    BY <1>2 DEF Giving, Overlays
  <1>7. \A j \in DOMAIN f : Max(Giving(n, k, j)) = n
    <2>. TAKE j \in DOMAIN f
    <2>. DEFINE S == Giving(n, k, j)
    <2>1. n \in S /\ S \in SUBSET Nat /\ \A y \in S : y <= n
      BY <1>5, <1>6
    <2>. HIDE DEF S
    <2>2. Max(S) = n
      BY <2>1, LargestIs
    <2>. QED
      BY <2>2 DEF S
  <1>8. \A j : j \notin DOMAIN f => Giving(n, k, j) = Giving(n - 1, k, j)
    BY <1>5
  <1>9. DOMAIN f \subseteq NestedKeys /\ f = [j \in DOMAIN f |-> f[j]]
    BY NestedMap
  <1>. DEFINE Given(m) == {i \in NestedKeys : Giving(m, k, i) # {}}
  <1>10. Given(n) = Given(n - 1) \cup DOMAIN f
    BY <1>5, <1>9
  <1>11. Layered(n, k) = [j \in Given(n) |-> layers[Max(Giving(n, k, j))].content[k][j]]
    BY <1>4 DEF Layered
  <1>12. CASE Overlays(n - 1, k) = {}
    <2>1. Given(n - 1) = {}
      BY <1>12 DEF Giving
    <2>. HIDE DEF f, Given
    <2>2. \A j \in DOMAIN f : layers[Max(Giving(n, k, j))].content[k][j] = f[j]
      BY <1>7 DEF f
    <2>3. Layered(n, k) = f
      BY <1>9, <1>10, <1>11, <2>1, <2>2
    <2>. QED
      BY <1>1, <1>3, <1>4, <1>12, <2>3 DEF f
  <1>13. CASE Overlays(n - 1, k) # {}
    <2>1. Layered(n - 1, k) = [j \in Given(n - 1) |-> layers[Max(Giving(n - 1, k, j))].content[k][j]]
      BY <1>13 DEF Layered
    <2>. DEFINE g == Layered(n - 1, k)
    <2>. HIDE DEF f, Given, g
    <2>2. DOMAIN g = Given(n - 1)
      BY <2>1 DEF g
    <2>3. \A j \in Given(n) : layers[Max(Giving(n, k, j))].content[k][j]
                               = IF j \in DOMAIN f THEN f[j] ELSE g[j]
      <3>. TAKE j \in Given(n)
      <3>1. CASE j \in DOMAIN f
        BY <1>7, <3>1 DEF f
      <3>2. CASE j \notin DOMAIN f
        BY <1>8, <1>10, <2>1, <3>2 DEF g
      <3>. QED
        BY <3>1, <3>2
    <2>4. Over(f, g) = [j \in Given(n) |-> IF j \in DOMAIN f THEN f[j] ELSE g[j]]
      <3>1. DOMAIN f \cup DOMAIN g = Given(n)
        BY <1>10, <2>2
      <3>. QED
        BY <3>1 DEF Over
    <2>5. Layered(n, k) = Over(f, g)
      BY <1>11, <2>3, <2>4
    <2>. QED
      BY <1>1, <1>3, <1>4, <1>13, <2>5 DEF f, g
  <1>. QED
    BY <1>12, <1>13

-----------------------------------------------------------------------------
(* The part of IndInv that is about the values, of a merge in progress. *)
MergeInv ==
    /\ layers \in Seq(Layers) /\ helm.merged \in 0..Len(layers) /\ helm.chart \in Charts
    /\ helm = [layers |-> layers, merged |-> helm.merged, heap |-> heap, vals |-> vals,
               chart |-> helm.chart]
    /\ \A n \in 1..helm.merged : layers[n].content # Missing
    /\ DOMAIN heap \subseteq (1..helm.merged) \X TopKeys
    /\ \A m \in DOMAIN heap : heap[m] \in NestedMaps
    /\ DOMAIN vals \subseteq TopKeys
    /\ \A k \in DOMAIN vals :
          /\ vals[k] \in Leaves \cup DOMAIN heap
          /\ IsMap(vals[k]) => \E n \in 1..helm.merged : vals[k] = <<n, k>>
    /\ \A k \in TopKeys :
          /\ Floor(helm.merged, k) \in 0..helm.merged
          /\ k \in DOMAIN vals => (IsMap(vals[k]) <=> Overlays(helm.merged, k) # {})
          /\ IF Mentions(helm.merged, k) = {} THEN k \notin DOMAIN vals
             ELSE k \in DOMAIN vals /\ Value(k) = Layered(helm.merged, k)

ValuesInv == stage = "merge" => MergeInv

(* renderHelmChart begins with nothing merged. *)
LEMMA ReadChartBegins ==
    ASSUME ReadChart
    PROVE  MergeInv'
  <1>1. PICK list \in FileLists, inline \in {<<>>} \cup {<<c>> : c \in Contents \cup {Missing}},
             chart \in Charts :
        \E content \in [{list[i] : i \in DOMAIN list} -> Contents \cup {Missing}] :
          helm' = [layers |-> [i \in DOMAIN list |-> [file |-> list[i], content |-> content[list[i]]]]
                                \o [i \in DOMAIN inline |-> [file |-> Missing, content |-> inline[i]]],
                   merged |-> 0, heap |-> NoValues, vals |-> NoValues, chart |-> chart]
    BY DEF ReadChart
  <1>2. PICK content \in [{list[i] : i \in DOMAIN list} -> Contents \cup {Missing}] :
          helm' = [layers |-> [i \in DOMAIN list |-> [file |-> list[i], content |-> content[list[i]]]]
                                \o [i \in DOMAIN inline |-> [file |-> Missing, content |-> inline[i]]],
                   merged |-> 0, heap |-> NoValues, vals |-> NoValues, chart |-> chart]
    BY <1>1
  <1>. DEFINE files == [i \in DOMAIN list |-> [file |-> list[i], content |-> content[list[i]]]]
              inlined == [i \in DOMAIN inline |-> [file |-> Missing, content |-> inline[i]]]
  <1>3. files \in Seq(Layers)
    <2>1. list \in Seq(Files)
      BY HelmConstants
    <2>2. DOMAIN list = 1..Len(list) /\ Len(list) \in Nat
      BY <2>1
    <2>3. \A i \in DOMAIN list : [file |-> list[i], content |-> content[list[i]]] \in Layers
      BY <2>1 DEF Layers
    <2>4. files \in [1..Len(list) -> Layers]
      BY <2>2, <2>3
    <2>. QED
      BY <2>2, <2>4
  <1>4. inlined \in Seq(Layers)
    <2>1. CASE inline = <<>>
      <3>1. DOMAIN inline = 1..0
        BY <2>1
      <3>2. inlined \in [1..0 -> Layers]
        BY <3>1
      <3>. QED
        BY <3>2
    <2>2. CASE inline \in {<<c>> : c \in Contents \cup {Missing}}
      <3>1. PICK c \in Contents \cup {Missing} : inline = <<c>>
        BY <2>2
      <3>2. DOMAIN inline = 1..1 /\ inline[1] = c
        BY <3>1
      <3>3. inlined \in [1..1 -> Layers]
        BY <3>2 DEF Layers
      <3>. QED
        BY <3>3
    <2>. QED
      BY <2>1, <2>2
  <1>5. helm' = [layers |-> files \o inlined, merged |-> 0, heap |-> NoValues,
                 vals |-> NoValues, chart |-> chart]
    BY <1>2
  <1>. HIDE DEF files, inlined
  <1>. DEFINE all == files \o inlined
  <1>6. all \in Seq(Layers) /\ Len(all) \in Nat
    BY <1>3, <1>4
  <1>. HIDE DEF all
  <1>7. /\ layers' = all /\ helm'.merged = 0 /\ heap' = NoValues /\ vals' = NoValues
        /\ helm'.chart = chart
        /\ helm' = [layers |-> layers', merged |-> helm'.merged, heap |-> heap', vals |-> vals',
                    chart |-> helm'.chart]
    BY <1>5 DEF all, layers, heap, vals
  <1>8. DOMAIN NoValues = {}
    BY DEF NoValues
  <1>9. \A k : Mentions(0, k)' = {}
    BY DEF Mentions
  <1>10. \A k : Floor(0, k)' = 0
    <2>. TAKE k
    <2>1. Floor(0, k)' = Max({0})
      BY <1>9 DEF Floor
    <2>. QED
      BY <2>1, LargestIs
  <1>. QED
    BY <1>6, <1>7, <1>8, <1>9, <1>10 DEF MergeInv

-----------------------------------------------------------------------------
(* mergeValues, one layer on top of those before it. *)

(* What a layer parses to: leaves as they are, and references of its own   *)
(* to its nested maps.                                                     *)
LEMMA ParsedValues ==
    ASSUME NEW n, n \in Nat, NEW c, c = layers[n].content, c \in Contents,
           NEW src, src = ReadValues(n)
    PROVE  /\ DOMAIN src = DOMAIN c
           /\ \A k \in DOMAIN c : IF IsMap(c[k]) THEN src[k] = <<n, k>> ELSE src[k] = c[k]
           /\ \A k \in DOMAIN c : IsMap(src[k]) <=> IsMap(c[k])
  <1>1. MapKeys(n) = {k \in DOMAIN c : IsMap(c[k])}
    BY DEF MapKeys
  <1>2. /\ DOMAIN src = DOMAIN c
        /\ \A k \in DOMAIN c : IF IsMap(c[k]) THEN src[k] = <<n, k>> ELSE src[k] = c[k]
    BY <1>1 DEF ReadValues, Origin
  <1>3. \A k \in DOMAIN c : IsMap(src[k]) <=> IsMap(c[k])
    BY <1>2, ContentOfLayer, ReferencesAreMaps
  <1>. QED
    BY <1>2, <1>3

LEMMA ParsedMaps ==
    ASSUME NEW n, n \in Nat, NEW c, c = layers[n].content
    PROVE  /\ DOMAIN Allocated(n) = {<<n, k>> : k \in {j \in DOMAIN c : IsMap(c[j])}}
           /\ \A k \in DOMAIN c : IsMap(c[k]) => Allocated(n)[<<n, k>>] = c[k]
  <1>1. MapKeys(n) = {k \in DOMAIN c : IsMap(c[k])}
    BY DEF MapKeys
  <1>. QED
    BY <1>1 DEF Allocated, Origin

(* Of the maps in hand and those of the layer, all under references of     *)
(* their own, the ones that both sides have under a key become one.        *)
LEMMA MapsMerge ==
    ASSUME MergeInv, NEW n, n = helm.merged + 1, NEW c, c = layers[n].content, c \in Contents,
           NEW src, src = ReadValues(n), NEW h, h = Over(heap, Allocated(n)),
           NEW new, new = MergeNested(h, vals, src)
    PROVE  /\ DOMAIN new = DOMAIN heap \cup {<<n, k>> : k \in {j \in DOMAIN c : IsMap(c[j])}}
           /\ \A m \in DOMAIN new : new[m] \in NestedMaps
           /\ \A k \in DOMAIN c : IsMap(c[k]) => new[<<n, k>>] = c[k]
           /\ \A k \in DOMAIN vals : IsMap(vals[k]) =>
                 new[vals[k]] = IF k \in DOMAIN c /\ IsMap(c[k]) THEN Over(c[k], heap[vals[k]])
                                ELSE heap[vals[k]]
  <1>1. n \in Nat /\ helm.merged \in Nat
    BY DEF MergeInv
  <1>2. /\ DOMAIN src = DOMAIN c
        /\ \A k \in DOMAIN c : IsMap(c[k]) => src[k] = <<n, k>>
        /\ \A k \in DOMAIN c : IsMap(src[k]) <=> IsMap(c[k])
        /\ DOMAIN Allocated(n) = {<<n, k>> : k \in {j \in DOMAIN c : IsMap(c[j])}}
        /\ \A k \in DOMAIN c : IsMap(c[k]) => Allocated(n)[<<n, k>>] = c[k]
    <2>1. /\ DOMAIN src = DOMAIN c
          /\ \A k \in DOMAIN c : IF IsMap(c[k]) THEN src[k] = <<n, k>> ELSE src[k] = c[k]
          /\ \A k \in DOMAIN c : IsMap(src[k]) <=> IsMap(c[k])
      BY <1>1, ParsedValues
    <2>2. /\ DOMAIN Allocated(n) = {<<n, k>> : k \in {j \in DOMAIN c : IsMap(c[j])}}
          /\ \A k \in DOMAIN c : IsMap(c[k]) => Allocated(n)[<<n, k>>] = c[k]
      BY <1>1, ParsedMaps
    <2>. QED
      BY <2>1, <2>2
  <1>3. /\ DOMAIN heap \subseteq (1..helm.merged) \X TopKeys
        /\ \A m \in DOMAIN heap : heap[m] \in NestedMaps
        /\ \A k \in DOMAIN vals : IsMap(vals[k]) =>
              vals[k] \in DOMAIN heap /\ \E p \in 1..helm.merged : vals[k] = <<p, k>>
    BY DEF MergeInv, IsMap
  <1>4. \A k \in DOMAIN c : <<n, k>> \notin DOMAIN heap
    BY <1>1, <1>3
  <1>5. /\ DOMAIN h = DOMAIN heap \cup {<<n, k>> : k \in {j \in DOMAIN c : IsMap(c[j])}}
        /\ \A m \in DOMAIN heap : h[m] = heap[m]
        /\ \A k \in DOMAIN c : IsMap(c[k]) => h[<<n, k>>] = c[k]
    <2>1. /\ DOMAIN h = DOMAIN heap \cup DOMAIN Allocated(n)
          /\ \A m \in DOMAIN h : h[m] = IF m \in DOMAIN heap THEN heap[m] ELSE Allocated(n)[m]
      BY DEF Over
    <2>2. \A k \in DOMAIN c : IsMap(c[k]) => <<n, k>> \in DOMAIN Allocated(n)
      BY <1>2
    <2>. QED
      BY <1>2, <1>4, <2>1, <2>2
  <1>6. \A m \in DOMAIN h : h[m] \in NestedMaps
    BY <1>3, <1>5, ContentOfLayer
  <1>. DEFINE Both(k) == k \in DOMAIN vals /\ k \in DOMAIN c /\ IsMap(vals[k]) /\ IsMap(c[k])
              Sharing(m) == {k \in DOMAIN vals : vals[k] = m /\ BothMaps(vals, src, k)}
  <1>7. \A k : BothMaps(vals, src, k) <=> Both(k)
    BY <1>2 DEF BothMaps
  <1>8. \A m : Sharing(m) = {k \in DOMAIN vals : vals[k] = m /\ Both(k)}
    BY <1>7
  <1>9. \A m, k, j : k \in Sharing(m) /\ j \in Sharing(m) => k = j
    <2>. SUFFICES ASSUME NEW m, NEW k \in Sharing(m), NEW j \in Sharing(m)
                  PROVE  k = j
      OBVIOUS
    <2>1. PICK p \in 1..helm.merged : m = <<p, k>>
      BY <1>3, <1>8
    <2>2. PICK q \in 1..helm.merged : m = <<q, j>>
      BY <1>3, <1>8
    <2>. QED
      BY <2>1, <2>2
  <1>10. /\ DOMAIN new = DOMAIN h
         /\ \A m \in DOMAIN h : Sharing(m) = {} => new[m] = h[m]
         /\ \A m \in DOMAIN h : \A k \in Sharing(m) : new[m] = Over(h[src[k]], h[m])
    <2>1. DOMAIN new = DOMAIN h
      BY DEF MergeNested
    <2>2. ASSUME NEW m \in DOMAIN h, Sharing(m) = {}
          PROVE  new[m] = h[m]
      BY <2>2 DEF MergeNested
    <2>3. ASSUME NEW m \in DOMAIN h, NEW k \in Sharing(m)
          PROVE  new[m] = Over(h[src[k]], h[m])
      <3>. DEFINE one == CHOOSE j \in DOMAIN vals : vals[j] = m /\ BothMaps(vals, src, j)
      <3>1. one \in Sharing(m)
        BY <2>3
      <3>2. one = k
        BY <1>9, <2>3, <3>1
      <3>3. \E j \in DOMAIN vals : vals[j] = m /\ BothMaps(vals, src, j)
        BY <2>3
      <3>4. new[m] = Over(h[src[one]], h[m])
        BY <3>3 DEF MergeNested
      <3>. QED
        BY <3>2, <3>4
    <2>. QED
      BY <2>1, <2>2, <2>3
  <1>. HIDE DEF Sharing
  <1>11. \A m \in DOMAIN new : new[m] \in NestedMaps
    <2>. TAKE m \in DOMAIN new
    <2>1. CASE Sharing(m) = {}
      BY <1>6, <1>10, <2>1
    <2>2. CASE Sharing(m) # {}
      <3>1. PICK k \in Sharing(m) : TRUE
        BY <2>2
      <3>2. Both(k)
        BY <1>8, <3>1
      <3>3. src[k] = <<n, k>> /\ <<n, k>> \in DOMAIN h
        BY <1>2, <1>5, <3>2
      <3>. QED
        BY <1>6, <1>10, <3>1, <3>3, OverIsNested
    <2>. QED
      BY <2>1, <2>2
  <1>12. ASSUME NEW k \in DOMAIN c, IsMap(c[k])
         PROVE  new[<<n, k>>] = c[k]
    <2>1. <<n, k>> \in DOMAIN h
      BY <1>5, <1>12
    <2>2. Sharing(<<n, k>>) = {}
      <3>. SUFFICES ASSUME NEW j \in Sharing(<<n, k>>)
                    PROVE  FALSE
        OBVIOUS
      <3>1. j \in DOMAIN vals /\ vals[j] = <<n, k>> /\ IsMap(vals[j])
        BY <1>8
      <3>. QED
        BY <1>3, <1>4, <3>1
    <2>. QED
      BY <1>5, <1>10, <1>12, <2>1, <2>2
  <1>13. ASSUME NEW k \in DOMAIN vals, IsMap(vals[k])
         PROVE  new[vals[k]] = IF k \in DOMAIN c /\ IsMap(c[k]) THEN Over(c[k], heap[vals[k]])
                               ELSE heap[vals[k]]
    <2>1. vals[k] \in DOMAIN heap /\ vals[k] \in DOMAIN h /\ h[vals[k]] = heap[vals[k]]
      BY <1>3, <1>5, <1>13
    <2>2. CASE k \in DOMAIN c /\ IsMap(c[k])
      <3>1. k \in Sharing(vals[k])
        BY <1>8, <1>13, <2>2
      <3>2. src[k] = <<n, k>> /\ h[<<n, k>>] = c[k]
        BY <1>2, <1>5, <2>2
      <3>. QED
        BY <1>10, <2>1, <2>2, <3>1, <3>2
    <2>3. CASE ~(k \in DOMAIN c /\ IsMap(c[k]))
      <3>1. Sharing(vals[k]) = {}
        <4>. SUFFICES ASSUME NEW j \in Sharing(vals[k])
                      PROVE  FALSE
          OBVIOUS
        <4>1. Both(j) /\ vals[j] = vals[k]
          BY <1>8
        <4>2. j = k
          BY <1>3, <1>13, <4>1
        <4>. QED
          BY <2>3, <4>1, <4>2
      <3>. QED
        BY <1>10, <2>1, <2>3, <3>1
    <2>. QED
      BY <2>2, <2>3
  <1>. QED
    BY <1>5, <1>10, <1>11, <1>12, <1>13

(* One turn of the loop over valuesFiles, or the inline values: under      *)
(* every key the result is what the layers have so far, by precedence.     *)
LEMMA LayerMerges ==
    ASSUME MergeInv, MergeLayer
    PROVE  MergeInv'
  <1>1. PICK n : n = helm.merged + 1
    OBVIOUS
  <1>2. PICK c : c = layers[n].content
    OBVIOUS
  <1>3. PICK src : src = ReadValues(n)
    OBVIOUS
  <1>4. PICK h : h = Over(heap, Allocated(n))
    OBVIOUS
  <1>5. PICK new : new = MergeNested(h, vals, src)
    OBVIOUS
  <1>6. PICK result : result = MergeValues(vals, src)
    OBVIOUS
  <1>7. /\ n <= Len(layers) /\ c # Missing
        /\ helm' = [helm EXCEPT !.merged = n, !.heap = new, !.vals = result]
    BY <1>1, <1>2, <1>3, <1>4, <1>5, <1>6 DEF MergeLayer
  <1>8. /\ layers \in Seq(Layers) /\ helm.merged \in Nat /\ n \in 1..Len(layers)
        /\ n \in Nat \ {0} /\ n - 1 = helm.merged
    BY <1>1, <1>7 DEF MergeInv
  <1>9. c \in Contents
    <2>1. layers[n] \in Layers
      BY <1>8
    <2>2. layers[n].content \in Contents \cup {Missing}
      BY <2>1 DEF Layers
    <2>. QED
      BY <1>2, <1>7, <2>2
  <1>10. helm' = [layers |-> layers, merged |-> n, heap |-> new, vals |-> result, chart |-> helm.chart]
    <2>1. PICK l, m, hp, v, ch :
            helm = [layers |-> l, merged |-> m, heap |-> hp, vals |-> v, chart |-> ch]
      BY DEF MergeInv
    <2>2. layers = l /\ helm.chart = ch
      BY <2>1 DEF layers
    <2>3. helm' = [layers |-> l, merged |-> n, heap |-> new, vals |-> result, chart |-> ch]
      BY <1>7, <2>1
    <2>. QED
      BY <2>2, <2>3
  <1>11. /\ layers' = layers /\ helm'.merged = n /\ heap' = new /\ vals' = result
         /\ helm'.chart = helm.chart
    BY <1>10 DEF layers, heap, vals
  <1>12. /\ DOMAIN new = DOMAIN heap \cup {<<n, k>> : k \in {j \in DOMAIN c : IsMap(c[j])}}
         /\ \A m \in DOMAIN new : new[m] \in NestedMaps
         /\ \A k \in DOMAIN c : IsMap(c[k]) => new[<<n, k>>] = c[k]
         /\ \A k \in DOMAIN vals : IsMap(vals[k]) =>
               new[vals[k]] = IF k \in DOMAIN c /\ IsMap(c[k]) THEN Over(c[k], heap[vals[k]])
                              ELSE heap[vals[k]]
    BY <1>1, <1>2, <1>3, <1>4, <1>5, <1>9, MapsMerge
  <1>13. /\ DOMAIN src = DOMAIN c
         /\ \A k \in DOMAIN c : IF IsMap(c[k]) THEN src[k] = <<n, k>> ELSE src[k] = c[k]
         /\ \A k \in DOMAIN c : IsMap(src[k]) <=> IsMap(c[k])
    <2>1. n \in Nat
      BY <1>8
    <2>. QED
      BY <1>2, <1>3, <1>9, <2>1, ParsedValues
  <1>14. DOMAIN c \subseteq TopKeys /\ \A k \in DOMAIN c : c[k] \in Leaves \cup NestedMaps
    BY <1>9, ContentOfLayer
  <1>15. /\ DOMAIN heap \subseteq (1..helm.merged) \X TopKeys /\ DOMAIN vals \subseteq TopKeys
         /\ \A k \in DOMAIN vals :
               /\ vals[k] \in Leaves \cup DOMAIN heap
               /\ IsMap(vals[k]) => \E p \in 1..helm.merged : vals[k] = <<p, k>>
    BY DEF MergeInv
  <1>16. DOMAIN result = DOMAIN vals \cup DOMAIN c
    BY <1>6, <1>13 DEF MergeValues
  <1>17. \A k \in DOMAIN result :
            result[k] = IF k \notin DOMAIN c \/ (k \in DOMAIN vals /\ IsMap(vals[k]) /\ IsMap(c[k]))
                        THEN vals[k] ELSE IF IsMap(c[k]) THEN <<n, k>> ELSE c[k]
    <2>1. \A k \in DOMAIN result :
            result[k] = IF k \notin DOMAIN src \/ BothMaps(vals, src, k) THEN vals[k] ELSE src[k]
      BY <1>6 DEF MergeValues
    <2>. QED
      BY <1>13, <1>16, <2>1 DEF BothMaps
  (* The types of the new result. *)
  <1>18. DOMAIN heap' \subseteq (1..n) \X TopKeys /\ DOMAIN vals' \subseteq TopKeys
    <2>1. \A k \in DOMAIN c : <<n, k>> \in (1..n) \X TopKeys
      BY <1>8, <1>14
    <2>2. (1..helm.merged) \X TopKeys \subseteq (1..n) \X TopKeys
      BY <1>8
    <2>. QED
      BY <1>11, <1>12, <1>14, <1>15, <1>16, <2>1, <2>2
  <1>19. \A k \in DOMAIN vals' :
            /\ vals'[k] \in Leaves \cup DOMAIN heap'
            /\ IsMap(vals'[k]) => \E p \in 1..n : vals'[k] = <<p, k>>
    <2>. SUFFICES ASSUME NEW k \in DOMAIN result
                  PROVE  /\ result[k] \in Leaves \cup DOMAIN new
                         /\ IsMap(result[k]) => \E p \in 1..n : result[k] = <<p, k>>
      BY <1>11
    <2>1. CASE result[k] = vals[k] /\ k \in DOMAIN vals
      <3>1. vals[k] \in Leaves \cup DOMAIN new
        BY <1>12, <1>15, <2>1
      <3>2. IsMap(vals[k]) => \E p \in 1..n : vals[k] = <<p, k>>
        BY <1>8, <1>15, <2>1
      <3>. QED
        BY <2>1, <3>1, <3>2
    <2>2. CASE k \in DOMAIN c /\ IsMap(c[k]) /\ result[k] = <<n, k>>
      BY <1>8, <1>12, <2>2
    <2>3. CASE k \in DOMAIN c /\ ~IsMap(c[k]) /\ result[k] = c[k]
      BY <2>3 DEF IsMap
    <2>. QED
      BY <1>16, <1>17, <2>1, <2>2, <2>3
  <1>20. \A i \in 1..n : layers[i].content # Missing
    <2>1. \A i \in 1..helm.merged : layers[i].content # Missing
      BY DEF MergeInv
    <2>. QED
      BY <1>2, <1>7, <1>8, <2>1
  (* What the result has under a key. *)
  <1>21. \A k \in TopKeys :
            /\ Floor(n, k) \in 0..n
            /\ k \in DOMAIN result => (IsMap(result[k]) <=> Overlays(n, k) # {})
            /\ IF Mentions(n, k) = {} THEN k \notin DOMAIN result
               ELSE /\ k \in DOMAIN result
                    /\ (IF IsMap(result[k]) THEN new[result[k]] ELSE result[k]) = Layered(n, k)
    <2>. SUFFICES ASSUME NEW k \in TopKeys
                  PROVE  /\ Floor(n, k) \in 0..n
                         /\ k \in DOMAIN result => (IsMap(result[k]) <=> Overlays(n, k) # {})
                         /\ IF Mentions(n, k) = {} THEN k \notin DOMAIN result
                            ELSE /\ k \in DOMAIN result
                                 /\ (IF IsMap(result[k]) THEN new[result[k]] ELSE result[k]) = Layered(n, k)
      OBVIOUS
    <2>1. /\ Floor(n - 1, k) \in 0..(n - 1)
          /\ k \in DOMAIN vals => (IsMap(vals[k]) <=> Overlays(n - 1, k) # {})
          /\ IF Mentions(n - 1, k) = {} THEN k \notin DOMAIN vals
             ELSE /\ k \in DOMAIN vals
                  /\ (IF IsMap(vals[k]) THEN heap[vals[k]] ELSE vals[k]) = Layered(n - 1, k)
      BY <1>8 DEF MergeInv, Value
    <2>2. CASE k \notin DOMAIN c
      <3>1. /\ Mentions(n, k) = Mentions(n - 1, k) /\ Floor(n, k) = Floor(n - 1, k)
            /\ Overlays(n, k) = Overlays(n - 1, k) /\ Layered(n, k) = Layered(n - 1, k)
        BY <1>2, <1>8, <2>2, LayerWithout
      <3>2. k \in DOMAIN result <=> k \in DOMAIN vals
        BY <1>16, <2>2
      <3>3. k \in DOMAIN vals => result[k] = vals[k]
        BY <1>17, <2>2, <3>2
      <3>4. k \in DOMAIN vals /\ IsMap(vals[k]) => new[vals[k]] = heap[vals[k]]
        BY <1>12, <2>2
      <3>. QED
        BY <1>8, <2>1, <3>1, <3>2, <3>3, <3>4
    <2>3. CASE k \in DOMAIN c /\ ~IsMap(c[k])
      <3>1. /\ Mentions(n, k) # {} /\ Floor(n, k) = n /\ Overlays(n, k) = {}
            /\ Layered(n, k) = c[k]
        BY <1>2, <1>8, <2>3, LayerWithLeaf
      <3>2. k \in DOMAIN result /\ result[k] = c[k]
        BY <1>16, <1>17, <2>3
      <3>. QED
        BY <1>8, <2>3, <3>1, <3>2
    <2>4. CASE k \in DOMAIN c /\ IsMap(c[k])
      <3>1. c[k] \in NestedMaps
        BY <1>9, <2>4, ContentOfLayer
      <3>2. /\ Mentions(n, k) # {} /\ Floor(n, k) = Floor(n - 1, k) /\ Overlays(n, k) # {}
            /\ Layered(n, k) = IF Overlays(n - 1, k) = {} THEN c[k] ELSE Over(c[k], Layered(n - 1, k))
        BY <1>2, <1>8, <2>1, <2>4, <3>1, LayerWithMap
      <3>3. k \in DOMAIN result
        BY <1>16, <2>4
      <3>4. CASE k \in DOMAIN vals /\ IsMap(vals[k])
        <4>1. result[k] = vals[k] /\ new[vals[k]] = Over(c[k], heap[vals[k]])
          BY <1>12, <1>17, <2>4, <3>3, <3>4
        <4>2. heap[vals[k]] = Layered(n - 1, k) /\ Overlays(n - 1, k) # {}
          BY <2>1, <3>4
        <4>. QED
          BY <1>8, <2>1, <3>2, <3>3, <3>4, <4>1, <4>2
      <3>5. CASE ~(k \in DOMAIN vals /\ IsMap(vals[k]))
        <4>1. result[k] = <<n, k>> /\ new[<<n, k>>] = c[k] /\ IsMap(<<n, k>>)
          BY <1>8, <1>12, <1>17, <2>4, <3>3, <3>5, ReferencesAreMaps
        <4>2. Overlays(n - 1, k) = {}
          BY <2>1, <3>5 DEF Overlays
        <4>. QED
          BY <1>8, <2>1, <3>2, <3>3, <4>1, <4>2
      <3>. QED
        BY <3>4, <3>5
    <2>. QED
      BY <2>2, <2>3, <2>4
  <1>22. \A k : /\ Mentions(n, k)' = Mentions(n, k) /\ Floor(n, k)' = Floor(n, k)
                /\ Overlays(n, k)' = Overlays(n, k) /\ Layered(n, k)' = Layered(n, k)
    <2>. TAKE k
    <2>1. Mentions(n, k)' = Mentions(n, k)
      BY <1>11 DEF Mentions
    <2>2. Floor(n, k)' = Floor(n, k)
      BY <1>11, <2>1 DEF Floor
    <2>3. Overlays(n, k)' = Overlays(n, k)
      BY <2>1, <2>2 DEF Overlays
    <2>4. \A j : Giving(n, k, j)' = Giving(n, k, j)
      BY <1>11, <2>3 DEF Giving
    <2>5. Layered(n, k)' = Layered(n, k)
      BY <1>11, <2>2, <2>3, <2>4 DEF Layered
    <2>. QED
      BY <2>1, <2>2, <2>3, <2>5
  <1>23. \A k : Value(k)' = IF IsMap(result[k]) THEN new[result[k]] ELSE result[k]
    BY <1>11 DEF Value
  <1>. QED
    <2>1. helm'.chart \in Charts
      BY <1>11 DEF MergeInv
    <2>2. helm' = [layers |-> layers', merged |-> helm'.merged, heap |-> heap', vals |-> vals',
                   chart |-> helm'.chart]
      BY <1>10, <1>11
    <2>3. helm'.merged \in 0..Len(layers')
      BY <1>8, <1>11
    <2>4. \A k \in TopKeys :
            /\ Floor(n, k)' \in 0..n
            /\ k \in DOMAIN vals' => (IsMap(vals'[k]) <=> Overlays(n, k)' # {})
            /\ IF Mentions(n, k)' = {} THEN k \notin DOMAIN vals'
               ELSE k \in DOMAIN vals' /\ Value(k)' = Layered(n, k)'
      BY <1>11, <1>21, <1>22, <1>23
    <2>. QED
      BY <1>8, <1>11, <1>12, <1>18, <1>19, <1>20, <2>1, <2>2, <2>3, <2>4 DEF MergeInv

(* Every step that does not merge leaves the merge alone, or has none. *)
LEMMA ValuesSteps ==
    ASSUME ValuesInv, [Next]_vars
    PROVE  ValuesInv'
  <1>1. CASE BeginHelm
    BY <1>1, ReadChartBegins DEF BeginHelm, ValuesInv
  <1>2. CASE Merge
    <2>1. CASE MergeLayer /\ UNCHANGED stage
      BY <1>2, <2>1, LayerMerges DEF Merge, ValuesInv
    <2>2. CASE LayerFails /\ Goto("CompareError")
      BY <2>2 DEF Goto, ValuesInv
    <2>. QED
      BY <1>2, <2>1, <2>2 DEF Merge
  <1>3. CASE UNCHANGED vars
    <2>1. MergeInv => MergeInv'
      <3>1. helm' = helm /\ layers' = layers /\ heap' = heap /\ vals' = vals
        BY <1>3 DEF vars, layers, heap, vals
      <3>2. \A n, k : Mentions(n, k)' = Mentions(n, k)
        BY <3>1 DEF Mentions
      <3>3. \A n, k : Floor(n, k)' = Floor(n, k)
        BY <3>1, <3>2 DEF Floor
      <3>4. \A n, k : Overlays(n, k)' = Overlays(n, k)
        BY <3>2, <3>3 DEF Overlays
      <3>5. \A n, k, j : Giving(n, k, j)' = Giving(n, k, j)
        BY <3>1, <3>4 DEF Giving
      <3>6. \A n, k : Layered(n, k)' = Layered(n, k)
        BY <3>1, <3>3, <3>4, <3>5 DEF Layered
      <3>7. \A k : Value(k)' = Value(k)
        BY <3>1 DEF Value
      <3>. QED
        BY <3>1, <3>2, <3>3, <3>4, <3>6, <3>7 DEF MergeInv
    <2>2. stage' = stage
      BY <1>3 DEF vars
    <2>. QED
      BY <2>1, <2>2 DEF ValuesInv
  <1>4. CASE Begin \/ Fetch \/ RenderPlain \/ RenderChart \/ Filter \/ CompareNext \/ ClusterChanges \/ End
    <2>1. stage' # "merge"
      BY <1>4 DEF Begin, Fetch, RenderPlain, RenderChart, Filter, CompareNext, Read, Record,
                  ClusterChanges, End, Goto
    <2>. QED
      BY <2>1 DEF ValuesInv
  <1>. QED
    BY <1>1, <1>2, <1>3, <1>4 DEF Next

-----------------------------------------------------------------------------
(* The theorems. *)

Parts == stage \in Stages /\ RevisionInv /\ ValuesInv /\ ComparisonInv /\ ReadingWasTrue

(* The stages follow one another. *)
LEMMA StageSteps ==
    ASSUME stage \in Stages, [Next]_vars
    PROVE  stage' \in Stages
  BY DEF Stages, Next, vars, Begin, Fetch, RenderPlain, BeginHelm, Merge, RenderChart, Filter,
         CompareNext, Read, Record, ClusterChanges, End, Goto

(* The parts give the whole. *)
LEMMA PartsMakeIndInv == Parts => IndInv
  <1>. SUFFICES ASSUME Parts
                PROVE  IndInv
    OBVIOUS
  <1>1. TypeOK
    <2>1. stage = "checkout" => repo.remote \in Remotes /\ repo.ref \in Refs
      BY DEF Parts, RevisionInv, RevisionInHand, Repos
    <2>2. stage = "merge" =>
            /\ layers \in Seq(Layers) /\ helm.merged \in 0..Len(layers)
            /\ \A m \in DOMAIN heap : heap[m] \in NestedMaps
            /\ \A k \in DOMAIN vals : vals[k] \in Leaves \cup DOMAIN heap
      BY DEF Parts, ValuesInv, MergeInv
    <2>3. stage = "compare" =>
            /\ cmp.todo \subseteq DOMAIN cmp.live /\ DOMAIN cmp.live \subseteq Documents
            /\ \A d \in DOMAIN cmp.reading : cmp.reading[d] \in {"unchanged", "changed", "new"}
      BY InProgress DEF Parts, LiveOutcomes
    <2>. QED
      BY <2>1, <2>2, <2>3 DEF Parts, TypeOK, RevisionInv, ComparisonInv
  <1>2. ValuesInHand
    BY DEF Parts, ValuesInv, MergeInv, ValuesInHand
  <1>3. ValuesAsLayered
    BY DEF Parts, ValuesInv, MergeInv, ValuesAsLayered
  <1>. QED
    BY <1>1, <1>2, <1>3 DEF Parts, IndInv, RevisionInv, ComparisonInv

(* The parts hold in every state one evaluation after the other can reach. *)
LEMMA PartsHold == Spec => []Parts
  <1>1. Init => Parts
    BY DEF Init, Parts, Stages, RevisionInv, RevisionInHand, ChecksOutWhatWasNamed, ValuesInv,
           ComparisonInv, ComparisonInHand, ReadingWasTrue
  <1>2. Parts /\ [Next]_vars => Parts'
    BY StageSteps, RevisionSteps, ValuesSteps, ComparisonSteps, ReadingSteps DEF Parts
  <1>. QED
    BY <1>1, <1>2, PTL DEF Spec

(* IndInv is inductive: whoever pushes, and whatever happens to the        *)
(* cluster, between the steps of engine.Run.                               *)
THEOREM Inductive == Spec => []IndInv
  BY PartsHold, PartsMakeIndInv, PTL

(* Every stage has what it needs: a checkout a remote and a reference, a   *)
(* merge maps under the references it holds, a comparison outcomes.        *)
THEOREM TypeCorrect == Spec => []TypeOK
  <1>1. IndInv => TypeOK
    BY DEF IndInv
  <1>. QED
    BY <1>1, Inductive, PTL

(* The commit that is checked out is one the reference stood for since the *)
(* load began, and only what was missing then is refused.                  *)
THEOREM RevisionWasNamed == Spec => []ChecksOutWhatWasNamed
  <1>1. IndInv => ChecksOutWhatWasNamed
    BY DEF IndInv
  <1>. QED
    BY <1>1, Inductive, PTL

(* mergeValues, in place and with shared maps, computes what the layers    *)
(* have by precedence, for every list of files and after every layer.      *)
THEOREM PrecedenceHolds == Spec => []ValuesAsLayered
  <1>1. IndInv => ValuesAsLayered
    BY DEF IndInv
  <1>. QED
    BY <1>1, Inductive, PTL

(* An evaluation that ends has a true outcome of every wanted manifest. *)
THEOREM OutcomesWereTrue == Spec => []ReadingWasTrue
  <1>1. IndInv => ReadingWasTrue
    BY DEF IndInv
  <1>. QED
    BY <1>1, Inductive, PTL

-----------------------------------------------------------------------------
(* What is rendered. *)

(* Of what the chart and its wanted dependency consist of, the stream has  *)
(* the definitions and the manifests.                                      *)
LEMMA StreamOfKept ==
    ASSUME NEW kept
    PROVE  Stream(kept) = {d \in Documents : d.role \in {"crd", "manifest"} /\ d.of \in kept}
  <1>1. \A d \in Documents : d.role \in Roles
    BY DEF Documents
  <1>. QED
    BY <1>1 DEF Stream, CRDObjects, SortManifests, DropNotes, RenderedFiles, Roles

(* Once all layers are merged, the dependency is kept as its condition     *)
(* has it by the documented precedence, or else its default.               *)
LEMMA KeptIsWanted ==
    ASSUME MergeInv, AllMerged, ~DependencyFails
    PROVE  Kept = {"chart"} \cup (IF SubchartWanted THEN {"subchart"} ELSE {})
  <1>. DEFINE n == Len(layers)
  <1>1. helm.merged = n /\ Subchart \in TopKeys
    BY HelmConstants DEF AllMerged
  <1>2. /\ Subchart \in DOMAIN vals => (IsMap(vals[Subchart]) <=> Overlays(n, Subchart) # {})
        /\ IF Mentions(n, Subchart) = {} THEN Subchart \notin DOMAIN vals
           ELSE Subchart \in DOMAIN vals /\ Value(Subchart) = Layered(n, Subchart)
    BY <1>1 DEF MergeInv
  <1>. HIDE DEF n
  <1>3. CASE ~helm.chart.vendored
    BY <1>3 DEF Kept, SubchartWanted
  <1>4. CASE helm.chart.vendored /\ Subchart \notin DOMAIN vals
    <2>1. Giving(n, Subchart, Enabled) = {}
      BY <1>2, <1>4 DEF Giving, Overlays
    <2>. QED
      BY <1>4, <2>1 DEF Kept, SubchartWanted, n
  <1>5. CASE helm.chart.vendored /\ Subchart \in DOMAIN vals
    <2>1. IsMap(vals[Subchart]) /\ Overlays(n, Subchart) # {}
      BY <1>2, <1>5 DEF DependencyFails
    <2>2. heap[vals[Subchart]] = Layered(n, Subchart)
      BY <1>2, <1>5, <2>1 DEF Value
    <2>3. DOMAIN Layered(n, Subchart) = {j \in NestedKeys : Giving(n, Subchart, j) # {}}
      BY <2>1 DEF Layered
    <2>4. Enabled \in DOMAIN heap[vals[Subchart]] <=> Giving(n, Subchart, Enabled) # {}
      BY <2>2, <2>3, HelmConstants
    <2>. QED
      BY <1>5, <2>2, <2>4 DEF Kept, SubchartWanted, n
  <1>. QED
    BY <1>3, <1>4, <1>5

(* What is compared of a chart is what installing it leaves in the         *)
(* cluster, whatever its layers of values are.                             *)
THEOREM SteadyStateRendered == Spec => RendersSteadyState
  <1>. DEFINE Steady == stage = "merge" /\ stage' = "filter" =>
                          stream' = {d \in Documents : d.role \in {"crd", "manifest"}
                                                        /\ (d.of = "chart" \/ SubchartWanted)}
  <1>1. Parts /\ [Next]_vars => Steady
    <2>. SUFFICES ASSUME Parts, [Next]_vars, stage = "merge", stage' = "filter"
                  PROVE  stream' = {d \in Documents : d.role \in {"crd", "manifest"}
                                                       /\ (d.of = "chart" \/ SubchartWanted)}
      OBVIOUS
    <2>1. RenderChart
      BY DEF Next, vars, Begin, Fetch, RenderPlain, BeginHelm, Merge, Filter, CompareNext,
             ClusterChanges, End, Goto
    <2>2. AllMerged /\ ~DependencyFails /\ stream' = Stream(Kept)
      BY <2>1 DEF RenderChart, Goto
    <2>3. Kept = {"chart"} \cup (IF SubchartWanted THEN {"subchart"} ELSE {})
      BY <2>2, KeptIsWanted DEF Parts, ValuesInv
    <2>4. \A d \in Documents : d.of \in {"chart", "subchart"}
      BY DEF Documents
    <2>5. \A d \in Documents : d.of \in Kept <=> d.of = "chart" \/ SubchartWanted
      BY <2>3, <2>4
    <2>. QED
      BY <2>2, <2>5, StreamOfKept
  <1>. QED
    BY <1>1, PartsHold, PTL DEF Spec, RendersSteadyState, Steady
=============================================================================
