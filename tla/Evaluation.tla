------------------------------- MODULE Evaluation -------------------------------
(***************************************************************************)
(* One evaluation after the other, as engine.Run makes them for Reconcile  *)
(* of internal/controller: clone the source and check its revision out     *)
(* (GitRevision), render it (HelmRendering, or the documents as they are), *)
(* keep what the target filter of internal/source lets through, and        *)
(* compare the rest with the cluster, one live object after the other.     *)
(*                                                                         *)
(* Everybody else goes on meanwhile: the remote is pushed to, the objects  *)
(* of the cluster change, and access to them is withdrawn or given back.   *)
(*                                                                         *)
(* What a commit contains is left open.  Every input is chosen where the   *)
(* code first looks at it, and forgotten once nothing depends on it.       *)
(***************************************************************************)
EXTENDS GitRevision, HelmRendering

CONSTANTS Namespaces,    \* namespaces of manifests
          Placements,    \* what the target filter sees of each document
          MaxLive        \* bound: changes of the cluster during a comparison

(* A manifest names a namespace or does not, and has the label or not. *)
ASSUME PlacementsAreThat ==
    Placements \in [Documents -> [namespace : Namespaces \cup {Missing}, labelled : BOOLEAN]]
ASSUME MaxLiveIsNat == MaxLive \in Nat

(* spec.target: no namespaces, or some; no selector, one that wants the    *)
(* label, or one that wants it absent.                                     *)
Targets == [namespaces : SUBSET Namespaces, selector : {"none", "in", "notIn"}]

VARIABLES
    stage,       \* how far the evaluation has come
    stream,      \* the documents that were rendered
    target,      \* spec.target
    cmp          \* the comparison in progress, or Missing: none

filterVars == <<stream, target>>
vars == <<stage, revisionVars, helm, filterVars, cmp>>

Stages == {"idle", "checkout", "render", "merge", "filter", "compare", "evaluated",
           "FetchError", "CompareError"}

Goto(s) == stage' = s

Init ==
    /\ stage = "idle" /\ repo = NoCommit /\ commit = NoCommit /\ named = {}
    /\ helm = Missing /\ stream = {} /\ target = Missing /\ cmp = Missing

-----------------------------------------------------------------------------
(* withCheckout: clone, resolve, and hand over to the renderer. *)
Begin ==
    /\ stage = "idle" /\ Goto("checkout")
    /\ OpenRepo
    /\ UNCHANGED <<helm, filterVars, cmp>>

Fetch ==
    /\ stage = "checkout"
    /\ \/ Push /\ UNCHANGED stage
       \/ CloneRemote /\ UNCHANGED stage
       \/ CheckOut /\ Goto("render")
       \/ (CloneFails \/ RefuseRevision \/ CheckOutFails) /\ Goto("CompareError")
    /\ UNCHANGED <<helm, filterVars, cmp>>

(* A Git source has the documents of the checkout, a Kustomize source what *)
(* the overlay builds, if it builds and can be parsed; a Helm source goes  *)
(* through its values first.                                               *)
RenderPlain ==
    /\ stage = "render"
    /\ \/ Goto("CompareError") /\ UNCHANGED filterVars
       \/ /\ Goto("filter")
          /\ stream' \in SUBSET {d \in Documents : d.role \in {"crd", "manifest"}}
          /\ target' \in Targets
    /\ commit' = NoCommit /\ named' = {}
    /\ UNCHANGED <<repo, helm, cmp>>

BeginHelm ==
    /\ stage = "render" /\ Goto("merge")
    /\ ReadChart
    /\ commit' = NoCommit /\ named' = {}
    /\ UNCHANGED <<repo, filterVars, cmp>>

Merge ==
    /\ stage = "merge"
    /\ \/ MergeLayer /\ UNCHANGED stage
       \/ LayerFails /\ Goto("CompareError")
    /\ UNCHANGED <<revisionVars, filterVars, cmp>>

(* Templates may fail on any values, and so may the parsing of the result. *)
RenderChart ==
    /\ stage = "merge" /\ AllMerged
    /\ \/ Goto("CompareError") /\ UNCHANGED filterVars
       \/ /\ ~DependencyFails /\ Goto("filter")
          /\ stream' = Stream(Kept)
          /\ target' \in Targets
    /\ helm' = Missing
    /\ UNCHANGED <<revisionVars, cmp>>

-----------------------------------------------------------------------------
(* NewTargetFilter and its Load. *)

InNamespaces(d, namespaces) == namespaces = {} \/ Placements[d].namespace \in namespaces

Matches(d, selector) ==
    CASE selector = "none" -> TRUE
      [] selector = "in" -> Placements[d].labelled
      [] selector = "notIn" -> ~Placements[d].labelled

(* spec.target in the words of its fields: a namespace filter "keeps only  *)
(* desired manifests whose metadata.namespace is listed" and skips those   *)
(* without one; a selector keeps "desired manifests whose labels match".   *)
Excluded(d) ==
    \/ target.namespaces # {} /\ (\A n \in target.namespaces : Placements[d].namespace # n)
    \/ target.selector = "in" /\ ~Placements[d].labelled
    \/ target.selector = "notIn" /\ Placements[d].labelled

LiveStates == {"same", "differs", "missing"}

Outcome(state) ==
    CASE state = "same" -> "unchanged" [] state = "differs" -> "changed"
      [] state = "missing" -> "new"

(* The comparison begins.  A history, truth, has what was true of each     *)
(* object since then; another, wanted, what the target asks for.           *)
Filter ==
    LET kept == {d \in stream :
                    InNamespaces(d, target.namespaces) /\ Matches(d, target.selector)}
    IN /\ stage = "filter" /\ Goto("compare")
       /\ \E live \in [kept -> LiveStates] :
             cmp' = [todo |-> kept, live |-> live, access |-> "granted", reading |-> NoValues,
                     changes |-> 0,
                     truth |-> [d \in kept |-> {Outcome(live[d])}],
                     wanted |-> {d \in stream : ~Excluded(d)}]
       /\ stream' = {} /\ target' = Missing
       /\ UNCHANGED <<revisionVars, helm>>

-----------------------------------------------------------------------------
(* kube-diff reads each live object by its name and compares. *)
Record(d, outcome) ==
    /\ cmp' = [cmp EXCEPT !.todo = @ \ {d}, !.reading = Over(@, [o \in {d} |-> outcome])]
    /\ UNCHANGED stage

(* Bug: an object that cannot be read is taken for one that is not there. *)
Read_Denied(d) == Record(d, IF cmp.access = "granted" THEN Outcome(cmp.live[d]) ELSE "new")

(* NotFound is an outcome; any other error ends the evaluation, and the    *)
(* reconcile tells Forbidden and Unauthorized from the rest.               *)
Read(d) ==
    \/ cmp.access = "granted" /\ Record(d, Outcome(cmp.live[d]))
    \/ /\ cmp.access # "granted" /\ cmp' = Missing
       /\ Goto(IF cmp.access = "forbidden" THEN "FetchError" ELSE "CompareError")

CompareNext ==
    /\ stage = "compare"
    /\ \/ \E d \in cmp.todo : Read(d)
       \/ cmp.todo = {} /\ Goto("evaluated") /\ UNCHANGED cmp
    /\ UNCHANGED <<revisionVars, helm, filterVars>>

(* An object is created, changed or deleted, or access to all changes. *)
ClusterChanges ==
    /\ stage = "compare" /\ cmp.changes < MaxLive
    /\ \/ \E d \in DOMAIN cmp.live : \E state \in LiveStates \ {cmp.live[d]} :
             cmp' = [cmp EXCEPT !.changes = @ + 1, !.live[d] = state,
                                !.truth[d] = @ \cup {Outcome(state)}]
       \/ \E access \in {"granted", "forbidden", "broken"} \ {cmp.access} :
             cmp' = [cmp EXCEPT !.changes = @ + 1, !.access = access]
    /\ UNCHANGED <<stage, revisionVars, helm, filterVars>>

(* The next reconcile evaluates everything anew. *)
End ==
    /\ stage \in {"evaluated", "FetchError", "CompareError"} /\ Goto("idle")
    /\ commit' = NoCommit /\ named' = {} /\ cmp' = Missing
    /\ UNCHANGED <<repo, helm, filterVars>>

Next ==
    \/ Begin \/ Fetch \/ RenderPlain \/ BeginHelm \/ Merge \/ RenderChart
    \/ Filter \/ CompareNext \/ ClusterChanges \/ End

Spec == Init /\ [][Next]_vars

-----------------------------------------------------------------------------
(* The type invariant. *)
TypeOK ==
    /\ stage \in Stages
    /\ commit \in Commits \cup {NoCommit} /\ (stage = "render" => commit # NoCommit)
    /\ named \subseteq Commits \cup {NoCommit}
    /\ stage = "checkout" => repo.remote \in Remotes /\ repo.ref \in Refs
    /\ stage = "merge" =>
          /\ layers \in Seq(Layers) /\ helm.merged \in 0..Len(layers)
          /\ \A m \in DOMAIN heap : heap[m] \in NestedMaps
          /\ \A k \in DOMAIN vals : vals[k] \in Leaves \cup DOMAIN heap
    /\ stream \subseteq Documents /\ target \in Targets \cup {Missing}
    /\ stage = "compare" =>
          /\ cmp.todo \subseteq DOMAIN cmp.live /\ DOMAIN cmp.live \subseteq Documents
          /\ \A d \in DOMAIN cmp.reading : cmp.reading[d] \in {"unchanged", "changed", "new"}

(* internal/source/git.go resolves a reference in a clone, while the       *)
(* remote it was asked about goes on: the commit that is checked out is    *)
(* one the reference stood for at the remote since the load began, and a   *)
(* reference is refused only if, at some moment since, there was none.     *)
ChecksOutWhatWasNamed ==
    /\ stage = "render" => commit \in named
    /\ stage = "CompareError" /\ named # {} => NoCommit \in named

(* internal/source/helm.go: "values files merge in order, inline values on *)
(* top".  The merge works in place, on maps it shares with the layers; its *)
(* result is still the one the layers have by precedence, key by key,      *)
(* after each of them and for any list of files, one that names a file     *)
(* twice included.                                                         *)
ValuesAsLayered ==
    stage = "merge" =>
        \A k \in TopKeys :
            IF Mentions(helm.merged, k) = {} THEN k \notin DOMAIN vals
            ELSE k \in DOMAIN vals /\ Value(k) = Layered(helm.merged, k)

(* The subchart is part of the chart unless its condition, by the          *)
(* documented precedence of values, or else its default, says otherwise.   *)
SubchartWanted ==
    helm.chart.vendored /\
        IF Giving(Len(layers), Subchart, Enabled) # {}
        THEN Layered(Len(layers), Subchart)[Enabled] = On ELSE helm.chart.default = On

(* "The output is the chart's steady state": whatever the layers of values *)
(* are, what is compared are the resources that installing the chart       *)
(* leaves in the cluster, custom resource definitions included, and those  *)
(* of a disabled subchart, hooks and notes excluded, which would read as   *)
(* permanent drift.                                                        *)
RendersSteadyState ==
    [][stage = "merge" /\ stage' = "filter" =>
          stream' = {d \in Documents : d.role \in {"crd", "manifest"}
                                          /\ (d.of = "chart" \/ SubchartWanted)}]_vars

(* The cluster is read object by object while it changes, and while access *)
(* to it does.  An evaluation that ends has an outcome of every manifest   *)
(* the target asks for, of no other, and each was true of its object at    *)
(* some moment of the comparison; an object that could not be read was     *)
(* never called new.                                                       *)
ReadingWasTrue ==
    stage = "evaluated" =>
        /\ DOMAIN cmp.reading = cmp.wanted
        /\ \A d \in cmp.wanted : cmp.reading[d] \in cmp.truth[d]

-----------------------------------------------------------------------------
(* What holds of every step in between, so that the above does at the end. *)

(* A clone is a copy of a remote that was there since the load began, and  *)
(* every remote since then has left its mark in named.                     *)
Clones == {Cloned(r) : r \in Remotes}
Repos == [remote : Remotes, ref : Refs, clone : Clones \cup {NoCommit}, pushes : Nat]

RevisionInHand ==
    /\ stage = "checkout" =>
          /\ repo \in Repos /\ StandsFor(repo.remote, repo.ref) \in named
          /\ repo.clone # NoCommit =>
                \E r \in Remotes : repo.clone = Cloned(r) /\ StandsFor(r, repo.ref) \in named
    /\ stage \notin {"checkout", "render", "CompareError"} => named = {}

(* The result of the merge owns its maps: what it has under a key is a     *)
(* leaf, or a map that one of the merged layers had under that same key,   *)
(* so that no map is reached through two keys.                             *)
ValuesInHand ==
    stage = "merge" =>
        /\ helm = [layers |-> layers, merged |-> helm.merged, heap |-> heap, vals |-> vals,
                   chart |-> helm.chart]
        /\ helm.chart \in Charts
        /\ DOMAIN heap \subseteq (1..helm.merged) \X TopKeys /\ DOMAIN vals \subseteq TopKeys
        /\ \A n \in 1..helm.merged : layers[n].content # Missing
        /\ \A k \in DOMAIN vals : IsMap(vals[k]) => \E n \in 1..helm.merged : vals[k] = <<n, k>>
        /\ \A k \in TopKeys :
              /\ Floor(helm.merged, k) \in 0..helm.merged
              /\ k \in DOMAIN vals => (IsMap(vals[k]) <=> Overlays(helm.merged, k) # {})

(* What is compared is what the target asks for, and what is left to do is *)
(* what has no outcome yet.                                                *)
Comparisons(wanted) ==
    [todo : SUBSET wanted, live : [wanted -> LiveStates], access : {"granted", "forbidden", "broken"},
     reading : UNION {[S -> {"unchanged", "changed", "new"}] : S \in SUBSET wanted},
     changes : Nat, truth : [wanted -> SUBSET {"unchanged", "changed", "new"}], wanted : {wanted}]

ComparisonInHand ==
    /\ stage = "filter" => target \in Targets
    /\ stage \in {"compare", "evaluated"} =>
          /\ cmp.wanted \subseteq Documents /\ cmp \in Comparisons(cmp.wanted)
          /\ DOMAIN cmp.reading = cmp.wanted \ cmp.todo
          /\ \A d \in cmp.wanted : Outcome(cmp.live[d]) \in cmp.truth[d]
          /\ \A d \in DOMAIN cmp.reading : cmp.reading[d] \in cmp.truth[d]

IndInv ==
    /\ TypeOK
    /\ RevisionInHand /\ ChecksOutWhatWasNamed
    /\ ValuesInHand /\ ValuesAsLayered
    /\ ComparisonInHand /\ ReadingWasTrue

=============================================================================
