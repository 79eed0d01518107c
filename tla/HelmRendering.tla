----------------------------- MODULE HelmRendering -----------------------------
(***************************************************************************)
(* What a Helm chart stands for: renderHelmChart and mergeValues of        *)
(* internal/source/helm.go.  Values come in layers, the values files of    *)
(* the spec in its order and then the inline values; mergeValues folds     *)
(* them into one map in place.  Nested maps are modelled as Go has them,   *)
(* as references into a heap, because mergeValues keeps those of its       *)
(* second argument instead of copying them.                                *)
(*                                                                         *)
(* The Helm SDK prunes the subchart, renders and sorts.                    *)
(***************************************************************************)
EXTENDS Naturals, Sequences, FiniteSets, FiniteSetsExt

CONSTANTS TopKeys,       \* keys of a values map
          NestedKeys,    \* keys of a nested one
          On, Off,       \* the values of keys
          Subchart,      \* the name of the chart's dependency, a key of its values
          Enabled,       \* its condition: the nested key Subchart.Enabled
          Files,         \* values files of the chart
          FileLists,     \* the valuesFiles of specs
          Missing        \* no such thing, or nothing that can be parsed

ASSUME HelmConstants ==
    /\ Subchart \in TopKeys /\ Enabled \in NestedKeys /\ FileLists \subseteq Seq(Files)
    /\ On \notin Nat \X TopKeys /\ Off \notin Nat \X TopKeys    \* no value is a reference

Leaves == {On, Off}
NestedMaps == UNION {[S -> Leaves] : S \in SUBSET NestedKeys}
Contents == UNION {[S -> Leaves \cup NestedMaps] : S \in SUBSET TopKeys}

(* What a chart consists of, in itself and in its dependency. *)
Roles == {"crd", "blankCRD", "manifest", "hook", "partial", "notes", "blank"}
Documents == [of : {"chart", "subchart"}, role : Roles]

VARIABLE helm    \* the rendering in progress: or Missing: none

(* The layers of values, inline ones without a file, and how many of them  *)
(* are merged; the nested maps under their references; the result so far,  *)
(* of leaves and references; and of the dependency, whether it is in       *)
(* charts/ and enabled by default.                                         *)
layers == helm.layers
vals == helm.vals
heap == helm.heap

Layers == [file : Files \cup {Missing}, content : Contents \cup {Missing}]
Charts == [vendored : BOOLEAN, default : Leaves]
NoValues == [k \in {} |-> On]

(* f, and g where f has nothing. *)
Over(f, g) == [x \in DOMAIN f \cup DOMAIN g |-> IF x \in DOMAIN f THEN f[x] ELSE g[x]]

-----------------------------------------------------------------------------
(* The values files of the spec in its order; a file that is listed twice  *)
(* is two layers.  Inline values are the last layer, if there are any.     *)
ReadChart ==
    \E list \in FileLists, inline \in {<<>>} \cup {<<c>> : c \in Contents \cup {Missing}}, chart \in Charts :
       \E content \in [{list[i] : i \in DOMAIN list} -> Contents \cup {Missing}] :
          helm' = [layers |-> [i \in DOMAIN list |-> [file |-> list[i], content |-> content[list[i]]]]
                                \o [i \in DOMAIN inline |-> [file |-> Missing, content |-> inline[i]]],
                   merged |-> 0, heap |-> NoValues, vals |-> NoValues, chart |-> chart]

(* Parsing makes nested maps of its own: <<n, k>> is the one layer n has   *)
(* under k.                                                                *)
IsMap(v) == v \notin Leaves

AllMerged == helm.merged = Len(layers)

(* Bug: a file that is listed twice is parsed once. *)
Origin_Cached(n) == Min({i \in 1..n : layers[i].file # Missing /\ layers[i].file = layers[n].file}
                           \cup {n})

Origin(n) == n

MapKeys(n) == {k \in DOMAIN layers[n].content : IsMap(layers[n].content[k])}

ReadValues(n) ==
    [k \in DOMAIN layers[n].content |->
        IF k \in MapKeys(n) THEN <<Origin(n), k>> ELSE layers[n].content[k]]

Allocated(n) == [m \in {<<Origin(n), k>> : k \in MapKeys(n)} |-> layers[n].content[m[2]]]

(* mergeValues into dst: where both sides have a map the one of dst takes  *)
(* the entries of the other; elsewhere src wins, and its maps are aliased. *)
BothMaps(dst, src, k) ==
    k \in DOMAIN dst \cap DOMAIN src /\ IsMap(dst[k]) /\ IsMap(src[k])

MergeValues(dst, src) ==
    [k \in DOMAIN dst \cup DOMAIN src |->
        IF k \notin DOMAIN src \/ BothMaps(dst, src, k) THEN dst[k] ELSE src[k]]

MergeNested(h, dst, src) ==
    [m \in DOMAIN h |->
        IF \E k \in DOMAIN dst : dst[k] = m /\ BothMaps(dst, src, k)
        THEN Over(h[src[CHOOSE k \in DOMAIN dst : dst[k] = m /\ BothMaps(dst, src, k)]], h[m])
        ELSE h[m]]

(* One turn of the loop over valuesFiles, or the inline values after it. *)
MergeLayer ==
    LET n == helm.merged + 1
        src == ReadValues(n)
    IN /\ n <= Len(layers) /\ layers[n].content # Missing
       /\ helm' = [helm EXCEPT !.merged = n,
                               !.heap = MergeNested(Over(heap, Allocated(n)), vals, src),
                               !.vals = MergeValues(vals, src)]

(* A file that is not there, or is not a map. *)
LayerFails == ~AllMerged /\ layers[helm.merged + 1].content = Missing /\ helm' = Missing

-----------------------------------------------------------------------------
(* ProcessDependenciesWithMerge.  Values for a subchart that are not a map *)
(* are an error; its condition, if there is none, is the chart's own.      *)
DependencyFails == helm.chart.vendored /\ Subchart \in DOMAIN vals /\ ~IsMap(vals[Subchart])

Kept ==
    LET given == Subchart \in DOMAIN vals /\ Enabled \in DOMAIN heap[vals[Subchart]]
        enabled == IF given THEN heap[vals[Subchart]][Enabled] ELSE helm.chart.default
    IN {"chart"} \cup IF helm.chart.vendored /\ enabled = On THEN {"subchart"} ELSE {}

(* engine.Render renders templates/, the Notes of subcharts included;      *)
(* SortManifests separates hooks, and leaves partials and blanks out.      *)
RenderedFiles(kept) == {d \in Documents : d.of \in kept /\ d.role \notin {"crd", "blankCRD"}}
SortManifests(files) == {d \in files : d.role \notin {"hook", "partial", "blank"}}

(* Every file whose name ends with NOTES.txt. *)
DropNotes(files) == {d \in files : d.role # "notes"}

(* Bug: the definitions are collected before the subchart is pruned. *)
CRDObjects_Unpruned(kept) == {d \in Documents : d.role \in {"crd", "blankCRD"}}

CRDObjects(kept) == {d \in Documents : d.of \in kept /\ d.role \in {"crd", "blankCRD"}}

Stream(kept) ==
    {d \in CRDObjects(kept) : d.role # "blankCRD"}
        \cup SortManifests(DropNotes(RenderedFiles(kept)))

-----------------------------------------------------------------------------
(* The documented precedence, of a path at a time: "values files merge in  *)
(* order, inline values on top".  Of the first n layers, the last that     *)
(* gives k a value that is no map hides what is below; above it, the last  *)
(* layer that has an entry decides it.                                     *)
Mentions(n, k) == {i \in 1..n : k \in DOMAIN layers[i].content}
Floor(n, k) == Max({0} \cup {i \in Mentions(n, k) : ~IsMap(layers[i].content[k])})
Overlays(n, k) == {i \in Mentions(n, k) : i > Floor(n, k)}
Giving(n, k, j) == {i \in Overlays(n, k) : j \in DOMAIN layers[i].content[k]}

Layered(n, k) ==
    IF Overlays(n, k) = {} THEN layers[Floor(n, k)].content[k]
    ELSE [j \in {i \in NestedKeys : Giving(n, k, i) # {}} |->
             layers[Max(Giving(n, k, j))].content[k][j]]

(* What the merge has made of a key, references followed. *)
Value(k) == IF IsMap(vals[k]) THEN heap[vals[k]] ELSE vals[k]

=============================================================================
