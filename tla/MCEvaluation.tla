------------------------------ MODULE MCEvaluation ------------------------------
(* Constants of Evaluation for TLC. *)
EXTENDS Evaluation

CONSTANTS f1, f2, team, other

MCFileLists == {<<>>, <<f1>>, <<f1, f1>>, <<f1, f2>>, <<f1, f2, f1>>}

(* Of a chart's documents, some in a namespace, some cluster-scoped, and   *)
(* some with the label.                                                    *)
MCPlacements ==
    [d \in Documents |->
        [namespace |-> CASE d.role = "crd" -> Missing
                         [] d.role # "crd" /\ d.of = "chart" -> team
                         [] d.role # "crd" /\ d.of = "subchart" -> other,
         labelled |-> d.of = "chart"]]

=============================================================================
