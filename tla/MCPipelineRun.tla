----------------------------- MODULE MCPipelineRun -----------------------------
(***************************************************************************)
(* Small instance of PipelineRun for TLC: a chain of three workflows, the  *)
(* first with two rows of the same text, the second with two rows of       *)
(* different ones, of which one that fails ends the run.                   *)
(***************************************************************************)
EXTENDS PipelineRun, TLC

CONSTANTS extract, graph, final, t1, t2, t3, t4
MCWorkflows == {extract, graph, final}
MCDependsOn == extract :> {} @@ graph :> {extract} @@ final :> {extract, graph}
MCTasks == {t1, t2, t3, t4}
MCWorkflowOf == t1 :> extract @@ t2 :> extract @@ t3 :> graph @@ t4 :> graph
MCSwallowing == {extract}
MCKeyOf == t1 :> 1 @@ t2 :> 1 @@ t3 :> 2 @@ t4 :> 3
================================================================================
