------------------------------ MODULE MCEngines ------------------------------
(***************************************************************************)
(* The two engines that drive the stage machine: the scripted orchestrator *)
(* and the graph.  They share no state, so a behaviour is one of one of    *)
(* them, chosen once by part; their interleavings would add states and     *)
(* show nothing.                                                           *)
(***************************************************************************)
EXTENDS Pipeline, GraphWorkflow

VARIABLE part

EnginesInit == part \in {"pipeline", "graph"} /\ PipelineInit /\ GraphInit

EnginesNext ==
    \/ part = "pipeline" /\ PipelineNext /\ UNCHANGED <<part, graphVars>>
    \/ part = "graph" /\ GraphNext /\ UNCHANGED <<part, pipelineVars>>

EnginesSpec ==
    /\ EnginesInit
    /\ [][EnginesNext]_<<part, pipelineVars, graphVars>>
    /\ PipelineFairness /\ GraphFairness

\* The type invariants of both engines.
EnginesTypeOK == PipelineTypeOK /\ GraphTypeOK
=============================================================================
