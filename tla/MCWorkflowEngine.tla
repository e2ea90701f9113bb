-------------------------- MODULE MCWorkflowEngine --------------------------
(* A workflow for TLC: two ways from the entry to the end, a checkpoint on *)
(* one of them and one after they have met.                                *)
EXTENDS WorkflowEngine

CONSTANTS build, test, review, deploy, alert

Graph == {<<build, test>>, <<build, review>>, <<test, deploy>>, <<review, deploy>>, <<deploy, alert>>}
=============================================================================
