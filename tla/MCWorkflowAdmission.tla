------------------------ MODULE MCWorkflowAdmission ------------------------
(* Instances of WorkflowAdmission; no symmetry, since one run has a        *)
(* liveness property.                                                      *)
EXTENDS WorkflowAdmission
=============================================================================
