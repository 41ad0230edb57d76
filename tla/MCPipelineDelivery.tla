------------------------- MODULE MCPipelineDelivery -------------------------
(* Small instances of PipelineDelivery for TLC. *)
EXTENDS PipelineDelivery
=============================================================================
