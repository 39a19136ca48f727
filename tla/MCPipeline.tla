------------------------------ MODULE MCPipeline ------------------------------
(* The redirections for TLC. *)
EXTENDS Pipeline

AnyRedirection == {{}, {"in"}, {"out"}}

===============================================================================
