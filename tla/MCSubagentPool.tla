-------------------------- MODULE MCSubagentPool --------------------------
(* Instances of SubagentPool for TLC.  One thread outside the pool calls the *)
(* tools: the agent worker.                                                  *)
EXTENDS SubagentPool
=============================================================================
