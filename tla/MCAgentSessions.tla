--------------------------- MODULE MCAgentSessions ---------------------------
(* Agent sessions with two backoff pauses, the second longer than the first. *)
EXTENDS AgentSessions

MCPauses == <<1, 2>>
=============================================================================
