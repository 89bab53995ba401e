----------------------------- MODULE ChatDatabase -----------------------------
(* The database of the chat as the variable that all its users share, and the *)
(* rows its tables hold.                                                      *)
EXTENDS ChatTables

VARIABLE db

(* What each table holds rows of. *)
Rows == [sessions |-> U2ASession, tasks |-> U2ASessionTask,
         userMsgs |-> U2AUserMessage, agentMsgs |-> U2AAgentMessage,
         userMems |-> UserShortTermMemory, agentMems |-> AgentShortTermMemory,
         configs |-> U2ASessionAgentConfig]

SessionTables == {"tasks", "userMsgs", "agentMsgs", "userMems", "agentMems", "configs"}
TaskTables    == {"userMsgs", "agentMsgs", "userMems", "agentMems"}

=============================================================================
