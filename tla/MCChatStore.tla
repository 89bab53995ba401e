----------------------------- MODULE MCChatStore -----------------------------
(* The data layer on one account with two sessions and a task, and the few *)
(* more rows the bound leaves room for.                                    *)
EXTENDS ChatStore

MCTaskStates == {"processing", "completed"}
MCUserMsgStates == {"waiting_agent_ack_user", "completed"}
MCAgentMsgStates == {"completed"}

=============================================================================
