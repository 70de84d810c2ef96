--------------------------- MODULE MCConversation ---------------------------
(* Instances of Conversation for TLC. *)
EXTENDS Conversation

\* A restart meets two submissions and a shorter transcript than a process that
\* stays up does.
RestartIsEarly == crashes > 0 => (\A s \in Subs : s > 2 => sub[s].status = "none") /\ log.last <= 3
=============================================================================
