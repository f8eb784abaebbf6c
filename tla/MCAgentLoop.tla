----------------------------- MODULE MCAgentLoop -----------------------------
(* Instances of AgentLoop small enough for TLC.                            *)
EXTENDS AgentLoop

(* What one message adds, in percent of the window: u for a real prompt, a *)
(* for an assistant or tool message.                                       *)
Weights(u, a) ==
  [r \in Roles |-> CASE r = "user" -> u [] r \in {"assistant", "tool"} -> a
                     [] r = "frame" -> 5 [] OTHER -> 1]

(* The first prompt and the summary alone are just below the trigger.      *)
NearWeight == Weights(70, 12)

(* Room for two turns.                                                     *)
HalfWeight == Weights(25, 8)

(* They are above it, so that a compaction cannot bring it below; but what *)
(* the nudges add fits in the headroom left over the floor.                *)
SlackWeight == Weights(81, 1)

FreshConversation == {<<Plain("user")>>}

(* A third turn: the first ended in a nudged answer after a tool round,    *)
(* and the second was about an image sent without a word.                  *)
ResumedConversation ==
  {<<Plain("user"), Answer(FALSE, 1), ToolResult(1), Plain("nudge"), Answer(TRUE, 0),
     ImagePrompt, Answer(TRUE, 0), Plain("hook"), Plain("user")>>}

SomeRounds == {<<"sync">>, <<"async", "sync">>, <<"readonly", "readonly">>}
PairRounds == {<<"async", "sync">>, <<"readonly", "readonly">>}
=============================================================================
