---------------------------- MODULE MCConversation ----------------------------
(* Every conversation a run can hold, up to MaxLength messages, to compare *)
(* the functions that rebuild it with what they are for.                   *)
EXTENDS Conversation

CONSTANTS
  MaxLength,             \* bound: messages in the conversation
  MaxCalls               \* bound: tool calls of one response

ASSUME RebuildBounds == MaxLength \in Nat /\ MaxCalls \in Nat

VARIABLE history

RebuildInit == history = <<>>

(* A prompt with or without text, hook context or a nudge, or a response   *)
(* with or without calls.                                                  *)
Grow ==
  /\ Closed(history) /\ Len(history) < MaxLength
  /\ \/ \E r \in {"user", "hook", "nudge"} : history' = Append(history, Plain(r))
     \/ history' = Append(history, ImagePrompt)
     \/ \E text \in BOOLEAN, n \in 0..MaxCalls : history' = Append(history, Answer(text, n))

(* The next result of the round that is still open.                        *)
Deliver ==
  /\ ~Closed(history) /\ Len(history) < MaxLength
  /\ \E k \in 1..MaxCalls :
       /\ history' = Append(history, ToolResult(k))
       /\ InOrder(history')

Inject ==
  \E n \in 1..2, topLevel \in BOOLEAN :
     /\ Closed(history) /\ Len(history) + n <= MaxLength
     /\ history' = Injected(history, n, topLevel)

(* /compact and the automatic compaction; there is nothing to compact when *)
(* no prompt is kept.                                                      *)
CompactRebuilt ==
  \E resume \in BOOLEAN :
     /\ Closed(history) /\ Kept(history) # {}
     /\ history' = Compacted(history, resume)
     /\ Len(history') <= MaxLength

Full == Len(history) >= MaxLength - 1 /\ UNCHANGED history

RebuildNext == Grow \/ Deliver \/ Inject \/ CompactRebuilt \/ Full
RebuildSpec == RebuildInit /\ [][RebuildNext]_history

(* salvage_messages, one scan with an early return, cuts exactly before    *)
(* the first round that is not answered (the longest valid prefix).        *)
ScanIsCut == SalvageScan(history) = Salvage(history)

(* Compacting what a compaction left gives the same history again: no      *)
(* frame, resume message or reminder batch accumulates (user_prompt_texts  *)
(* "replayed verbatim on every compaction would accumulate").              *)
CompactionSettles ==
  \A resume \in BOOLEAN :
     Kept(history) # {} =>
       LET once == Compacted(history, resume) IN Compacted(once, resume) = once
=============================================================================
