----------------------------- MODULE Conversation -----------------------------
(***************************************************************************)
(* The conversation the harness keeps, and the pure functions that rebuild *)
(* it: the salvage cut (core/tool_runner.py), prompt injection             *)
(* (core/agent.py), and the history after a compaction (prompts/core.py).  *)
(*                                                                         *)
(* A message is its role, whether it has text, the number of tool calls an *)
(* assistant message makes, and the call a tool message answers.  The      *)
(* calls of one response are numbered 1..calls; numbers are used again in  *)
(* the next round, as the client's fallback ids are.                       *)
(***************************************************************************)
EXTENDS Integers, Sequences, FiniteSets, SequencesExt

CONSTANT Weight          \* what one message of each role adds to the context

UserSide == {"user", "reminder", "hook", "frame", "resume", "nudge"}
Roles == UserSide \cup {"assistant", "tool"}
Message == [role : Roles, text : BOOLEAN, calls : Nat, id : Nat]

ASSUME WeightAssumption == Weight \in [Roles -> Nat]

Plain(r) == [role |-> r, text |-> TRUE, calls |-> 0, id |-> 0]
ImagePrompt == [Plain("user") EXCEPT !.text = FALSE]
Answer(t, n) == [role |-> "assistant", text |-> t, calls |-> n, id |-> 0]
ToolResult(k) == [role |-> "tool", text |-> TRUE, calls |-> 0, id |-> k]

-----------------------------------------------------------------------------
(* What a provider accepts as a request: every call is answered, in call   *)
(* order, right after the message that makes it, and no tool message is an *)
(* orphan.  InOrder holds of every prefix too; a Closed conversation has   *)
(* no round that is still open.                                            *)

RoundsInOrder(ms) ==
  \A i \in 1..Len(ms) : \A k \in 1..ms[i].calls :
     i + k <= Len(ms) => ms[i + k].role = "tool" /\ ms[i + k].id = k
NoOrphans(ms) ==
  \A j \in 1..Len(ms) : ms[j].role = "tool" =>
     /\ ms[j].id \in 1..(j - 1)
     /\ ms[j].calls = 0
     /\ ms[j - ms[j].id].calls >= ms[j].id
InOrder(ms) == RoundsInOrder(ms) /\ NoOrphans(ms)
Complete(ms) == \A i \in 1..Len(ms) : i + ms[i].calls <= Len(ms)
Closed(ms) == InOrder(ms) /\ Complete(ms)

-----------------------------------------------------------------------------
(* salvage_messages.  The round opened at i is answered within the first n *)
(* messages when the tool messages right after it name each of its calls;  *)
(* the conversation is cut before the first round that is not.             *)

Answered(ms, i, n) ==
  \E e \in i..n :
    /\ \A j \in i + 1..e : ms[j].role = "tool"
    /\ \A k \in 1..ms[i].calls : \E j \in i + 1..e : ms[j].id = k
AllAnswered(ms, n) ==
  \A i \in 1..n : ms[i].calls > 0 => Answered(ms, i, n)

SalvageCut(ms) ==
  CHOOSE n \in 0..Len(ms) :
    /\ AllAnswered(ms, n)
    /\ \A m \in 0..Len(ms) : AllAnswered(ms, m) => m <= n
Salvage_Whole(ms) == ms
Salvage(ms) == SubSeq(ms, 1, SalvageCut(ms))

(* The same function as the code's own single scan: the open round, the    *)
(* calls it still waits for, and the cut once the scan has returned.       *)
NoCut == -1
ScanStep_FirstAnswerCloses(ms, acc, i) ==
  IF acc.cut # NoCut THEN acc
  ELSE IF acc.open # 0 /\ ms[i].role # "tool" THEN [acc EXCEPT !.cut = acc.open - 1]
  ELSE IF ms[i].calls > 0 THEN [acc EXCEPT !.open = i, !.left = 1..ms[i].calls]
  ELSE IF ms[i].role = "tool" /\ ms[i].id \in acc.left
       THEN [acc EXCEPT !.left = {}, !.open = 0]
  ELSE acc
ScanStep(ms, acc, i) ==
  LET left == acc.left \ {ms[i].id} IN
  IF acc.cut # NoCut THEN acc
  ELSE IF acc.open # 0 /\ ms[i].role # "tool" THEN [acc EXCEPT !.cut = acc.open - 1]
  ELSE IF ms[i].calls > 0 THEN [acc EXCEPT !.open = i, !.left = 1..ms[i].calls]
  ELSE IF ms[i].role = "tool" /\ ms[i].id \in acc.left
       THEN [acc EXCEPT !.left = left, !.open = IF left = {} THEN 0 ELSE acc.open]
  ELSE acc
ScanStart == [open |-> 0, left |-> {}, cut |-> NoCut]
Scanned(ms) ==
  LET scan[i \in 0..Len(ms)] == IF i = 0 THEN ScanStart ELSE ScanStep(ms, scan[i - 1], i)
  IN  scan
SalvageScan(ms) ==
  LET end == Scanned(ms)[Len(ms)]
  IN  SubSeq(ms, 1, IF end.cut # NoCut THEN end.cut
                    ELSE IF end.open # 0 THEN end.open - 1 ELSE Len(ms))

-----------------------------------------------------------------------------
(* How full the context window is, in percent (update_context_ratio).      *)

CountOf(ms, r) == Cardinality({i \in 1..Len(ms) : ms[i].role = r})
Load(ms, r) == Weight[r] * CountOf(ms, r)
Ratio(ms) ==
  Load(ms, "user") + Load(ms, "reminder") + Load(ms, "hook") + Load(ms, "frame")
  + Load(ms, "resume") + Load(ms, "nudge") + Load(ms, "assistant") + Load(ms, "tool")

(* user_prompt_texts: every real prompt that has text and, of the mode     *)
(* reminders, only the last contiguous batch.  Nudges, resume messages,    *)
(* summary frames and hook context are dropped, and so is a prompt that is *)
(* nothing but images.                                                     *)
Worded(ms, i) == ms[i].role = "user" /\ ms[i].text
InLastBatch(ms, i) ==
  /\ ms[i].role = "reminder"
  /\ \A j \in i + 1..Len(ms) :
        ms[j].role = "reminder" => \A k \in i..j : ms[k].role = "reminder"
Kept_LastPrompt(ms) ==
  {i \in 1..Len(ms) : Worded(ms, i) /\ \A j \in i + 1..Len(ms) : ~Worded(ms, j)}
Kept_WithResume(ms) ==
  {i \in 1..Len(ms) : Worded(ms, i) \/ ms[i].role = "resume" \/ InLastBatch(ms, i)}
Kept(ms) == {i \in 1..Len(ms) : Worded(ms, i) \/ InLastBatch(ms, i)}
NthKept(ms, n) ==
  CHOOSE i \in Kept(ms) : Cardinality({j \in Kept(ms) : j <= i}) = n

(* compacted_messages: the summary frame, the kept prompts, and (automatic *)
(* compaction only) the resume message.                                    *)
Compacted(ms, resume) ==
  LET n == Cardinality(Kept(ms)) IN
  [k \in 1..(n + IF resume THEN 2 ELSE 1) |->
     Plain(IF k = 1 THEN "frame" ELSE IF k = n + 2 THEN "resume"
           ELSE ms[NthKept(ms, k - 1)].role)]

(* _inject_pending_prompts: n reminders, before a trailing user message of *)
(* a top-level loop and at the end otherwise.                              *)
InjectAt_BeforeLast(ms, topLevel) == IF Len(ms) > 0 THEN Len(ms) ELSE 1
InjectAt(ms, topLevel) ==
  IF topLevel /\ Len(ms) > 0 /\ ms[Len(ms)].role \in UserSide
  THEN Len(ms) ELSE Len(ms) + 1
Injected(ms, n, topLevel) ==
  LET p == InjectAt(ms, topLevel) IN
  [k \in 1..Len(ms) + n |->
     IF k < p THEN ms[k] ELSE IF k < p + n THEN Plain("reminder") ELSE ms[k - n]]

(* The real prompts of a conversation, and those of them that have text.   *)
Prompts(ms) == CountOf(ms, "user")
WordedPrompts(ms) == Cardinality({i \in 1..Len(ms) : Worded(ms, i)})

(* The nudges since its last tool round, compaction or real prompt.        *)
Forgets == {"tool", "frame", "user"}
RecentNudges(ms) ==
  {i \in 1..Len(ms) :
     ms[i].role = "nudge" /\ \A j \in i + 1..Len(ms) : ms[j].role \notin Forgets}
=============================================================================
