------------------------------ MODULE AgentLoop ------------------------------
(***************************************************************************)
(* One run of the agent: the finite state machine of core/agent.py, with   *)
(* the tool runner (core/tool_runner.py) and the context manager           *)
(* (core/context_manager.py) it delegates to.                              *)
(*                                                                         *)
(* `state' is the machine's own state.  `pc' is the worker thread's place  *)
(* inside the current handler: a handler blocks (the model's answer, a     *)
(* summary, a tool, the title), and the user, in another thread, may       *)
(* cancel or supersede the run at each of those points.                    *)
(***************************************************************************)
EXTENDS Conversation

CONSTANTS
  TopLevel,              \* the main agent's loop, or a sub-agent's
  ToolsEnabled,          \* session.tools_enabled
  Budgeted,              \* max_rounds is set (sub-agents, headless, serve)
  Timed,                 \* the run has a wall-clock limit
  AutoSave,              \* config.AUTO_SAVE_SESSION
  MaxRounds,             \* the round budget, read only when Budgeted
  MaxNudges,             \* config.MAX_NUDGES
  Trigger,               \* config.CONTEXT_TRIGGER, in percent of the window
  PoolSize,              \* MAX_PARALLEL_READONLY
  Conversations,         \* the conversations a run may start from
  Rounds,                \* the tool rounds a response may ask for
  MaxToolRounds,         \* bound: tool rounds the model asks for in one run
  MaxReminders           \* bound: plan/build reminders pending at once

Kinds == {"sync", "async", "readonly"}

ASSUME FlagsAssumption ==
  /\ TopLevel \in BOOLEAN /\ ToolsEnabled \in BOOLEAN /\ Budgeted \in BOOLEAN
  /\ Timed \in BOOLEAN /\ AutoSave \in BOOLEAN
ASSUME BoundsAssumption ==
  /\ MaxRounds \in Nat /\ MaxNudges \in Nat /\ Trigger \in Nat
  /\ MaxToolRounds \in Nat /\ MaxReminders \in Nat
  /\ PoolSize \in Nat \ {0}
ASSUME RoundsAssumption == \A r \in Rounds : r \in Seq(Kinds) /\ r # <<>>
ASSUME ConversationsAssumption ==
  \A c \in Conversations : c \in Seq(Message) /\ Closed(c)
(* A run starts from the prompt it is to answer (_run_worker appends it     *)
(* last, run_subagent starts from nothing else).                           *)
ASSUME PromptIsLast ==
  \A c \in Conversations : c # <<>> /\ c[Len(c)].role = "user"
ASSUME SubAgentsAreBudgeted == TopLevel \/ Budgeted

VARIABLES
  state, pc,             \* the machine's state; the worker's place in its handler
  info,                  \* the keys of self.info the predicates and TRET read
  messages,              \* self.messages
  round, status, at,     \* the round's calls, how far each is, the loop index
  pending,               \* self.pending is not empty
  rounds, nudges,        \* self.rounds, supervisor.nudge_count
  justCompacted, floor,  \* self._just_compacted, self._compaction_floor
  reminders,             \* plan/build reminders waiting to be injected
  cancelled,             \* cancel_event set, or cancel_generation moved on
  stale,                 \* run_generation moved on
  alive,                 \* session.alive
  lastMessages,          \* session.last_messages
  saved, saveError,      \* the session file; session._save_error is set
  result, runDone,       \* self.result; "run_done" was notified
  toolRounds, lateStarts \* history: tool rounds asked for, calls started after
                         \* the run was told to stop

toolVars == <<round, status, at, pending>>
contextVars == <<justCompacted, floor, reminders>>
userVars == <<cancelled, stale, alive>>
sessionVars == <<lastMessages, saved, saveError>>
endVars == <<result, runDone>>
historyVars == <<toolRounds, lateStarts>>
vars == <<state, pc, info, messages, toolVars, rounds, nudges, contextVars,
          userVars, sessionVars, endVars, historyVars>>

NoFloor == -1
TerminalStates == {"DONE", "ERRS", "ABRT"}
States == {"WAIT", "TOOL", "TRET", "SUPERVISE"} \cup TerminalStates
Pcs == {"wait", "compact", "chat", "route", "tool", "dispatch", "start", "sync", "collect",
        "deliver", "append", "supervise", "terminal", "commit", "title", "notify", "over"}
InfoKeys == {"budget", "error", "compacted", "tool_calls", "tool_result", "nudged"}
Results == {"unset", "answer", "last text", "exhausted", "none", "error"}
Calls == 1..Len(round)
Resolved == {"ok", "failed", "cancelled"}
CallStatus == {"queued", "submitted", "running", "ended"} \cup Resolved

(* _is_cancelled: this run must stop, for either reason.                   *)
Stopped == cancelled \/ stale

Init ==
  /\ state = "WAIT" /\ pc = "wait" /\ info = {}
  /\ messages \in Conversations
  /\ round = <<>> /\ status = <<>> /\ at = 1 /\ pending = FALSE
  /\ rounds = 0 /\ nudges = 0
  /\ justCompacted = FALSE /\ floor = NoFloor
  /\ reminders \in 0..MaxReminders
  /\ cancelled \in BOOLEAN /\ stale = FALSE /\ alive = TRUE
  /\ lastMessages = <<>> /\ saved = <<>> /\ saveError = FALSE
  /\ result = "unset" /\ runDone = FALSE
  /\ toolRounds = 0 /\ lateStarts = 0

-----------------------------------------------------------------------------
(* Shared helpers.                                                         *)

(* _do_save: the file is replaced, or both attempts fail and the error     *)
(* stays visible.                                                          *)
Save(ms) ==
  \/ AutoSave /\ saved' = ms /\ saveError' = FALSE
  \/ AutoSave /\ saveError' = TRUE /\ UNCHANGED saved
  \/ ~AutoSave /\ UNCHANGED <<saved, saveError>>

(* session.last_messages = list(self.messages)                             *)
Mirror(ms) == lastMessages' = IF TopLevel THEN ms ELSE lastMessages

(* _check_budget_at_wait, without the deadline, which the clock decides.   *)
BudgetSpent_OffByOne == Budgeted /\ rounds > MaxRounds
BudgetSpent == Budgeted /\ rounds >= MaxRounds

(* need_compaction on the context as it is after prompt injection.         *)
NeedCompaction(ms) == TopLevel /\ ToolsEnabled /\ Ratio(ms) > Trigger

(* Grown by less than half the headroom left over the floor.               *)
BelowFloor(ms) ==
  /\ floor # NoFloor
  /\ 2 * Ratio(ms) <= 2 * floor + (IF floor < 100 THEN 100 - floor ELSE 0)

(* What WAIT does about the context.  Right after a compaction the request *)
(* goes out whatever the ratio, and the ratio becomes the floor.           *)
CompactionChoice_NoGuard(ms) ==
  IF ~NeedCompaction(ms) THEN "clear" ELSE IF BelowFloor(ms) THEN "keep" ELSE "compact"
CompactionChoice(ms) ==
  IF ~NeedCompaction(ms) THEN "clear"
  ELSE IF justCompacted THEN "settle"
  ELSE IF BelowFloor(ms) THEN "keep" ELSE "compact"

(* Where the handler of a state begins.                                    *)
HandlerOf(s) ==
  CASE s = "WAIT" -> "wait" [] s = "TOOL" -> "tool" [] s = "TRET" -> "deliver"
    [] s = "SUPERVISE" -> "supervise" [] s \in TerminalStates -> "terminal"

-----------------------------------------------------------------------------
(* WAIT: prepare the round and send the request.                           *)

WaitOutOfBudget ==
  /\ pc = "wait" /\ BudgetSpent
  /\ info' = IF TopLevel THEN {"error"} ELSE {"budget"}
  /\ pc' = "route"
  /\ UNCHANGED <<state, messages, toolVars, rounds, nudges, contextVars,
                 userVars, sessionVars, endVars, historyVars>>

WaitOutOfTime ==
  /\ pc = "wait" /\ ~BudgetSpent /\ Timed
  /\ info' = {"error"}
  /\ pc' = "route"
  /\ UNCHANGED <<state, messages, toolVars, rounds, nudges, contextVars,
                 userVars, sessionVars, endVars, historyVars>>

(* An unbudgeted run never reads rounds, so the model does not count them. *)
CountRound == rounds' = IF Budgeted THEN rounds + 1 ELSE rounds

WaitCancelled ==
  /\ pc = "wait" /\ ~BudgetSpent /\ Stopped
  /\ CountRound /\ info' = {} /\ pc' = "route"
  /\ UNCHANGED <<state, messages, toolVars, nudges, contextVars,
                 userVars, sessionVars, endVars, historyVars>>

WaitSends ==
  /\ pc = "wait" /\ ~BudgetSpent /\ ~Stopped
  /\ CountRound /\ info' = {}
  /\ messages' = Injected(messages, reminders, TopLevel)
  /\ reminders' = 0
  /\ LET choice == CompactionChoice(messages') IN
       /\ pc' = IF choice = "compact" THEN "compact" ELSE "chat"
       /\ floor' = CASE choice = "clear" -> NoFloor [] choice = "settle" -> Ratio(messages')
                     [] OTHER -> floor
       /\ justCompacted' = (choice = "compact" /\ justCompacted)
  /\ UNCHANGED <<state, toolVars, nudges, userVars, sessionVars, endVars, historyVars>>

(* ContextManager.compact: a summary arrived.                              *)
CompactSucceeds ==
  /\ pc = "compact" /\ Kept(messages) # {}
  /\ messages' = Compacted(messages, TRUE)
  /\ lastMessages' = IF TopLevel /\ ~Stopped THEN messages' ELSE lastMessages
  /\ nudges' = 0 /\ justCompacted' = TRUE
  /\ info' = {"compacted"} /\ pc' = "route"
  /\ UNCHANGED <<state, toolVars, rounds, floor, reminders, userVars, saved,
                 saveError, endVars, historyVars>>

(* No prompts, an empty summary or an exception: the history is unchanged  *)
(* and the request goes out with it.                                       *)
CompactFails ==
  /\ pc = "compact"
  /\ floor' = Ratio(messages) /\ justCompacted' = FALSE
  /\ pc' = "chat"
  /\ UNCHANGED <<state, info, messages, toolVars, rounds, nudges, reminders,
                 userVars, sessionVars, endVars, historyVars>>

(* client.chat raised, or came back to a run that had to stop meanwhile.   *)
ChatFails ==
  /\ pc = "chat"
  /\ info' = IF Stopped THEN {} ELSE {"error"}
  /\ pc' = "route"
  /\ UNCHANGED <<state, messages, toolVars, rounds, nudges, contextVars,
                 userVars, sessionVars, endVars, historyVars>>

(* The response of a live run: text or none, and the tool round r it asks  *)
(* for.  auto_save is debounced, so it may also leave the file alone.      *)
ChatAnswers(text, r) ==
  /\ pc = "chat" /\ ~Stopped
  /\ r # <<>> => ToolsEnabled /\ toolRounds < MaxToolRounds
  /\ messages' = Append(messages, Answer(text, Len(r)))
  /\ IF text /\ r = <<>> THEN Mirror(messages') ELSE UNCHANGED lastMessages
  /\ \/ TopLevel /\ Save(messages')
     \/ UNCHANGED <<saved, saveError>>
  /\ round' = r
  /\ info' = IF r = <<>> THEN {} ELSE {"tool_calls"}
  /\ toolRounds' = IF r = <<>> THEN toolRounds ELSE toolRounds + 1
  /\ pc' = "route"
  /\ UNCHANGED <<state, status, at, pending, rounds, nudges, contextVars, userVars,
                 endVars, lateStarts>>

-----------------------------------------------------------------------------
(* TRANSITIONS and _next_state: the first predicate that holds wins.       *)

NextState ==
  CASE state = "WAIT" ->
         (IF "budget" \in info THEN "DONE" ELSE IF Stopped THEN "ABRT"
          ELSE IF "compacted" \in info THEN "WAIT" ELSE IF "error" \in info THEN "ERRS"
          ELSE IF "tool_calls" \in info THEN "TOOL" ELSE "SUPERVISE")
    [] state = "TOOL" -> (IF Stopped THEN "ABRT" ELSE "TRET")
    [] state = "TRET" -> (IF Stopped THEN "ABRT" ELSE "WAIT")
    [] state = "SUPERVISE" -> (IF "nudged" \in info THEN "WAIT" ELSE "DONE")

Route ==
  /\ pc = "route"
  /\ state' = NextState
  /\ pc' = HandlerOf(state')
  /\ at' = 1
  /\ UNCHANGED <<info, messages, round, status, pending, rounds, nudges, contextVars,
                 userVars, sessionVars, endVars, historyVars>>

-----------------------------------------------------------------------------
(* TOOL: run the round.  A round of readonly calls goes to a thread pool;  *)
(* otherwise the calls are taken in order, sync calls run to their end and *)
(* async calls (Bash, Agent) return a handle awaited afterwards.           *)

Parallel == \A k \in Calls : round[k] = "readonly"
InBackground(k) == Parallel \/ round[k] = "async"
NextCall == at' = at + 1 /\ pc' = "dispatch"

ToolBegins ==
  /\ pc = "tool"
  /\ pending' = TRUE /\ nudges' = 0
  /\ Mirror(messages)
  /\ status' = [k \in Calls |-> "queued"]
  /\ pc' = IF Stopped THEN "route" ELSE "dispatch"
  /\ UNCHANGED <<state, info, messages, round, at, rounds, contextVars, userVars,
                 saved, saveError, endVars, toolRounds, lateStarts>>

(* The check before every call.                                            *)
CheckCall_NoCheck ==
  /\ pc = "dispatch" /\ at \in Calls
  /\ pc' = "start"
  /\ UNCHANGED <<state, info, messages, toolVars, rounds, nudges, contextVars,
                 userVars, sessionVars, endVars, historyVars>>
CheckCall ==
  /\ pc = "dispatch" /\ at \in Calls
  /\ IF Stopped THEN status' = [status EXCEPT ![at] = "cancelled"] /\ NextCall
                ELSE pc' = "start" /\ UNCHANGED <<status, at>>
  /\ UNCHANGED <<state, info, messages, round, pending, rounds, nudges, contextVars,
                 userVars, sessionVars, endVars, historyVars>>

(* Bad arguments, a blocking hook, or a crash: an error result.            *)
RefuseCall ==
  /\ pc = "start" /\ ~Parallel
  /\ status' = [status EXCEPT ![at] = "failed"] /\ NextCall
  /\ UNCHANGED <<state, info, messages, round, pending, rounds, nudges, contextVars,
                 userVars, sessionVars, endVars, historyVars>>

CountStart == lateStarts' = IF Stopped THEN lateStarts + 1 ELSE lateStarts
StartCall ==
  /\ pc = "start" /\ ~Parallel
  /\ status' = [status EXCEPT ![at] = "running"]
  /\ IF InBackground(at) THEN NextCall ELSE pc' = "sync" /\ UNCHANGED at
  /\ CountStart
  /\ UNCHANGED <<state, info, messages, round, pending, rounds, nudges, contextVars,
                 userVars, sessionVars, endVars, toolRounds>>

(* A readonly round hands its calls to the pool, which starts them in      *)
(* order as its threads become free, and does not look at the cancellation.*)
SubmitCall ==
  /\ pc = "start" /\ Parallel
  /\ status' = [status EXCEPT ![at] = "submitted"] /\ NextCall
  /\ UNCHANGED <<state, info, messages, round, pending, rounds, nudges, contextVars,
                 userVars, sessionVars, endVars, historyVars>>

PoolStartsCall(k) ==
  /\ k \in DOMAIN status /\ status[k] = "submitted"
  /\ \A j \in 1..k - 1 : status[j] # "submitted"
  /\ Cardinality({j \in Calls : status[j] = "running"}) < PoolSize
  /\ status' = [status EXCEPT ![k] = "running"]
  /\ CountStart
  /\ UNCHANGED <<state, pc, info, messages, round, at, pending, rounds, nudges,
                 contextVars, userVars, sessionVars, endVars, toolRounds>>

(* A sync call ends on the worker's thread.  An approved PlanExit leaves a *)
(* prompt for the next round.                                              *)
SyncCallEnds(outcome) ==
  /\ pc = "sync"
  /\ status' = [status EXCEPT ![at] = outcome] /\ NextCall
  /\ \/ UNCHANGED reminders
     \/ /\ TopLevel /\ outcome = "ok" /\ reminders < MaxReminders
        /\ reminders' = reminders + 1
  /\ UNCHANGED <<state, info, messages, round, pending, rounds, nudges, justCompacted,
                 floor, userVars, sessionVars, endVars, historyVars>>

(* A background call ends on its own thread.                               *)
BackgroundCallEnds(k) ==
  /\ k \in DOMAIN status /\ InBackground(k) /\ status[k] = "running"
  /\ status' = [status EXCEPT ![k] = "ended"]
  /\ UNCHANGED <<state, pc, info, messages, round, at, pending, rounds, nudges,
                 contextVars, userVars, sessionVars, endVars, historyVars>>

DispatchEnds ==
  /\ pc = "dispatch" /\ at \notin Calls
  /\ pc' = "collect" /\ at' = 1
  /\ UNCHANGED <<state, info, messages, round, status, pending, rounds, nudges,
                 contextVars, userVars, sessionVars, endVars, historyVars>>

(* Await the handles in call order; the wait is where the worker blocks.   *)
CollectCall_NoWait(outcome) ==
  /\ pc = "collect" /\ at \in Calls
  /\ status' = [status EXCEPT ![at] = IF @ = "ended" THEN outcome ELSE @]
  /\ at' = at + 1
  /\ UNCHANGED <<state, pc, info, messages, round, pending, rounds, nudges, contextVars,
                 userVars, sessionVars, endVars, historyVars>>
CollectCall_WaitsForAll(outcome) ==
  /\ pc = "collect" /\ at \in Calls
  /\ status[at] \in {"ended", "ok", "failed"}
  /\ status' = [status EXCEPT ![at] = IF @ = "ended" THEN outcome ELSE @]
  /\ at' = at + 1
  /\ UNCHANGED <<state, pc, info, messages, round, pending, rounds, nudges, contextVars,
                 userVars, sessionVars, endVars, historyVars>>
CollectCall(outcome) ==
  /\ pc = "collect" /\ at \in Calls
  /\ status[at] \notin {"submitted", "running"}
  /\ status' = [status EXCEPT ![at] = IF @ = "ended" THEN outcome ELSE @]
  /\ at' = at + 1
  /\ UNCHANGED <<state, pc, info, messages, round, pending, rounds, nudges, contextVars,
                 userVars, sessionVars, endVars, historyVars>>

ToolEnds ==
  /\ pc = "collect" /\ at \notin Calls
  /\ IF Stopped THEN pending' = FALSE /\ UNCHANGED info
                ELSE info' = info \cup {"tool_result"} /\ UNCHANGED pending
  /\ pc' = "route"
  /\ UNCHANGED <<state, messages, round, status, at, rounds, nudges, contextVars,
                 userVars, sessionVars, endVars, historyVars>>

-----------------------------------------------------------------------------
(* TRET: deliver the results in call order, checking before each one; the  *)
(* tool.after hook runs between the check and the append.                  *)

CheckDelivery ==
  /\ pc = "deliver"
  /\ IF pending /\ ~Stopped /\ at \in Calls
     THEN pc' = "append" /\ UNCHANGED pending
     ELSE pc' = "route" /\ pending' = FALSE
  /\ UNCHANGED <<state, info, messages, round, status, at, rounds, nudges, contextVars,
                 userVars, sessionVars, endVars, historyVars>>

DeliverResult ==
  /\ pc = "append"
  /\ messages' = Append(messages, ToolResult(at))
  /\ lastMessages' = IF TopLevel /\ ~Stopped THEN messages' ELSE lastMessages
  /\ at' = at + 1 /\ pc' = "deliver"
  /\ UNCHANGED <<state, info, round, status, pending, rounds, nudges, contextVars,
                 userVars, saved, saveError, endVars, historyVars>>

-----------------------------------------------------------------------------
(* SUPERVISE: nudge the model back to work, or let the run end.            *)

MayNudge_NoBudget == TopLevel /\ ToolsEnabled /\ alive /\ ~pending
MayNudge == TopLevel /\ ToolsEnabled /\ alive /\ nudges < MaxNudges /\ ~pending

(* Session.compacting can only be set by a /compact, which superseded the  *)
(* run, and then nothing is nudged.                                        *)
Supervise ==
  /\ pc = "supervise"
  /\ pc' = "route"
  /\ \E compacting \in {FALSE, stale} :
       IF MayNudge /\ ~compacting
       THEN /\ nudges' = nudges + 1
            /\ messages' = Append(messages, Plain("nudge"))
            /\ info' = info \cup {"nudged"}
       ELSE UNCHANGED <<nudges, messages, info>>
  /\ UNCHANGED <<state, toolVars, rounds, contextVars, userVars, sessionVars, endVars,
                 toolRounds, lateStarts>>

-----------------------------------------------------------------------------
(* The terminal handlers, then run()'s finally block.                      *)

FinalAnswer ==
  IF "budget" \notin info THEN "answer"
  ELSE IF \E i \in 1..Len(messages) :
             messages[i].role = "assistant" /\ messages[i].text THEN "last text"
  ELSE IF Len(messages) > 0 /\ messages[Len(messages)].role = "tool" THEN "exhausted"
  ELSE "none"

RecordResult ==
  /\ pc = "terminal"
  /\ result' = CASE state = "DONE" -> FinalAnswer [] state = "ERRS" -> "error"
                 [] state = "ABRT" -> "none"
  /\ pc' = "commit"
  /\ UNCHANGED <<state, info, messages, toolVars, rounds, nudges, contextVars,
                 userVars, sessionVars, runDone, historyVars>>

(* A stale run or a sub-agent leaves the shared state alone.               *)
SkipCommit ==
  /\ pc = "commit" /\ (stale \/ ~TopLevel)
  /\ pc' = "notify"
  /\ UNCHANGED <<state, info, messages, toolVars, rounds, nudges, contextVars,
                 userVars, sessionVars, endVars, historyVars>>

(* A cancelled run saves first; a finished one asks for the title first.   *)
Commit_NoSave ==
  /\ pc = "commit" /\ ~stale /\ TopLevel
  /\ lastMessages' = Salvage(messages)
  /\ pc' = IF cancelled THEN "notify" ELSE "title"
  /\ UNCHANGED <<state, info, messages, toolVars, rounds, nudges, contextVars,
                 userVars, saved, saveError, endVars, historyVars>>
Commit ==
  /\ pc = "commit" /\ ~stale /\ TopLevel
  /\ lastMessages' = Salvage(messages)
  /\ IF cancelled THEN Save(lastMessages') /\ pc' = "notify"
                  ELSE pc' = "title" /\ UNCHANGED <<saved, saveError>>
  /\ UNCHANGED <<state, info, messages, toolVars, rounds, nudges, contextVars,
                 userVars, endVars, historyVars>>

(* generate_session_title has returned, whatever the model said; the final *)
(* state is flushed.                                                       *)
FlushAfterTitle ==
  /\ pc = "title"
  /\ Save(Salvage(messages))
  /\ pc' = "notify"
  /\ UNCHANGED <<state, info, messages, toolVars, rounds, nudges, contextVars,
                 userVars, lastMessages, endVars, historyVars>>

NotifyDone ==
  /\ pc = "notify"
  /\ runDone' = (TopLevel /\ state = "DONE")
  /\ pc' = "over"
  /\ UNCHANGED <<state, info, messages, toolVars, rounds, nudges, contextVars,
                 userVars, sessionVars, result, historyVars>>

-----------------------------------------------------------------------------
(* The other threads.                                                      *)

workVars == <<state, pc, info, messages, toolVars, rounds, nudges, contextVars,
              sessionVars, endVars, historyVars>>

(* Session.cancel: Ctrl-C, a serve cancel, a signal.                       *)
Cancel ==
  /\ ~cancelled /\ pc # "over"
  /\ cancelled' = TRUE
  /\ UNCHANGED <<stale, alive, workVars>>

(* A newer run, /compact, /restore or /clear takes the session over.       *)
Supersede ==
  /\ ~stale /\ pc # "over"
  /\ stale' = TRUE
  /\ UNCHANGED <<cancelled, alive, workVars>>

(* Session.close: cancel, then alive = False.                              *)
CloseSession ==
  /\ alive /\ pc # "over"
  /\ cancelled' = TRUE /\ alive' = FALSE
  /\ UNCHANGED <<stale, workVars>>

Finished == pc = "over" /\ UNCHANGED vars

Wait == WaitOutOfBudget \/ WaitOutOfTime \/ WaitCancelled \/ WaitSends
Compact == CompactSucceeds \/ CompactFails
Chat == ChatFails \/ \E text \in BOOLEAN, r \in Rounds \cup {<<>>} : ChatAnswers(text, r)
Tool ==
  \/ ToolBegins \/ CheckCall \/ RefuseCall \/ StartCall \/ SubmitCall \/ DispatchEnds
  \/ ToolEnds
  \/ \E outcome \in {"ok", "failed"} : SyncCallEnds(outcome) \/ CollectCall(outcome)
Tret == CheckDelivery \/ DeliverResult
End == RecordResult \/ SkipCommit \/ Commit \/ FlushAfterTitle \/ NotifyDone
Worker == Wait \/ Compact \/ Chat \/ Route \/ Tool \/ Tret \/ Supervise \/ End
Background == \E k \in Calls : PoolStartsCall(k) \/ BackgroundCallEnds(k)
User == Cancel \/ Supersede \/ CloseSession

Next == Worker \/ Background \/ User \/ Finished

(* The worker is a running thread whose blocking calls return (requests    *)
(* and commands have their own timeouts); the user is under no obligation. *)
Fairness == WF_vars(Worker) /\ WF_vars(Background)

Spec == Init /\ [][Next]_vars
FairSpec == Spec /\ Fairness

-----------------------------------------------------------------------------
(* Type invariant of the run's state.                                      *)
ControlTypes == state \in States /\ pc \in Pcs /\ info \subseteq InfoKeys /\ result \in Results
ConversationTypes ==
  /\ messages \in Seq(Message) /\ lastMessages \in Seq(Message) /\ saved \in Seq(Message)
  /\ round \in Seq(Kinds) /\ status \in Seq(CallStatus)
CounterTypes ==
  /\ at \in Nat \ {0} /\ rounds \in Nat /\ nudges \in Nat /\ reminders \in Nat
  /\ toolRounds \in Nat /\ lateStarts \in Nat /\ floor \in Nat \cup {NoFloor}
FlagTypes ==
  /\ pending \in BOOLEAN /\ justCompacted \in BOOLEAN /\ cancelled \in BOOLEAN
  /\ stale \in BOOLEAN /\ alive \in BOOLEAN /\ saveError \in BOOLEAN /\ runDone \in BOOLEAN
TypeOK == ControlTypes /\ ConversationTypes /\ CounterTypes /\ FlagTypes

(* A request always carries a conversation a provider accepts: every call  *)
(* of every earlier round answered once, in call order, whatever was       *)
(* injected, compacted, nudged or refused before (the WAIT handler).       *)
RequestsWellFormed == pc \in {"compact", "chat"} => Closed(messages)

(* TRET never reads a result the round did not produce (results[p.id]      *)
(* would raise and unwind the run): every call has ended by then.          *)
ResultsReady ==
  pc = "append" => "tool_result" \in info /\ \A k \in Calls : status[k] \in Resolved

(* What an owning run leaves as the session's history has no dangling tool *)
(* round, wherever the run was cancelled (the finally block of run()).     *)
CommittedClosed ==
  pc \in {"title", "notify", "over"} /\ TopLevel /\ ~stale => Closed(lastMessages)

(* When an owning run is over the session file holds the history it left,  *)
(* or the save error is visible.                                           *)
FileHoldsHistory ==
  pc \in {"notify", "over"} /\ TopLevel /\ AutoSave /\ ~stale =>
    saved = lastMessages \/ saveError

(* The supervisor's counter is the number of nudges the model has seen     *)
(* since it last worked, and never exceeds MAX_NUDGES.                     *)
NudgesCounted ==
  state \in {"WAIT", "SUPERVISE"} =>
    Cardinality(RecentNudges(messages)) = nudges /\ nudges <= MaxNudges

(* After a cancel at most one more call of a sequential round starts, the  *)
(* one already past its check: "a call that has not started yet must not   *)
(* run after Ctrl-C" (run_tools; tools have side effects).                 *)
LateStartsBounded == ~Parallel => lateStarts <= 1

(* No step loses a user prompt that has text from the run's conversation,  *)
(* and none invents one: not a compaction, not an injection.               *)
PromptsSurvive == [][WordedPrompts(messages') = WordedPrompts(messages)]_messages

(* What the harness says of every user prompt, images without text         *)
(* included ("Compaction keeps every user prompt verbatim", agent.py).     *)
EveryPromptSurvives == [][Prompts(messages') = Prompts(messages)]_messages

(* A run with a round budget never acts on more responses than the budget  *)
(* allows, compactions and nudges included (_check_budget_at_wait).        *)
BudgetHolds == Budgeted => toolRounds <= MaxRounds /\ rounds <= MaxRounds

(* A run told to stop does stop.                                           *)
CancelStops == Stopped ~> pc = "over"

(* The run ends once the model stops asking for tools: neither nudges nor  *)
(* compactions keep it going for ever.                                     *)
RunEnds == <>(pc = "over")

(* A compaction is always followed by a request or the end of the run:     *)
(* the machine never compacts, and pays for a summary, for ever.           *)
CompactionLeadsToRequest == pc = "compact" ~> pc \in {"chat", "over"}
=============================================================================
