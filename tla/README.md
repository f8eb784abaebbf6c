# python-agent-harness: specifications, checks and proofs

These modules model the harness under `python_agent_harness/`: the loop that talks to
a model and runs its tools, the session that several runs and slash commands share, the
HTTP client and the gate before a tool, the terminal, and the server that drives runs
over a pipe. Paths below are relative to that package.

## 1. The system

| Component | Source | State it keeps | Operations |
|---|---|---|---|
| conversation | `core/models.py`, `core/tool_runner.py`, `core/agent.py`, `prompts/core.py` | a list of messages | salvage cut, prompt injection, context ratio, history after a compaction |
| agent loop | `core/agent.py`, `core/tool_runner.py`, `core/context_manager.py` | machine state, `info`, messages, pending calls, round and nudge counters, compaction floor | handlers of WAIT, TOOL, TRET, SUPERVISE, DONE, ERRS, ABRT; the `finally` block of `run()` |
| session | `session/session.py` | `last_messages`, `run_generation`, `cancel_generation`, `cancel_event`, `compacting`, callbacks, clients | cancel, close, auto_save, title, compact, summarize, switch model and agent, sub-agents |
| controller | `entry/controller.py`, `entry/restore.py` | `conversation_history` | submit, clear, restore, the worker of a run |
| store | `io/persistence.py` | `file_path`, `title`, `title_pending` | save, apply_title |
| terminal UI | `tui/` | what it watches, what a slash command borrowed, the question slot, rows and expanded calls of the panel, typed bytes | prompts, Ctrl-C, slash commands, questions, frames, clicks |
| serve mode | `entry/server.py` | active run, view, pending cancel | submit, answer, cancel, shutdown, signals |
| JSON views | `entry/headless.py` | buffer, sequence number, seal | start, event, result lines |
| hooks | `session/hooks.py` | running hook processes | agent.start/end, tool.before/after |
| LLM client | `llm/client.py` | HTTP pool, abort flag, key, tool calls being assembled | chat with retries, abort, key refresh |
| tools | `tools/` | running commands, pending results | one call each: commands in a process group, diffs, files |
| text formats | `io/persistence.py`, `io/text_filter.py`, `entry/view.py` | the held-back end of a streamed reply | save, restore, filter |
| MCP | `mcp/` | clients, discovered tools | connect, discover, call, disconnect |
| plan mode | `core/planmode.py` | mode, plan file, pending reminders | switch, exit, reminders |

How they meet. `Controller.submit` starts one worker thread per prompt; the worker runs
an `AgentLoop`, which calls the client, the tool runner and the context manager, writes
`session.last_messages` and the file as it goes, and commits a salvaged conversation at
the end. The UI thread (or the server's reader thread) cancels a run by setting a shared
event and raising `cancel_generation`, and replaces the conversation by raising
`run_generation`: a worker compares the generations it captured with the current ones at
chosen points. Slash commands use the same session from helper threads. The view hears
of a run through callbacks on the session. All runs of a session share one `Client`, whose
pool the UI thread swaps when it cancels. Every tool call passes the tool.before hooks and
the plan-mode guard (`Session.execute_tool`); a tool that asks the user puts its question
on one slot, which the terminal's main thread reads between prompts and frames.

What is hard. Threads that outlive what started them; a cancel event that every new run
clears; checks separated from the writes they guard; a conversation spliced by six
operations that must stay acceptable to a provider; a budget of nudges, a budget of
rounds and a compaction threshold that interact; answers that cross timeouts; lines of
one run that must not land in another's stream; retries, a key refresh and a cancel on a
pool that two runs share; questions of an abandoned run on the slot of the next; bytes,
fragments and chunks that are cut anywhere; a panel fitted to a screen that changes while
it is drawn; processes that outlive their shell. `PROJECT.json` lists these at their lines.

What makes each part correct: every request is well formed and no prompt is lost
(conversation); a run ends, stops when told, starts nothing after a cancel, keeps its
budget and leaves a closed history on disk (loop); one owner, nothing resurrected, no
turn lost (lifecycle); whole and separate streams, cancels reported, answers to their own
questions (serve); one attempt's text in the view, bounded retries, every request ends
(client); no tool past a closed hook or the plan guard, no process of a stopped command
left (tools); an answer only to its own question, a frame that fits, typed text and reply
text whole (terminal); a restored session that says what was said (formats).

## 2. Modules

`Conversation` - pure operators on message sequences. A message is its role, whether it
has text, how many calls it makes and which call it answers; texts are abstracted to
roles because the code tells message kinds apart by their texts (`user_prompt_texts`).
A prompt of images only has no text (`ImagePrompt`), and a compaction loses it (`Worded`).
Calls of a response are numbered from one again in each round: ids may repeat across
rounds. `Salvage` is stated as the longest answered prefix, `SalvageScan` as the code's
single scan: a recursive function (`Scanned`) of the messages seen so far. The context
ratio is a weight per role (`Weight`).

`AgentLoop` - one run. `state` is the machine's state and `pc` the worker's place in the
handler, so that every blocking call (model, summary, tool, title) and every gap between
a check and what it guards is a point where `Cancel`, `Supersede` or `CloseSession` may
happen. A round is a sequence of call kinds: `sync`, `async` (runs in the background,
awaited in order) and `readonly` (a round of only these goes to the pool). Unbudgeted
runs do not count `rounds`, which nothing reads. A save succeeds or fails and then leaves
`saveError`. The debounce of mid-run saves is an arbitrary choice to save.

`RunLifecycle` - the session's runs and commands in the terminal UI. Worker, helper and
UI threads step separately; a check and the assignment it guards are one step only where
no call separates them in the code. Three checks are separated from what they guard, and
are steps of their own: of the cancel before the shared conversation and the file are
written (`RunChecks`, then `RunMirrors` and `RunSaves`; `agent.py:646` and 686, 691), of the
generation before the commit (`RunSalvages`, `RunCommits`; 466 and 468), and of the
sequence number before the directory is given back (`WorkerEnds`, `WorkerReleases`;
`controller.py:451` and 458). `strayWrite` and `strayRelease` note that the generation moved
on in between. The prompt of run *r* is the element *r* of a conversation, so that "whose
turn is this" stays visible; every prompt is taken to have text. A slash command may borrow
a directory of `Projects`, and gives it back if it finds it by its name; /init and /review,
whose release also shows a hidden tool again and happens once only, are left out.
`SlowStart` says whether the user may give a command while a worker still runs its
agent.start hooks.

`ServeProtocol` - the reader thread (`reader` records its place in an op), one thread and
one view per run, workers that emit and ask, and the threads of failing agent.end hooks.
Each step is one access to shared state: `op_cancel`, for instance, is five. Whether
questions time out and whether the host names them in its answers (`ask_id`) are chosen
in `Init`. Left out: hello, ping and malformed ops, which only write a line; writes to a
dead host; a signal between the two statements of op_submit. Asks of a run are serial
(`Session._interactive_lock`). The AttributeError of a second read of `server.view` is
modelled (`ReaderCrashes`).

`RunStream` - what the host of serve mode may read, as an abstract specification: each
run's stream is a start line, events, a result (or only a result), and streams do not
overlap. `ServeProtocol` instantiates it on its own `lines`.

`LlmClient` - the `Client` of a session and the workers of successive runs inside its
`chat()`, each at a place (`pc`): ready for an attempt, about to send, opening, reading,
resetting the pool, handling an exception, refreshing the key. What became of a worker's
pool is its state, since `abort()` swaps the pool, cuts the sockets and closes it in three
steps of the user's thread (`Aborting`). Faults are the exception classes of `chat`; the
server answers, fails or goes silent at will. `shown` is the set of attempts whose text
the live view holds, `late` counts the requests a turn opened after its cancel.

`ToolCallStream` - `_slot_for` and `_absorb_tool_call`: calls put together from fragments
that carry an index, or an id on the first one, or from whole calls. `DeltaFilter` - the
[FINAL CHECK] patterns as searches over pieces of text, the hold-back of the stream and
its flush. `TypedInput` - `MouseSession._read_loop` over bytes that are read in any cuts:
reports, cursor replies, open sequences (`_MAX_CARRY`), wide characters. `SavedFormat` -
what `save` writes for a conversation and `parse_saved_body` reads, over lines that look
like headers, escaped headers or metadata. `DiffApply` - parsing, matching with fuzz and
drift, and bottom-up application of hunks, and the recount of headers for `patch`. A hunk
has up to two old lines or none, in which case `_match_hunk` has a rule of its own
(`Inserts`); its context may be out of date, all of it or none.

`ToolGate` - one call from the tool runner to its effect: argument checks, tool.before
hooks (each allows, blocks, fails, or fails closed; the harness itself may fail), the plan
guard, Edit's own choice of mode, PlanExit. A cancel comes anywhere, a mode switch where
the user can give one. A name in a diff is what its readers make of it: the guard and the
applier of macOS take a name that is not the path of a file for the call's own file
(`Target`), while `patch` looks for its last component in the directory and may create it
(`DiffMayWrite`). The `.orig` and `.rej` files that `patch` leaves are left out.

`ShellTool` - a command's shell and children, the pipe, and the collector: Bash's poll
loop with its deadlines and drain, and a hook's. Time is only which deadline may have
passed, so a deadline can pass at any poll.

`Panel` - the rows of a conversation, their cache, collapsed and expanded calls, the live
reply, and the budget of lines; a frame is drawn in two steps (`BeginFrame`, `EndFrame`)
between which the bar, the Todos and the conversation may change. The lines the code counts
for a row (`Lines`) and the lines rich prints (`Printed`) are apart for Markdown texts, whose
printed height is an input. `Terminal` - the slot
`self.question`, the main thread's places in `run`, `_run_live` and
`_ask_question_blocking`, and the workers of overlapping runs in `Session.ask_questions`
and `_ask_sync`; an answer typed is named by the question on screen.

`MCConversation`, `MCAgentLoop` give constants their small values and, for the pure
operators, a driver that builds every conversation a run can hold. `MCComponents` and
`MCSession` hold one instance each of several components that share no variable: a
behaviour has a `focus`, one component steps, and the others rest as they began. Their
runs check each component's properties over all of its behaviours.

`ConversationProofs` (also the lemmas on recursive functions that the others share),
`AlgorithmProofs` (of `MCConversation`, `DeltaFilter` and `SavedFormat`),
`AgentLoopProofs`, `RunLifecycleProofs`, `ServeProtocolProofs`, `LlmClientProofs`,
`ToolProofs` (of `ToolGate` and `ShellTool`) and `TerminalProofs` (of `Terminal` and
`Panel`) hold the proofs.

## 3. Runs

| Run | Question | Bounds, and why they are enough |
|---|---|---|
| Components | The properties below of nine components | see the next table |
| Session | The client, the gate and a command | see the next table |
| LoopSafety | The safety properties of a run | resumed conversation of an unattended top-level run with a deadline and a budget of five rounds (more than its one tool round, nudge and compactions need, so that it also ends in every other way), one tool round of up to two calls of all kinds, one nudge, one reminder, a window that compacts after two turns, a pool of one so that a call waits in it |
| LoopLiveness | Ends, stops, never compacts for ever | weights that put the irreducible context above the trigger; two nudges |
| LoopLivelock (violation) | Does a text-only run end when the irreducible context is just below the trigger? | as above with other weights |
| RunLifecycleOverlap | Ownership and contents of the shared conversation | two runs, of a plain prompt or a command that borrows, and one command of any kind: an abandoned run and a command meet the live run at every step. The proofs cover any number. Hooks do not delay the start |
| RunLifecycleClear (violation) | Does /clear hold against a run that is still starting? | two runs, one command |
| RunLifecycleRestoredFile (violation) | Does a restored file keep what was restored? | two runs, one command |
| ServeRuns | Streams, answers, cancels over two runs | two runs, two questions, one op, a shutdown or signal at any point, a failing hook of the first run: a straggler of run one meets every step of run two |
| ServeLiveness | Does a run end? | one run, two questions (one may be abandoned while the next waits), two ops |
| ServeDrain (violation) | Does a shutdown cancel reach the run? | one run |
| TerminalReprompt (violation) | Is a question of an abandoned run ever asked again? | two runs of two questions |

The foci of the two composed runs:

| Focus | Properties | Bounds, and why they are enough |
|---|---|---|
| rebuild (`Conversation`) | `ScanIsCut`, `CompactionSettles` | six messages, two calls a response: an open round, a closed one before it, and a repeated id all fit |
| subagent (`AgentLoop`) | `BudgetHolds` | two budgeted rounds, three the model would ask for |
| typed (`TypedInput`) | `TypedAsMeant` | three keys, clicks or replies, every cut; a carry that just holds the longest sequence cut before its end, as `_MAX_CARRY` does |
| filter (`DeltaFilter`) | `StreamIsStripped` | replies of five pieces in chunks of one or two: text, a marked header, labels and a second header |
| calls (`ToolCallStream`) | `CallsAsMeant` | three calls of up to three pieces, interleaved |
| diff (`DiffApply`) | `DiffDoesWhatItSays` | three lines of two letters, two hunks, one line of drift; a fuzz of one where the code has three, so that hunks of two stale context lines exceed it |
| saved (`SavedFormat`) | `RestoreIsFaithful` | two messages of up to two lines out of seven, two restores: an escape is escaped again |
| panel (`Panel`) | `FrameFits`, `AskedIsShown` | a small and a larger screen, two messages, texts that print as counted and taller, a reply just over the width, one change between the two steps of a frame |
| terminal (`Terminal`) | `AnswerGoesToItsQuestion` | two runs of two questions: an abandoned question, its call's next one and the next run's meet on the slot |
| client (`LlmClient`) | `LiveTextIsOneAttempt`, `RetriesBounded`, `CancelStopsRequests`, `ChatsEnd` | two runs on one client with two attempts and a request each, one new key, one model switch: an abandoned request meets every step of the next run's |
| gate (`ToolGate`) | `FailClosedHolds`, `PlanWritesPlanFile` | two hooks of either kind, every kind of call, every combination of Edit's arguments, both backends, diffs of one section or two whose names are right, relative to the wrong directory, or of a file that is not there |
| shell (`ShellTool`) | `StoppedGroupIsGone` | a child of each kind, two chunks in the pipe |

Properties are named after what they say; each carries its statement and the code it is
about. `NoLateCommand` exempts a /compact or /summary the user left running: the UI says
that its result may still be applied. `NoStrayWrite` and `NoStrayRelease` exempt the gaps
between a check and what it guards: what the other properties say holds as long as no
generation moves on in one. `Ambiguous` exempts a removed
line `-- x` followed by an added `++ x`, whose text is that of a file header; `ReadAlike`
names that `patch` and the plan guard read differently; `CountedInFull` texts that print
taller than counted. `Anchored` leaves out insertions whose header names the line before,
and hunks that fit in several places. What happens in the exempted cases is told below,
under "What the code does in the exempted cases".

Fairness. The worker and background threads of a run are weakly fair: they are running
threads, and every blocking call has a timeout or is woken by the cancel
(`AgentLoop!Fairness`). In serve mode the reader finishes an op it has read, the wait of
a shutdown is limited to ten seconds, and run threads and workers go on
(`ServeProtocol!Fairness`). A worker inside `chat()` is weakly fair: its threads run, and
every read returns because the HTTP client has a timeout (`LlmClient!Fairness`); the
server may fail every attempt. Nothing is assumed of the user or the host: they need
never answer, cancel or close. The explicit stuttering steps `Finished` and `Done` keep
ended systems from counting as deadlocks, so deadlock is checked in the runs of the loop,
the lifecycle and the server. It is not in Components, Session and TerminalReprompt, whose
components stop where their bounded input ends: a file is filled, a reply is complete, a
command is delivered, no run is left to start.

### What the violations show

* *LoopLivelock.* `ContextManager.compact` hands the nudge budget back. When prompts and
  summary stay just below the trigger, two nudges fill the context, it is compacted, and
  the run goes on for ever on text alone, against `tests/test_invariants.py:1003-1012`.
* *RunLifecycleClear.* The worker appends its prompt and captures its generation after
  the agent.start hooks. Ctrl-C and /clear during the hooks are undone by the run.
* *RunLifecycleRestoredFile.* A cancelled run that has passed its check after a response,
  or the one of its `finally` block, saves into the file /restore has just opened.
* *ServeDrain.* The shutdown's cancel is cleared by `Controller.submit`; unlike
  `op_cancel`, `_join_run_thread` leaves no `_cancel_pending` to apply it again.
* *TerminalReprompt.* `_abandon_run` releases the question that is on the slot when it
  looks. A worker that posts just afterwards, or goes on with the next question of the
  same Question call, leaves one there, and `Tui.run` asks it, against the comment that it
  "must not be re-prompted after the run is over" (`tui/core.py:441-443`).

### What the code does in the exempted cases

Six more configurations, beside the runs above, check the claims without their exemptions
(in brackets: the module to give TLC and the property),
and TLC finds each of them violated:

* *RunLifecycleStrayWrite.cfg* (`RunLifecycle`, `NoStrayWrite`). A run past its check at `agent.py:646` is
  cancelled, the next prompt is submitted, and the old run writes `last_messages` (686),
  against "A stale worker (a newer run has started) must never touch shared state" (459-460).
  The gap between 466 and 468 is of the same kind, and RunLifecycleRestoredFile goes through
  one of the two to the file.
* *RunLifecycleStrayRelease.cfg* (`RunLifecycle`, `BorrowKeptWhileWatched`). A run past its check at
  `controller.py:451` is cancelled; the next slash command borrows the same directory, and
  the old run's `restore()` (458) undoes that borrow, against "only undo OUR borrow, never
  clobber a newer run's borrow" (`tui/commands.py:253-254`).
* *LoopImagePrompts.cfg* (`MCAgentLoop`, `EveryPromptSurvives`). `user_prompt_texts` drops a
  message without text (`prompts/core.py:530`) before it looks for its images (540): a prompt
  of images only does not survive a compaction, against "Compaction keeps every user prompt
  verbatim" (`agent.py:141-142`).
* *PlanModeCreates.cfg* (`MCSession`, `ApprovedIsWritten`). A diff of a file that does not
  exist is the plan file's to the guard and a new file's to `patch`, against "the sections
  approved here are exactly the files the backend would write" (`session.py:465-466`).
* *DiffInsertion.cfg* (`MCComponents`, `InsertionsLand`). The header of a hunk without old
  lines names the line it goes after; `_match_hunk` puts it before that line
  (`tools/diffapply.py:140`), unlike `patch`, against "the same diffs apply on both platforms"
  (`tools/edit_mac.py:10`).
* *PanelMarkdown.cfg* (`MCComponents`, `EveryFrameFits`). A text is counted by its Markdown
  source (`tui/render.py:894-895`) and printed with blank lines around its lists, so the frame
  outgrows the terminal, against "The estimate must never be a LOWER bound" (852).

Also met while modelling, and kept as hazards: a cancel that hits the next run, a refused
submit right after a result line, a hook's log line in the next run's stream, the reader
thread's AttributeError, a question erased by the clearing of the slot (input.py:455), a
timed-out Bash command whose deaf children stay. And, outside of any property: run_done
after a cancel in SUPERVISE (`agent.py:311`), a key refresh of one run that hides the new
key from the other's (`client.py:547`), `deliver()` checking before it sets
(`tools/base.py:44`), two workers that both find no title (`session.py:792`).

## 4. Proofs

Every theorem holds for every value of the constants that the named assumptions of the
modules allow; the assumptions are types, but for two. `PromptIsLast` (`AgentLoop`) says
that a run starts from a conversation that ends with a user message: `_run_worker`
(`entry/controller.py`) appends it last, and a sub-agent starts from it alone. The three
theorems about ownership below assume `~SlowStart`.

**The loop** (`AgentLoopProofs`): `TypeCorrect`, `RequestsAreWellFormed`,
`ResultsAreReady`, `CommittedIsClosed`, `FileIsHistory`, `LateStartsAreBounded`,
`BudgetIsKept`, `NudgesAreCounted`, `PromptsAreKept`. The invariants are not inductive
alone. A request is well formed because TRET delivers one result per call in call order,
which the conversation only shows between the calls: `IInv` adds
* `PcMatchesState` - the worker is in the handler of the machine's state;
* `ConversationShape` - how many results of the open round the conversation holds at each
  place (`OpenRound(messages, n, d)`: *n* calls, *d* answered), and that `InOrder` holds
  even where a stopped run breaks off;
* `RoundProgress` - no call is forgotten behind the loop index, and TRET is entered with
  every result in hand;
* `LateStarts` - only a readonly round has calls waiting in the pool;
* `RoundsPaid` - every tool round was counted by an earlier WAIT;
* `SalvageCommitted` - what was committed is the salvaged conversation.

`NudgeBalance` ties the supervisor's counter, which `Supervise`, `deliver_results` and
`compact` write, to the nudges the conversation shows. The two agree in WAIT and SUPERVISE
only: from the dispatch of a round to its delivery the counter is already 0 while the
nudges still stand in the conversation, until the first result covers them; so the
invariant says where each of the two has been reset, and that a run in TOOL or TRET has a
round. `PromptsAreKept` is an action property: no step changes how many prompts with text
the conversation has. Both rest on counting lemmas of `ConversationProofs` about any
conversation: an append, an injection (a bijection of places, `InjectedPlaces`) and a
compaction (a bijection with ranks, `KeptByRank`).

There is one lemma per part (`Next...`), with one step per action that can disturb it.
`ConversationProofs` has the other facts about the operators: what an append, an injection
and a compaction do to `InOrder` and `Closed`, that the largest answered prefix exists,
and that a salvaged conversation is closed (`SalvagedIsClosed`).

**Rebuilding** (`AlgorithmProofs`): `ScanCutsRight` and `CompactionIsStable`. Whatever
builds a conversation, it stays `InOrder` (`RebuildInv`). The scan is a recursive
function: that one exists, and so satisfies its own definition, is proved by its shortest
counterexample (`ScanExists`, `ScannedStep`); what it knows after *i* messages
(`ScanKnows`: nothing open and all answered, or the round at *b* and exactly the calls
whose results would come next) is shown the same way (`ScanReaches`). A compacted history
keeps all between its frame and its resume message (`KeptAgain`), the reminders because a
batch that was contiguous before stays so; so the next compaction finds what it left.

**The session** (`RunLifecycleProofs`): `TypeCorrect`, `BorrowIsHeld`, `OneOwnerOnly`,
`ClearedStaysCleared`, `TurnIsKept`. Runs carry growing sequence numbers, the UI watches
the last one and waits for the last command only while no run is current, a run that has
looked and not been overtaken is still the owner (`LookedAsOwner`), and the borrowed
directory is out exactly while its run is watched (`Order`). That much needs no hypothesis.
`Ownership` adds that a run belongs to the generation it was submitted in
(`StartsAtOnce`), that the conversation, the last messages and what current runs and
waiting commands hold are things the user put in since the last replacement
(`OnlyAllowed`), and that the turn of the current run is in each conversation it wrote
(`TurnKept`), while no superseded run has written. `StartsAtOnce` is what `SlowStart` breaks; the run RunLifecycleClear is the
counterexample, so the hypothesis of the last three theorems cannot be dropped.

**Serve mode** (`ServeProtocolProofs`): `TypeCorrect`, `ViewIsKept`, `StreamsAreInOrder`,
`CancelIsReported`, `AnswersFindTheirQuestion`. `Inv` says that the server serves one run,
the last it accepted, whose view and callbacks are attached from its start to its end and
whose worker lives only meanwhile, and that a stream is what its run's thread has reached.
From it follows the refinement: each step is a step of `RunStream` or leaves `lines`
alone, an event only joining the stream of the one run that has its turn. `CancelInv`
follows a cancel from the pending flag to the session's event to the outcome
(`CancelStands`); no earlier run is left to forget it. `AskInv` follows a question: while
it is neither answered nor cancelled, and none times out, it is its run's last, and its
worker waits for it; and when the host names questions, no answer has another's name.

**The client** (`LlmClientProofs`), for any number of runs on one client, attempts,
switches and keys: `OneAttemptIsShown`, `RetriesAreBounded`, `CancelStops`,
`PoisonLeavesThePool`, `TypeCorrect`. The invariant ties the view to the attempt counter
(a worker shows text of its latest attempt only, and none while a new one is about to be
sent), bounds the counter at each place of the loop, and says where a worker may still be
when a cancel has already been seen by `cancel_check`. `CallsAreWhole` proves
`CallsAsMeant` of `ToolCallStream` for any number of calls and pieces: slot *k* - 1 holds
what came of the *k*-th call, with an id on it unless fragments carry an index
(`SlotsHoldCalls`), so a fragment without an index finds the newest call and a new id
opens the next slot (`FragmentFindsSlot`).

**Tools** (`ToolProofs`): `FailClosedHooksHold` and `PlanModeWritesPlanFile` for any list
of hooks. A hook that is not passed by is still ahead (`ClosedHooksPassed`,
`HooksInOrder`); and what the guard allows bounds what Edit may write in either mode
(`AllowedIsPlanFile`): the applier resolves names as the guard does, and of `patch` the
theorem speaks for the names it reads alike. `StoppedGroupsAreGone`: the reason the collector stopped for decides
its end (`EndsMatch`), and a killed group stays gone, since only a live shell forks
(`GoneAfterKill`).

**Reply text** (`AlgorithmProofs`): `StreamIsTheReply` proves `StreamIsStripped` for
replies of any length cut into chunks anywhere. `FilterInv`: what was written is the first
`emitted` pieces of the reply, and they are `Certain` - every longer text still shows
them. The step is `HeldIsCertain`: a place where nothing is held back is one where no
longer text begins a header (`HeaderSeen`: a header that ends beyond the text was held as
open before), and `CutEnd` of a later cut keeps at least what that of an earlier one does
(`CutEndMonotone`).

**Saved text** (`AlgorithmProofs`): `RestoreReadsWhatWasSaid` proves `RestoreIsFaithful`
for any messages of any lines, however often saved and restored. `SavedInv`: the
conversation keeps what was said (`Keeps`), each message already stripped. An escape is
undone by the reading (`EscapeIsUndone`) and hides every line from the header test; the
scan of a text that is a block and more continues from where the block leaves it
(`ScansOn`, `BlockScan`); and the last metadata line is the session's own, since `Saved`
puts it after everything said (`MetadataStripped`).

**Questions in the terminal** (`TerminalProofs`): `AnswersGoHome`, for any number of runs
and questions. The question on the slot is an abandoned run's, or the one the latest run
waits for, or was just answered (`SlotIsWaitedFor`); a worker that has not ended is the
latest run's or an abandoned one's (`OldRunsAbandoned`); so a question that Ctrl-C answers
with nothing belongs to an abandoned run.

**The panel** (`TerminalProofs`): `FrameFitsTheTerminal` and `AskedCallsAreShown` prove
`FrameFits` and `AskedIsShown` for any width, heights, messages, calls and replies of the
types `PanelAssumption` and `ShownAssumption` give (lines and cells are numbers, a reply
has a line). A block of rows takes no more than the lines it was sized to
(`ExpandedRowsFit`), a unit kept no more than the lines left (`FittedFits`), so the rows
kept no more than the cap (`KeptRowsFit`). `PanelInv` says so of the last frame, and that
the bar measured when the frame was begun had one or two lines: the cap keeps one line
free, which absorbs the one the bar may have gained. Rows that print no taller than counted
take together no more than was counted (`PrintedNoTaller`); that Markdown does is the
premise, and not the code's to keep.

For `AskedIsShown` the rows built are `Tidy`: the rows of one call stand together, and a
call the requests name is whole among them. That needs messages numbered apart
(`Numbered`): two messages of one number would mix their rows. Joining rows of different
calls keeps them tidy (`TidyJoined`), so a message's rows, the history's and those with the
reply below them are (`ToolCallTidy`, `MessageTidy`, `HistoryTidy`, `OfferedTidy`). The
units cut tidy rows exactly where a call ends (`UnitsCut`), so a call is one unit and a
later unit is newer (`UnitsPlaced`, `PlacedFirst`). A unit asked for is then kept whole,
resized or replaced by its stand-in, and dropped only without a line left, when the units
kept below it already fill the cap (`FittedShows`, `KeptShows`). The reply's share does not
move any row (`SamePlaces`). A frame is drawn in two steps, and the conversation and the
requests may change between them: `PanelInv` says `Arranged` of the rows in the cache and
of those being drawn, together with the requests they were built for, never with the
current ones.

Only model-checked: liveness (`RunEnds`, `ChatsEnd` and their like: the prover does not do
fairness or ENABLED); `TypedAsMeant`, whose functions read a text from its end, so that
a proof is about what every cut leaves of every suffix; and `DiffDoesWhatItSays`,
whose operators are RECURSIVE, which the prover does not reason about.

## 5. Plan

Done: `Conversation`, `AgentLoop`, `RunLifecycle`, `ServeProtocol` over `RunStream`,
`LlmClient`, `ToolGate`, `ShellTool`, `Terminal`, `Panel` and the algorithms, with the
proofs above: every safety property the runs check but the two just named.

### Not modelled

* The MCP client (`mcp/`): sessions of an external library on its own event loop; the
  order of its callbacks is not in this repository. `PROJECT.json` lists its hazards.
* Session commands and configuration: prompt templates, constants, JSON files.
  `hide_planexit` is listed as a hazard; the borrowed project directory, which has the
  same shape, is in `RunLifecycle`.
* Token estimation: a heuristic over text; `AgentLoop` takes its result as `Weight`.
* Reading, listing and searching files, attachments, the colouring of diffs, the status
  bar's text, completion, argument parsing: I/O and wording, with no state from one call
  to the next.
* The one-shot headless command's exit codes and signal handler; a sub-agent's registry of
  tools; agent.start and tool.after hooks beyond the delay they add.
* Line boundaries other than the newline in saved files, and backends that repeat an id on
  every fragment of a call without an index.

## 6. Checking it

    tlc -workers 2 -config LoopSafety.cfg MCAgentLoop.tla
    tlapm AgentLoopProofs.tla
