---------------------------- MODULE ServeProtocol ----------------------------
(***************************************************************************)
(* Serve mode (entry/server.py): the reader thread, which takes the host's *)
(* operations in order; the thread of each run, which wires the view,      *)
(* submits the prompt and reports the result; the agent's worker; and the  *)
(* agent.end hooks, which outlive their run (session/hooks.py).  A view    *)
(* (entry/headless.py) belongs to one run and has its number.              *)
(*                                                                         *)
(* Each step of a thread is one access to what the threads share.  What a  *)
(* worker does between two questions is module AgentLoop; what its host    *)
(* reads is module RunStream.                                              *)
(***************************************************************************)
EXTENDS Integers, Sequences, FiniteSets, SequencesExt

CONSTANTS
  MaxRuns,               \* bound: prompts the host submits
  MaxAsks,               \* bound: questions the workers ask, all together
  MaxOps,                \* bound: answers and cancels the host sends
  Ops,                   \* the ones it sends: "cancel", "answer", "eof"
  HookFails              \* the runs whose agent.end hook fails, which it logs

ASSUME BoundsAssumption == MaxRuns \in Nat /\ MaxAsks \in Nat /\ MaxOps \in Nat
ASSUME OpsAssumption == Ops \subseteq {"cancel", "answer", "eof"}

Runs == 1..MaxRuns
ASSUME HookAssumption == HookFails \subseteq Runs
Asks == 1..MaxAsks
None == 0

VARIABLES
  patient,               \* answer_timeout is 0: a question waits for ever
  named,                 \* the host puts the ask_id in its answers
  reader,                \* the reader thread: its place, and the op it is in
  submitted, ops,        \* prompts submitted; answers and cancels read
  active, view,          \* server._active_run_id, server.view
  cancelPending,         \* server._cancel_pending
  attached,              \* the view the session's callbacks point at
  event,                 \* session.cancel_event
  run,                   \* the thread of every run
  worker,                \* the agent's worker of every run
  hook,                  \* its agent.end hooks, and the view they write to
  mode, buffered, lines, \* of every view: buffer, live or sealed; its lines
  asked,                 \* the run of every question asked, in order (ask_id)
  pending,               \* of every view: view._pending, the question that waits
  answered,              \* the answer in each question's _AskState
  woken, abandoned,      \* view._cancelled, view._abandoned
  reported,              \* "cancelled" on the run's result line
  sent, told             \* history: questions the host answered; runs told to stop

hostVars == <<patient, named, submitted, ops>>
serverVars == <<active, view, cancelPending, attached, event>>
viewVars == <<mode, buffered, lines>>
askVars == <<asked, pending, answered, woken, abandoned>>
historyVars == <<sent, told>>
vars == <<hostVars, reader, serverVars, run, worker, hook, viewVars, askVars, reported,
          historyVars>>

Reader == [pc : {"idle", "pend", "cancel", "look", "wake", "answer", "resolve", "wait",
                 "exit", "crashed"},
           run : Runs \cup {None}, ask : Asks \cup {None}, at : Asks \cup {None},
           drain : BOOLEAN]
Idle == [pc |-> "idle", run |-> None, ask |-> None, at |-> None, drain |-> FALSE]
RunPcs == {"none", "accepted", "attached", "submitted", "reapplied", "joining", "joined",
           "reported", "detached", "cleared", "over"}
WorkerPcs == {"none", "working", "calling", "asking", "gone"}
NoAnswer == 0

(* The process is alive: its other threads are daemons.                    *)
Running == reader.pc \notin {"exit", "crashed"}

Init ==
  /\ patient \in BOOLEAN /\ named \in BOOLEAN
  /\ reader = Idle /\ submitted = 0 /\ ops = 0
  /\ active = None /\ view = None /\ cancelPending = FALSE
  /\ attached = None /\ event = FALSE
  /\ run = [r \in Runs |-> "none"] /\ worker = [r \in Runs |-> "none"]
  /\ hook = [r \in Runs |-> [pc |-> "none", view |-> None]]
  /\ mode = [r \in Runs |-> "buffer"] /\ buffered = [r \in Runs |-> FALSE]
  /\ lines = [r \in Runs |-> <<>>]
  /\ asked = <<>> /\ answered = [n \in Asks |-> NoAnswer]
  /\ pending = [r \in Runs |-> None]
  /\ woken = [r \in Runs |-> FALSE] /\ abandoned = [r \in Runs |-> FALSE]
  /\ reported = [r \in Runs |-> FALSE]
  /\ sent = {} /\ told = {}

-----------------------------------------------------------------------------
(* The view's stream.  An event waits for the start line, and is dropped   *)
(* once the result is out.                                                 *)

Emit_Unsealed(v) ==
  IF mode[v] = "buffer"
  THEN buffered' = [buffered EXCEPT ![v] = TRUE] /\ UNCHANGED lines
  ELSE /\ lines' = [lines EXCEPT ![v] = IF Last(@) = "event" THEN @ ELSE Append(@, "event")]
       /\ UNCHANGED buffered
Emit(v) ==
  CASE mode[v] = "buffer" -> buffered' = [buffered EXCEPT ![v] = TRUE] /\ UNCHANGED lines
    [] mode[v] = "live" ->
         /\ lines' = [lines EXCEPT ![v] = IF Last(@) = "event" THEN @ ELSE Append(@, "event")]
         /\ UNCHANGED buffered
    [] mode[v] = "sealed" -> UNCHANGED <<buffered, lines>>

-----------------------------------------------------------------------------
(* The reader thread.                                                      *)

(* op_submit: refused while a run is active.                               *)
Submit ==
  /\ reader = Idle /\ submitted < MaxRuns /\ active = None
  /\ submitted' = submitted + 1 /\ active' = submitted'
  /\ run' = [run EXCEPT ![submitted'] = "accepted"]
  /\ UNCHANGED <<patient, named, ops, reader, view, cancelPending, attached, event, worker,
                 hook, viewVars, askVars, reported, historyVars>>

Goes(pc) == reader' = [reader EXCEPT !.pc = pc]
Returns == reader' = IF reader.drain THEN [reader EXCEPT !.pc = "wait"] ELSE Idle

(* op_cancel: refused unless it names the active run.                      *)
OpCancel(r) ==
  /\ reader = Idle /\ "cancel" \in Ops /\ ops < MaxOps /\ r <= submitted
  /\ ops' = ops + 1
  /\ reader' = IF active = r THEN [Idle EXCEPT !.pc = "pend", !.run = r] ELSE Idle
  /\ UNCHANGED <<patient, named, submitted, serverVars, run, worker, hook, viewVars, askVars,
                 reported, historyVars>>
ReaderPends ==
  /\ reader.pc = "pend" /\ Goes("cancel")
  /\ cancelPending' = TRUE
  /\ UNCHANGED <<hostVars, active, view, attached, event, run, worker, hook, viewVars, askVars,
                 reported, historyVars>>

(* The outcome of run r is still open; nothing can clear _cancel_pending   *)
(* before its thread has looked.                                           *)
Open(r) == run[r] \in {"accepted", "attached", "submitted", "reapplied", "joining"}
IntentSafe(r) ==
  \/ run[r] \in {"reapplied", "joining"}
  \/ cancelPending /\ \A s \in Runs : run[s] # "cleared"

(* Session.cancel.                                                         *)
ReaderCancels ==
  /\ reader.pc = "cancel" /\ Goes("look")
  /\ event' = TRUE
  /\ told' = IF ~reader.drain /\ Open(reader.run) /\ IntentSafe(reader.run)
             THEN told \cup {reader.run} ELSE told
  /\ UNCHANGED <<hostVars, active, view, cancelPending, attached, run, worker, hook, viewVars,
                 askVars, reported, sent>>
ReaderLooks ==
  /\ reader.pc = "look"
  /\ IF view = None THEN Returns ELSE Goes("wake")
  /\ UNCHANGED <<hostVars, serverVars, run, worker, hook, viewVars, askVars, reported,
                 historyVars>>

(* view.cancel_pending; server.view is read a second time for it.          *)
Wake(v) == woken' = [woken EXCEPT ![v] = TRUE] /\ pending' = [pending EXCEPT ![v] = None]
ReaderWakes_PopsOnly ==
  /\ reader.pc = "wake" /\ view # None /\ Returns
  /\ pending' = [pending EXCEPT ![view] = None]
  /\ UNCHANGED <<hostVars, serverVars, run, worker, hook, viewVars, asked, answered, woken,
                 abandoned, reported, historyVars>>
ReaderWakes ==
  /\ reader.pc = "wake" /\ view # None /\ Returns
  /\ Wake(view)
  /\ UNCHANGED <<hostVars, serverVars, run, worker, hook, viewVars, asked, answered,
                 abandoned, reported, historyVars>>
ReaderCrashes ==
  /\ reader.pc = "wake" /\ view = None /\ Goes("crashed")
  /\ UNCHANGED <<hostVars, serverVars, run, worker, hook, viewVars, askVars, reported,
                 historyVars>>

(* op_answer, for question n, which the host saw and answers once.         *)
OpAnswer(n) ==
  /\ reader = Idle /\ "answer" \in Ops /\ ops < MaxOps
  /\ n \in DOMAIN asked /\ n \notin sent
  /\ ops' = ops + 1 /\ sent' = sent \cup {n}
  /\ LET r == asked[n] IN
       reader' = IF active = r /\ view = r /\ (named \/ ~abandoned[r])
                 THEN [Idle EXCEPT !.pc = "answer", !.run = r, !.ask = n] ELSE Idle
  /\ UNCHANGED <<patient, named, submitted, serverVars, run, worker, hook, viewVars, askVars,
                 reported, told>>

(* view.answer takes the question that waits, under the lock, and then     *)
(* resolves it.                                                            *)
MayAnswer_AnyPending(v) == pending[v] # None
MayAnswer_NoneWaits(v) == named => pending[v] = reader.ask
MayAnswer(v) == pending[v] # None /\ (named => pending[v] = reader.ask)
ReaderAnswers ==
  /\ reader.pc = "answer"
  /\ IF MayAnswer(reader.run)
     THEN /\ reader' = [reader EXCEPT !.pc = "resolve", !.at = pending[reader.run]]
          /\ pending' = [pending EXCEPT ![reader.run] = None]
     ELSE reader' = Idle /\ UNCHANGED pending
  /\ UNCHANGED <<hostVars, serverVars, run, worker, hook, viewVars, asked, answered, woken,
                 abandoned, reported, historyVars>>
ReaderResolves ==
  /\ reader.pc = "resolve" /\ reader' = Idle
  /\ answered' = [answered EXCEPT ![reader.at] = reader.ask]
  /\ UNCHANGED <<hostVars, serverVars, run, worker, hook, viewVars, asked, pending, woken,
                 abandoned, reported, historyVars>>

(* End of input or a shutdown op, between two ops; a signal, anywhere:     *)
(* _join_run_thread cancels the active run and waits for it, ten seconds   *)
(* at most.                                                                *)
Drain ==
  /\ Running /\ "eof" \in Ops /\ ~reader.drain
  /\ reader' = [Idle EXCEPT !.pc = IF active = None THEN "exit" ELSE "cancel",
                            !.run = active, !.drain = TRUE]
  /\ UNCHANGED <<hostVars, serverVars, run, worker, hook, viewVars, askVars, reported,
                 historyVars>>
ReaderExits ==
  /\ reader.pc = "wait" /\ Goes("exit")
  /\ UNCHANGED <<hostVars, serverVars, run, worker, hook, viewVars, askVars, reported,
                 historyVars>>

-----------------------------------------------------------------------------
(* The thread of run r (_run_thread and _execute_run).                     *)

Moves(r, from, to) == Running /\ run[r] = from /\ run' = [run EXCEPT ![r] = to]

RunAttaches(r) ==
  /\ Moves(r, "accepted", "attached")
  /\ view' = r /\ attached' = r
  /\ UNCHANGED <<hostVars, reader, active, cancelPending, event, worker, hook, viewVars,
                 askVars, reported, historyVars>>

(* Controller.submit clears the cancel event and starts the worker, unless *)
(* the prompt was only references to files that cannot be read.            *)
RunSubmits(r) ==
  /\ Moves(r, "attached", "submitted")
  /\ \/ event' = FALSE /\ worker' = [worker EXCEPT ![r] = "working"]
     \/ UNCHANGED <<event, worker>>
  /\ UNCHANGED <<hostVars, reader, active, view, cancelPending, attached, hook, viewVars,
                 askVars, reported, historyVars>>

(* A cancel that came before the event was cleared is applied again.       *)
RunReapplies_Never(r) ==
  /\ Moves(r, "submitted", "reapplied")
  /\ UNCHANGED <<hostVars, reader, serverVars, worker, hook, viewVars, askVars, reported,
                 historyVars>>
RunReapplies(r) ==
  /\ Moves(r, "submitted", "reapplied")
  /\ cancelPending' = FALSE /\ event' = (event \/ cancelPending)
  /\ UNCHANGED <<hostVars, reader, active, view, attached, worker, hook, viewVars, askVars,
                 reported, historyVars>>

(* emit_start: the start line, then the events that waited for it.         *)
RunStarts(r) ==
  /\ worker[r] # "none" /\ Moves(r, "reapplied", "joining")
  /\ mode' = [mode EXCEPT ![r] = "live"]
  /\ lines' = [lines EXCEPT ![r] = IF buffered[r] THEN <<"start", "event">> ELSE <<"start">>]
  /\ UNCHANGED <<hostVars, reader, serverVars, worker, hook, buffered, askVars, reported,
                 historyVars>>

(* The worker is joined and the outcome of the run read.                   *)
RunJoins_NoJoin(r) ==
  /\ Moves(r, "joining", "joined")
  /\ reported' = [reported EXCEPT ![r] = event]
  /\ UNCHANGED <<hostVars, reader, serverVars, worker, hook, viewVars, askVars, historyVars>>
RunJoins(r) ==
  /\ worker[r] = "gone" /\ Moves(r, "joining", "joined")
  /\ reported' = [reported EXCEPT ![r] = event]
  /\ UNCHANGED <<hostVars, reader, serverVars, worker, hook, viewVars, askVars, historyVars>>

(* emit_result: the last line of the run, or its only one.                 *)
RunReports(r) ==
  /\ \/ Moves(r, "joined", "reported") /\ Wake(r)
     \/ worker[r] = "none" /\ Moves(r, "reapplied", "reported") /\ UNCHANGED <<woken, pending>>
  /\ lines' = [lines EXCEPT ![r] = Append(@, "result")]
  /\ mode' = [mode EXCEPT ![r] = "sealed"]
  /\ UNCHANGED <<hostVars, reader, serverVars, worker, hook, buffered, asked, answered,
                 abandoned, reported, historyVars>>

RunDetaches(r) ==
  /\ Moves(r, "reported", "detached")
  /\ attached' = None
  /\ UNCHANGED <<hostVars, reader, active, view, cancelPending, event, worker, hook, viewVars,
                 askVars, reported, historyVars>>
RunClears(r) ==
  /\ Moves(r, "detached", "cleared")
  /\ active' = None /\ view' = None
  /\ UNCHANGED <<hostVars, reader, cancelPending, attached, event, worker, hook, viewVars,
                 askVars, reported, historyVars>>
RunForgets(r) ==
  /\ Moves(r, "cleared", "over")
  /\ cancelPending' = FALSE
  /\ UNCHANGED <<hostVars, reader, active, view, attached, event, worker, hook, viewVars,
                 askVars, reported, historyVars>>

-----------------------------------------------------------------------------
(* The worker of run r: it emits, it asks, it ends.  It checks for a       *)
(* cancel before each call.                                                *)

At(r, pc) == Running /\ worker[r] = pc
Works(r, pc) == worker' = [worker EXCEPT ![r] = pc]

WorkerEmits(r) ==
  /\ At(r, "working") /\ attached # None
  /\ Emit(attached)
  /\ UNCHANGED <<hostVars, reader, serverVars, run, worker, hook, mode, askVars, reported,
                 historyVars>>
WorkerCalls(r) ==
  /\ At(r, "working") /\ ~event /\ Len(asked) < MaxAsks /\ Works(r, "calling")
  /\ UNCHANGED <<hostVars, reader, serverVars, run, hook, viewVars, askVars, reported,
                 historyVars>>

(* ServerView.ask, confirm: the question is published and waited for.      *)
WorkerAsks(r) ==
  /\ At(r, "calling") /\ Works(r, "asking")
  /\ asked' = Append(asked, r)
  /\ pending' = [pending EXCEPT ![r] = Len(asked')]
  /\ Emit(r)
  /\ UNCHANGED <<hostVars, reader, serverVars, run, hook, mode, answered, woken, abandoned,
                 reported, historyVars>>

(* _wait_answer: an answer, a cancel (which outranks it) or the timeout,   *)
(* after which the question waits no longer.                               *)
Question(r) ==
  CHOOSE n \in DOMAIN asked : asked[n] = r /\ \A m \in n + 1..Len(asked) : asked[m] # r
Retire(r) == pending' = [pending EXCEPT ![r] = IF @ = Question(r) THEN None ELSE @]
Heard(r) == answered[Question(r)] # NoAnswer
WorkerHears(r) ==
  /\ At(r, "asking") /\ Heard(r) /\ Works(r, "working") /\ Retire(r)
  /\ UNCHANGED <<hostVars, reader, serverVars, run, hook, viewVars, asked, answered, woken,
                 abandoned, reported, historyVars>>
WorkerIsWoken(r) ==
  /\ At(r, "asking") /\ ~Heard(r) /\ woken[r] /\ Works(r, "working") /\ Retire(r)
  /\ UNCHANGED <<hostVars, reader, serverVars, run, hook, viewVars, asked, answered, woken,
                 abandoned, reported, historyVars>>
WorkerTimesOut_WhenPatient(r) ==
  /\ At(r, "asking") /\ ~Heard(r) /\ ~woken[r] /\ patient /\ Works(r, "working") /\ Retire(r)
  /\ abandoned' = [abandoned EXCEPT ![r] = TRUE]
  /\ UNCHANGED <<hostVars, reader, serverVars, run, hook, viewVars, asked, answered, woken,
                 reported, historyVars>>
WorkerTimesOut(r) ==
  /\ At(r, "asking") /\ ~Heard(r) /\ ~woken[r] /\ ~patient /\ Works(r, "working") /\ Retire(r)
  /\ abandoned' = [abandoned EXCEPT ![r] = TRUE]
  /\ UNCHANGED <<hostVars, reader, serverVars, run, hook, viewVars, asked, answered, woken,
                 reported, historyVars>>

(* The run is over for its worker, which leaves the agent.end hooks to a   *)
(* thread of their own.                                                    *)
WorkerEnds(r) ==
  /\ At(r, "working") /\ Works(r, "gone")
  /\ hook' = [hook EXCEPT ![r].pc = IF r \in HookFails THEN "running" ELSE "gone"]
  /\ UNCHANGED <<hostVars, reader, serverVars, run, viewVars, askVars, reported, historyVars>>

(* The failure is logged where the session's callbacks point, which the    *)
(* thread reads once.                                                      *)
HookLooks(r) ==
  /\ Running /\ hook[r].pc = "running"
  /\ hook' = [hook EXCEPT ![r] = [pc |-> IF attached = None THEN "gone" ELSE "logging",
                                  view |-> attached]]
  /\ UNCHANGED <<hostVars, reader, serverVars, run, worker, viewVars, askVars, reported,
                 historyVars>>
HookLogs(r) ==
  /\ Running /\ hook[r].pc = "logging"
  /\ hook' = [hook EXCEPT ![r].pc = "gone"]
  /\ Emit(hook[r].view)
  /\ UNCHANGED <<hostVars, reader, serverVars, run, worker, mode, askVars, reported,
                 historyVars>>

-----------------------------------------------------------------------------
Done ==
  /\ ~Running \/ \A r \in Runs : run[r] \in {"none", "over"}
  /\ UNCHANGED vars

Host ==
  \/ Submit \/ Drain \/ ReaderExits
  \/ (\E r \in Runs : OpCancel(r)) \/ (\E n \in Asks : OpAnswer(n))
InOp ==
  ReaderPends \/ ReaderCancels \/ ReaderLooks \/ ReaderWakes \/ ReaderCrashes
  \/ ReaderAnswers \/ ReaderResolves
RunThread(r) ==
  \/ RunAttaches(r) \/ RunSubmits(r) \/ RunReapplies(r) \/ RunStarts(r) \/ RunJoins(r)
  \/ RunReports(r) \/ RunDetaches(r) \/ RunClears(r) \/ RunForgets(r)
Worker(r) ==
  \/ WorkerEmits(r) \/ WorkerCalls(r) \/ WorkerAsks(r) \/ WorkerHears(r) \/ WorkerIsWoken(r)
  \/ WorkerTimesOut(r) \/ WorkerEnds(r)
HookThread(r) == HookLooks(r) \/ HookLogs(r)

Next ==
  Host \/ InOp \/ (\E r \in Runs : RunThread(r) \/ Worker(r) \/ HookThread(r)) \/ Done

(* The threads run, an operation once read is carried out, the wait of a   *)
(* shutdown is limited, and a worker returns from its calls; the host is   *)
(* under no obligation.                                                    *)
Fairness ==
  /\ WF_vars(InOp) /\ WF_vars(ReaderExits)
  /\ \A r \in Runs : WF_vars(RunThread(r)) /\ WF_vars(Worker(r))

Spec == Init /\ [][Next]_vars
FairSpec == Spec /\ Fairness

-----------------------------------------------------------------------------
TypeOK ==
  /\ patient \in BOOLEAN /\ named \in BOOLEAN
  /\ reader \in Reader /\ (reader.pc = "resolve" => reader.at # None)
  /\ submitted \in 0..MaxRuns /\ ops \in 0..MaxOps
  /\ {active, view, attached} \subseteq Runs \cup {None}
  /\ cancelPending \in BOOLEAN /\ event \in BOOLEAN
  /\ run \in [Runs -> RunPcs] /\ worker \in [Runs -> WorkerPcs]
  /\ hook \in [Runs -> [pc : {"none", "running", "logging", "gone"}, view : Runs \cup {None}]]
  /\ mode \in [Runs -> {"buffer", "live", "sealed"}] /\ buffered \in [Runs -> BOOLEAN]
  /\ lines \in [Runs -> Seq({"start", "event", "result"})]
  /\ asked \in Seq(Runs) /\ Len(asked) <= MaxAsks
  /\ pending \in [Runs -> Asks \cup {None}] /\ answered \in [Asks -> Asks \cup {NoAnswer}]
  /\ woken \in [Runs -> BOOLEAN] /\ abandoned \in [Runs -> BOOLEAN]
  /\ reported \in [Runs -> BOOLEAN]
  /\ sent \subseteq Asks /\ told \subseteq Runs

(* While a run's worker lives the session's callbacks are its own view's,  *)
(* and no other run is accepted ("the detach must happen BEFORE            *)
(* _active_run_id is cleared", _run_thread).                               *)
WorkerKeepsItsView ==
  \A r \in Runs : worker[r] \notin {"none", "gone"} => attached = r /\ view = r /\ active = r

(* A cancel the server accepted is on the run's result line, however early *)
(* it came ("submit() clears the session cancel event at run start, which  *)
(* would swallow the cancel", AgentServer).                                *)
Reported(r) == lines[r] # <<>> /\ lines[r][1] = "start" /\ Last(lines[r]) = "result"
CancelReported == \A r \in told : Reported(r) => reported[r]

(* A worker that was not cancelled hears the answer to its own question or *)
(* none, whatever timed out meanwhile: an answer names its question, or no *)
(* question is ever abandoned ("answering a question the user never saw",  *)
(* _AskState).                                                             *)
AnswersReachTheirQuestion ==
  named \/ patient =>
    \A n \in DOMAIN asked : answered[n] \in {n, NoAnswer} \/ woken[asked[n]]

(* What the host reads is a run's stream, then the next run's: start line  *)
(* first, result last, once (docs/serve-protocol.md).                      *)
Stream == INSTANCE RunStream WITH Runs <- Runs, lines <- lines
StreamsInOrder == Stream!Spec

(* A run whose questions time out ends: its result line comes, unless the  *)
(* process goes.                                                           *)
RunsEnd ==
  \A r \in Runs : run[r] = "accepted" /\ ~patient ~> mode[r] = "sealed" \/ ~Running

(* So does a run whose questions wait for ever, once a cancel has found    *)
(* its view ("a cancelled run must unblock the worker at once",            *)
(* ServerView), whatever the worker asks after that.                       *)
CancelEnds ==
  \A r \in Runs : reader.pc = "wake" /\ view = r ~> mode[r] = "sealed" \/ ~Running

(* The shutdown lets the active run report that it was cancelled: its      *)
(* cancel holds until the outcome is read ("cancel the active run and let  *)
(* it emit its terminal `result` line (with `cancelled: true`",            *)
(* serve_forever).                                                         *)
DrainReported ==
  reader.pc = "wait" /\ run[reader.run] \in {"submitted", "reapplied", "joining"} => event
=============================================================================
