------------------------------ MODULE Terminal ------------------------------
(***************************************************************************)
(* A question on its way to the user and back: the worker that asks        *)
(* (Session.confirm and ask_questions, the _ui_confirm and _ui_ask of      *)
(* tui/input.py), the one slot `self.question', and the main thread, which *)
(* prompts, runs the live loop and answers (tui/core.py).                  *)
(*                                                                         *)
(* Runs follow each other on the main thread, which abandons one on Ctrl-C *)
(* while its worker winds down.  A question is the n-th of its run; the    *)
(* answer that the user types is the question that was on screen.          *)
(***************************************************************************)
EXTENDS Integers, FiniteSets

CONSTANTS
  TuiRuns,               \* bound: prompts submitted
  MaxAsked               \* bound: questions a run asks

ASSUME TerminalAssumption == TuiRuns \in Nat \ {0} /\ MaxAsked \in Nat

Askers == 1..TuiRuns
Questions == Askers \X (1..MaxAsked)
None == <<0, 0>>
Blank == <<0, 1>>
Failed == <<0, 2>>

VARIABLES
  slot,                  \* self.question
  interrupt,             \* the session's cancel event
  ui, onScreen,          \* the main thread's place, and the question it shows
  current,               \* the latest run
  ctrlC,                 \* history: runs that were abandoned
  asker, asked,          \* each worker's place, and how many it has asked
  lock,                  \* _interactive_lock: the worker that holds it
  event, reply,          \* UiQuestion.event and .answer
  skipped,               \* history: questions the user left unanswered
  given                  \* what the asking tool was given

slotVars == <<slot, interrupt, ui, onScreen>>
askVars == <<asker, asked, lock>>
replyVars == <<event, reply, skipped>>
runVars == <<current, ctrlC>>
terminalVars == <<slotVars, runVars, askVars, replyVars, given>>

TerminalInit ==
  /\ slot = None /\ interrupt = FALSE /\ ui = "top" /\ onScreen = None
  /\ current = 0 /\ ctrlC = {}
  /\ asker = [w \in Askers |-> "over"] /\ asked = [w \in Askers |-> 0] /\ lock = 0
  /\ event = {} /\ reply = [q \in Questions |-> None] /\ skipped = {}
  /\ given = [q \in Questions |-> None]

-----------------------------------------------------------------------------
(* The main thread: run(), _start_agent(), _run_live() and _run_dumb().    *)
AtTop ==
  /\ ui = "top"
  /\ IF slot = None THEN ui' = "prompt" /\ UNCHANGED onScreen
                    ELSE ui' = "ask" /\ onScreen' = slot
  /\ UNCHANGED <<slot, interrupt, runVars, askVars, replyVars, given>>

TypeCommand ==
  /\ ui = "prompt" /\ ui' = "top"
  /\ UNCHANGED <<slot, interrupt, onScreen, runVars, askVars, replyVars, given>>

SubmitPrompt ==
  /\ ui = "prompt" /\ current < TuiRuns
  /\ current' = current + 1 /\ interrupt' = FALSE
  /\ asker' = [asker EXCEPT ![current + 1] = "work"]
  /\ ui' = "live"
  /\ UNCHANGED <<slot, onScreen, ctrlC, asked, lock, replyVars, given>>

LiveAsks ==
  /\ ui = "live" /\ asker[current] # "over" /\ slot # None
  /\ ui' = "liveAsk" /\ onScreen' = slot
  /\ UNCHANGED <<slot, interrupt, runVars, askVars, replyVars, given>>
LiveEnds ==
  /\ ui = "live" /\ asker[current] = "over" /\ ui' = "top"
  /\ UNCHANGED <<slot, interrupt, onScreen, runVars, askVars, replyVars, given>>

(* Ctrl-C during a run, but not at an answer: _abandon_run cancels, and    *)
(* then releases the question that is there.                               *)
Interrupt ==
  /\ ui \in {"live", "liveAsk", "liveClear"} /\ ui' = "abandon"
  /\ interrupt' = TRUE /\ ctrlC' = ctrlC \cup {current}
  /\ UNCHANGED <<slot, onScreen, current, askVars, replyVars, given>>
ReleaseQuestion ==
  /\ ui = "abandon" /\ ui' = "top"
  /\ IF slot = None THEN UNCHANGED <<event, reply>>
     ELSE event' = event \cup {slot} /\ reply' = [reply EXCEPT ![slot] = Blank]
  /\ slot' = None
  /\ UNCHANGED <<interrupt, onScreen, runVars, askVars, skipped, given>>

(* _ask_question_blocking: the answer, or nothing on Ctrl-C or Ctrl-D;     *)
(* then the event, and then the slot.                                      *)
Asking == ui \in {"ask", "liveAsk"}
After == IF ui = "ask" THEN "clear" ELSE "liveClear"
AnswerTo(q, text) ==
  /\ reply' = [reply EXCEPT ![q] = text] /\ event' = event \cup {q}
  /\ skipped' = IF text = Blank THEN skipped \cup {q} ELSE skipped
  /\ ui' = After
  /\ UNCHANGED <<slot, interrupt, onScreen, runVars, askVars, given>>
TypeAnswer_ToSlot ==
  /\ Asking /\ slot # None /\ \E text \in {onScreen, Blank} : AnswerTo(slot, text)
TypeAnswer ==
  /\ Asking /\ \E text \in {onScreen, Blank} : AnswerTo(onScreen, text)

(* Rendering the question raises: the slot comes first.                    *)
RenderFails ==
  /\ Asking /\ slot' = None /\ onScreen' = None
  /\ reply' = [reply EXCEPT ![onScreen] = Failed] /\ event' = event \cup {onScreen}
  /\ ui' = IF ui = "ask" THEN "top" ELSE "live"
  /\ UNCHANGED <<interrupt, runVars, askVars, skipped, given>>
ClearSlot ==
  /\ ui \in {"clear", "liveClear"}
  /\ slot' = None /\ onScreen' = None
  /\ ui' = IF ui = "clear" THEN "top" ELSE "live"
  /\ UNCHANGED <<interrupt, runVars, askVars, replyVars, given>>

-----------------------------------------------------------------------------
(* The workers.                                                            *)
Unwinds(w) == interrupt \/ w # current
Moves(w, place) == asker' = [asker EXCEPT ![w] = place]
Latest(w) == <<w, asked[w]>>

(* The loop's check for a cancel comes before the tool; a superseded run   *)
(* is answered at once; then the lock.                                     *)
BeginTool(w) ==
  /\ asker[w] = "work" /\ ~Unwinds(w) /\ asked[w] < MaxAsked /\ Moves(w, "tool")
  /\ UNCHANGED <<slotVars, runVars, asked, lock, replyVars, given>>
Superseded(w) ==
  /\ asker[w] = "tool" /\ w # current /\ Moves(w, "work")
  /\ UNCHANGED <<slotVars, runVars, asked, lock, replyVars, given>>
MayAsk(w) ==
  /\ asker[w] = "tool" /\ w = current /\ Moves(w, "lock")
  /\ UNCHANGED <<slotVars, runVars, asked, lock, replyVars, given>>
TakeLock(w) ==
  /\ asker[w] = "lock" /\ lock = 0 /\ lock' = w /\ Moves(w, "post")
  /\ UNCHANGED <<slotVars, runVars, asked, replyVars, given>>

(* _ask_sync: the question goes on the slot; then the worker waits for its *)
(* event, and looks at the cancel event ten times a second.                *)
Post(w) ==
  /\ asker[w] = "post" /\ asked[w] < MaxAsked
  /\ asked' = [asked EXCEPT ![w] = @ + 1]
  /\ slot' = <<w, asked[w] + 1>>
  /\ Moves(w, "wait")
  /\ UNCHANGED <<interrupt, ui, onScreen, runVars, lock, replyVars, given>>
Receives(w, text) ==
  /\ given' = [given EXCEPT ![Latest(w)] = text]
  /\ Moves(w, "next")
  /\ UNCHANGED <<slotVars, runVars, asked, lock, replyVars>>
TakesAnswer(w) == asker[w] = "wait" /\ Latest(w) \in event /\ Receives(w, reply[Latest(w)])
GivesUp(w) == asker[w] = "wait" /\ Latest(w) \notin event /\ interrupt /\ Receives(w, Blank)

(* _ui_ask goes on with the call's next question, cancelled or not.        *)
AsksOn(w) ==
  /\ asker[w] = "next" /\ asked[w] < MaxAsked /\ Moves(w, "post")
  /\ UNCHANGED <<slotVars, runVars, asked, lock, replyVars, given>>
EndTool(w) ==
  /\ asker[w] = "next" /\ lock' = 0 /\ Moves(w, "work")
  /\ UNCHANGED <<slotVars, runVars, asked, replyVars, given>>
WorkerEnds(w) ==
  /\ asker[w] = "work" /\ Moves(w, "over")
  /\ UNCHANGED <<slotVars, runVars, asked, lock, replyVars, given>>

Asks(w) ==
  \/ BeginTool(w) \/ Superseded(w) \/ MayAsk(w) \/ TakeLock(w) \/ Post(w)
  \/ TakesAnswer(w) \/ GivesUp(w) \/ AsksOn(w) \/ EndTool(w) \/ WorkerEnds(w)

TerminalNext ==
  \/ AtTop \/ TypeCommand \/ SubmitPrompt \/ LiveAsks \/ LiveEnds \/ Interrupt
  \/ ReleaseQuestion \/ TypeAnswer \/ RenderFails \/ ClearSlot
  \/ \E w \in Askers : Asks(w)

TerminalSpec == TerminalInit /\ [][TerminalNext]_terminalVars

-----------------------------------------------------------------------------
(* The model is told what the user typed for that very question, and       *)
(* nothing only when the user typed nothing or cancelled the run, however  *)
(* the questions of an abandoned run and of the next cross on the slot     *)
(* (_ask_question_blocking answers the question it rendered).              *)
AnswerGoesToItsQuestion ==
  \A q \in Questions :
    \/ given[q] \in {None, Failed, q}
    \/ given[q] = Blank /\ (q \in skipped \/ q[1] \in ctrlC)

(* "The run is cancelled, so release it now -- it must not be re-prompted  *)
(* after the run is over" (_abandon_run).                                  *)
NoPromptAfterTheRun == Asking => onScreen[1] \notin ctrlC
=============================================================================
