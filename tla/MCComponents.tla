---------------------------- MODULE MCComponents ----------------------------
(***************************************************************************)
(* One instance of each component that only transforms data or runs by     *)
(* itself: the rebuilding of conversations, a sub-agent's loop, typed      *)
(* input, the filter of streamed text, the assembly of tool calls, diffs,  *)
(* saved conversations, the panel and the questions on the terminal.  They *)
(* share no variable: a behaviour chooses one of them, its focus, and the  *)
(* others rest as they began.                                              *)
(***************************************************************************)
EXTENDS MCConversation, MCAgentLoop, TypedInput, DeltaFilter, ToolCallStream, DiffApply,
        SavedFormat, Panel, Terminal

VARIABLE focus

restVars == <<history, vars, typedVars, filterVars, callStreamVars, diffVars, savedVars, panelVars, terminalVars>>

(* Lines of a message body: text, a role header, escaped ones, metadata.   *)
SavedLines ==
  {<<>>, <<"x">>, <<"user:", "x">>, <<"\\", "user:">>, <<"\\", "\\", "tool:", "x">>,
   <<"\\", "x">>, <<";; Local">>}

(* A text printed as counted; a paragraph and two lists, which take a      *)
(* blank line each; a message of one call, one of two, a reminder.         *)
ShownMessages ==
  {[injected |-> FALSE, lines |-> 2, calls |-> <<>>, printed |-> 2],
   [injected |-> FALSE, lines |-> 3, calls |-> <<>>, printed |-> 5],
   [injected |-> FALSE, lines |-> 0, calls |-> <<<<<<1, 3>>, <<1, 9>>>>>>, printed |-> 0],
   [injected |-> FALSE, lines |-> 0, calls |-> <<<<>>, <<<<2, 2>>>>>>, printed |-> 0],
   [injected |-> TRUE, lines |-> 1, calls |-> <<>>, printed |-> 1]}
(* A short reply, a long one of lines just over the width, one of short.   *)
ShownReplies ==
  {[lines |-> 1, cells |-> 5], [lines |-> 20, cells |-> 22], [lines |-> 20, cells |-> 5]}

ComponentsInit ==
  /\ focus \in {"rebuild", "subagent", "typed", "filter", "calls", "diff", "saved", "panel",
             "terminal"}
  /\ RebuildInit /\ Init /\ TypedInit /\ FilterInit /\ CallStreamInit /\ DiffInit /\ SavedInit
  /\ PanelInit /\ TerminalInit
  /\ focus # "subagent" => reminders = 0 /\ ~cancelled
  /\ focus # "calls" => backend = "whole"
  /\ focus # "panel" => round_start = 0 /\ screen.height = 6

ComponentsNext ==
  /\ UNCHANGED focus
  /\ \/ focus = "rebuild" /\ RebuildNext
          /\ UNCHANGED <<vars, typedVars, filterVars, callStreamVars, diffVars, savedVars,
                         panelVars, terminalVars>>
     \/ focus = "subagent" /\ Next
          /\ UNCHANGED <<history, typedVars, filterVars, callStreamVars, diffVars, savedVars,
                         panelVars, terminalVars>>
     \/ focus = "typed" /\ TypedNext
          /\ UNCHANGED <<history, vars, filterVars, callStreamVars, diffVars, savedVars,
                         panelVars, terminalVars>>
     \/ focus = "filter" /\ FilterNext
          /\ UNCHANGED <<history, vars, typedVars, callStreamVars, diffVars, savedVars,
                         panelVars, terminalVars>>
     \/ focus = "calls" /\ CallStreamNext
          /\ UNCHANGED <<history, vars, typedVars, filterVars, diffVars, savedVars, panelVars,
                         terminalVars>>
     \/ focus = "diff" /\ DiffNext
          /\ UNCHANGED <<history, vars, typedVars, filterVars, callStreamVars, savedVars,
                         panelVars, terminalVars>>
     \/ focus = "saved" /\ SavedNext
          /\ UNCHANGED <<history, vars, typedVars, filterVars, callStreamVars, diffVars,
                         panelVars, terminalVars>>
     \/ focus = "panel" /\ PanelNext
          /\ UNCHANGED <<history, vars, typedVars, filterVars, callStreamVars, diffVars, savedVars,
                         terminalVars>>
     \/ focus = "terminal" /\ TerminalNext
          /\ UNCHANGED <<history, vars, typedVars, filterVars, callStreamVars, diffVars, savedVars,
                         panelVars>>

ComponentsSpec == ComponentsInit /\ [][ComponentsNext]_<<focus, restVars>>
=============================================================================
