-------------------------------- MODULE Panel --------------------------------
(***************************************************************************)
(* The live panel of the terminal interface while a run goes on            *)
(* (tui/render.py): the rows built from the conversation, cached until it  *)
(* changes, the live reply below them, and what of both fits next to the   *)
(* pinned status bar and Todos.  A click expands or collapses a tool call. *)
(*                                                                         *)
(* The worker thread adds messages and text and changes the bar; the UI    *)
(* thread draws a frame in two steps, between which anything may happen;   *)
(* clicks come from the thread that reads the mouse.                       *)
(*                                                                         *)
(* A message is what it shows: whether it is shown at all, lines of text,  *)
(* and the calls it makes.  A call is the lines its arguments take, each   *)
(* <<at least, in full>>.  Text is Markdown: the code counts the lines of  *)
(* its source, and rich prints more or fewer, e.g. one more between a      *)
(* paragraph and the list below it.                                        *)
(***************************************************************************)
EXTENDS Integers, Sequences, SequencesExt, FiniteSetsExt

CONSTANTS
  Width,                 \* cells of a terminal line
  Heights,               \* lines the terminal may have
  PanelMessages,         \* messages the worker may add: [injected, lines, calls, printed]
  Replies,               \* live replies: [lines, cells], lines of so many cells
  MaxMessages,           \* bound: messages added
  MaxChanges             \* bound: changes of the terminal, the bar, the Todos

ASSUME PanelAssumption == Width \in Nat \ {0} /\ Heights \subseteq Nat
ASSUME ShownAssumption ==
  /\ PanelMessages \subseteq [injected : BOOLEAN, lines : Nat, calls : Seq(Seq(Nat \X Nat)), printed : Nat]
  /\ Replies \subseteq [lines : Nat \ {0}, cells : Nat]

NoReply == [lines |-> 0, cells |-> 0]
Prefix == 11             \* "assistant: "
NotDrawing == [bar |-> 0]

VARIABLES
  last_messages, added,  \* the conversation; history: messages it ever had
  prints,                \* lines the text of each of those takes once printed
  round_start,           \* where the current round begins in it
  stream,                \* the live reply
  screen, changes,       \* lines of the terminal and of the bar, Todos
  expanded_tools,        \* calls the user asked to see
  history_cache,         \* the rows built last, and the requests they show
  history_dirty,
  drawing,               \* the frame the UI thread is at
  frame                  \* the last frame drawn

panelVars == <<last_messages, added, prints, round_start, stream, screen, changes,
               expanded_tools, history_cache, history_dirty, drawing, frame>>

-----------------------------------------------------------------------------
(* _visible_row_cap: lines left by the bar, the prompt and the Todos.      *)
TodoLines(s) == IF s.todos = 0 THEN 0 ELSE Min({s.todos, 8}) + 1
VisibleRowCap_NoTodos(s) == Max({1, s.height - (s.status + 1)})
VisibleRowCap(s) == Max({1, s.height - (s.status + 1 + TodoLines(s))})

Row(of, lines, shape, args) == [of |-> of, lines |-> lines, shape |-> shape, args |-> args]
Lines(rows) ==
  LET upto[i \in 0..Len(rows)] == IF i = 0 THEN 0 ELSE upto[i - 1] + rows[i].lines
  IN  upto[Len(rows)]

(* _expanded_tool_rows: a header and a row per argument in so many lines,  *)
(* shared out argument by argument; nothing when one does not fit.         *)
ValueRow(of, args, block, i) ==
  LET share == Max({1, block.left \div (Len(args) - i + 1)})
      cost  == Max({args[i][1], Min({args[i][2], share})})
  IN [rows |-> Append(block.rows, Row(of, cost, "value", <<>>)), left |-> block.left - cost]
ExpandedRows(of, args, lines) ==
  LET block[i \in 0..Len(args)] ==
        IF i = 0 THEN [rows |-> <<Row(of, 1, "header", args)>>, left |-> lines - 1]
        ELSE ValueRow(of, args, block[i - 1], i)
      whole == block[Len(args)]
  IN IF lines - 1 < Len(args) \/ whole.left < 0 THEN <<>> ELSE whole.rows

(* _tool_call_rows: one line, unless the user asked for more.              *)
ToolCallRows_Unmarked(of, args) ==
  LET rows == ExpandedRows(of, args, Max({1, VisibleRowCap(screen) - 3})) IN
  IF of \notin expanded_tools \/ args = <<>> \/ rows = <<>>
  THEN <<Row(of, 1, "collapsed", args)>> ELSE rows
ToolCallRows(of, args) ==
  LET rows == ExpandedRows(of, args, Max({1, VisibleRowCap(screen) - 3})) IN
  IF of \notin expanded_tools \/ args = <<>> THEN <<Row(of, 1, "collapsed", args)>>
  ELSE IF rows = <<>> THEN <<Row(of, 1, "noRoom", args)>> ELSE rows

(* _build_history_rows: the messages of the round that are not injected;   *)
(* the prompt just submitted, until the conversation has it.               *)
MessageRows(m) ==
  IF m.injected THEN <<>>
  ELSE FlattenSeq([k \in 1..Len(m.calls) |-> ToolCallRows(<<m.id, k>>, m.calls[k])])
         \o IF m.lines = 0 THEN <<>> ELSE <<Row(<<m.id>>, m.lines, "text", <<>>)>>
BuildHistoryRows ==
  LET start == Min({round_start, Len(last_messages)}) IN
  (IF Len(last_messages) <= round_start THEN <<Row(<<>>, 1, "text", <<>>)>> ELSE <<>>)
    \o FlattenSeq([k \in 1..Len(last_messages) - start |-> MessageRows(last_messages[start + k])])

(* _stream_row: the last lines of the reply, and of those the last cells.  *)
Wrapped(cells) == Max({1, (cells + Width - 1) \div Width})
StreamRow(lines) ==
  LET n     == Min({stream.lines, lines})
      cut   == stream.lines > lines
      cells == n * (stream.cells + 1) - 1 + IF cut THEN 2 ELSE 0
      full  == (lines * Width) \div (stream.cells + 1)
      part  == (lines * Width) % (stream.cells + 1)
      height == IF cells > lines * Width
                THEN Wrapped(Prefix + 1 + part) + full * Wrapped(stream.cells)
                ELSE IF cut THEN Wrapped(Prefix + 1) + n * Wrapped(stream.cells)
                ELSE Wrapped(Prefix + stream.cells) + (n - 1) * Wrapped(stream.cells)
  IN IF stream = NoReply THEN <<>> ELSE <<Row(<<0>>, height, "stream", <<>>)>>

(* The rows of one call are a unit.                                        *)
JoinUnit(units, r) ==
  IF units # <<>> /\ Last(units)[1].of = r.of
  THEN Append(Front(units), Append(Last(units), r)) ELSE Append(units, <<r>>)
Units(rows) ==
  LET upto[i \in 0..Len(rows)] == IF i = 0 THEN <<>> ELSE JoinUnit(upto[i - 1], rows[i])
  IN  upto[Len(rows)]

(* _apply_budget: from the newest unit on, a unit is kept if it fits; a    *)
(* block that does not is sized to the lines left (_refit_expanded), or a  *)
(* line stands in for it.                                                  *)
Fitted(unit, budget) ==
  IF Lines(unit) <= budget THEN unit
  ELSE IF unit[1].shape # "header" \/ budget <= 0 THEN <<>>
  ELSE LET refit == ExpandedRows(unit[1].of, unit[1].args, budget) IN
       IF refit # <<>> THEN refit ELSE <<Row(unit[1].of, 1, "noRoom", unit[1].args)>>
KeepUnit(unit, kept) == Fitted(unit, VisibleRowCap(screen) - Lines(kept)) \o kept
ApplyBudget(rows) ==
  LET units == Units(rows)
      newest[n \in 0..Len(units)] ==
        IF n = 0 THEN <<>> ELSE KeepUnit(units[Len(units) - n + 1], newest[n - 1])
  IN newest[Len(units)]

(* _render_conversation: the live reply yields to a third of the panel if  *)
(* that shows more of a call the user asked to see.                        *)
BlockLines(rows) == Lines(SelectSeq(rows, LAMBDA r : r.shape \in {"header", "value"}))
RenderConversation(rows) ==
  LET cap     == VisibleRowCap(screen)
      kept    == ApplyBudget(rows \o StreamRow(Max({3, cap - 3})))
      yielded == ApplyBudget(rows \o StreamRow(Max({3, cap \div 3})))
  IN IF stream # NoReply /\ BlockLines(kept) < BlockLines(rows) /\ BlockLines(yielded) > BlockLines(kept)
     THEN yielded ELSE kept

-----------------------------------------------------------------------------
PanelInit ==
  /\ last_messages = <<>> /\ added = 0 /\ prints = <<>> /\ round_start \in 0..1 /\ stream = NoReply
  /\ screen \in [height : Heights, status : {1}, todos : {0}] /\ changes = 0
  /\ expanded_tools = {} /\ history_dirty = TRUE
  /\ history_cache = [rows |-> <<>>, asked |-> {}]
  /\ drawing = NotDrawing
  /\ frame = [screen |-> screen, bar |-> 1, todos |-> 0, asked |-> {}, offered |-> <<>>, rows |-> <<>>]

(* _on_notify: messages were added, and the reply with them; or the        *)
(* conversation was compacted (then a summary is all there is).            *)
Notified(msgs) ==
  /\ added < MaxMessages
  /\ last_messages' = msgs /\ added' = added + 1
  /\ prints' = Append(prints, Last(msgs).printed)
  /\ stream' = NoReply /\ history_dirty' = TRUE
  /\ UNCHANGED <<round_start, screen, changes, expanded_tools, history_cache, drawing, frame>>
Identified(m) == [id |-> added + 1, injected |-> m.injected, lines |-> m.lines,
                  calls |-> m.calls, printed |-> m.printed]
AddMessage == \E m \in PanelMessages : Notified(Append(last_messages, Identified(m)))
CompactHistory ==
  /\ last_messages # <<>>
  /\ Notified(<<Identified([injected |-> FALSE, lines |-> 1, calls |-> <<>>,
                            printed |-> 1])>>)

(* _on_delta.                                                              *)
OnDelta ==
  /\ \E r \in Replies : r.lines > stream.lines /\ stream' = r
  /\ UNCHANGED <<last_messages, added, prints, round_start, screen, changes, expanded_tools,
                 history_cache, history_dirty, drawing, frame>>

(* The bar takes another line, the Todos change, the terminal is resized.  *)
ScreenChanges ==
  /\ changes < MaxChanges /\ changes' = changes + 1
  /\ \/ \E h \in Heights : screen' = [screen EXCEPT !.height = h]
     \/ \E n \in 1..2 : screen' = [screen EXCEPT !.status = n]
     \/ screen' = [screen EXCEPT !.todos = 2 - @]
  /\ UNCHANGED <<last_messages, added, prints, round_start, stream, expanded_tools,
                 history_cache, history_dirty, drawing, frame>>

(* _render_frame, until the rows of the history are there.                 *)
BeginFrame ==
  /\ drawing = NotDrawing
  /\ drawing' = [bar |-> screen.status, todos |-> TodoLines(screen), built |-> history_dirty,
                 history |-> IF history_dirty
                             THEN [rows |-> BuildHistoryRows, asked |-> expanded_tools]
                             ELSE history_cache]
  /\ UNCHANGED <<last_messages, added, prints, round_start, stream, screen, changes,
                 expanded_tools, history_cache, history_dirty, frame>>

(* _history_rows stores them; then the conversation is rendered.           *)
EndFrame ==
  /\ drawing # NotDrawing
  /\ history_cache' = drawing.history
  /\ history_dirty' = (history_dirty /\ ~drawing.built)
  /\ frame' = [screen |-> screen, bar |-> drawing.bar, todos |-> drawing.todos,
               asked |-> drawing.history.asked,
               offered |-> drawing.history.rows \o StreamRow(1),
               rows |-> RenderConversation(drawing.history.rows)]
  /\ drawing' = NotDrawing
  /\ UNCHANGED <<last_messages, added, prints, round_start, stream, screen, changes, expanded_tools>>

(* _on_mouse_click on a row of the last frame.                             *)
Click ==
  /\ \E r \in Range(frame.rows) :
       /\ r.shape \in {"collapsed", "noRoom", "header", "value"}
       /\ expanded_tools' = IF r.shape = "collapsed" THEN expanded_tools \cup {r.of}
                            ELSE expanded_tools \ {r.of}
  /\ history_dirty' = TRUE
  /\ UNCHANGED <<last_messages, added, prints, round_start, stream, screen, changes,
                 history_cache, drawing, frame>>

PanelNext ==
  AddMessage \/ CompactHistory \/ OnDelta \/ ScreenChanges \/ BeginFrame \/ EndFrame \/ Click
PanelSpec == PanelInit /\ [][PanelNext]_panelVars

-----------------------------------------------------------------------------
(* What rich prints: of a text the lines its Markdown comes to, of every   *)
(* other row the lines the code counts; "(empty)" when no row is kept.     *)
PrintedRow(r) == IF r.shape = "text" /\ Len(r.of) = 1 THEN prints[r.of[1]] ELSE r.lines
Printed(rows) ==
  IF rows = <<>> THEN 1
  ELSE Lines([i \in 1..Len(rows) |-> [rows[i] EXCEPT !.lines = PrintedRow(rows[i])]])
WithinScreen(f) == f.bar + f.todos + Printed(f.rows) <= f.screen.height
HasRoom(f) ==
  f.todos <= TodoLines(f.screen) /\ f.screen.height > f.screen.status + 1 + TodoLines(f.screen)

(* The frame as printed never outgrows the terminal, where rich would crop *)
(* it and no click could be placed, though the bar may take another line,  *)
(* or more Todos come, while it is drawn; unless there is no line for a    *)
(* row, or a text in it prints taller than _est_lines counted.             *)
CountedInFull(rows) == \A i \in 1..Len(rows) : PrintedRow(rows[i]) \in 0..rows[i].lines
FrameFits == CountedInFull(frame.rows) /\ HasRoom(frame) => WithinScreen(frame)

(* The same of every text: "The estimate must never be a LOWER bound"      *)
(* (_est_lines); "x", "- a", "1. b" counts three lines and prints five.    *)
EveryFrameFits == HasRoom(frame) => WithinScreen(frame)

(* A call the user asked to see is shown whole, header and every value in  *)
(* consecutive rows, or by its marked stand-in, so that a click on it      *)
(* takes the request back; it is out of view only when newer rows have     *)
(* taken every line ("the row the user just clicked never vanishes",       *)
(* _apply_budget).                                                         *)
At(rows, of) == {k \in 1..Len(rows) : rows[k].of = of}
Whole(rows, of) ==
  \E k \in At(rows, of) :
    \/ rows[k].shape = "noRoom" /\ At(rows, of) = {k}
    \/ /\ rows[k].shape = "header" /\ rows[k].args # <<>>
       /\ At(rows, of) = k..k + Len(rows[k].args)
AskedIsShown ==
  LET place(of) == Min(At(frame.offered, of)) IN
  \A r \in Range(frame.offered) : r.of \in frame.asked /\ (r.args # <<>> \/ r.shape = "value") =>
    \/ Whole(frame.rows, r.of)
    \/ /\ At(frame.rows, r.of) = {}
       /\ \E k \in 1..Len(frame.rows) :
            /\ \A j \in k..Len(frame.rows) : place(frame.rows[j].of) > place(r.of)
            /\ Lines(SubSeq(frame.rows, k, Len(frame.rows))) >= VisibleRowCap(frame.screen)
=============================================================================
