----------------------------- MODULE DeltaFilter -----------------------------
(***************************************************************************)
(* The [FINAL CHECK] block at the end of a reply, which the model writes   *)
(* for the harness and no user should read (io/text_filter.py), and the    *)
(* append-only stream that leaves it out while the reply is still coming   *)
(* (FilteredDeltaStream, entry/view.py).                                   *)
(*                                                                         *)
(* A reply is a sequence of pieces: "x" text, "s" a blank, "n" a line      *)
(* break, "d" a run of emphasis or heading marks, "[final" and "final" the *)
(* start of a header, "check" the rest of it (with the bracket closed, if  *)
(* one was open), "labels" the Goal, Status and Evidence that follow.      *)
(***************************************************************************)
EXTENDS Integers, Sequences, FiniteSetsExt

CONSTANT MaxReply        \* bound: pieces of a reply

Pieces == {"x", "s", "n", "d", "[final", "final", "check", "labels"}

Words == {"x", "final", "labels"}

VARIABLES
  buf, emitted,          \* FilteredDeltaStream._buf, _emitted
  out                    \* history: what the stream wrote for this reply

filterVars == <<buf, emitted, out>>

-----------------------------------------------------------------------------
(* The patterns, at a place i of text t.  Only what comes after the first  *)
(* `floor' pieces is searched, and the start of the text is a line start   *)
(* for a search from there only.                                           *)
Piece(t, i) == IF i \in 1..Len(t) THEN t[i] ELSE "end"
Past(t, i, kinds) ==
  CHOOSE j \in i..Len(t) + 1 : (\A k \in i..j - 1 : t[k] \in kinds) /\ Piece(t, j) \notin kinds
PastBlanks(t, i) == Past(t, i, {"s"})
PastMark(t, i) == IF Piece(t, i) = "d" THEN i + 1 ELSE i
LineStarts(t, i, floor) ==
  (IF Piece(t, i) = "n" THEN {i + 1} ELSE {}) \cup (IF i = 1 /\ floor = 0 THEN {1} ELSE {})

(* _FC_HEADER: in brackets anywhere, or bare at the start of a line, as    *)
(* words of their own.                                                     *)
HeaderAt(t, i, floor) ==
  \/ LET j == PastMark(t, i) IN
     Piece(t, j) = "[final" /\ Piece(t, PastBlanks(t, j + 1)) = "check"
  \/ \E b \in LineStarts(t, i, floor) :
       LET j == PastBlanks(t, PastMark(t, PastBlanks(t, b)))
           k == PastBlanks(t, j + 1)
       IN Piece(t, j) = "final" /\ Piece(t, k) = "check" /\ Piece(t, k + 1) \notin Words

(* _FC_PARTIAL_TAIL_RE: all that follows i may be the start of a header,   *)
(* or the marks in front of one.                                           *)
HeaderTail(t, m) ==
  LET j == PastBlanks(t, IF Piece(t, m) \in {"final", "[final"} THEN m + 1 ELSE m)
      k == IF Piece(t, j) = "check" THEN PastBlanks(t, j + 1) ELSE j
  IN Piece(t, k) = "end"
OpenAt_OwnLineMarks(t, i, floor) ==
  \/ Piece(t, PastMark(t, i)) = "[final" /\ HeaderTail(t, PastMark(t, i))
  \/ \E b \in LineStarts(t, i, floor) :
       LET c == PastBlanks(t, b) IN
       Piece(t, c) \in {"d", "final"} /\ HeaderTail(t, Past(t, c, {"d", "s"}))
OpenAt(t, i, floor) ==
  \/ Piece(t, PastMark(t, i)) = "[final" /\ HeaderTail(t, PastMark(t, i))
  \/ \E b \in LineStarts(t, i, floor) :
       LET c == PastBlanks(t, b) IN
       Piece(t, c) \in {"d", "final"} /\ HeaderTail(t, Past(t, c, {"d", "s"}))
  \/ Piece(t, i) = "d" /\ Piece(t, PastBlanks(t, Past(t, i, {"d"}))) = "end"

(* _cut_end: what is kept of a text cut after its first e pieces, without  *)
(* the blanks at its end and a last line of nothing but marks.             *)
Trimmed(t, e) == Max({k \in 0..e : k = 0 \/ t[k] \notin {"s", "n"}})
CutEnd(t, e) ==
  LET end  == Trimmed(t, e)
      line == Max({0} \cup {k \in 1..end : t[k] = "n"}) + 1
  IN IF line <= end /\ Past(t, PastBlanks(t, line), {"d"}) > end
     THEN Trimmed(t, Max({0, line - 2})) ELSE end

(* strip_final_check: a header whose labels have come starts the block.    *)
StripFinalCheck(t, floor) ==
  LET blocks == {i \in floor + 1..Len(t) :
                   HeaderAt(t, i, floor) /\ \E j \in i..Len(t) : t[j] = "labels"}
  IN IF blocks = {} THEN t ELSE SubSeq(t, 1, CutEnd(t, Min(blocks) - 1))

(* final_check_hold_index: how much of a text can never be cut away.       *)
HoldIndex(t, floor) ==
  LET held == {i \in floor + 1..Len(t) : HeaderAt(t, i, floor) \/ OpenAt(t, i, floor)}
  IN CutEnd(t, Min({i - 1 : i \in held} \cup {Len(t)}))

-----------------------------------------------------------------------------
FilterInit == buf = <<>> /\ emitted = 0 /\ out = <<>>

(* feed: write what is now safe.                                           *)
Feed(chunk) ==
  LET visible == StripFinalCheck(buf \o chunk, emitted)
      safe    == Max({emitted, HoldIndex(visible, emitted)}) IN
  /\ Len(buf \o chunk) <= MaxReply
  /\ buf' = buf \o chunk
  /\ emitted' = safe
  /\ out' = out \o SubSeq(visible, emitted + 1, safe)

(* flush: write the rest; the next reply starts afresh.                    *)
Flushed ==
  LET visible == StripFinalCheck(buf, emitted) IN SubSeq(visible, emitted + 1, Len(visible))

FilterNext == \E p \in Pieces : Feed(<<p>>) \/ \E q \in Pieces : Feed(<<p, q>>)
FilterSpec == FilterInit /\ [][FilterNext]_filterVars

-----------------------------------------------------------------------------
(* However a reply is cut into chunks, and wherever it ends, what the      *)
(* stream wrote and then flushes is the reply as the terminal shows it,    *)
(* without the block: nothing it wrote ever had to be taken back.          *)
StreamIsStripped == out \o Flushed = StripFinalCheck(buf, 0)
=============================================================================
