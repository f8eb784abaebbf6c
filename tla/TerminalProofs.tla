---------------------------- MODULE TerminalProofs ----------------------------
(* A question and its answer, for any number of runs and questions; and the *)
(* live panel, whatever it shows.                                           *)
EXTENDS Terminal, Panel, ConversationProofs

-----------------------------------------------------------------------------
(* What is on the slot, on screen or answered was asked.                    *)
Posted == {q \in Questions : q[2] <= asked[q[1]]}
Places == {"work", "tool", "lock", "post", "wait", "next", "over"}
QuestionsPosted ==
  /\ asker \in [Askers -> Places] /\ asked \in [Askers -> 0..MaxAsked]
  /\ event \subseteq Posted
  /\ slot \in Posted \cup {None} /\ onScreen \in Posted \cup {None}
  /\ Asking => onScreen # None

(* A worker that has not ended is the latest run's, or its run was          *)
(* abandoned; so was the latest run when the prompt is back before its      *)
(* worker ended.                                                            *)
AtPrompt == ui \in {"top", "prompt", "ask", "clear"}
OldRunsAbandoned ==
  /\ current \in 0..TuiRuns
  /\ \A w \in Askers : w > current => asker[w] = "over"
  /\ \A w \in Askers : w < current => w \in ctrlC \/ asker[w] = "over"
  /\ AtPrompt /\ current # 0 => current \in ctrlC \/ asker[current] = "over"
  /\ interrupt \/ ui = "abandon" => current \in ctrlC

(* The question on the slot is an abandoned run's, or the one the latest    *)
(* run waits for, unless it was answered and is about to be cleared.        *)
SlotIsWaitedFor ==
  slot # None =>
    \/ slot[1] \in ctrlC
    \/ slot[1] = current /\ ui = "liveClear"
    \/ slot[1] = current /\ asker[current] = "wait" /\ slot = Latest(current) /\ slot \notin event

(* What a question was answered with, and what its asker got.               *)
Fits(q, text) ==
  \/ text \in {None, Failed, q}
  \/ text = Blank /\ (q \in skipped \/ q[1] \in ctrlC)
AnswersFit ==
  /\ DOMAIN reply = Questions /\ DOMAIN given = Questions
  /\ \A q \in Questions : Fits(q, reply[q])
  /\ \A q \in Questions : Fits(q, given[q])

TerminalInv == QuestionsPosted /\ OldRunsAbandoned /\ SlotIsWaitedFor /\ AnswersFit

LEMMA InitTerminalInv == TerminalInit => TerminalInv
<1> SUFFICES ASSUME TerminalInit PROVE TerminalInv
  OBVIOUS
<1> USE TerminalAssumption DEF TerminalInit, Askers
<1>1. QuestionsPosted
  BY DEF QuestionsPosted, Places, Asking
<1>2. OldRunsAbandoned
  BY DEF OldRunsAbandoned, AtPrompt
<1>3. SlotIsWaitedFor
  BY DEF SlotIsWaitedFor
<1>4. AnswersFit
  BY DEF AnswersFit, Fits
<1> QED BY <1>1, <1>2, <1>3, <1>4 DEF TerminalInv

-----------------------------------------------------------------------------
(* No question is one of the three marks.                                   *)
LEMMA QuestionsAreNoMarks ==
  ASSUME NEW q \in Questions
  PROVE  /\ q[1] \in Askers /\ q[2] \in 1..MaxAsked /\ q = <<q[1], q[2]>>
         /\ q \notin {None, Blank, Failed}
BY TerminalAssumption DEF Questions, Askers, None, Blank, Failed

(* A worker that has not ended belongs to an abandoned run or to the latest. *)
LEMMA ActiveIsCurrent ==
  ASSUME OldRunsAbandoned, NEW w \in Askers, asker[w] # "over"
  PROVE  w \in ctrlC \/ w = current
BY TerminalAssumption DEF OldRunsAbandoned, Askers

(* What fitted a question still fits when the user leaves more unanswered   *)
(* and abandons more runs.                                                  *)
LEMMA FitsOn ==
  ASSUME NEW q, NEW text, Fits(q, text), skipped \subseteq skipped', ctrlC \subseteq ctrlC'
  PROVE  Fits(q, text)'
BY DEF Fits

-----------------------------------------------------------------------------
(* The main thread.                                                         *)
LEMMA MainThreadPreserves ==
  ASSUME TerminalInv,
         AtTop \/ TypeCommand \/ SubmitPrompt \/ LiveAsks \/ LiveEnds \/ Interrupt
           \/ ReleaseQuestion \/ TypeAnswer \/ RenderFails \/ ClearSlot
  PROVE  TerminalInv'
<1> USE TerminalAssumption DEF TerminalInv, slotVars, runVars, askVars, replyVars
<1>1. QuestionsPosted'
  <2> USE DEF QuestionsPosted, Posted, Asking
  <2>1. CASE AtTop \/ TypeCommand \/ LiveAsks \/ LiveEnds \/ Interrupt \/ ClearSlot
    BY <2>1 DEF AtTop, TypeCommand, LiveAsks, LiveEnds, Interrupt, ClearSlot
  <2>2. CASE SubmitPrompt
    BY <2>2 DEF SubmitPrompt, Places
  <2>3. CASE ReleaseQuestion
    BY <2>3 DEF ReleaseQuestion
  <2>4. CASE TypeAnswer
    BY <2>4 DEF TypeAnswer, AnswerTo, After
  <2>5. CASE RenderFails
    BY <2>5 DEF RenderFails
  <2> QED BY <2>1, <2>2, <2>3, <2>4, <2>5
<1>2. OldRunsAbandoned'
  <2> USE DEF OldRunsAbandoned, AtPrompt
  <2>1. CASE AtTop \/ TypeCommand \/ LiveAsks \/ LiveEnds \/ Interrupt \/ ReleaseQuestion \/ ClearSlot
    BY <2>1 DEF AtTop, TypeCommand, LiveAsks, LiveEnds, Interrupt, ReleaseQuestion, ClearSlot
  <2>2. CASE SubmitPrompt
    BY <2>2 DEF SubmitPrompt, Askers, QuestionsPosted
  <2>3. CASE TypeAnswer \/ RenderFails
    BY <2>3 DEF TypeAnswer, AnswerTo, After, RenderFails, Asking
  <2> QED BY <2>1, <2>2, <2>3
<1>3. SlotIsWaitedFor'
  <2> USE DEF SlotIsWaitedFor, Latest
  <2>1. CASE AtTop \/ TypeCommand \/ LiveAsks \/ LiveEnds \/ Interrupt \/ ReleaseQuestion \/ ClearSlot
               \/ RenderFails
    BY <2>1 DEF AtTop, TypeCommand, LiveAsks, LiveEnds, Interrupt, ReleaseQuestion, ClearSlot,
                RenderFails
  <2>2. CASE SubmitPrompt
    <3>1. slot # None => slot[1] \in Askers
      BY QuestionsAreNoMarks DEF QuestionsPosted, Posted
    <3> QED BY <2>2, <3>1 DEF SubmitPrompt, OldRunsAbandoned, AtPrompt, Askers
  <2>3. CASE TypeAnswer
    <3>1. slot # None => slot[1] \in Askers
      BY QuestionsAreNoMarks DEF QuestionsPosted, Posted
    <3> QED BY <2>3, <3>1 DEF TypeAnswer, AnswerTo, After, Asking, OldRunsAbandoned, AtPrompt, Askers
  <2> QED BY <2>1, <2>2, <2>3
<1>4. AnswersFit'
  <2> USE DEF AnswersFit
  <2>1. CASE AtTop \/ TypeCommand \/ LiveAsks \/ LiveEnds \/ Interrupt \/ ClearSlot \/ SubmitPrompt
    BY <2>1, FitsOn
    DEF AtTop, TypeCommand, LiveAsks, LiveEnds, Interrupt, ClearSlot, SubmitPrompt
  <2>2. CASE ReleaseQuestion
    <3>1. slot # None => slot[1] \in ctrlC
      BY <2>2 DEF ReleaseQuestion, SlotIsWaitedFor, OldRunsAbandoned
    <3> QED BY <2>2, <3>1, FitsOn DEF ReleaseQuestion, Fits
  <2>3. CASE TypeAnswer
    BY <2>3, FitsOn DEF TypeAnswer, AnswerTo, Fits
  <2>4. CASE RenderFails
    BY <2>4, FitsOn DEF RenderFails, Fits
  <2> QED BY <2>1, <2>2, <2>3, <2>4
<1> QED BY <1>1, <1>2, <1>3, <1>4

-----------------------------------------------------------------------------
(* The workers.                                                             *)
LEMMA WorkerPreserves ==
  ASSUME TerminalInv, NEW w \in Askers, Asks(w)
  PROVE  TerminalInv'
<1> USE TerminalAssumption DEF TerminalInv, slotVars, runVars, askVars, replyVars, Moves, Latest
<1>1. CASE Post(w)
  <2>1. <<w, asked[w] + 1>> \in Questions /\ <<w, asked[w] + 1>> \notin event
    BY <1>1 DEF Post, QuestionsPosted, Posted, Questions
  <2>2. QuestionsPosted'
    BY <1>1, <2>1 DEF Post, QuestionsPosted, Posted, Asking, Places, Questions
  <2>3. OldRunsAbandoned'
    BY <1>1 DEF Post, OldRunsAbandoned, AtPrompt, QuestionsPosted, Askers
  <2>4. SlotIsWaitedFor'
    BY <1>1, <2>1, ActiveIsCurrent DEF Post, SlotIsWaitedFor, QuestionsPosted
  <2>5. AnswersFit'
    BY <1>1, FitsOn DEF Post, AnswersFit
  <2> QED BY <2>2, <2>3, <2>4, <2>5
<1>2. CASE TakesAnswer(w) \/ GivesUp(w)
  <2>1. asker[w] = "wait" /\ Moves(w, "next")
    BY <1>2 DEF TakesAnswer, GivesUp, Receives
  <2>2. UNCHANGED <<slotVars, runVars, asked, lock, replyVars>>
    BY <1>2 DEF TakesAnswer, GivesUp, Receives
  <2>3. QuestionsPosted'
    BY <2>1, <2>2 DEF QuestionsPosted, Posted, Asking, Places
  <2>4. OldRunsAbandoned'
    BY <2>1, <2>2 DEF OldRunsAbandoned, AtPrompt, QuestionsPosted, Askers
  <2>5. w = current => current \in ctrlC \/ Latest(w) \in event
    BY <1>2 DEF TakesAnswer, GivesUp, OldRunsAbandoned
  <2>6. SlotIsWaitedFor'
    BY <2>1, <2>2, <2>5 DEF SlotIsWaitedFor, QuestionsPosted
  <2>7. AnswersFit'
    <3>1. CASE TakesAnswer(w)
      <4>1. Latest(w) \in Questions
        BY <3>1 DEF TakesAnswer, QuestionsPosted, Posted
      <4> QED BY <3>1, <4>1, FitsOn DEF TakesAnswer, Receives, AnswersFit
    <3>2. CASE GivesUp(w)
      <4>1. w \in ctrlC
        BY <3>2, ActiveIsCurrent DEF GivesUp, OldRunsAbandoned
      <4> QED BY <3>2, <4>1, FitsOn DEF GivesUp, Receives, AnswersFit, Fits
    <3> QED BY <1>2, <3>1, <3>2
  <2> QED BY <2>3, <2>4, <2>6, <2>7
<1>3. CASE BeginTool(w) \/ Superseded(w) \/ MayAsk(w) \/ TakeLock(w) \/ AsksOn(w) \/ EndTool(w)
             \/ WorkerEnds(w)
  <2>1. PICK place \in Places : Moves(w, place)
    BY <1>3 DEF BeginTool, Superseded, MayAsk, TakeLock, AsksOn, EndTool, WorkerEnds, Places
  <2>2. asker[w] \notin {"wait", "over"}
    BY <1>3 DEF BeginTool, Superseded, MayAsk, TakeLock, AsksOn, EndTool, WorkerEnds
  <2>3. UNCHANGED <<slotVars, runVars, asked, replyVars, given>>
    BY <1>3 DEF BeginTool, Superseded, MayAsk, TakeLock, AsksOn, EndTool, WorkerEnds
  <2>4. QuestionsPosted'
    BY <2>1, <2>3 DEF QuestionsPosted, Posted, Asking
  <2>5. OldRunsAbandoned'
    BY <2>1, <2>2, <2>3 DEF OldRunsAbandoned, AtPrompt, QuestionsPosted, Askers
  <2>6. SlotIsWaitedFor'
    BY <2>1, <2>2, <2>3 DEF SlotIsWaitedFor, QuestionsPosted
  <2>7. AnswersFit'
    BY <2>3, FitsOn DEF AnswersFit
  <2> QED BY <2>4, <2>5, <2>6, <2>7
<1> QED BY <1>1, <1>2, <1>3 DEF Asks

-----------------------------------------------------------------------------
LEMMA NextTerminalInv == TerminalInv /\ [TerminalNext]_terminalVars => TerminalInv'
<1> SUFFICES ASSUME TerminalInv, [TerminalNext]_terminalVars PROVE TerminalInv'
  OBVIOUS
<1>1. CASE UNCHANGED terminalVars
  BY <1>1 DEF terminalVars, slotVars, runVars, askVars, replyVars, TerminalInv, QuestionsPosted, Posted,
              Asking, OldRunsAbandoned, AtPrompt, SlotIsWaitedFor, Latest, AnswersFit, Fits
<1>2. ASSUME NEW w \in Askers, Asks(w) PROVE TerminalInv'
  BY <1>2, WorkerPreserves
<1> QED BY <1>1, <1>2, MainThreadPreserves DEF TerminalNext

(* The inductive invariant holds in every reachable state.                  *)
THEOREM TerminalInductive == TerminalSpec => []TerminalInv
BY InitTerminalInv, NextTerminalInv, PTL DEF TerminalSpec

(* An asking tool is given the answer to its own question, and none only    *)
(* when the user gave none or cancelled the run.                            *)
THEOREM AnswersGoHome == TerminalSpec => []AnswerGoesToItsQuestion
<1>1. TerminalInv => AnswerGoesToItsQuestion
  BY DEF TerminalInv, AnswersFit, Fits, AnswerGoesToItsQuestion
<1> QED BY <1>1, TerminalInductive, PTL

-----------------------------------------------------------------------------
(* Rows and their lines.                                                   *)
Args == Seq(Nat \X Nat)
Shapes == {"header", "value", "collapsed", "noRoom", "text", "stream"}
Rows == [of : Seq(Nat), lines : Int, shape : Shapes, args : Args]

LEMMA RowIs ==
  ASSUME NEW of \in Seq(Nat), NEW lines \in Int, NEW shape \in Shapes, NEW args \in Args
  PROVE  /\ Row(of, lines, shape, args) \in Rows
         /\ Row(of, lines, shape, args).lines = lines /\ Row(of, lines, shape, args).args = args
         /\ Row(of, lines, shape, args).of = of /\ Row(of, lines, shape, args).shape = shape
BY DEF Row, Rows

(* g adds up the lines of the rows.                                        *)
Sums(g, rows) ==
  /\ g[0] = 0
  /\ \A i \in 1..Len(rows) : g[i] = g[i - 1] + rows[i].lines

LEMMA LinesOf ==
  ASSUME NEW rows \in Seq(Rows), NEW i \in 1..Len(rows)
  PROVE  rows[i] \in Rows /\ rows[i].lines \in Int /\ rows[i].of \in Seq(Nat) /\ rows[i].args \in Args
<1>1. rows[i] \in Rows
  OBVIOUS
<1> QED BY <1>1 DEF Rows

LEMMA LinesSum ==
  ASSUME NEW rows \in Seq(Rows)
  PROVE  \E g \in [0..Len(rows) -> Int] : Sums(g, rows) /\ Lines(rows) = g[Len(rows)]
<1> DEFINE L == Len(rows)
           F == [p \in (1..L) \X Int |-> p[2] + rows[p[1]].lines]
           Run(f) == f = [i \in 0..L |-> IF i = 0 THEN 0 ELSE f[i - 1] + rows[i].lines]
<1>1. L \in Nat
  OBVIOUS
<1>2. F \in [(1..L) \X Int -> Int]
  BY LinesOf
<1>3. \A i \in 1..L : \A x \in Int : F[<<i, x>>] = x + rows[i].lines
  <2> TAKE i \in 1..L, x \in Int
  <2>1. <<i, x>> \in (1..L) \X Int
    OBVIOUS
  <2> QED BY <2>1
<1> HIDE DEF F
<1>4. PICK g \in [0..L -> Int] : Follows(g, L, 0, F)
  <2>1. 0 \in Int
    OBVIOUS
  <2> HIDE DEF L
  <2> QED BY <1>1, <1>2, <2>1, RecursionExists, Zenon
<1>5. \A i \in 1..L : g[i] = g[i - 1] + rows[i].lines
  <2> TAKE i \in 1..L
  <2>1. i - 1 \in 0..L
    BY <1>1
  <2>2. g[i - 1] \in Int
    BY <2>1
  <2> QED BY <1>3, <1>4, <2>2 DEF Follows
<1>6. g[0] = 0
  BY <1>4 DEF Follows
<1>7. Run(g)
  BY <1>5, <1>6
<1> DEFINE h == CHOOSE f : Run(f)
<1>8. Run(h)
  BY <1>7
<1>9. Lines(rows) = h[L]
  BY DEF Lines
<1> HIDE DEF h
<1>10. h[0] = 0 /\ \A i \in 1..L : h[i] = h[i - 1] + rows[i].lines
  BY <1>1, <1>8
<1>11. \A i \in 0..L : i \in {j \in 0..L : h[j] = g[j]}
  <2> DEFINE S == {j \in 0..L : h[j] = g[j]}
  <2>1. 0 \in S
    BY <1>1, <1>6, <1>10
  <2>2. ASSUME NEW i \in 1..L, i - 1 \in S PROVE i \in S
    BY <1>5, <1>10, <2>2
  <2> HIDE DEF S
  <2>3. \A i \in 0..L : i \in S
    BY <1>1, <2>1, <2>2, StepByStep
  <2> QED BY <2>3 DEF S
<1>12. Lines(rows) = g[L]
  BY <1>1, <1>9, <1>11
<1> QED BY <1>5, <1>6, <1>12 DEF Sums

LEMMA LinesAre ==
  ASSUME NEW rows \in Seq(Rows), NEW g, Sums(g, rows)
  PROVE  Lines(rows) = g[Len(rows)]
<1> DEFINE L == Len(rows)
<1>1. L \in Nat
  OBVIOUS
<1>2. PICK h \in [0..L -> Int] : Sums(h, rows) /\ Lines(rows) = h[L]
  BY LinesSum
<1> DEFINE S == {j \in 0..L : h[j] = g[j]}
<1>3. 0 \in S
  BY <1>1, <1>2 DEF Sums
<1>4. ASSUME NEW i \in 1..L, i - 1 \in S PROVE i \in S
  BY <1>2, <1>4 DEF Sums
<1>5. \A i \in 0..L : i \in S
  <2> HIDE DEF S
  <2> QED BY <1>1, <1>3, <1>4, StepByStep
<1> QED BY <1>1, <1>2, <1>5

LEMMA LinesInt ==
  ASSUME NEW rows \in Seq(Rows)
  PROVE  Lines(rows) \in Int
<1>1. PICK g \in [0..Len(rows) -> Int] : Sums(g, rows) /\ Lines(rows) = g[Len(rows)]
  BY LinesSum
<1>2. Len(rows) \in 0..Len(rows)
  OBVIOUS
<1> QED BY <1>1, <1>2

LEMMA LinesOfNone == Lines(<<>>) = 0
<1>1. <<>> \in Seq(Rows) /\ Len(<<>>) = 0
  OBVIOUS
<1>2. PICK g \in [0..Len(<<>>) -> Int] : Sums(g, <<>>) /\ Lines(<<>>) = g[Len(<<>>)]
  BY <1>1, LinesSum
<1> QED BY <1>1, <1>2 DEF Sums

LEMMA LinesAdd ==
  ASSUME NEW a \in Seq(Rows), NEW b \in Seq(Rows)
  PROVE  a \o b \in Seq(Rows) /\ Lines(a \o b) = Lines(a) + Lines(b)
<1> DEFINE A == Len(a)
           B == Len(b)
           c == a \o b
<1>1. A \in Nat /\ B \in Nat /\ c \in Seq(Rows) /\ Len(c) = A + B
      /\ (\A i \in 1..A : c[i] = a[i]) /\ (\A i \in 1..B : c[A + i] = b[i])
  OBVIOUS
<1>2. PICK g \in [0..A -> Int] : Sums(g, a) /\ Lines(a) = g[A]
  BY LinesSum
<1>3. PICK h \in [0..B -> Int] : Sums(h, b) /\ Lines(b) = h[B]
  BY LinesSum
<1> HIDE DEF c, A, B
<1> DEFINE k == [i \in 0..A + B |-> IF i <= A THEN g[i] ELSE g[A] + h[i - A]]
<1>4. \A i \in 1..A + B : k[i] = k[i - 1] + c[i].lines
  <2> TAKE i \in 1..A + B
  <2>1. CASE i <= A
    <3>1. i \in 1..A /\ i \in 0..A + B /\ i - 1 \in 0..A + B /\ i - 1 <= A
      BY <1>1, <2>1
    <3>2. k[i] = g[i] /\ k[i - 1] = g[i - 1]
      BY <2>1, <3>1
    <3> HIDE DEF k
    <3> QED BY <1>1, <1>2, <3>1, <3>2 DEF Sums, A
  <2>2. CASE ~ (i <= A)
    <3>1. i - A \in 1..B /\ i \in 0..A + B /\ i - 1 \in 0..A + B /\ A + (i - A) = i
          /\ i - A - 1 \in 0..B /\ (i - 1) - A = i - A - 1
      BY <1>1, <2>2
    <3>2. k[i] = g[A] + h[i - A]
      BY <2>2, <3>1
    <3>3. k[i - 1] = g[A] + h[i - A - 1]
      <4>1. CASE i - 1 <= A
        <5>1. i - 1 = A /\ i - A - 1 = 0
          BY <1>1, <2>2, <3>1, <4>1
        <5>2. g[A] \in Int
          BY <1>1, <1>2
        <5> QED BY <1>3, <3>1, <4>1, <5>1, <5>2 DEF Sums
      <4>2. CASE ~ (i - 1 <= A)
        BY <3>1, <4>2
      <4> QED BY <4>1, <4>2
    <3> HIDE DEF k
    <3>4. h[i - A] = h[i - A - 1] + b[i - A].lines /\ c[i] = b[i - A]
      BY <1>1, <1>3, <3>1 DEF Sums, B
    <3>5. g[A] \in Int /\ h[i - A - 1] \in Int /\ b[i - A].lines \in Int
      <4>1. A \in 0..A
        BY <1>1
      <4> QED BY <1>2, <1>3, <3>1, <4>1, LinesOf DEF B
    <3> QED BY <3>2, <3>3, <3>4, <3>5
  <2> QED BY <2>1, <2>2
<1>5. k[0] = 0
  BY <1>1, <1>2 DEF Sums
<1>6. k[A + B] = g[A] + h[B]
  <2>1. CASE B = 0
    <3>1. A + B = A /\ A \in 0..A + B
      BY <1>1, <2>1
    <3>2. g[A] \in Int /\ h[B] = 0
      BY <1>1, <1>2, <1>3, <2>1 DEF Sums
    <3> QED BY <1>1, <3>1, <3>2
  <2>2. CASE B # 0
    <3>1. ~ (A + B <= A) /\ A + B \in 0..A + B /\ (A + B) - A = B
      BY <1>1, <2>2
    <3> QED BY <3>1
  <2> QED BY <2>1, <2>2
<1> HIDE DEF k
<1>7. Sums(k, c)
  BY <1>1, <1>4, <1>5 DEF Sums
<1>8. Lines(c) = k[A + B]
  BY <1>1, <1>7, LinesAre
<1> QED BY <1>1, <1>2, <1>3, <1>6, <1>8 DEF c

LEMMA LinesAppend ==
  ASSUME NEW a \in Seq(Rows), NEW r \in Rows
  PROVE  Append(a, r) \in Seq(Rows) /\ Lines(Append(a, r)) = Lines(a) + r.lines
<1>1. <<r>> \in Seq(Rows) /\ Len(<<r>>) = 1 /\ <<r>>[1] = r
  OBVIOUS
<1>2. PICK g \in [0..Len(<<r>>) -> Int] : Sums(g, <<r>>) /\ Lines(<<r>>) = g[Len(<<r>>)]
  BY <1>1, LinesSum
<1>3. g[1] = g[0] + r.lines /\ g[0] = 0 /\ r.lines \in Int
  BY <1>1, <1>2 DEF Sums, Rows
<1>4. Lines(<<r>>) = r.lines
  BY <1>1, <1>2, <1>3
<1>5. Append(a, r) = a \o <<r>>
  OBVIOUS
<1> QED BY <1>1, <1>4, <1>5, LinesAdd

LEMMA LinesOfOne ==
  ASSUME NEW r \in Rows
  PROVE  <<r>> \in Seq(Rows) /\ Lines(<<r>>) = r.lines
<1>1. <<>> \in Seq(Rows) /\ Append(<<>>, r) = <<r>> /\ r.lines \in Int
  BY DEF Rows
<1>2. Append(<<>>, r) \in Seq(Rows) /\ Lines(Append(<<>>, r)) = Lines(<<>>) + r.lines
  BY <1>1, LinesAppend
<1> QED BY <1>1, <1>2, LinesOfNone

-----------------------------------------------------------------------------
(* What holds of every joined beginning holds of the joined sequences.     *)
LEMMA FlattenAlong ==
  ASSUME NEW S, NEW seqs \in Seq(Seq(S)), NEW P, <<0, <<>>>> \in P,
         \A i \in 1..Len(seqs) : \A s \in Seq(S) : <<i - 1, s>> \in P => <<i, s \o seqs[i]>> \in P
  PROVE  FlattenSeq(seqs) \in Seq(S) /\ <<Len(seqs), FlattenSeq(seqs)>> \in P
<1> DEFINE n == Len(seqs)
           Run(f) == f = [i \in 1..n |-> IF i = 1 THEN seqs[i] ELSE f[i - 1] \o seqs[i]]
<1>1. n \in Nat /\ \A i \in 1..n : seqs[i] \in Seq(S)
  OBVIOUS
<1>2. CASE n = 0
  <2>1. FlattenSeq(seqs) = seqs /\ seqs = <<>>
    BY <1>2 DEF FlattenSeq
  <2>2. <<>> \in Seq(S)
    OBVIOUS
  <2> QED BY <1>2, <2>1, <2>2
<1>3. CASE n # 0
  <2> DEFINE F == [p \in (1..n - 1) \X Seq(S) |-> p[2] \o seqs[p[1] + 1]]
  <2>1. n - 1 \in Nat /\ seqs[1] \in Seq(S)
    BY <1>1, <1>3
  <2>2. \A i \in 1..n - 1 : \A x \in Seq(S) : x \o seqs[i + 1] \in Seq(S)
    <3> SUFFICES ASSUME NEW i \in 1..n - 1, NEW x \in Seq(S) PROVE x \o seqs[i + 1] \in Seq(S)
      OBVIOUS
    <3>1. seqs[i + 1] \in Seq(S)
      BY <1>1
    <3> HIDE DEF n
    <3> QED BY <3>1
  <2>3. F \in [(1..n - 1) \X Seq(S) -> Seq(S)]
    <3> HIDE DEF n
    <3> QED BY <2>2
  <2>4. \A i \in 1..n - 1 : \A x \in Seq(S) : F[<<i, x>>] = x \o seqs[i + 1]
    <3> SUFFICES ASSUME NEW i \in 1..n - 1, NEW x \in Seq(S) PROVE F[<<i, x>>] = x \o seqs[i + 1]
      OBVIOUS
    <3>1. <<i, x>> \in (1..n - 1) \X Seq(S)
      OBVIOUS
    <3> QED BY <3>1
  <2> HIDE DEF F
  <2>5. PICK g \in [0..n - 1 -> Seq(S)] : Follows(g, n - 1, seqs[1], F)
    <3> HIDE DEF n
    <3> QED BY <2>1, <2>3, RecursionExists, Zenon
  <2> DEFINE f == [i \in 1..n |-> g[i - 1]]
  <2>6. f = [i \in 1..n |-> IF i = 1 THEN seqs[i] ELSE f[i - 1] \o seqs[i]]
    <3>1. ASSUME NEW i \in 1..n
          PROVE  f[i] = IF i = 1 THEN seqs[i] ELSE f[i - 1] \o seqs[i]
      <4>1. CASE i = 1
        BY <1>1, <2>5, <4>1 DEF Follows
      <4>2. CASE i # 1
        <5>1. i - 1 \in 1..n - 1 /\ i - 1 \in 1..n /\ i - 1 - 1 \in 0..n - 1 /\ (i - 1) + 1 = i
          BY <1>1, <4>2
        <5>2. f[i] = g[i - 1] /\ f[i - 1] = g[i - 1 - 1] /\ g[i - 1 - 1] \in Seq(S)
          BY <5>1
        <5> HIDE DEF f, n
        <5>3. g[i - 1] = F[<<i - 1, g[i - 1 - 1]>>]
          BY <2>5, <5>1 DEF Follows
        <5> QED BY <2>4, <4>2, <5>1, <5>2, <5>3
      <4> QED BY <4>1, <4>2
    <3> DEFINE e(i) == IF i = 1 THEN seqs[i] ELSE f[i - 1] \o seqs[i]
    <3>2. f = [i \in 1..n |-> f[i]]
      OBVIOUS
    <3>3. \A i \in 1..n : f[i] = e(i)
      BY <3>1
    <3> HIDE DEF f, e
    <3>4. f = [i \in 1..n |-> e(i)]
      BY <3>2, <3>3
    <3> QED BY <3>4 DEF e
  <2> HIDE DEF f
  <2> DEFINE h == CHOOSE k : Run(k)
  <2>7. Run(h)
    BY <2>6
  <2>8. FlattenSeq(seqs) = h[n]
    BY <1>3 DEF FlattenSeq
  <2> HIDE DEF h
  <2>9. h[1] = seqs[1] /\ \A i \in 1..n - 1 : h[i + 1] = h[i] \o seqs[i + 1]
    <3>1. \A i \in 1..n : h[i] = IF i = 1 THEN seqs[i] ELSE h[i - 1] \o seqs[i]
      BY <2>7
    <3>2. ASSUME NEW i \in 1..n - 1 PROVE h[i + 1] = h[i] \o seqs[i + 1]
      <4>1. i + 1 \in 1..n /\ i + 1 # 1 /\ (i + 1) - 1 = i
        BY <1>1
      <4> HIDE DEF n
      <4> QED BY <3>1, <4>1
    <3>3. 1 \in 1..n
      BY <1>1, <1>3
    <3> QED BY <3>1, <3>2, <3>3
  <2> DEFINE Good == {i \in 0..n - 1 : h[i + 1] \in Seq(S) /\ <<i + 1, h[i + 1]>> \in P}
  <2>10. 0 \in Good
    <3>1. <<>> \in Seq(S) /\ 1 \in 1..n /\ <<>> \o seqs[1] = seqs[1]
      BY <1>1, <1>3, <2>1
    <3>2. 1 - 1 = 0
      OBVIOUS
    <3>3. <<1, <<>> \o seqs[1]>> \in P
      BY <3>1, <3>2
    <3>4. <<1, h[1]>> \in P /\ h[1] \in Seq(S)
      BY <2>1, <2>9, <3>1, <3>3
    <3>5. 0 \in 0..n - 1 /\ 0 + 1 = 1
      BY <2>1
    <3> HIDE DEF n
    <3> QED BY <3>4, <3>5
  <2>11. ASSUME NEW i \in 1..n - 1, i - 1 \in Good PROVE i \in Good
    <3>1. h[i] \in Seq(S) /\ i \in 0..n - 1 /\ seqs[i + 1] \in Seq(S)
      BY <1>1, <2>11
    <3>2. h[i + 1] = h[i] \o seqs[i + 1]
      BY <2>9
    <3>3. h[i] \o seqs[i + 1] \in Seq(S)
      BY <3>1
    <3>4. <<i, h[i]>> \in P /\ i + 1 \in 1..n /\ (i + 1) - 1 = i
      BY <1>1, <2>11
    <3>5. <<i + 1, h[i] \o seqs[i + 1]>> \in P
      BY <3>1, <3>4
    <3> QED BY <3>1, <3>2, <3>3, <3>5
  <2>12. n - 1 \in Good
    <3> HIDE DEF Good
    <3>1. \A i \in 0..n - 1 : i \in Good
      BY <2>1, <2>10, <2>11, StepByStep
    <3> QED BY <2>1, <3>1
  <2>13. h[n] \in Seq(S) /\ <<n, h[n]>> \in P
    BY <1>1, <2>12
  <2> QED BY <2>8, <2>13
<1> QED BY <1>2, <1>3

LEMMA FlattenIs ==
  ASSUME NEW S, NEW seqs \in Seq(Seq(S))
  PROVE  FlattenSeq(seqs) \in Seq(S)
<1> DEFINE P == Nat \X Seq(S)
<1>1. <<0, <<>>>> \in P
  <2>1. <<>> \in Seq(S)
    OBVIOUS
  <2> QED BY <2>1
<1>2. \A i \in 1..Len(seqs) : \A s \in Seq(S) : <<i - 1, s>> \in P => <<i, s \o seqs[i]>> \in P
  <2> SUFFICES ASSUME NEW i \in 1..Len(seqs), NEW s \in Seq(S) PROVE <<i, s \o seqs[i]>> \in P
    OBVIOUS
  <2>1. i \in Nat /\ seqs[i] \in Seq(S)
    OBVIOUS
  <2>2. s \o seqs[i] \in Seq(S)
    BY <2>1
  <2> QED BY <2>1, <2>2
<1> HIDE DEF P
<1> QED BY <1>1, <1>2, FlattenAlong

-----------------------------------------------------------------------------
(* The rows of an expanded call.                                           *)
Blocks == [rows : Seq(Rows), left : Int]

LEMMA ValueRowIs ==
  ASSUME NEW of \in Seq(Nat), NEW args \in Args, NEW b \in Blocks, NEW i \in 1..Len(args)
  PROVE  /\ ValueRow(of, args, b, i) \in Blocks
         /\ Lines(ValueRow(of, args, b, i).rows) + ValueRow(of, args, b, i).left
              = Lines(b.rows) + b.left
<1> DEFINE part  == b.left \div (Len(args) - i + 1)
           share == Max({1, part})
           least == Min({args[i][2], share})
           cost  == Max({args[i][1], least})
           row   == Row(of, cost, "value", <<>>)
<1>1. b.rows \in Seq(Rows) /\ b.left \in Int
  BY DEF Blocks
<1>2. args[i][1] \in Int /\ args[i][2] \in Int
  <2>1. args[i] \in Nat \X Nat
    BY DEF Args
  <2> QED BY <2>1
<1>3. part \in Int
  <2>1. Len(args) \in Nat
    BY DEF Args
  <2>2. Len(args) - i + 1 \in Nat \ {0}
    BY <2>1
  <2> QED BY <1>1, <2>2
<1> HIDE DEF part
<1>4. share \in Int
  BY <1>3, GreaterOfTwo
<1> HIDE DEF share
<1>5. least \in Int
  BY <1>2, <1>4, LesserOfTwo
<1> HIDE DEF least
<1>6. cost \in Int
  BY <1>2, <1>5, GreaterOfTwo
<1>7. ValueRow(of, args, b, i) = [rows |-> Append(b.rows, row), left |-> b.left - cost]
  BY DEF ValueRow, part, share, least
<1> HIDE DEF cost
<1>8. row \in Rows /\ row.lines = cost
  <2>1. <<>> \in Args
    BY DEF Args
  <2>2. "value" \in Shapes
    BY DEF Shapes
  <2> QED BY <1>6, <2>1, <2>2, RowIs
<1> HIDE DEF row
<1>9. Append(b.rows, row) \in Seq(Rows) /\ Lines(Append(b.rows, row)) = Lines(b.rows) + cost
  BY <1>1, <1>8, LinesAppend
<1>10. Lines(b.rows) \in Int
  BY <1>1, LinesInt
<1>11. ValueRow(of, args, b, i).rows = Append(b.rows, row)
       /\ ValueRow(of, args, b, i).left = b.left - cost
  BY <1>7
<1>12. ValueRow(of, args, b, i) \in Blocks
  BY <1>1, <1>6, <1>7, <1>9 DEF Blocks
<1> QED BY <1>1, <1>6, <1>9, <1>10, <1>11, <1>12

LEMMA ExpandedAlong ==
  ASSUME NEW of \in Seq(Nat), NEW args \in Args, NEW lines \in Int, NEW P,
         <<0, [rows |-> <<Row(of, 1, "header", args)>>, left |-> lines - 1]>> \in P,
         \A i \in 1..Len(args) : \A b \in Blocks :
           <<i - 1, b>> \in P => <<i, ValueRow(of, args, b, i)>> \in P
  PROVE  \E b \in Blocks :
           /\ <<Len(args), b>> \in P
           /\ ExpandedRows(of, args, lines)
                = IF lines - 1 < Len(args) \/ b.left < 0 THEN <<>> ELSE b.rows
<1> DEFINE L == Len(args)
           header == Row(of, 1, "header", args)
           first == [rows |-> <<header>>, left |-> lines - 1]
           F == [p \in (1..L) \X Blocks |-> ValueRow(of, args, p[2], p[1])]
           Run(f) == f = [i \in 0..L |-> IF i = 0 THEN first ELSE ValueRow(of, args, f[i - 1], i)]
<1>1. L \in Nat
  BY DEF Args
<1>2. first \in Blocks /\ <<0, first>> \in P
  <2>1. header \in Rows
    <3>1. "header" \in Shapes
      BY DEF Shapes
    <3> QED BY <3>1, RowIs
  <2>2. <<0, first>> \in P
    OBVIOUS
  <2> HIDE DEF header
  <2>3. <<header>> \in Seq(Rows)
    BY <2>1
  <2> QED BY <2>2, <2>3 DEF Blocks
<1>3. \A i \in 1..L : \A b \in Blocks :
        ValueRow(of, args, b, i) \in Blocks /\ (<<i - 1, b>> \in P => <<i, ValueRow(of, args, b, i)>> \in P)
  BY ValueRowIs
<1> HIDE DEF first
<1>4. F \in [(1..L) \X Blocks -> Blocks]
  BY <1>3
<1>5. \A i \in 1..L : \A b \in Blocks : F[<<i, b>>] = ValueRow(of, args, b, i)
  <2> SUFFICES ASSUME NEW i \in 1..L, NEW b \in Blocks PROVE F[<<i, b>>] = ValueRow(of, args, b, i)
    OBVIOUS
  <2>1. <<i, b>> \in (1..L) \X Blocks
    OBVIOUS
  <2> QED BY <2>1
<1> HIDE DEF F
<1>6. PICK g \in [0..L -> Blocks] : Follows(g, L, first, F)
  <2> HIDE DEF L
  <2> QED BY <1>1, <1>2, <1>4, RecursionExists, Zenon
<1>7. \A i \in 1..L : g[i] = ValueRow(of, args, g[i - 1], i)
  <2> SUFFICES ASSUME NEW i \in 1..L PROVE g[i] = ValueRow(of, args, g[i - 1], i)
    OBVIOUS
  <2>1. i - 1 \in 0..L
    BY <1>1
  <2> HIDE DEF L
  <2>2. g[i - 1] \in Blocks
    BY <2>1
  <2> QED BY <1>5, <1>6, <2>2 DEF Follows
<1>8. Run(g)
  BY <1>6, <1>7 DEF Follows
<1> DEFINE h == CHOOSE f : Run(f)
<1>9. Run(h)
  BY <1>8
<1>10. ExpandedRows(of, args, lines)
         = IF lines - 1 < L \/ h[L].left < 0 THEN <<>> ELSE h[L].rows
  BY DEF ExpandedRows, first
<1> HIDE DEF h
<1>11. h[0] = first /\ \A i \in 1..L : h[i] = ValueRow(of, args, h[i - 1], i)
  <2>1. \A i \in 0..L : h[i] = IF i = 0 THEN first ELSE ValueRow(of, args, h[i - 1], i)
    BY <1>9, Zenon
  <2>2. 0 \in 0..L /\ \A i \in 1..L : i \in 0..L /\ i # 0
    BY <1>1
  <2> QED BY <2>1, <2>2, Zenon
<1> HIDE DEF Run
<1> DEFINE Good == {i \in 0..L : h[i] \in Blocks /\ <<i, h[i]>> \in P}
<1>12. 0 \in Good
  <2>1. 0 \in 0..L
    BY <1>1
  <2> QED BY <1>2, <1>11, <2>1, Zenon
<1>13. ASSUME NEW i \in 1..L, i - 1 \in Good PROVE i \in Good
  <2> HIDE DEF L
  <2>1. h[i - 1] \in Blocks /\ <<i - 1, h[i - 1]>> \in P
    BY <1>13
  <2> QED BY <1>1, <1>3, <1>11, <2>1
<1>14. L \in Good
  <2> HIDE DEF Good, L
  <2>1. \A i \in 0..L : i \in Good
    BY <1>1, <1>12, <1>13, StepByStep
  <2>2. L \in 0..L
    BY <1>1
  <2> QED BY <2>1, <2>2
<1> QED BY <1>10, <1>14

(* They take no more lines than they were given.                           *)
LEMMA ExpandedRowsFit ==
  ASSUME NEW of \in Seq(Nat), NEW args \in Args, NEW lines \in Int
  PROVE  /\ ExpandedRows(of, args, lines) \in Seq(Rows)
         /\ ExpandedRows(of, args, lines) # <<>> => Lines(ExpandedRows(of, args, lines)) <= lines
<1> DEFINE P == {p \in Nat \X Blocks : Lines(p[2].rows) + p[2].left = lines}
           header == Row(of, 1, "header", args)
           first == [rows |-> <<header>>, left |-> lines - 1]
<1>1. <<0, first>> \in P
  <2>1. header \in Rows /\ header.lines = 1
    <3>1. "header" \in Shapes
      BY DEF Shapes
    <3> QED BY <3>1, RowIs
  <2>2. <<header>> \in Seq(Rows) /\ Lines(<<header>>) = 1
    BY <2>1, LinesOfOne
  <2> HIDE DEF header
  <2>3. first \in Blocks /\ first.rows = <<header>> /\ first.left = lines - 1
    BY <2>2 DEF Blocks
  <2> HIDE DEF first
  <2> QED BY <2>2, <2>3
<1>2. \A i \in 1..Len(args) : \A b \in Blocks : <<i - 1, b>> \in P => <<i, ValueRow(of, args, b, i)>> \in P
  <2> SUFFICES ASSUME NEW i \in 1..Len(args), NEW b \in Blocks, <<i - 1, b>> \in P
               PROVE  <<i, ValueRow(of, args, b, i)>> \in P
    OBVIOUS
  <2> DEFINE c == ValueRow(of, args, b, i)
  <2>1. c \in Blocks /\ Lines(c.rows) + c.left = Lines(b.rows) + b.left
    BY ValueRowIs
  <2>2. Lines(b.rows) + b.left = lines /\ i \in Nat
    BY DEF Args
  <2> HIDE DEF c
  <2>3. <<i, c>> \in P
    BY <2>1, <2>2
  <2> QED BY <2>3 DEF c
<1>3. PICK b \in Blocks :
        /\ <<Len(args), b>> \in P
        /\ ExpandedRows(of, args, lines)
             = IF lines - 1 < Len(args) \/ b.left < 0 THEN <<>> ELSE b.rows
  <2> HIDE DEF P
  <2> QED BY <1>1, <1>2, ExpandedAlong
<1>4. b.rows \in Seq(Rows) /\ b.left \in Int /\ Lines(b.rows) + b.left = lines
  BY <1>3 DEF Blocks
<1>5. Lines(b.rows) \in Int /\ (~ (b.left < 0) => Lines(b.rows) <= lines)
  BY <1>4, LinesInt
<1>6. <<>> \in Seq(Rows)
  OBVIOUS
<1>7. CASE lines - 1 < Len(args) \/ b.left < 0
  BY <1>3, <1>6, <1>7
<1>8. CASE ~ (lines - 1 < Len(args) \/ b.left < 0)
  BY <1>3, <1>4, <1>5, <1>8
<1> QED BY <1>7, <1>8

-----------------------------------------------------------------------------
(* The units of a sequence of rows.                                        *)
RowUnit == Seq(Rows) \ {<<>>}

LEMMA JoinUnitIs ==
  ASSUME NEW units \in Seq(RowUnit), NEW r \in Rows
  PROVE  JoinUnit(units, r) \in Seq(RowUnit)
<1>1. CASE units # <<>> /\ Last(units)[1].of = r.of
  <2>1. Len(units) \in 1..Len(units) /\ Last(units) \in RowUnit
    BY <1>1 DEF Last
  <2>2. Front(units) \in Seq(RowUnit)
    BY <2>1 DEF Front
  <2>3. Append(Last(units), r) \in RowUnit
    BY <2>1 DEF RowUnit
  <2> QED BY <1>1, <2>2, <2>3 DEF JoinUnit
<1>2. CASE ~ (units # <<>> /\ Last(units)[1].of = r.of)
  <2>1. <<r>> \in RowUnit
    BY DEF RowUnit
  <2> QED BY <1>2, <2>1 DEF JoinUnit
<1> QED BY <1>1, <1>2

LEMMA UnitsAlong ==
  ASSUME NEW rows \in Seq(Rows), NEW P, <<0, <<>>>> \in P,
         \A i \in 1..Len(rows) : \A u \in Seq(RowUnit) :
           <<i - 1, u>> \in P => <<i, JoinUnit(u, rows[i])>> \in P
  PROVE  Units(rows) \in Seq(RowUnit) /\ <<Len(rows), Units(rows)>> \in P
<1> DEFINE L == Len(rows)
           S == Seq(RowUnit)
           F == [p \in (1..L) \X S |-> JoinUnit(p[2], rows[p[1]])]
           Run(f) == f = [i \in 0..L |-> IF i = 0 THEN <<>> ELSE JoinUnit(f[i - 1], rows[i])]
<1>1. L \in Nat /\ <<>> \in S
  OBVIOUS
<1>2. \A i \in 1..L : \A u \in S : JoinUnit(u, rows[i]) \in S
  <2> SUFFICES ASSUME NEW i \in 1..L, NEW u \in S PROVE JoinUnit(u, rows[i]) \in S
    OBVIOUS
  <2>1. rows[i] \in Rows
    OBVIOUS
  <2> QED BY <2>1, JoinUnitIs
<1>14. \A i \in 1..L : \A u \in S : <<i - 1, u>> \in P => <<i, JoinUnit(u, rows[i])>> \in P
  OBVIOUS
<1> HIDE DEF S
<1>3. F \in [(1..L) \X S -> S]
  BY <1>2
<1>4. \A i \in 1..L : \A u \in S : F[<<i, u>>] = JoinUnit(u, rows[i])
  <2> SUFFICES ASSUME NEW i \in 1..L, NEW u \in S PROVE F[<<i, u>>] = JoinUnit(u, rows[i])
    OBVIOUS
  <2>1. <<i, u>> \in (1..L) \X S
    OBVIOUS
  <2> QED BY <2>1
<1> HIDE DEF F
<1>5. PICK g \in [0..L -> S] : Follows(g, L, <<>>, F)
  <2> HIDE DEF L
  <2> QED BY <1>1, <1>3, RecursionExists, Zenon
<1>6. \A i \in 1..L : g[i] = JoinUnit(g[i - 1], rows[i])
  <2> SUFFICES ASSUME NEW i \in 1..L PROVE g[i] = JoinUnit(g[i - 1], rows[i])
    OBVIOUS
  <2>1. i - 1 \in 0..L
    BY <1>1
  <2> HIDE DEF L
  <2>2. g[i - 1] \in S
    BY <2>1
  <2> QED BY <1>4, <1>5, <2>2 DEF Follows
<1>7. Run(g)
  BY <1>5, <1>6 DEF Follows
<1> DEFINE h == CHOOSE f : Run(f)
<1>8. Run(h)
  BY <1>7
<1>9. Units(rows) = h[L]
  BY DEF Units
<1> HIDE DEF h
<1>10. h[0] = <<>> /\ \A i \in 1..L : h[i] = JoinUnit(h[i - 1], rows[i])
  BY <1>1, <1>8
<1> HIDE DEF Run
<1> DEFINE Good == {i \in 0..L : h[i] \in S /\ <<i, h[i]>> \in P}
<1>11. 0 \in Good
  BY <1>1, <1>10
<1>12. ASSUME NEW i \in 1..L, i - 1 \in Good PROVE i \in Good
  <2> HIDE DEF L
  <2>1. h[i - 1] \in S /\ <<i - 1, h[i - 1]>> \in P
    BY <1>12
  <2> QED BY <1>1, <1>2, <1>10, <1>14, <2>1
<1>13. L \in Good
  <2> HIDE DEF Good, L
  <2>1. \A i \in 0..L : i \in Good
    BY <1>1, <1>11, <1>12, StepByStep
  <2>2. L \in 0..L
    BY <1>1
  <2> QED BY <2>1, <2>2
<1> QED BY <1>9, <1>13 DEF S

LEMMA UnitsAre ==
  ASSUME NEW rows \in Seq(Rows)
  PROVE  Units(rows) \in Seq(RowUnit)
<1> DEFINE P == Nat \X Seq(RowUnit)
<1>1. <<0, <<>>>> \in P
  <2>1. <<>> \in Seq(RowUnit)
    OBVIOUS
  <2> QED BY <2>1
<1>2. \A i \in 1..Len(rows) : \A u \in Seq(RowUnit) :
        <<i - 1, u>> \in P => <<i, JoinUnit(u, rows[i])>> \in P
  <2> SUFFICES ASSUME NEW i \in 1..Len(rows), NEW u \in Seq(RowUnit)
               PROVE  <<i, JoinUnit(u, rows[i])>> \in P
    OBVIOUS
  <2>1. rows[i] \in Rows /\ i \in Nat
    OBVIOUS
  <2>2. JoinUnit(u, rows[i]) \in Seq(RowUnit)
    BY <2>1, JoinUnitIs
  <2> QED BY <2>1, <2>2
<1> HIDE DEF P
<1> QED BY <1>1, <1>2, UnitsAlong

(* A unit is made to fit, or left out.                                     *)
LEMMA FittedFits ==
  ASSUME NEW unit \in RowUnit, NEW budget \in Int
  PROVE  /\ Fitted(unit, budget) \in Seq(Rows)
         /\ Fitted(unit, budget) # <<>> => Lines(Fitted(unit, budget)) <= budget
<1>1. unit \in Seq(Rows) /\ Len(unit) >= 1
  BY DEF RowUnit
<1>2. unit[1].of \in Seq(Nat) /\ unit[1].args \in Args
  BY <1>1, LinesOf
<1> DEFINE refit == ExpandedRows(unit[1].of, unit[1].args, budget)
           standin == Row(unit[1].of, 1, "noRoom", unit[1].args)
<1>3. refit \in Seq(Rows) /\ (refit # <<>> => Lines(refit) <= budget)
  BY <1>2, ExpandedRowsFit
<1>4. <<standin>> \in Seq(Rows) /\ Lines(<<standin>>) = 1
  <2>1. "noRoom" \in Shapes
    BY DEF Shapes
  <2>2. standin \in Rows /\ standin.lines = 1
    BY <1>2, <2>1, RowIs
  <2> HIDE DEF standin
  <2> QED BY <2>2, LinesOfOne
<1>5. Fitted(unit, budget) =
        IF Lines(unit) <= budget THEN unit
        ELSE IF unit[1].shape # "header" \/ budget <= 0 THEN <<>>
        ELSE IF refit # <<>> THEN refit ELSE <<standin>>
  BY DEF Fitted
<1> HIDE DEF refit, standin
<1>6. <<>> \in Seq(Rows)
  OBVIOUS
<1>7. CASE Lines(unit) <= budget
  BY <1>1, <1>5, <1>7
<1>8. CASE ~ (Lines(unit) <= budget) /\ (unit[1].shape # "header" \/ budget <= 0)
  BY <1>5, <1>6, <1>8
<1>9. CASE ~ (Lines(unit) <= budget) /\ ~ (unit[1].shape # "header" \/ budget <= 0)
  <2>1. 1 <= budget
    BY <1>9
  <2>2. CASE refit # <<>>
    BY <1>3, <1>5, <1>9, <2>2
  <2>3. CASE refit = <<>>
    BY <1>4, <1>5, <1>9, <2>1, <2>3
  <2> QED BY <2>2, <2>3
<1> QED BY <1>7, <1>8, <1>9

-----------------------------------------------------------------------------
(* The lines there are for rows.                                           *)
Screens == [height : Heights, status : 1..2, todos : {0, 2}]

LEMMA CapIs ==
  ASSUME NEW s \in Screens
  PROVE  /\ s.height \in Nat /\ s.status \in 1..2 /\ TodoLines(s) \in Nat
         /\ VisibleRowCap(s) \in Nat \ {0}
         /\ s.height > s.status + 1 + TodoLines(s)
              => VisibleRowCap(s) = s.height - (s.status + 1 + TodoLines(s))
<1>1. s.height \in Nat /\ s.status \in 1..2 /\ s.todos \in {0, 2}
  BY PanelAssumption DEF Screens
<1>2. TodoLines(s) \in Nat
  <2>1. Min({s.todos, 8}) \in Nat
    BY <1>1, LesserOfTwo
  <2> QED BY <2>1 DEF TodoLines
<1> DEFINE room == s.height - (s.status + 1 + TodoLines(s))
<1>3. room \in Int
  BY <1>1, <1>2
<1>4. VisibleRowCap(s) = Max({1, room})
  BY DEF VisibleRowCap
<1> HIDE DEF room
<1>5. VisibleRowCap(s) = IF 1 <= room THEN room ELSE 1
  BY <1>3, <1>4, GreaterOfTwo
<1>6. VisibleRowCap(s) \in Nat \ {0} /\ (1 <= room => VisibleRowCap(s) = room)
  BY <1>3, <1>5
<1> QED BY <1>1, <1>2, <1>6 DEF room

(* What is kept, unit by unit, from the newest on.                         *)
LEMMA KeptAlong ==
  ASSUME screen \in Screens, NEW units \in Seq(RowUnit), NEW P, <<0, <<>>>> \in P,
         \A n \in 1..Len(units) : \A k \in Seq(Rows) :
           <<n - 1, k>> \in P => <<n, KeepUnit(units[Len(units) - n + 1], k)>> \in P,
         NEW rows, Units(rows) = units
  PROVE  ApplyBudget(rows) \in Seq(Rows) /\ <<Len(units), ApplyBudget(rows)>> \in P
<1> DEFINE L == Len(units)
           S == Seq(Rows)
           F == [p \in (1..L) \X S |-> KeepUnit(units[L - p[1] + 1], p[2])]
           Run(f) == f = [n \in 0..L |-> IF n = 0 THEN <<>> ELSE KeepUnit(units[L - n + 1], f[n - 1])]
<1>1. L \in Nat /\ <<>> \in S
  OBVIOUS
<1>2. \A n \in 1..L : \A k \in S : KeepUnit(units[L - n + 1], k) \in S
  <2> SUFFICES ASSUME NEW n \in 1..L, NEW k \in S PROVE KeepUnit(units[L - n + 1], k) \in S
    OBVIOUS
  <2> DEFINE u == units[L - n + 1]
             budget == VisibleRowCap(screen) - Lines(k)
  <2>1. L - n + 1 \in 1..L
    BY <1>1
  <2>2. u \in RowUnit
    BY <2>1
  <2>3. budget \in Int
    BY CapIs, LinesInt
  <2> HIDE DEF budget
  <2>4. Fitted(u, budget) \in Seq(Rows)
    BY <2>2, <2>3, FittedFits
  <2> QED BY <2>4 DEF KeepUnit, budget
<1>3. \A n \in 1..L : \A k \in S : <<n - 1, k>> \in P => <<n, KeepUnit(units[L - n + 1], k)>> \in P
  OBVIOUS
<1>4. ApplyBudget(rows) = (CHOOSE f : Run(f))[L]
  BY DEF ApplyBudget
<1> HIDE DEF S, L
<1>6. F \in [(1..L) \X S -> S]
  BY <1>2
<1>7. \A n \in 1..L : \A k \in S : F[<<n, k>>] = KeepUnit(units[L - n + 1], k)
  <2> SUFFICES ASSUME NEW n \in 1..L, NEW k \in S
               PROVE  F[<<n, k>>] = KeepUnit(units[L - n + 1], k)
    OBVIOUS
  <2>1. <<n, k>> \in (1..L) \X S
    OBVIOUS
  <2> QED BY <2>1
<1> HIDE DEF F
<1>8. PICK g \in [0..L -> S] : Follows(g, L, <<>>, F)
  BY <1>1, <1>6, RecursionExists, Zenon
<1>9. \A n \in 1..L : g[n] = KeepUnit(units[L - n + 1], g[n - 1])
  <2> SUFFICES ASSUME NEW n \in 1..L PROVE g[n] = KeepUnit(units[L - n + 1], g[n - 1])
    OBVIOUS
  <2>1. n - 1 \in 0..L
    BY <1>1
  <2>2. g[n - 1] \in S
    BY <2>1
  <2> QED BY <1>7, <1>8, <2>2 DEF Follows
<1>10. Run(g)
  BY <1>8, <1>9 DEF Follows
<1> DEFINE h == CHOOSE f : Run(f)
<1>11. Run(h)
  BY <1>10
<1>12. ApplyBudget(rows) = h[L]
  BY <1>4
<1> HIDE DEF h
<1>13. h[0] = <<>> /\ \A n \in 1..L : h[n] = KeepUnit(units[L - n + 1], h[n - 1])
  BY <1>1, <1>11
<1> HIDE DEF Run
<1> DEFINE Good == {n \in 0..L : h[n] \in S /\ <<n, h[n]>> \in P}
<1>14. 0 \in Good
  BY <1>1, <1>13
<1>15. ASSUME NEW n \in 1..L, n - 1 \in Good PROVE n \in Good
  <2>1. h[n - 1] \in S /\ <<n - 1, h[n - 1]>> \in P
    BY <1>15
  <2> QED BY <1>1, <1>2, <1>3, <1>13, <2>1
<1>16. L \in Good
  <2> HIDE DEF Good
  <2>1. \A n \in 0..L : n \in Good
    BY <1>1, <1>14, <1>15, StepByStep
  <2>2. L \in 0..L
    BY <1>1
  <2> QED BY <2>1, <2>2
<1> QED BY <1>12, <1>16 DEF S, L

(* What is kept fits.                                                      *)
LEMMA KeptRowsFit ==
  ASSUME screen \in Screens, NEW rows \in Seq(Rows)
  PROVE  ApplyBudget(rows) \in Seq(Rows) /\ Lines(ApplyBudget(rows)) <= VisibleRowCap(screen)
<1> DEFINE cap == VisibleRowCap(screen)
           units == Units(rows)
           P == {p \in Nat \X Seq(Rows) : Lines(p[2]) <= cap}
<1>1. cap \in Nat \ {0}
  BY CapIs
<1>2. units \in Seq(RowUnit)
  BY UnitsAre
<1> HIDE DEF units
<1>3. <<0, <<>>>> \in P
  <2> HIDE DEF cap
  <2>1. <<>> \in Seq(Rows) /\ 0 \in Nat
    OBVIOUS
  <2>2. \A k \in Seq(Rows) : Lines(k) <= cap => <<0, k>> \in P
    OBVIOUS
  <2> HIDE DEF P
  <2>3. Lines(<<>>) <= cap
    BY <1>1, LinesOfNone
  <2> QED BY <2>1, <2>2, <2>3, Zenon
<1>4. \A n \in 1..Len(units) : \A k \in Seq(Rows) :
        <<n - 1, k>> \in P => <<n, KeepUnit(units[Len(units) - n + 1], k)>> \in P
  <2> SUFFICES ASSUME NEW n \in 1..Len(units), NEW k \in Seq(Rows), <<n - 1, k>> \in P
               PROVE  <<n, KeepUnit(units[Len(units) - n + 1], k)>> \in P
    OBVIOUS
  <2> DEFINE u == units[Len(units) - n + 1]
             fitted == Fitted(u, cap - Lines(k))
  <2>1. Len(units) - n + 1 \in 1..Len(units) /\ n \in Nat
    BY <1>2
  <2>2. u \in RowUnit
    BY <1>2, <2>1
  <2>3. Lines(k) <= cap /\ Lines(k) \in Int
    BY LinesInt
  <2> HIDE DEF P, u, cap
  <2>4. cap - Lines(k) \in Int
    BY <1>1, <2>3
  <2>5. fitted \in Seq(Rows) /\ (fitted # <<>> => Lines(fitted) <= cap - Lines(k))
    BY <2>2, <2>4, FittedFits
  <2>6. KeepUnit(u, k) = fitted \o k
    BY DEF KeepUnit, cap
  <2> HIDE DEF fitted
  <2>7. fitted \o k \in Seq(Rows) /\ Lines(fitted \o k) = Lines(fitted) + Lines(k) /\ Lines(fitted) \in Int
    BY <2>3, <2>5, LinesAdd, LinesInt
  <2>8. Lines(fitted) + Lines(k) <= cap
    <3>1. CASE fitted = <<>>
      BY <2>3, <3>1, LinesOfNone
    <3>2. CASE fitted # <<>>
      BY <1>1, <2>3, <2>5, <2>7, <3>2
    <3> QED BY <3>1, <3>2
  <2>9. <<n, fitted \o k>> \in P
    BY <2>1, <2>7, <2>8 DEF P
  <2> QED BY <2>6, <2>9 DEF u
<1>5. ApplyBudget(rows) \in Seq(Rows) /\ <<Len(units), ApplyBudget(rows)>> \in P
  <2> HIDE DEF P
  <2>1. Units(rows) = units
    BY DEF units
  <2> QED BY <1>2, <1>3, <1>4, <2>1, KeptAlong
<1> QED BY <1>5

-----------------------------------------------------------------------------
(* The rows of the conversation are rows.                                  *)
ShownMessages == [id : Nat, injected : BOOLEAN, lines : Nat, calls : Seq(Args), printed : Nat]
Streams == Replies \cup {NoReply}

LEMMA SomeShapes == {"header", "value", "collapsed", "noRoom", "text", "stream"} \subseteq Shapes
BY DEF Shapes

LEMMA WrappedIs ==
  ASSUME NEW cells \in Int
  PROVE  Wrapped(cells) \in Int
<1> DEFINE lines == (cells + Width - 1) \div Width
<1>1. lines \in Int
  BY PanelAssumption
<1>2. Wrapped(cells) = Max({1, lines})
  BY DEF Wrapped
<1> HIDE DEF lines
<1> QED BY <1>1, <1>2, GreaterOfTwo

LEMMA StreamRowIs ==
  ASSUME stream \in Streams, NEW lines \in Int
  PROVE  StreamRow(lines) \in Seq(Rows)
<1> DEFINE n     == Min({stream.lines, lines})
           cut   == stream.lines > lines
           cells == n * (stream.cells + 1) - 1 + IF cut THEN 2 ELSE 0
           full  == (lines * Width) \div (stream.cells + 1)
           part  == (lines * Width) % (stream.cells + 1)
           height == IF cells > lines * Width
                     THEN Wrapped(Prefix + 1 + part) + full * Wrapped(stream.cells)
                     ELSE IF cut THEN Wrapped(Prefix + 1) + n * Wrapped(stream.cells)
                     ELSE Wrapped(Prefix + stream.cells) + (n - 1) * Wrapped(stream.cells)
<1>1. stream.lines \in Nat /\ stream.cells \in Nat
  BY ShownAssumption DEF Streams, NoReply
<1>2. n \in Int
  BY <1>1, LesserOfTwo
<1>3. lines * Width \in Int /\ stream.cells + 1 \in Nat \ {0}
  BY <1>1, PanelAssumption
<1>4. full \in Int /\ part \in Int
  BY <1>3
<1>5. /\ Wrapped(Prefix + 1 + part) \in Int /\ Wrapped(stream.cells) \in Int
      /\ Wrapped(Prefix + 1) \in Int /\ Wrapped(Prefix + stream.cells) \in Int
  <2> HIDE DEF part
  <2>1. Prefix + 1 + part \in Int /\ Prefix + 1 \in Int /\ Prefix + stream.cells \in Int
    BY <1>1, <1>4 DEF Prefix
  <2> QED BY <1>1, <2>1, WrappedIs
<1> HIDE DEF n, cut, cells, full, part
<1>6. height \in Int
  <2>1. full * Wrapped(stream.cells) \in Int /\ n * Wrapped(stream.cells) \in Int
        /\ (n - 1) * Wrapped(stream.cells) \in Int
    BY <1>2, <1>4, <1>5
  <2> QED BY <1>5, <2>1
<1>7. StreamRow(lines) = IF stream = NoReply THEN <<>> ELSE <<Row(<<0>>, height, "stream", <<>>)>>
  BY DEF StreamRow, n, cut, cells, full, part
<1> HIDE DEF height
<1>8. Row(<<0>>, height, "stream", <<>>) \in Rows
  <2>1. <<0>> \in Seq(Nat) /\ <<>> \in Args /\ "stream" \in Shapes
    BY SomeShapes DEF Args
  <2> QED BY <1>6, <2>1, RowIs
<1>9. <<>> \in Seq(Rows) /\ <<Row(<<0>>, height, "stream", <<>>)>> \in Seq(Rows)
  BY <1>8
<1> QED BY <1>7, <1>9

LEMMA RenderedFits ==
  ASSUME screen \in Screens, stream \in Streams, NEW rows \in Seq(Rows)
  PROVE  /\ RenderConversation(rows) \in Seq(Rows)
         /\ Lines(RenderConversation(rows)) <= VisibleRowCap(screen)
<1> DEFINE cap == VisibleRowCap(screen)
           most == Max({3, cap - 3})
           third == Max({3, cap \div 3})
<1>1. cap \in Nat \ {0}
  BY CapIs
<1> HIDE DEF cap
<1>2. most \in Int /\ third \in Int
  <2>1. cap - 3 \in Int /\ cap \div 3 \in Int
    BY <1>1
  <2> QED BY <2>1, GreaterOfTwo
<1> HIDE DEF most, third
<1>3. rows \o StreamRow(most) \in Seq(Rows) /\ rows \o StreamRow(third) \in Seq(Rows)
  BY <1>2, StreamRowIs
<1> DEFINE kept == ApplyBudget(rows \o StreamRow(most))
           yielded == ApplyBudget(rows \o StreamRow(third))
<1>4. /\ kept \in Seq(Rows) /\ Lines(kept) <= VisibleRowCap(screen)
      /\ yielded \in Seq(Rows) /\ Lines(yielded) <= VisibleRowCap(screen)
  BY <1>3, KeptRowsFit
<1>5. RenderConversation(rows) \in {kept, yielded}
  BY DEF RenderConversation, most, third, cap
<1> HIDE DEF kept, yielded
<1> QED BY <1>4, <1>5

-----------------------------------------------------------------------------
(* Rows of one call in a sequence of rows: where they are, and that they   *)
(* stay whole when other rows come before or after them.                   *)
Only(rows, ofs) == \A i \in 1..Len(rows) : rows[i].of \in ofs
Together(rows) ==
  \A i, j \in 1..Len(rows) : rows[i].of = rows[j].of => \A k \in i..j : rows[k].of = rows[i].of
Wanted(r, requests) == r.of \in requests /\ (r.args # <<>> \/ r.shape = "value")
Tidy(rows, requests) ==
  /\ Together(rows)
  /\ \A i \in 1..Len(rows) : Wanted(rows[i], requests) => Whole(rows, rows[i].of)
  /\ \A i \in 1..Len(rows) : rows[i].shape = "noRoom" => rows[i].lines = 1

LEMMA AtJoined ==
  ASSUME NEW a \in Seq(Rows), NEW b \in Seq(Rows), NEW of
  PROVE  /\ At(b, of) = {} => At(a \o b, of) = At(a, of)
         /\ At(a, of) = {} => At(a \o b, of) = {Len(a) + k : k \in At(b, of)}
<1> DEFINE A == Len(a)
           B == Len(b)
           c == a \o b
<1>1. A \in Nat /\ B \in Nat /\ Len(c) = A + B
      /\ (\A i \in 1..A : c[i] = a[i]) /\ (\A i \in 1..B : c[A + i] = b[i])
  OBVIOUS
<1> HIDE DEF c, A, B
<1>2. ASSUME NEW i \in 1..A + B PROVE i \in 1..A \/ (i - A \in 1..B /\ A + (i - A) = i)
  BY <1>1
<1>3. /\ At(a, of) = {i \in 1..A : a[i].of = of} /\ At(b, of) = {i \in 1..B : b[i].of = of}
      /\ At(c, of) = {i \in 1..A + B : c[i].of = of}
  BY <1>1 DEF At, A, B
<1>4. ASSUME At(b, of) = {} PROVE At(c, of) = At(a, of)
  <2>1. ASSUME NEW i \in At(c, of) PROVE i \in At(a, of)
    <3>1. i \in 1..A + B /\ c[i].of = of
      BY <1>3
    <3>2. CASE i \in 1..A
      BY <1>1, <1>3, <3>1, <3>2
    <3>3. CASE i - A \in 1..B /\ A + (i - A) = i
      <4>1. c[i] = b[i - A]
        BY <1>1, <3>3
      <4> QED BY <1>3, <1>4, <3>1, <3>3, <4>1
    <3> QED BY <1>2, <3>1, <3>2, <3>3
  <2>2. ASSUME NEW i \in At(a, of) PROVE i \in At(c, of)
    <3>1. i \in 1..A /\ a[i].of = of /\ i \in 1..A + B
      BY <1>1, <1>3
    <3> QED BY <1>1, <1>3, <3>1
  <2> QED BY <2>1, <2>2
<1>5. ASSUME At(a, of) = {} PROVE At(c, of) = {A + k : k \in At(b, of)}
  <2>1. ASSUME NEW i \in At(c, of) PROVE i \in {A + k : k \in At(b, of)}
    <3>1. i \in 1..A + B /\ c[i].of = of
      BY <1>3
    <3>2. CASE i \in 1..A
      BY <1>1, <1>3, <1>5, <3>1, <3>2
    <3>3. CASE i - A \in 1..B /\ A + (i - A) = i
      <4>1. c[i] = b[i - A]
        BY <1>1, <3>3
      <4>2. i - A \in At(b, of)
        BY <1>3, <3>1, <3>3, <4>1
      <4> QED BY <3>3, <4>2
    <3> QED BY <1>2, <3>1, <3>2, <3>3
  <2>2. ASSUME NEW k \in At(b, of) PROVE A + k \in At(c, of)
    <3>1. k \in 1..B /\ b[k].of = of /\ A + k \in 1..A + B
      BY <1>1, <1>3
    <3> QED BY <1>1, <1>3, <3>1
  <2> QED BY <2>1, <2>2
<1> QED BY <1>4, <1>5 DEF A, c

LEMMA WholeJoined ==
  ASSUME NEW a \in Seq(Rows), NEW b \in Seq(Rows), NEW of
  PROVE  /\ Whole(a, of) /\ At(b, of) = {} => Whole(a \o b, of)
         /\ Whole(b, of) /\ At(a, of) = {} => Whole(a \o b, of)
<1> DEFINE A == Len(a)
           c == a \o b
<1>1. A \in Nat /\ Len(b) \in Nat
      /\ (\A i \in 1..A : c[i] = a[i]) /\ (\A i \in 1..Len(b) : c[A + i] = b[i])
  OBVIOUS
<1>2. /\ At(b, of) = {} => At(c, of) = At(a, of)
      /\ At(a, of) = {} => At(c, of) = {A + k : k \in At(b, of)}
  BY AtJoined
<1> HIDE DEF c, A
<1>3. ASSUME Whole(a, of), At(b, of) = {} PROVE Whole(c, of)
  <2>1. \A k \in At(a, of) : c[k] = a[k]
    BY <1>1 DEF At, A
  <2> QED BY <1>2, <1>3, <2>1 DEF Whole
<1>4. ASSUME Whole(b, of), At(a, of) = {} PROVE Whole(c, of)
  <2>1. PICK k \in At(b, of) :
          \/ b[k].shape = "noRoom" /\ At(b, of) = {k}
          \/ /\ b[k].shape = "header" /\ b[k].args # <<>>
             /\ At(b, of) = k..k + Len(b[k].args)
    BY <1>4 DEF Whole
  <2>2. k \in 1..Len(b) /\ c[A + k] = b[k] /\ A + k \in At(c, of)
    BY <1>1, <1>2, <1>4, <2>1 DEF At
  <2>3. b[k].args \in Args
    BY <2>2, LinesOf
  <2>4. Len(b[k].args) \in Nat
    BY <2>3 DEF Args
  <2>5. CASE b[k].shape = "noRoom" /\ At(b, of) = {k}
    <3>1. At(c, of) = {A + k}
      BY <1>2, <1>4, <2>5
    <3> QED BY <2>2, <2>5, <3>1 DEF Whole
  <2>6. CASE b[k].shape = "header" /\ b[k].args # <<>> /\ At(b, of) = k..k + Len(b[k].args)
    <3> DEFINE n == Len(b[k].args)
    <3>1. n \in Nat /\ At(b, of) = k..k + n /\ k \in Nat
      BY <2>2, <2>4, <2>6
    <3> HIDE DEF n
    <3>2. \A i : i \in {A + j : j \in k..k + n} <=> i \in (A + k)..(A + k) + n
      <4>1. ASSUME NEW i \in (A + k)..(A + k) + n PROVE i - A \in k..k + n /\ A + (i - A) = i
        BY <1>1, <3>1
      <4>2. ASSUME NEW j \in k..k + n PROVE A + j \in (A + k)..(A + k) + n
        BY <1>1, <3>1
      <4> QED BY <4>1, <4>2
    <3>3. At(c, of) = (A + k)..(A + k) + n
      BY <1>2, <1>4, <3>1, <3>2
    <3>4. At(c, of) = (A + k)..(A + k) + Len(c[A + k].args)
      BY <2>2, <3>3 DEF n
    <3> QED BY <2>2, <2>6, <3>4 DEF Whole
  <2> QED BY <2>1, <2>5, <2>6
<1> QED BY <1>3, <1>4 DEF c

LEMMA TidyJoined ==
  ASSUME NEW requests, NEW a \in Seq(Rows), NEW b \in Seq(Rows), Tidy(a, requests), Tidy(b, requests),
         NEW A, NEW B, Only(a, A), Only(b, B), A \cap B = {}
  PROVE  a \o b \in Seq(Rows) /\ Tidy(a \o b, requests) /\ Only(a \o b, A \cup B)
<1> DEFINE m == Len(a)
           n == Len(b)
           c == a \o b
<1>1. m \in Nat /\ n \in Nat /\ c \in Seq(Rows) /\ Len(c) = m + n
      /\ (\A i \in 1..m : c[i] = a[i]) /\ (\A i \in 1..n : c[m + i] = b[i])
  OBVIOUS
<1>2. ASSUME NEW of PROVE /\ of \in A => At(b, of) = {}
                          /\ of \in B => At(a, of) = {}
  BY DEF At, Only
<1> HIDE DEF c, m, n
<1>3. ASSUME NEW i \in 1..m + n
      PROVE  \/ i \in 1..m /\ c[i] = a[i] /\ c[i].of \in A
             \/ i \notin 1..m /\ i - m \in 1..n /\ c[i] = b[i - m] /\ c[i].of \in B
  <2>1. CASE i <= m
    BY <1>1, <2>1 DEF Only, m
  <2>2. CASE ~ (i <= m)
    <3>1. i - m \in 1..n /\ m + (i - m) = i
      BY <1>1, <2>2
    <3>2. c[i] = b[i - m]
      BY <1>1, <3>1
    <3> QED BY <1>1, <2>2, <3>1, <3>2 DEF Only, n
  <2> QED BY <2>1, <2>2
<1>4. Together(c)
  <2> SUFFICES ASSUME NEW i \in 1..m + n, NEW j \in 1..m + n, c[i].of = c[j].of, NEW k \in i..j
               PROVE  c[k].of = c[i].of
    BY <1>1 DEF Together
  <2>1. k \in 1..m + n
    BY <1>1
  <2>2. CASE i \in 1..m
    <3>1. c[i] = a[i] /\ c[i].of \in A
      BY <1>3, <2>2
    <3>2. j \in 1..m
      BY <1>3, <3>1
    <3>3. k \in 1..m /\ c[j] = a[j] /\ c[k] = a[k]
      BY <1>1, <2>2, <3>2
    <3>4. a[k].of = a[i].of
      BY <2>2, <3>1, <3>2, <3>3 DEF Tidy, Together, m
    <3> QED BY <3>1, <3>3, <3>4
  <2>3. CASE i \notin 1..m
    <3>1. i - m \in 1..n /\ c[i] = b[i - m] /\ c[i].of \in B
      BY <1>3, <2>3
    <3>2. j \notin 1..m /\ j - m \in 1..n /\ c[j] = b[j - m]
      BY <1>3, <3>1
    <3>3. k - m \in (i - m)..(j - m) /\ k - m \in 1..n /\ m + (k - m) = k
      BY <1>1, <2>1, <3>1, <3>2
    <3>4. c[k] = b[k - m]
      BY <1>1, <3>3
    <3>5. b[k - m].of = b[i - m].of
      BY <3>1, <3>2, <3>3 DEF Tidy, Together, n
    <3> QED BY <3>1, <3>4, <3>5
  <2> QED BY <2>2, <2>3
<1>5. ASSUME NEW i \in 1..m + n, Wanted(c[i], requests) PROVE Whole(c, c[i].of)
  <2>1. CASE i \in 1..m
    <3>1. c[i] = a[i] /\ c[i].of \in A
      BY <1>3, <2>1
    <3>2. Whole(a, a[i].of)
      BY <1>5, <2>1, <3>1 DEF Tidy, m
    <3> QED BY <1>2, <3>1, <3>2, WholeJoined DEF c
  <2>2. CASE i \notin 1..m
    <3>1. i - m \in 1..n /\ c[i] = b[i - m] /\ c[i].of \in B
      BY <1>3, <2>2
    <3>2. Whole(b, b[i - m].of)
      BY <1>5, <3>1 DEF Tidy, n
    <3> QED BY <1>2, <3>1, <3>2, WholeJoined DEF c
  <2> QED BY <2>1, <2>2
<1>6. \A i \in 1..m + n : c[i].shape = "noRoom" => c[i].lines = 1
  BY <1>3 DEF Tidy, m, n
<1>7. Only(c, A \cup B)
  BY <1>1, <1>3 DEF Only
<1> QED BY <1>1, <1>4, <1>5, <1>6, <1>7 DEF Tidy, c

(* One row that no click was asked for, or a marked one.                   *)
LEMMA TidyRow ==
  ASSUME NEW requests, NEW r \in Rows, r.shape = "noRoom" => r.lines = 1,
         Wanted(r, requests) => r.shape = "noRoom"
  PROVE  <<r>> \in Seq(Rows) /\ Tidy(<<r>>, requests) /\ Only(<<r>>, {r.of})
<1> DEFINE rows == <<r>>
<1>1. rows \in Seq(Rows) /\ Len(rows) = 1 /\ rows[1] = r /\ 1..1 = {1}
  OBVIOUS
<1> HIDE DEF rows
<1>2. \A i \in 1..Len(rows) : i = 1 /\ rows[i] = r
  BY <1>1
<1>3. Together(rows)
  <2> SUFFICES ASSUME NEW i \in 1..Len(rows), NEW j \in 1..Len(rows), NEW k \in i..j
               PROVE  rows[k].of = rows[i].of
    BY DEF Together
  <2>1. i = 1 /\ j = 1 /\ k = 1
    BY <1>2
  <2> QED BY <2>1
<1>4. At(rows, r.of) = {1}
  BY <1>1 DEF At
<1>5. ASSUME Wanted(r, requests) PROVE Whole(rows, r.of)
  BY <1>1, <1>4, <1>5 DEF Whole
<1> QED BY <1>1, <1>2, <1>3, <1>5 DEF Tidy, Only, rows

LEMMA TidyNone ==
  ASSUME NEW requests, NEW ofs
  PROVE  <<>> \in Seq(Rows) /\ Tidy(<<>>, requests) /\ Only(<<>>, ofs)
<1>1. <<>> \in Seq(Rows) /\ 1..Len(<<>>) = {}
  OBVIOUS
<1> QED BY <1>1 DEF Tidy, Only, Together

-----------------------------------------------------------------------------
(* The rows of a call the user asked to see: a header and every value, or  *)
(* one marked row.                                                         *)
One(unit, of) ==
  /\ unit \in RowUnit /\ Only(unit, {of})
  /\ \A i \in 1..Len(unit) : unit[i].shape = "noRoom" => unit[i].lines = 1
Entire(unit) ==
  \/ Len(unit) = 1 /\ unit[1].shape = "noRoom"
  \/ unit[1].shape = "header" /\ unit[1].args # <<>> /\ Len(unit) = 1 + Len(unit[1].args)

LEMMA EntireIsWhole ==
  ASSUME NEW unit, NEW of, One(unit, of), Entire(unit)
  PROVE  Whole(unit, of)
<1>1. unit \in Seq(Rows) /\ Len(unit) \in Nat /\ Len(unit) >= 1
  BY DEF One, RowUnit
<1>2. At(unit, of) = 1..Len(unit) /\ 1 \in At(unit, of)
  BY <1>1 DEF At, One, Only
<1>3. CASE Len(unit) = 1 /\ unit[1].shape = "noRoom"
  <2>1. 1..1 = {1}
    OBVIOUS
  <2> QED BY <1>2, <1>3, <2>1 DEF Whole
<1>4. CASE unit[1].shape = "header" /\ unit[1].args # <<>> /\ Len(unit) = 1 + Len(unit[1].args)
  BY <1>2, <1>4 DEF Whole
<1> QED BY <1>3, <1>4 DEF Entire

LEMMA EntireIsTidy ==
  ASSUME NEW unit, NEW of, One(unit, of), Entire(unit), NEW requests
  PROVE  unit \in Seq(Rows) /\ Tidy(unit, requests) /\ Only(unit, {of})
<1>1. unit \in Seq(Rows) /\ Only(unit, {of})
  BY DEF One, RowUnit
<1>2. \A i \in 1..Len(unit) : unit[i].of = of
  BY <1>1 DEF Only
<1>3. Together(unit)
  <2> SUFFICES ASSUME NEW i \in 1..Len(unit), NEW j \in 1..Len(unit), NEW k \in i..j
               PROVE  unit[k].of = unit[i].of
    BY DEF Together
  <2>1. k \in 1..Len(unit)
    BY <1>1
  <2> QED BY <1>2, <2>1
<1>4. Whole(unit, of)
  BY EntireIsWhole
<1> QED BY <1>1, <1>2, <1>3, <1>4 DEF Tidy, One

LEMMA BlockIs ==
  ASSUME NEW of \in Seq(Nat), NEW args \in Args, NEW lines \in Int,
         ExpandedRows(of, args, lines) # <<>>
  PROVE  /\ One(ExpandedRows(of, args, lines), of)
         /\ args # <<>> => Entire(ExpandedRows(of, args, lines))
<1> DEFINE header == Row(of, 1, "header", args)
           first == [rows |-> <<header>>, left |-> lines - 1]
           Good(n, rows) == /\ Len(rows) = n + 1 /\ rows[1] = header
                            /\ \A j \in 1..Len(rows) : rows[j].of = of /\ rows[j].shape # "noRoom"
           P == {p \in Nat \X Blocks : Good(p[1], p[2].rows)}
<1>1. header \in Rows /\ header.of = of /\ header.shape = "header" /\ header.args = args
  BY RowIs, SomeShapes
<1>2. <<0, first>> \in P
  <2>1. <<header>> \in Seq(Rows) /\ Len(<<header>>) = 1 /\ <<header>>[1] = header /\ 1..1 = {1}
    BY <1>1
  <2>2. Good(0, <<header>>)
    BY <1>1, <2>1
  <2> HIDE DEF header, Good
  <2>3. first \in Blocks /\ first.rows = <<header>>
    BY <2>1 DEF Blocks
  <2> HIDE DEF first
  <2> QED BY <2>2, <2>3
<1>3. \A i \in 1..Len(args) : \A b \in Blocks : <<i - 1, b>> \in P => <<i, ValueRow(of, args, b, i)>> \in P
  <2> SUFFICES ASSUME NEW i \in 1..Len(args), NEW b \in Blocks, <<i - 1, b>> \in P
               PROVE  <<i, ValueRow(of, args, b, i)>> \in P
    OBVIOUS
  <2>1. b.rows \in Seq(Rows) /\ Good(i - 1, b.rows) /\ i \in Nat
    BY DEF Args, Blocks
  <2> DEFINE c == ValueRow(of, args, b, i)
  <2>2. c \in Blocks
    BY ValueRowIs
  <2>3. \E r : c.rows = Append(b.rows, r) /\ r.of = of /\ r.shape = "value"
    <3> DEFINE cost == Max({args[i][1], Min({args[i][2], Max({1, b.left \div (Len(args) - i + 1)})})})
               row == Row(of, cost, "value", <<>>)
    <3>1. c = [rows |-> Append(b.rows, row), left |-> b.left - cost]
      BY DEF ValueRow
    <3> HIDE DEF c, cost
    <3>2. row.of = of /\ row.shape = "value"
      BY DEF Row
    <3> HIDE DEF row
    <3>3. c.rows = Append(b.rows, row)
      BY <3>1
    <3> QED BY <3>2, <3>3
  <2>4. PICK r : c.rows = Append(b.rows, r) /\ r.of = of /\ r.shape = "value"
    BY <2>3
  <2> HIDE DEF c, header
  <2>5. Good(i, c.rows)
    <3>1. Len(c.rows) = i + 1 /\ c.rows[i + 1] = r /\ (\A j \in 1..i : c.rows[j] = b.rows[j])
      BY <2>1, <2>4
    <3>2. \A j \in 1..i + 1 : j \in 1..i \/ j = i + 1
      BY <2>1
    <3>3. Len(b.rows) = i /\ b.rows[1] = header /\ 1 \in 1..i
      BY <2>1
    <3>4. \A j \in 1..i + 1 : c.rows[j].of = of /\ c.rows[j].shape # "noRoom"
      BY <2>1, <2>4, <3>1, <3>2, <3>3
    <3> QED BY <3>1, <3>3, <3>4
  <2> HIDE DEF Good
  <2> QED BY <2>1, <2>2, <2>5 DEF c
<1> HIDE DEF P
<1>4. PICK b \in Blocks :
        /\ <<Len(args), b>> \in P
        /\ ExpandedRows(of, args, lines)
             = IF lines - 1 < Len(args) \/ b.left < 0 THEN <<>> ELSE b.rows
  BY <1>2, <1>3, ExpandedAlong
<1>5. ExpandedRows(of, args, lines) = b.rows /\ b.rows \in Seq(Rows)
  BY <1>4 DEF Blocks
<1> HIDE DEF header
<1>6. Len(b.rows) = Len(args) + 1 /\ b.rows[1] = header
      /\ \A j \in 1..Len(b.rows) : b.rows[j].of = of /\ b.rows[j].shape # "noRoom"
  BY <1>4 DEF P
<1>7. Len(args) \in Nat
  BY DEF Args
<1>8. b.rows # <<>>
  BY <1>5
<1>9. One(b.rows, of)
  BY <1>5, <1>6, <1>8 DEF One, RowUnit, Only
<1>10. args # <<>> => Entire(b.rows)
  BY <1>1, <1>6, <1>7 DEF Entire
<1> QED BY <1>5, <1>9, <1>10

(* _tool_call_rows of a call, _build_history_rows of the others.           *)
LEMMA ToolCallTidy ==
  ASSUME screen \in Screens, NEW of \in Seq(Nat), NEW args \in Args
  PROVE  /\ ToolCallRows(of, args) \in Seq(Rows) /\ Only(ToolCallRows(of, args), {of})
         /\ Tidy(ToolCallRows(of, args), expanded_tools)
<1> DEFINE room == Max({1, VisibleRowCap(screen) - 3})
           rows == ExpandedRows(of, args, room)
           collapsed == Row(of, 1, "collapsed", args)
           standin == Row(of, 1, "noRoom", args)
<1>1. room \in Int
  <2>1. VisibleRowCap(screen) - 3 \in Int
    BY CapIs
  <2> QED BY <2>1, GreaterOfTwo
<1>2. ToolCallRows(of, args) =
        IF of \notin expanded_tools \/ args = <<>> THEN <<collapsed>>
        ELSE IF rows = <<>> THEN <<standin>> ELSE rows
  BY DEF ToolCallRows
<1> HIDE DEF room
<1>3. /\ collapsed \in Rows /\ collapsed.of = of /\ collapsed.shape = "collapsed" /\ collapsed.args = args
      /\ standin \in Rows /\ standin.of = of /\ standin.lines = 1 /\ standin.shape = "noRoom"
  BY RowIs, SomeShapes
<1>4. CASE of \notin expanded_tools \/ args = <<>>
  <2> HIDE DEF collapsed
  <2>1. ~ Wanted(collapsed, expanded_tools)
    BY <1>3, <1>4 DEF Wanted
  <2>2. ToolCallRows(of, args) = <<collapsed>>
    BY <1>2, <1>4
  <2> QED BY <1>3, <2>1, <2>2, TidyRow
<1>5. CASE ~ (of \notin expanded_tools \/ args = <<>>) /\ rows = <<>>
  <2> HIDE DEF standin
  <2>1. ToolCallRows(of, args) = <<standin>>
    BY <1>2, <1>5
  <2> QED BY <1>3, <2>1, TidyRow
<1>6. CASE ~ (of \notin expanded_tools \/ args = <<>>) /\ rows # <<>>
  <2>1. One(rows, of) /\ Entire(rows)
    BY <1>1, <1>6, BlockIs
  <2>2. ToolCallRows(of, args) = rows
    BY <1>2, <1>6
  <2> HIDE DEF rows
  <2> QED BY <2>1, <2>2, EntireIsTidy
<1> QED BY <1>4, <1>5, <1>6

OfMessage(id) == {of \in Seq(Nat) : of # <<>> /\ of[1] = id}

LEMMA OnlyMore ==
  ASSUME NEW rows, NEW A, NEW B, Only(rows, A), A \subseteq B
  PROVE  Only(rows, B)
BY DEF Only

LEMMA MessageTidy ==
  ASSUME screen \in Screens, NEW m \in ShownMessages
  PROVE  /\ MessageRows(m) \in Seq(Rows) /\ Only(MessageRows(m), OfMessage(m.id))
         /\ Tidy(MessageRows(m), expanded_tools)
<1>1. m.id \in Nat /\ m.lines \in Nat /\ m.calls \in Seq(Args)
  BY DEF ShownMessages
<1> DEFINE id == m.id
           n == Len(m.calls)
           calls == [k \in 1..n |-> ToolCallRows(<<id, k>>, m.calls[k])]
           label == Row(<<id>>, m.lines, "text", <<>>)
           text == IF m.lines = 0 THEN <<>> ELSE <<label>>
           Ids(i) == {<<id, k>> : k \in 1..i}
           P == {p \in Nat \X Seq(Rows) : Tidy(p[2], expanded_tools) /\ Only(p[2], Ids(p[1]))}
<1>2. n \in Nat /\ \A k \in 1..n : m.calls[k] \in Args
  BY <1>1
<1>3. MessageRows(m) = IF m.injected THEN <<>> ELSE FlattenSeq(calls) \o text
  BY DEF MessageRows
<1> HIDE DEF n
<1>4. \A k \in Nat : <<id, k>> \in Seq(Nat) /\ <<id, k>> # <<>> /\ <<id, k>>[1] = id
  BY <1>1
<1>5. <<id>> \in Seq(Nat) /\ <<id>> # <<>> /\ <<id>>[1] = id
  BY <1>1
<1>6. \A k \in Nat : <<id, k>> # <<id>>
  BY <1>1
<1> HIDE DEF id
<1>7. ASSUME NEW k \in 1..n
      PROVE  /\ calls[k] \in Seq(Rows) /\ Only(calls[k], {<<id, k>>})
             /\ Tidy(calls[k], expanded_tools)
  <2>1. k \in Nat /\ calls[k] = ToolCallRows(<<id, k>>, m.calls[k])
    BY <1>2
  <2> QED BY <1>2, <1>4, <2>1, ToolCallTidy
<1>8. calls \in Seq(Seq(Rows)) /\ Len(calls) = n
  <2>1. DOMAIN calls = 1..n /\ \A k \in 1..n : calls[k] \in Seq(Rows)
    BY <1>7
  <2>2. calls \in [1..n -> Seq(Rows)]
    <3>1. calls = [k \in 1..n |-> calls[k]]
      OBVIOUS
    <3> HIDE DEF calls
    <3> QED BY <2>1, <3>1
  <2> HIDE DEF calls
  <2> QED BY <1>2, <2>2
<1> HIDE DEF calls
<1>9. <<0, <<>>>> \in P
  <2>1. <<>> \in Seq(Rows) /\ Tidy(<<>>, expanded_tools) /\ Only(<<>>, Ids(0))
    BY TidyNone
  <2>2. \A s \in Seq(Rows) : Tidy(s, expanded_tools) /\ Only(s, Ids(0)) => <<0, s>> \in P
    OBVIOUS
  <2> HIDE DEF P, Ids
  <2> QED BY <2>1, <2>2, Zenon
<1>10. \A i \in 1..n : \A s \in Seq(Rows) : <<i - 1, s>> \in P => <<i, s \o calls[i]>> \in P
  <2> SUFFICES ASSUME NEW i \in 1..n, NEW s \in Seq(Rows), <<i - 1, s>> \in P
               PROVE  <<i, s \o calls[i]>> \in P
    OBVIOUS
  <2>1. Tidy(s, expanded_tools) /\ Only(s, Ids(i - 1)) /\ i \in Nat
    <3>1. i \in Nat
      BY <1>2
    <3> HIDE DEF Ids
    <3>2. <<i - 1, s>>[1] = i - 1 /\ <<i - 1, s>>[2] = s
      OBVIOUS
    <3>3. Tidy(<<i - 1, s>>[2], expanded_tools) /\ Only(<<i - 1, s>>[2], Ids(<<i - 1, s>>[1]))
      OBVIOUS
    <3> QED BY <3>1, <3>2, <3>3
  <2>2. Ids(i - 1) \cap {<<id, i>>} = {} /\ Ids(i - 1) \cup {<<id, i>>} = Ids(i)
    <3>1. \A k \in 1..i - 1 : <<id, k>> # <<id, i>>
      BY <2>1
    <3>2. 1..i = (1..i - 1) \cup {i}
      BY <2>1
    <3> QED BY <3>1, <3>2
  <2> HIDE DEF Ids
  <2>3. s \o calls[i] \in Seq(Rows) /\ Tidy(s \o calls[i], expanded_tools)
        /\ Only(s \o calls[i], Ids(i - 1) \cup {<<id, i>>})
    BY <1>7, <2>1, <2>2, TidyJoined
  <2> QED BY <2>1, <2>2, <2>3
<1>11. FlattenSeq(calls) \in Seq(Rows) /\ Tidy(FlattenSeq(calls), expanded_tools)
       /\ Only(FlattenSeq(calls), Ids(n))
  <2> DEFINE flat == FlattenSeq(calls)
  <2>1. flat \in Seq(Rows) /\ <<n, flat>> \in P
    <3> HIDE DEF P
    <3> QED BY <1>8, <1>9, <1>10, FlattenAlong
  <2> HIDE DEF flat, Ids
  <2>2. Tidy(flat, expanded_tools) /\ Only(flat, Ids(n))
    BY <2>1
  <2> QED BY <2>1, <2>2 DEF flat
<1> HIDE DEF P
<1>12. text \in Seq(Rows) /\ Tidy(text, expanded_tools) /\ Only(text, {<<id>>})
  <2>1. <<>> \in Args /\ m.lines \in Int /\ "text" \in Shapes
    BY <1>1, SomeShapes DEF Args
  <2>2. label \in Rows /\ label.of = <<id>> /\ label.shape = "text" /\ label.args = <<>>
    <3>1. \A of \in Seq(Nat) : \A args \in Args :
            LET r == Row(of, m.lines, "text", args) IN
            r \in Rows /\ r.of = of /\ r.shape = "text" /\ r.args = args
      BY <2>1, RowIs
    <3> QED BY <1>5, <2>1, <3>1, Zenon
  <2> HIDE DEF label
  <2>3. ~ Wanted(label, expanded_tools)
    BY <2>2 DEF Wanted
  <2>4. <<label>> \in Seq(Rows) /\ Tidy(<<label>>, expanded_tools) /\ Only(<<label>>, {<<id>>})
    BY <2>2, <2>3, TidyRow
  <2> QED BY <2>4, TidyNone
<1> HIDE DEF text
<1>13. Ids(n) \cap {<<id>>} = {}
  BY <1>2, <1>6
<1>14. /\ Ids(n) \cup {<<id>>} \subseteq OfMessage(id)
  <2>1. \A k \in 1..n : k \in Nat
    BY <1>2
  <2> QED BY <1>4, <1>5, <2>1 DEF OfMessage
<1> HIDE DEF Ids
<1>15. FlattenSeq(calls) \o text \in Seq(Rows) /\ Tidy(FlattenSeq(calls) \o text, expanded_tools)
       /\ Only(FlattenSeq(calls) \o text, OfMessage(id))
  <2> DEFINE all == FlattenSeq(calls) \o text
  <2>1. all \in Seq(Rows) /\ Tidy(all, expanded_tools) /\ Only(all, Ids(n) \cup {<<id>>})
    BY <1>11, <1>12, <1>13, TidyJoined
  <2> HIDE DEF all
  <2>2. Only(all, OfMessage(id))
    BY <1>14, <2>1, OnlyMore
  <2> QED BY <2>1, <2>2 DEF all
<1>16. CASE m.injected
  <2>1. MessageRows(m) = <<>>
    BY <1>3, <1>16
  <2> QED BY <2>1, TidyNone
<1>17. CASE ~ m.injected
  BY <1>3, <1>15, <1>17 DEF id
<1> QED BY <1>16, <1>17

(* The rows of the history: messages have numbers of their own, from 1.    *)
Numbered ==
  /\ added \in Nat
  /\ \A i \in 1..Len(last_messages) : last_messages[i].id \in 1..added
  /\ \A i, j \in 1..Len(last_messages) : last_messages[i].id = last_messages[j].id => i = j
HistoryOfs == {of \in Seq(Nat) : of = <<>> \/ of[1] # 0}

LEMMA HistoryTidy ==
  ASSUME screen \in Screens, last_messages \in Seq(ShownMessages), round_start \in Nat, Numbered
  PROVE  /\ BuildHistoryRows \in Seq(Rows) /\ Only(BuildHistoryRows, HistoryOfs)
         /\ Tidy(BuildHistoryRows, expanded_tools)
<1> DEFINE L == Len(last_messages)
           start == Min({round_start, L})
           n == L - start
           blocks == [k \in 1..n |-> MessageRows(last_messages[start + k])]
           label == Row(<<>>, 1, "text", <<>>)
           prompt == IF L <= round_start THEN <<label>> ELSE <<>>
           Id(k) == last_messages[start + k].id
           Upto(i) == {of \in Seq(Nat) : \E k \in 1..i : of \in OfMessage(Id(k))}
           P == {p \in Nat \X Seq(Rows) : Tidy(p[2], expanded_tools) /\ Only(p[2], Upto(p[1]))}
<1>1. BuildHistoryRows = prompt \o FlattenSeq(blocks)
  BY DEF BuildHistoryRows
<1>2. L \in Nat
  OBVIOUS
<1>3. start \in 0..L
  <2> HIDE DEF L
  <2> QED BY <1>2, LesserOfTwo
<1> HIDE DEF start
<1>4. n \in Nat /\ \A k \in 1..n : start + k \in 1..L
  BY <1>2, <1>3
<1>5. /\ \A k \in 1..n : last_messages[start + k] \in ShownMessages /\ Id(k) \in 1..added
      /\ \A j, k \in 1..n : Id(j) = Id(k) => j = k
  <2>1. ASSUME NEW k \in 1..n PROVE last_messages[start + k] \in ShownMessages /\ Id(k) \in 1..added
    BY <1>4 DEF Numbered
  <2>2. ASSUME NEW j \in 1..n, NEW k \in 1..n, Id(j) = Id(k) PROVE j = k
    <3>1. start + j = start + k
      BY <1>4, <2>2 DEF Numbered
    <3> QED BY <1>3, <1>4, <3>1
  <2> QED BY <2>1, <2>2
<1> HIDE DEF n, L
<1>6. ASSUME NEW k \in 1..n
      PROVE  /\ blocks[k] \in Seq(Rows) /\ Only(blocks[k], OfMessage(Id(k)))
             /\ Tidy(blocks[k], expanded_tools)
  <2>1. blocks[k] = MessageRows(last_messages[start + k])
    OBVIOUS
  <2> QED BY <1>5, <2>1, MessageTidy
<1>7. blocks \in Seq(Seq(Rows)) /\ Len(blocks) = n
  <2>1. blocks \in [1..n -> Seq(Rows)]
    <3>1. blocks = [k \in 1..n |-> blocks[k]]
      OBVIOUS
    <3> HIDE DEF blocks
    <3> QED BY <1>6, <3>1
  <2> HIDE DEF blocks
  <2> QED BY <1>4, <2>1
<1> HIDE DEF blocks, Id
<1>8. <<0, <<>>>> \in P
  <2>1. <<>> \in Seq(Rows) /\ Tidy(<<>>, expanded_tools) /\ Only(<<>>, Upto(0))
    BY TidyNone
  <2>2. \A s \in Seq(Rows) : Tidy(s, expanded_tools) /\ Only(s, Upto(0)) => <<0, s>> \in P
    OBVIOUS
  <2> HIDE DEF P, Upto
  <2> QED BY <2>1, <2>2, Zenon
<1>9. \A i \in 1..n : \A s \in Seq(Rows) : <<i - 1, s>> \in P => <<i, s \o blocks[i]>> \in P
  <2> SUFFICES ASSUME NEW i \in 1..n, NEW s \in Seq(Rows), <<i - 1, s>> \in P
               PROVE  <<i, s \o blocks[i]>> \in P
    OBVIOUS
  <2>1. Tidy(s, expanded_tools) /\ Only(s, Upto(i - 1)) /\ i \in Nat
    <3>1. i \in Nat
      BY <1>4
    <3> HIDE DEF Upto
    <3>2. <<i - 1, s>>[1] = i - 1 /\ <<i - 1, s>>[2] = s
      OBVIOUS
    <3>3. Tidy(<<i - 1, s>>[2], expanded_tools) /\ Only(<<i - 1, s>>[2], Upto(<<i - 1, s>>[1]))
      OBVIOUS
    <3> QED BY <3>1, <3>2, <3>3
  <2>2. Upto(i - 1) \cap OfMessage(Id(i)) = {} /\ Upto(i - 1) \cup OfMessage(Id(i)) = Upto(i)
    <3>1. \A k \in 1..i - 1 : k \in 1..n /\ k # i
      BY <1>4, <2>1
    <3>2. ASSUME NEW of \in Upto(i - 1) PROVE of \notin OfMessage(Id(i))
      BY <1>5, <3>1 DEF OfMessage
    <3>3. 1..i = (1..i - 1) \cup {i}
      BY <2>1
    <3> QED BY <3>2, <3>3 DEF OfMessage
  <2> HIDE DEF Upto
  <2>3. s \o blocks[i] \in Seq(Rows) /\ Tidy(s \o blocks[i], expanded_tools)
        /\ Only(s \o blocks[i], Upto(i - 1) \cup OfMessage(Id(i)))
    BY <1>6, <2>1, <2>2, TidyJoined
  <2> QED BY <2>1, <2>2, <2>3
<1>10. FlattenSeq(blocks) \in Seq(Rows) /\ Tidy(FlattenSeq(blocks), expanded_tools)
       /\ Only(FlattenSeq(blocks), Upto(n))
  <2> DEFINE flat == FlattenSeq(blocks)
  <2>1. flat \in Seq(Rows) /\ <<n, flat>> \in P
    <3> HIDE DEF P
    <3> QED BY <1>7, <1>8, <1>9, FlattenAlong
  <2> HIDE DEF flat, Upto
  <2>2. Tidy(flat, expanded_tools) /\ Only(flat, Upto(n))
    BY <2>1
  <2> QED BY <2>1, <2>2 DEF flat
<1> HIDE DEF P
<1>11. prompt \in Seq(Rows) /\ Tidy(prompt, expanded_tools) /\ Only(prompt, {<<>>})
  <2>1. <<>> \in Seq(Nat) /\ <<>> \in Args /\ "text" \in Shapes
    BY SomeShapes DEF Args
  <2>2. label \in Rows /\ label.of = <<>> /\ label.shape = "text" /\ label.args = <<>>
    <3>1. \A of \in Seq(Nat) : \A args \in Args :
            LET r == Row(of, 1, "text", args) IN
            r \in Rows /\ r.of = of /\ r.shape = "text" /\ r.args = args
      BY <2>1, RowIs
    <3> QED BY <2>1, <3>1, Zenon
  <2> HIDE DEF label
  <2>3. ~ Wanted(label, expanded_tools)
    BY <2>2 DEF Wanted
  <2>4. <<label>> \in Seq(Rows) /\ Tidy(<<label>>, expanded_tools) /\ Only(<<label>>, {<<>>})
    BY <2>2, <2>3, TidyRow
  <2> QED BY <2>4, TidyNone
<1> HIDE DEF prompt
<1>12. {<<>>} \cap Upto(n) = {}
  BY DEF OfMessage
<1>13. {<<>>} \cup Upto(n) \subseteq HistoryOfs
  <2>1. ASSUME NEW of \in Upto(n) PROVE of \in HistoryOfs
    <3>1. PICK k \in 1..n : of \in OfMessage(Id(k))
      OBVIOUS
    <3>2. Id(k) \in 1..added /\ added \in Nat
      BY <1>5 DEF Numbered
    <3> QED BY <3>1, <3>2 DEF OfMessage, HistoryOfs
  <2>2. <<>> \in HistoryOfs
    BY DEF HistoryOfs
  <2> QED BY <2>1, <2>2
<1> HIDE DEF Upto
<1>14. prompt \o FlattenSeq(blocks) \in Seq(Rows)
       /\ Tidy(prompt \o FlattenSeq(blocks), expanded_tools)
       /\ Only(prompt \o FlattenSeq(blocks), HistoryOfs)
  <2> DEFINE all == prompt \o FlattenSeq(blocks)
  <2>1. all \in Seq(Rows) /\ Tidy(all, expanded_tools) /\ Only(all, {<<>>} \cup Upto(n))
    BY <1>10, <1>11, <1>12, TidyJoined
  <2> HIDE DEF all
  <2>2. Only(all, HistoryOfs)
    BY <1>13, <2>1, OnlyMore
  <2> QED BY <2>1, <2>2 DEF all
<1> QED BY <1>1, <1>14

(* With the live reply below them.                                         *)
LEMMA StreamIsOne ==
  ASSUME stream \in Streams, NEW lines \in Int
  PROVE  /\ StreamRow(lines) \in Seq(Rows) /\ Only(StreamRow(lines), {<<0>>})
         /\ Len(StreamRow(lines)) = IF stream = NoReply THEN 0 ELSE 1
         /\ \A requests : /\ Tidy(StreamRow(lines), requests)
                       /\ \A i \in 1..Len(StreamRow(lines)) : ~ Wanted(StreamRow(lines)[i], requests)
<1>1. StreamRow(lines) \in Seq(Rows)
  BY StreamRowIs
<1>2. CASE stream = NoReply
  <2>1. StreamRow(lines) = <<>>
    BY <1>2 DEF StreamRow
  <2>2. 1..Len(<<>>) = {}
    OBVIOUS
  <2> QED BY <1>2, <2>1, <2>2, TidyNone
<1>3. CASE stream # NoReply
  <2>1. \E height : StreamRow(lines) = <<Row(<<0>>, height, "stream", <<>>)>>
    BY <1>3 DEF StreamRow
  <2>2. PICK height : StreamRow(lines) = <<Row(<<0>>, height, "stream", <<>>)>>
    BY <2>1
  <2> DEFINE r == Row(<<0>>, height, "stream", <<>>)
  <2>3. r.of = <<0>> /\ r.shape = "stream" /\ r.args = <<>>
    BY DEF Row
  <2> HIDE DEF r
  <2>4. StreamRow(lines) = <<r>>
    BY <2>2 DEF r
  <2>5. Len(<<r>>) = 1 /\ <<r>>[1] = r
    OBVIOUS
  <2>6. r \in Rows
    BY <1>1, <2>4, <2>5
  <2>7. \A requests : ~ Wanted(r, requests)
    BY <2>3 DEF Wanted
  <2>8. \A requests : Tidy(<<r>>, requests) /\ Only(<<r>>, {<<0>>})
    BY <2>3, <2>6, <2>7, TidyRow
  <2>9. \A i \in 1..Len(<<r>>) : <<r>>[i] = r
    BY <2>5
  <2> QED BY <1>1, <1>3, <2>4, <2>5, <2>7, <2>8, <2>9
<1> QED BY <1>2, <1>3

LEMMA OfferedTidy ==
  ASSUME stream \in Streams, NEW lines \in Int, NEW requests,
         NEW rows \in Seq(Rows), Tidy(rows, requests), Only(rows, HistoryOfs)
  PROVE  rows \o StreamRow(lines) \in Seq(Rows) /\ Tidy(rows \o StreamRow(lines), requests)
<1>1. <<0>> \notin HistoryOfs
  BY DEF HistoryOfs
<1>2. HistoryOfs \cap {<<0>>} = {}
  BY <1>1
<1> QED BY <1>2, StreamIsOne, TidyJoined

-----------------------------------------------------------------------------
(* The units of a sequence of rows cut it where one call ends: unit u is   *)
(* its rows from first[u] on.                                              *)
Cut(us, rows, n, first) ==
  /\ first[1] = 1 /\ first[Len(us) + 1] = n + 1
  /\ \A u \in 1..Len(us) + 1 : first[u] \in Nat
  /\ \A u, v \in 1..Len(us) + 1 : u < v => first[u] < first[v]
  /\ \A u \in 1..Len(us) : Len(us[u]) = first[u + 1] - first[u]
  /\ \A u \in 1..Len(us) : \A j \in 1..Len(us[u]) :
       us[u][j] = rows[first[u] + j - 1] /\ us[u][j].of = us[u][1].of
  /\ \A u \in 1..Len(us) - 1 : us[u][1].of # us[u + 1][1].of

LEMMA CutMore ==
  ASSUME NEW rows \in Seq(Rows), NEW i \in 1..Len(rows), NEW us \in Seq(RowUnit), NEW first,
         Cut(us, rows, i - 1, first)
  PROVE  \E g : Cut(JoinUnit(us, rows[i]), rows, i, g)
<1> DEFINE L == Len(us)
           r == rows[i]
           ws == JoinUnit(us, r)
<1>1. L \in Nat /\ i \in Nat /\ i >= 1 /\ \A u \in 1..L : us[u] \in Seq(Rows) /\ Len(us[u]) \in Nat /\ Len(us[u]) >= 1
  <2>1. ASSUME NEW u \in 1..L PROVE us[u] \in Seq(Rows) /\ Len(us[u]) \in Nat /\ Len(us[u]) >= 1
    <3>1. us[u] \in RowUnit
      OBVIOUS
    <3> QED BY <3>1 DEF RowUnit
  <2> QED BY <2>1
<1>2. /\ first[1] = 1 /\ first[L + 1] = i
      /\ \A u \in 1..L + 1 : first[u] \in Nat
      /\ \A u, v \in 1..L + 1 : u < v => first[u] < first[v]
      /\ \A u \in 1..L : Len(us[u]) = first[u + 1] - first[u]
      /\ \A u \in 1..L : \A j \in 1..Len(us[u]) :
           us[u][j] = rows[first[u] + j - 1] /\ us[u][j].of = us[u][1].of
      /\ \A u \in 1..L - 1 : us[u][1].of # us[u + 1][1].of
  BY <1>1 DEF Cut
<1>3. CASE us # <<>> /\ Last(us)[1].of = r.of
  <2>1. L >= 1 /\ L \in 1..L
    BY <1>1, <1>3
  <2>2. /\ ws = Append(Front(us), Append(us[L], r)) /\ Len(ws) = L /\ us[L][1].of = r.of
        /\ \A u \in 1..L - 1 : ws[u] = us[u]
        /\ ws[L] = Append(us[L], r)
    <3>1. Last(us) = us[L] /\ Front(us) \in Seq(RowUnit) /\ Len(Front(us)) = L - 1
          /\ \A u \in 1..L - 1 : Front(us)[u] = us[u]
      <4>1. Front(us) = SubSeq(us, 1, L - 1) /\ L - 1 \in 0..Len(us)
        BY <2>1 DEF Front
      <4>2. SubSeq(us, 1, L - 1) \in Seq(RowUnit)
        BY <2>1
      <4>4. Len(SubSeq(us, 1, L - 1)) = L - 1
        <5>1. \A n \in 0..Len(us) : Len(SubSeq(us, 1, n)) = n
          OBVIOUS
        <5> QED BY <4>1, <5>1
      <4>3. \A u \in 1..L - 1 : SubSeq(us, 1, L - 1)[u] = us[u]
        BY <2>1, <4>1
      <4> QED BY <4>1, <4>2, <4>3, <4>4 DEF Last
    <3> DEFINE front == Front(us)
    <3>2. ws = Append(front, Append(us[L], r))
      BY <1>3, <3>1 DEF JoinUnit
    <3> HIDE DEF front, ws, L
    <3> QED BY <1>1, <1>3, <2>1, <3>1, <3>2 DEF front
  <2> HIDE DEF ws, L
  <2> DEFINE g == [x \in 1..L + 1 |-> IF x = L + 1 THEN i + 1 ELSE first[x]]
  <2>3. g[L + 1] = i + 1 /\ \A x \in 1..L : g[x] = first[x]
    BY <1>1
  <2> HIDE DEF g
  <2>4. \A x \in 1..L + 1 : x \in 1..L \/ x = L + 1
    BY <1>1
  <2>5. \A x \in 1..L : x \in 1..L - 1 \/ x = L
    BY <1>1
  <2>6. \A u \in 1..L : first[u] < i /\ first[u] \in Nat
    BY <1>1, <1>2
  <2>7. g[1] = 1 /\ \A u \in 1..L + 1 : g[u] \in Nat
    BY <1>1, <1>2, <2>1, <2>3, <2>4
  <2>8. ASSUME NEW u \in 1..L + 1, NEW v \in 1..L + 1, u < v PROVE g[u] < g[v]
    <3>1. u \in 1..L
      BY <1>1, <2>8
    <3>2. CASE v \in 1..L
      BY <1>2, <2>3, <2>8, <3>1, <3>2
    <3>3. CASE v = L + 1
      BY <1>1, <2>3, <2>6, <3>1, <3>3
    <3> QED BY <2>4, <3>2, <3>3
  <2>9. us[L] \in Seq(Rows) /\ Len(us[L]) = i - first[L] /\ Len(us[L]) >= 1
    BY <1>1, <1>2, <2>1
  <2>10. Len(ws[L]) = Len(us[L]) + 1 /\ ws[L][Len(us[L]) + 1] = r
         /\ \A j \in 1..Len(us[L]) : ws[L][j] = us[L][j]
    BY <2>2, <2>9
  <2>11. ASSUME NEW u \in 1..L PROVE Len(ws[u]) = g[u + 1] - g[u]
    <3>1. CASE u \in 1..L - 1
      <4>1. u + 1 \in 1..L
        BY <1>1, <3>1
      <4> QED BY <1>2, <2>2, <2>3, <3>1, <4>1
    <3>2. CASE u = L
      <4>1. Len(ws[u]) = i - first[L] + 1 /\ g[u] = first[L] /\ g[u + 1] = i + 1 /\ first[L] \in Nat
        BY <2>1, <2>3, <2>6, <2>9, <2>10, <3>2
      <4>2. i \in Nat
        OBVIOUS
      <4> QED BY <4>1, <4>2
    <3> QED BY <2>5, <3>1, <3>2
  <2>12. ASSUME NEW u \in 1..L, NEW j \in 1..Len(ws[u])
         PROVE  ws[u][j] = rows[g[u] + j - 1] /\ ws[u][j].of = ws[u][1].of
    <3>1. CASE u \in 1..L - 1
      <4>1. ws[u] = us[u] /\ g[u] = first[u]
        BY <2>2, <2>3, <3>1
      <4>2. us[u][j] = rows[first[u] + j - 1] /\ us[u][j].of = us[u][1].of
        BY <1>2, <4>1
      <4> QED BY <4>1, <4>2
    <3>2. CASE u = L
      <4>1. CASE j \in 1..Len(us[L])
        <5>1. ws[u][j] = us[L][j] /\ ws[u][1] = us[L][1] /\ g[u] = first[L]
          BY <2>1, <2>3, <2>9, <2>10, <3>2, <4>1
        <5>2. us[L][j] = rows[first[L] + j - 1] /\ us[L][j].of = us[L][1].of
          BY <1>2, <2>1, <4>1
        <5> QED BY <5>1, <5>2
      <4>2. CASE j \notin 1..Len(us[L])
        <5>1. j = Len(us[L]) + 1
          BY <2>9, <2>10, <3>2, <4>2
        <5>2. g[L] + j - 1 = i
          BY <1>1, <2>1, <2>3, <2>6, <2>9, <5>1
        <5>3. ws[u][j] = r /\ rows[g[u] + j - 1] = r
          BY <2>10, <3>2, <5>1, <5>2
        <5>4. 1 \in 1..Len(us[L])
          BY <2>9
        <5>5. ws[u][1] = us[L][1]
          BY <2>10, <3>2, <5>4
        <5>6. us[L][1].of = r.of
          BY <2>2
        <5> HIDE DEF r
        <5> QED BY <5>3, <5>5, <5>6
      <4> QED BY <4>1, <4>2
    <3> QED BY <2>5, <3>1, <3>2
  <2>13. ASSUME NEW u \in 1..L - 1 PROVE ws[u][1].of # ws[u + 1][1].of
    <3>1. u \in 1..L /\ u + 1 \in 1..L
      BY <1>1
    <3>2. \A w \in 1..L : ws[w][1] = us[w][1]
      BY <2>2, <2>5, <2>9, <2>10
    <3> QED BY <1>2, <3>1, <3>2
  <2>14. Cut(ws, rows, i, g)
    BY <2>2, <2>3, <2>7, <2>8, <2>11, <2>12, <2>13 DEF Cut
  <2> QED BY <2>14 DEF ws
<1>4. CASE ~ (us # <<>> /\ Last(us)[1].of = r.of)
  <2>1. ws = Append(us, <<r>>)
    BY <1>4 DEF JoinUnit
  <2>2. Len(ws) = L + 1 /\ ws[L + 1] = <<r>> /\ (\A u \in 1..L : ws[u] = us[u])
        /\ Len(<<r>>) = 1 /\ <<r>>[1] = r
    BY <2>1
  <2>3. L >= 1 => us[L][1].of # r.of
    BY <1>4 DEF Last
  <2> HIDE DEF ws, L
  <2> DEFINE g == [x \in 1..L + 2 |-> IF x = L + 2 THEN i + 1 ELSE first[x]]
  <2>4. g[L + 2] = i + 1 /\ (\A x \in 1..L + 1 : g[x] = first[x]) /\ g[(L + 1) + 1] = i + 1
    BY <1>1
  <2> HIDE DEF g
  <2>5. \A x \in 1..L + 2 : x \in 1..L + 1 \/ x = L + 2
    BY <1>1
  <2>6. \A x \in 1..L + 1 : x \in 1..L \/ x = L + 1
    BY <1>1
  <2>7. \A u \in 1..L + 1 : first[u] <= i /\ first[u] \in Nat
    BY <1>1, <1>2, <2>6
  <2>8. g[1] = 1 /\ \A u \in 1..L + 2 : g[u] \in Nat
    <3>1. 1 \in 1..L + 1 /\ i + 1 \in Nat
      BY <1>1
    <3> QED BY <1>2, <2>4, <2>5, <2>7, <3>1
  <2>9. ASSUME NEW u \in 1..L + 2, NEW v \in 1..L + 2, u < v PROVE g[u] < g[v]
    <3>1. u \in 1..L + 1
      BY <1>1, <2>9
    <3>2. CASE v \in 1..L + 1
      BY <1>2, <2>4, <2>9, <3>1, <3>2
    <3>3. CASE v = L + 2
      BY <1>1, <2>4, <2>7, <3>1, <3>3
    <3> QED BY <2>5, <3>2, <3>3
  <2>10. ASSUME NEW u \in 1..L + 1 PROVE Len(ws[u]) = g[u + 1] - g[u]
    <3>1. CASE u \in 1..L
      <4>1. u + 1 \in 1..L + 1
        BY <1>1, <3>1
      <4> QED BY <1>2, <2>2, <2>4, <3>1, <4>1
    <3>2. CASE u = L + 1
      <4>1. L + 1 \in 1..L + 1
        BY <1>1
      <4>2. ws[u] = <<r>> /\ g[u] = i /\ g[u + 1] = i + 1
        BY <1>2, <2>2, <2>4, <3>2, <4>1
      <4> QED BY <1>1, <2>2, <4>2
    <3> QED BY <2>6, <3>1, <3>2
  <2>11. ASSUME NEW u \in 1..L + 1, NEW j \in 1..Len(ws[u])
         PROVE  ws[u][j] = rows[g[u] + j - 1] /\ ws[u][j].of = ws[u][1].of
    <3>1. CASE u \in 1..L
      <4>1. u \in 1..L + 1
        OBVIOUS
      <4>2. ws[u] = us[u] /\ g[u] = first[u]
        BY <2>2, <2>4, <3>1, <4>1
      <4>3. us[u][j] = rows[first[u] + j - 1] /\ us[u][j].of = us[u][1].of
        BY <1>2, <3>1, <4>2
      <4> QED BY <4>2, <4>3
    <3>2. CASE u = L + 1
      <4>0. ws[u] = <<r>> /\ 1..1 = {1}
        BY <2>2, <3>2
      <4>1. j = 1
        BY <2>2, <4>0
      <4>2. g[u] + j - 1 = i
        <5>1. g[u] = i
          BY <1>2, <2>4, <3>2
        <5> QED BY <1>1, <4>1, <5>1
      <4> QED BY <2>2, <3>2, <4>1, <4>2
    <3> QED BY <2>6, <3>1, <3>2
  <2>12. ASSUME NEW u \in 1..L PROVE ws[u][1].of # ws[u + 1][1].of
    <3>1. CASE u = L
      BY <1>1, <2>2, <2>3, <3>1
    <3>2. CASE u # L
      <4>1. u \in 1..L - 1 /\ u + 1 \in 1..L
        BY <1>1, <3>2
      <4> QED BY <1>2, <2>2, <4>1
    <3> QED BY <3>1, <3>2
  <2>13. (L + 1) + 1 = L + 2 /\ (L + 1) - 1 = L
    BY <1>1
  <2>14. Cut(ws, rows, i, g)
    BY <2>2, <2>4, <2>8, <2>9, <2>10, <2>11, <2>12, <2>13 DEF Cut
  <2> QED BY <2>14 DEF ws
<1> QED BY <1>3, <1>4

LEMMA UnitsCut ==
  ASSUME NEW rows \in Seq(Rows)
  PROVE  Units(rows) \in Seq(RowUnit) /\ \E first : Cut(Units(rows), rows, Len(rows), first)
<1> DEFINE P == {p \in Nat \X Seq(RowUnit) : \E first : Cut(p[2], rows, p[1], first)}
<1>1. <<0, <<>>>> \in P
  <2> DEFINE first == [x \in 1..1 |-> 1]
  <2>1. <<>> \in Seq(RowUnit) /\ Len(<<>>) = 0 /\ 1..0 = {} /\ first[1] = 1 /\ 1..0 + 1 = {1}
    OBVIOUS
  <2> HIDE DEF first
  <2>2. Cut(<<>>, rows, 0, first)
    BY <2>1 DEF Cut
  <2>3. \A s \in Seq(RowUnit) : (\E f : Cut(s, rows, 0, f)) => <<0, s>> \in P
    OBVIOUS
  <2> HIDE DEF P
  <2> QED BY <2>1, <2>2, <2>3, Zenon
<1>2. \A i \in 1..Len(rows) : \A u \in Seq(RowUnit) :
        <<i - 1, u>> \in P => <<i, JoinUnit(u, rows[i])>> \in P
  <2> SUFFICES ASSUME NEW i \in 1..Len(rows), NEW u \in Seq(RowUnit), <<i - 1, u>> \in P
               PROVE  <<i, JoinUnit(u, rows[i])>> \in P
    OBVIOUS
  <2>1. rows[i] \in Rows /\ i \in Nat
    OBVIOUS
  <2>2. \E f : Cut(<<i - 1, u>>[2], rows, <<i - 1, u>>[1], f)
    OBVIOUS
  <2>3. PICK f : Cut(u, rows, i - 1, f)
    BY <2>2
  <2>4. \E g : Cut(JoinUnit(u, rows[i]), rows, i, g)
    BY <2>3, CutMore
  <2>5. JoinUnit(u, rows[i]) \in Seq(RowUnit)
    BY <2>1, JoinUnitIs
  <2> QED BY <2>1, <2>4, <2>5
<1>3. Units(rows) \in Seq(RowUnit) /\ <<Len(rows), Units(rows)>> \in P
  <2> HIDE DEF P
  <2> QED BY <1>1, <1>2, UnitsAlong
<1>4. \E f : Cut(<<Len(rows), Units(rows)>>[2], rows, <<Len(rows), Units(rows)>>[1], f)
  BY <1>3
<1> QED BY <1>3, <1>4

(* Where one call's rows are together, each call has one unit.             *)
Placed(us, rows, first) ==
  /\ \A u \in 1..Len(us) : first[u] \in Nat /\ Len(us[u]) \in Nat \ {0} /\ us[u] \in Seq(Rows)
  /\ \A u \in 1..Len(us) : At(rows, us[u][1].of) = first[u]..first[u] + Len(us[u]) - 1
  /\ \A u \in 1..Len(us) : \A j \in 1..Len(us[u]) :
       us[u][j] = rows[first[u] + j - 1] /\ us[u][j].of = us[u][1].of
  /\ \A u, v \in 1..Len(us) : u < v => first[u] < first[v]
  /\ \A i \in 1..Len(rows) : \E u \in 1..Len(us) : rows[i].of = us[u][1].of

LEMMA UnitsPlaced ==
  ASSUME NEW rows \in Seq(Rows), Together(rows)
  PROVE  Units(rows) \in Seq(RowUnit) /\ \E first : Placed(Units(rows), rows, first)
<1> DEFINE us == Units(rows)
           L == Len(us)
           n == Len(rows)
<1>1. us \in Seq(RowUnit) /\ \E first : Cut(us, rows, n, first)
  BY UnitsCut
<1>2. PICK first : Cut(us, rows, n, first)
  BY <1>1
<1> HIDE DEF us
<1>3. L \in Nat /\ n \in Nat
  BY <1>1
<1>4. ASSUME NEW u \in 1..L PROVE us[u] \in Seq(Rows) /\ Len(us[u]) \in Nat \ {0}
  <2>1. us[u] \in RowUnit
    BY <1>1
  <2> QED BY <2>1 DEF RowUnit
<1>5. first[1] = 1 /\ first[L + 1] = n + 1
  BY <1>2 DEF Cut
<1>6. \A u \in 1..L + 1 : first[u] \in Nat
  BY <1>2 DEF Cut
<1>7. \A u, v \in 1..L + 1 : u < v => first[u] < first[v]
  BY <1>2 DEF Cut
<1>8. \A u \in 1..L : Len(us[u]) = first[u + 1] - first[u]
  BY <1>2 DEF Cut
<1>9. \A u \in 1..L : \A j \in 1..Len(us[u]) :
        us[u][j] = rows[first[u] + j - 1] /\ us[u][j].of = us[u][1].of
  BY <1>2 DEF Cut
<1>10. \A u \in 1..L - 1 : us[u][1].of # us[u + 1][1].of
  BY <1>2 DEF Cut
<1> HIDE DEF L, n
<1>11. ASSUME NEW u \in 1..L
       PROVE  /\ u \in 1..L + 1 /\ u + 1 \in 1..L + 1 /\ u < u + 1
              /\ first[u] \in 1..n /\ first[u + 1] \in 1..n + 1 /\ first[u] < first[u + 1]
  <2>1. u \in 1..L + 1 /\ u + 1 \in 1..L + 1 /\ u < u + 1 /\ 1 \in 1..L + 1 /\ L + 1 \in 1..L + 1
    BY <1>3
  <2>2. first[u] \in Nat /\ first[u + 1] \in Nat /\ first[u] < first[u + 1]
    BY <1>6, <1>7, <2>1
  <2>3. 1 <= first[u]
    <3>1. CASE u = 1
      BY <1>5, <3>1
    <3>2. CASE u # 1
      <4>1. 1 < u
        BY <1>3, <3>2
      <4>2. first[1] < first[u]
        BY <1>7, <2>1, <4>1
      <4> QED BY <1>5, <2>2, <4>2
    <3> QED BY <3>1, <3>2
  <2>4. first[u + 1] <= n + 1
    <3>1. CASE u = L
      BY <1>3, <1>5, <3>1
    <3>2. CASE u # L
      <4>1. u + 1 < L + 1
        BY <1>3, <3>2
      <4>2. first[u + 1] < first[L + 1]
        BY <1>7, <2>1, <4>1
      <4> QED BY <1>3, <1>5, <2>2, <4>2
    <3> QED BY <3>1, <3>2
  <2> QED BY <1>3, <2>1, <2>2, <2>3, <2>4
<1>12. ASSUME NEW u \in 1..L, NEW j \in first[u]..first[u + 1] - 1
       PROVE  j \in 1..n /\ rows[j].of = us[u][1].of
  <2>1. first[u] \in 1..n /\ first[u + 1] \in 1..n + 1 /\ Len(us[u]) = first[u + 1] - first[u]
    BY <1>8, <1>11
  <2>2. j - first[u] + 1 \in 1..Len(us[u]) /\ first[u] + (j - first[u] + 1) - 1 = j /\ j \in 1..n
    BY <1>3, <2>1
  <2>3. us[u][j - first[u] + 1] = rows[j] /\ us[u][j - first[u] + 1].of = us[u][1].of
    BY <1>9, <2>2
  <2> QED BY <2>2, <2>3
<1>13. ASSUME NEW u \in 1..L, NEW j \in 1..n, rows[j].of = us[u][1].of
       PROVE  j \in first[u]..first[u + 1] - 1
  <2>1. first[u] \in 1..n /\ first[u + 1] \in 1..n + 1 /\ first[u] < first[u + 1]
    BY <1>11
  <2>2. rows[first[u]].of = us[u][1].of
    <3>1. first[u] \in first[u]..first[u + 1] - 1
      BY <2>1
    <3> QED BY <1>12, <3>1
  <2>3. ASSUME NEW a \in 1..n, NEW b \in 1..n, rows[a].of = rows[b].of, NEW k \in a..b
        PROVE  rows[k].of = rows[a].of
    BY <2>3 DEF Together, n
  <2>4. CASE j >= first[u + 1]
    <3>1. u # L
      BY <1>3, <1>5, <2>4
    <3>2. u + 1 \in 1..L /\ u \in 1..L - 1
      BY <1>3, <3>1
    <3>3. first[u + 1] \in first[u]..j
      BY <2>1, <2>4
    <3>4. rows[first[u + 1]].of = us[u][1].of
      BY <1>13, <2>1, <2>2, <2>3, <3>3
    <3>5. first[u + 1] \in first[u + 1]..first[u + 1 + 1] - 1
      BY <1>11, <3>2
    <3>6. rows[first[u + 1]].of = us[u + 1][1].of
      BY <1>12, <3>2, <3>5
    <3> QED BY <1>10, <3>2, <3>4, <3>6
  <2>5. CASE j < first[u]
    <3>1. u # 1
      BY <1>5, <2>5
    <3>2. u - 1 \in 1..L /\ u - 1 \in 1..L - 1 /\ (u - 1) + 1 = u
      BY <1>3, <3>1
    <3>3. first[u - 1] \in 1..n /\ first[u - 1] < first[u]
      BY <1>11, <3>2
    <3>4. first[u] - 1 \in first[u - 1]..first[u] - 1 /\ first[u] - 1 \in j..first[u]
      BY <2>1, <2>5, <3>3
    <3>5. rows[first[u] - 1].of = us[u - 1][1].of
      BY <1>12, <3>2, <3>4
    <3>6. rows[first[u] - 1].of = us[u][1].of
      BY <1>13, <2>1, <2>2, <2>3, <3>4
    <3> QED BY <1>10, <3>2, <3>5, <3>6
  <2>6. CASE ~ (j >= first[u + 1]) /\ ~ (j < first[u])
    BY <1>3, <2>1, <2>6
  <2> QED BY <2>4, <2>5, <2>6
<1>14. ASSUME NEW u \in 1..L
       PROVE  At(rows, us[u][1].of) = first[u]..first[u] + Len(us[u]) - 1
  <2>1. first[u] \in Nat /\ first[u + 1] \in Nat /\ Len(us[u]) = first[u + 1] - first[u]
    BY <1>8, <1>11
  <2>2. first[u] + Len(us[u]) - 1 = first[u + 1] - 1
    BY <2>1
  <2>3. At(rows, us[u][1].of) = first[u]..first[u + 1] - 1
    BY <1>12, <1>13 DEF At, n
  <2> QED BY <2>2, <2>3
<1>15. ASSUME NEW i \in 1..n PROVE \E u \in 1..L : rows[i].of = us[u][1].of
  <2> DEFINE S == {u \in 1..L : first[u] <= i}
  <2>1. L >= 1
    <3>1. L # 0
      BY <1>3, <1>5
    <3> QED BY <1>3, <3>1
  <2>2. 1 \in S /\ S \subseteq 0..L
    BY <1>3, <1>5, <2>1
  <2>3. PICK u \in S : \A v \in S : v <= u
    <3> HIDE DEF S
    <3> QED BY <1>3, <2>2, GreatestNatural
  <2>4. u \in 1..L /\ first[u] <= i
    BY <2>3
  <2>5. i < first[u + 1]
    <3>1. CASE u = L
      BY <1>3, <1>5, <3>1
    <3>2. CASE u # L
      <4>1. u + 1 \in 1..L /\ ~ (u + 1 <= u)
        BY <1>3, <2>4, <3>2
      <4>2. u + 1 \notin S
        BY <2>3, <4>1
      <4>3. ~ (first[u + 1] <= i) /\ first[u + 1] \in Nat
        BY <1>11, <4>1, <4>2
      <4> QED BY <1>3, <4>3
    <3> QED BY <3>1, <3>2
  <2>6. first[u] \in Nat /\ first[u + 1] \in Nat
    BY <1>11, <2>4
  <2>7. i \in first[u]..first[u + 1] - 1
    BY <1>3, <2>4, <2>5, <2>6
  <2> QED BY <1>12, <2>4, <2>7
<1>16. \A u, v \in 1..L : u < v => first[u] < first[v]
  BY <1>7, <1>11
<1>17. Placed(us, rows, first)
  BY <1>4, <1>9, <1>11, <1>14, <1>15, <1>16 DEF Placed, L, n
<1> QED BY <1>1, <1>17 DEF us

(* What _apply_budget makes of a unit shows its call or leaves it out for  *)
(* want of a line.                                                         *)
LEMMA FittedOnly ==
  ASSUME NEW unit, NEW of, One(unit, of), NEW budget \in Int
  PROVE  Fitted(unit, budget) \in Seq(Rows) /\ Only(Fitted(unit, budget), {of})
<1>1. unit \in RowUnit /\ unit \in Seq(Rows) /\ Len(unit) \in Nat \ {0}
  BY DEF One, RowUnit
<1>2. Fitted(unit, budget) \in Seq(Rows)
  BY <1>1, FittedFits
<1>3. unit[1].of = of /\ unit[1].of \in Seq(Nat) /\ unit[1].args \in Args
  BY <1>1, LinesOf DEF One, Only
<1> DEFINE refit == ExpandedRows(unit[1].of, unit[1].args, budget)
           standin == Row(unit[1].of, 1, "noRoom", unit[1].args)
<1>4. refit # <<>> => Only(refit, {of})
  BY <1>3, BlockIs DEF One
<1>5. Only(<<standin>>, {of})
  <2>1. standin.of = of
    BY <1>3 DEF Row
  <2> HIDE DEF standin
  <2>2. \A i \in 1..Len(<<standin>>) : <<standin>>[i] = standin
    OBVIOUS
  <2> QED BY <2>1, <2>2 DEF Only
<1>6. Only(<<>>, {of})
  BY TidyNone
<1>7. Fitted(unit, budget) \in {unit, <<>>, <<standin>>} \/ (refit # <<>> /\ Fitted(unit, budget) = refit)
  <2> HIDE DEF standin
  <2> QED BY DEF Fitted, standin
<1> HIDE DEF refit, standin
<1> QED BY <1>2, <1>4, <1>5, <1>6, <1>7 DEF One

LEMMA FittedShows ==
  ASSUME NEW unit, NEW of \in Seq(Nat), One(unit, of), Entire(unit), NEW budget \in Int
  PROVE  Whole(Fitted(unit, budget), of) \/ (Fitted(unit, budget) = <<>> /\ budget <= 0)
<1>1. unit \in RowUnit /\ unit \in Seq(Rows) /\ Len(unit) \in Nat \ {0}
  BY DEF One, RowUnit
<1>2. unit[1].of = of /\ unit[1] \in Rows /\ unit[1].args \in Args
        /\ (unit[1].shape = "noRoom" => unit[1].lines = 1)
  BY <1>1, LinesOf DEF One, Only
<1> DEFINE refit == ExpandedRows(of, unit[1].args, budget)
           standin == Row(of, 1, "noRoom", unit[1].args)
<1>3. Fitted(unit, budget) =
        IF Lines(unit) <= budget THEN unit
        ELSE IF unit[1].shape # "header" \/ budget <= 0 THEN <<>>
        ELSE IF refit # <<>> THEN refit ELSE <<standin>>
  BY <1>2 DEF Fitted
<1>4. CASE Lines(unit) <= budget
  BY <1>3, <1>4, EntireIsWhole
<1>5. CASE ~ (Lines(unit) <= budget) /\ unit[1].shape # "header"
  <2>1. Len(unit) = 1 /\ unit[1].shape = "noRoom"
    BY <1>5 DEF Entire
  <2>2. unit = <<unit[1]>>
    BY <1>1, <2>1
  <2>3. Lines(unit) = 1
    BY <1>2, <2>1, <2>2, LinesOfOne
  <2> QED BY <1>3, <1>5, <2>3
<1>6. CASE ~ (Lines(unit) <= budget) /\ unit[1].shape = "header" /\ budget <= 0
  BY <1>3, <1>6
<1>7. CASE ~ (Lines(unit) <= budget) /\ unit[1].shape = "header" /\ ~ (budget <= 0)
  <2>1. unit[1].args # <<>>
    BY <1>7 DEF Entire
  <2>2. CASE refit # <<>>
    <3>1. One(refit, of) /\ Entire(refit)
      BY <1>2, <2>1, <2>2, BlockIs
    <3>2. Fitted(unit, budget) = refit
      BY <1>3, <1>7, <2>2
    <3> HIDE DEF refit
    <3> QED BY <3>1, <3>2, EntireIsWhole
  <2>3. CASE refit = <<>>
    <3>1. standin \in Rows /\ standin.of = of /\ standin.shape = "noRoom" /\ standin.lines = 1
      BY <1>2, RowIs, SomeShapes
    <3>2. Fitted(unit, budget) = <<standin>>
      BY <1>3, <1>7, <2>3
    <3> HIDE DEF standin
    <3>3. <<standin>> \in Seq(Rows) /\ Len(<<standin>>) = 1 /\ <<standin>>[1] = standin /\ 1..1 = {1}
      BY <3>1
    <3>4. One(<<standin>>, of) /\ Entire(<<standin>>)
      BY <3>1, <3>3 DEF One, Entire, RowUnit, Only
    <3> QED BY <3>2, <3>4, EntireIsWhole
  <2> QED BY <2>2, <2>3
<1> QED BY <1>4, <1>5, <1>6, <1>7

(* A call is seen, or newer rows take every line.                          *)
Seen(rows, of, newer, cap) ==
  \/ Whole(rows, of)
  \/ /\ At(rows, of) = {}
     /\ \E k \in 1..Len(rows) : /\ \A j \in k..Len(rows) : rows[j].of \in newer
                                /\ Lines(SubSeq(rows, k, Len(rows))) >= cap

LEMMA PieceOfRows ==
  ASSUME NEW rows \in Seq(Rows), NEW m \in 1..Len(rows), NEW n \in m..Len(rows)
  PROVE  /\ SubSeq(rows, m, n) \in Seq(Rows) /\ Len(SubSeq(rows, m, n)) = n - m + 1
         /\ \A i \in 1..n - m + 1 : SubSeq(rows, m, n)[i] = rows[m + i - 1]
OBVIOUS

LEMMA SeenBelow ==
  ASSUME NEW a \in Seq(Rows), NEW b \in Seq(Rows), NEW of, NEW newer, NEW cap,
         At(a, of) = {}, Seen(b, of, newer, cap)
  PROVE  Seen(a \o b, of, newer, cap)
<1> DEFINE A == Len(a)
           B == Len(b)
           c == a \o b
<1>1. A \in Nat /\ B \in Nat /\ c \in Seq(Rows) /\ Len(c) = A + B /\ (\A i \in 1..B : c[A + i] = b[i])
  OBVIOUS
<1>2. CASE Whole(b, of)
  BY <1>2, WholeJoined DEF Seen
<1>3. CASE ~ Whole(b, of)
  <2>1. At(b, of) = {}
    BY <1>3 DEF Seen
  <2>2. PICK k \in 1..B : (\A j \in k..B : b[j].of \in newer) /\ Lines(SubSeq(b, k, B)) >= cap
    BY <1>3 DEF Seen
  <2>3. At(c, of) = {}
    BY <2>1, AtJoined
  <2> HIDE DEF c, A, B
  <2>4. A + k \in 1..A + B /\ k \in Nat
    BY <1>1
  <2>5. ASSUME NEW j \in A + k..A + B PROVE c[j].of \in newer
    <3>1. j - A \in k..B /\ j - A \in 1..B /\ A + (j - A) = j
      BY <1>1, <2>4
    <3>2. c[j] = b[j - A]
      BY <1>1, <3>1
    <3> QED BY <2>2, <3>1, <3>2
  <2>6. SubSeq(c, A + k, A + B) = SubSeq(b, k, B)
    <3> DEFINE p == SubSeq(c, A + k, A + B)
               q == SubSeq(b, k, B)
    <3>1. p \in Seq(Rows) /\ Len(p) = B - k + 1 /\ \A i \in 1..B - k + 1 : p[i] = c[A + k + i - 1]
      <4>1. A + B \in A + k..Len(c) /\ A + k \in 1..Len(c) /\ A + B - (A + k) + 1 = B - k + 1
        BY <1>1, <2>4
      <4> QED BY <1>1, <4>1, PieceOfRows
    <3>2. q \in Seq(Rows) /\ Len(q) = B - k + 1 /\ \A i \in 1..B - k + 1 : q[i] = b[k + i - 1]
      <4>1. B \in k..Len(b) /\ k \in 1..Len(b)
        BY <1>1, <2>4 DEF B
      <4> QED BY <4>1, PieceOfRows
    <3> HIDE DEF p, q
    <3>3. ASSUME NEW i \in 1..B - k + 1 PROVE p[i] = q[i]
      <4>1. k + i - 1 \in 1..B /\ A + (k + i - 1) = A + k + i - 1
        BY <1>1, <2>4
      <4>2. c[A + (k + i - 1)] = b[k + i - 1]
        BY <1>1, <4>1
      <4> QED BY <3>1, <3>2, <4>1, <4>2
    <3>4. p = q
      BY <3>1, <3>2, <3>3
    <3> QED BY <3>4 DEF p, q
  <2> QED BY <1>1, <2>2, <2>3, <2>4, <2>5, <2>6 DEF Seen, c
<1> QED BY <1>2, <1>3

LEMMA UnitsOne ==
  ASSUME NEW requests, NEW rows \in Seq(Rows), Tidy(rows, requests), NEW us, NEW first,
         Placed(us, rows, first), NEW u \in 1..Len(us)
  PROVE  /\ One(us[u], us[u][1].of) /\ us[u][1].of \in Seq(Nat)
         /\ Whole(rows, us[u][1].of) => Entire(us[u])
<1> DEFINE unit == us[u]
           f == first[u]
           of == unit[1].of
           n == Len(unit)
<1>1. f \in Nat /\ n \in Nat \ {0} /\ unit \in Seq(Rows) /\ At(rows, of) = f..f + n - 1
  BY DEF Placed
<1>2. \A j \in 1..n : unit[j] = rows[f + j - 1] /\ unit[j].of = of
  BY DEF Placed
<1> HIDE DEF unit, f, of, n
<1>3. ASSUME NEW j \in 1..n PROVE f + j - 1 \in 1..Len(rows)
  <2>1. f + j - 1 \in f..f + n - 1
    BY <1>1
  <2> QED BY <1>1, <2>1 DEF At
<1>4. unit \in RowUnit /\ Only(unit, {of})
  BY <1>1, <1>2 DEF RowUnit, Only, n
<1>5. ASSUME NEW j \in 1..n, unit[j].shape = "noRoom" PROVE unit[j].lines = 1
  BY <1>2, <1>3, <1>5 DEF Tidy
<1>6. One(unit, of)
  BY <1>4, <1>5 DEF One, n
<1>7. of \in Seq(Nat)
  BY <1>1, LinesOf DEF of, n
<1>8. ASSUME Whole(rows, of) PROVE Entire(unit)
  <2>1. PICK k \in At(rows, of) :
          \/ rows[k].shape = "noRoom" /\ At(rows, of) = {k}
          \/ /\ rows[k].shape = "header" /\ rows[k].args # <<>>
             /\ At(rows, of) = k..k + Len(rows[k].args)
    BY <1>8 DEF Whole
  <2>2. k \in 1..Len(rows) /\ rows[k].args \in Args /\ k \in Nat
    BY <2>1, LinesOf DEF At
  <2>3. Len(rows[k].args) \in Nat
    BY <2>2 DEF Args
  <2>4. unit[1] = rows[f] /\ f \in At(rows, of) /\ f + n - 1 \in At(rows, of)
    <3>1. f + 1 - 1 = f /\ 1 \in 1..n
      BY <1>1
    <3>2. f \in f..f + n - 1 /\ f + n - 1 \in f..f + n - 1
      BY <1>1
    <3> QED BY <1>1, <1>2, <3>1, <3>2
  <2>5. CASE rows[k].shape = "noRoom" /\ At(rows, of) = {k}
    <3>1. f = k /\ f + n - 1 = k
      BY <2>4, <2>5
    <3>2. n = 1
      BY <1>1, <3>1
    <3> QED BY <2>4, <2>5, <3>1, <3>2 DEF Entire, n
  <2>6. CASE rows[k].shape = "header" /\ rows[k].args # <<>> /\ At(rows, of) = k..k + Len(rows[k].args)
    <3> DEFINE m == Len(rows[k].args)
    <3>1. m \in Nat /\ At(rows, of) = k..k + m
      BY <2>3, <2>6
    <3> HIDE DEF m
    <3>2. k \in f..f + n - 1 /\ k + m \in f..f + n - 1
      <4>1. k \in k..k + m /\ k + m \in k..k + m
        BY <2>2, <3>1
      <4> QED BY <1>1, <3>1, <4>1
    <3>3. f \in k..k + m /\ f + n - 1 \in k..k + m
      BY <2>4, <3>1
    <3>4. f = k /\ n = 1 + m
      BY <1>1, <2>2, <3>1, <3>2, <3>3
    <3> QED BY <2>4, <2>6, <3>4 DEF Entire, n, m
  <2> QED BY <2>1, <2>5, <2>6
<1> QED BY <1>6, <1>7, <1>8 DEF unit, of

LEMMA PlacedFirst ==
  ASSUME NEW rows \in Seq(Rows), NEW us, NEW first, Placed(us, rows, first)
  PROVE  /\ \A u \in 1..Len(us) : Min(At(rows, us[u][1].of)) = first[u]
         /\ \A u, v \in 1..Len(us) : u # v => us[u][1].of # us[v][1].of
<1>1. ASSUME NEW u \in 1..Len(us) PROVE Min(At(rows, us[u][1].of)) = first[u] /\ first[u] \in Nat
  <2> DEFINE f == first[u]
             S == At(rows, us[u][1].of)
             n == Len(us[u])
  <2>1. f \in Nat /\ n \in Nat \ {0} /\ S = f..f + n - 1
    BY DEF Placed
  <2> HIDE DEF f, S, n
  <2>2. f \in S /\ S \subseteq Nat /\ \A x \in S : f <= x /\ x \in Nat
    BY <2>1
  <2>3. Min(S) \in S /\ \A x \in S : Min(S) <= x
    BY <2>2, MinIs
  <2>4. Min(S) = f
    BY <2>1, <2>2, <2>3
  <2> QED BY <2>1, <2>4 DEF f, S
<1>2. ASSUME NEW u \in 1..Len(us), NEW v \in 1..Len(us), u < v PROVE us[u][1].of # us[v][1].of
  <2>1. first[u] < first[v]
    BY <1>2 DEF Placed
  <2> QED BY <1>1, <2>1
<1>3. ASSUME NEW u \in 1..Len(us), NEW v \in 1..Len(us), u # v PROVE us[u][1].of # us[v][1].of
  <2>1. u < v \/ v < u
    BY <1>3
  <2> QED BY <1>2, <2>1
<1> QED BY <1>1, <1>3

(* _apply_budget: a call that was asked for is seen, or what is newer      *)
(* takes every line.                                                       *)
LEMMA KeptShows ==
  ASSUME screen \in Screens, NEW requests, NEW rows \in Seq(Rows), Tidy(rows, requests),
         NEW i \in 1..Len(rows), Wanted(rows[i], requests)
  PROVE  /\ ApplyBudget(rows) \in Seq(Rows)
         /\ Seen(ApplyBudget(rows), rows[i].of,
                 {of \in Seq(Nat) : Min(At(rows, of)) > Min(At(rows, rows[i].of))},
                 VisibleRowCap(screen))
<1> DEFINE us == Units(rows)
           L == Len(us)
           cap == VisibleRowCap(screen)
           O(u) == us[u][1].of
           Ofs(x) == {O(u) : u \in x..L}
<1>1. us \in Seq(RowUnit) /\ \E first : Placed(us, rows, first)
  BY UnitsPlaced DEF Tidy
<1>2. PICK first : Placed(us, rows, first)
  BY <1>1
<1> HIDE DEF us
<1>3. L \in Nat
  BY <1>1
<1>4. PICK t \in 1..L : rows[i].of = O(t)
  BY <1>2 DEF Placed
<1>5. cap \in Nat \ {0}
  BY CapIs
<1>6. \A u \in 1..L : One(us[u], O(u)) /\ O(u) \in Seq(Nat)
  BY <1>2, UnitsOne
<1>7. Entire(us[t])
  BY <1>2, <1>4, UnitsOne DEF Tidy
<1>8. \A u \in 1..L : Min(At(rows, O(u))) = first[u]
  BY <1>2, PlacedFirst
<1>9. \A u, v \in 1..L : u # v => O(u) # O(v)
  BY <1>2, PlacedFirst
<1>10. \A u, v \in 1..L : u < v => first[v] > first[u]
  BY <1>2 DEF Placed
<1> DEFINE of == O(t)
           newer == Ofs(t + 1)
           Good(n, k) == /\ Only(k, Ofs(L - n + 1))
                         /\ n >= L - t + 1 => Seen(k, of, newer, cap)
           P == {p \in Nat \X Seq(Rows) : p[1] <= L => Good(p[1], p[2])}
<1> HIDE DEF cap, O, L
<1>11. <<0, <<>>>> \in P
  <2>1. <<>> \in Seq(Rows) /\ Only(<<>>, Ofs(L - 0 + 1))
    BY TidyNone
  <2>2. ~ (0 >= L - t + 1)
    BY <1>3
  <2>3. Good(0, <<>>)
    BY <2>1, <2>2
  <2>4. \A k \in Seq(Rows) : Good(0, k) => <<0, k>> \in P
    <3> HIDE DEF Good
    <3> QED OBVIOUS
  <2> HIDE DEF P, Good
  <2> QED BY <2>1, <2>3, <2>4, Zenon
<1>12. ASSUME NEW n \in 1..L, NEW k \in Seq(Rows), Good(n - 1, k)
       PROVE  Good(n, KeepUnit(us[L - n + 1], k))
  <2> DEFINE v == L - n + 1
             budget == cap - Lines(k)
             fitted == Fitted(us[v], budget)
  <2>1. v \in 1..L /\ L - (n - 1) + 1 = v + 1 /\ n \in Nat
    BY <1>3
  <2>2. Lines(k) \in Int /\ budget \in Int
    BY <1>5, LinesInt
  <2>3. KeepUnit(us[v], k) = fitted \o k
    BY DEF KeepUnit, cap
  <2>4. Only(k, Ofs(v + 1))
    BY <1>12, <2>1
  <2> HIDE DEF v, budget
  <2>5. fitted \in Seq(Rows) /\ Only(fitted, {O(v)})
    BY <1>6, <2>1, <2>2, FittedOnly
  <2>6. Only(fitted \o k, Ofs(v))
    <3>1. {O(v)} \cup Ofs(v + 1) \subseteq Ofs(v)
      BY <1>3, <2>1
    <3>2. \A x \in 1..Len(fitted \o k) :
            \/ x \in 1..Len(fitted) /\ (fitted \o k)[x] = fitted[x]
            \/ x - Len(fitted) \in 1..Len(k) /\ (fitted \o k)[x] = k[x - Len(fitted)]
      <4> HIDE DEF fitted
      <4> QED BY <2>5
    <3> HIDE DEF fitted, Ofs
    <3> QED BY <2>4, <2>5, <3>1, <3>2 DEF Only
  <2>7. ASSUME n >= L - t + 1 PROVE Seen(fitted \o k, of, newer, cap)
    <3>1. CASE v = t
      <4>1. At(k, of) = {}
        <5>1. of \notin Ofs(t + 1)
          <6>1. \A x \in t + 1..L : x \in 1..L /\ x # t
            BY <1>3
          <6> QED BY <1>9, <6>1
        <5> HIDE DEF Ofs, of
        <5> QED BY <2>4, <3>1, <5>1 DEF Only, At
      <4>2. Whole(fitted, of) \/ (fitted = <<>> /\ budget <= 0)
        BY <1>6, <1>7, <2>2, <3>1, FittedShows
      <4>3. CASE Whole(fitted, of)
        BY <2>5, <4>1, <4>3, WholeJoined DEF Seen
      <4>4. CASE fitted = <<>> /\ budget <= 0
        <5>1. fitted \o k = k
          BY <4>4
        <5>2. Lines(k) >= cap
          BY <1>5, <2>2, <4>4 DEF budget
        <5>3. k # <<>>
          BY <1>5, <5>2, LinesOfNone
        <5>4. 1 \in 1..Len(k) /\ SubSeq(k, 1, Len(k)) = k
          BY <5>3
        <5>5. \A j \in 1..Len(k) : k[j].of \in newer
          <6> HIDE DEF Ofs
          <6> QED BY <2>4, <3>1 DEF Only
        <5> HIDE DEF newer, of
        <5> QED BY <4>1, <5>1, <5>2, <5>4, <5>5 DEF Seen
      <4> QED BY <4>2, <4>3, <4>4
    <3>2. CASE v # t
      <4>1. n - 1 >= L - t + 1
        BY <1>3, <2>7, <3>2 DEF v
      <4>2. Seen(k, of, newer, cap)
        <5> HIDE DEF of, newer, Ofs
        <5> QED BY <1>12, <4>1
      <4>3. At(fitted, of) = {}
        <5>1. of # O(v)
          BY <1>9, <2>1, <3>2
        <5> HIDE DEF of, fitted
        <5> QED BY <2>5, <5>1 DEF Only, At
      <4> HIDE DEF of, newer, fitted
      <4> QED BY <2>5, <4>2, <4>3, SeenBelow
    <3> QED BY <3>1, <3>2
  <2> HIDE DEF fitted, Ofs, of, newer
  <2>8. Good(n, fitted \o k)
    BY <2>6, <2>7 DEF v
  <2> HIDE DEF Good
  <2> QED BY <2>3, <2>8 DEF v
<1>13. \A n \in 1..L : \A k \in Seq(Rows) :
         <<n - 1, k>> \in P => <<n, KeepUnit(us[L - n + 1], k)>> \in P
  <2> SUFFICES ASSUME NEW n \in 1..L, NEW k \in Seq(Rows), <<n - 1, k>> \in P
               PROVE  <<n, KeepUnit(us[L - n + 1], k)>> \in P
    OBVIOUS
  <2> HIDE DEF Good
  <2>1. n \in Nat /\ n - 1 <= L /\ L - n + 1 \in 1..L
    BY <1>3
  <2>2. Good(n - 1, k)
    <3>1. <<n - 1, k>>[1] = n - 1 /\ <<n - 1, k>>[2] = k
      OBVIOUS
    <3>2. <<n - 1, k>>[1] <= L => Good(<<n - 1, k>>[1], <<n - 1, k>>[2])
      OBVIOUS
    <3> QED BY <2>1, <3>1, <3>2
  <2>3. Good(n, KeepUnit(us[L - n + 1], k))
    BY <1>12, <2>2
  <2>4. KeepUnit(us[L - n + 1], k) \in Seq(Rows)
    <3>1. us[L - n + 1] \in RowUnit
      BY <1>1, <2>1 DEF L
    <3>2. VisibleRowCap(screen) - Lines(k) \in Int
      BY CapIs, LinesInt
    <3>3. Fitted(us[L - n + 1], VisibleRowCap(screen) - Lines(k)) \in Seq(Rows)
      BY <3>1, <3>2, FittedFits
    <3> QED BY <3>3 DEF KeepUnit
  <2> QED BY <2>1, <2>3, <2>4
<1> DEFINE kept == ApplyBudget(rows)
<1>14. kept \in Seq(Rows) /\ <<L, kept>> \in P
  <2> HIDE DEF P
  <2>1. Units(rows) = us
    BY DEF us
  <2> QED BY <1>1, <1>11, <1>13, <2>1, KeptAlong DEF L
<1>15. Good(L, kept)
  <2> HIDE DEF Good, kept
  <2>1. <<L, kept>>[1] <= L => Good(<<L, kept>>[1], <<L, kept>>[2])
    BY <1>14
  <2> QED BY <1>3, <2>1
<1> HIDE DEF P, kept
<1>16. Seen(kept, of, newer, cap)
  <2>1. L >= L - t + 1
    BY <1>3
  <2> HIDE DEF of, newer, Ofs
  <2> QED BY <1>15, <2>1
<1> DEFINE later == {o \in Seq(Nat) : Min(At(rows, o)) > Min(At(rows, of))}
<1>17. newer \subseteq later
  <2>1. \A x \in t + 1..L : x \in 1..L /\ t < x
    BY <1>3
  <2>2. ASSUME NEW x \in t + 1..L PROVE O(x) \in later
    BY <1>6, <1>8, <1>10, <2>1
  <2> QED BY <2>2
<1>18. rows[i].of = of
  BY <1>4
<1> HIDE DEF newer, later, of
<1>19. Seen(kept, of, later, cap)
  BY <1>16, <1>17 DEF Seen
<1> QED BY <1>14, <1>18, <1>19 DEF later, kept, cap

(* How many lines the reply is given does not change where rows stand.     *)
LEMMA SamePlaces ==
  ASSUME stream \in Streams, NEW rows \in Seq(Rows), NEW x \in Int, NEW y \in Int, NEW of
  PROVE  At(rows \o StreamRow(x), of) = At(rows \o StreamRow(y), of)
<1> DEFINE a == rows \o StreamRow(x)
           b == rows \o StreamRow(y)
           R == Len(rows)
           S == Len(StreamRow(x))
<1>1. /\ StreamRow(x) \in Seq(Rows) /\ Only(StreamRow(x), {<<0>>})
      /\ StreamRow(y) \in Seq(Rows) /\ Only(StreamRow(y), {<<0>>})
      /\ Len(StreamRow(y)) = S
  BY StreamIsOne
<1>2. R \in Nat /\ S \in Nat /\ Len(a) = R + S /\ Len(b) = R + S
  BY <1>1
<1>3. /\ \A k \in 1..R : a[k] = rows[k] /\ b[k] = rows[k]
      /\ \A k \in R + 1..R + S : a[k] = StreamRow(x)[k - R] /\ b[k] = StreamRow(y)[k - R]
  BY <1>1, <1>2
<1> HIDE DEF a, b, R, S
<1>4. \A k \in R + 1..R + S : StreamRow(x)[k - R].of = <<0>> /\ StreamRow(y)[k - R].of = <<0>>
  <2> SUFFICES ASSUME NEW k \in R + 1..R + S
               PROVE  StreamRow(x)[k - R].of = <<0>> /\ StreamRow(y)[k - R].of = <<0>>
    OBVIOUS
  <2>1. k - R \in 1..S
    BY <1>2
  <2>2. k - R \in 1..Len(StreamRow(x)) /\ k - R \in 1..Len(StreamRow(y))
    BY <1>1, <2>1 DEF S
  <2> QED BY <1>1, <2>2 DEF Only
<1>5. \A k \in 1..R + S : a[k].of = b[k].of
  <2> SUFFICES ASSUME NEW k \in 1..R + S PROVE a[k].of = b[k].of
    OBVIOUS
  <2>1. CASE k \in 1..R
    BY <1>3, <2>1
  <2>2. CASE k \in R + 1..R + S
    BY <1>3, <1>4, <2>2
  <2> QED BY <1>2, <2>1, <2>2
<1>6. At(a, of) = At(b, of)
  BY <1>2, <1>5 DEF At
<1> QED BY <1>6 DEF a, b

(* _render_conversation, whichever share the reply is given.               *)
LEMMA RenderedAsked ==
  ASSUME screen \in Screens, stream \in Streams, NEW requests,
         NEW rows \in Seq(Rows), Tidy(rows, requests), Only(rows, HistoryOfs),
         NEW r \in Range(rows \o StreamRow(1)), Wanted(r, requests)
  PROVE  LET offered == rows \o StreamRow(1) IN
         Seen(RenderConversation(rows), r.of,
              {of \in Seq(Nat) : Min(At(offered, of)) > Min(At(offered, r.of))},
              VisibleRowCap(screen))
<1> DEFINE cap == VisibleRowCap(screen)
           most == Max({3, cap - 3})
           third == Max({3, cap \div 3})
           offered == rows \o StreamRow(1)
           newer == {of \in Seq(Nat) : Min(At(offered, of)) > Min(At(offered, r.of))}
<1>1. cap \in Nat \ {0}
  BY CapIs
<1> HIDE DEF cap
<1>2. most \in Int /\ third \in Int
  <2>1. cap - 3 \in Int /\ cap \div 3 \in Int
    BY <1>1
  <2> QED BY <2>1, GreaterOfTwo
<1>3. PICK x \in {most, third} : RenderConversation(rows) = ApplyBudget(rows \o StreamRow(x))
  BY DEF RenderConversation, most, third, cap
<1> HIDE DEF most, third
<1>4. x \in Int
  BY <1>2, <1>3
<1>5. StreamRow(1) \in Seq(Rows) /\ StreamRow(x) \in Seq(Rows)
      /\ \A i \in 1..Len(StreamRow(1)) : ~ Wanted(StreamRow(1)[i], requests)
  <2>1. 1 \in Int
    OBVIOUS
  <2>2. \A n \in Int : StreamRow(n) \in Seq(Rows)
    BY StreamIsOne
  <2>3. \A n \in Int : \A i \in 1..Len(StreamRow(n)) : ~ Wanted(StreamRow(n)[i], requests)
    BY StreamIsOne
  <2> QED BY <1>4, <2>1, <2>2, <2>3
<1>6. PICK i \in 1..Len(rows) : rows[i] = r
  <2>1. PICK k \in 1..Len(offered) : offered[k] = r
    BY <1>5 DEF Range
  <2>2. CASE k \in 1..Len(rows)
    BY <1>5, <2>1, <2>2
  <2>3. CASE k \notin 1..Len(rows)
    <3>1. k - Len(rows) \in 1..Len(StreamRow(1)) /\ offered[k] = StreamRow(1)[k - Len(rows)]
      BY <1>5, <2>1, <2>3
    <3> QED BY <1>5, <2>1, <3>1
  <2> QED BY <2>2, <2>3
<1> DEFINE drawn == rows \o StreamRow(x)
<1>7. drawn \in Seq(Rows) /\ Tidy(drawn, requests)
  BY <1>4, OfferedTidy
<1>8. i \in 1..Len(drawn) /\ drawn[i] = r
  BY <1>5, <1>6
<1>9. \A of : At(drawn, of) = At(offered, of)
  BY <1>4, SamePlaces
<1> HIDE DEF drawn, offered
<1>10. Seen(ApplyBudget(drawn), r.of,
            {of \in Seq(Nat) : Min(At(drawn, of)) > Min(At(drawn, r.of))}, VisibleRowCap(screen))
  BY <1>7, <1>8, KeptShows
<1>11. {of \in Seq(Nat) : Min(At(drawn, of)) > Min(At(drawn, r.of))} = newer
  BY <1>9
<1> HIDE DEF newer
<1>12. Seen(RenderConversation(rows), r.of, newer, VisibleRowCap(screen))
  BY <1>3, <1>10, <1>11 DEF drawn
<1> QED BY <1>12 DEF newer, offered

-----------------------------------------------------------------------------
(* What is drawn is made of rows that fit the screen it was made for; the  *)
(* bar beside it was measured when the frame was begun, and may since have *)
(* lost or taken the one line the cap keeps free.  The rows of the history *)
(* are kept with the requests they were built for.                         *)
Measured(d) == d.bar \in 1..2 /\ d.todos \in Nat
Arranged(h) == h.rows \in Seq(Rows) /\ Tidy(h.rows, h.asked) /\ Only(h.rows, HistoryOfs)
Drawn(f) ==
  /\ f.bar \in 1..2 /\ f.todos \in Nat /\ f.screen \in Screens
  /\ f.rows \in Seq(Rows) /\ Lines(f.rows) <= VisibleRowCap(f.screen)
Shown == last_messages \in Seq(ShownMessages) /\ added \in Nat /\ round_start \in Nat
PanelInv ==
  /\ Shown /\ Numbered /\ stream \in Streams /\ screen \in Screens
  /\ Arranged(history_cache)
  /\ drawing # NotDrawing => Measured(drawing) /\ Arranged(drawing.history)
  /\ Drawn(frame) /\ AskedIsShown

(* Rows that print no taller than counted take no more lines than counted. *)
LEMMA PrintedNoTaller ==
  ASSUME NEW rows \in Seq(Rows), rows # <<>>, CountedInFull(rows)
  PROVE  Printed(rows) \in Int /\ Printed(rows) <= Lines(rows)
<1> DEFINE L == Len(rows)
           done == [i \in 1..L |-> [rows[i] EXCEPT !.lines = PrintedRow(rows[i])]]
<1>1. L \in Nat
  OBVIOUS
<1>2. ASSUME NEW i \in 1..L
      PROVE  /\ rows[i] \in Rows /\ rows[i].lines \in Int
             /\ PrintedRow(rows[i]) \in Int /\ PrintedRow(rows[i]) <= rows[i].lines
  <2>1. rows[i] \in Rows /\ rows[i].lines \in Int
    BY LinesOf
  <2>2. PrintedRow(rows[i]) \in 0..rows[i].lines
    BY DEF CountedInFull
  <2> QED BY <2>1, <2>2
<1>3. ASSUME NEW i \in 1..L
      PROVE  [rows[i] EXCEPT !.lines = PrintedRow(rows[i])] \in Rows
             /\ [rows[i] EXCEPT !.lines = PrintedRow(rows[i])].lines = PrintedRow(rows[i])
  <2>1. rows[i] \in Rows /\ PrintedRow(rows[i]) \in Int
    BY <1>2
  <2> QED BY <2>1 DEF Rows
<1>4. /\ done \in Seq(Rows) /\ Len(done) = L
      /\ \A i \in 1..L : done[i].lines = PrintedRow(rows[i])
  <2>1. done \in [1..L -> Rows]
    BY <1>3
  <2>2. \A i \in 1..L : done[i].lines = PrintedRow(rows[i])
    BY <1>3
  <2> HIDE DEF done
  <2> QED BY <1>1, <2>1, <2>2
<1>5. Printed(rows) = Lines(done)
  BY DEF Printed
<1> HIDE DEF done, L
<1>6. PICK g \in [0..L -> Int] : Sums(g, rows) /\ Lines(rows) = g[L]
  BY LinesSum DEF L
<1>7. PICK h \in [0..L -> Int] : Sums(h, done) /\ Lines(done) = h[L]
  BY <1>4, LinesSum
<1>8. \A i \in 0..L : i \in {j \in 0..L : h[j] <= g[j]}
  <2> DEFINE S == {j \in 0..L : h[j] <= g[j]}
  <2>1. 0 \in S
    BY <1>1, <1>6, <1>7 DEF Sums
  <2>2. ASSUME NEW i \in 1..L, i - 1 \in S PROVE i \in S
    <3>1. g[i] = g[i - 1] + rows[i].lines /\ h[i] = h[i - 1] + PrintedRow(rows[i])
      BY <1>4, <1>6, <1>7 DEF Sums, L
    <3>2. i \in 0..L /\ i - 1 \in 0..L /\ g[i - 1] \in Int /\ h[i - 1] \in Int /\ h[i - 1] <= g[i - 1]
      BY <1>1, <1>6, <1>7, <2>2
    <3> QED BY <1>2, <3>1, <3>2
  <2> HIDE DEF S
  <2>3. \A i \in 0..L : i \in S
    BY <1>1, <2>1, <2>2, StepByStep
  <2> QED BY <2>3 DEF S
<1>9. L \in 0..L
  BY <1>1
<1> QED BY <1>5, <1>6, <1>7, <1>8, <1>9

LEMMA DrawnFits ==
  ASSUME Drawn(frame)
  PROVE  FrameFits
<1> DEFINE s == frame.screen
<1>1. /\ s.height \in Nat /\ s.status \in 1..2 /\ TodoLines(s) \in Nat
      /\ s.height > s.status + 1 + TodoLines(s)
           => VisibleRowCap(s) = s.height - (s.status + 1 + TodoLines(s))
  BY CapIs DEF Drawn
<1>2. Lines(frame.rows) \in Int /\ Lines(frame.rows) <= VisibleRowCap(s)
      /\ frame.bar \in 1..2 /\ frame.todos \in Nat
  BY LinesInt DEF Drawn
<1>3. ASSUME CountedInFull(frame.rows), HasRoom(frame)
      PROVE  WithinScreen(frame)
  <2>1. frame.todos <= TodoLines(s) /\ s.height > s.status + 1 + TodoLines(s)
    BY <1>3 DEF HasRoom
  <2>2. Printed(frame.rows) \in Int /\ Printed(frame.rows) <= VisibleRowCap(s)
    <3>1. CASE frame.rows = <<>>
      <4>1. Printed(frame.rows) = 1
        BY <3>1 DEF Printed
      <4> HIDE DEF s
      <4> QED BY <1>1, <2>1, <4>1
    <3>2. CASE frame.rows # <<>>
      <4>1. Printed(frame.rows) \in Int /\ Printed(frame.rows) <= Lines(frame.rows)
        BY <1>3, <3>2, PrintedNoTaller DEF Drawn
      <4>2. VisibleRowCap(s) \in Nat
        BY CapIs DEF Drawn
      <4> HIDE DEF s
      <4> QED BY <1>2, <4>1, <4>2
    <3> QED BY <3>1, <3>2
  <2>3. WithinScreen(frame) <=> frame.bar + frame.todos + Printed(frame.rows) <= s.height
    BY DEF WithinScreen
  <2> HIDE DEF s
  <2> QED BY <1>1, <1>2, <2>1, <2>2, <2>3
<1> QED BY <1>3 DEF FrameFits

LEMMA PanelBegins == PanelInit => PanelInv
<1> SUFFICES ASSUME PanelInit PROVE PanelInv
  OBVIOUS
<1> USE DEF PanelInit
<1>1. Shown
  <2>1. <<>> \in Seq(ShownMessages)
    OBVIOUS
  <2> QED BY <2>1 DEF Shown
<1>2. Numbered
  BY DEF Numbered
<1>3. stream \in Streams
  BY DEF Streams
<1>4. screen \in Screens
  BY DEF Screens
<1>5. <<>> \in Seq(Rows)
  OBVIOUS
<1>6. Arranged(history_cache)
  BY <1>5, TidyNone DEF Arranged
<1>7. Drawn(frame)
  <2>1. frame.bar = 1 /\ frame.todos = 0 /\ frame.screen = screen /\ frame.rows = <<>>
    OBVIOUS
  <2>2. 0 <= VisibleRowCap(screen)
    BY <1>4, CapIs
  <2> QED BY <1>4, <1>5, <2>1, <2>2, LinesOfNone DEF Drawn
<1>8. AskedIsShown
  <2>1. frame.offered = <<>> /\ DOMAIN <<>> = {}
    OBVIOUS
  <2>2. Range(frame.offered) = {}
    BY <2>1 DEF Range
  <2> QED BY <2>2 DEF AskedIsShown
<1> QED BY <1>1, <1>2, <1>3, <1>4, <1>6, <1>7, <1>8 DEF PanelInv

LEMMA PanelKeeps == PanelInv /\ [PanelNext]_panelVars => PanelInv'
<1> SUFFICES ASSUME PanelInv, [PanelNext]_panelVars PROVE PanelInv'
  OBVIOUS
<1>0. /\ Shown /\ Numbered /\ stream \in Streams /\ screen \in Screens
      /\ Arranged(history_cache)
      /\ drawing # NotDrawing => Measured(drawing) /\ Arranged(drawing.history)
      /\ Drawn(frame) /\ AskedIsShown
  BY DEF PanelInv
<1>1. ASSUME UNCHANGED frame PROVE Drawn(frame)' /\ AskedIsShown'
  BY <1>0, <1>1 DEF Drawn, AskedIsShown
<1>2. ASSUME UNCHANGED history_cache PROVE Arranged(history_cache)'
  BY <1>0, <1>2 DEF Arranged
<1>3. ASSUME UNCHANGED drawing
      PROVE  (drawing # NotDrawing => Measured(drawing) /\ Arranged(drawing.history))'
  BY <1>0, <1>3 DEF Arranged, Measured
<1>4. ASSUME UNCHANGED <<last_messages, added, round_start>> PROVE Shown' /\ Numbered'
  BY <1>0, <1>4 DEF Shown, Numbered
<1>5. ASSUME NEW m \in [injected : BOOLEAN, lines : Nat, calls : Seq(Args), printed : Nat]
      PROVE  Identified(m) \in ShownMessages /\ Identified(m).id = added + 1
  BY <1>0 DEF Identified, ShownMessages, Shown
<1>6. ASSUME NEW msgs \in Seq(ShownMessages), Notified(msgs), Numbered' PROVE PanelInv'
  <2>1. Shown'
    BY <1>0, <1>6 DEF Notified, Shown
  <2>2. stream' \in Streams /\ screen' \in Screens
    BY <1>0, <1>6 DEF Notified, Streams, Screens
  <2>3. UNCHANGED <<history_cache, drawing, frame>>
    BY <1>6 DEF Notified
  <2> QED BY <1>1, <1>2, <1>3, <1>6, <2>1, <2>2, <2>3 DEF PanelInv
<1>7. CASE AddMessage
  <2>1. PICK m \in PanelMessages : Notified(Append(last_messages, Identified(m)))
    BY <1>7 DEF AddMessage
  <2> DEFINE new == Identified(m)
             L == Len(last_messages)
  <2>2. m \in [injected : BOOLEAN, lines : Nat, calls : Seq(Args), printed : Nat]
    BY ShownAssumption DEF Args
  <2>3. new \in ShownMessages /\ new.id = added + 1
    BY <1>5, <2>2
  <2> HIDE DEF new
  <2>4. Append(last_messages, new) \in Seq(ShownMessages)
    BY <1>0, <2>3 DEF Shown
  <2>5. Numbered'
    <3>1. last_messages' = Append(last_messages, new) /\ added' = added + 1
      BY <2>1 DEF Notified, new
    <3>2. /\ L \in Nat /\ added \in Nat /\ Len(last_messages') = L + 1
          /\ \A i \in 1..L : last_messages'[i] = last_messages[i]
          /\ last_messages'[L + 1] = new
      BY <1>0, <3>1 DEF Shown
    <3>3. /\ \A i \in 1..L : last_messages[i].id \in 1..added
          /\ \A i, j \in 1..L : last_messages[i].id = last_messages[j].id => i = j
      BY <1>0 DEF Numbered
    <3>4. /\ \A i \in 1..L : last_messages'[i].id = last_messages[i].id
          /\ last_messages'[L + 1].id = added + 1
      BY <2>3, <3>2
    <3> HIDE DEF L
    <3>5. \A i \in 1..L + 1 : last_messages'[i].id \in 1..added + 1
      <4> SUFFICES ASSUME NEW i \in 1..L + 1 PROVE last_messages'[i].id \in 1..added + 1
        OBVIOUS
      <4>1. CASE i \in 1..L
        BY <3>2, <3>3, <3>4, <4>1
      <4>2. CASE i = L + 1
        BY <3>2, <3>4, <4>2
      <4> QED BY <3>2, <4>1, <4>2
    <3>6. \A i, j \in 1..L + 1 : last_messages'[i].id = last_messages'[j].id => i = j
      <4> SUFFICES ASSUME NEW i \in 1..L + 1, NEW j \in 1..L + 1,
                          last_messages'[i].id = last_messages'[j].id
                   PROVE  i = j
        OBVIOUS
      <4>1. \A k \in 1..L : last_messages'[k].id # added + 1
        <5> SUFFICES ASSUME NEW k \in 1..L PROVE last_messages'[k].id # added + 1
          OBVIOUS
        <5>1. last_messages'[k].id \in 1..added
          BY <3>3, <3>4
        <5> QED BY <3>2, <5>1
      <4>2. (i \in 1..L \/ i = L + 1) /\ (j \in 1..L \/ j = L + 1)
        BY <3>2
      <4>3. CASE i \in 1..L /\ j \in 1..L
        BY <3>3, <3>4, <4>3
      <4> QED BY <3>4, <4>1, <4>2, <4>3
    <3> QED BY <3>1, <3>2, <3>5, <3>6 DEF Numbered
  <2> QED BY <1>6, <2>1, <2>4, <2>5 DEF new
<1>8. CASE CompactHistory
  <2> DEFINE summary == [injected |-> FALSE, lines |-> 1, calls |-> <<>>, printed |-> 1]
             new == Identified(summary)
  <2>1. summary \in [injected : BOOLEAN, lines : Nat, calls : Seq(Args), printed : Nat]
    <3>1. <<>> \in Seq(Args)
      OBVIOUS
    <3> QED BY <3>1
  <2>2. Notified(<<new>>)
    BY <1>8 DEF CompactHistory
  <2> HIDE DEF summary
  <2>3. new \in ShownMessages /\ new.id = added + 1
    BY <1>5, <2>1
  <2> HIDE DEF new
  <2>4. <<new>> \in Seq(ShownMessages)
    BY <2>3
  <2>5. Numbered'
    <3>1. last_messages' = <<new>> /\ added' = added + 1 /\ added \in Nat
      BY <1>0, <2>2 DEF Notified, Shown
    <3>2. Len(last_messages') = 1 /\ last_messages'[1] = new
      BY <3>1
    <3>3. added + 1 \in Nat /\ added + 1 \in 1..added + 1 /\ \A i \in 1..1 : i = 1
      BY <3>1
    <3> QED BY <2>3, <3>1, <3>2, <3>3 DEF Numbered
  <2> QED BY <1>6, <2>2, <2>4, <2>5
<1>9. CASE OnDelta
  <2>1. stream' \in Streams /\ screen' \in Screens
    BY <1>0, <1>9 DEF OnDelta, Streams, Screens
  <2>2. UNCHANGED <<last_messages, added, round_start, history_cache, drawing, frame>>
    BY <1>9 DEF OnDelta
  <2> QED BY <1>1, <1>2, <1>3, <1>4, <2>1, <2>2 DEF PanelInv
<1>10. CASE ScreenChanges
  <2>1. screen' \in Screens /\ stream' \in Streams
    BY <1>0, <1>10 DEF ScreenChanges, Screens, Streams
  <2>2. UNCHANGED <<last_messages, added, round_start, history_cache, drawing, frame>>
    BY <1>10 DEF ScreenChanges
  <2> QED BY <1>1, <1>2, <1>3, <1>4, <2>1, <2>2 DEF PanelInv
<1>11. CASE BeginFrame
  <2> DEFINE built == [rows |-> BuildHistoryRows, asked |-> expanded_tools]
             history == IF history_dirty THEN built ELSE history_cache
  <2>1. Arranged(built)
    BY <1>0, HistoryTidy DEF Arranged, Shown
  <2> HIDE DEF built
  <2>2. Arranged(history)
    BY <1>0, <2>1
  <2>3. drawing' = [bar |-> screen.status, todos |-> TodoLines(screen), built |-> history_dirty,
                    history |-> history]
    BY <1>11 DEF BeginFrame, built
  <2> HIDE DEF history
  <2>4. drawing'.bar = screen.status /\ drawing'.todos = TodoLines(screen)
        /\ drawing'.history = history
    BY <2>3
  <2>5. Measured(drawing')
    BY <1>0, <2>4, CapIs DEF Measured
  <2>6. Measured(drawing)' /\ Arranged(drawing.history)'
    BY <2>2, <2>4, <2>5 DEF Measured, Arranged
  <2>7. UNCHANGED <<last_messages, added, round_start, stream, screen, history_cache, frame>>
    BY <1>11 DEF BeginFrame
  <2>8. stream' \in Streams /\ screen' \in Screens
    BY <1>0, <2>7 DEF Streams, Screens
  <2> QED BY <1>1, <1>2, <1>4, <2>6, <2>7, <2>8 DEF PanelInv
<1>12. CASE EndFrame
  <2> DEFINE history == drawing.history
             offered == history.rows \o StreamRow(1)
             rows == RenderConversation(history.rows)
  <2>1. drawing # NotDrawing /\ Measured(drawing) /\ Arranged(history)
    BY <1>0, <1>12 DEF EndFrame
  <2>2. history.rows \in Seq(Rows)
    BY <2>1 DEF Arranged
  <2>3. rows \in Seq(Rows) /\ Lines(rows) <= VisibleRowCap(screen)
    BY <1>0, <2>2, RenderedFits
  <2>4. \A r \in Range(offered) : Wanted(r, history.asked) =>
          Seen(rows, r.of, {of \in Seq(Nat) : Min(At(offered, of)) > Min(At(offered, r.of))},
               VisibleRowCap(screen))
    BY <1>0, <2>1, RenderedAsked DEF Arranged
  <2>5. /\ frame'.screen = screen /\ frame'.bar = drawing.bar /\ frame'.todos = drawing.todos
        /\ frame'.rows = rows /\ frame'.asked = history.asked /\ frame'.offered = offered
    BY <1>12 DEF EndFrame
  <2> HIDE DEF rows, offered
  <2>6. Drawn(frame)'
    <3>1. Drawn(frame')
      BY <1>0, <2>1, <2>3, <2>5 DEF Drawn, Measured
    <3> QED BY <3>1 DEF Drawn
  <2>7. AskedIsShown'
    <3> DEFINE place(of) == Min(At(offered, of))
    <3>1. ASSUME NEW r \in Range(offered), r.of \in history.asked /\ (r.args # <<>> \/ r.shape = "value")
          PROVE  \/ Whole(rows, r.of)
                 \/ /\ At(rows, r.of) = {}
                    /\ \E k \in 1..Len(rows) :
                         /\ \A j \in k..Len(rows) : place(rows[j].of) > place(r.of)
                         /\ Lines(SubSeq(rows, k, Len(rows))) >= VisibleRowCap(screen)
      <4>1. Seen(rows, r.of, {of \in Seq(Nat) : place(of) > place(r.of)}, VisibleRowCap(screen))
        BY <2>4, <3>1 DEF Wanted
      <4> HIDE DEF place
      <4> QED BY <4>1 DEF Seen
    <3> HIDE DEF history
    <3> QED BY <2>5, <3>1 DEF AskedIsShown
  <2>8. Arranged(history_cache)'
    BY <1>12, <2>1 DEF EndFrame, Arranged
  <2>9. drawing' = NotDrawing /\ UNCHANGED <<last_messages, added, round_start, stream, screen>>
    BY <1>12 DEF EndFrame
  <2>10. stream' \in Streams /\ screen' \in Screens
    BY <1>0, <2>9 DEF Streams, Screens
  <2> QED BY <1>4, <2>6, <2>7, <2>8, <2>9, <2>10 DEF PanelInv
<1>13. CASE Click
  <2>1. UNCHANGED <<last_messages, added, round_start, stream, screen, history_cache, drawing, frame>>
    BY <1>13 DEF Click
  <2>2. stream' \in Streams /\ screen' \in Screens
    BY <1>0, <2>1 DEF Streams, Screens
  <2> QED BY <1>1, <1>2, <1>3, <1>4, <2>1, <2>2 DEF PanelInv
<1>14. CASE UNCHANGED panelVars
  <2>1. UNCHANGED <<last_messages, added, round_start, stream, screen, history_cache, drawing, frame>>
    BY <1>14 DEF panelVars
  <2>2. stream' \in Streams /\ screen' \in Screens
    BY <1>0, <2>1 DEF Streams, Screens
  <2> QED BY <1>1, <1>2, <1>3, <1>4, <2>1, <2>2 DEF PanelInv
<1> QED BY <1>7, <1>8, <1>9, <1>10, <1>11, <1>12, <1>13, <1>14 DEF PanelNext

(* Whatever the messages, the replies and the sizes of the terminal, the   *)
(* frame _render_frame draws prints no taller than the terminal, though    *)
(* the bar, the Todos and the size change while it is drawn, as long as no *)
(* text in it prints taller than _est_lines counted.                       *)
THEOREM FrameFitsTheTerminal == PanelSpec => []FrameFits
<1>1. PanelInv => FrameFits
  BY DrawnFits DEF PanelInv
<1> QED BY <1>1, PanelBegins, PanelKeeps, PTL DEF PanelSpec

(* Whatever the messages and the clicks, a call the user asked to see in   *)
(* the frame _render_frame draws is there whole or by its marked stand-in, *)
(* unless rows newer than it have taken every line.                        *)
THEOREM AskedCallsAreShown == PanelSpec => []AskedIsShown
<1>1. PanelInv => AskedIsShown
  BY DEF PanelInv
<1> QED BY <1>1, PanelBegins, PanelKeeps, PTL DEF PanelSpec
===============================================================================
