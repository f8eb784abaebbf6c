--------------------------- MODULE AgentLoopProofs ---------------------------
(* The safety of a run, for every conversation, budget and interleaving.   *)
EXTENDS AgentLoop, ConversationProofs

-----------------------------------------------------------------------------
(* The inductive invariant, in the parts the steps disturb separately.     *)

WaitPcs == {"wait", "compact", "chat"}
DispatchPcs == {"dispatch", "start", "sync", "collect"}
TretPcs == {"deliver", "append"}
EndPcs == {"terminal", "commit", "title", "notify", "over"}

(* The worker is inside the handler of the machine's state.                *)
PcMatchesState ==
  /\ pc \in WaitPcs => state = "WAIT"
  /\ pc = "tool" \/ pc \in DispatchPcs => state = "TOOL"
  /\ pc \in TretPcs => state = "TRET"
  /\ pc = "supervise" => state = "SUPERVISE"
  /\ pc \in EndPcs => state \in TerminalStates
  /\ pc = "route" => state \notin TerminalStates

(* How much of the last round the conversation holds at each place.        *)
ConversationShape ==
  /\ InOrder(messages)
  /\ pc \in WaitPcs \cup {"supervise"} => Closed(messages)
  /\ pc = "route" /\ state = "WAIT" =>
       /\ "compacted" \in info => "tool_calls" \notin info
       /\ IF "tool_calls" \in info THEN OpenRound(messages, Len(round), 0)
                                   ELSE Closed(messages)
  /\ pc = "route" /\ state = "SUPERVISE" => Closed(messages)
  /\ state = "TOOL" => OpenRound(messages, Len(round), 0)
  /\ pc \in TretPcs => OpenRound(messages, Len(round), at - 1)
  /\ pc = "append" => at \in Calls
  /\ pc = "route" /\ state = "TRET" /\ ~Stopped => Closed(messages)

(* The round's results: nothing is left queued behind the loop, and TRET   *)
(* is reached with every result in hand.                                   *)
ResultsInHand ==
  /\ pending /\ "tool_result" \in info
  /\ Len(status) = Len(round)
  /\ \A k \in Calls : status[k] \in Resolved

RoundProgress ==
  /\ pc \in DispatchPcs => pending /\ Len(status) = Len(round)
  /\ pc = "tool" => at = 1
  /\ pc \in {"start", "sync"} => at \in Calls
  /\ pc \in DispatchPcs => \A k \in Calls : k < at \/ pc = "collect" => status[k] # "queued"
  /\ pc = "collect" => \A k \in Calls : k < at => status[k] \in Resolved
  /\ pc \in TretPcs \/ (pc = "route" /\ state = "TOOL" /\ ~Stopped) => ResultsInHand

(* Calls wait in the pool only in a readonly round, and a sequential round *)
(* starts at most the call that was already past its check.                *)
LateStarts ==
  /\ \A k \in DOMAIN status :
        status[k] = "submitted" => Parallel /\ pc \in {"dispatch", "start", "collect"}
  /\ ~Stopped => lateStarts = 0
  /\ ~Parallel /\ pc = "start" => lateStarts = 0
  /\ ~Parallel => lateStarts <= 1

(* Every tool round was paid for by a WAIT that counted.                   *)
RoundsPaid ==
  Budgeted =>
    /\ toolRounds <= rounds /\ rounds <= MaxRounds
    /\ pc \in {"compact", "chat"} => toolRounds < rounds

(* What the finally block committed is the salvaged conversation.          *)
SalvageCommitted ==
  pc \in {"title", "notify", "over"} /\ TopLevel /\ ~stale => lastMessages = Salvage(messages)

(* The supervisor's counter and the nudges it stands for.  They part when  *)
(* a round begins, which resets the counter, and meet again once its first *)
(* result is in the conversation: a round has at least one call.           *)
NudgeBalance ==
  /\ nudges <= MaxNudges
  /\ state \in {"WAIT", "SUPERVISE"} => Cardinality(RecentNudges(messages)) = nudges
  /\ \/ pc \in DispatchPcs \cup TretPcs
     \/ pc = "route" /\ state \in {"TOOL", "TRET"}
     => nudges = 0
  /\ pc \in TretPcs /\ at > 1 => RecentNudges(messages) = {}
  /\ pc = "route" /\ state = "TRET" /\ ~Stopped => RecentNudges(messages) = {}
  /\ pc = "route" /\ state = "WAIT" /\ "tool_calls" \in info => round # <<>>
  /\ state \in {"TOOL", "TRET"} => round # <<>>

IInv ==
  /\ TypeOK /\ PcMatchesState /\ ConversationShape /\ RoundProgress
  /\ LateStarts /\ RoundsPaid /\ SalvageCommitted /\ FileHoldsHistory

-----------------------------------------------------------------------------
(* Type correctness.                                                       *)

LEMMA InitTypeOK == Init => TypeOK
<1> SUFFICES ASSUME Init PROVE TypeOK
  OBVIOUS
<1>1. messages \in Seq(Message)
  BY ConversationsAssumption DEF Init
<1>2. ConversationTypes
  BY <1>1 DEF Init, ConversationTypes
<1>3. CounterTypes
  BY BoundsAssumption DEF Init, CounterTypes
<1>4. ControlTypes
  BY DEF Init, ControlTypes, States, Pcs, Results
<1>5. FlagTypes
  BY DEF Init, FlagTypes
<1> QED BY <1>2, <1>3, <1>4, <1>5 DEF TypeOK

(* The next machine state is always one of the machine's states.           *)
LEMMA NextStateType ==
  ASSUME ControlTypes, state \notin TerminalStates
  PROVE  NextState \in States
<1>1. state \in {"WAIT", "TOOL", "TRET", "SUPERVISE"}
  BY DEF ControlTypes, States
<1> QED BY <1>1 DEF NextState, States, TerminalStates

LEMMA HandlerType ==
  ASSUME NEW s \in States
  PROVE  HandlerOf(s) \in {"wait", "tool", "deliver", "supervise", "terminal"}
BY DEF HandlerOf, States, TerminalStates

LEMMA StatusUpdate ==
  ASSUME NEW s \in Seq(CallStatus), NEW k, NEW v, k \in 1..Len(s) => v \in CallStatus
  PROVE  /\ [s EXCEPT ![k] = v] \in Seq(CallStatus)
         /\ Len([s EXCEPT ![k] = v]) = Len(s)
         /\ \A i \in 1..Len(s) : [s EXCEPT ![k] = v][i] = IF i = k THEN v ELSE s[i]
<1> DEFINE t == [s EXCEPT ![k] = v]
<1>1. Len(s) \in Nat /\ s \in [1..Len(s) -> CallStatus] /\ DOMAIN s = 1..Len(s)
  OBVIOUS
<1>2. t = [i \in 1..Len(s) |-> IF i = k THEN v ELSE s[i]]
  BY <1>1
<1> HIDE DEF t
<1>3. t \in [1..Len(s) -> CallStatus]
  BY <1>1, <1>2
<1>4. t \in Seq(CallStatus) /\ Len(t) = Len(s)
  BY <1>1, <1>3
<1>5. \A i \in 1..Len(s) : t[i] = IF i = k THEN v ELSE s[i]
  BY <1>2
<1> QED BY <1>4, <1>5 DEF t

(* The steps that add to or replace the conversation.                      *)
LEMMA NextConversationTypes ==
  ASSUME TypeOK, PcMatchesState, ConversationShape, [Next]_vars
  PROVE  ConversationTypes'
<1> USE DEF TypeOK, ConversationTypes, toolVars, sessionVars
<1>1. CASE WaitSends
  <2>1. Closed(messages) /\ reminders \in Nat
    BY <1>1 DEF WaitSends, ConversationShape, WaitPcs, CounterTypes
  <2>2. messages' \in Seq(Message)
    BY <1>1, <2>1, FlagsAssumption, InjectedIsClosed DEF WaitSends
  <2> QED BY <1>1, <2>2 DEF WaitSends
<1>2. CASE CompactSucceeds
  BY <1>2, CompactedIsClosed DEF CompactSucceeds
<1>3. ASSUME NEW text \in BOOLEAN, NEW r \in Rounds \cup {<<>>}, ChatAnswers(text, r)
      PROVE  ConversationTypes'
  <2>1. r \in Seq(Kinds) /\ Len(r) \in Nat
    <3>1. CASE r = <<>>
      BY <3>1
    <3>2. CASE r \in Rounds
      <4>1. r \in Seq(Kinds)
        BY <3>2, RoundsAssumption
      <4> QED BY <4>1
    <3> QED BY <3>1, <3>2
  <2>2. messages' \in Seq(Message)
    BY <1>3, <2>1, MessageKinds, AppendedMessage DEF ChatAnswers
  <2> QED BY <1>3, <2>1, <2>2 DEF ChatAnswers, Save, Mirror
<1>4. CASE ToolBegins
  <2>1. status' \in Seq(CallStatus)
    BY <1>4 DEF ToolBegins, CallStatus
  <2> QED BY <1>4, <2>1 DEF ToolBegins, Mirror
<1>5. CASE CheckCall
  BY <1>5 DEF CheckCall, CallStatus, Resolved
<1>6. CASE RefuseCall \/ StartCall \/ SubmitCall
  BY <1>6 DEF RefuseCall, StartCall, SubmitCall, CallStatus, Resolved
<1>7. ASSUME NEW outcome \in {"ok", "failed"}, SyncCallEnds(outcome) \/ CollectCall(outcome)
      PROVE  ConversationTypes'
  <2>1. outcome \in CallStatus
    BY DEF CallStatus, Resolved
  <2>2. CASE SyncCallEnds(outcome)
    BY <2>1, <2>2, StatusUpdate DEF SyncCallEnds
  <2>3. CASE CollectCall(outcome)
    <3>1. \/ status' = [status EXCEPT ![at] = outcome]
          \/ status' = [status EXCEPT ![at] = status[at]]
      BY <2>3 DEF CollectCall
    <3>2. status' \in Seq(CallStatus)
      <4>1. CASE status' = [status EXCEPT ![at] = outcome]
        BY <2>1, <4>1, StatusUpdate
      <4>2. CASE status' = [status EXCEPT ![at] = status[at]]
        <5>1. at \in 1..Len(status) => status[at] \in CallStatus
          OBVIOUS
        <5> QED BY <4>2, <5>1, StatusUpdate
      <4> QED BY <3>1, <4>1, <4>2
    <3> QED BY <2>3, <3>2 DEF CollectCall
  <2> QED BY <1>7, <2>2, <2>3
<1>8. CASE DeliverResult
  <2>1. messages' \in Seq(Message)
    BY <1>8, MessageKinds, AppendedMessage DEF DeliverResult, CounterTypes
  <2> QED BY <1>8, <2>1 DEF DeliverResult
<1>9. CASE Supervise
  <2>1. Append(messages, Plain("nudge")) \in Seq(Message)
    BY MessageKinds, AppendedMessage DEF Roles, UserSide
  <2> QED BY <1>9, <2>1 DEF Supervise
<1>10. CASE Commit
  BY <1>10, SalvagedIsClosed DEF Commit, Save, ConversationShape
<1>11. CASE FlushAfterTitle
  BY <1>11, SalvagedIsClosed DEF FlushAfterTitle, Save, ConversationShape
<1>12. ASSUME NEW k \in Calls, PoolStartsCall(k) \/ BackgroundCallEnds(k)
       PROVE  ConversationTypes'
  <2>1. "running" \in CallStatus /\ "ended" \in CallStatus
    BY DEF CallStatus
  <2>2. CASE PoolStartsCall(k)
    BY <2>1, <2>2 DEF PoolStartsCall
  <2>3. CASE BackgroundCallEnds(k)
    BY <2>1, <2>3 DEF BackgroundCallEnds
  <2> QED BY <1>12, <2>2, <2>3
<1>13. CASE UNCHANGED <<messages, lastMessages, saved, round, status>>
  BY <1>13
<1>14. CASE WaitOutOfBudget \/ WaitOutOfTime \/ WaitCancelled \/ CompactFails \/ ChatFails
  BY <1>14 DEF WaitOutOfBudget, WaitOutOfTime, WaitCancelled, CompactFails, ChatFails
<1>15. CASE Route \/ DispatchEnds \/ ToolEnds \/ CheckDelivery
  BY <1>15 DEF Route, DispatchEnds, ToolEnds, CheckDelivery
<1>16. CASE RecordResult \/ SkipCommit \/ NotifyDone
  BY <1>16 DEF RecordResult, SkipCommit, NotifyDone
<1>17. CASE User
  BY <1>17 DEF User, Cancel, Supersede, CloseSession, workVars
<1>18. CASE UNCHANGED vars
  BY <1>18 DEF vars
<1> QED
  BY <1>1, <1>2, <1>3, <1>4, <1>5, <1>6, <1>7, <1>8, <1>9, <1>10, <1>11, <1>12, <1>14,
     <1>15, <1>16, <1>17, <1>18
  DEF Next, Worker, Background, Finished, Wait, Compact, Chat, Tool, Tret, End

LEMMA NextControlTypes ==
  ASSUME TypeOK, PcMatchesState, [Next]_vars
  PROVE  ControlTypes'
<1> USE DEF TypeOK, ControlTypes, endVars
<1>1. CASE Wait
  BY <1>1 DEF Wait, WaitOutOfBudget, WaitOutOfTime, WaitCancelled, WaitSends, Pcs, InfoKeys
<1>2. CASE Compact
  BY <1>2 DEF Compact, CompactSucceeds, CompactFails, Pcs, InfoKeys
<1>3. CASE Chat
  BY <1>3 DEF Chat, ChatFails, ChatAnswers, Pcs, InfoKeys
<1>4. CASE Route
  <2>1. NextState \in States
    BY <1>4, NextStateType DEF Route, PcMatchesState
  <2>2. HandlerOf(NextState) \in Pcs
    BY <2>1, HandlerType DEF Pcs
  <2> QED BY <1>4, <2>1, <2>2 DEF Route
<1>5. CASE Tool
  BY <1>5 DEF Tool, ToolBegins, CheckCall, RefuseCall, StartCall, SubmitCall, DispatchEnds,
              ToolEnds, SyncCallEnds, CollectCall, NextCall, Pcs, InfoKeys
<1>6. CASE Tret \/ Supervise
  BY <1>6 DEF Tret, CheckDelivery, DeliverResult, Supervise, Pcs, InfoKeys
<1>7. CASE RecordResult
  BY <1>7 DEF RecordResult, FinalAnswer, Pcs, Results, PcMatchesState, EndPcs, TerminalStates
<1>8. CASE SkipCommit \/ Commit \/ FlushAfterTitle \/ NotifyDone
  BY <1>8 DEF SkipCommit, Commit, FlushAfterTitle, NotifyDone, Pcs
<1>9. CASE Background
  BY <1>9 DEF Background, PoolStartsCall, BackgroundCallEnds
<1>10. CASE User
  BY <1>10 DEF User, Cancel, Supersede, CloseSession, workVars
<1>11. CASE UNCHANGED vars
  BY <1>11 DEF vars
<1> QED
  BY <1>1, <1>2, <1>3, <1>4, <1>5, <1>6, <1>7, <1>8, <1>9, <1>10, <1>11
  DEF Next, Worker, Finished, End

LEMMA NextCounterTypes ==
  ASSUME TypeOK, ConversationTypes', [Next]_vars
  PROVE  CounterTypes'
<1> USE DEF TypeOK, CounterTypes, toolVars, contextVars, historyVars
<1>1. CASE Wait
  <2>1. Ratio(messages') \in Nat
    BY RatioIsNatural DEF ConversationTypes
  <2>2. CASE WaitOutOfBudget \/ WaitOutOfTime \/ WaitCancelled
    BY <2>2 DEF WaitOutOfBudget, WaitOutOfTime, WaitCancelled, CountRound
  <2>3. CASE WaitSends
    <3>1. floor' \in Nat \cup {NoFloor}
      BY <2>1, <2>3 DEF WaitSends
    <3> QED BY <2>3, <3>1 DEF WaitSends, CountRound
  <2> QED BY <1>1, <2>2, <2>3 DEF Wait
<1>2. CASE Compact
  <2>1. Ratio(messages) \in Nat
    BY RatioIsNatural DEF ConversationTypes
  <2>2. CASE CompactSucceeds
    BY <2>2 DEF CompactSucceeds
  <2>3. CASE CompactFails
    BY <2>1, <2>3 DEF CompactFails
  <2> QED BY <1>2, <2>2, <2>3 DEF Compact
<1>3. CASE Chat
  BY <1>3 DEF Chat, ChatFails, ChatAnswers
<1>4. CASE Route
  BY <1>4 DEF Route
<1>5. CASE Tool
  BY <1>5 DEF Tool, ToolBegins, CheckCall, RefuseCall, StartCall, SubmitCall, DispatchEnds,
              ToolEnds, SyncCallEnds, CollectCall, NextCall, CountStart
<1>6. CASE Tret \/ Supervise
  BY <1>6 DEF Tret, CheckDelivery, DeliverResult, Supervise
<1>7. CASE End
  BY <1>7 DEF End, RecordResult, SkipCommit, Commit, FlushAfterTitle, NotifyDone
<1>8. CASE Background
  BY <1>8 DEF Background, PoolStartsCall, BackgroundCallEnds, CountStart
<1>9. CASE User
  BY <1>9 DEF User, Cancel, Supersede, CloseSession, workVars
<1>10. CASE UNCHANGED vars
  BY <1>10 DEF vars
<1> QED
  BY <1>1, <1>2, <1>3, <1>4, <1>5, <1>6, <1>7, <1>8, <1>9, <1>10
  DEF Next, Worker, Finished

LEMMA NextFlagTypes ==
  ASSUME TypeOK, [Next]_vars
  PROVE  FlagTypes'
<1> USE DEF TypeOK, FlagTypes, toolVars, contextVars, userVars, sessionVars, endVars
<1>1. CASE Wait
  BY <1>1 DEF Wait, WaitOutOfBudget, WaitOutOfTime, WaitCancelled, WaitSends
<1>2. CASE Compact
  BY <1>2 DEF Compact, CompactSucceeds, CompactFails
<1>3. CASE Chat
  BY <1>3 DEF Chat, ChatFails, ChatAnswers, Save
<1>4. CASE Route
  BY <1>4 DEF Route
<1>5. CASE Tool
  BY <1>5 DEF Tool, ToolBegins, CheckCall, RefuseCall, StartCall, SubmitCall, DispatchEnds,
              ToolEnds, SyncCallEnds, CollectCall
<1>6. CASE Tret \/ Supervise
  BY <1>6 DEF Tret, CheckDelivery, DeliverResult, Supervise
<1>7. CASE End
  BY <1>7, FlagsAssumption
  DEF End, RecordResult, SkipCommit, Commit, FlushAfterTitle, NotifyDone, Save
<1>8. CASE Background
  BY <1>8 DEF Background, PoolStartsCall, BackgroundCallEnds
<1>9. CASE User
  BY <1>9 DEF User, Cancel, Supersede, CloseSession, workVars
<1>10. CASE UNCHANGED vars
  BY <1>10 DEF vars
<1> QED
  BY <1>1, <1>2, <1>3, <1>4, <1>5, <1>6, <1>7, <1>8, <1>9, <1>10
  DEF Next, Worker, Finished

LEMMA NextTypeOK ==
  ASSUME TypeOK, PcMatchesState, ConversationShape, [Next]_vars
  PROVE  TypeOK'
<1>1. ConversationTypes'
  BY NextConversationTypes
<1>2. ControlTypes'
  BY NextControlTypes
<1>3. CounterTypes'
  BY <1>1, NextCounterTypes
<1>4. FlagTypes'
  BY NextFlagTypes
<1> QED BY <1>1, <1>2, <1>3, <1>4 DEF TypeOK

-----------------------------------------------------------------------------
(* Control: the handler the worker is in is the state's own.               *)
LEMMA NextPcMatchesState ==
  ASSUME TypeOK, PcMatchesState, [Next]_vars
  PROVE  PcMatchesState'
<1> USE DEF PcMatchesState, WaitPcs, DispatchPcs, TretPcs, EndPcs
<1>1. CASE Wait
  BY <1>1 DEF Wait, WaitOutOfBudget, WaitOutOfTime, WaitCancelled, WaitSends, TerminalStates
<1>2. CASE Compact
  BY <1>2 DEF Compact, CompactSucceeds, CompactFails, TerminalStates
<1>3. CASE Chat
  BY <1>3 DEF Chat, ChatFails, ChatAnswers, TerminalStates
<1>4. CASE Route
  <2>1. NextState \in States
    BY <1>4, NextStateType DEF Route, TypeOK
  <2> QED BY <1>4, <2>1 DEF Route, HandlerOf, States, TerminalStates
<1>5. CASE Tool
  BY <1>5 DEF Tool, ToolBegins, CheckCall, RefuseCall, StartCall, SubmitCall, DispatchEnds,
              ToolEnds, SyncCallEnds, CollectCall, NextCall, TerminalStates
<1>6. CASE Tret \/ Supervise
  BY <1>6 DEF Tret, CheckDelivery, DeliverResult, Supervise, TerminalStates
<1>7. CASE End
  BY <1>7 DEF End, RecordResult, SkipCommit, Commit, FlushAfterTitle, NotifyDone
<1>8. CASE Background
  BY <1>8 DEF Background, PoolStartsCall, BackgroundCallEnds
<1>9. CASE User
  BY <1>9 DEF User, Cancel, Supersede, CloseSession, workVars
<1>10. CASE UNCHANGED vars
  BY <1>10 DEF vars
<1> QED
  BY <1>1, <1>2, <1>3, <1>4, <1>5, <1>6, <1>7, <1>8, <1>9, <1>10
  DEF Next, Worker, Finished

-----------------------------------------------------------------------------
(* The conversation: what every handler leaves behind.                     *)
LEMMA NextConversationShape ==
  ASSUME TypeOK, PcMatchesState, ConversationShape, RoundProgress, [Next]_vars
  PROVE  ConversationShape'
<1> USE DEF PcMatchesState, ConversationShape, WaitPcs, DispatchPcs, TretPcs, EndPcs
<1>0. messages \in Seq(Message) /\ round \in Seq(Kinds) /\ at \in Nat \ {0} /\ Len(round) \in Nat
  BY DEF TypeOK, ConversationTypes, CounterTypes
<1>1. CASE WaitOutOfBudget \/ WaitOutOfTime \/ WaitCancelled
  BY <1>1 DEF WaitOutOfBudget, WaitOutOfTime, WaitCancelled
<1>2. CASE WaitSends
  <2>1. reminders \in Nat
    BY DEF TypeOK, CounterTypes
  <2>2. Closed(messages')
    BY <1>0, <1>2, <2>1, FlagsAssumption, InjectedIsClosed DEF WaitSends
  <2> QED BY <1>2, <2>2 DEF WaitSends, Closed
<1>3. CASE CompactSucceeds
  <2>1. Closed(messages')
    BY <1>0, <1>3, CompactedIsClosed DEF CompactSucceeds
  <2> QED BY <1>3, <2>1 DEF CompactSucceeds, Closed
<1>4. CASE CompactFails \/ ChatFails
  BY <1>4 DEF CompactFails, ChatFails
<1>5. ASSUME NEW text \in BOOLEAN, NEW r \in Rounds \cup {<<>>}, ChatAnswers(text, r)
      PROVE  ConversationShape'
  <2>1. round' \in Seq(Kinds) /\ round' = r /\ messages' \in Seq(Message)
    BY <1>5, NextTypeOK DEF ChatAnswers, TypeOK, ConversationTypes
  <2>2. Len(r) \in Nat
    BY <2>1
  <2>3. OpenRound(messages', Len(r), 0)
    BY <1>0, <1>5, <2>2, AnswerOpensRound DEF ChatAnswers
  <2>4. r = <<>> => Closed(messages')
    BY <2>1, <2>3, AnsweredRoundCloses
  <2> QED BY <1>5, <2>3, <2>4 DEF ChatAnswers, OpenRound
<1>6. CASE Route
  <2> USE DEF Route, HandlerOf, TerminalStates
  <2>0. state \in {"WAIT", "TOOL", "TRET", "SUPERVISE"}
    BY <1>6 DEF TypeOK, ControlTypes, States
  <2>1. CASE state = "WAIT"
    BY <1>6, <2>1 DEF NextState
  <2>2. CASE state = "TOOL"
    BY <1>6, <2>2 DEF NextState
  <2>3. CASE state = "TRET"
    BY <1>6, <2>3 DEF NextState
  <2>4. CASE state = "SUPERVISE"
    BY <1>6, <2>4 DEF NextState
  <2> QED BY <2>0, <2>1, <2>2, <2>3, <2>4
<1>7. CASE Tool
  BY <1>7 DEF Tool, ToolBegins, CheckCall, RefuseCall, StartCall, SubmitCall, DispatchEnds,
              ToolEnds, SyncCallEnds, CollectCall, NextCall
<1>8. CASE CheckDelivery
  <2>1. CASE ~ Stopped /\ at \notin Calls
    <3>1. at - 1 \in 0..Len(round)
      BY <1>8 DEF CheckDelivery, OpenRound
    <3>2. at - 1 = Len(round)
      BY <1>0, <2>1, <3>1 DEF Calls
    <3>3. Closed(messages)
      BY <1>0, <1>8, <3>2, AnsweredRoundCloses DEF CheckDelivery
    <3>4. pc' = "route" /\ state = "TRET" /\ UNCHANGED <<state, messages>>
      BY <1>8, <2>1 DEF CheckDelivery
    <3> QED BY <3>3, <3>4
  <2>2. CASE Stopped
    BY <1>8, <2>2 DEF CheckDelivery, Stopped, userVars
  <2>3. CASE ~ Stopped /\ at \in Calls
    BY <1>8, <2>3 DEF CheckDelivery, RoundProgress, ResultsInHand, Calls
  <2> QED BY <2>1, <2>2, <2>3
<1>9. CASE DeliverResult
  <2>1. at \in 1..Len(round) /\ at - 1 \in 0..Len(round) - 1 /\ (at - 1) + 1 = at
    BY <1>0, <1>9 DEF DeliverResult, Calls
  <2>2. OpenRound(messages', Len(round), at)
    BY <1>0, <1>9, <2>1, ResultJoinsRound DEF DeliverResult
  <2>3. at' - 1 = at
    BY <1>0, <1>9 DEF DeliverResult
  <2> QED BY <1>9, <2>2, <2>3 DEF DeliverResult, OpenRound
<1>10. CASE Supervise
  <2>1. Closed(Append(messages, Plain("nudge")))
    BY <1>0, <1>10, PlainStaysClosed DEF Supervise, Roles, UserSide
  <2> QED BY <1>10, <2>1 DEF Supervise, Closed
<1>11. CASE End
  BY <1>11 DEF End, RecordResult, SkipCommit, Commit, FlushAfterTitle, NotifyDone, TerminalStates
<1>12. CASE Background
  BY <1>12 DEF Background, PoolStartsCall, BackgroundCallEnds, Stopped, userVars, Calls
<1>13. CASE User
  BY <1>13 DEF User, Cancel, Supersede, CloseSession, workVars, toolVars, Stopped, Calls
<1>14. CASE UNCHANGED vars
  BY <1>14 DEF vars, toolVars, userVars, Stopped, Calls
<1> QED
  BY <1>1, <1>2, <1>3, <1>4, <1>5, <1>6, <1>7, <1>8, <1>9, <1>10, <1>11, <1>12, <1>13, <1>14
  DEF Next, Worker, Finished, Wait, Compact, Chat, Tret

-----------------------------------------------------------------------------
(* The round: no call is forgotten, and TRET finds every result.           *)

(* What a change of one call's status leaves to show.                      *)
LEMMA StatusStep ==
  ASSUME TypeOK, NEW k, NEW v \in CallStatus, status' = [status EXCEPT ![k] = v]
  PROVE  /\ Len(status') = Len(status)
         /\ \A i \in 1..Len(status) : status'[i] = IF i = k THEN v ELSE status[i]
BY StatusUpdate DEF TypeOK, ConversationTypes

LEMMA NextRoundProgress ==
  ASSUME TypeOK, PcMatchesState, RoundProgress, [Next]_vars
  PROVE  RoundProgress'
<1> USE DEF PcMatchesState, RoundProgress, WaitPcs, DispatchPcs, TretPcs, EndPcs, Calls
<1>0. /\ at \in Nat \ {0} /\ Len(round) \in Nat /\ status \in Seq(CallStatus)
      /\ \A k \in 1..Len(status) : status[k] \in CallStatus
  BY DEF TypeOK, ConversationTypes, CounterTypes
<1>1. CASE Wait \/ Compact \/ Chat
  BY <1>1 DEF Wait, WaitOutOfBudget, WaitOutOfTime, WaitCancelled, WaitSends, Compact,
              CompactSucceeds, CompactFails, Chat, ChatFails, ChatAnswers
<1>2. CASE Route
  <2> USE DEF Route, HandlerOf, TerminalStates
  <2>0. state \in {"WAIT", "TOOL", "TRET", "SUPERVISE"}
    BY <1>2 DEF TypeOK, ControlTypes, States
  <2>1. CASE state = "WAIT"
    BY <1>2, <2>1 DEF NextState
  <2>2. CASE state = "TOOL"
    <3>1. CASE Stopped
      BY <1>2, <2>2, <3>1 DEF NextState
    <3>2. CASE ~ Stopped
      BY <1>2, <2>2, <3>2 DEF NextState, ResultsInHand
    <3> QED BY <3>1, <3>2
  <2>3. CASE state = "TRET"
    BY <1>2, <2>3 DEF NextState
  <2>4. CASE state = "SUPERVISE"
    BY <1>2, <2>4 DEF NextState
  <2> QED BY <2>0, <2>1, <2>2, <2>3, <2>4
<1>3. CASE ToolBegins
  <2>1. Len(status') = Len(round) /\ pending' = TRUE /\ at' = at /\ at = 1 /\ UNCHANGED round
    BY <1>0, <1>3 DEF ToolBegins
  <2>2. CASE Stopped
    BY <1>3, <2>2 DEF ToolBegins, Stopped, userVars
  <2>3. CASE ~ Stopped
    BY <1>3, <2>1, <2>3 DEF ToolBegins
  <2> QED BY <2>2, <2>3
<1>4. CASE CheckCall
  <2>1. CASE Stopped
    <3>1. /\ Len(status') = Len(status)
          /\ \A i \in 1..Len(status) : status'[i] = IF i = at THEN "cancelled" ELSE status[i]
      BY <1>4, <2>1, StatusStep DEF CheckCall, CallStatus, Resolved
    <3> QED BY <1>0, <1>4, <2>1, <3>1 DEF CheckCall, NextCall
  <2>2. CASE ~ Stopped
    BY <1>4, <2>2 DEF CheckCall
  <2> QED BY <2>1, <2>2
<1>5. CASE RefuseCall \/ StartCall \/ SubmitCall
  <2>1. PICK v \in {"failed", "running", "submitted"} : status' = [status EXCEPT ![at] = v]
    BY <1>5 DEF RefuseCall, StartCall, SubmitCall
  <2>2. /\ Len(status') = Len(status)
        /\ \A i \in 1..Len(status) : status'[i] = IF i = at THEN v ELSE status[i]
    BY <2>1, StatusStep DEF CallStatus, Resolved
  <2>3. /\ pc = "start" /\ UNCHANGED <<round, pending>>
        /\ \/ pc' = "dispatch" /\ at' = at + 1
           \/ pc' = "sync" /\ at' = at
    BY <1>5 DEF RefuseCall, StartCall, SubmitCall, NextCall
  <2> QED BY <1>0, <2>2, <2>3
<1>6. ASSUME NEW outcome \in {"ok", "failed"}, SyncCallEnds(outcome)
      PROVE  RoundProgress'
  <2>1. /\ Len(status') = Len(status)
        /\ \A i \in 1..Len(status) : status'[i] = IF i = at THEN outcome ELSE status[i]
    BY <1>6, StatusStep DEF SyncCallEnds, CallStatus, Resolved
  <2> QED BY <1>0, <1>6, <2>1 DEF SyncCallEnds, NextCall
<1>7. CASE DispatchEnds
  BY <1>0, <1>7 DEF DispatchEnds
<1>8. ASSUME NEW outcome \in {"ok", "failed"}, CollectCall(outcome)
      PROVE  RoundProgress'
  <2>1. at \in 1..Len(status) /\ status[at] \in Resolved \cup {"ended"}
    BY <1>0, <1>8 DEF CollectCall, CallStatus
  <2>2. PICK v \in Resolved : status' = [status EXCEPT ![at] = v]
    BY <1>8, <2>1 DEF CollectCall, Resolved
  <2>3. /\ Len(status') = Len(status)
        /\ \A i \in 1..Len(status) : status'[i] = IF i = at THEN v ELSE status[i]
    BY <2>2, StatusStep DEF CallStatus
  <2>4. v # "queued"
    BY DEF Resolved
  <2> QED BY <1>0, <1>8, <2>3, <2>4 DEF CollectCall
<1>9. CASE ToolEnds
  <2>1. \A k \in Calls : status[k] \in Resolved
    BY <1>0, <1>9 DEF ToolEnds
  <2>2. CASE Stopped
    BY <1>9, <2>2 DEF ToolEnds, Stopped, userVars
  <2>3. CASE ~ Stopped
    BY <1>9, <2>1, <2>3 DEF ToolEnds, ResultsInHand
  <2> QED BY <2>2, <2>3
<1>10. CASE Tret
  BY <1>10 DEF Tret, CheckDelivery, DeliverResult, ResultsInHand
<1>11. CASE Supervise
  BY <1>11 DEF Supervise
<1>12. CASE End
  BY <1>12 DEF End, RecordResult, SkipCommit, Commit, FlushAfterTitle, NotifyDone, TerminalStates
<1>13. ASSUME NEW k \in Calls, PoolStartsCall(k) \/ BackgroundCallEnds(k)
       PROVE  RoundProgress'
  <2>1. PICK v \in {"running", "ended"} : status' = [status EXCEPT ![k] = v]
    BY <1>13 DEF PoolStartsCall, BackgroundCallEnds
  <2>2. /\ Len(status') = Len(status)
        /\ \A i \in 1..Len(status) : status'[i] = IF i = k THEN v ELSE status[i]
    BY <2>1, StatusStep DEF CallStatus
  <2>3. status[k] \notin Resolved /\ status[k] # "queued"
    BY <1>13 DEF PoolStartsCall, BackgroundCallEnds, Resolved
  <2>4. UNCHANGED <<state, pc, info, round, at, pending, Stopped>>
    BY <1>13 DEF PoolStartsCall, BackgroundCallEnds, Stopped, userVars
  <2> QED BY <2>2, <2>3, <2>4 DEF ResultsInHand
<1>14. CASE User
  BY <1>14 DEF User, Cancel, Supersede, CloseSession, workVars, toolVars, Stopped, ResultsInHand
<1>15. CASE UNCHANGED vars
  BY <1>15 DEF vars, toolVars, userVars, Stopped, ResultsInHand
<1> QED
  BY <1>1, <1>2, <1>3, <1>4, <1>5, <1>6, <1>7, <1>8, <1>9, <1>10, <1>11, <1>12, <1>13,
     <1>14, <1>15
  DEF Next, Worker, Background, Finished, Tool

-----------------------------------------------------------------------------
(* Calls started late.                                                     *)
LEMMA NextLateStarts ==
  ASSUME TypeOK, PcMatchesState, RoundProgress, LateStarts, [Next]_vars
  PROVE  LateStarts'
<1> USE DEF LateStarts
<1>0. /\ status \in Seq(CallStatus) /\ DOMAIN status = 1..Len(status) /\ lateStarts \in Nat
      /\ at \in Nat \ {0} /\ Len(round) \in Nat
  BY DEF TypeOK, ConversationTypes, CounterTypes
<1>1. CASE Wait \/ Compact \/ ChatFails \/ Route
  <2>1. pc \in {"wait", "compact", "chat", "route"} /\ pc' \notin {"start", "collect"}
    BY <1>1, NextStateType, HandlerType
    DEF Wait, WaitOutOfBudget, WaitOutOfTime, WaitCancelled, WaitSends, Compact, CompactSucceeds,
        CompactFails, ChatFails, Route, TypeOK, PcMatchesState
  <2>2. UNCHANGED <<round, status, cancelled, stale, lateStarts>>
    BY <1>1
    DEF Wait, WaitOutOfBudget, WaitOutOfTime, WaitCancelled, WaitSends, Compact, CompactSucceeds,
        CompactFails, ChatFails, Route, toolVars, userVars, historyVars
  <2> QED BY <2>1, <2>2 DEF Stopped, Parallel, Calls
<1>2. ASSUME NEW text \in BOOLEAN, NEW r \in Rounds \cup {<<>>}, ChatAnswers(text, r)
      PROVE  LateStarts'
  <2>1. pc = "chat" /\ pc' = "route" /\ lateStarts = 0
    BY <1>2 DEF ChatAnswers
  <2> QED BY <1>2, <2>1 DEF ChatAnswers, Stopped, userVars
<1>3. CASE ToolBegins
  <2>1. \A k \in DOMAIN status' : status'[k] = "queued"
    BY <1>3 DEF ToolBegins
  <2>2. pc' # "start" /\ UNCHANGED <<round, cancelled, stale, lateStarts>>
    BY <1>3 DEF ToolBegins, userVars
  <2> QED BY <2>1, <2>2 DEF Stopped, Parallel, Calls
<1>4. CASE CheckCall
  <2>1. UNCHANGED <<round, cancelled, stale, lateStarts>> /\ pc = "dispatch"
    BY <1>4 DEF CheckCall, userVars, historyVars
  <2>2. CASE Stopped
    <3>1. /\ Len(status') = Len(status)
          /\ \A i \in 1..Len(status) : status'[i] = IF i = at THEN "cancelled" ELSE status[i]
      BY <1>4, <2>2, StatusStep DEF CheckCall, CallStatus, Resolved
    <3>2. pc' = "dispatch" /\ DOMAIN status' = DOMAIN status
      BY <1>0, <1>4, <2>2, <3>1 DEF CheckCall, NextCall
    <3> QED BY <1>0, <2>1, <3>1, <3>2 DEF Stopped, Parallel, Calls
  <2>3. CASE ~ Stopped
    BY <1>4, <2>1, <2>3 DEF CheckCall, Stopped, Parallel, Calls
  <2> QED BY <2>2, <2>3
<1>5. CASE RefuseCall \/ StartCall \/ SubmitCall
  <2>1. PICK v \in {"failed", "running", "submitted"} : status' = [status EXCEPT ![at] = v]
    BY <1>5 DEF RefuseCall, StartCall, SubmitCall
  <2>2. /\ Len(status') = Len(status)
        /\ \A i \in 1..Len(status) : status'[i] = IF i = at THEN v ELSE status[i]
    BY <2>1, StatusStep DEF CallStatus, Resolved
  <2>3. /\ pc = "start" /\ pc' \in {"dispatch", "sync"} /\ UNCHANGED <<round, cancelled, stale>>
        /\ Parallel' = Parallel /\ Stopped' = Stopped
    BY <1>5 DEF RefuseCall, StartCall, SubmitCall, NextCall, userVars, Parallel, Calls, Stopped
  <2>4. at \in 1..Len(status)
    BY <2>3 DEF RoundProgress, DispatchPcs, Calls
  <2>5. CASE SubmitCall
    <3>1. Parallel /\ pc' = "dispatch" /\ UNCHANGED lateStarts
      BY <2>5 DEF SubmitCall, NextCall, historyVars
    <3> QED BY <2>3, <3>1
  <2>6. CASE RefuseCall \/ StartCall
    <3>1. ~ Parallel /\ status'[at] \in {"failed", "running"}
      BY <1>0, <2>4, <2>6 DEF RefuseCall, StartCall
    <3>2. \A k \in DOMAIN status' : status'[k] # "submitted"
      BY <1>0, <2>2, <2>3, <3>1
    <3>3. lateStarts = 0 /\ lateStarts' = IF StartCall /\ Stopped THEN 1 ELSE 0
      BY <1>0, <2>3, <2>6, <3>1 DEF RefuseCall, StartCall, CountStart, historyVars
    <3> QED BY <2>3, <3>1, <3>2, <3>3
  <2> QED BY <1>5, <2>5, <2>6
<1>6. ASSUME NEW outcome \in {"ok", "failed"}, SyncCallEnds(outcome) \/ CollectCall(outcome)
      PROVE  LateStarts'
  <2>1. /\ \A k \in DOMAIN status' : status'[k] = "submitted" => status[k] = "submitted"
        /\ DOMAIN status' = DOMAIN status
    BY <1>6 DEF SyncCallEnds, CollectCall
  <2>2. /\ UNCHANGED <<round, cancelled, stale, lateStarts>>
        /\ \/ pc = "sync" /\ pc' = "dispatch"
           \/ pc = "collect" /\ pc' = "collect"
    BY <1>6 DEF SyncCallEnds, CollectCall, NextCall, userVars, historyVars
  <2> QED BY <2>1, <2>2 DEF Stopped, Parallel, Calls
<1>7. CASE DispatchEnds
  BY <1>7 DEF DispatchEnds, Stopped, Parallel, Calls, userVars, historyVars
<1>8. CASE ToolEnds
  <2>1. \A k \in DOMAIN status : status[k] # "submitted"
    BY <1>0, <1>8 DEF ToolEnds, RoundProgress, DispatchPcs, Calls, Resolved
  <2> QED BY <1>8, <2>1 DEF ToolEnds, Stopped, Parallel, Calls, userVars, historyVars
<1>9. CASE Tret \/ Supervise \/ End
  <2>1. /\ pc \in {"deliver", "append", "supervise", "terminal", "commit", "title", "notify"}
        /\ pc' \notin {"start", "collect"}
    BY <1>9
    DEF Tret, CheckDelivery, DeliverResult, Supervise, End, RecordResult, SkipCommit, Commit,
        FlushAfterTitle, NotifyDone
  <2>2. UNCHANGED <<round, status, cancelled, stale, lateStarts>>
    BY <1>9
    DEF Tret, CheckDelivery, DeliverResult, Supervise, End, RecordResult, SkipCommit, Commit,
        FlushAfterTitle, NotifyDone, toolVars, userVars, historyVars
  <2> QED BY <2>1, <2>2 DEF Stopped, Parallel, Calls
<1>10. ASSUME NEW k \in Calls, PoolStartsCall(k) \/ BackgroundCallEnds(k)
       PROVE  LateStarts'
  <2>1. /\ \A i \in DOMAIN status' : status'[i] = "submitted" => status[i] = "submitted"
        /\ DOMAIN status' = DOMAIN status
    BY <1>10 DEF PoolStartsCall, BackgroundCallEnds
  <2>2. UNCHANGED <<pc, round, cancelled, stale>> /\ Parallel' = Parallel /\ Stopped' = Stopped
    BY <1>10 DEF PoolStartsCall, BackgroundCallEnds, Stopped, Parallel, Calls, userVars
  <2>3. ~ Parallel \/ ~ Stopped => UNCHANGED lateStarts
    BY <1>10 DEF PoolStartsCall, BackgroundCallEnds, CountStart, historyVars
  <2> QED BY <2>1, <2>2, <2>3
<1>11. CASE User
  BY <1>11
  DEF User, Cancel, Supersede, CloseSession, workVars, toolVars, historyVars, Stopped, Parallel, Calls
<1>12. CASE UNCHANGED vars
  BY <1>12 DEF vars, toolVars, userVars, historyVars, Stopped, Parallel, Calls
<1> QED
  BY <1>1, <1>2, <1>3, <1>4, <1>5, <1>6, <1>7, <1>8, <1>9, <1>10, <1>11, <1>12
  DEF Next, Worker, Background, Finished, Tool, Chat

-----------------------------------------------------------------------------
(* The budget.                                                             *)
LEMMA NextRoundsPaid ==
  ASSUME TypeOK, PcMatchesState, RoundsPaid, [Next]_vars
  PROVE  RoundsPaid'
<1> SUFFICES ASSUME Budgeted PROVE RoundsPaid'
  BY DEF RoundsPaid
<1> USE DEF RoundsPaid
<1>0. rounds \in Nat /\ toolRounds \in Nat /\ MaxRounds \in Nat
  BY BoundsAssumption DEF TypeOK, CounterTypes
<1>1. CASE WaitOutOfBudget \/ WaitOutOfTime \/ CompactSucceeds \/ ChatFails
  BY <1>1 DEF WaitOutOfBudget, WaitOutOfTime, CompactSucceeds, ChatFails, historyVars
<1>2. CASE WaitCancelled \/ WaitSends
  <2>1. rounds < MaxRounds
    BY <1>0, <1>2 DEF WaitCancelled, WaitSends, BudgetSpent
  <2> QED BY <1>0, <1>2, <2>1 DEF WaitCancelled, WaitSends, CountRound, historyVars
<1>3. CASE CompactFails
  BY <1>3 DEF CompactFails, historyVars
<1>4. ASSUME NEW text \in BOOLEAN, NEW r \in Rounds \cup {<<>>}, ChatAnswers(text, r)
      PROVE  RoundsPaid'
  BY <1>0, <1>4 DEF ChatAnswers
<1>5. CASE Route
  <2>1. pc' \notin {"compact", "chat"}
    BY <1>5, NextStateType, HandlerType DEF Route, TypeOK, PcMatchesState
  <2> QED BY <1>5, <2>1 DEF Route, historyVars
<1>6. CASE Tool \/ Tret \/ Supervise \/ End
  <2>1. UNCHANGED <<rounds, toolRounds>> /\ pc' \notin {"compact", "chat"}
    BY <1>6
    DEF Tool, ToolBegins, CheckCall, RefuseCall, StartCall, SubmitCall, DispatchEnds, ToolEnds,
        SyncCallEnds, CollectCall, NextCall, Tret, CheckDelivery, DeliverResult, Supervise, End,
        RecordResult, SkipCommit, Commit, FlushAfterTitle, NotifyDone, historyVars
  <2> QED BY <2>1
<1>7. CASE Background \/ User \/ UNCHANGED vars
  <2>1. UNCHANGED <<rounds, toolRounds, pc>>
    BY <1>7
    DEF Background, PoolStartsCall, BackgroundCallEnds, User, Cancel, Supersede, CloseSession,
        workVars, vars, historyVars
  <2> QED BY <2>1
<1> QED
  BY <1>1, <1>2, <1>3, <1>4, <1>5, <1>6, <1>7
  DEF Next, Worker, Finished, Wait, Compact, Chat

-----------------------------------------------------------------------------
(* What the run leaves: the salvaged history, in memory and on disk.       *)
LEMMA NextSalvageCommitted ==
  ASSUME TypeOK, PcMatchesState, SalvageCommitted, FileHoldsHistory, [Next]_vars
  PROVE  SalvageCommitted' /\ FileHoldsHistory'
<1> USE DEF SalvageCommitted, FileHoldsHistory
<1>1. CASE Wait \/ Compact \/ Chat \/ Tool \/ Tret \/ Supervise \/ RecordResult
  <2>1. pc' \notin {"title", "notify", "over"}
    BY <1>1
    DEF Wait, WaitOutOfBudget, WaitOutOfTime, WaitCancelled, WaitSends, Compact, CompactSucceeds,
        CompactFails, Chat, ChatFails, ChatAnswers, Tool, ToolBegins, CheckCall, RefuseCall,
        StartCall, SubmitCall, DispatchEnds, ToolEnds, SyncCallEnds, CollectCall, NextCall, Tret,
        CheckDelivery, DeliverResult, Supervise, RecordResult
  <2> QED BY <2>1
<1>2. CASE Route
  <2>1. pc' \notin {"title", "notify", "over"}
    BY <1>2, NextStateType, HandlerType DEF Route, TypeOK, PcMatchesState
  <2> QED BY <2>1
<1>3. CASE SkipCommit
  BY <1>3 DEF SkipCommit, userVars
<1>4. CASE Commit
  BY <1>4 DEF Commit, userVars, Save
<1>5. CASE FlushAfterTitle
  BY <1>5 DEF FlushAfterTitle, userVars, Save
<1>6. CASE NotifyDone
  BY <1>6 DEF NotifyDone, userVars, sessionVars
<1>7. CASE Background
  BY <1>7 DEF Background, PoolStartsCall, BackgroundCallEnds, userVars, sessionVars
<1>8. CASE User
  BY <1>8 DEF User, Cancel, Supersede, CloseSession, workVars, sessionVars
<1>9. CASE UNCHANGED vars
  BY <1>9 DEF vars, userVars, sessionVars
<1> QED
  BY <1>1, <1>2, <1>3, <1>4, <1>5, <1>6, <1>7, <1>8, <1>9 DEF Next, Worker, Finished, End

-----------------------------------------------------------------------------
(* The nudges: the counter and the conversation agree whenever the         *)
(* supervisor, or the model, looks.                                        *)
LEMMA NextNudgeBalance ==
  ASSUME IInv, NudgeBalance, [Next]_vars
  PROVE  NudgeBalance'
<1> DEFINE Recent == Cardinality(RecentNudges(messages))
<1> USE DEF NudgeBalance, WaitPcs, DispatchPcs, TretPcs, EndPcs
<1>0. /\ messages \in Seq(Message) /\ nudges \in Nat /\ MaxNudges \in Nat
      /\ at \in Nat \ {0} /\ reminders \in Nat /\ Len(round) \in Nat /\ PcMatchesState
  BY BoundsAssumption DEF IInv, TypeOK, ConversationTypes, CounterTypes
<1> USE DEF PcMatchesState
<1>1. CASE WaitOutOfBudget \/ WaitOutOfTime \/ WaitCancelled
  BY <1>0, <1>1 DEF WaitOutOfBudget, WaitOutOfTime, WaitCancelled
<1>2. CASE WaitSends
  <2>1. Cardinality(RecentNudges(messages')) = Recent
    BY <1>0, <1>2, FlagsAssumption, InjectedNudges DEF WaitSends
  <2> QED BY <1>0, <1>2, <2>1 DEF WaitSends
<1>3. CASE CompactSucceeds
  <2>1. RecentNudges(messages') = {}
    BY <1>0, <1>3, CompactedNudges DEF CompactSucceeds
  <2>2. Cardinality(RecentNudges(messages')) = 0
    BY <2>1, FS_EmptySet
  <2>3. /\ state' = "WAIT" /\ pc' = "route" /\ nudges' = 0
        /\ "tool_calls" \notin info'
    BY <1>0, <1>3 DEF CompactSucceeds
  <2> QED BY <1>0, <2>2, <2>3
<1>4. CASE CompactFails \/ ChatFails
  BY <1>0, <1>4 DEF CompactFails, ChatFails
<1>5. ASSUME NEW text \in BOOLEAN, NEW r \in Rounds \cup {<<>>}, ChatAnswers(text, r)
      PROVE  NudgeBalance'
  <2>1. Len(r) \in Nat
    BY RoundsAssumption
  <2>2. /\ Answer(text, Len(r)) \in Message
        /\ Answer(text, Len(r)).role \notin Forgets \cup {"nudge"}
    BY <2>1, MessageKinds DEF Forgets
  <2>3. RecentNudges(messages') = RecentNudges(messages)
    BY <1>0, <1>5, <2>2, AppendedNudges DEF ChatAnswers
  <2> QED BY <1>0, <1>5, <2>3 DEF ChatAnswers
<1>6. CASE Route
  <2> USE DEF Route, HandlerOf, TerminalStates
  <2>0. state \in {"WAIT", "TOOL", "TRET", "SUPERVISE"}
    BY <1>0, <1>6 DEF IInv, TypeOK, ControlTypes, States
  <2>1. CASE state = "WAIT"
    BY <1>0, <1>6, <2>1 DEF NextState
  <2>2. CASE state = "TOOL"
    BY <1>0, <1>6, <2>2 DEF NextState
  <2>3. CASE state = "TRET"
    BY <1>0, <1>6, <2>3, FS_EmptySet DEF NextState
  <2>4. CASE state = "SUPERVISE"
    BY <1>0, <1>6, <2>4 DEF NextState
  <2> QED BY <2>0, <2>1, <2>2, <2>3, <2>4
<1>7. CASE ToolBegins
  <2>1. Stopped' = Stopped
    BY <1>7 DEF ToolBegins, Stopped, userVars
  <2> QED BY <1>0, <1>7, <2>1 DEF ToolBegins
<1>8. CASE Tool /\ ~ ToolBegins
  BY <1>0, <1>8
  DEF Tool, CheckCall, RefuseCall, StartCall, SubmitCall, DispatchEnds, ToolEnds,
      SyncCallEnds, CollectCall, NextCall
<1>9. CASE CheckDelivery
  <2>1. pending
    BY <1>9 DEF CheckDelivery, IInv, RoundProgress, ResultsInHand
  <2>2. Len(round) > 0
    <3>1. round # <<>> /\ round \in Seq(Kinds)
      BY <1>0, <1>9 DEF CheckDelivery, IInv, TypeOK, ConversationTypes
    <3> QED BY <3>1
  <2>3. Stopped' = Stopped
    BY <1>9 DEF CheckDelivery, Stopped, userVars
  <2>4. CASE ~ Stopped /\ at \notin Calls
    <3>1. at > 1
      BY <1>0, <2>2, <2>4 DEF Calls
    <3> QED BY <1>0, <1>9, <2>4, <3>1 DEF CheckDelivery
  <2>5. CASE Stopped \/ at \in Calls
    BY <1>0, <1>9, <2>1, <2>3, <2>5 DEF CheckDelivery
  <2> QED BY <2>4, <2>5
<1>10. CASE DeliverResult
  <2>1. ToolResult(at) \in Message /\ ToolResult(at).role \in Forgets
    BY <1>0, MessageKinds DEF Forgets
  <2>2. RecentNudges(messages') = {}
    BY <1>0, <1>10, <2>1, AppendedNudges DEF DeliverResult
  <2> QED BY <1>0, <1>10, <2>2 DEF DeliverResult
<1>11. CASE Supervise
  <2>1. Plain("nudge") \in Message /\ Plain("nudge").role = "nudge"
    BY MessageKinds DEF Roles, UserSide
  <2>2. CASE UNCHANGED <<nudges, messages, info>>
    BY <1>0, <1>11, <2>2 DEF Supervise, toolVars
  <2>3. CASE /\ MayNudge /\ nudges' = nudges + 1
             /\ messages' = Append(messages, Plain("nudge"))
    <3>1. Cardinality(RecentNudges(messages')) = Recent + 1
      BY <1>0, <2>1, <2>3, AppendedNudges
    <3>2. nudges < MaxNudges
      BY <2>3 DEF MayNudge
    <3> QED BY <1>0, <1>11, <2>3, <3>1, <3>2 DEF Supervise, toolVars
  <2> QED BY <1>11, <2>2, <2>3 DEF Supervise
<1>12. CASE End
  BY <1>0, <1>12 DEF End, RecordResult, SkipCommit, Commit, FlushAfterTitle, NotifyDone, TerminalStates
<1>13. CASE Background
  BY <1>0, <1>13 DEF Background, PoolStartsCall, BackgroundCallEnds, Stopped, userVars
<1>14. CASE User
  BY <1>0, <1>14 DEF User, Cancel, Supersede, CloseSession, workVars, toolVars, Stopped
<1>15. CASE UNCHANGED vars
  BY <1>0, <1>15 DEF vars, toolVars, userVars, Stopped
<1> QED
  BY <1>1, <1>2, <1>3, <1>4, <1>5, <1>6, <1>7, <1>8, <1>9, <1>10, <1>11, <1>12, <1>13,
     <1>14, <1>15
  DEF Next, Worker, Finished, Wait, Compact, Chat, Tret

-----------------------------------------------------------------------------
(* The theorems.                                                           *)

LEMMA InitIInv == Init => IInv
<1> SUFFICES ASSUME Init PROVE IInv
  OBVIOUS
<1>1. TypeOK
  BY InitTypeOK
<1>2. Closed(messages)
  BY ConversationsAssumption DEF Init
<1>3. PcMatchesState
  BY DEF Init, PcMatchesState, WaitPcs, DispatchPcs, TretPcs, EndPcs
<1>4. ConversationShape
  BY <1>2 DEF Init, ConversationShape, WaitPcs, TretPcs, Closed
<1>5. RoundProgress
  BY DEF Init, RoundProgress, DispatchPcs, TretPcs
<1>6. LateStarts
  BY DEF Init, LateStarts
<1>7. RoundsPaid
  BY BoundsAssumption DEF Init, RoundsPaid
<1>8. SalvageCommitted /\ FileHoldsHistory
  BY DEF Init, SalvageCommitted, FileHoldsHistory
<1> QED BY <1>1, <1>3, <1>4, <1>5, <1>6, <1>7, <1>8 DEF IInv

(* The inductive invariant holds in every reachable state.                 *)
THEOREM Inductive == Spec => []IInv
<1>1. IInv /\ [Next]_vars => IInv'
  BY NextTypeOK, NextPcMatchesState, NextConversationShape, NextRoundProgress, NextLateStarts,
     NextRoundsPaid, NextSalvageCommitted
  DEF IInv
<1> QED BY <1>1, InitIInv, PTL DEF Spec

(* Every variable of the run keeps its type.                               *)
THEOREM TypeCorrect == Spec => []TypeOK
BY Inductive, PTL DEF IInv

(* Every request carries a conversation a provider accepts: each call of   *)
(* each earlier round answered once and in order.                          *)
THEOREM RequestsAreWellFormed == Spec => []RequestsWellFormed
<1>1. IInv => RequestsWellFormed
  BY DEF IInv, ConversationShape, WaitPcs, RequestsWellFormed
<1> QED BY <1>1, Inductive, PTL

(* TRET finds a final result for every call of the round.                  *)
THEOREM ResultsAreReady == Spec => []ResultsReady
<1>1. IInv => ResultsReady
  BY DEF IInv, RoundProgress, ResultsInHand, TretPcs, ResultsReady
<1> QED BY <1>1, Inductive, PTL

(* An owning run leaves a history with no dangling tool round.             *)
THEOREM CommittedIsClosed == Spec => []CommittedClosed
<1>1. IInv => CommittedClosed
  <2> SUFFICES ASSUME IInv, pc \in {"title", "notify", "over"}, TopLevel, ~ stale
               PROVE  Closed(lastMessages)
    BY DEF CommittedClosed
  <2>1. lastMessages = Salvage(messages)
    BY DEF IInv, SalvageCommitted
  <2>2. messages \in Seq(Message) /\ InOrder(messages)
    BY DEF IInv, TypeOK, ConversationTypes, ConversationShape
  <2> QED BY <2>1, <2>2, SalvagedIsClosed
<1> QED BY <1>1, Inductive, PTL

(* The file holds that history, or the save error is visible.              *)
THEOREM FileIsHistory == Spec => []FileHoldsHistory
BY Inductive, PTL DEF IInv

(* A sequential round starts at most one call after the run was stopped.   *)
THEOREM LateStartsAreBounded == Spec => []LateStartsBounded
<1>1. IInv => LateStartsBounded
  BY DEF IInv, LateStarts, LateStartsBounded
<1> QED BY <1>1, Inductive, PTL

(* A run never acts on more responses than its budget.                     *)
THEOREM BudgetIsKept == Spec => []BudgetHolds
<1>1. IInv => BudgetHolds
  BY BoundsAssumption DEF IInv, TypeOK, CounterTypes, RoundsPaid, BudgetHolds
<1> QED BY <1>1, Inductive, PTL

(* The supervisor's counter is the number of nudges the model has seen     *)
(* since it last worked, and never exceeds MAX_NUDGES: it is reset in two  *)
(* modules, and still never drifts from the conversation.                  *)
THEOREM NudgesAreCounted == Spec => []NudgesCounted
<1>1. Init => NudgeBalance
  <2> SUFFICES ASSUME Init PROVE NudgeBalance
    OBVIOUS
  <2>1. messages \in Seq(Message) /\ messages # <<>> /\ messages[Len(messages)].role = "user"
    BY ConversationsAssumption, PromptIsLast DEF Init
  <2>2. Len(messages) \in 1..Len(messages)
    BY <2>1
  <2>3. RecentNudges(messages) = {}
    <3> SUFFICES ASSUME NEW i \in RecentNudges(messages) PROVE FALSE
      OBVIOUS
    <3>1. i \in 1..Len(messages) /\ i # Len(messages)
      BY <2>1 DEF RecentNudges
    <3>2. Len(messages) \in i + 1..Len(messages)
      BY <2>2, <3>1
    <3>3. messages[Len(messages)].role \notin Forgets
      BY <3>2 DEF RecentNudges
    <3> QED BY <2>1, <3>3 DEF Forgets
  <2> QED BY <2>3, FS_EmptySet, BoundsAssumption DEF Init, NudgeBalance, DispatchPcs, TretPcs
<1>2. IInv /\ NudgeBalance /\ [Next]_vars => NudgeBalance'
  BY NextNudgeBalance
<1>3. NudgeBalance => NudgesCounted
  BY DEF NudgeBalance, NudgesCounted
<1> QED BY <1>1, <1>2, <1>3, Inductive, PTL DEF Spec

(* No step of a run loses, or invents, a user prompt that has text: not a  *)
(* compaction, which rebuilds the conversation, and not an injection,      *)
(* which moves its last message.                                           *)
THEOREM PromptsAreKept == Spec => PromptsSurvive
<1>1. IInv /\ [Next]_vars => [WordedPrompts(messages') = WordedPrompts(messages)]_messages
  <2> SUFFICES ASSUME IInv, Next PROVE WordedPrompts(messages') = WordedPrompts(messages)
    BY DEF vars
  <2>0. messages \in Seq(Message) /\ reminders \in Nat /\ at \in Nat
    BY DEF IInv, TypeOK, ConversationTypes, CounterTypes
  <2>1. CASE WaitSends
    BY <2>0, <2>1, FlagsAssumption, InjectedPrompts DEF WaitSends
  <2>2. CASE CompactSucceeds
    BY <2>0, <2>2, CompactedPrompts DEF CompactSucceeds
  <2>3. ASSUME NEW text \in BOOLEAN, NEW r \in Rounds \cup {<<>>}, ChatAnswers(text, r)
        PROVE  WordedPrompts(messages') = WordedPrompts(messages)
    <3>1. Len(r) \in Nat
      BY RoundsAssumption
    <3>2. Answer(text, Len(r)) \in Message /\ Answer(text, Len(r)).role # "user"
      BY <3>1, MessageKinds
    <3> QED BY <2>0, <2>3, <3>2, AppendedPrompts DEF ChatAnswers
  <2>4. CASE DeliverResult
    <3>1. ToolResult(at) \in Message /\ ToolResult(at).role # "user"
      BY <2>0, MessageKinds
    <3> QED BY <2>0, <2>4, <3>1, AppendedPrompts DEF DeliverResult
  <2>5. CASE Supervise
    <3>1. Plain("nudge") \in Message /\ Plain("nudge").role # "user"
      BY MessageKinds DEF Roles, UserSide
    <3>2. messages' = Append(messages, Plain("nudge")) \/ messages' = messages
      BY <2>5 DEF Supervise
    <3> QED BY <2>0, <3>1, <3>2, AppendedPrompts
  <2>6. CASE WaitOutOfBudget \/ WaitOutOfTime \/ WaitCancelled \/ CompactFails \/ ChatFails
    BY <2>6 DEF WaitOutOfBudget, WaitOutOfTime, WaitCancelled, CompactFails, ChatFails
  <2>7. CASE Route \/ Tool \/ CheckDelivery \/ End
    BY <2>7
    DEF Route, Tool, ToolBegins, CheckCall, RefuseCall, StartCall, SubmitCall, DispatchEnds,
        ToolEnds, SyncCallEnds, CollectCall, CheckDelivery, End, RecordResult, SkipCommit,
        Commit, FlushAfterTitle, NotifyDone
  <2>8. CASE Background \/ User \/ Finished
    BY <2>8
    DEF Background, PoolStartsCall, BackgroundCallEnds, User, Cancel, Supersede, CloseSession,
        workVars, Finished, vars
  <2> QED
    BY <2>1, <2>2, <2>3, <2>4, <2>5, <2>6, <2>7, <2>8
    DEF Next, Worker, Wait, Compact, Chat, Tret
<1> QED BY <1>1, Inductive, PTL DEF Spec, PromptsSurvive
=============================================================================
