---------------------------- MODULE LlmClientProofs ----------------------------
(* The client of a session, for any number of runs, retries, requests, key  *)
(* refreshes and model switches, and any interleaving of them.              *)
EXTENDS LlmClient, ToolCallStream, FiniteSetTheorems, TLAPS

-----------------------------------------------------------------------------
(* The inductive invariant, in the parts the steps disturb separately.      *)

Allowed(w) == RetryMax + (IF refreshed[w] THEN 1 ELSE 0)

(* The one counter of a request, where each place of chat() finds it.       *)
Attempts ==
  \A w \in Workers :
    /\ attempt[w] <= Allowed(w)
    /\ pc[w] = "ready" => attempt[w] < Allowed(w)
    /\ pc[w] \in {"idle", "over"} => attempt[w] = 0 /\ ~refreshed[w]
    /\ pc[w] = "refresh" => ~refreshed[w]

(* Text on the screen is of the attempt that is running; a status comes     *)
(* before any text.                                                         *)
Text ==
  \A w \in Workers :
    /\ shown[w] \subseteq {attempt[w]}
    /\ ~emitted[w] \/ pc[w] \in {"idle", "ready", "over"} => shown[w] = {}
    /\ fault[w] \in {"retryable", "auth"} => ~emitted[w]
    /\ pc[w] \in {"send", "opening", "reading"} => fault[w] = "none"
    /\ pc[w] = "refresh" => fault[w] = "auth"

(* A request of a run past its cancel is the one that was past its check.   *)
Stops ==
  /\ cancelled \subseteq 1..run
  /\ \A w \in Workers :
       /\ late[w] <= 1
       /\ late[w] > 0 => w \in cancelled
       /\ pc[w] = "send" /\ MustStop(w) => late[w] = 0

IInv == TypeOK /\ Attempts /\ Text /\ Stops /\ PoisonIsReplaced

-----------------------------------------------------------------------------
LEMMA InitIInv == Init => IInv
<1> SUFFICES ASSUME Init PROVE IInv
  OBVIOUS
<1> USE RunsAssumption, RetryMaxAssumption, LimitsAssumption
<1>1. TypeOK
  <2>1. attempt \in [Workers -> 0..(RetryMax + 1)] /\ chats \in [Workers -> 0..MaxChats] /\ late \in [Workers -> Nat]
    BY DEF Init
  <2>2. shown \in [Workers -> SUBSET Nat]
    BY DEF Init
  <2>3. run \in Workers /\ cancelled \subseteq Workers /\ key \in 0..MaxKeys /\ keyFile \in 0..MaxKeys /\ switches \in 0..MaxSwitches
    BY DEF Init, Workers
  <2> QED BY <2>1, <2>2, <2>3 DEF Init, TypeOK, PoolStates, UserPcs, WorkerPcs, Kinds, Faults
<1>2. Attempts
  BY DEF Init, Attempts, Allowed, Workers
<1>3. Text
  BY DEF Init, Text
<1>4. Stops
  BY DEF Init, Stops
<1>5. PoisonIsReplaced
  BY DEF Init, PoisonIsReplaced
<1> QED BY <1>1, <1>2, <1>3, <1>4, <1>5 DEF IInv

(* Types.                                                                 *)
LEMMA NextTypeOK == IInv /\ [Next]_vars => TypeOK'
<1>0. SUFFICES ASSUME IInv, [Next]_vars PROVE TypeOK'
  OBVIOUS
<1> USE RunsAssumption, RetryMaxAssumption, LimitsAssumption
<1> USE DEF IInv, TypeOK, Workers, Kinds, Faults, PoolStates, WorkerPcs, UserPcs, Attempts, Allowed, vars, poolVars, keyVars, userVars, callVars, boundVars, Goto
<1>1. CASE Submit
  BY <1>0, <1>1 DEF Submit, AtPrompt
<1>2. CASE Cancel
  BY <1>0, <1>2 DEF Cancel, AtPrompt
<1>3. CASE AbortSwaps
  BY <1>0, <1>3 DEF AbortSwaps, ReplacePool
<1>4. CASE AbortCuts
  BY <1>0, <1>4 DEF AbortCuts
<1>5. CASE AbortCloses
  BY <1>0, <1>5 DEF AbortCloses
<1>6. CASE SwitchModel
  <2>1. pool' \in [Workers -> PoolStates]
    BY <1>0, <1>6 DEF SwitchModel, ReplacePool
  <2>2. switches' \in 0..MaxSwitches
    <3>1. switches \in 0..MaxSwitches /\ switches < MaxSwitches /\ switches' = switches + 1
      BY <1>0, <1>6 DEF SwitchModel
    <3> QED BY <3>1
  <2>4. poisoned' \in BOOLEAN
    BY <1>6 DEF SwitchModel, ReplacePool
  <2>3. UNCHANGED <<aborted, keyVars, run, cancelled, user, pc, callVars, boundVars>>
    BY <1>0, <1>6 DEF SwitchModel
  <2> QED BY <1>0, <2>1, <2>2, <2>3, <2>4
<1>7. CASE WriteKey
  BY <1>0, <1>7 DEF WriteKey
<1>8. CASE UNCHANGED vars
  BY <1>0, <1>8
<1>9. ASSUME NEW w \in Workers, Chat(w) \/ EndRun(w) \/ \E k \in Kinds : StartChat(w, k)
      PROVE  TypeOK'
  <2>1. CASE BeginAttempt(w)
    <3>1. attempt' \in [Workers -> 0..(RetryMax + 1)]
      <4>1. attempt \in [Workers -> 0..(RetryMax + 1)] /\ attempt[w] \in 0..RetryMax
        BY <1>0, <2>1 DEF BeginAttempt
      <4>2. attempt' = [attempt EXCEPT ![w] = @ + 1]
        BY <2>1 DEF BeginAttempt
      <4>3. attempt[w] + 1 \in 0..(RetryMax + 1)
        BY <4>1
      <4> QED BY <4>1, <4>2, <4>3
    <3>2. fault' \in [Workers -> Faults] /\ emitted' \in [Workers -> BOOLEAN] /\ pc' \in [Workers -> WorkerPcs]
      BY <1>0, <2>1 DEF BeginAttempt
    <3>3. UNCHANGED <<poolVars, aborted, keyVars, userVars, kind, refreshed, shown, boundVars>>
      BY <1>0, <2>1 DEF BeginAttempt
    <3>4. UNCHANGED <<pool, poisoned, aborted, key, keyFile, run, cancelled, switches, user>>
      BY <3>3
    <3>5. UNCHANGED <<kind, refreshed, shown, chats, late>>
      BY <3>3
    <3> QED BY <1>0, <3>1, <3>2, <3>4, <3>5
  <2>2. CASE RefuseAttempt(w)
    BY <1>0, <2>2, SMTT(90) DEF RefuseAttempt, Leaves, ClearsView
  <2>3. CASE Send(w)
    BY <1>0, <2>3, SMTT(90) DEF Send
  <2>4. CASE Open(w)
    BY <1>0, <2>4 DEF Open
  <2>5. CASE OpenOnClosedPool(w)
    BY <1>0, <2>5 DEF OpenOnClosedPool, Fails
  <2>6. CASE ResetHttp(w)
    BY <1>0, <2>6 DEF ResetHttp, ReplacePool
  <2>7. CASE RetryTransient(w)
    BY <1>0, <2>7 DEF RetryTransient, RetriesTransient, ClearsView
  <2>8. CASE SeekKey(w)
    BY <1>0, <2>8 DEF SeekKey
  <2>9. CASE GiveUp(w)
    BY <1>0, <2>9, SMTT(90) DEF GiveUp, Leaves, ClearsView
  <2>10. CASE KeyFound(w)
    BY <1>0, <2>10 DEF KeyFound, ClearsView
  <2>11. CASE KeyNotFound(w)
    BY <1>0, <2>11 DEF KeyNotFound, Leaves, ClearsView
  <2>12. CASE ConnectionFails(w)
    BY <1>0, <2>12 DEF ConnectionFails, Fails
  <2>13. CASE \E f \in Faults : StatusFails(w, f)
    BY <1>0, <2>13 DEF StatusFails, Hears, Fails
  <2>14. CASE StreamText(w)
    BY <1>0, <2>14 DEF StreamText, Hears
  <2>15. CASE StopAtLine(w)
    BY <1>0, <2>15 DEF StopAtLine, Hears, Fails
  <2>16. CASE ErrorObject(w)
    BY <1>0, <2>16 DEF ErrorObject, Hears, Fails
  <2>17. CASE Complete(w)
    BY <1>0, <2>17 DEF Complete, Hears, Leaves, ClearsView
  <2>18. CASE EndRun(w)
    BY <1>0, <2>18 DEF EndRun
  <2>19. CASE \E k \in Kinds : StartChat(w, k)
    <3>1. PICK k \in Kinds : StartChat(w, k)
      BY <1>0, <2>19
    <3>2. chats' \in [Workers -> 0..MaxChats]
      <4>1. chats[w] + 1 \in 0..MaxChats
        BY <1>0, <3>1 DEF StartChat
      <4> QED BY <1>0, <3>1, <4>1 DEF StartChat
    <3>3. kind' \in [Workers -> Kinds] /\ pc' \in [Workers -> WorkerPcs]
      BY <1>0, <3>1 DEF StartChat
    <3> QED BY <1>0, <3>1, <3>2, <3>3 DEF StartChat
  <2> QED BY <1>0, <1>9, <2>1, <2>2, <2>3, <2>4, <2>5, <2>6, <2>7, <2>8, <2>9, <2>10, <2>11, <2>12, <2>13, <2>14, <2>15, <2>16, <2>17, <2>18, <2>19 DEF Chat, Compute, AwaitNetwork
<1> QED BY <1>0, <1>1, <1>2, <1>3, <1>4, <1>5, <1>6, <1>7, <1>8, <1>9 DEF Next, Aborting

(* Attempts are counted.                                                  *)
LEMMA NextAttempts == IInv /\ [Next]_vars => Attempts'
<1> SUFFICES ASSUME IInv, [Next]_vars PROVE Attempts'
  OBVIOUS
<1> USE RetryMaxAssumption
<1> USE DEF IInv, TypeOK, Workers, Kinds, Faults, PoolStates, WorkerPcs, UserPcs, Attempts, Allowed, vars, poolVars, keyVars, userVars, callVars, boundVars, Goto
<1>1. CASE Submit
  BY <1>1 DEF Submit, AtPrompt
<1>2. CASE Cancel
  BY <1>2 DEF Cancel, AtPrompt
<1>3. CASE AbortSwaps
  BY <1>3 DEF AbortSwaps, ReplacePool
<1>4. CASE AbortCuts
  BY <1>4 DEF AbortCuts
<1>5. CASE AbortCloses
  BY <1>5 DEF AbortCloses
<1>6. CASE SwitchModel
  BY <1>6 DEF SwitchModel, ReplacePool, AtPrompt
<1>7. CASE WriteKey
  BY <1>7 DEF WriteKey
<1>8. CASE UNCHANGED vars
  BY <1>8
<1>9. ASSUME NEW w \in Workers, Chat(w) \/ EndRun(w) \/ \E k \in Kinds : StartChat(w, k)
      PROVE  Attempts'
  <2>1. CASE BeginAttempt(w)
    BY <2>1 DEF BeginAttempt
  <2>2. CASE RefuseAttempt(w)
    BY <2>2 DEF RefuseAttempt, Leaves, ClearsView
  <2>3. CASE Send(w)
    BY <2>3 DEF Send
  <2>4. CASE Open(w)
    BY <2>4 DEF Open
  <2>5. CASE OpenOnClosedPool(w)
    BY <2>5 DEF OpenOnClosedPool, Fails
  <2>6. CASE ResetHttp(w)
    BY <2>6 DEF ResetHttp, ReplacePool
  <2>7. CASE RetryTransient(w)
    BY <2>7 DEF RetryTransient, RetriesTransient, ClearsView
  <2>8. CASE SeekKey(w)
    BY <2>8 DEF SeekKey
  <2>9. CASE GiveUp(w)
    BY <2>9 DEF GiveUp, Leaves, ClearsView
  <2>10. CASE KeyFound(w)
    BY <2>10 DEF KeyFound, ClearsView
  <2>11. CASE KeyNotFound(w)
    BY <2>11 DEF KeyNotFound, Leaves, ClearsView
  <2>12. CASE ConnectionFails(w)
    BY <2>12 DEF ConnectionFails, Fails
  <2>13. CASE \E f \in Faults : StatusFails(w, f)
    BY <2>13 DEF StatusFails, Hears, Fails
  <2>14. CASE StreamText(w)
    BY <2>14 DEF StreamText, Hears
  <2>15. CASE StopAtLine(w)
    BY <2>15 DEF StopAtLine, Hears, Fails
  <2>16. CASE ErrorObject(w)
    BY <2>16 DEF ErrorObject, Hears, Fails
  <2>17. CASE Complete(w)
    BY <2>17 DEF Complete, Hears, Leaves, ClearsView
  <2>18. CASE EndRun(w)
    BY <2>18 DEF EndRun
  <2>19. CASE \E k \in Kinds : StartChat(w, k)
    BY <2>19 DEF StartChat
  <2> QED BY <1>9, <2>1, <2>2, <2>3, <2>4, <2>5, <2>6, <2>7, <2>8, <2>9, <2>10, <2>11, <2>12, <2>13, <2>14, <2>15, <2>16, <2>17, <2>18, <2>19 DEF Chat, Compute, AwaitNetwork
<1> QED BY <1>1, <1>2, <1>3, <1>4, <1>5, <1>6, <1>7, <1>8, <1>9 DEF Next, Aborting

(* The text of a failed attempt is gone before the next.                  *)
LEMMA NextText == IInv /\ [Next]_vars => Text'
<1> SUFFICES ASSUME IInv, [Next]_vars PROVE Text'
  OBVIOUS
<1> USE RetryMaxAssumption
<1> USE DEF IInv, TypeOK, Workers, Kinds, Faults, PoolStates, WorkerPcs, UserPcs, Text, vars, poolVars, keyVars, userVars, callVars, boundVars, Goto
<1>1. CASE Submit
  BY <1>1 DEF Submit, AtPrompt
<1>2. CASE Cancel
  BY <1>2 DEF Cancel, AtPrompt
<1>3. CASE AbortSwaps
  BY <1>3 DEF AbortSwaps, ReplacePool
<1>4. CASE AbortCuts
  BY <1>4 DEF AbortCuts
<1>5. CASE AbortCloses
  BY <1>5 DEF AbortCloses
<1>6. CASE SwitchModel
  BY <1>6 DEF SwitchModel, ReplacePool, AtPrompt
<1>7. CASE WriteKey
  BY <1>7 DEF WriteKey
<1>8. CASE UNCHANGED vars
  BY <1>8
<1>9. ASSUME NEW w \in Workers, Chat(w) \/ EndRun(w) \/ \E k \in Kinds : StartChat(w, k)
      PROVE  Text'
  <2>1. CASE BeginAttempt(w)
    BY <2>1 DEF BeginAttempt
  <2>2. CASE RefuseAttempt(w)
    BY <2>2 DEF RefuseAttempt, Leaves, ClearsView
  <2>3. CASE Send(w)
    BY <2>3 DEF Send
  <2>4. CASE Open(w)
    BY <2>4 DEF Open
  <2>5. CASE OpenOnClosedPool(w)
    BY <2>5 DEF OpenOnClosedPool, Fails
  <2>6. CASE ResetHttp(w)
    BY <2>6 DEF ResetHttp, ReplacePool
  <2>7. CASE RetryTransient(w)
    <3>1. shown'[w] = {}
      <4>1. CASE fault[w] = "connection" \/ emitted[w]
        BY <2>7, <4>1 DEF RetryTransient, ClearsView
      <4>2. CASE fault[w] = "retryable" /\ ~emitted[w]
        BY <2>7, <4>2 DEF RetryTransient
      <4> QED BY <2>7, <4>1, <4>2 DEF RetryTransient
    <3>2. \A v \in Workers \ {w} : shown'[v] = shown[v] /\ pc'[v] = pc[v]
      BY <2>7 DEF RetryTransient, ClearsView
    <3>3. pc'[w] = "ready" /\ UNCHANGED <<attempt, emitted, fault>>
      BY <2>7 DEF RetryTransient
    <3> QED BY <3>1, <3>2, <3>3
  <2>8. CASE SeekKey(w)
    BY <2>8 DEF SeekKey
  <2>9. CASE GiveUp(w)
    BY <2>9 DEF GiveUp, Leaves, ClearsView
  <2>10. CASE KeyFound(w)
    BY <2>10 DEF KeyFound, ClearsView
  <2>11. CASE KeyNotFound(w)
    BY <2>11 DEF KeyNotFound, Leaves, ClearsView
  <2>12. CASE ConnectionFails(w)
    BY <2>12 DEF ConnectionFails, Fails
  <2>13. CASE \E f \in Faults : StatusFails(w, f)
    BY <2>13 DEF StatusFails, Hears, Fails
  <2>14. CASE StreamText(w)
    BY <2>14 DEF StreamText, Hears
  <2>15. CASE StopAtLine(w)
    BY <2>15 DEF StopAtLine, Hears, Fails
  <2>16. CASE ErrorObject(w)
    BY <2>16 DEF ErrorObject, Hears, Fails
  <2>17. CASE Complete(w)
    BY <2>17 DEF Complete, Hears, Leaves, ClearsView
  <2>18. CASE EndRun(w)
    BY <2>18 DEF EndRun
  <2>19. CASE \E k \in Kinds : StartChat(w, k)
    BY <2>19 DEF StartChat
  <2> QED BY <1>9, <2>1, <2>2, <2>3, <2>4, <2>5, <2>6, <2>7, <2>8, <2>9, <2>10, <2>11, <2>12, <2>13, <2>14, <2>15, <2>16, <2>17, <2>18, <2>19 DEF Chat, Compute, AwaitNetwork
<1> QED BY <1>1, <1>2, <1>3, <1>4, <1>5, <1>6, <1>7, <1>8, <1>9 DEF Next, Aborting

(* A cancelled run sends no further request.                              *)
LEMMA NextStops == IInv /\ [Next]_vars => Stops'
<1> SUFFICES ASSUME IInv, [Next]_vars PROVE Stops'
  OBVIOUS
<1> USE RunsAssumption
<1> USE DEF IInv, TypeOK, Workers, Kinds, Faults, PoolStates, WorkerPcs, UserPcs, Stops, MustStop, vars, poolVars, keyVars, userVars, callVars, boundVars, Goto
<1>1. CASE Submit
  BY <1>1 DEF Submit, AtPrompt
<1>2. CASE Cancel
  BY <1>2 DEF Cancel, AtPrompt
<1>3. CASE AbortSwaps
  BY <1>3 DEF AbortSwaps, ReplacePool
<1>4. CASE AbortCuts
  BY <1>4 DEF AbortCuts
<1>5. CASE AbortCloses
  BY <1>5 DEF AbortCloses
<1>6. CASE SwitchModel
  BY <1>6 DEF SwitchModel, ReplacePool, AtPrompt
<1>7. CASE WriteKey
  BY <1>7 DEF WriteKey
<1>8. CASE UNCHANGED vars
  BY <1>8
<1>9. ASSUME NEW w \in Workers, Chat(w) \/ EndRun(w) \/ \E k \in Kinds : StartChat(w, k)
      PROVE  Stops'
  <2>1. CASE BeginAttempt(w)
    BY <2>1 DEF BeginAttempt
  <2>2. CASE RefuseAttempt(w)
    BY <2>2 DEF RefuseAttempt, Leaves, ClearsView
  <2>3. CASE Send(w)
    BY <2>3 DEF Send
  <2>4. CASE Open(w)
    BY <2>4 DEF Open
  <2>5. CASE OpenOnClosedPool(w)
    BY <2>5 DEF OpenOnClosedPool, Fails
  <2>6. CASE ResetHttp(w)
    BY <2>6 DEF ResetHttp, ReplacePool
  <2>7. CASE RetryTransient(w)
    BY <2>7 DEF RetryTransient, RetriesTransient, ClearsView
  <2>8. CASE SeekKey(w)
    BY <2>8 DEF SeekKey
  <2>9. CASE GiveUp(w)
    BY <2>9 DEF GiveUp, Leaves, ClearsView
  <2>10. CASE KeyFound(w)
    BY <2>10 DEF KeyFound, ClearsView
  <2>11. CASE KeyNotFound(w)
    BY <2>11 DEF KeyNotFound, Leaves, ClearsView
  <2>12. CASE ConnectionFails(w)
    BY <2>12 DEF ConnectionFails, Fails
  <2>13. CASE \E f \in Faults : StatusFails(w, f)
    BY <2>13 DEF StatusFails, Hears, Fails
  <2>14. CASE StreamText(w)
    BY <2>14 DEF StreamText, Hears
  <2>15. CASE StopAtLine(w)
    BY <2>15 DEF StopAtLine, Hears, Fails
  <2>16. CASE ErrorObject(w)
    BY <2>16 DEF ErrorObject, Hears, Fails
  <2>17. CASE Complete(w)
    BY <2>17 DEF Complete, Hears, Leaves, ClearsView
  <2>18. CASE EndRun(w)
    BY <2>18 DEF EndRun
  <2>19. CASE \E k \in Kinds : StartChat(w, k)
    BY <2>19 DEF StartChat
  <2> QED BY <1>9, <2>1, <2>2, <2>3, <2>4, <2>5, <2>6, <2>7, <2>8, <2>9, <2>10, <2>11, <2>12, <2>13, <2>14, <2>15, <2>16, <2>17, <2>18, <2>19 DEF Chat, Compute, AwaitNetwork
<1> QED BY <1>1, <1>2, <1>3, <1>4, <1>5, <1>6, <1>7, <1>8, <1>9 DEF Next, Aborting

(* A request that failed replaces the pool.                               *)
LEMMA NextPoison == IInv /\ [Next]_vars => PoisonIsReplaced'
<1> SUFFICES ASSUME IInv, [Next]_vars PROVE PoisonIsReplaced'
  OBVIOUS
<1> USE RunsAssumption
<1> USE DEF IInv, TypeOK, Workers, Kinds, Faults, PoolStates, WorkerPcs, UserPcs, PoisonIsReplaced, vars, poolVars, keyVars, userVars, callVars, boundVars, Goto
<1>1. CASE Submit
  BY <1>1 DEF Submit, AtPrompt
<1>2. CASE Cancel
  BY <1>2 DEF Cancel, AtPrompt
<1>3. CASE AbortSwaps
  BY <1>3 DEF AbortSwaps, ReplacePool
<1>4. CASE AbortCuts
  BY <1>4 DEF AbortCuts
<1>5. CASE AbortCloses
  BY <1>5 DEF AbortCloses
<1>6. CASE SwitchModel
  BY <1>6 DEF SwitchModel, ReplacePool, AtPrompt
<1>7. CASE WriteKey
  BY <1>7 DEF WriteKey
<1>8. CASE UNCHANGED vars
  BY <1>8
<1>9. ASSUME NEW w \in Workers, Chat(w) \/ EndRun(w) \/ \E k \in Kinds : StartChat(w, k)
      PROVE  PoisonIsReplaced'
  <2>1. CASE BeginAttempt(w)
    BY <2>1 DEF BeginAttempt
  <2>2. CASE RefuseAttempt(w)
    BY <2>2 DEF RefuseAttempt, Leaves, ClearsView
  <2>3. CASE Send(w)
    BY <2>3 DEF Send
  <2>4. CASE Open(w)
    BY <2>4 DEF Open
  <2>5. CASE OpenOnClosedPool(w)
    BY <2>5 DEF OpenOnClosedPool, Fails
  <2>6. CASE ResetHttp(w)
    BY <2>6 DEF ResetHttp, ReplacePool
  <2>7. CASE RetryTransient(w)
    BY <2>7 DEF RetryTransient, RetriesTransient, ClearsView
  <2>8. CASE SeekKey(w)
    BY <2>8 DEF SeekKey
  <2>9. CASE GiveUp(w)
    BY <2>9 DEF GiveUp, Leaves, ClearsView
  <2>10. CASE KeyFound(w)
    BY <2>10 DEF KeyFound, ClearsView
  <2>11. CASE KeyNotFound(w)
    BY <2>11 DEF KeyNotFound, Leaves, ClearsView
  <2>12. CASE ConnectionFails(w)
    BY <2>12 DEF ConnectionFails, Fails
  <2>13. CASE \E f \in Faults : StatusFails(w, f)
    BY <2>13 DEF StatusFails, Hears, Fails
  <2>14. CASE StreamText(w)
    BY <2>14 DEF StreamText, Hears
  <2>15. CASE StopAtLine(w)
    BY <2>15 DEF StopAtLine, Hears, Fails
  <2>16. CASE ErrorObject(w)
    BY <2>16 DEF ErrorObject, Hears, Fails
  <2>17. CASE Complete(w)
    BY <2>17 DEF Complete, Hears, Leaves, ClearsView
  <2>18. CASE EndRun(w)
    BY <2>18 DEF EndRun
  <2>19. CASE \E k \in Kinds : StartChat(w, k)
    BY <2>19 DEF StartChat
  <2> QED BY <1>9, <2>1, <2>2, <2>3, <2>4, <2>5, <2>6, <2>7, <2>8, <2>9, <2>10, <2>11, <2>12, <2>13, <2>14, <2>15, <2>16, <2>17, <2>18, <2>19 DEF Chat, Compute, AwaitNetwork
<1> QED BY <1>1, <1>2, <1>3, <1>4, <1>5, <1>6, <1>7, <1>8, <1>9 DEF Next, Aborting

-----------------------------------------------------------------------------
(* The inductive invariant holds in every reachable state.                  *)
THEOREM Inductive == Spec => []IInv
<1>1. IInv /\ [Next]_vars => IInv'
  BY NextTypeOK, NextAttempts, NextText, NextStops, NextPoison DEF IInv
<1> QED BY <1>1, InitIInv, PTL DEF Spec

(* Every variable of the client keeps its type.                             *)
THEOREM TypeCorrect == Spec => []TypeOK
BY Inductive, PTL DEF IInv

(* The live view holds text of one attempt of a request at most.            *)
THEOREM OneAttemptIsShown == Spec => []LiveTextIsOneAttempt
<1>1. IInv => LiveTextIsOneAttempt
  <2> SUFFICES ASSUME IInv, NEW w \in Workers PROVE Cardinality(shown[w]) <= 1
    BY DEF LiveTextIsOneAttempt
  <2>1. shown[w] = {} \/ shown[w] = {attempt[w]}
    BY DEF IInv, Text
  <2>2. CASE shown[w] = {}
    BY <2>2, FS_EmptySet
  <2>3. CASE shown[w] = {attempt[w]}
    BY <2>3, FS_Singleton
  <2> QED BY <2>1, <2>2, <2>3
<1> QED BY <1>1, Inductive, PTL

(* A request is opened retry_max times at most, once more for a new key.    *)
THEOREM RetriesAreBounded == Spec => []RetriesBounded
<1>1. IInv => RetriesBounded
  BY DEF IInv, Attempts, Allowed, RetriesBounded
<1> QED BY <1>1, Inductive, PTL

(* After its cancel a run opens one request at most.                        *)
THEOREM CancelStops == Spec => []CancelStopsRequests
<1>1. IInv => CancelStopsRequests
  BY DEF IInv, Stops, CancelStopsRequests
<1> QED BY <1>1, Inductive, PTL

(* A connection whose request failed is never left in the pool that the     *)
(* next request takes.                                                      *)
THEOREM PoisonLeavesThePool == Spec => []PoisonIsReplaced
BY Inductive, PTL DEF IInv

-----------------------------------------------------------------------------
(* The calls of a response.  Slot k - 1 holds what came of the k-th call,  *)
(* with an id on it unless its fragments carry an index.                   *)
Call == [id : Seq(Nat), arguments : Seq(Nat)]
SlotsHoldCalls ==
  /\ backend \in Backends /\ meant \in Seq(Call)
  /\ \A k \in 1..Len(meant) :
       /\ meant[k].id \in {<<k>>, <<>>}
       /\ backend # "indexed" => meant[k].id = <<k>>
  /\ DOMAIN tc_index = 0..Len(meant) - 1
  /\ \A k \in 1..Len(meant) : tc_index[k - 1] = meant[k]

LEMMA LastSlot ==
  ASSUME NEW n \in Nat \ {0}
  PROVE  Max(0..n - 1) = n - 1
<1>1. n - 1 \in 0..n - 1 /\ \A y \in 0..n - 1 : n - 1 >= y
  OBVIOUS
<1>2. \A x \in 0..n - 1 : (\A y \in 0..n - 1 : x >= y) => x = n - 1
  BY <1>1
<1> QED BY <1>1, <1>2 DEF Max

LEMMA CallFields ==
  ASSUME NEW s \in Seq(Call), NEW k \in 1..Len(s)
  PROVE  /\ s[k] \in Call /\ s[k].id \in Seq(Nat) /\ s[k].arguments \in Seq(Nat)
         /\ s[k] = [id |-> s[k].id, arguments |-> s[k].arguments]
<1>1. s[k] \in Call
  OBVIOUS
<1> QED BY <1>1 DEF Call

(* A fragment of a call the slots already hold joins it; one of the next   *)
(* call opens the next slot.                                               *)
LEMMA FragmentFindsSlot ==
  ASSUME SlotsHoldCalls, NEW k \in 1..Len(meant) + 1, NEW id, NEW arguments, NEW fallback,
         backend = "indexed" \/ k >= Len(meant),
         k <= Len(meant) => id = <<>>,
         k = Len(meant) + 1 => id \in {<<k>>, <<>>} /\ (id = <<>> => backend = "indexed"),
         k = 1 => fallback = 0
  PROVE  SlotFor(tc_index, Fragment(k, id, arguments), fallback) = k - 1
<1> DEFINE tc == Fragment(k, id, arguments)
           n == Len(meant)
<1>0. n \in Nat /\ k \in Nat /\ k >= 1 /\ k <= n + 1
  BY DEF SlotsHoldCalls
<1>1. tc.id = id /\ tc.index = IF backend = "indexed" THEN k - 1 ELSE NoIndex
  BY DEF Fragment
<1> HIDE DEF tc
<1>2. CASE backend = "indexed"
  <2>1. tc.index = k - 1 /\ k - 1 # NoIndex
    BY <1>0, <1>1, <1>2 DEF NoIndex
  <2> QED BY <2>1 DEF SlotFor, tc
<1>3. CASE backend # "indexed" /\ n = 0
  <2>1. k = 1 /\ DOMAIN tc_index = {}
    BY <1>0, <1>3 DEF SlotsHoldCalls
  <2> QED BY <1>1, <1>3, <2>1 DEF SlotFor, tc
<1>4. CASE backend # "indexed" /\ n # 0
  <2>1. DOMAIN tc_index # {} /\ Max(DOMAIN tc_index) = n - 1
    <3>1. DOMAIN tc_index = 0..n - 1 /\ 0 \in 0..n - 1
      BY <1>0, <1>4 DEF SlotsHoldCalls
    <3> QED BY <1>0, <1>4, <3>1, LastSlot
  <2>2. tc_index[n - 1].id = <<n>>
    BY <1>0, <1>4 DEF SlotsHoldCalls
  <2>3. SlotFor(tc_index, tc, fallback)
          = IF id # <<>> /\ tc_index[n - 1].id \notin {<<>>, id} THEN (n - 1) + 1 ELSE n - 1
    BY <1>1, <1>4, <2>1 DEF SlotFor
  <2>4. CASE k = n
    BY <1>0, <2>3, <2>4 DEF tc
  <2>5. CASE k = n + 1
    <3>1. id = <<k>> /\ <<n>> # <<k>> /\ <<n>> # <<>> /\ <<k>> # <<>>
      BY <1>0, <1>4, <2>5
    <3>2. (n - 1) + 1 = k - 1
      BY <1>0, <2>5
    <3> QED BY <2>2, <2>3, <3>1, <3>2 DEF tc
  <2> QED BY <1>0, <1>4, <2>4, <2>5
<1> QED BY <1>2, <1>3, <1>4

LEMMA SlotsStay == CallStreamSpec => []SlotsHoldCalls
<1>1. CallStreamInit => SlotsHoldCalls
  <2> SUFFICES ASSUME CallStreamInit PROVE SlotsHoldCalls
    OBVIOUS
  <2>1. Len(meant) = 0 /\ meant \in Seq(Call) /\ DOMAIN tc_index = {} /\ backend \in Backends
    BY DEF CallStreamInit
  <2> QED BY <2>1 DEF SlotsHoldCalls
<1>2. SlotsHoldCalls /\ BeginCall => SlotsHoldCalls'
  <2> SUFFICES ASSUME SlotsHoldCalls, BeginCall PROVE SlotsHoldCalls'
    OBVIOUS
  <2> DEFINE n == Len(meant)
             k == n + 1
             fallback == IF backend = "whole" THEN k - 1 ELSE 0
  <2>1. PICK id \in {<<k>>, <<>>}, arguments \in {<<>>, <<1>>} :
          /\ id = <<>> => backend = "indexed"
          /\ meant' = Append(meant, [id |-> id, arguments |-> arguments])
          /\ tc_index' = Absorb(tc_index, SlotFor(tc_index, Fragment(k, id, arguments), fallback),
                                Fragment(k, id, arguments))
          /\ backend' = backend
    BY DEF BeginCall, Receive
  <2> DEFINE call == [id |-> id, arguments |-> arguments]
             tc == Fragment(k, id, arguments)
  <2>2. n \in Nat /\ k \in 1..n + 1 /\ ~(k <= n) /\ (k = 1 => fallback = 0)
    BY DEF SlotsHoldCalls
  <2>3. SlotFor(tc_index, tc, fallback) = k - 1
    <3> HIDE DEF fallback, k
    <3>1. k = n + 1
      BY DEF k
    <3> QED BY <2>1, <2>2, <3>1, FragmentFindsSlot
  <2>4. id \in Seq(Nat) /\ arguments \in Seq(Nat) /\ call \in Call
    <3>1. <<>> \in Seq(Nat) /\ <<k>> \in Seq(Nat) /\ <<1>> \in Seq(Nat)
      BY <2>2
    <3>2. id \in Seq(Nat) /\ arguments \in Seq(Nat)
      BY <2>1, <3>1
    <3> QED BY <3>2 DEF Call
  <2>5. tc.id = id /\ tc.arguments = arguments
    BY DEF Fragment
  <2> HIDE DEF tc, fallback
  <2>6. /\ meant' \in Seq(Call) /\ Len(meant') = n + 1 /\ meant'[n + 1] = call
        /\ \A j \in 1..n : meant'[j] = meant[j]
    <3> HIDE DEF call
    <3> QED BY <2>1, <2>4 DEF SlotsHoldCalls, call
  <2>7. k - 1 \notin DOMAIN tc_index /\ DOMAIN tc_index = 0..n - 1
    BY <2>2 DEF SlotsHoldCalls
  <2>8. <<>> \o id = id /\ <<>> \o arguments = arguments
    BY <2>4
  <2>9. tc_index' = [s \in DOMAIN tc_index \cup {k - 1} |-> IF s = k - 1 THEN call ELSE tc_index[s]]
    BY <2>1, <2>3, <2>5, <2>7, <2>8 DEF Absorb, tc, fallback
  <2>10. /\ DOMAIN tc_index' = 0..n /\ tc_index'[n] = call
         /\ \A s \in 0..n - 1 : tc_index'[s] = tc_index[s]
    <3>1. DOMAIN tc_index' = DOMAIN tc_index \cup {n}
      BY <2>2, <2>9
    <3>2. (0..n - 1) \cup {n} = 0..n
      BY <2>2
    <3> QED BY <2>2, <2>7, <2>9, <3>1, <3>2
  <2> HIDE DEF call
  <2>11. ASSUME NEW j \in 1..Len(meant')
         PROVE  /\ meant'[j].id \in {<<j>>, <<>>} /\ (backend' # "indexed" => meant'[j].id = <<j>>)
                /\ tc_index'[j - 1] = meant'[j]
    <3>1. CASE j = n + 1
      BY <2>1, <2>2, <2>6, <2>10, <3>1 DEF call
    <3>2. CASE j \in 1..n
      BY <2>1, <2>2, <2>6, <2>10, <3>2 DEF SlotsHoldCalls
    <3> QED BY <2>2, <2>6, <3>1, <3>2
  <2> QED BY <2>1, <2>2, <2>6, <2>10, <2>11 DEF SlotsHoldCalls
<1>3. SlotsHoldCalls /\ NextFragment => SlotsHoldCalls'
  <2> SUFFICES ASSUME SlotsHoldCalls, NextFragment PROVE SlotsHoldCalls'
    OBVIOUS
  <2> DEFINE n == Len(meant)
  <2>1. PICK k \in 1..n :
          LET piece == <<Len(meant[k].arguments) + 1>> IN
          /\ k = n \/ backend = "indexed"
          /\ backend # "whole"
          /\ meant' = [meant EXCEPT ![k].arguments = @ \o piece]
          /\ Receive(k, <<>>, piece)
    BY DEF NextFragment
  <2> DEFINE piece == <<Len(meant[k].arguments) + 1>>
             tc == Fragment(k, <<>>, piece)
             call == [id |-> meant[k].id, arguments |-> meant[k].arguments \o piece]
  <2>2. /\ meant' = [meant EXCEPT ![k].arguments = @ \o piece]
        /\ tc_index' = Absorb(tc_index, SlotFor(tc_index, tc, 0), tc)
        /\ backend' = backend
    BY <2>1 DEF Receive
  <2>3. n \in Nat /\ k \in 1..n + 1 /\ k # n + 1 /\ k \in Nat /\ meant \in Seq(Call)
    BY DEF SlotsHoldCalls
  <2>4. SlotFor(tc_index, tc, 0) = k - 1
    <3> HIDE DEF piece
    <3> QED BY <2>1, <2>3, FragmentFindsSlot
  <2>5. /\ meant[k].id \in Seq(Nat) /\ meant[k].arguments \in Seq(Nat)
        /\ meant[k] = [id |-> meant[k].id, arguments |-> meant[k].arguments]
    BY <2>3, CallFields
  <2>6. piece \in Seq(Nat) /\ call \in Call
    BY <2>5 DEF Call
  <2>7. tc.id = <<>> /\ tc.arguments = piece
    BY DEF Fragment
  <2> HIDE DEF tc, piece
  <2>8. k - 1 \in DOMAIN tc_index /\ tc_index[k - 1] = meant[k] /\ DOMAIN tc_index = 0..n - 1
    BY <2>3 DEF SlotsHoldCalls
  <2>9. meant[k].id \o <<>> = meant[k].id
    BY <2>5
  <2>10. tc_index' = [s \in 0..n - 1 |-> IF s = k - 1 THEN call ELSE tc_index[s]]
    <3>1. tc_index' = [s \in DOMAIN tc_index \cup {k - 1} |-> IF s = k - 1 THEN call ELSE tc_index[s]]
      BY <2>2, <2>4, <2>7, <2>8, <2>9 DEF Absorb
    <3> QED BY <2>8, <3>1
  <2>11. meant' = [meant EXCEPT ![k] = call]
    <3>1. [meant[k] EXCEPT !.arguments = meant[k].arguments \o piece] = call
      <4> DEFINE i == meant[k].id
                 a == meant[k].arguments
                 b == a \o piece
                 c == meant[k]
      <4>1. c = [id |-> i, arguments |-> a]
        BY <2>5
      <4> HIDE DEF i, a, b, c
      <4>2. [c EXCEPT !.arguments = b] = [id |-> i, arguments |-> b]
        BY <4>1
      <4> QED BY <4>2 DEF i, a, b, c
    <3>2. meant' = [meant EXCEPT ![k] = [meant[k] EXCEPT !.arguments = meant[k].arguments \o piece]]
      BY <2>2
    <3> QED BY <3>1, <3>2
  <2> HIDE DEF call
  <2>12. /\ meant' \in Seq(Call) /\ Len(meant') = n /\ meant'[k] = call
         /\ \A j \in 1..n : j # k => meant'[j] = meant[j]
    BY <2>3, <2>6, <2>11
  <2>13. ASSUME NEW j \in 1..n
         PROVE  /\ meant'[j].id \in {<<j>>, <<>>} /\ (backend' # "indexed" => meant'[j].id = <<j>>)
                /\ tc_index'[j - 1] = meant'[j]
    <3>1. CASE j = k
      <4>1. k - 1 \in 0..n - 1 /\ call.id = meant[k].id
        BY <2>3 DEF call
      <4>2. tc_index'[k - 1] = call
        BY <2>10, <4>1
      <4>3. call.id \in {<<k>>, <<>>} /\ (backend # "indexed" => call.id = <<k>>)
        BY <2>3, <4>1 DEF SlotsHoldCalls
      <4> QED BY <2>2, <2>12, <3>1, <4>2, <4>3
    <3>2. CASE j # k
      BY <2>2, <2>3, <2>10, <2>12, <3>2 DEF SlotsHoldCalls
    <3> QED BY <3>1, <3>2
  <2> QED BY <2>2, <2>3, <2>10, <2>12, <2>13 DEF SlotsHoldCalls
<1>4. SlotsHoldCalls /\ UNCHANGED callStreamVars => SlotsHoldCalls'
  BY DEF SlotsHoldCalls, callStreamVars
<1> QED BY <1>1, <1>2, <1>3, <1>4, PTL DEF CallStreamSpec, CallStreamNext

(* However the fragments of a response are interleaved and whatever they   *)
(* carry, the calls that run are the calls the model made, in order, with  *)
(* their arguments whole (_slot_for, _absorb_tool_call).                   *)
THEOREM CallsAreWhole == CallStreamSpec => []CallsAsMeant
<1>1. SlotsHoldCalls => CallsAsMeant
  <2> SUFFICES ASSUME SlotsHoldCalls PROVE CallsAsMeant
    OBVIOUS
  <2> DEFINE n == Len(meant)
             Upto(s) == {t \in 0..n - 1 : t <= s}
  <2>1. n \in Nat /\ DOMAIN tc_index = 0..n - 1
    BY DEF SlotsHoldCalls
  <2>2. Cardinality(DOMAIN tc_index) = n
    BY <2>1, FS_Interval
  <2>3. ASSUME NEW s \in 0..n - 1 PROVE Cardinality(Upto(s)) = s + 1
    <3>1. Upto(s) = 0..s
      BY <2>1
    <3> HIDE DEF Upto
    <3> QED BY <2>1, <3>1, FS_Interval
  <2> HIDE DEF Upto
  <2>4. ASSUME NEW k \in 1..n PROVE NthSlot(k) = k - 1
    <3>1. NthSlot(k) = CHOOSE s \in 0..n - 1 : Cardinality(Upto(s)) = k
      BY <2>1 DEF NthSlot, Upto
    <3>2. k - 1 \in 0..n - 1 /\ Cardinality(Upto(k - 1)) = k
      BY <2>1, <2>3
    <3>3. \A s \in 0..n - 1 : Cardinality(Upto(s)) = k => s = k - 1
      BY <2>1, <2>3
    <3> QED BY <3>1, <3>2, <3>3
  <2>5. \A k \in 1..n : tc_index[k - 1] = meant[k]
    BY DEF SlotsHoldCalls
  <2>6. Assembled = [k \in 1..n |-> Named(NthSlot(k), tc_index[NthSlot(k)])]
    BY <2>2 DEF Assembled
  <2>7. \A k \in 1..n : Named(NthSlot(k), tc_index[NthSlot(k)]) = Named(k - 1, meant[k])
    BY <2>4, <2>5
  <2> HIDE DEF n
  <2> QED BY <2>6, <2>7 DEF CallsAsMeant, n
<1> QED BY <1>1, SlotsStay, PTL
=============================================================================
