------------------------- MODULE ServeProtocolProofs -------------------------
(* Serve mode, for any number of prompts, questions, answers and cancels.  *)
EXTENDS ServeProtocol, SequenceTheorems, TLAPS

(* The inductive invariant.  The server serves one run at a time, the last *)
(* it accepted; the view and the callbacks are that run's from its start   *)
(* to its end, and only then may its worker live.                          *)
Before == {"none", "accepted", "attached", "submitted", "reapplied"}
Served(r) == run[r] \in {"accepted", "attached", "submitted", "reapplied", "joining", "joined",
                         "reported", "detached"}
OneServed ==
  /\ active \in {None, submitted}
  /\ \A r \in Runs :
       /\ run[r] = "none" <=> r > submitted
       /\ Served(r) <=> active = r
       /\ view = r <=> Served(r) /\ run[r] # "accepted"
       /\ attached = r <=> Served(r) /\ run[r] \notin {"accepted", "detached"}
WorkersServed ==
  \A r \in Runs :
    /\ worker[r] \in {"working", "calling", "asking"} =>
         run[r] \in {"submitted", "reapplied", "joining"}
    /\ worker[r] # "none" => run[r] \notin {"none", "accepted", "attached"}
    /\ worker[r] = "calling" => Len(asked) < MaxAsks
    /\ hook[r].pc = "logging" => hook[r].view # None
(* A run's stream is what its thread has reached.                          *)
StreamOfPhase ==
  \A r \in Runs :
    /\ mode[r] = "buffer" <=> run[r] \in Before
    /\ mode[r] = "live" <=> run[r] \in {"joining", "joined"}
    /\ mode[r] = "buffer" => lines[r] = <<>>
    /\ mode[r] = "live" => lines[r] \in {<<"start">>, <<"start", "event">>}
    /\ mode[r] = "sealed" => lines[r] # <<>> /\ Last(lines[r]) = "result"
(* The reader is in an operation on a run; a shutdown is its last.         *)
ReaderPlace ==
  /\ reader.pc \in {"pend", "cancel", "look", "wake", "answer", "resolve"} => reader.run # None
  /\ reader.drain => reader.pc \in {"cancel", "look", "wake", "wait", "exit", "crashed"}
RunsServed == OneServed /\ WorkersServed /\ StreamOfPhase
Inv == TypeOK /\ RunsServed /\ ReaderPlace

LineKinds == {"start", "event", "result"}
HookState == [pc : {"none", "running", "logging", "gone"}, view : Runs \cup {None}]

(* What a step of a run's thread does to its place.                        *)
LEMMA RunMoves ==
  ASSUME TypeOK, NEW r \in Runs, NEW from \in RunPcs, NEW to \in RunPcs, Moves(r, from, to)
  PROVE  /\ run[r] = from /\ run' \in [Runs -> RunPcs]
         /\ \A s \in Runs : run'[s] = IF s = r THEN to ELSE run[s]
BY DEF Moves, TypeOK

LEMMA WorkerWorks ==
  ASSUME TypeOK, NEW r \in Runs, NEW pc \in WorkerPcs, Works(r, pc)
  PROVE  /\ worker' \in [Runs -> WorkerPcs]
         /\ \A s \in Runs : worker'[s] = IF s = r THEN pc ELSE worker[s]
BY DEF Works, TypeOK

(* An event joins a live stream once, waits for the start line before, and *)
(* is dropped after the result.                                            *)
LEMMA AppendedLine ==
  ASSUME NEW S, NEW s \in Seq(S), NEW e \in S
  PROVE  /\ Append(s, e) \in Seq(S) /\ Len(Append(s, e)) = Len(s) + 1
         /\ \A i \in 1..Len(s) : Append(s, e)[i] = s[i]
         /\ Append(s, e)[Len(s) + 1] = e
OBVIOUS

LEMMA StartedStream ==
  /\ <<"start">> \in Seq(LineKinds) /\ <<"start", "event">> \in Seq(LineKinds)
  /\ Append(<<"start">>, "event") = <<"start", "event">>
  /\ Last(<<"start">>) = "start" /\ Last(<<"start", "event">>) = "event"
<1> DEFINE s == <<"start">>
           t == <<"start", "event">>
<1>1. s \in Seq(LineKinds) /\ Len(s) = 1 /\ s[1] = "start"
  BY DEF LineKinds
<1>2. t \in Seq(LineKinds) /\ Len(t) = 2 /\ t[1] = "start" /\ t[2] = "event"
  BY DEF LineKinds
<1>3. "event" \in LineKinds
  BY DEF LineKinds
<1> HIDE DEF s, t
<1>4. /\ Append(s, "event") \in Seq(LineKinds) /\ Len(Append(s, "event")) = 2
      /\ Append(s, "event")[1] = "start" /\ Append(s, "event")[2] = "event"
  <2>1. /\ Append(s, "event") \in Seq(LineKinds) /\ Len(Append(s, "event")) = Len(s) + 1
        /\ \A i \in 1..Len(s) : Append(s, "event")[i] = s[i]
        /\ Append(s, "event")[Len(s) + 1] = "event"
    BY <1>1, <1>3, AppendedLine
  <2> QED BY <1>1, <2>1
<1>5. Append(s, "event") = t
  BY <1>2, <1>4, SeqEqual
<1>6. Last(s) = "start" /\ Last(t) = "event"
  BY <1>1, <1>2 DEF Last
<1> QED BY <1>1, <1>2, <1>5, <1>6 DEF s, t

LEMMA Emitted ==
  ASSUME TypeOK, StreamOfPhase, NEW v \in Runs, Emit(v)
  PROVE  /\ buffered' \in [Runs -> BOOLEAN] /\ lines' \in [Runs -> Seq(LineKinds)]
         /\ \A s \in Runs : s # v => lines'[s] = lines[s]
         /\ \/ lines' = lines
            \/ /\ mode[v] = "live" /\ lines[v] = <<"start">> /\ lines'[v] = <<"start", "event">>
               /\ lines' = [lines EXCEPT ![v] = Append(@, "event")]
<1>t. /\ mode \in [Runs -> {"buffer", "live", "sealed"}] /\ buffered \in [Runs -> BOOLEAN]
      /\ lines \in [Runs -> Seq(LineKinds)]
  BY DEF TypeOK, LineKinds
<1>1. CASE mode[v] = "buffer"
  <2>1. buffered' = [buffered EXCEPT ![v] = TRUE] /\ lines' = lines
    BY <1>1 DEF Emit
  <2>2. buffered' \in [Runs -> BOOLEAN]
    BY <1>t, <2>1
  <2> QED BY <1>t, <2>1, <2>2
<1>2. CASE mode[v] = "live"
  <2>1. /\ lines' = [lines EXCEPT ![v] = IF Last(@) = "event" THEN @ ELSE Append(@, "event")]
        /\ buffered' = buffered
    BY <1>2 DEF Emit
  <2>2. lines[v] \in {<<"start">>, <<"start", "event">>}
    BY <1>2 DEF StreamOfPhase
  <2>3. CASE lines[v] = <<"start">>
    <3>1. Last(lines[v]) = "start" /\ Append(lines[v], "event") = <<"start", "event">>
      BY <2>3, StartedStream
    <3>2. lines' = [lines EXCEPT ![v] = Append(@, "event")]
      BY <2>1, <3>1
    <3>3. <<"start", "event">> \in Seq(LineKinds)
      BY StartedStream
    <3> QED BY <1>2, <1>t, <2>1, <2>3, <3>1, <3>2, <3>3
  <2>4. CASE lines[v] = <<"start", "event">>
    <3>1. Last(lines[v]) = "event"
      BY <2>4 DEF Last
    <3>2. lines' = lines
      BY <1>t, <2>1, <3>1
    <3> QED BY <1>t, <2>1, <3>2
  <2> QED BY <2>2, <2>3, <2>4
<1>3. CASE mode[v] = "sealed"
  BY <1>3, <1>t DEF Emit
<1> QED BY <1>t, <1>1, <1>2, <1>3

LEMMA InvInit ==
  Init => Inv
<1> SUFFICES ASSUME Init PROVE Inv
  OBVIOUS
<1> USE BoundsAssumption
<1>1. /\ run = [r \in Runs |-> "none"] /\ worker = [r \in Runs |-> "none"]
      /\ hook = [r \in Runs |-> [pc |-> "none", view |-> None]]
      /\ mode = [r \in Runs |-> "buffer"] /\ lines = [r \in Runs |-> <<>>]
      /\ submitted = 0 /\ active = None /\ view = None /\ attached = None /\ asked = <<>>
      /\ reader = Idle
  BY DEF Init
<1>2. /\ reader \in Reader /\ reader.pc = "idle" /\ reader.drain = FALSE
  BY <1>1, Zenon DEF Idle, Reader
<1>3. /\ run \in [Runs -> RunPcs] /\ worker \in [Runs -> WorkerPcs] /\ hook \in [Runs -> HookState]
      /\ mode \in [Runs -> {"buffer", "live", "sealed"}] /\ lines \in [Runs -> Seq(LineKinds)]
  BY <1>1 DEF RunPcs, WorkerPcs, HookState
<1>4. /\ pending \in [Runs -> Asks \cup {None}] /\ answered \in [Asks -> Asks \cup {NoAnswer}]
      /\ asked \in Seq(Runs) /\ Len(asked) <= MaxAsks
      /\ sent \subseteq Asks /\ told \subseteq Runs
      /\ submitted \in 0..MaxRuns /\ ops \in 0..MaxOps
      /\ {active, view, attached} \subseteq Runs \cup {None}
  BY <1>1 DEF Init
<1>5. /\ buffered \in [Runs -> BOOLEAN] /\ woken \in [Runs -> BOOLEAN]
      /\ abandoned \in [Runs -> BOOLEAN] /\ reported \in [Runs -> BOOLEAN]
      /\ patient \in BOOLEAN /\ named \in BOOLEAN /\ cancelPending \in BOOLEAN /\ event \in BOOLEAN
  BY DEF Init
<1>6. TypeOK
  BY <1>2, <1>3, <1>4, <1>5 DEF TypeOK, HookState, LineKinds
<1>7. RunsServed
  BY <1>1 DEF RunsServed, OneServed, WorkersServed, StreamOfPhase, Served, Before, None, Runs
<1>8. ReaderPlace
  BY <1>2 DEF ReaderPlace
<1> QED BY <1>6, <1>7, <1>8 DEF Inv
-----------------------------------------------------------------------------
(* The reader thread.  But for the prompt it accepts, none of its steps    *)
(* touches a run, its worker or its stream.                                *)
ReaderActs ==
  \/ Drain \/ ReaderExits \/ InOp
  \/ (\E r \in Runs : OpCancel(r)) \/ (\E n \in Asks : OpAnswer(n))

LEMMA ReaderTouches ==
  ASSUME ReaderActs
  PROVE  /\ UNCHANGED <<patient, named, submitted, active, view, attached, run, worker, hook>>
         /\ UNCHANGED <<mode, buffered, lines, asked, abandoned, reported>>
<1> USE DEF hostVars, serverVars, viewVars, askVars, historyVars
<1>1. CASE Drain \/ ReaderExits
  BY <1>1 DEF Drain, ReaderExits
<1>2. CASE (\E r \in Runs : OpCancel(r)) \/ (\E n \in Asks : OpAnswer(n))
  BY <1>2 DEF OpCancel, OpAnswer
<1>3. CASE InOp
  <2>1. CASE ReaderPends \/ ReaderCancels \/ ReaderLooks
    BY <2>1 DEF ReaderPends, ReaderCancels, ReaderLooks
  <2>2. CASE ReaderWakes \/ ReaderCrashes
    BY <2>2 DEF ReaderWakes, ReaderCrashes
  <2>3. CASE ReaderAnswers \/ ReaderResolves
    BY <2>3 DEF ReaderAnswers, ReaderResolves
  <2> QED BY <1>3, <2>1, <2>2, <2>3 DEF InOp
<1> QED BY <1>1, <1>2, <1>3 DEF ReaderActs

LEMMA ServedByReader ==
  ASSUME RunsServed, ReaderActs
  PROVE  RunsServed'
BY ReaderTouches DEF RunsServed, OneServed, WorkersServed, StreamOfPhase, Served

(* A reader's place, as Reader has it.                                     *)
LEMMA ReaderGoes ==
  ASSUME reader \in Reader, NEW pc \in {"idle", "pend", "cancel", "look", "wake", "answer",
           "resolve", "wait", "exit", "crashed"}, Goes(pc)
  PROVE  /\ reader' \in Reader /\ reader'.pc = pc /\ reader'.run = reader.run
         /\ reader'.ask = reader.ask /\ reader'.at = reader.at /\ reader'.drain = reader.drain
BY DEF Goes, Reader

LEMMA IdleReader ==
  /\ Idle \in Reader /\ Idle.pc = "idle" /\ Idle.drain = FALSE /\ Idle.run = None
  /\ Idle.ask = None /\ Idle.at = None
BY Zenon DEF Idle, Reader

LEMMA ReaderReturns ==
  ASSUME reader \in Reader, Returns
  PROVE  /\ reader' \in Reader
         /\ \/ reader' = Idle
            \/ /\ reader.drain /\ reader'.pc = "wait" /\ reader'.drain = reader.drain
<1>1. CASE reader.drain
  BY <1>1 DEF Returns, Reader
<1>2. CASE ~reader.drain
  BY <1>2, IdleReader DEF Returns
<1> QED BY <1>1, <1>2

LEMMA ReaderPlaceStep ==
  ASSUME Inv, ReaderActs
  PROVE  reader' \in Reader /\ (reader'.pc = "resolve" => reader'.at # None) /\ ReaderPlace'
<1>t. /\ reader \in Reader /\ ReaderPlace
      /\ active \in Runs \cup {None} /\ pending \in [Runs -> Asks \cup {None}]
      /\ asked \in Seq(Runs)
  BY DEF Inv, TypeOK
<1>n. \A r \in Runs : r # None
  BY BoundsAssumption DEF Runs, None
<1>1. CASE Drain
  <2>1. reader' = [Idle EXCEPT !.pc = IF active = None THEN "exit" ELSE "cancel",
                               !.run = active, !.drain = TRUE]
    BY <1>1 DEF Drain
  <2>2. /\ reader' \in Reader /\ reader'.pc = (IF active = None THEN "exit" ELSE "cancel")
        /\ reader'.run = active
    BY <2>1, <1>t, IdleReader DEF Reader
  <2> QED BY <2>2 DEF ReaderPlace
<1>2. CASE ReaderExits
  BY <1>2, <1>t, ReaderGoes DEF ReaderExits, ReaderPlace
<1>3. CASE ReaderPends
  <2>1. reader.pc = "pend" /\ Goes("cancel")
    BY <1>3 DEF ReaderPends
  <2>2. ~reader.drain
    BY <1>t, <2>1 DEF ReaderPlace
  <2> QED BY <1>t, <2>1, <2>2, ReaderGoes DEF ReaderPlace
<1>4. CASE ReaderCancels
  BY <1>4, <1>t, ReaderGoes DEF ReaderCancels, ReaderPlace
<1>5. CASE ReaderLooks
  BY <1>5, <1>t, ReaderGoes, ReaderReturns, IdleReader DEF ReaderLooks, ReaderPlace
<1>6. CASE ReaderWakes
  BY <1>6, <1>t, ReaderReturns, IdleReader DEF ReaderWakes, ReaderPlace
<1>7. CASE ReaderCrashes
  BY <1>7, <1>t, ReaderGoes DEF ReaderCrashes, ReaderPlace
<1>8. CASE ReaderAnswers
  <2>1. reader.pc = "answer" /\ reader.run \in Runs /\ ~reader.drain
    BY <1>8, <1>t DEF ReaderAnswers, ReaderPlace, Reader
  <2>2. CASE MayAnswer(reader.run)
    <3>1. reader' = [reader EXCEPT !.pc = "resolve", !.at = pending[reader.run]]
      BY <1>8, <2>2 DEF ReaderAnswers
    <3>2. pending[reader.run] \in Asks \cup {None} /\ pending[reader.run] # None
      BY <1>t, <2>1, <2>2 DEF MayAnswer
    <3>3. /\ reader' \in Reader /\ reader'.pc = "resolve" /\ reader'.at = pending[reader.run]
          /\ reader'.run = reader.run /\ reader'.drain = reader.drain
      BY <1>t, <3>1, <3>2 DEF Reader
    <3> QED BY <1>n, <2>1, <3>2, <3>3 DEF ReaderPlace
  <2>3. CASE ~MayAnswer(reader.run)
    BY <1>8, <2>3, IdleReader DEF ReaderAnswers, ReaderPlace
  <2> QED BY <2>2, <2>3
<1>9. CASE ReaderResolves
  BY <1>9, IdleReader DEF ReaderResolves, ReaderPlace
<1>10. ASSUME NEW r \in Runs, OpCancel(r)
       PROVE  reader' \in Reader /\ (reader'.pc = "resolve" => reader'.at # None) /\ ReaderPlace'
  <2>1. CASE active = r
    <3>1. reader' = [Idle EXCEPT !.pc = "pend", !.run = r]
      BY <1>10, <2>1 DEF OpCancel
    <3>2. /\ reader' \in Reader /\ reader'.pc = "pend" /\ reader'.run = r
          /\ reader'.drain = Idle.drain
      BY <3>1, IdleReader DEF Reader
    <3> QED BY <1>n, <3>2, IdleReader DEF ReaderPlace
  <2>2. CASE active # r
    BY <1>10, <2>2, IdleReader DEF OpCancel, ReaderPlace
  <2> QED BY <2>1, <2>2
<1>11. ASSUME NEW n \in Asks, OpAnswer(n)
       PROVE  reader' \in Reader /\ (reader'.pc = "resolve" => reader'.at # None) /\ ReaderPlace'
  <2> DEFINE r == asked[n]
  <2>1. r \in Runs
    BY <1>11, <1>t DEF OpAnswer
  <2>2. \/ reader' = [Idle EXCEPT !.pc = "answer", !.run = r, !.ask = n]
        \/ reader' = Idle
    BY <1>11 DEF OpAnswer
  <2> HIDE DEF r
  <2>3. CASE reader' = [Idle EXCEPT !.pc = "answer", !.run = r, !.ask = n]
    <3>1. /\ reader' \in Reader /\ reader'.pc = "answer" /\ reader'.run = r
          /\ reader'.drain = Idle.drain
      BY <2>1, <2>3, IdleReader DEF Reader
    <3> QED BY <1>n, <2>1, <3>1, IdleReader DEF ReaderPlace
  <2>4. CASE reader' = Idle
    BY <2>4, IdleReader DEF ReaderPlace
  <2> QED BY <2>2, <2>3, <2>4
<1> QED BY <1>1, <1>2, <1>3, <1>4, <1>5, <1>6, <1>7, <1>8, <1>9, <1>10, <1>11
        DEF ReaderActs, InOp

(* What the reader may change keeps its type.                              *)
LEMMA TypeReader ==
  ASSUME Inv, ReaderActs
  PROVE  TypeOK'
<1>t. /\ reader \in Reader /\ ReaderPlace /\ TypeOK
      /\ pending \in [Runs -> Asks \cup {None}] /\ answered \in [Asks -> Asks \cup {NoAnswer}]
      /\ woken \in [Runs -> BOOLEAN] /\ event \in BOOLEAN /\ cancelPending \in BOOLEAN
      /\ ops \in 0..MaxOps /\ told \subseteq Runs /\ sent \subseteq Asks
      /\ view \in Runs \cup {None}
  BY DEF Inv, TypeOK
<1>1. reader' \in Reader /\ (reader'.pc = "resolve" => reader'.at # None)
  BY ReaderPlaceStep
<1>2. /\ UNCHANGED <<patient, named, submitted, active, view, attached, run, worker, hook>>
      /\ UNCHANGED <<mode, buffered, lines, asked, abandoned, reported>>
  BY ReaderTouches
<1> DEFINE Rest == /\ ops' \in 0..MaxOps /\ cancelPending' \in BOOLEAN /\ event' \in BOOLEAN
                   /\ pending' \in [Runs -> Asks \cup {None}]
                   /\ answered' \in [Asks -> Asks \cup {NoAnswer}]
                   /\ woken' \in [Runs -> BOOLEAN]
                   /\ sent' \subseteq Asks /\ told' \subseteq Runs
<1>3. Rest
  <2> USE DEF hostVars, serverVars, viewVars, askVars, historyVars
  <2>1. CASE Drain \/ ReaderExits \/ ReaderLooks \/ ReaderCrashes
    BY <1>t, <2>1 DEF Drain, ReaderExits, ReaderLooks, ReaderCrashes
  <2>2. CASE ReaderPends
    BY <1>t, <2>2 DEF ReaderPends
  <2>3. CASE ReaderCancels
    <3>1. reader.run \in Runs
      BY <1>t, <2>3 DEF ReaderCancels, ReaderPlace, Reader
    <3>2. told' \subseteq Runs
      BY <1>t, <2>3, <3>1 DEF ReaderCancels
    <3>3. event' = TRUE /\ UNCHANGED <<ops, cancelPending, pending, answered, woken, sent>>
      BY <2>3 DEF ReaderCancels
    <3> QED BY <1>t, <3>2, <3>3
  <2>4. CASE ReaderWakes
    <3>1. /\ woken' = [woken EXCEPT ![view] = TRUE] /\ pending' = [pending EXCEPT ![view] = None]
          /\ UNCHANGED <<ops, cancelPending, event, answered, sent, told>>
      BY <2>4 DEF ReaderWakes, Wake
    <3>2. woken' \in [Runs -> BOOLEAN]
      BY <1>t, <3>1
    <3>3. pending' \in [Runs -> Asks \cup {None}]
      BY <1>t, <3>1
    <3> QED BY <1>t, <3>1, <3>2, <3>3
  <2>5. CASE ReaderAnswers
    <3>1. pending' \in [Runs -> Asks \cup {None}]
      BY <1>t, <2>5 DEF ReaderAnswers
    <3> QED BY <1>t, <2>5, <3>1 DEF ReaderAnswers
  <2>6. CASE ReaderResolves
    <3>1. reader.ask \in Asks \cup {NoAnswer}
      BY <1>t DEF Reader, NoAnswer, None
    <3>2. answered' \in [Asks -> Asks \cup {NoAnswer}]
      BY <1>t, <2>6, <3>1 DEF ReaderResolves
    <3> QED BY <1>t, <2>6, <3>2 DEF ReaderResolves
  <2>7. ASSUME NEW r \in Runs, OpCancel(r) PROVE Rest
    <3>1. ops' \in 0..MaxOps
      BY <1>t, <2>7, BoundsAssumption DEF OpCancel
    <3> QED BY <1>t, <2>7, <3>1 DEF OpCancel
  <2>8. ASSUME NEW n \in Asks, OpAnswer(n) PROVE Rest
    <3>1. ops' \in 0..MaxOps /\ sent' \subseteq Asks
      BY <1>t, <2>8, BoundsAssumption DEF OpAnswer
    <3> QED BY <1>t, <2>8, <3>1 DEF OpAnswer
  <2> QED BY <2>1, <2>2, <2>3, <2>4, <2>5, <2>6, <2>7, <2>8 DEF ReaderActs, InOp
<1> QED BY <1>t, <1>1, <1>2, <1>3 DEF TypeOK
-----------------------------------------------------------------------------
(* The thread of a run, and the acceptance of the next.                    *)
LEMMA ServedBySubmit ==
  ASSUME Inv, Submit
  PROVE  TypeOK' /\ RunsServed'
<1> USE BoundsAssumption DEF viewVars, askVars, historyVars, None
<1>t. /\ TypeOK /\ OneServed /\ WorkersServed /\ StreamOfPhase
      /\ submitted \in Nat /\ run \in [Runs -> RunPcs]
  BY DEF Inv, RunsServed, TypeOK
<1>1. PICK new \in Runs : new = submitted + 1 /\ submitted' = new /\ active' = new
  BY <1>t DEF Submit, Runs
<1>2. \A s \in Runs : run'[s] = IF s = new THEN "accepted" ELSE run[s]
  BY <1>t, <1>1 DEF Submit
<1>3. run' \in [Runs -> RunPcs]
  BY <1>t, <1>1 DEF Submit, RunPcs
<1>4. /\ active = None /\ reader' = reader
      /\ UNCHANGED <<patient, named, ops, reader, view, cancelPending, attached, event, worker>>
      /\ UNCHANGED <<hook, mode, buffered, lines, asked, pending, answered, woken, abandoned>>
      /\ UNCHANGED <<reported, sent, told>>
  BY DEF Submit
<1>5. TypeOK'
  <2>1. submitted' \in 0..MaxRuns /\ active' \in Runs
    BY <1>1 DEF Runs
  <2> QED BY <1>t, <1>3, <1>4, <2>1 DEF TypeOK
<1>6. \A s \in Runs : s \in Nat /\ s # None
  BY DEF Runs
<1>7. run[new] = "none" /\ new # submitted
  BY <1>t, <1>1, <1>6 DEF OneServed
<1>8. \A s \in Runs : ~Served(s)
  BY <1>t, <1>4, <1>6 DEF OneServed
<1>9. \A s \in Runs : s # new => (s > submitted <=> s > new)
  BY <1>t, <1>1, <1>6
<1>10. \A s \in Runs : Served(s)' <=> s = new
  BY <1>2, <1>8 DEF Served
<1>11. OneServed'
  <2> SUFFICES ASSUME NEW s \in Runs
               PROVE  /\ run'[s] = "none" <=> s > new
                      /\ Served(s)' <=> active' = s
                      /\ view = s <=> Served(s)' /\ run'[s] # "accepted"
                      /\ attached = s <=> Served(s)' /\ run'[s] \notin {"accepted", "detached"}
    BY <1>1, <1>4 DEF OneServed
  <2>1. view # s /\ attached # s /\ (run[s] = "none" <=> s > submitted)
    BY <1>t, <1>8 DEF OneServed
  <2> QED BY <1>1, <1>2, <1>6, <1>9, <1>10, <2>1
<1>12. WorkersServed'
  BY <1>t, <1>2, <1>4, <1>7 DEF WorkersServed
<1>13. StreamOfPhase'
  <2>1. \A s \in Runs : run[s] \in Before <=> run'[s] \in Before
    BY <1>2, <1>7 DEF Before
  <2>2. \A s \in Runs : run[s] \in {"joining", "joined"} <=> run'[s] \in {"joining", "joined"}
    BY <1>2, <1>7
  <2> QED BY <1>t, <1>4, <2>1, <2>2 DEF StreamOfPhase
<1> QED BY <1>5, <1>11, <1>12, <1>13 DEF RunsServed

(* A step from one place to the next while the run is served.              *)
LEMMA ServedMoves ==
  ASSUME OneServed, TypeOK, NEW r \in Runs,
         NEW from \in RunPcs, NEW to \in RunPcs, Moves(r, from, to),
         from \notin {"none", "cleared", "over", "reported", "detached"},
         to \notin {"none", "accepted", "cleared", "over", "detached"},
         UNCHANGED <<active, submitted>>, view' = r, attached' = r
  PROVE  OneServed'
<1>1. run[r] = from /\ \A s \in Runs : run'[s] = IF s = r THEN to ELSE run[s]
  BY RunMoves
<1>2. Served(r) /\ active = r
  BY <1>1 DEF Served, OneServed, RunPcs
<1>3. \A s \in Runs : s # r => ~Served(s)
  BY <1>2 DEF OneServed
<1>4. \A s \in Runs : Served(s)' <=> s = r
  BY <1>1, <1>3 DEF Served, RunPcs
<1> QED BY <1>1, <1>2, <1>4 DEF OneServed

LEMMA ServedByRun ==
  ASSUME Inv, NEW r \in Runs, RunThread(r)
  PROVE  OneServed'
<1> USE BoundsAssumption DEF hostVars, serverVars, RunPcs
<1>t. TypeOK /\ OneServed
  BY DEF Inv, RunsServed
<1>n. \A s \in Runs : s # None /\ s \in Nat
  BY DEF Runs, None
<1>1. CASE RunAttaches(r)
  BY <1>1, <1>t, ServedMoves DEF RunAttaches
<1>2. ASSUME run[r] \in {"attached", "submitted", "reapplied", "joining", "joined"}
      PROVE  view = r /\ attached = r
  BY <1>2, <1>t DEF OneServed, Served
<1>3. CASE RunSubmits(r)
  <2>1. Moves(r, "attached", "submitted") /\ UNCHANGED <<active, submitted, view, attached>>
    BY <1>3 DEF RunSubmits
  <2> QED BY <1>t, <1>2, <2>1, ServedMoves DEF Moves
<1>4. CASE RunReapplies(r)
  <2>1. Moves(r, "submitted", "reapplied") /\ UNCHANGED <<active, submitted, view, attached>>
    BY <1>4 DEF RunReapplies
  <2> QED BY <1>t, <1>2, <2>1, ServedMoves DEF Moves
<1>5. CASE RunStarts(r)
  <2>1. Moves(r, "reapplied", "joining") /\ UNCHANGED <<active, submitted, view, attached>>
    BY <1>5 DEF RunStarts
  <2> QED BY <1>t, <1>2, <2>1, ServedMoves DEF Moves
<1>6. CASE RunJoins(r)
  <2>1. Moves(r, "joining", "joined") /\ UNCHANGED <<active, submitted, view, attached>>
    BY <1>6 DEF RunJoins
  <2> QED BY <1>t, <1>2, <2>1, ServedMoves DEF Moves
<1>7. CASE RunReports(r)
  <2>1. /\ Moves(r, "joined", "reported") \/ Moves(r, "reapplied", "reported")
        /\ UNCHANGED <<active, submitted, view, attached>>
    BY <1>7 DEF RunReports
  <2> QED BY <1>t, <1>2, <2>1, ServedMoves DEF Moves
<1>8. CASE RunDetaches(r)
  <2>1. /\ run[r] = "reported" /\ \A s \in Runs : run'[s] = IF s = r THEN "detached" ELSE run[s]
    BY <1>8, <1>t, RunMoves DEF RunDetaches
  <2>2. attached' = None /\ UNCHANGED <<active, submitted, view>>
    BY <1>8 DEF RunDetaches
  <2>3. active = r
    BY <1>t, <2>1 DEF OneServed, Served
  <2>4. \A s \in Runs : Served(s)' <=> Served(s)
    BY <2>1 DEF Served
  <2> QED BY <1>t, <1>n, <2>1, <2>2, <2>3, <2>4 DEF OneServed
<1>9. CASE RunClears(r)
  <2>1. /\ run[r] = "detached" /\ \A s \in Runs : run'[s] = IF s = r THEN "cleared" ELSE run[s]
    BY <1>9, <1>t, RunMoves DEF RunClears
  <2>2. active' = None /\ view' = None /\ UNCHANGED <<attached, submitted>>
    BY <1>9 DEF RunClears
  <2>3. active = r /\ \A s \in Runs : Served(s) <=> s = r
    BY <1>t, <2>1 DEF OneServed, Served
  <2>4. \A s \in Runs : ~Served(s)'
    BY <2>1, <2>3 DEF Served
  <2>5. \A s \in Runs : attached # s
    BY <1>t, <2>1, <2>3 DEF OneServed
  <2> QED BY <1>t, <1>n, <2>1, <2>2, <2>4, <2>5 DEF OneServed
<1>10. CASE RunForgets(r)
  <2>1. /\ run[r] = "cleared" /\ \A s \in Runs : run'[s] = IF s = r THEN "over" ELSE run[s]
    BY <1>10, <1>t, RunMoves DEF RunForgets
  <2>2. UNCHANGED <<attached, submitted, active, view>>
    BY <1>10 DEF RunForgets
  <2>3. \A s \in Runs : /\ Served(s)' <=> Served(s)
                        /\ run'[s] = "none" <=> run[s] = "none"
                        /\ Served(s) => run'[s] = run[s]
    BY <2>1 DEF Served
  <2> QED BY <1>t, <2>2, <2>3 DEF OneServed
<1> QED BY <1>1, <1>3, <1>4, <1>5, <1>6, <1>7, <1>8, <1>9, <1>10 DEF RunThread

LEMMA WorkersByRun ==
  ASSUME Inv, NEW r \in Runs, RunThread(r)
  PROVE  WorkersServed' /\ worker' \in [Runs -> WorkerPcs] /\ run' \in [Runs -> RunPcs]
<1> USE DEF hostVars, serverVars, RunPcs
<1>t. TypeOK /\ WorkersServed /\ worker \in [Runs -> WorkerPcs]
  BY DEF Inv, RunsServed, TypeOK
<1>a. ASSUME UNCHANGED <<hook, asked>>, worker' = worker,
             NEW from \in RunPcs, NEW to \in RunPcs \ {"none", "accepted"}, Moves(r, from, to),
             to = "attached" => worker[r] = "none",
             to \notin {"submitted", "reapplied", "joining"} =>
               worker[r] \notin {"working", "calling", "asking"}
      PROVE  WorkersServed' /\ worker' \in [Runs -> WorkerPcs] /\ run' \in [Runs -> RunPcs]
  <2>1. /\ run' \in [Runs -> RunPcs]
        /\ \A s \in Runs : run'[s] = IF s = r THEN to ELSE run[s]
    BY <1>t, <1>a, RunMoves
  <2> QED BY <1>t, <1>a, <2>1 DEF WorkersServed
<1>w. /\ run[r] \in {"none", "accepted", "attached"} => worker[r] = "none"
      /\ run[r] \notin {"submitted", "reapplied", "joining"} =>
           worker[r] \notin {"working", "calling", "asking"}
  BY <1>t DEF WorkersServed
<1>1. CASE RunAttaches(r)
  <2>1. Moves(r, "accepted", "attached") /\ UNCHANGED <<hook, asked, worker>>
    BY <1>1 DEF RunAttaches, askVars
  <2> QED BY <1>a, <1>w, <2>1 DEF Moves
<1>3. CASE RunSubmits(r)
  <2>1. Moves(r, "attached", "submitted") /\ UNCHANGED <<hook, asked>>
    BY <1>3 DEF RunSubmits, askVars
  <2>2. worker[r] = "none"
    BY <1>w, <2>1 DEF Moves
  <2>3. /\ run' \in [Runs -> RunPcs]
        /\ \A s \in Runs : run'[s] = IF s = r THEN "submitted" ELSE run[s]
    BY <1>t, <2>1, RunMoves
  <2>4. worker' = [worker EXCEPT ![r] = "working"] \/ worker' = worker
    BY <1>3 DEF RunSubmits
  <2>5. /\ worker' \in [Runs -> WorkerPcs]
        /\ \A s \in Runs : worker'[s] = worker[s] \/ (s = r /\ worker'[s] = "working")
    BY <1>t, <2>4 DEF WorkerPcs
  <2> QED BY <1>t, <2>1, <2>2, <2>3, <2>5 DEF WorkersServed
<1>4. CASE RunReapplies(r)
  <2>1. Moves(r, "submitted", "reapplied") /\ UNCHANGED <<hook, asked, worker>>
    BY <1>4 DEF RunReapplies, askVars
  <2> QED BY <1>a, <1>w, <2>1 DEF Moves
<1>5. CASE RunStarts(r)
  <2>1. Moves(r, "reapplied", "joining") /\ UNCHANGED <<hook, asked, worker>>
    BY <1>5 DEF RunStarts, askVars
  <2> QED BY <1>a, <1>w, <2>1 DEF Moves
<1>6. CASE RunJoins(r)
  <2>1. Moves(r, "joining", "joined") /\ UNCHANGED <<hook, asked, worker>> /\ worker[r] = "gone"
    BY <1>6 DEF RunJoins, askVars
  <2> QED BY <1>a, <1>w, <2>1 DEF Moves
<1>7. CASE RunReports(r)
  <2>1. UNCHANGED <<hook, asked, worker>>
    BY <1>7 DEF RunReports
  <2>2. CASE Moves(r, "joined", "reported")
    BY <1>a, <1>w, <2>1, <2>2 DEF Moves
  <2>3. CASE worker[r] = "none" /\ Moves(r, "reapplied", "reported")
    BY <1>a, <2>1, <2>3
  <2> QED BY <1>7, <2>2, <2>3 DEF RunReports
<1>8. CASE RunDetaches(r)
  <2>1. Moves(r, "reported", "detached") /\ UNCHANGED <<hook, asked, worker>>
    BY <1>8 DEF RunDetaches, askVars
  <2> QED BY <1>a, <1>w, <2>1 DEF Moves
<1>9. CASE RunClears(r)
  <2>1. Moves(r, "detached", "cleared") /\ UNCHANGED <<hook, asked, worker>>
    BY <1>9 DEF RunClears, askVars
  <2> QED BY <1>a, <1>w, <2>1 DEF Moves
<1>10. CASE RunForgets(r)
  <2>1. Moves(r, "cleared", "over") /\ UNCHANGED <<hook, asked, worker>>
    BY <1>10 DEF RunForgets, askVars
  <2> QED BY <1>a, <1>w, <2>1 DEF Moves
<1> QED BY <1>1, <1>3, <1>4, <1>5, <1>6, <1>7, <1>8, <1>9, <1>10 DEF RunThread

LEMMA LastLine ==
  ASSUME NEW s \in Seq(LineKinds)
  PROVE  /\ Append(s, "result") \in Seq(LineKinds) /\ Append(s, "result") # <<>>
         /\ Last(Append(s, "result")) = "result"
         /\ s # <<>> => Append(s, "result")[1] = s[1]
<1> DEFINE t == Append(s, "result")
<1>1. "result" \in LineKinds
  BY DEF LineKinds
<1>2. /\ t \in Seq(LineKinds) /\ Len(t) = Len(s) + 1 /\ Len(s) \in Nat
      /\ \A i \in 1..Len(s) : t[i] = s[i]
      /\ t[Len(s) + 1] = "result"
  BY <1>1, AppendedLine
<1>3. s # <<>> => Len(s) >= 1
  BY <1>2
<1> HIDE DEF t
<1>4. t # <<>>
  BY <1>2
<1>5. Last(t) = "result"
  BY <1>2 DEF Last
<1>6. s # <<>> => 1 \in 1..Len(s)
  BY <1>2, <1>3
<1> QED BY <1>2, <1>4, <1>5, <1>6 DEF t

(* The start line opens the stream and the result closes it; no other step *)
(* of a run's thread writes a line.                                        *)
LEMMA StreamByRun ==
  ASSUME Inv, NEW r \in Runs, RunThread(r)
  PROVE  /\ StreamOfPhase'
         /\ mode' \in [Runs -> {"buffer", "live", "sealed"}]
         /\ lines' \in [Runs -> Seq(LineKinds)]
         /\ \/ lines' = lines
            \/ /\ run[r] = "reapplied" /\ lines[r] = <<>>
               /\ \E first \in {<<"start">>, <<"start", "event">>} :
                    lines' = [lines EXCEPT ![r] = first]
            \/ /\ run[r] \in {"reapplied", "joined"}
               /\ lines' = [lines EXCEPT ![r] = Append(@, "result")]
<1> USE DEF hostVars, serverVars, viewVars, RunPcs
<1>t. /\ TypeOK /\ StreamOfPhase /\ mode \in [Runs -> {"buffer", "live", "sealed"}]
      /\ lines \in [Runs -> Seq(LineKinds)]
  BY DEF Inv, RunsServed, TypeOK, LineKinds
<1>a. ASSUME UNCHANGED <<mode, lines>>, NEW from \in RunPcs, NEW to \in RunPcs, Moves(r, from, to),
             from \in Before <=> to \in Before,
             from \in {"joining", "joined"} <=> to \in {"joining", "joined"}
      PROVE  StreamOfPhase'
  <2>1. run[r] = from /\ \A s \in Runs : run'[s] = IF s = r THEN to ELSE run[s]
    BY <1>t, <1>a, RunMoves
  <2>2. \A s \in Runs : /\ run'[s] \in Before <=> run[s] \in Before
                        /\ run'[s] \in {"joining", "joined"} <=> run[s] \in {"joining", "joined"}
    BY <1>a, <2>1
  <2> QED BY <1>t, <1>a, <2>2 DEF StreamOfPhase
<1>1. CASE RunAttaches(r)
  <2>1. Moves(r, "accepted", "attached") /\ UNCHANGED <<mode, lines>>
    BY <1>1 DEF RunAttaches
  <2> QED BY <1>a, <1>t, <2>1 DEF Before
<1>2. CASE RunSubmits(r)
  <2>1. Moves(r, "attached", "submitted") /\ UNCHANGED <<mode, lines>>
    BY <1>2 DEF RunSubmits
  <2> QED BY <1>a, <1>t, <2>1 DEF Before
<1>3. CASE RunReapplies(r)
  <2>1. Moves(r, "submitted", "reapplied") /\ UNCHANGED <<mode, lines>>
    BY <1>3 DEF RunReapplies
  <2> QED BY <1>a, <1>t, <2>1 DEF Before
<1>4. CASE RunStarts(r)
  <2>1. run[r] = "reapplied" /\ \A s \in Runs : run'[s] = IF s = r THEN "joining" ELSE run[s]
    BY <1>4, <1>t, RunMoves DEF RunStarts
  <2>2. lines[r] = <<>>
    BY <1>t, <2>1 DEF StreamOfPhase, Before
  <2>3. PICK first \in {<<"start">>, <<"start", "event">>} : lines' = [lines EXCEPT ![r] = first]
    BY <1>4 DEF RunStarts
  <2>4. mode' = [mode EXCEPT ![r] = "live"]
    BY <1>4 DEF RunStarts
  <2>5. first \in Seq(LineKinds)
    BY StartedStream
  <2>6. /\ mode' \in [Runs -> {"buffer", "live", "sealed"}] /\ lines' \in [Runs -> Seq(LineKinds)]
        /\ \A s \in Runs : /\ mode'[s] = IF s = r THEN "live" ELSE mode[s]
                           /\ lines'[s] = IF s = r THEN first ELSE lines[s]
    BY <1>t, <2>3, <2>4, <2>5
  <2>7. StreamOfPhase'
    <3> SUFFICES ASSUME NEW s \in Runs
                 PROVE  /\ mode'[s] = "buffer" <=> run'[s] \in Before
                        /\ mode'[s] = "live" <=> run'[s] \in {"joining", "joined"}
                        /\ mode'[s] = "buffer" => lines'[s] = <<>>
                        /\ mode'[s] = "live" => lines'[s] \in {<<"start">>, <<"start", "event">>}
                        /\ mode'[s] = "sealed" => lines'[s] # <<>> /\ Last(lines'[s]) = "result"
      BY DEF StreamOfPhase
    <3>1. CASE s = r
      BY <2>1, <2>6, <3>1 DEF Before
    <3>2. CASE s # r
      BY <1>t, <2>1, <2>6, <3>2 DEF StreamOfPhase
    <3> QED BY <3>1, <3>2
  <2> QED BY <2>1, <2>2, <2>3, <2>6, <2>7
<1>5. CASE RunJoins(r)
  <2>1. Moves(r, "joining", "joined") /\ UNCHANGED <<mode, lines>>
    BY <1>5 DEF RunJoins
  <2> QED BY <1>a, <1>t, <2>1 DEF Before
<1>6. CASE RunReports(r)
  <2>1. /\ run[r] \in {"joined", "reapplied"}
        /\ \A s \in Runs : run'[s] = IF s = r THEN "reported" ELSE run[s]
    <3>1. PICK from \in {"joined", "reapplied"} : Moves(r, from, "reported")
      BY <1>6 DEF RunReports
    <3> QED BY <1>t, <3>1, RunMoves
  <2>2. /\ lines' = [lines EXCEPT ![r] = Append(@, "result")]
        /\ mode' = [mode EXCEPT ![r] = "sealed"]
    BY <1>6 DEF RunReports
  <2>3. /\ Append(lines[r], "result") \in Seq(LineKinds) /\ Append(lines[r], "result") # <<>>
        /\ Last(Append(lines[r], "result")) = "result"
    BY <1>t, LastLine
  <2>4. /\ mode' \in [Runs -> {"buffer", "live", "sealed"}] /\ lines' \in [Runs -> Seq(LineKinds)]
        /\ \A s \in Runs : /\ mode'[s] = IF s = r THEN "sealed" ELSE mode[s]
                           /\ lines'[s] = IF s = r THEN Append(lines[r], "result") ELSE lines[s]
    BY <1>t, <2>2, <2>3
  <2>5. StreamOfPhase'
    <3> SUFFICES ASSUME NEW s \in Runs
                 PROVE  /\ mode'[s] = "buffer" <=> run'[s] \in Before
                        /\ mode'[s] = "live" <=> run'[s] \in {"joining", "joined"}
                        /\ mode'[s] = "buffer" => lines'[s] = <<>>
                        /\ mode'[s] = "live" => lines'[s] \in {<<"start">>, <<"start", "event">>}
                        /\ mode'[s] = "sealed" => lines'[s] # <<>> /\ Last(lines'[s]) = "result"
      BY DEF StreamOfPhase
    <3>1. CASE s = r
      BY <2>1, <2>3, <2>4, <3>1 DEF Before
    <3>2. CASE s # r
      BY <1>t, <2>1, <2>4, <3>2 DEF StreamOfPhase
    <3> QED BY <3>1, <3>2
  <2> QED BY <2>1, <2>2, <2>4, <2>5
<1>7. CASE RunDetaches(r)
  <2>1. Moves(r, "reported", "detached") /\ UNCHANGED <<mode, lines>>
    BY <1>7 DEF RunDetaches
  <2> QED BY <1>a, <1>t, <2>1 DEF Before
<1>8. CASE RunClears(r)
  <2>1. Moves(r, "detached", "cleared") /\ UNCHANGED <<mode, lines>>
    BY <1>8 DEF RunClears
  <2> QED BY <1>a, <1>t, <2>1 DEF Before
<1>9. CASE RunForgets(r)
  <2>1. Moves(r, "cleared", "over") /\ UNCHANGED <<mode, lines>>
    BY <1>9 DEF RunForgets
  <2> QED BY <1>a, <1>t, <2>1 DEF Before
<1> QED BY <1>1, <1>2, <1>3, <1>4, <1>5, <1>6, <1>7, <1>8, <1>9 DEF RunThread

LEMMA TypeByRun ==
  ASSUME Inv, NEW r \in Runs, RunThread(r)
  PROVE  TypeOK'
<1> USE DEF hostVars, serverVars, viewVars, askVars, historyVars
<1>t. /\ TypeOK /\ event \in BOOLEAN /\ cancelPending \in BOOLEAN
      /\ woken \in [Runs -> BOOLEAN] /\ reported \in [Runs -> BOOLEAN]
      /\ pending \in [Runs -> Asks \cup {None}]
      /\ {active, view, attached} \subseteq Runs \cup {None}
  BY DEF Inv, TypeOK
<1>1. /\ worker' \in [Runs -> WorkerPcs] /\ run' \in [Runs -> RunPcs]
      /\ mode' \in [Runs -> {"buffer", "live", "sealed"}] /\ lines' \in [Runs -> Seq(LineKinds)]
  BY WorkersByRun, StreamByRun
<1>2. /\ UNCHANGED <<patient, named, reader, submitted, ops, hook, buffered, asked, answered>>
      /\ UNCHANGED <<abandoned, sent, told>>
  <2>1. CASE RunAttaches(r) \/ RunSubmits(r) \/ RunReapplies(r) \/ RunStarts(r)
    BY <2>1 DEF RunAttaches, RunSubmits, RunReapplies, RunStarts
  <2>2. CASE RunJoins(r) \/ RunReports(r) \/ RunDetaches(r) \/ RunClears(r) \/ RunForgets(r)
    BY <2>2 DEF RunJoins, RunReports, RunDetaches, RunClears, RunForgets
  <2> QED BY <2>1, <2>2 DEF RunThread
<1> DEFINE Rest == /\ {active', view', attached'} \subseteq Runs \cup {None}
                   /\ event' \in BOOLEAN /\ cancelPending' \in BOOLEAN
                   /\ woken' \in [Runs -> BOOLEAN] /\ reported' \in [Runs -> BOOLEAN]
                   /\ pending' \in [Runs -> Asks \cup {None}]
<1>3. CASE RunAttaches(r)
  <2>1. Rest
    BY <1>t, <1>3 DEF RunAttaches
  <2> HIDE DEF Rest
  <2> QED BY <1>t, <1>1, <1>2, <2>1 DEF TypeOK, LineKinds, Rest
<1>4. CASE RunReapplies(r)
  <2>1. (event \/ cancelPending) \in BOOLEAN
    BY <1>t
  <2>2. event' = (event \/ cancelPending) /\ cancelPending' = FALSE
        /\ UNCHANGED <<active, view, attached, woken, reported, pending>>
    BY <1>4 DEF RunReapplies
  <2>3. event' \in BOOLEAN /\ cancelPending' \in BOOLEAN
    BY <2>1, <2>2, Zenon
  <2> QED BY <1>t, <1>1, <1>2, <2>2, <2>3 DEF TypeOK, LineKinds
<1>5. CASE RunSubmits(r) \/ RunStarts(r) \/ RunForgets(r)
  <2>1. /\ UNCHANGED <<active, view, attached, woken, reported, pending>>
    BY <1>5 DEF RunSubmits, RunStarts, RunForgets
  <2>2. event' \in {event, FALSE} /\ cancelPending' \in {cancelPending, FALSE}
    BY <1>5 DEF RunSubmits, RunStarts, RunForgets
  <2>3. event' \in BOOLEAN /\ cancelPending' \in BOOLEAN
    BY <1>t, <2>2, Zenon
  <2> QED BY <1>t, <1>1, <1>2, <2>1, <2>3 DEF TypeOK, LineKinds
<1>6. CASE RunJoins(r)
  <2>1. /\ UNCHANGED <<active, view, attached, woken, event, cancelPending, pending>>
        /\ reported' = [reported EXCEPT ![r] = event]
    BY <1>6 DEF RunJoins
  <2>2. reported' \in [Runs -> BOOLEAN]
    BY <1>t, <2>1
  <2> QED BY <1>t, <1>1, <1>2, <2>1, <2>2 DEF TypeOK, LineKinds
<1>7. CASE RunReports(r)
  <2>1. /\ UNCHANGED <<active, view, attached, reported, event, cancelPending>>
        /\ \/ woken' = [woken EXCEPT ![r] = TRUE] /\ pending' = [pending EXCEPT ![r] = None]
           \/ UNCHANGED <<woken, pending>>
    BY <1>7 DEF RunReports, Wake
  <2>2. woken' \in [Runs -> BOOLEAN] /\ pending' \in [Runs -> Asks \cup {None}]
    BY <1>t, <2>1
  <2> QED BY <1>t, <1>1, <1>2, <2>1, <2>2 DEF TypeOK, LineKinds
<1>8. CASE RunDetaches(r) \/ RunClears(r)
  <2>1. /\ UNCHANGED <<woken, reported, event, cancelPending, pending>>
        /\ {active', view', attached'} \subseteq Runs \cup {None}
    BY <1>t, <1>8 DEF RunDetaches, RunClears
  <2> QED BY <1>t, <1>1, <1>2, <2>1 DEF TypeOK, LineKinds
<1> QED BY <1>3, <1>4, <1>5, <1>6, <1>7, <1>8 DEF RunThread

-----------------------------------------------------------------------------
(* A worker, and the hooks that outlive it.                                *)
LEMMA OneWorker ==
  ASSUME Inv, NEW r \in Runs, worker[r] \in {"working", "calling", "asking"}
  PROVE  /\ attached = r /\ view = r /\ active = r
         /\ \A s \in Runs : s # r => worker[s] \notin {"working", "calling", "asking"}
<1>1. run[r] \in {"submitted", "reapplied", "joining"} /\ Served(r)
  BY DEF Inv, RunsServed, WorkersServed, Served
<1>2. attached = r /\ view = r /\ active = r
  BY <1>1 DEF Inv, RunsServed, OneServed
<1>3. ASSUME NEW s \in Runs, s # r PROVE worker[s] \notin {"working", "calling", "asking"}
  <2>1. ~Served(s)
    BY <1>2, <1>3 DEF Inv, RunsServed, OneServed
  <2> QED BY <2>1 DEF Inv, RunsServed, WorkersServed, Served
<1> QED BY <1>2, <1>3

LEMMA ServedByWorker ==
  ASSUME Inv, NEW r \in Runs, Worker(r)
  PROVE  /\ TypeOK' /\ RunsServed'
         /\ UNCHANGED <<reader, event, told, run, reported, submitted, active>>
         /\ UNCHANGED <<view, cancelPending, answered, woken, sent, patient, named>>
         /\ (lines' = lines \/ \E v \in Runs : /\ mode[v] = "live" /\ lines[v] = <<"start">>
                                               /\ lines' = [lines EXCEPT ![v] = Append(@, "event")])
<1> USE DEF hostVars, serverVars, viewVars, askVars, historyVars
<1>t. /\ TypeOK /\ OneServed /\ WorkersServed /\ StreamOfPhase /\ RunsServed
      /\ worker \in [Runs -> WorkerPcs] /\ pending \in [Runs -> Asks \cup {None}]
      /\ abandoned \in [Runs -> BOOLEAN] /\ asked \in Seq(Runs) /\ Len(asked) <= MaxAsks
      /\ hook \in [Runs -> HookState]
  BY DEF Inv, RunsServed, TypeOK, HookState
<1>0. /\ UNCHANGED <<patient, named, reader, submitted, ops, active, view, cancelPending>>
      /\ UNCHANGED <<attached, event, run, mode, answered, woken, reported, sent, told>>
      /\ worker[r] \in {"working", "calling", "asking"}
  <2>1. CASE WorkerEmits(r) \/ WorkerCalls(r) \/ WorkerAsks(r)
    BY <2>1 DEF WorkerEmits, WorkerCalls, WorkerAsks, At
  <2>2. CASE WorkerHears(r) \/ WorkerIsWoken(r) \/ WorkerTimesOut(r) \/ WorkerEnds(r)
    BY <2>2 DEF WorkerHears, WorkerIsWoken, WorkerTimesOut, WorkerEnds, At
  <2> QED BY <2>1, <2>2 DEF Worker
<1>1. OneServed'
  BY <1>0, <1>t DEF OneServed, Served
<1>r. run[r] \in {"submitted", "reapplied", "joining"}
  BY <1>0, <1>t DEF WorkersServed
<1>k. ASSUME UNCHANGED lines PROVE StreamOfPhase'
  BY <1>0, <1>t, <1>k DEF StreamOfPhase
(* The steps that say nothing.                                             *)
<1>q. ASSUME UNCHANGED <<lines, buffered, asked>>, NEW pc \in {"working", "calling", "gone"},
             Works(r, pc), pc = "calling" => Len(asked) < MaxAsks,
             hook' \in [Runs -> HookState],
             \A s \in Runs : hook'[s].pc = "logging" => hook'[s] = hook[s],
             pending' \in [Runs -> Asks \cup {None}], abandoned' \in [Runs -> BOOLEAN]
      PROVE  TypeOK' /\ RunsServed'
  <2>1. /\ worker' \in [Runs -> WorkerPcs]
        /\ \A s \in Runs : worker'[s] = IF s = r THEN pc ELSE worker[s]
    BY <1>q, <1>t, WorkerWorks DEF WorkerPcs
  <2>2. TypeOK'
    BY <1>0, <1>t, <1>q, <2>1 DEF TypeOK, HookState
  <2>3. WorkersServed'
    BY <1>0, <1>r, <1>t, <1>q, <2>1 DEF WorkersServed
  <2> QED BY <1>1, <1>k, <1>q, <2>2, <2>3 DEF RunsServed
<1>2. CASE WorkerEmits(r)
  <2>1. attached = r /\ Emit(r) /\ UNCHANGED <<worker, hook, asked, pending, abandoned>>
    BY <1>0, <1>2, OneWorker DEF WorkerEmits
  <2>2. /\ buffered' \in [Runs -> BOOLEAN] /\ lines' \in [Runs -> Seq(LineKinds)]
        /\ \A s \in Runs : s # r => lines'[s] = lines[s]
        /\ \/ lines' = lines
           \/ /\ mode[r] = "live" /\ lines[r] = <<"start">> /\ lines'[r] = <<"start", "event">>
              /\ lines' = [lines EXCEPT ![r] = Append(@, "event")]
    BY <1>t, <2>1, Emitted
  <2>3. TypeOK'
    BY <1>0, <1>t, <2>1, <2>2 DEF TypeOK, LineKinds
  <2>4. WorkersServed'
    BY <1>0, <1>t, <2>1 DEF WorkersServed
  <2>5. StreamOfPhase'
    BY <1>0, <1>k, <1>t, <2>2 DEF StreamOfPhase
  <2> QED BY <1>0, <1>1, <2>2, <2>3, <2>4, <2>5 DEF RunsServed
<1>3. CASE WorkerCalls(r)
  <2>1. /\ UNCHANGED <<lines, buffered, asked, hook, pending, abandoned>>
        /\ Works(r, "calling") /\ Len(asked) < MaxAsks
    BY <1>3 DEF WorkerCalls
  <2> QED BY <1>0, <1>q, <1>t, <2>1
<1>4. CASE WorkerAsks(r)
  <2>1. /\ worker[r] = "calling" /\ Works(r, "asking") /\ asked' = Append(asked, r) /\ Emit(r)
        /\ pending' = [pending EXCEPT ![r] = Len(asked')] /\ UNCHANGED <<hook, abandoned>>
    BY <1>4 DEF WorkerAsks, At
  <2>2. /\ worker' \in [Runs -> WorkerPcs]
        /\ \A s \in Runs : worker'[s] = IF s = r THEN "asking" ELSE worker[s]
    BY <2>1, <1>t, WorkerWorks DEF WorkerPcs
  <2>3. /\ buffered' \in [Runs -> BOOLEAN] /\ lines' \in [Runs -> Seq(LineKinds)]
        /\ \A s \in Runs : s # r => lines'[s] = lines[s]
        /\ \/ lines' = lines
           \/ /\ mode[r] = "live" /\ lines[r] = <<"start">> /\ lines'[r] = <<"start", "event">>
              /\ lines' = [lines EXCEPT ![r] = Append(@, "event")]
    BY <1>t, <2>1, Emitted
  <2>4. Len(asked) < MaxAsks
    BY <1>t, <2>1 DEF WorkersServed
  <2>5. asked' \in Seq(Runs) /\ Len(asked') = Len(asked) + 1 /\ Len(asked) \in Nat
    BY <1>t, <2>1, AppendedLine
  <2>6. Len(asked') \in Asks
    BY <2>4, <2>5, BoundsAssumption DEF Asks
  <2>7. pending' \in [Runs -> Asks \cup {None}]
    BY <1>t, <2>1, <2>6
  <2>8. TypeOK'
    <3>1. Len(asked') <= MaxAsks
      BY <2>6 DEF Asks
    <3> QED BY <1>0, <1>t, <2>1, <2>2, <2>3, <2>5, <2>7, <3>1 DEF TypeOK, LineKinds
  <2>9. WorkersServed'
    <3>1. \A s \in Runs : worker'[s] # "calling"
      BY <1>0, <2>2, OneWorker
    <3> QED BY <1>0, <1>r, <1>t, <2>1, <2>2, <3>1 DEF WorkersServed
  <2>10. StreamOfPhase'
    BY <1>0, <1>k, <1>t, <2>3 DEF StreamOfPhase
  <2> QED BY <1>0, <1>1, <2>3, <2>8, <2>9, <2>10 DEF RunsServed
<1>5. CASE WorkerHears(r) \/ WorkerIsWoken(r) \/ WorkerTimesOut(r)
  <2>1. /\ UNCHANGED <<lines, buffered, asked, hook>> /\ Works(r, "working")
        /\ pending' = [pending EXCEPT ![r] = IF @ = Question(r) THEN None ELSE @]
        /\ abandoned' = abandoned \/ abandoned' = [abandoned EXCEPT ![r] = TRUE]
    BY <1>5 DEF WorkerHears, WorkerIsWoken, WorkerTimesOut, Retire
  <2>2. pending' \in [Runs -> Asks \cup {None}] /\ abandoned' \in [Runs -> BOOLEAN]
    BY <1>t, <2>1
  <2> QED BY <1>0, <1>q, <1>t, <2>1, <2>2
<1>6. CASE WorkerEnds(r)
  <2>1. /\ UNCHANGED <<lines, buffered, asked, pending, abandoned>> /\ Works(r, "gone")
        /\ hook' = [hook EXCEPT ![r].pc = IF r \in HookFails THEN "running" ELSE "gone"]
    BY <1>6 DEF WorkerEnds
  <2>2. /\ hook' \in [Runs -> HookState]
        /\ \A s \in Runs : s # r => hook'[s] = hook[s]
        /\ hook'[r].pc # "logging"
    BY <1>t, <2>1 DEF HookState
  <2> QED BY <1>0, <1>q, <1>t, <2>1, <2>2
<1> QED BY <1>2, <1>3, <1>4, <1>5, <1>6 DEF Worker

LEMMA ServedByHook ==
  ASSUME Inv, NEW r \in Runs, HookThread(r)
  PROVE  /\ TypeOK' /\ RunsServed'
         /\ UNCHANGED <<reader, event, told, run, reported, submitted, active>>
         /\ UNCHANGED <<view, cancelPending, worker, asked, pending, answered, woken, sent>>
         /\ UNCHANGED <<patient, named>>
         /\ (lines' = lines \/ \E v \in Runs : /\ mode[v] = "live" /\ lines[v] = <<"start">>
                                               /\ lines' = [lines EXCEPT ![v] = Append(@, "event")])
<1> USE DEF hostVars, serverVars, viewVars, askVars, historyVars
<1>t. /\ TypeOK /\ OneServed /\ WorkersServed /\ StreamOfPhase /\ hook \in [Runs -> HookState]
      /\ attached \in Runs \cup {None}
  BY DEF Inv, RunsServed, TypeOK, HookState
<1>0. /\ UNCHANGED <<patient, named, reader, submitted, ops, active, view, cancelPending>>
      /\ UNCHANGED <<attached, event, run, worker, mode, asked, pending, answered, woken>>
      /\ UNCHANGED <<abandoned, reported, sent, told>>
  BY DEF HookThread, HookLooks, HookLogs
<1>1. OneServed'
  BY <1>0, <1>t DEF OneServed, Served
<1>2. CASE HookLooks(r)
  <2>1. PICK new : /\ new = [pc |-> IF attached = None THEN "gone" ELSE "logging",
                             view |-> attached]
                   /\ hook' = [hook EXCEPT ![r] = new]
    BY <1>2 DEF HookLooks
  <2>2. new \in HookState /\ (new.pc = "logging" => new.view # None)
    BY <1>t, <2>1 DEF HookState
  <2>3. hook' \in [Runs -> HookState] /\ \A s \in Runs : hook'[s] = IF s = r THEN new ELSE hook[s]
    BY <1>t, <2>1, <2>2
  <2>4. UNCHANGED <<lines, buffered>>
    BY <1>2 DEF HookLooks
  <2>5. TypeOK'
    BY <1>0, <1>t, <2>3, <2>4 DEF TypeOK, HookState
  <2>6. WorkersServed'
    BY <1>0, <1>t, <2>2, <2>3 DEF WorkersServed
  <2>7. StreamOfPhase'
    BY <1>0, <1>t, <2>4 DEF StreamOfPhase
  <2> QED BY <1>0, <1>1, <2>4, <2>5, <2>6, <2>7 DEF RunsServed
<1>3. CASE HookLogs(r)
  <2>1. /\ hook[r].pc = "logging" /\ hook' = [hook EXCEPT ![r].pc = "gone"]
        /\ Emit(hook[r].view)
    BY <1>3 DEF HookLogs
  <2>2. PICK v \in Runs : v = hook[r].view
    BY <1>t, <2>1 DEF WorkersServed, HookState
  <2>3. /\ hook' \in [Runs -> HookState] /\ hook'[r].pc = "gone"
        /\ \A s \in Runs : s # r => hook'[s] = hook[s]
    BY <1>t, <2>1 DEF HookState
  <2>4. /\ buffered' \in [Runs -> BOOLEAN] /\ lines' \in [Runs -> Seq(LineKinds)]
        /\ \A s \in Runs : s # v => lines'[s] = lines[s]
        /\ \/ lines' = lines
           \/ /\ mode[v] = "live" /\ lines[v] = <<"start">> /\ lines'[v] = <<"start", "event">>
              /\ lines' = [lines EXCEPT ![v] = Append(@, "event")]
    BY <1>t, <2>1, <2>2, Emitted
  <2>5. TypeOK'
    BY <1>0, <1>t, <2>3, <2>4 DEF TypeOK, HookState, LineKinds
  <2>6. WorkersServed'
    BY <1>0, <1>t, <2>3 DEF WorkersServed
  <2>7. StreamOfPhase'
    BY <1>0, <1>t, <2>4 DEF StreamOfPhase
  <2> QED BY <1>0, <1>1, <2>4, <2>5, <2>6, <2>7 DEF RunsServed
<1> QED BY <1>2, <1>3 DEF HookThread

(* A submitted prompt and a run's thread leave the reader where it is.     *)
LEMMA ReaderLeftAlone ==
  ASSUME Inv
  PROVE  /\ Submit => UNCHANGED reader
         /\ \A r \in Runs : RunThread(r) => UNCHANGED reader
<1>1. Submit => UNCHANGED reader
  BY DEF Submit
<1>2. ASSUME NEW r \in Runs, RunThread(r) PROVE UNCHANGED reader
  <2>1. CASE RunAttaches(r) \/ RunSubmits(r) \/ RunReapplies(r) \/ RunStarts(r)
    BY <2>1 DEF RunAttaches, RunSubmits, RunReapplies, RunStarts
  <2>2. CASE RunJoins(r) \/ RunReports(r) \/ RunDetaches(r) \/ RunClears(r) \/ RunForgets(r)
    BY <2>2 DEF RunJoins, RunReports, RunDetaches, RunClears, RunForgets
  <2> QED BY <1>2, <2>1, <2>2 DEF RunThread
<1> QED BY <1>1, <1>2

LEMMA Stutters ==
  ASSUME UNCHANGED vars
  PROVE  /\ UNCHANGED <<patient, named, submitted, ops, reader, active, view, cancelPending>>
         /\ UNCHANGED <<attached, event, run, worker, hook, mode, buffered, lines, asked>>
         /\ UNCHANGED <<pending, answered, woken, abandoned, reported, sent, told>>
BY DEF vars, hostVars, serverVars, viewVars, askVars, historyVars

LEMMA NextCases ==
  ASSUME [Next]_vars
  PROVE  \/ Submit \/ ReaderActs \/ UNCHANGED vars
         \/ \E r \in Runs : RunThread(r) \/ Worker(r) \/ HookThread(r)
BY DEF Next, Host, ReaderActs, Done

LEMMA InvStep ==
  ASSUME Inv, [Next]_vars
  PROVE  Inv'
<1>1. CASE Submit
  BY <1>1, ServedBySubmit, ReaderLeftAlone DEF Inv, ReaderPlace
<1>2. CASE ReaderActs
  BY <1>2, TypeReader, ServedByReader, ReaderPlaceStep DEF Inv
<1>3. ASSUME NEW r \in Runs, RunThread(r) PROVE Inv'
  BY <1>3, TypeByRun, ServedByRun, WorkersByRun, StreamByRun, ReaderLeftAlone
     DEF Inv, RunsServed, ReaderPlace
<1>4. ASSUME NEW r \in Runs, Worker(r) PROVE Inv'
  BY <1>4, ServedByWorker DEF Inv, ReaderPlace
<1>5. ASSUME NEW r \in Runs, HookThread(r) PROVE Inv'
  BY <1>5, ServedByHook DEF Inv, ReaderPlace
<1>6. CASE UNCHANGED vars
  BY <1>6, Stutters
     DEF Inv, TypeOK, RunsServed, OneServed, WorkersServed, StreamOfPhase, ReaderPlace, Served
<1> QED BY <1>1, <1>2, <1>3, <1>4, <1>5, <1>6, NextCases

LEMMA InvAlways ==
  Spec => []Inv
BY InvInit, InvStep, PTL DEF Spec

(* Every variable of the server and of its views keeps its type, and a     *)
(* question is resolved only once it was taken (view.answer).              *)
THEOREM TypeCorrect == Spec => []TypeOK
<1>1. Inv => TypeOK
  BY DEF Inv
<1> QED BY <1>1, InvAlways, PTL

(* While a run's worker lives, the callbacks, the view and the run id of   *)
(* the server are its own: none is detached or cleared under it, and no    *)
(* other run is accepted (_run_thread).                                    *)
THEOREM ViewIsKept == Spec => []WorkerKeepsItsView
<1>1. Inv => WorkerKeepsItsView
  <2> SUFFICES ASSUME Inv, NEW r \in Runs, worker[r] \notin {"none", "gone"}
               PROVE  attached = r /\ view = r /\ active = r
    BY DEF WorkerKeepsItsView
  <2>1. worker[r] \in {"working", "calling", "asking"}
    BY DEF Inv, TypeOK, WorkerPcs
  <2> QED BY <2>1, OneWorker
<1> QED BY <1>1, InvAlways, PTL
-----------------------------------------------------------------------------
(* What the host reads.  A run has its turn from its acceptance to its     *)
(* result line: those before it are cleared, and their streams are over.   *)
LEMMA TurnOfServed ==
  ASSUME Inv, NEW r \in Runs, run[r] \in {"reapplied", "joining", "joined"}
  PROVE  Stream!Turn(r)
<1> USE BoundsAssumption
<1>1. Served(r) /\ active = r /\ r # None /\ r \in Nat
  BY DEF Inv, RunsServed, OneServed, Served, Runs, None
<1>2. submitted = r
  BY <1>1 DEF Inv, RunsServed, OneServed
<1>3. ~Stream!Over(r)
  <2>1. mode[r] \in {"buffer", "live"}
    BY DEF Inv, RunsServed, StreamOfPhase, Before
  <2>2. lines[r] = <<>> \/ lines[r] \in {<<"start">>, <<"start", "event">>}
    BY <2>1 DEF Inv, RunsServed, StreamOfPhase
  <2> QED BY <2>2, StartedStream DEF Stream!Over, Stream!Last, Last
<1>4. ASSUME NEW s \in Runs, s < r PROVE Stream!Over(s)
  <2>1. run[s] # "none" /\ ~Served(s)
    BY <1>1, <1>2, <1>4 DEF Inv, RunsServed, OneServed, Runs
  <2>2. run[s] \in {"cleared", "over"}
    BY <2>1 DEF Inv, TypeOK, RunPcs, Served
  <2>3. mode[s] = "sealed"
    BY <2>2 DEF Inv, TypeOK, RunsServed, StreamOfPhase, Before
  <2> QED BY <2>3 DEF Inv, RunsServed, StreamOfPhase, Stream!Over, Stream!Last, Last
<1> QED BY <1>3, <1>4 DEF Stream!Turn

LEMMA EventInTurn ==
  ASSUME Inv, NEW v \in Runs, mode[v] = "live", lines[v] = <<"start">>,
         lines' = [lines EXCEPT ![v] = Append(@, "event")]
  PROVE  Stream!Next
<1>1. run[v] \in {"joining", "joined"}
  BY DEF Inv, RunsServed, StreamOfPhase
<1>2. Stream!Turn(v)
  BY <1>1, TurnOfServed
<1>3. Stream!Event(v)
  BY <1>2 DEF Stream!Event
<1> QED BY <1>3 DEF Stream!Next

LEMMA StreamStep ==
  ASSUME Inv, [Next]_vars
  PROVE  [Stream!Next]_lines
<1>1. CASE Submit
  BY <1>1 DEF Submit, viewVars
<1>2. CASE ReaderActs
  BY <1>2, ReaderTouches
<1>3. ASSUME NEW r \in Runs, RunThread(r) PROVE [Stream!Next]_lines
  <2>1. CASE lines' = lines
    BY <2>1
  <2>2. CASE /\ run[r] = "reapplied" /\ lines[r] = <<>>
             /\ \E first \in {<<"start">>, <<"start", "event">>} :
                  lines' = [lines EXCEPT ![r] = first]
    <3>1. Stream!Start(r)
      BY <2>2, TurnOfServed DEF Stream!Start
    <3> QED BY <3>1 DEF Stream!Next
  <2>3. CASE /\ run[r] \in {"reapplied", "joined"}
             /\ lines' = [lines EXCEPT ![r] = Append(@, "result")]
    <3>1. Stream!Result(r)
      BY <2>3, TurnOfServed DEF Stream!Result
    <3> QED BY <3>1 DEF Stream!Next
  <2> QED BY <1>3, <2>1, <2>2, <2>3, StreamByRun
<1>4. ASSUME NEW r \in Runs, Worker(r) \/ HookThread(r) PROVE [Stream!Next]_lines
  <2>1. \/ lines' = lines
        \/ \E v \in Runs : /\ mode[v] = "live" /\ lines[v] = <<"start">>
                           /\ lines' = [lines EXCEPT ![v] = Append(@, "event")]
    BY <1>4, ServedByWorker, ServedByHook
  <2> QED BY <2>1, EventInTurn
<1>5. CASE UNCHANGED vars
  BY <1>5, Stutters
<1> QED BY <1>1, <1>2, <1>3, <1>4, <1>5, NextCases

(* The refinement: what the host reads is the streams of the runs, one     *)
(* after the other, each opened by its start line and closed by its        *)
(* result, whatever the threads, hooks and operations interleave           *)
(* (ServerView, docs/serve-protocol.md).                                   *)
THEOREM StreamsAreInOrder == Spec => StreamsInOrder
<1>1. Init => Stream!Init
  BY DEF Init, Stream!Init
<1>2. Inv /\ [Next]_vars => [Stream!Next]_lines
  BY StreamStep
<1> QED BY <1>1, <1>2, InvAlways, PTL DEF Spec, StreamsInOrder, Stream!Spec
-----------------------------------------------------------------------------
(* A cancel the server accepted stands until the outcome is read: first as *)
(* _cancel_pending, which no earlier run is left to forget, then as the    *)
(* session's cancel event, then as the outcome itself.                     *)
CancelStands(r) ==
  /\ run[r] # "none"
  /\ run[r] \in {"accepted", "attached", "submitted"} =>
       cancelPending /\ \A s \in Runs : run[s] # "cleared"
  /\ run[r] \in {"reapplied", "joining"} => event
  /\ run[r] \in {"joined", "reported", "detached", "cleared", "over"} =>
       reported[r] \/ lines[r] = <<"result">>
CancelKept == \A r \in told : CancelStands(r)
CancelInv == Inv /\ CancelKept

LEMMA OneAtATime ==
  ASSUME Inv, NEW r \in Runs, NEW s \in Runs, Served(r), Served(s)
  PROVE  r = s
BY DEF Inv, RunsServed, OneServed

(* What the reader does to a cancel: it only ever adds one.                *)
LEMMA ReaderTells ==
  ASSUME Inv, ReaderActs
  PROVE  /\ event' = event \/ event' = TRUE
         /\ cancelPending' = cancelPending \/ cancelPending' = TRUE
         /\ \/ told' = told
            \/ /\ told' = told \cup {reader.run} /\ event' = TRUE
               /\ cancelPending' = cancelPending
               /\ Open(reader.run) /\ IntentSafe(reader.run)
<1> USE DEF hostVars, serverVars, historyVars
<1>1. CASE Drain \/ ReaderExits \/ ReaderLooks \/ ReaderCrashes
  BY <1>1 DEF Drain, ReaderExits, ReaderLooks, ReaderCrashes
<1>2. CASE ReaderPends
  BY <1>2 DEF ReaderPends
<1>3. CASE ReaderCancels
  BY <1>3 DEF ReaderCancels
<1>4. CASE ReaderWakes \/ ReaderAnswers \/ ReaderResolves
  BY <1>4 DEF ReaderWakes, ReaderAnswers, ReaderResolves
<1>5. CASE (\E r \in Runs : OpCancel(r)) \/ (\E n \in Asks : OpAnswer(n))
  BY <1>5 DEF OpCancel, OpAnswer
<1> QED BY <1>1, <1>2, <1>3, <1>4, <1>5 DEF ReaderActs, InOp

LEMMA CancelKeptByReader ==
  ASSUME CancelInv, ReaderActs
  PROVE  CancelKept'
<1> SUFFICES ASSUME NEW r \in told' PROVE CancelStands(r)'
  BY DEF CancelKept
<1>1. UNCHANGED <<run, reported, lines>>
  BY ReaderTouches
<1>2. CASE r \in told
  <2>1. CancelStands(r)
    BY <1>2 DEF CancelInv, CancelKept
  <2> QED BY <1>1, <2>1, ReaderTells DEF CancelStands, CancelInv
<1>3. CASE r \notin told
  <2>1. /\ r = reader.run /\ event' = TRUE /\ cancelPending' = cancelPending
        /\ Open(r) /\ IntentSafe(r)
    BY <1>3, ReaderTells DEF CancelInv
  <2> QED BY <1>1, <2>1 DEF CancelStands, Open, IntentSafe
<1> QED BY <1>2, <1>3

(* The step of run q, for a run r that was told to stop.                   *)
LEMMA CancelKeptByRun ==
  ASSUME CancelInv, NEW q \in Runs, RunThread(q)
  PROVE  CancelKept'
<1> USE DEF hostVars, serverVars, viewVars, historyVars, RunPcs
<1>t. /\ Inv /\ TypeOK /\ told \subseteq Runs /\ reported \in [Runs -> BOOLEAN]
      /\ StreamOfPhase /\ lines \in [Runs -> Seq(LineKinds)]
  BY DEF CancelInv, Inv, TypeOK, RunsServed, LineKinds
<1>1. told' = told
  BY DEF RunThread, RunAttaches, RunSubmits, RunReapplies, RunStarts, RunJoins, RunReports,
         RunDetaches, RunClears, RunForgets
<1> SUFFICES ASSUME NEW r \in told PROVE CancelStands(r)'
  BY <1>1 DEF CancelKept
<1>2. r \in Runs /\ CancelStands(r)
  BY <1>t DEF CancelInv, CancelKept
<1>3. ASSUME NEW from \in RunPcs, NEW to \in RunPcs, Moves(q, from, to)
      PROVE  run[q] = from /\ \A s \in Runs : run'[s] = IF s = q THEN to ELSE run[s]
  BY <1>3, <1>t, RunMoves
<1>4. CASE RunAttaches(q)
  <2>1. Moves(q, "accepted", "attached") /\ UNCHANGED <<cancelPending, event, reported, lines>>
    BY <1>4 DEF RunAttaches
  <2> QED BY <1>2, <1>3, <2>1 DEF CancelStands
<1>5. CASE RunSubmits(q)
  <2>1. Moves(q, "attached", "submitted") /\ UNCHANGED <<cancelPending, reported, lines>>
    BY <1>5 DEF RunSubmits
  <2>2. run[q] = "attached" /\ \A s \in Runs : run'[s] = IF s = q THEN "submitted" ELSE run[s]
    BY <1>3, <2>1
  <2>3. run[r] \notin {"reapplied", "joining"}
    BY <1>2, <1>t, <2>2, OneAtATime DEF Served
  <2> QED BY <1>2, <2>1, <2>2, <2>3 DEF CancelStands
<1>6. CASE RunReapplies(q)
  <2>1. /\ Moves(q, "submitted", "reapplied") /\ UNCHANGED <<reported, lines>>
        /\ event' = (event \/ cancelPending)
    BY <1>6 DEF RunReapplies
  <2>2. run[q] = "submitted" /\ \A s \in Runs : run'[s] = IF s = q THEN "reapplied" ELSE run[s]
    BY <1>3, <2>1
  <2>3. r # q => run[r] \notin {"accepted", "attached", "submitted", "reapplied", "joining"}
    BY <1>2, <1>t, <2>2, OneAtATime DEF Served
  <2> QED BY <1>2, <2>1, <2>2, <2>3 DEF CancelStands
<1>7. CASE RunStarts(q)
  <2>1. Moves(q, "reapplied", "joining") /\ UNCHANGED <<cancelPending, event, reported>>
    BY <1>7 DEF RunStarts
  <2>2. run[q] = "reapplied" /\ \A s \in Runs : run'[s] = IF s = q THEN "joining" ELSE run[s]
    BY <1>3, <2>1
  <2>3. r # q => lines'[r] = lines[r]
    BY <1>2, <1>7, <1>t DEF RunStarts
  <2> QED BY <1>2, <2>1, <2>2, <2>3 DEF CancelStands
<1>8. CASE RunJoins(q)
  <2>1. /\ Moves(q, "joining", "joined") /\ UNCHANGED <<cancelPending, event, lines>>
        /\ reported' = [reported EXCEPT ![q] = event]
    BY <1>8 DEF RunJoins
  <2>2. run[q] = "joining" /\ \A s \in Runs : run'[s] = IF s = q THEN "joined" ELSE run[s]
    BY <1>3, <2>1
  <2>3. /\ r # q => reported'[r] = reported[r]
        /\ reported'[q] = event
    BY <1>2, <1>t, <2>1
  <2> QED BY <1>2, <2>1, <2>2, <2>3 DEF CancelStands
<1>9. CASE RunReports(q)
  <2>1. /\ run[q] \in {"joined", "reapplied"}
        /\ \A s \in Runs : run'[s] = IF s = q THEN "reported" ELSE run[s]
    <3>1. PICK from \in {"joined", "reapplied"} : Moves(q, from, "reported")
      BY <1>9 DEF RunReports
    <3> QED BY <1>3, <3>1
  <2>2. /\ lines' = [lines EXCEPT ![q] = Append(@, "result")]
        /\ UNCHANGED <<cancelPending, event, reported>>
    BY <1>9 DEF RunReports
  <2>3. /\ r # q => lines'[r] = lines[r]
        /\ lines'[q] = Append(lines[q], "result")
    BY <1>2, <1>t, <2>2
  <2>4. CASE r = q /\ run[q] = "joined"
    <3>1. lines[q] \in {<<"start">>, <<"start", "event">>}
      BY <1>t, <2>4 DEF StreamOfPhase
    <3>2. lines[q] # <<"result">>
      <4>1. lines[q][1] = "start"
        BY <3>1
      <4> QED BY <4>1
    <3> QED BY <1>2, <2>1, <2>2, <2>4, <3>2 DEF CancelStands
  <2>5. CASE r = q /\ run[q] = "reapplied"
    <3>1. lines[q] = <<>>
      BY <1>t, <2>5 DEF StreamOfPhase, Before
    <3>2. lines'[q] = <<"result">>
      BY <2>3, <3>1
    <3> QED BY <2>1, <2>5, <3>2 DEF CancelStands
  <2>6. CASE r # q
    BY <1>2, <2>1, <2>2, <2>3, <2>6 DEF CancelStands
  <2> QED BY <2>1, <2>4, <2>5, <2>6
<1>10. CASE RunDetaches(q)
  <2>1. Moves(q, "reported", "detached") /\ UNCHANGED <<cancelPending, event, reported, lines>>
    BY <1>10 DEF RunDetaches
  <2> QED BY <1>2, <1>3, <2>1 DEF CancelStands
<1>11. CASE RunClears(q)
  <2>1. Moves(q, "detached", "cleared") /\ UNCHANGED <<cancelPending, event, reported, lines>>
    BY <1>11 DEF RunClears
  <2>2. run[q] = "detached" /\ \A s \in Runs : run'[s] = IF s = q THEN "cleared" ELSE run[s]
    BY <1>3, <2>1
  <2>3. run[r] \notin {"accepted", "attached", "submitted"}
    BY <1>2, <1>t, <2>2, OneAtATime DEF Served
  <2> QED BY <1>2, <2>1, <2>2, <2>3 DEF CancelStands
<1>12. CASE RunForgets(q)
  <2>1. Moves(q, "cleared", "over") /\ UNCHANGED <<event, reported, lines>>
    BY <1>12 DEF RunForgets
  <2>2. run[q] = "cleared" /\ \A s \in Runs : run'[s] = IF s = q THEN "over" ELSE run[s]
    BY <1>3, <2>1
  <2>3. run[r] \notin {"accepted", "attached", "submitted"}
    BY <1>2, <2>2 DEF CancelStands
  <2> QED BY <1>2, <2>1, <2>2, <2>3 DEF CancelStands
<1> QED BY <1>4, <1>5, <1>6, <1>7, <1>8, <1>9, <1>10, <1>11, <1>12 DEF RunThread

LEMMA CancelKeptStep ==
  ASSUME CancelInv, [Next]_vars
  PROVE  CancelInv'
<1>0. Inv'
  BY InvStep DEF CancelInv
<1>1. CASE Submit
  <2>1. UNCHANGED <<told, cancelPending, event, reported, lines>>
    BY <1>1 DEF Submit, viewVars, historyVars
  <2>2. submitted \in Nat /\ told \subseteq Runs /\ run \in [Runs -> RunPcs] /\ OneServed
    BY DEF CancelInv, Inv, RunsServed, TypeOK
  <2>3. PICK new \in Runs : new = submitted + 1
    BY <1>1, <2>2, BoundsAssumption DEF Submit, Runs
  <2>4. \A s \in Runs : run'[s] = IF s = new THEN "accepted" ELSE run[s]
    BY <1>1, <2>2, <2>3 DEF Submit
  <2>5. run[new] = "none"
    BY <2>2, <2>3 DEF OneServed
  <2>6. \A r \in told : r # new
    BY <2>5 DEF CancelInv, CancelKept, CancelStands
  <2> QED BY <1>0, <2>1, <2>2, <2>4, <2>6 DEF CancelInv, CancelKept, CancelStands
<1>2. CASE ReaderActs
  BY <1>0, <1>2, CancelKeptByReader DEF CancelInv
<1>3. ASSUME NEW r \in Runs, RunThread(r) PROVE CancelInv'
  BY <1>0, <1>3, CancelKeptByRun DEF CancelInv
<1>4. ASSUME NEW q \in Runs, Worker(q) \/ HookThread(q) PROVE CancelInv'
  <2>1. /\ UNCHANGED <<told, run, cancelPending, event, reported>>
        /\ \/ lines' = lines
           \/ \E v \in Runs : /\ mode[v] = "live" /\ lines[v] = <<"start">>
                              /\ lines' = [lines EXCEPT ![v] = Append(@, "event")]
    BY <1>4, ServedByWorker, ServedByHook DEF CancelInv
  <2>2. told \subseteq Runs /\ lines \in [Runs -> Seq(LineKinds)]
    BY DEF CancelInv, Inv, TypeOK, LineKinds
  <2>3. \A r \in told : lines[r] = <<"result">> => lines'[r] = lines[r]
    <3>1. <<"start">> # <<"result">>
      OBVIOUS
    <3> QED BY <2>1, <2>2, <3>1
  <2> QED BY <1>0, <2>1, <2>3 DEF CancelInv, CancelKept, CancelStands
<1>5. CASE UNCHANGED vars
  BY <1>0, <1>5, Stutters DEF CancelInv, CancelKept, CancelStands
<1> QED BY <1>1, <1>2, <1>3, <1>4, <1>5, NextCases DEF CancelInv

(* A run that the server took a cancel for says on its result line that it *)
(* was cancelled, whichever of _cancel_pending, the cleared event and the  *)
(* end of an earlier run the cancel met (op_cancel, _execute_run).         *)
THEOREM CancelIsReported == Spec => []CancelReported
<1>1. Init => CancelInv
  <2>1. Init => told = {}
    BY DEF Init
  <2> QED BY <2>1, InvInit DEF CancelInv, CancelKept
<1>2. CancelInv /\ [Next]_vars => CancelInv'
  BY CancelKeptStep
<1>3. CancelInv => CancelReported
  <2> SUFFICES ASSUME CancelInv, NEW r \in told, Reported(r)
               PROVE  reported[r]
    BY DEF CancelReported
  <2>1. /\ r \in Runs /\ CancelStands(r) /\ StreamOfPhase /\ run[r] \in RunPcs
        /\ mode[r] \in {"buffer", "live", "sealed"}
    BY DEF CancelInv, CancelKept, Inv, TypeOK, RunsServed
  <2>2. lines[r] # <<>> /\ lines[r] # <<"result">> /\ Last(lines[r]) = "result"
    BY DEF Reported
  <2>3. mode[r] = "sealed"
    BY <2>1, <2>2, StartedStream DEF StreamOfPhase
  <2>4. run[r] \in {"joined", "reported", "detached", "cleared", "over"}
    BY <2>1, <2>3 DEF StreamOfPhase, RunPcs, Before
  <2> QED BY <2>1, <2>2, <2>4 DEF CancelStands
<1> QED BY <1>1, <1>2, <1>3, PTL DEF Spec
-----------------------------------------------------------------------------
(* Questions and their answers.  What the reader holds of a question it    *)
(* was given; whose question waits in a view; and, when the host names the *)
(* question, that an answer carries its name.                              *)
QuestionsKept ==
  /\ \A n \in Asks : n > Len(asked) => answered[n] = NoAnswer
  /\ \A r \in Runs : pending[r] # None => pending[r] \in DOMAIN asked /\ asked[pending[r]] = r
  /\ sent \subseteq DOMAIN asked
AnswerNamed ==
  /\ reader.pc = "answer" =>
       reader.ask \in DOMAIN asked /\ asked[reader.ask] = reader.run /\ reader.ask \in sent
  /\ reader.pc = "resolve" =>
       /\ reader.at \in DOMAIN asked /\ reader.ask \in sent
       /\ named => reader.at = reader.ask
  /\ named => \A n \in DOMAIN asked : answered[n] \in {n, NoAnswer}

(* A question that is neither answered nor cancelled, when none times out: *)
(* it is its run's last, its worker waits for it, and it waits in its view *)
(* unless the reader has just taken it or has gone to shut down.           *)
StillAsked(n) ==
  /\ worker[asked[n]] = "asking"
  /\ \A m \in DOMAIN asked : m > n => asked[m] # asked[n]
  /\ \/ pending[asked[n]] = n
     \/ reader.pc = "resolve" /\ reader.at = n
     \/ reader.drain
PatientQuestions ==
  patient =>
    /\ \A n \in DOMAIN asked : ~woken[asked[n]] =>
         /\ answered[n] \in {n, NoAnswer}
         /\ answered[n] # NoAnswer => n \in sent
         /\ answered[n] = NoAnswer => StillAsked(n)
    /\ reader.pc = "answer" /\ ~woken[reader.run] => answered[reader.ask] = NoAnswer
    /\ reader.pc = "resolve" /\ ~woken[asked[reader.at]] => reader.at = reader.ask
AskInv == Inv /\ QuestionsKept /\ AnswerNamed /\ PatientQuestions

LEMMA QuestionsNumbered ==
  ASSUME TypeOK
  PROVE  /\ DOMAIN asked = 1..Len(asked) /\ Len(asked) \in Nat
         /\ \A n \in DOMAIN asked : n \in Nat /\ n \in Asks /\ n # NoAnswer /\ asked[n] \in Runs
<1>1. asked \in Seq(Runs) /\ Len(asked) \in Nat /\ Len(asked) <= MaxAsks
  BY DEF TypeOK
<1>2. DOMAIN asked = 1..Len(asked) /\ \A n \in 1..Len(asked) : asked[n] \in Runs
  BY <1>1
<1> QED BY <1>1, <1>2, BoundsAssumption DEF Asks, NoAnswer

(* A step that asks nothing and answers nothing.  It may stop the worker   *)
(* of a run, and take its question from its view, only once the run is     *)
(* cancelled or none of its questions is unanswered.                       *)
LEMMA QuestionsStay ==
  ASSUME AskInv,
         UNCHANGED <<patient, named, reader, asked, answered, sent>>,
         \A r \in Runs : woken[r] => woken'[r],
         \A r \in Runs : pending'[r] \in {pending[r], None},
         patient => \A r \in Runs :
           \/ worker'[r] = worker[r] /\ pending'[r] = pending[r]
           \/ woken'[r]
           \/ \A n \in DOMAIN asked : asked[n] = r => woken[r] \/ answered[n] # NoAnswer
  PROVE  QuestionsKept' /\ AnswerNamed' /\ PatientQuestions'
<1>t. \A n \in DOMAIN asked : asked[n] \in Runs
  BY QuestionsNumbered DEF AskInv, Inv
<1>1. QuestionsKept'
  BY DEF AskInv, QuestionsKept
<1>2. AnswerNamed'
  BY DEF AskInv, AnswerNamed
<1>3. PatientQuestions'
  <2> SUFFICES ASSUME patient PROVE PatientQuestions'
    BY DEF PatientQuestions
  <2>1. ASSUME NEW n \in DOMAIN asked, ~woken'[asked[n]]
        PROVE  /\ answered[n] \in {n, NoAnswer} /\ (answered[n] # NoAnswer => n \in sent)
               /\ answered[n] = NoAnswer => StillAsked(n)'
    <3>1. ~woken[asked[n]]
      BY <1>t, <2>1
    <3>2. /\ answered[n] \in {n, NoAnswer} /\ (answered[n] # NoAnswer => n \in sent)
          /\ answered[n] = NoAnswer => StillAsked(n)
      BY <3>1 DEF AskInv, PatientQuestions
    <3>3. answered[n] = NoAnswer =>
            worker'[asked[n]] = worker[asked[n]] /\ pending'[asked[n]] = pending[asked[n]]
      BY <1>t, <2>1, <3>1
    <3> QED BY <3>2, <3>3 DEF StillAsked
  <2>2. reader.pc = "answer" /\ ~woken'[reader.run] => answered[reader.ask] = NoAnswer
    <3>1. reader.pc = "answer" => reader.run \in Runs
      BY <1>t DEF AskInv, AnswerNamed
    <3> QED BY <3>1 DEF AskInv, PatientQuestions
  <2>3. reader.pc = "resolve" /\ ~woken'[asked[reader.at]] => reader.at = reader.ask
    <3>1. reader.pc = "resolve" => asked[reader.at] \in Runs
      BY <1>t DEF AskInv, AnswerNamed
    <3> QED BY <3>1 DEF AskInv, PatientQuestions
  <2> QED BY <2>1, <2>2, <2>3 DEF PatientQuestions
<1> QED BY <1>1, <1>2, <1>3
(* A step of the reader that is not about an answer.  It may leave the     *)
(* question it took only to shut down.                                     *)
LEMMA ReaderAside ==
  ASSUME AskInv,
         UNCHANGED <<patient, named, asked, answered, sent, worker>>,
         reader'.pc \notin {"answer", "resolve"},
         reader.drain \/ reader.pc = "resolve" => reader'.drain,
         \A r \in Runs : \/ pending'[r] = pending[r] /\ woken'[r] = woken[r]
                         \/ pending'[r] = None /\ woken'[r]
  PROVE  QuestionsKept' /\ AnswerNamed' /\ PatientQuestions'
<1>t. \A n \in DOMAIN asked : asked[n] \in Runs
  BY QuestionsNumbered DEF AskInv, Inv
<1>1. QuestionsKept'
  BY DEF AskInv, QuestionsKept
<1>2. AnswerNamed'
  BY DEF AskInv, AnswerNamed
<1>3. PatientQuestions'
  <2> SUFFICES ASSUME patient, NEW n \in DOMAIN asked, ~woken'[asked[n]]
               PROVE  /\ answered[n] \in {n, NoAnswer} /\ (answered[n] # NoAnswer => n \in sent)
                      /\ answered[n] = NoAnswer => StillAsked(n)'
    BY DEF PatientQuestions
  <2>1. ~woken[asked[n]] /\ pending'[asked[n]] = pending[asked[n]]
    BY <1>t
  <2>2. /\ answered[n] \in {n, NoAnswer} /\ (answered[n] # NoAnswer => n \in sent)
        /\ answered[n] = NoAnswer => StillAsked(n)
    BY <2>1 DEF AskInv, PatientQuestions
  <2> QED BY <2>1, <2>2 DEF StillAsked
<1> QED BY <1>1, <1>2, <1>3

LEMMA AskedByReaderAside ==
  ASSUME AskInv, \/ Drain \/ ReaderExits \/ ReaderPends \/ ReaderCancels \/ ReaderLooks
                 \/ ReaderWakes \/ ReaderCrashes \/ (\E r \in Runs : OpCancel(r))
  PROVE  QuestionsKept' /\ AnswerNamed' /\ PatientQuestions'
<1> USE DEF hostVars, serverVars, askVars, historyVars
<1>t. /\ reader \in Reader /\ view \in Runs \cup {None} /\ woken \in [Runs -> BOOLEAN]
      /\ pending \in [Runs -> Asks \cup {None}] /\ active \in Runs \cup {None} /\ ReaderPlace
  BY DEF AskInv, Inv, TypeOK
<1>1. UNCHANGED <<patient, named, asked, answered, sent, worker>>
  BY DEF Drain, ReaderExits, ReaderPends, ReaderCancels, ReaderLooks, ReaderWakes,
         ReaderCrashes, OpCancel
<1>2. \A r \in Runs : \/ pending'[r] = pending[r] /\ woken'[r] = woken[r]
                      \/ pending'[r] = None /\ woken'[r]
  <2>1. CASE ReaderWakes
    <3>1. /\ view \in Runs /\ woken' = [woken EXCEPT ![view] = TRUE]
          /\ pending' = [pending EXCEPT ![view] = None]
      BY <1>t, <2>1 DEF ReaderWakes, Wake
    <3> QED BY <1>t, <3>1
  <2>2. CASE ~ReaderWakes
    BY <2>2 DEF Drain, ReaderExits, ReaderPends, ReaderCancels, ReaderLooks, ReaderCrashes,
                OpCancel
  <2> QED BY <2>1, <2>2
<1>3. /\ reader'.pc \notin {"answer", "resolve"}
      /\ reader.drain \/ reader.pc = "resolve" => reader'.drain
  <2>1. CASE Drain
    <3>1. reader' = [Idle EXCEPT !.pc = IF active = None THEN "exit" ELSE "cancel",
                                 !.run = active, !.drain = TRUE]
      BY <2>1 DEF Drain
    <3>2. reader'.pc \in {"exit", "cancel"} /\ reader'.drain = TRUE
      BY <3>1 DEF Idle
    <3> QED BY <3>2
  <2>2. CASE ReaderExits \/ ReaderPends \/ ReaderCancels \/ ReaderCrashes
    <3>1. /\ reader.pc \in {"wait", "pend", "cancel", "wake"}
          /\ \E pc \in {"exit", "cancel", "look", "crashed"} : Goes(pc)
      BY <2>2 DEF ReaderExits, ReaderPends, ReaderCancels, ReaderCrashes
    <3>2. reader'.pc \in {"exit", "cancel", "look", "crashed"} /\ reader'.drain = reader.drain
      BY <1>t, <3>1, ReaderGoes
    <3> QED BY <3>1, <3>2
  <2>3. CASE ReaderLooks \/ ReaderWakes
    <3>1. reader.pc \in {"look", "wake"} /\ (Returns \/ Goes("wake"))
      BY <2>3 DEF ReaderLooks, ReaderWakes
    <3>2. CASE Goes("wake")
      BY <1>t, <3>1, <3>2, ReaderGoes
    <3>3. CASE Returns /\ reader.drain
      <4>1. reader' = [reader EXCEPT !.pc = "wait"]
        BY <3>3 DEF Returns
      <4>2. reader'.pc = "wait" /\ reader'.drain = reader.drain
        BY <1>t, <4>1 DEF Reader
      <4> QED BY <3>3, <4>2
    <3>4. CASE Returns /\ ~reader.drain
      BY <3>1, <3>4, IdleReader DEF Returns
    <3> QED BY <3>1, <3>2, <3>3, <3>4
  <2>4. ASSUME NEW r \in Runs, OpCancel(r)
        PROVE  /\ reader'.pc \notin {"answer", "resolve"}
               /\ reader.drain \/ reader.pc = "resolve" => reader'.drain
    <3>1. /\ reader = Idle
          /\ reader' = [Idle EXCEPT !.pc = "pend", !.run = r] \/ reader' = Idle
      BY <2>4 DEF OpCancel
    <3>2. reader'.pc \in {"pend", "idle"}
      BY <3>1, IdleReader DEF Reader
    <3> QED BY <3>1, <3>2, IdleReader
  <2> QED BY <2>1, <2>2, <2>3, <2>4
<1> QED BY <1>1, <1>2, <1>3, ReaderAside
LEMMA AskedByOpAnswer ==
  ASSUME AskInv, NEW n \in Asks, OpAnswer(n)
  PROVE  QuestionsKept' /\ AnswerNamed' /\ PatientQuestions'
<1> USE DEF serverVars, askVars
<1> DEFINE r == asked[n]
<1>t. \A m \in DOMAIN asked : asked[m] \in Runs /\ m # NoAnswer
  BY QuestionsNumbered DEF AskInv, Inv
<1>1. /\ reader = Idle /\ n \in DOMAIN asked /\ n \notin sent /\ sent' = sent \cup {n}
      /\ UNCHANGED <<patient, named, asked, answered, woken, pending, worker>>
  BY DEF OpAnswer
<1>2. /\ r \in Runs
      /\ \/ reader' = [Idle EXCEPT !.pc = "answer", !.run = r, !.ask = n]
         \/ reader' = Idle
  BY <1>1, <1>t DEF OpAnswer
<1> HIDE DEF r
<1>3. /\ reader'.pc # "resolve"
      /\ reader'.pc = "answer" => reader'.run = r /\ reader'.ask = n
  <2>1. CASE reader' = [Idle EXCEPT !.pc = "answer", !.run = r, !.ask = n]
    BY <2>1, IdleReader DEF Reader
  <2>2. CASE reader' = Idle
    BY <2>2, IdleReader
  <2> QED BY <1>2, <2>1, <2>2
<1>4. QuestionsKept'
  BY <1>1 DEF AskInv, QuestionsKept
<1>5. AnswerNamed'
  BY <1>1, <1>3 DEF AskInv, AnswerNamed, r
<1>6. PatientQuestions'
  <2> SUFFICES ASSUME patient PROVE PatientQuestions'
    BY <1>1 DEF PatientQuestions
  <2>1. ASSUME NEW m \in DOMAIN asked, ~woken[asked[m]]
        PROVE  /\ answered[m] \in {m, NoAnswer} /\ (answered[m] # NoAnswer => m \in sent')
               /\ answered[m] = NoAnswer => StillAsked(m)'
    <3>1. /\ answered[m] \in {m, NoAnswer} /\ (answered[m] # NoAnswer => m \in sent)
          /\ answered[m] = NoAnswer => StillAsked(m)
      BY <2>1 DEF AskInv, PatientQuestions
    <3>2. reader.pc # "resolve" /\ ~reader.drain
      BY <1>1, IdleReader
    <3> QED BY <1>1, <3>1, <3>2 DEF StillAsked
  <2>2. reader'.pc = "answer" /\ ~woken[reader'.run] => answered[reader'.ask] = NoAnswer
    BY <1>1, <1>3 DEF AskInv, PatientQuestions, r
  <2> QED BY <1>1, <1>3, <2>1, <2>2 DEF PatientQuestions
<1> QED BY <1>4, <1>5, <1>6

(* The question the reader takes is the one it was given.                  *)
LEMMA AskedByReaderAnswers ==
  ASSUME AskInv, ReaderAnswers
  PROVE  QuestionsKept' /\ AnswerNamed' /\ PatientQuestions'
<1> USE DEF hostVars, serverVars, historyVars
<1> DEFINE q == reader.run
           a == reader.ask
<1>t. /\ \A m \in DOMAIN asked : asked[m] \in Runs /\ m # NoAnswer
      /\ reader \in Reader /\ pending \in [Runs -> Asks \cup {None}]
  BY QuestionsNumbered DEF AskInv, Inv, TypeOK
<1>1. /\ reader.pc = "answer" /\ q \in Runs /\ ~reader.drain
      /\ a \in DOMAIN asked /\ asked[a] = q /\ a \in sent
      /\ UNCHANGED <<patient, named, asked, answered, woken, worker, sent>>
  BY <1>t DEF ReaderAnswers, AskInv, Inv, ReaderPlace, AnswerNamed
<1>2. CASE MayAnswer(q)
  <2>1. /\ reader' = [reader EXCEPT !.pc = "resolve", !.at = pending[q]]
        /\ pending' = [pending EXCEPT ![q] = None]
    BY <1>2 DEF ReaderAnswers
  <2>2. pending[q] # None /\ (named => pending[q] = a)
    BY <1>2 DEF MayAnswer
  <2>3. pending[q] \in DOMAIN asked /\ asked[pending[q]] = q
    BY <1>1, <2>2 DEF AskInv, QuestionsKept
  <2>4. /\ reader'.pc = "resolve" /\ reader'.at = pending[q] /\ reader'.ask = a
        /\ \A s \in Runs : pending'[s] = IF s = q THEN None ELSE pending[s]
    BY <1>t, <1>1, <2>1 DEF Reader
  <2> HIDE DEF q, a
  <2>5. QuestionsKept'
    BY <1>1, <2>4 DEF AskInv, QuestionsKept
  <2>6. AnswerNamed'
    BY <1>1, <2>2, <2>3, <2>4 DEF AskInv, AnswerNamed
  <2>7. PatientQuestions'
    <3> SUFFICES ASSUME patient PROVE PatientQuestions'
      BY <1>1 DEF PatientQuestions
    <3>1. ASSUME NEW m \in DOMAIN asked, ~woken[asked[m]]
          PROVE  /\ answered[m] \in {m, NoAnswer} /\ (answered[m] # NoAnswer => m \in sent)
                 /\ answered[m] = NoAnswer => StillAsked(m)'
      <4>1. /\ answered[m] \in {m, NoAnswer} /\ (answered[m] # NoAnswer => m \in sent)
            /\ answered[m] = NoAnswer => StillAsked(m)
        BY <3>1 DEF AskInv, PatientQuestions
      <4>2. answered[m] = NoAnswer => pending[asked[m]] = m
        BY <1>1, <4>1 DEF StillAsked
      <4> QED BY <1>t, <1>1, <2>4, <4>1, <4>2 DEF StillAsked
    <3>2. ~woken[q] => pending[q] = a
      <4>1. ~woken[q] => answered[a] = NoAnswer
        BY <1>1 DEF AskInv, PatientQuestions, q, a
      <4>2. ~woken[q] => StillAsked(a)
        BY <1>1, <4>1 DEF AskInv, PatientQuestions
      <4> QED BY <1>1, <4>2 DEF StillAsked
    <3> QED BY <1>1, <2>3, <2>4, <3>1, <3>2 DEF PatientQuestions
  <2> QED BY <2>5, <2>6, <2>7
<1>3. CASE ~MayAnswer(q)
  <2>1. reader' = Idle /\ UNCHANGED pending
    BY <1>3 DEF ReaderAnswers
  <2> QED BY <1>1, <2>1, IdleReader, ReaderAside
<1> QED BY <1>2, <1>3

LEMMA AskedByReaderResolves ==
  ASSUME AskInv, ReaderResolves
  PROVE  QuestionsKept' /\ AnswerNamed' /\ PatientQuestions'
<1> USE DEF hostVars, serverVars, historyVars
<1>t. /\ DOMAIN asked = 1..Len(asked) /\ Len(asked) \in Nat
      /\ \A m \in DOMAIN asked : asked[m] \in Runs /\ m # NoAnswer /\ m \in Asks
      /\ answered \in [Asks -> Asks \cup {NoAnswer}]
  BY QuestionsNumbered DEF AskInv, Inv, TypeOK
<1>1. /\ reader.pc = "resolve" /\ ~reader.drain /\ reader.at \in DOMAIN asked /\ reader.ask \in sent
      /\ reader.ask \in DOMAIN asked /\ (named => reader.at = reader.ask)
      /\ UNCHANGED <<patient, named, asked, pending, woken, worker, sent>>
      /\ reader' = Idle /\ answered' = [answered EXCEPT ![reader.at] = reader.ask]
  BY DEF ReaderResolves, AskInv, Inv, ReaderPlace, AnswerNamed, QuestionsKept
<1>2. /\ reader'.pc = "idle" /\ ~reader'.drain
      /\ \A m \in Asks : answered'[m] = IF m = reader.at THEN reader.ask ELSE answered[m]
  BY <1>t, <1>1, IdleReader
<1>3. QuestionsKept'
  BY <1>t, <1>1, <1>2 DEF AskInv, QuestionsKept
<1>4. AnswerNamed'
  BY <1>t, <1>1, <1>2 DEF AskInv, AnswerNamed
<1>5. PatientQuestions'
  <2> SUFFICES ASSUME patient, NEW m \in DOMAIN asked, ~woken[asked[m]]
               PROVE  /\ answered'[m] \in {m, NoAnswer} /\ (answered'[m] # NoAnswer => m \in sent)
                      /\ answered'[m] = NoAnswer => StillAsked(m)'
    BY <1>1, <1>2 DEF PatientQuestions
  <2>1. CASE m = reader.at
    <3>1. reader.at = reader.ask
      BY <1>1, <2>1 DEF AskInv, PatientQuestions
    <3> QED BY <1>t, <1>1, <1>2, <2>1, <3>1
  <2>2. CASE m # reader.at
    <3>1. /\ answered[m] \in {m, NoAnswer} /\ (answered[m] # NoAnswer => m \in sent)
          /\ answered[m] = NoAnswer => StillAsked(m)
      BY DEF AskInv, PatientQuestions
    <3> QED BY <1>t, <1>1, <1>2, <2>2, <3>1 DEF StillAsked
  <2> QED BY <2>1, <2>2
<1> QED BY <1>3, <1>4, <1>5
(* A worker that is not at a question left none behind, and one that is    *)
(* reads the answer to that question.                                      *)
LEMMA NoneLeftBehind ==
  ASSUME AskInv, patient, NEW r \in Runs, worker[r] # "asking"
  PROVE  \A n \in DOMAIN asked : asked[n] = r => woken[r] \/ answered[n] # NoAnswer
BY DEF AskInv, PatientQuestions, StillAsked

LEMMA LastQuestion ==
  ASSUME AskInv, patient, NEW n \in DOMAIN asked, ~woken[asked[n]], answered[n] = NoAnswer
  PROVE  Question(asked[n]) = n
<1> DEFINE r == asked[n]
           P(m) == m \in DOMAIN asked /\ asked[m] = r /\ \A k \in m + 1..Len(asked) : asked[k] # r
<1>1. DOMAIN asked = 1..Len(asked) /\ Len(asked) \in Nat
  BY QuestionsNumbered DEF AskInv, Inv
<1>2. \A m \in DOMAIN asked : m > n => asked[m] # r
  BY DEF AskInv, PatientQuestions, StillAsked
<1>3. P(n)
  BY <1>1, <1>2
<1>4. ASSUME NEW m, P(m) PROVE m = n
  BY <1>1, <1>2, <1>4
<1>5. Question(r) = CHOOSE m \in DOMAIN asked : asked[m] = r
                                               /\ \A k \in m + 1..Len(asked) : asked[k] # r
  BY DEF Question
<1> QED BY <1>3, <1>4, <1>5

LEMMA AskedByRun ==
  ASSUME AskInv, NEW r \in Runs, RunThread(r)
  PROVE  QuestionsKept' /\ AnswerNamed' /\ PatientQuestions'
<1> USE DEF hostVars, serverVars, viewVars, askVars, historyVars
<1>t. /\ woken \in [Runs -> BOOLEAN] /\ pending \in [Runs -> Asks \cup {None}]
      /\ worker \in [Runs -> WorkerPcs] /\ WorkersServed
  BY DEF AskInv, Inv, TypeOK, RunsServed
<1>1. CASE RunSubmits(r)
  <2>1. /\ run[r] = "attached" /\ UNCHANGED <<patient, named, reader, asked, answered, sent>>
        /\ UNCHANGED <<woken, pending>>
        /\ worker' = [worker EXCEPT ![r] = "working"] \/ worker' = worker
    BY <1>1 DEF RunSubmits, Moves
  <2>2. worker[r] # "asking"
    BY <1>t, <2>1 DEF WorkersServed
  <2>3. \A s \in Runs : s # r => worker'[s] = worker[s]
    BY <1>t, <2>1
  <2> QED BY <2>1, <2>2, <2>3, NoneLeftBehind, QuestionsStay
<1>2. CASE RunReports(r)
  <2>1. /\ UNCHANGED <<patient, named, reader, asked, answered, sent, worker>>
        /\ \/ woken' = [woken EXCEPT ![r] = TRUE] /\ pending' = [pending EXCEPT ![r] = None]
           \/ UNCHANGED <<woken, pending>>
    BY <1>2 DEF RunReports, Wake
  <2>2. \A s \in Runs : \/ woken'[s] = woken[s] /\ pending'[s] = pending[s]
                        \/ woken'[s] /\ pending'[s] = None
    BY <1>t, <2>1
  <2> QED BY <2>1, <2>2, QuestionsStay
<1>3. CASE ~RunSubmits(r) /\ ~RunReports(r)
  <2>1. /\ UNCHANGED <<patient, named, reader, asked, answered, sent, worker>>
        /\ UNCHANGED <<woken, pending>>
    <3>1. CASE RunAttaches(r) \/ RunReapplies(r) \/ RunStarts(r) \/ RunJoins(r)
      BY <3>1 DEF RunAttaches, RunReapplies, RunStarts, RunJoins
    <3>2. CASE RunDetaches(r) \/ RunClears(r) \/ RunForgets(r)
      BY <3>2 DEF RunDetaches, RunClears, RunForgets
    <3> QED BY <1>3, <3>1, <3>2 DEF RunThread
  <2> QED BY <2>1, QuestionsStay
<1> QED BY <1>1, <1>2, <1>3

LEMMA AskedByWorkerAsks ==
  ASSUME AskInv, NEW r \in Runs, WorkerAsks(r)
  PROVE  QuestionsKept' /\ AnswerNamed' /\ PatientQuestions'
<1> USE DEF hostVars, serverVars, historyVars
<1>t. /\ DOMAIN asked = 1..Len(asked) /\ Len(asked) \in Nat /\ asked \in Seq(Runs)
      /\ \A n \in DOMAIN asked : n \in Nat /\ asked[n] \in Runs
      /\ pending \in [Runs -> Asks \cup {None}] /\ worker \in [Runs -> WorkerPcs]
      /\ WorkersServed
  BY QuestionsNumbered DEF AskInv, Inv, TypeOK, RunsServed
<1>1. /\ worker[r] = "calling" /\ asked' = Append(asked, r)
      /\ pending' = [pending EXCEPT ![r] = Len(asked')]
      /\ worker' = [worker EXCEPT ![r] = "asking"]
      /\ UNCHANGED <<patient, named, reader, answered, woken, sent>>
  BY DEF WorkerAsks, At, Works
<1>2. PICK new \in Asks : new = Len(asked) + 1
  <2>1. Len(asked) < MaxAsks
    BY <1>t, <1>1 DEF WorkersServed
  <2> QED BY <1>t, <2>1, BoundsAssumption DEF Asks
<1>3. /\ DOMAIN asked' = 1..new /\ Len(asked') = new /\ asked'[new] = r
      /\ \A n \in DOMAIN asked : n < new /\ asked'[n] = asked[n]
      /\ \A n \in DOMAIN asked' : n \in DOMAIN asked \/ n = new
      /\ DOMAIN asked \subseteq DOMAIN asked' /\ new \in DOMAIN asked' /\ new \in Nat
  <2>1. /\ asked' \in Seq(Runs) /\ Len(asked') = Len(asked) + 1
        /\ \A n \in 1..Len(asked) : asked'[n] = asked[n]
        /\ asked'[Len(asked) + 1] = r
    BY <1>t, <1>1, AppendedLine
  <2>2. DOMAIN asked' = 1..Len(asked')
    BY <2>1
  <2> QED BY <1>t, <1>2, <2>1, <2>2
<1>4. /\ \A s \in Runs : pending'[s] = IF s = r THEN new ELSE pending[s]
      /\ \A s \in Runs : worker'[s] = IF s = r THEN "asking" ELSE worker[s]
      /\ answered[new] = NoAnswer
  BY <1>t, <1>1, <1>2, <1>3 DEF AskInv, QuestionsKept
<1>5. QuestionsKept'
  <2>1. \A n \in Asks : n > Len(asked') => answered[n] = NoAnswer
    BY <1>t, <1>2, <1>3 DEF AskInv, QuestionsKept, Asks
  <2>2. \A s \in Runs : pending'[s] # None =>
                          pending'[s] \in DOMAIN asked' /\ asked'[pending'[s]] = s
    BY <1>3, <1>4 DEF AskInv, QuestionsKept
  <2>3. sent \subseteq DOMAIN asked'
    BY <1>3 DEF AskInv, QuestionsKept
  <2> QED BY <1>1, <2>1, <2>2, <2>3 DEF QuestionsKept
<1>6. AnswerNamed'
  BY <1>1, <1>3, <1>4 DEF AskInv, AnswerNamed
<1>7. PatientQuestions'
  <2> SUFFICES ASSUME patient PROVE PatientQuestions'
    BY <1>1 DEF PatientQuestions
  <2>1. ASSUME NEW n \in DOMAIN asked', ~woken[asked'[n]]
        PROVE  /\ answered[n] \in {n, NoAnswer} /\ (answered[n] # NoAnswer => n \in sent)
               /\ answered[n] = NoAnswer => StillAsked(n)'
    <3>1. CASE n = new
      BY <1>3, <1>4, <3>1 DEF StillAsked
    <3>2. CASE n \in DOMAIN asked
      <4>1. ~woken[asked[n]] /\ asked'[n] = asked[n]
        BY <1>3, <2>1, <3>2
      <4>2. /\ answered[n] \in {n, NoAnswer} /\ (answered[n] # NoAnswer => n \in sent)
            /\ answered[n] = NoAnswer => StillAsked(n)
        BY <3>2, <4>1 DEF AskInv, PatientQuestions
      <4>3. answered[n] = NoAnswer => asked[n] # r
        BY <1>1, <4>2 DEF StillAsked
      <4> QED BY <1>1, <1>3, <1>4, <1>t, <3>2, <4>1, <4>2, <4>3 DEF StillAsked
    <3> QED BY <1>3, <2>1, <3>1, <3>2
  <2>2. reader.pc = "resolve" => reader.at \in DOMAIN asked
    BY DEF AskInv, AnswerNamed
  <2> QED BY <1>1, <1>3, <2>1, <2>2 DEF AskInv, PatientQuestions
<1> QED BY <1>5, <1>6, <1>7

LEMMA AskedByWorker ==
  ASSUME AskInv, NEW r \in Runs, Worker(r)
  PROVE  QuestionsKept' /\ AnswerNamed' /\ PatientQuestions'
<1> USE DEF hostVars, serverVars, viewVars, askVars, historyVars
<1>t. /\ pending \in [Runs -> Asks \cup {None}] /\ worker \in [Runs -> WorkerPcs]
  BY DEF AskInv, Inv, TypeOK
<1>1. CASE WorkerEmits(r) \/ WorkerCalls(r) \/ WorkerEnds(r)
  <2>1. /\ UNCHANGED <<patient, named, reader, asked, answered, sent, woken, pending>>
        /\ worker[r] = "working"
        /\ worker' = worker \/ \E pc : worker' = [worker EXCEPT ![r] = pc]
    BY <1>1 DEF WorkerEmits, WorkerCalls, WorkerEnds, At, Works
  <2>2. \A s \in Runs : s # r => worker'[s] = worker[s]
    BY <1>t, <2>1
  <2> QED BY <2>1, <2>2, NoneLeftBehind, QuestionsStay
<1>2. CASE WorkerAsks(r)
  BY <1>2, AskedByWorkerAsks
<1>3. CASE WorkerHears(r) \/ WorkerIsWoken(r) \/ WorkerTimesOut(r)
  <2>1. /\ UNCHANGED <<patient, named, reader, asked, answered, sent, woken>>
        /\ worker' = [worker EXCEPT ![r] = "working"]
        /\ pending' = [pending EXCEPT ![r] = IF @ = Question(r) THEN None ELSE @]
        /\ Heard(r) \/ woken[r] \/ ~patient
    BY <1>3 DEF WorkerHears, WorkerIsWoken, WorkerTimesOut, Works, Retire
  <2>2. /\ \A s \in Runs : s # r => worker'[s] = worker[s] /\ pending'[s] = pending[s]
        /\ pending'[r] \in {pending[r], None}
    BY <1>t, <2>1
  <2>3. patient => \A n \in DOMAIN asked : asked[n] = r => woken[r] \/ answered[n] # NoAnswer
    BY <2>1, LastQuestion DEF Heard
  <2> QED BY <2>1, <2>2, <2>3, QuestionsStay
<1> QED BY <1>1, <1>2, <1>3 DEF Worker

LEMMA AskInvStep ==
  ASSUME AskInv, [Next]_vars
  PROVE  AskInv'
<1>0. Inv'
  BY InvStep DEF AskInv
<1>1. CASE Submit
  <2>1. UNCHANGED <<patient, named, reader, asked, answered, sent, woken, pending, worker>>
    BY <1>1 DEF Submit, askVars, historyVars
  <2> QED BY <1>0, <2>1, QuestionsStay DEF AskInv
<1>2. CASE ReaderActs
  BY <1>0, <1>2, AskedByReaderAside, AskedByOpAnswer, AskedByReaderAnswers,
     AskedByReaderResolves DEF ReaderActs, InOp, AskInv
<1>3. ASSUME NEW r \in Runs, RunThread(r) PROVE AskInv'
  BY <1>0, <1>3, AskedByRun DEF AskInv
<1>4. ASSUME NEW r \in Runs, Worker(r) PROVE AskInv'
  BY <1>0, <1>4, AskedByWorker DEF AskInv
<1>5. ASSUME NEW r \in Runs, HookThread(r) PROVE AskInv'
  <2>1. UNCHANGED <<patient, named, reader, asked, answered, sent, woken, pending, worker>>
    BY <1>5, ServedByHook DEF AskInv
  <2> QED BY <1>0, <2>1, QuestionsStay DEF AskInv
<1>6. CASE UNCHANGED vars
  <2>1. UNCHANGED <<patient, named, reader, asked, answered, sent, woken, pending, worker>>
    BY <1>6, Stutters
  <2> QED BY <1>0, <2>1, QuestionsStay DEF AskInv
<1> QED BY <1>1, <1>2, <1>3, <1>4, <1>5, <1>6, NextCases

(* Whatever is asked, answered, cancelled and given up in the meantime, a  *)
(* worker that was not cancelled hears the answer to its own question or   *)
(* none: when the host names the question, or when none is ever abandoned  *)
(* (_AskState, view.answer, _wait_answer).                                 *)
THEOREM AnswersFindTheirQuestion == Spec => []AnswersReachTheirQuestion
<1>1. Init => AskInv
  <2> SUFFICES ASSUME Init PROVE AskInv
    OBVIOUS
  <2>1. /\ asked = <<>> /\ answered = [n \in Asks |-> NoAnswer] /\ sent = {}
        /\ pending = [r \in Runs |-> None] /\ reader = Idle
    BY DEF Init
  <2>2. reader.pc = "idle" /\ DOMAIN asked = {}
    BY <2>1, IdleReader
  <2> QED BY <2>1, <2>2, InvInit DEF AskInv, QuestionsKept, AnswerNamed, PatientQuestions
<1>2. AskInv /\ [Next]_vars => AskInv'
  BY AskInvStep
<1>3. AskInv => AnswersReachTheirQuestion
  BY DEF AskInv, AnswerNamed, PatientQuestions, AnswersReachTheirQuestion
<1> QED BY <1>1, <1>2, <1>3, PTL DEF Spec
=============================================================================
