------------------------------ MODULE ToolProofs ------------------------------
(* What stands between a tool call and its effect, and how a command ends. *)
EXTENDS ToolGate, ShellTool, TLAPS

-----------------------------------------------------------------------------
(* The gate before a tool, for any hooks and any moment of a cancel, of an *)
(* internal failure and of a change of mode.                               *)

(* A call under way is one of the calls there are.                          *)
CallKnown == gatePc # "idle" => gateCall \in GateCalls

(* The fail_closed hooks that were passed by let the call through; behind   *)
(* the hooks none is left.                                                  *)
ClosedHooksPassed ==
  \A i \in Covering(gateCall.tool) :
    gateHooks[i].closed /\ (i < nextHook \/ gatePc \in {"guard", "run", "ran"}) => i \in passed

(* What the guard let through in plan mode is what it allows; only a tool   *)
(* that ran has an effect.                                                  *)
GuardHolds ==
  /\ plannedAt => gatePc \in {"run", "ran"} /\ PlanAllows(gateCall)
  /\ effect.ran => gatePc = "ran" /\ effect.wrote \subseteq MayWrite(gateCall)

(* The hooks of a call are looked for from the first one on.                *)
HooksInOrder ==
  /\ nextHook \in Nat \ {0} /\ gateHooks \in Seq(Hooks)
  /\ gatePc = "idle" => nextHook = 1

GateInv == CallKnown /\ ClosedHooksPassed /\ GuardHolds /\ HooksInOrder

(* The call at a fresh gate has no hooks that were passed.                  *)
LEMMA InitGateInv == GateInit => GateInv
<1> SUFFICES ASSUME GateInit PROVE GateInv
  OBVIOUS
<1>1. CallKnown /\ GuardHolds
  BY DEF GateInit, CallKnown, GuardHolds, Quiet
<1>2. HooksInOrder
  <2>1. PICK n \in 0..MaxHooks : gateHooks \in [1..n -> Hooks]
    BY DEF GateInit
  <2> QED BY <2>1, MaxHooksAssumption DEF GateInit, HooksInOrder
<1>3. ClosedHooksPassed
  BY <1>2 DEF GateInit, ClosedHooksPassed, Covering, HooksInOrder
<1> QED BY <1>1, <1>2, <1>3 DEF GateInv

(* A refused call leaves the gate as it was before it came.                 *)
LEMMA RefusePreserves == GateInv /\ Refuse => GateInv'
<1> SUFFICES ASSUME GateInv, Refuse PROVE GateInv'
  OBVIOUS
<1>1. CallKnown' /\ GuardHolds' /\ HooksInOrder'
  BY DEF GateInv, Refuse, CallKnown, GuardHolds, HooksInOrder, Quiet
<1>2. ClosedHooksPassed'
  BY DEF GateInv, Refuse, ClosedHooksPassed, Covering, HooksInOrder
<1> QED BY <1>1, <1>2 DEF GateInv

-----------------------------------------------------------------------------
(* A hook that is passed by either let the call through or is not           *)
(* fail_closed; the hooks before it were passed by already.                 *)
LEMMA RunHookPreserves ==
  ASSUME GateInv, NEW i \in 1..Len(gateHooks), RunHook(i)
  PROVE  GateInv'
<1>1. CASE HookBlocks(i) \/ HookFailsClosed(i)
  BY <1>1, RefusePreserves DEF HookBlocks, HookFailsClosed
<1>2. CASE HookAllows(i) \/ HookFails(i)
  <2>1. /\ AtHook(i) /\ Passes(i) /\ passed \subseteq passed'
        /\ gateHooks[i].closed => i \in passed'
    BY <1>2 DEF HookAllows, HookFails
  <2>2. CallKnown' /\ GuardHolds' /\ HooksInOrder'
    BY <2>1 DEF GateInv, CallKnown, GuardHolds, HooksInOrder, AtHook, Passes
  <2>3. ClosedHooksPassed'
    <3> SUFFICES ASSUME NEW j \in Covering(gateCall.tool), gateHooks[j].closed, j < i + 1
                 PROVE  j \in passed'
      BY <2>1 DEF ClosedHooksPassed, Covering, Passes, AtHook
    <3>1. CASE j < nextHook
      BY <2>1, <3>1 DEF GateInv, ClosedHooksPassed
    <3>2. CASE ~(j < nextHook)
      <4>1. j \in Remaining
        BY <3>2 DEF Remaining, Covering, GateInv, HooksInOrder
      <4>2. i <= j
        BY <2>1, <4>1 DEF AtHook
      <4>3. i = j
        BY <4>2 DEF Covering
      <4> QED BY <2>1, <4>3
    <3> QED BY <3>1, <3>2
  <2> QED BY <2>2, <2>3 DEF GateInv
<1> QED BY <1>1, <1>2 DEF RunHook

(* Behind the hooks every fail_closed one let the call through.             *)
LEMMA ToGuardPreserves ==
  ASSUME GateInv, gatePc = "hooks", ToGuard,
         \A i \in Covering(gateCall.tool) : gateHooks[i].closed => i < nextHook
  PROVE  GateInv'
<1>1. CallKnown' /\ GuardHolds' /\ HooksInOrder'
  BY DEF GateInv, CallKnown, GuardHolds, HooksInOrder, ToGuard
<1>2. ClosedHooksPassed'
  BY DEF GateInv, ClosedHooksPassed, Covering, ToGuard
<1> QED BY <1>1, <1>2 DEF GateInv

(* A call that the plan guard lets through can only write the plan file,    *)
(* in either mode of Edit, if patch takes its names as the guard did.       *)
LEMMA AllowedIsPlanFile ==
  ASSUME NEW c \in GateCalls, PlanAllows(c), ReadAlike(c)
  PROVE  MayWrite(c) \subseteq {"plan"}
<1>1. CASE c.tool = "Write"
  BY <1>1 DEF PlanAllows, MayWrite
<1>2. CASE c.tool = "Edit"
  <2>1. c \in Edits(TRUE, {Garbled}) \/ c \in Edits(FALSE, Diffs \cup {Garbled})
    BY <1>2 DEF GateCalls
  <2>2. CASE EditIsDiff(c) /\ ~c.blank
    <3>1. OnlyThePlan(c)
      BY <1>2, <2>2 DEF PlanAllows, EditIsDiff
    <3>2. \A n \in Named(c) : Target(c, n) = "plan"
      BY <3>1 DEF OnlyThePlan
    <3>3. ASSUME engine = "patch" PROVE DiffMayWrite(c) \subseteq {"plan"}
      <4>1. \A n \in Named(c) : n.base = "plan"
        BY <1>2, <3>2, <3>3 DEF ReadAlike
      <4> QED BY <3>3, <4>1 DEF DiffMayWrite
    <3>4. ASSUME engine # "patch" PROVE DiffMayWrite(c) \subseteq {"plan"}
      <4>1. \A s \in c.sections : s[2] \in Named(c)
        BY DEF Named
      <4>2. \A s \in c.sections : Target(c, s[2]) = "plan"
        BY <3>2, <4>1
      <4> QED BY <3>4, <4>2 DEF DiffMayWrite
    <3>5. MayWrite(c) = DiffMayWrite(c)
      BY <1>2, <2>2 DEF MayWrite, EditIsDiff
    <3> QED BY <3>3, <3>4, <3>5
  <2>3. CASE EditIsDiff(c) /\ c.blank
    <3>1. c.sections = {}
      BY <2>1, <2>3 DEF Edits, Garbled
    <3>2. DiffMayWrite(c) = {}
      BY <3>1 DEF DiffMayWrite, Named
    <3>3. MayWrite(c) = DiffMayWrite(c)
      BY <1>2, <2>3 DEF MayWrite, EditIsDiff
    <3> QED BY <3>2, <3>3
  <2>4. CASE ~EditIsDiff(c)
    <3>1. c.path = "plan"
      BY <1>2, <2>4 DEF PlanAllows
    <3> QED BY <1>2, <2>4, <3>1 DEF MayWrite
  <2> QED BY <2>1, <2>2, <2>3, <2>4 DEF Edits
<1>3. CASE c.tool \notin {"Write", "Edit"}
  BY <1>3 DEF PlanAllows, MayWrite
<1> QED BY <1>1, <1>2, <1>3

-----------------------------------------------------------------------------
LEMMA NextGateInv == GateInv /\ [GateNext]_gateVars => GateInv'
<1> SUFFICES ASSUME GateInv, [GateNext]_gateVars PROVE GateInv'
  OBVIOUS
<1> USE DEF GateInv, CallKnown, ClosedHooksPassed, GuardHolds, HooksInOrder
<1>1. CASE Arrive
  <2>1. CallKnown' /\ GuardHolds' /\ HooksInOrder'
    BY <1>1 DEF Arrive
  <2>2. ClosedHooksPassed'
    BY <1>1 DEF Arrive, Covering
  <2> QED BY <2>1, <2>2
<1>2. CASE RefuseMalformed \/ GuardBlocks \/ Return
  BY <1>2, RefusePreserves DEF RefuseMalformed, GuardBlocks, Return
<1>3. ASSUME NEW i \in 1..Len(gateHooks), RunHook(i) PROVE GateInv'
  BY <1>3, RunHookPreserves
<1>4. CASE HooksCrash
  BY <1>4, RefusePreserves, ToGuardPreserves DEF HooksCrash
<1>5. CASE HooksDone
  <2>1. \A i \in Covering(gateCall.tool) : i < nextHook
    BY <1>5 DEF HooksDone, Remaining, Covering
  <2> QED BY <1>5, <2>1, ToGuardPreserves DEF HooksDone
<1>6. CASE GuardPasses
  BY <1>6 DEF GuardPasses, Covering
<1>7. CASE RunTool
  <2>1. MayWrite(gateCall)' = MayWrite(gateCall)
    BY <1>7 DEF RunTool, MayWrite, DiffMayWrite
  <2> QED BY <1>7, <2>1 DEF RunTool, Covering
<1>8. CASE RunPlanExit
  BY <1>8 DEF RunPlanExit, Covering
<1>9. CASE GateCancel \/ EnterPlan
  <2>1. MayWrite(gateCall)' = MayWrite(gateCall)
    BY <1>9 DEF GateCancel, EnterPlan, MayWrite, DiffMayWrite
  <2> QED BY <1>9, <2>1 DEF GateCancel, EnterPlan, Covering
<1>10. CASE UNCHANGED gateVars
  <2>1. MayWrite(gateCall)' = MayWrite(gateCall)
    BY <1>10 DEF gateVars, MayWrite, DiffMayWrite
  <2> QED BY <1>10, <2>1 DEF gateVars, Covering
<1> QED BY <1>1, <1>2, <1>3, <1>4, <1>5, <1>6, <1>7, <1>8, <1>9, <1>10 DEF GateNext

(* The inductive invariant holds in every reachable state.                  *)
THEOREM GateInductive == GateSpec => []GateInv
BY InitGateInv, NextGateInv, PTL DEF GateSpec

(* A tool runs only when every fail_closed hook that covers it let the call *)
(* through.                                                                 *)
THEOREM FailClosedHooksHold == GateSpec => []FailClosedHolds
<1>1. GateInv => FailClosedHolds
  BY DEF GateInv, GuardHolds, ClosedHooksPassed, FailClosedHolds
<1> QED BY <1>1, GateInductive, PTL

(* A call let through in plan mode writes the plan file or nothing, if      *)
(* patch takes the names in its diff for the files the guard took them for. *)
THEOREM PlanModeWritesPlanFile == GateSpec => []PlanWritesPlanFile
<1>1. GateInv => PlanWritesPlanFile
  <2> SUFFICES ASSUME GateInv, effect.ran, plannedAt, ReadAlike(gateCall)
               PROVE  effect.wrote \subseteq {"plan"}
    BY DEF PlanWritesPlanFile
  <2>1. gateCall \in GateCalls /\ PlanAllows(gateCall) /\ effect.wrote \subseteq MayWrite(gateCall)
    BY DEF GateInv, GuardHolds, CallKnown
  <2> QED BY <2>1, AllowedIsPlanFile
<1> QED BY <1>1, GateInductive, PTL

-----------------------------------------------------------------------------
(* The end of a command in its process group, whatever its processes do.   *)

(* Which end the collector is at, by the reason it stopped for: only a      *)
(* Bash command is killed at once, and only a hook is killed for certain    *)
(* after it was asked to end.                                               *)
EndsMatch ==
  /\ runner \in {"bash", "hook"}
  /\ shellPc = "poll" => status = "none"
  /\ shellPc = "kill" => runner = "bash" /\ status \in {"cancelled", "fault"}
  /\ shellPc \in {"term", "grace"} =>
       status \in (IF runner = "bash" THEN {"silent", "late"} ELSE {"cancelled", "late"})
  /\ shellPc = "exit" => status = "ok"

MustBeGone ==
  \/ status \in {"cancelled", "fault"}
  \/ runner = "hook" /\ status = "late"

(* A group that is gone stays gone: only a live shell forks.                *)
GoneAfterKill == shellPc \in {"deliver", "done"} /\ MustBeGone => ~Lives /\ Group = {}

DeliversStatus ==
  delivered # "none" => shellPc = "done" /\ delivered = status

ShellInv == EndsMatch /\ GoneAfterKill /\ DeliversStatus

LEMMA InitShellInv == ShellInit => ShellInv
BY DEF ShellInit, ShellInv, EndsMatch, GoneAfterKill, DeliversStatus

LEMMA NextShellInv == ShellInv /\ [ShellNext]_shellVars => ShellInv'
<1> SUFFICES ASSUME ShellInv, [ShellNext]_shellVars PROVE ShellInv'
  OBVIOUS
<1> USE DEF ShellInv, EndsMatch, GoneAfterKill, DeliversStatus, MustBeGone, Lives, Group
<1>1. CASE Processes
  BY <1>1 DEF Processes, Fork, Trap, Output, ShellExits, ChildExits, PressCtrlC
<1>2. CASE BashPoll
  BY <1>2 DEF BashPoll, BashCancelled, BashSilent, BashLate, BashDrained, BashEof, BashFault,
              BashRead, BashSeesExit, StopFor
<1>3. CASE HookPoll
  BY <1>3 DEF HookPoll, StopFor
<1>4. CASE Kill
  BY <1>4 DEF Kill, KillGroup
<1>5. CASE Terminate
  BY <1>5 DEF Terminate
<1>6. CASE GraceEnds
  BY <1>6 DEF GraceEnds, KillGroup
<1>7. CASE ReportExit \/ DeliverResult
  BY <1>7 DEF ReportExit, DeliverResult
<1>8. CASE UNCHANGED shellVars
  BY <1>8 DEF shellVars
<1> QED BY <1>1, <1>2, <1>3, <1>4, <1>5, <1>6, <1>7, <1>8 DEF ShellNext, Collector

(* The inductive invariant holds in every reachable state.                  *)
THEOREM ShellInductive == ShellSpec => []ShellInv
BY InitShellInv, NextShellInv, PTL DEF ShellSpec

(* No process of a stopped command's group is left.                         *)
THEOREM StoppedGroupsAreGone == ShellSpec => []StoppedGroupIsGone
<1>1. ShellInv => StoppedGroupIsGone
  BY DEF ShellInv, GoneAfterKill, DeliversStatus, MustBeGone, StoppedGroupIsGone
<1> QED BY <1>1, ShellInductive, PTL
=============================================================================
