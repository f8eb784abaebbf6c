------------------------------ MODULE ToolGate ------------------------------
(***************************************************************************)
(* What stands between a tool call and its effect: the checks of           *)
(* ToolRunner.execute_tool_call, the tool.before hooks (session/hooks.py), *)
(* the plan-mode guard of Session.execute_tool, and the file the tool then *)
(* writes (tools/write.py, tools/edit.py, tools/edit_mac.py).              *)
(*                                                                         *)
(* A file is the plan file, another one, or one that is not there yet.  An *)
(* Edit call is told apart by what decides its mode and its targets:       *)
(* whether old_str is there, the diff flag, and whether new_str is blank,  *)
(* no diff, or one of sections, each with the names of its `---' and its   *)
(* `+++' line.  A name is told by what two readers make of it in the       *)
(* directory where the diff is applied: the file it is the path of, and    *)
(* the file its last component alone is the name of.                       *)
(***************************************************************************)
EXTENDS Integers, Sequences

CONSTANTS
  MaxHooks,              \* bound: configured tool.before hooks
  Diffs                  \* bound: the diffs, each a set of sections

Files == {"plan", "other", "new"}
Names == [at : {"plan", "other", "missing"}, base : Files]

ASSUME MaxHooksAssumption == MaxHooks \in Nat
ASSUME DiffsAssumption == Diffs \subseteq SUBSET (Names \X Names)

Tools == {"Read", "Write", "Edit", "Bash", "mcp", "PlanExit"}
Garbled == {}
Named(c) == UNION {{s[1], s[2]} : s \in c.sections}

(* Edit's path is a file or a directory.  Beside the plan file, the plan   *)
(* file's own path ends in its name.                                       *)
Edits(blank, texts) ==
  [tool : {"Edit"}, path : {"plan", "other", "dir"}, old : BOOLEAN,
   diff : {"unset", "true", "false"}, blank : {blank}, sections : texts]
GateCalls ==
  [tool : Tools \ {"Write", "Edit"}] \cup [tool : {"Write"}, path : Files]
    \cup Edits(TRUE, {Garbled})
    \cup {c \in Edits(FALSE, Diffs \cup {Garbled}) :
            \A n \in Named(c) : c.path = "plan" /\ n.at = "plan" => n.base = "plan"}

Hooks == [covers : {{"Write", "Edit"}, Tools}, closed : BOOLEAN]

VARIABLES
  engine,                \* what applies a diff: "patch", or on macOS "applier"
  gateHooks,             \* the tool.before hooks, in config order
  isPlan,                \* plan_mode.is_plan
  gateStop,              \* the session's cancel flag
  gatePc,                \* "idle", "hooks", "guard", "run", "ran"
  gateCall,              \* the call, once there is one
  nextHook,              \* where the next hook is looked for
  passed,                \* the hooks that let it through with exit code 0
  plannedAt,             \* history: the guard saw plan mode
  effect                 \* history: "none", or that the tool ran, and what it wrote

gateVars == <<engine, gateHooks, isPlan, gateStop, gatePc, gateCall, nextHook, passed, plannedAt, effect>>

Quiet == [ran |-> FALSE, wrote |-> {}]
NoCall == [tool |-> "none"]

GateInit ==
  /\ engine \in {"patch", "applier"}
  /\ gateHooks \in UNION {[1..n -> Hooks] : n \in 0..MaxHooks}
  /\ isPlan \in BOOLEAN /\ gateStop = FALSE
  /\ gatePc = "idle" /\ gateCall = NoCall /\ nextHook = 1 /\ passed = {}
  /\ plannedAt = FALSE /\ effect = Quiet

-----------------------------------------------------------------------------
(* The tool.before hooks of a tool, in config order, from nextHook on.     *)
Covering(tool) == {i \in 1..Len(gateHooks) : tool \in gateHooks[i].covers}
Remaining == {i \in Covering(gateCall.tool) : i >= nextHook}

Refuse ==
  /\ gatePc' = "idle" /\ gateCall' = NoCall /\ effect' = Quiet
  /\ nextHook' = 1 /\ passed' = {} /\ plannedAt' = FALSE
  /\ UNCHANGED <<engine, gateHooks, isPlan, gateStop>>

(* A call whose arguments are no JSON, that lacks a required one, or that  *)
(* a sub-agent may not make, is refused before any hook.                   *)
Arrive ==
  /\ gatePc = "idle"
  /\ \E c \in GateCalls : gateCall' = c
  /\ gatePc' = "hooks"
  /\ UNCHANGED <<engine, gateHooks, isPlan, gateStop, nextHook, passed, plannedAt, effect>>
RefuseMalformed == gatePc = "hooks" /\ nextHook = 1 /\ Refuse

AtHook(i) == gatePc = "hooks" /\ i \in Remaining /\ \A j \in Remaining : i <= j
Passes(i) ==
  /\ nextHook' = i + 1
  /\ UNCHANGED <<engine, gateHooks, isPlan, gateStop, gatePc, gateCall, plannedAt, effect>>

(* Exit code 0; exit code 2, or a cancel before or while it runs; any      *)
(* other failure, which only a fail_closed hook turns into a block.        *)
HookAllows(i) == AtHook(i) /\ ~gateStop /\ Passes(i) /\ passed' = passed \cup {i}
HookBlocks(i) == AtHook(i) /\ Refuse
HookFails(i) ==
  AtHook(i) /\ ~gateStop /\ ~gateHooks[i].closed /\ Passes(i) /\ UNCHANGED passed
HookFailsClosed(i) == AtHook(i) /\ ~gateStop /\ gateHooks[i].closed /\ Refuse
RunHook(i) == HookAllows(i) \/ HookBlocks(i) \/ HookFails(i) \/ HookFailsClosed(i)

(* An exception of the harness itself: the fallback of before_tool.        *)
ToGuard ==
  /\ gatePc' = "guard"
  /\ UNCHANGED <<engine, gateHooks, isPlan, gateStop, gateCall, nextHook, passed, plannedAt, effect>>
HooksCrash_Allows == gatePc = "hooks" /\ Remaining # {} /\ ToGuard
HooksCrash ==
  /\ gatePc = "hooks" /\ Remaining # {}
  /\ IF \E i \in Covering(gateCall.tool) : gateHooks[i].closed THEN Refuse ELSE ToGuard
HooksDone == gatePc = "hooks" /\ Remaining = {} /\ ToGuard

-----------------------------------------------------------------------------
(* Session.execute_tool: the plan-mode guard (_plan_blocked).              *)
EditIsDiff(c) == ~c.old /\ c.diff # "false"

(* _resolve_target, for the guard and for the applier: a name that is not  *)
(* the path of a file stands for the call's own file, when that is one.    *)
Target(c, n) ==
  IF n.at = "missing" /\ c.path # "dir" THEN c.path ELSE n.at
OnlyThePlan(c) == c.sections # Garbled /\ \A n \in Named(c) : Target(c, n) = "plan"

PlanAllows_OldStrOnly(c) ==
  /\ c.tool \notin {"mcp", "Bash"}
  /\ IF c.tool = "Edit" /\ ~c.old /\ c.diff = "true" /\ ~c.blank
     THEN OnlyThePlan(c)
     ELSE c.tool \in {"Write", "Edit"} => c.path = "plan"
PlanAllows(c) ==
  /\ c.tool \notin {"mcp", "Bash"}
  /\ IF c.tool = "Edit" /\ EditIsDiff(c) /\ ~c.blank
     THEN OnlyThePlan(c)
     ELSE c.tool \in {"Write", "Edit"} => c.path = "plan"

GuardBlocks == gatePc = "guard" /\ isPlan /\ ~PlanAllows(gateCall) /\ Refuse
GuardPasses ==
  /\ gatePc = "guard" /\ (isPlan => PlanAllows(gateCall))
  /\ gatePc' = "run" /\ plannedAt' = isPlan
  /\ UNCHANGED <<engine, gateHooks, isPlan, gateStop, gateCall, nextHook, passed, effect>>

(* What the tool may write.  Edit's own choice of mode (Edit.run).  `patch *)
(* --forward', called without -p, looks for the last component of either   *)
(* name, and creates that file if the diff says so; the applier writes     *)
(* what the `+++' name stands for, if it exists.  The .orig and .rej files *)
(* that patch leaves beside a file are left out.                           *)
DiffMayWrite(c) ==
  IF engine = "patch" THEN {n.base : n \in Named(c)}
  ELSE {Target(c, s[2]) : s \in c.sections} \ {"missing"}
MayWrite(c) ==
  CASE c.tool = "Write" -> {c.path}
    [] c.tool = "Edit" /\ EditIsDiff(c) -> DiffMayWrite(c)
    [] c.tool = "Edit" /\ c.old -> {c.path} \ {"dir"}
    [] c.tool \in {"Bash", "mcp"} -> Files
    [] OTHER -> {}

RunTool ==
  /\ gatePc = "run" /\ gateCall.tool # "PlanExit"
  /\ \E w \in SUBSET MayWrite(gateCall) : effect' = [ran |-> TRUE, wrote |-> w]
  /\ gatePc' = "ran"
  /\ UNCHANGED <<engine, gateHooks, isPlan, gateStop, gateCall, nextHook, passed, plannedAt>>

(* PlanExit asks, and switches to the build mode.                          *)
RunPlanExit ==
  /\ gatePc = "run" /\ gateCall.tool = "PlanExit"
  /\ isPlan' \in (IF isPlan THEN BOOLEAN ELSE {FALSE})
  /\ effect' = [ran |-> TRUE, wrote |-> {}]
  /\ gatePc' = "ran"
  /\ UNCHANGED <<engine, gateHooks, gateStop, gateCall, nextHook, passed, plannedAt>>

(* The result goes back to the loop.                                       *)
Return == gatePc = "ran" /\ Refuse

(* Ctrl-C, and the next prompt, which clears it.  The user enters plan     *)
(* mode between two runs, when the last one was abandoned in mid-call too. *)
GateCancel ==
  /\ gateStop' = ~gateStop
  /\ UNCHANGED <<engine, gateHooks, isPlan, gatePc, gateCall, nextHook, passed, plannedAt, effect>>
EnterPlan ==
  /\ ~isPlan /\ (gatePc = "idle" \/ gateStop)
  /\ isPlan' = TRUE
  /\ UNCHANGED <<engine, gateHooks, gateStop, gatePc, gateCall, nextHook, passed, plannedAt, effect>>

GateNext ==
  \/ Arrive \/ RefuseMalformed
  \/ \E i \in 1..Len(gateHooks) : RunHook(i)
  \/ HooksCrash \/ HooksDone
  \/ GuardBlocks \/ GuardPasses \/ RunTool \/ RunPlanExit \/ Return \/ GateCancel \/ EnterPlan

GateSpec == GateInit /\ [][GateNext]_gateVars

-----------------------------------------------------------------------------
(* A tool that a fail_closed hook covers runs only when every such hook    *)
(* ended with exit code 0: not when one failed, timed out, was cancelled,  *)
(* or the harness itself failed (before_tool "Fallback: allow, or block if *)
(* a fail_closed tool.before hook covers this tool").                      *)
FailClosedHolds ==
  effect.ran =>
    \A i \in Covering(gateCall.tool) : gateHooks[i].closed => i \in passed

(* A call that was let through in plan mode writes the plan file or        *)
(* nothing, whichever mode Edit then chooses for its arguments ("plan mode *)
(* guard: only the plan file is writable").  What it says of patch stops   *)
(* at names that patch and the guard read alike.                           *)
ReadAlike(c) ==
  c.tool = "Edit" /\ engine = "patch" => \A n \in Named(c) : n.base = Target(c, n)
PlanWritesPlanFile ==
  effect.ran /\ plannedAt /\ ReadAlike(gateCall) => effect.wrote \subseteq {"plan"}

(* What the guard says of every diff it lets through: "the sections        *)
(* approved here are exactly the files the backend would write"            *)
(* (_plan_diff_verdict).                                                   *)
ApprovedIsWritten == effect.ran /\ plannedAt => effect.wrote \subseteq {"plan"}
=============================================================================
