------------------------------ MODULE ShellTool ------------------------------
(***************************************************************************)
(* A command run in a process group of its own: the Bash tool              *)
(* (tools/bash.py), whose result is delivered later by a thread, and a     *)
(* hook's command (session/hooks.py, _run), which is waited for.           *)
(*                                                                         *)
(* The shell leads its group.  It may leave a child in the group, one that *)
(* ignores SIGTERM, or one in a session of its own; each holds the pipe    *)
(* and may write to it.  Time only says which deadline may have passed.    *)
(***************************************************************************)
EXTENDS Integers, FiniteSets

CONSTANT PipeSize        \* bound: chunks in the pipe

ASSUME PipeSizeAssumption == PipeSize \in Nat \ {0}

Children == {"meek", "deaf", "detached"}
Results == {"none", "ok", "cancelled", "silent", "late", "fault"}
ShellPcs == {"poll", "kill", "term", "grace", "exit", "deliver", "done"}

VARIABLES
  runner,                \* "bash" or "hook"
  shell,                 \* the shell: "runs", or "trap" once it ignores SIGTERM,
                         \* or "exited"
  alive,                 \* its children that are still there
  pipe,                  \* chunks in the pipe
  stop,                  \* the session's cancel event
  sawExit,               \* `exited' of _collect_output
  shellPc, status,       \* the collector's place, and why it stopped
  delivered              \* what the caller was given

shellVars == <<runner, shell, alive, pipe, stop, sawExit, shellPc, status, delivered>>

Lives == shell # "exited"
Group == alive \ {"detached"}
PipeHeld == Lives \/ alive # {}

ShellInit ==
  /\ runner \in {"bash", "hook"}
  /\ shell = "runs" /\ alive = {} /\ pipe = 0 /\ stop = FALSE
  /\ sawExit = FALSE /\ shellPc = "poll" /\ status = "none" /\ delivered = "none"

-----------------------------------------------------------------------------
(* The processes, and the user.                                            *)
Fork ==
  /\ Lives /\ \E c \in Children \ alive : alive' = alive \cup {c}
  /\ UNCHANGED <<runner, shell, pipe, stop, sawExit, shellPc, status, delivered>>
Trap ==
  /\ shell = "runs" /\ shell' = "trap"
  /\ UNCHANGED <<runner, alive, pipe, stop, sawExit, shellPc, status, delivered>>
Output ==
  /\ PipeHeld /\ pipe < PipeSize /\ pipe' = pipe + 1
  /\ UNCHANGED <<runner, shell, alive, stop, sawExit, shellPc, status, delivered>>
ShellExits ==
  /\ Lives /\ shell' = "exited"
  /\ UNCHANGED <<runner, alive, pipe, stop, sawExit, shellPc, status, delivered>>
ChildExits ==
  /\ \E c \in alive : alive' = alive \ {c}
  /\ UNCHANGED <<runner, shell, pipe, stop, sawExit, shellPc, status, delivered>>
PressCtrlC ==
  /\ ~stop /\ shellPc # "done" /\ stop' = TRUE
  /\ UNCHANGED <<runner, shell, alive, pipe, sawExit, shellPc, status, delivered>>
Processes == Fork \/ Trap \/ Output \/ ShellExits \/ ChildExits \/ PressCtrlC

-----------------------------------------------------------------------------
(* The poll loops.                                                         *)
StopFor(why, place) ==
  /\ status' = why /\ shellPc' = place
  /\ UNCHANGED <<runner, shell, alive, pipe, stop, sawExit, delivered>>

(* _collect_output: cancel, then the deadlines, then the drain after the   *)
(* shell's exit, then one select.                                          *)
BashCancelled == stop /\ StopFor("cancelled", "kill")
BashSilent == ~stop /\ ~sawExit /\ pipe = 0 /\ StopFor("silent", "term")
BashLate == ~stop /\ ~sawExit /\ StopFor("late", "term")
BashDrained == ~stop /\ sawExit /\ StopFor("ok", "exit")
BashEof == ~stop /\ pipe = 0 /\ ~PipeHeld /\ StopFor("ok", "exit")
BashFault == ~stop /\ StopFor("fault", "kill")
BashRead ==
  /\ ~stop /\ pipe > 0 /\ pipe' = pipe - 1
  /\ UNCHANGED <<runner, shell, alive, stop, sawExit, shellPc, status, delivered>>
BashSeesExit ==
  /\ ~stop /\ pipe = 0 /\ PipeHeld /\ ~Lives /\ ~sawExit /\ sawExit' = TRUE
  /\ UNCHANGED <<runner, shell, alive, pipe, stop, shellPc, status, delivered>>
BashPoll ==
  /\ runner = "bash" /\ shellPc = "poll"
  /\ BashCancelled \/ BashSilent \/ BashLate \/ BashDrained \/ BashEof \/ BashFault
       \/ BashRead \/ BashSeesExit

(* _run: the shell's exit, then cancel, then the deadline; readers drain   *)
(* the pipe meanwhile.                                                     *)
HookPoll ==
  /\ runner = "hook" /\ shellPc = "poll"
  /\ \/ ~Lives /\ StopFor("ok", "deliver")
     \/ Lives /\ stop /\ StopFor("cancelled", "term")
     \/ Lives /\ ~stop /\ StopFor("late", "term")

-----------------------------------------------------------------------------
(* The ends.  killpg reaches every process of the group, and waits for     *)
(* none.                                                                   *)
KillGroup ==
  /\ shell' = "exited" /\ alive' = alive \cap {"detached"}

Kill ==
  /\ shellPc = "kill" /\ KillGroup /\ shellPc' = "deliver"
  /\ UNCHANGED <<runner, pipe, stop, sawExit, status, delivered>>

(* _kill_graceful and _stop: SIGTERM first.                                *)
Terminate ==
  /\ shellPc = "term" /\ shellPc' = "grace"
  /\ shell' = (IF shell = "trap" THEN "trap" ELSE "exited")
  /\ alive' = alive \ {"meek"}
  /\ UNCHANGED <<runner, pipe, stop, sawExit, status, delivered>>

(* _kill_graceful waits for the shell only; _stop kills whether or not the *)
(* pipes were closed in time.                                              *)
GraceEnds_WhenShellExits ==
  /\ shellPc = "grace" /\ shellPc' = "deliver"
  /\ IF ~Lives THEN UNCHANGED <<shell, alive>> ELSE KillGroup
  /\ UNCHANGED <<runner, pipe, stop, sawExit, status, delivered>>
GraceEnds ==
  /\ shellPc = "grace" /\ shellPc' = "deliver"
  /\ IF runner = "bash" /\ ~Lives THEN UNCHANGED <<shell, alive>> ELSE KillGroup
  /\ UNCHANGED <<runner, pipe, stop, sawExit, status, delivered>>

(* _append_exit_code waits two seconds for the shell, and gives up.        *)
ReportExit ==
  /\ shellPc = "exit" /\ shellPc' = "deliver"
  /\ UNCHANGED <<runner, shell, alive, pipe, stop, sawExit, status, delivered>>

(* PendingToolResult.deliver, or the return of _run.                       *)
DeliverResult ==
  /\ shellPc = "deliver" /\ shellPc' = "done"
  /\ delivered' = (IF delivered = "none" THEN status ELSE delivered)
  /\ UNCHANGED <<runner, shell, alive, pipe, stop, sawExit, status>>

Collector ==
  BashPoll \/ HookPoll \/ Kill \/ Terminate \/ GraceEnds \/ ReportExit \/ DeliverResult

ShellNext == Processes \/ Collector

ShellSpec == ShellInit /\ [][ShellNext]_shellVars

-----------------------------------------------------------------------------
(* Nothing of a stopped command is left running: after a cancelled or      *)
(* failed Bash command, and a cancelled or timed-out hook, no process of   *)
(* its group is alive.  (A timed-out Bash command only waits for the shell *)
(* after SIGTERM.)                                                         *)
StoppedGroupIsGone ==
  /\ delivered \in {"cancelled", "fault"} => ~Lives /\ Group = {}
  /\ runner = "hook" /\ delivered = "late" => ~Lives /\ Group = {}
=============================================================================
