------------------------------ MODULE MCSession ------------------------------
(***************************************************************************)
(* One instance of each component that stands between a session's runs and *)
(* the outside: the HTTP client, the gate before a tool, and a command in its  *)
(* process group.  They share no variable: a behaviour chooses one of      *)
(* them, its focus, and the others rest as they began.                     *)
(***************************************************************************)
EXTENDS LlmClient, ToolGate, ShellTool

VARIABLE focus

(* The names of a diff: the plan file's and another file's own, one that   *)
(* is not there at all, and one wrong path that ends in the plan's name.   *)
Own == [at |-> "plan", base |-> "plan"]
Other == [at |-> "other", base |-> "other"]
Fresh == [at |-> "missing", base |-> "new"]
Wrong == [at |-> "missing", base |-> "plan"]
SomeDiffs ==
  {{<<Own, Own>>}, {<<Other, Own>>}, {<<Own, Fresh>>}, {<<Wrong, Wrong>>},
   {<<Own, Own>>, <<Own, Other>>}}

SessionInit ==
  /\ focus \in {"client", "gate", "shell"}
  /\ Init /\ GateInit /\ ShellInit
  /\ focus # "gate" => gateHooks = <<>> /\ isPlan /\ engine = "patch"
  /\ focus # "shell" => runner = "bash"

SessionNext ==
  /\ UNCHANGED focus
  /\ \/ focus = "client" /\ Next /\ UNCHANGED <<gateVars, shellVars>>
     \/ focus = "gate" /\ GateNext /\ UNCHANGED <<vars, shellVars>>
     \/ focus = "shell" /\ ShellNext /\ UNCHANGED <<vars, gateVars>>

SessionSpec ==
  /\ SessionInit
  /\ [][SessionNext]_<<focus, vars, gateVars, shellVars>>
  /\ focus = "client" => Fairness
=============================================================================
