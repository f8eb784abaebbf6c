------------------------------ MODULE RunStream ------------------------------
(***************************************************************************)
(* What the host of serve mode reads: one stream of JSON lines per run     *)
(* (docs/serve-protocol.md).  A run that started opens its stream with a   *)
(* start line; its events follow; the result is its last line, and the     *)
(* only one of a run that could not start.  The streams do not overlap.    *)
(* Consecutive events are one.                                             *)
(***************************************************************************)
EXTENDS Integers, Sequences, SequencesExt

CONSTANT Runs            \* the runs the host submits: numbers, in order

VARIABLE lines           \* the lines of each run

LineKinds == {"start", "event", "result"}

Over(r) == lines[r] # <<>> /\ Last(lines[r]) = "result"
Turn(r) == ~Over(r) /\ \A s \in Runs : s < r => Over(s)

Init == lines = [r \in Runs |-> <<>>]

(* The start line, with the events that waited for it.                     *)
Start(r) ==
  /\ Turn(r) /\ lines[r] = <<>>
  /\ \E first \in {<<"start">>, <<"start", "event">>} : lines' = [lines EXCEPT ![r] = first]

Event(r) ==
  /\ Turn(r) /\ lines[r] = <<"start">>
  /\ lines' = [lines EXCEPT ![r] = Append(@, "event")]

Result(r) ==
  /\ Turn(r)
  /\ lines' = [lines EXCEPT ![r] = Append(@, "result")]

Next == \E r \in Runs : Start(r) \/ Event(r) \/ Result(r)
Spec == Init /\ [][Next]_lines
=============================================================================
