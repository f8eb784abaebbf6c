--------------------------- MODULE ToolCallStream ---------------------------
(***************************************************************************)
(* Putting the tool calls of one response together from the pieces it      *)
(* comes in (llm/client.py): fragments of a streamed response, or the      *)
(* complete calls of one that is not streamed.                             *)
(*                                                                         *)
(* A call is its id (<<>> when the backend gives none) and its arguments,  *)
(* a sequence of pieces; its name travels as its id does.  Backends differ *)
(* in what they put on a fragment:                                         *)
(*   "indexed"   an index on every one; calls may be interleaved, and need *)
(*               no id                                                     *)
(*   "null"      no usable index; an id on the first fragment of a call    *)
(*   "whole"     complete calls, each with an id, without an index         *)
(***************************************************************************)
EXTENDS Integers, Sequences, FiniteSets, FiniteSetsExt

CONSTANTS
  MaxToolCalls,          \* bound: calls of a response
  MaxPieces              \* bound: pieces of one call's arguments

Backends == {"indexed", "null", "whole"}
NoIndex == -1

VARIABLES
  backend,               \* how the backend sends calls
  meant,                 \* history: the calls the model made
  tc_index               \* slot -> the id and arguments accumulated there

callStreamVars == <<backend, meant, tc_index>>

-----------------------------------------------------------------------------
(* _slot_for: where a fragment goes.                                       *)
SlotFor_NewestSlot(acc, tc, fallback) ==
  IF tc.index # NoIndex THEN tc.index
  ELSE IF DOMAIN acc = {} THEN fallback ELSE Max(DOMAIN acc)
SlotFor(acc, tc, fallback) ==
  IF tc.index # NoIndex THEN tc.index
  ELSE IF DOMAIN acc = {} THEN fallback
  ELSE LET current == Max(DOMAIN acc) IN
       IF tc.id # <<>> /\ acc[current].id \notin {<<>>, tc.id} THEN current + 1 ELSE current

(* _absorb_tool_call: ids and arguments are concatenated.                  *)
Absorb(acc, slot, tc) ==
  LET entry == IF slot \in DOMAIN acc THEN acc[slot] ELSE [id |-> <<>>, arguments |-> <<>>] IN
  [s \in DOMAIN acc \cup {slot} |->
     IF s = slot THEN [id |-> entry.id \o tc.id, arguments |-> entry.arguments \o tc.arguments]
     ELSE acc[s]]

(* The end of chat(): the calls in slot order; one without an id is named  *)
(* after its slot, one without arguments gets none.                        *)
Named(i, call) ==
  [id |-> IF call.id = <<>> THEN <<"call", i>> ELSE call.id,
   arguments |-> IF call.arguments = <<>> THEN <<"{}">> ELSE call.arguments]
NthSlot(n) ==
  CHOOSE s \in DOMAIN tc_index : Cardinality({t \in DOMAIN tc_index : t <= s}) = n
Assembled ==
  [n \in 1..Cardinality(DOMAIN tc_index) |-> Named(NthSlot(n), tc_index[NthSlot(n)])]

-----------------------------------------------------------------------------
CallStreamInit == backend \in Backends /\ meant = <<>> /\ tc_index = << >>

Fragment(k, id, arguments) ==
  [index |-> IF backend = "indexed" THEN k - 1 ELSE NoIndex,
   id |-> id, arguments |-> arguments]
Receive(k, id, arguments) ==
  LET tc == Fragment(k, id, arguments) IN
  /\ tc_index' = Absorb(tc_index, SlotFor(tc_index, tc, IF backend = "whole" THEN k - 1 ELSE 0), tc)
  /\ UNCHANGED backend

(* The model makes another call; its arguments may come later, or never.   *)
BeginCall ==
  LET k == Len(meant) + 1 IN
  \E id \in {<<k>>, <<>>}, arguments \in {<<>>, <<1>>} :
    /\ k <= MaxToolCalls
    /\ (id = <<>> => backend = "indexed")
    /\ meant' = Append(meant, [id |-> id, arguments |-> arguments])
    /\ Receive(k, id, arguments)

(* More of a call's arguments: of the newest call, unless fragments say    *)
(* which call they are for.                                                *)
NextFragment ==
  \E k \in 1..Len(meant) :
    LET piece == <<Len(meant[k].arguments) + 1>> IN
    /\ Len(meant[k].arguments) < MaxPieces
    /\ k = Len(meant) \/ backend = "indexed"
    /\ backend # "whole"
    /\ meant' = [meant EXCEPT ![k].arguments = @ \o piece]
    /\ Receive(k, <<>>, piece)

CallStreamNext == BeginCall \/ NextFragment
CallStreamSpec == CallStreamInit /\ [][CallStreamNext]_callStreamVars

-----------------------------------------------------------------------------
(* The calls that are run are the calls the model made, in their order,    *)
(* with their arguments whole: no fragment goes to another call, and no    *)
(* two calls are spliced together (_slot_for).                             *)
CallsAsMeant ==
  Assembled = [k \in 1..Len(meant) |-> Named(k - 1, meant[k])]
=============================================================================
