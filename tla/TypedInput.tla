----------------------------- MODULE TypedInput -----------------------------
(***************************************************************************)
(* What the user types and clicks while a run owns the terminal            *)
(* (tui/mouse.py).  The reader thread reads the terminal's bytes in chunks *)
(* that end anywhere, takes the mouse reports and the answers to its own   *)
(* cursor queries out of them, and keeps the rest for the next prompt.     *)
(*                                                                         *)
(* A byte is told apart by its part in a sequence: "1" is a parameter, "M" *)
(* and "m" end a mouse report, "R" a cursor report, "A" an arrow key; "x"  *)
(* is any key, "bs" a backspace, "u1" and "u2" the two bytes of a wide     *)
(* character "u".                                                          *)
(***************************************************************************)
EXTENDS Integers, Sequences, SequencesExt

CONSTANTS
  MaxCarry,              \* _MAX_CARRY: longest sequence a read may leave open
  MaxItems               \* bound: keys, clicks and answers

ASSUME MaxCarryAssumption == MaxCarry \in Nat

(* What the terminal sends for one thing the user or a query does.         *)
Bytes(item) ==
  CASE item = "key"       -> <<"x">>
    [] item = "backspace" -> <<"bs">>
    [] item = "wide"      -> <<"u1", "u2">>
    [] item = "alt"       -> <<"esc", "x">>
    [] item = "arrow"     -> <<"esc", "[", "A">>
    [] item = "function"  -> <<"esc", "O", "x">>
    [] item = "click"     -> <<"esc", "[", "<", "1", "M">>
    [] item = "release"   -> <<"esc", "[", "<", "1", "m">>
    [] item = "cursor"    -> <<"esc", "[", "1", "R">>
Items == {"key", "backspace", "wide", "alt", "arrow", "function", "click", "release", "cursor"}

VARIABLES
  sent,                  \* history: what the terminal sent since reporting was on
  unread,                \* bytes the reader has not read
  carry,                 \* the start of a sequence the last read left open
  typed,                 \* Tui._typed_during_run
  clicks,                \* clicks handed to the panel
  cursor                 \* the cursor row was reported

typedVars == <<sent, unread, carry, typed, clicks, cursor>>

-----------------------------------------------------------------------------
Params == {"<", "1"}
Finals == {"x", "A", "M", "m", "R", "O", "["}
From(d, i) == SubSeq(d, i, Len(d))
Opens(d, i, s) == i + 1 <= Len(d) /\ d[i] = "esc" /\ d[i + 1] = s

(* The first byte at or after i that is not a parameter.                   *)
PastParams(d, i) ==
  CHOOSE j \in i..Len(d) + 1 :
    /\ \A k \in i..j - 1 : d[k] \in Params
    /\ j <= Len(d) => d[j] \notin Params

(* The last byte of the complete sequence that starts at i, or 0.          *)
SequenceEnd(d, i) ==
  LET j == PastParams(d, i + 2) IN
  CASE Opens(d, i, "[") /\ j <= Len(d) /\ d[j] \in Finals -> j
    [] Opens(d, i, "O") /\ i + 2 <= Len(d) /\ d[i + 2] \in Finals \cup Params -> i + 2
    [] OTHER -> 0

IsCursorReport(d, i) ==
  Opens(d, i, "[") /\ i + 3 <= Len(d) /\ d[i + 2] = "1" /\ d[i + 3] = "R"
IsClick(d, i, e) == SubSeq(d, i + 2, e) = <<"<", "1", "M">>

(* A sequence still open at the end of the read.                           *)
StillOpen(d, i) ==
  /\ Len(d) - i + 1 <= MaxCarry
  /\ \/ i = Len(d)
     \/ i + 1 = Len(d) /\ d[i + 1] = "O"
     \/ Opens(d, i, "[") /\ PastParams(d, i + 2) > Len(d)

(* take_cursor_reports: DATA without the answers to cursor queries.        *)
WithoutReports(d) ==
  LET rest[i \in 1..Len(d) + 4] ==
        IF i > Len(d) THEN <<>>
        ELSE IF IsCursorReport(d, i) THEN rest[i + 4]
        ELSE <<d[i]>> \o rest[i + 1]
  IN rest[1]
HasReport(d) == \E i \in 1..Len(d) : IsCursorReport(d, i)

(* split, up to the text: a complete sequence is taken out where it is, an *)
(* open one is carried over; an escape that opens nothing is dropped, and  *)
(* the key after it kept.                                                  *)
Split(d) ==
  LET with(b, r) == [r EXCEPT !.plain = <<b>> \o @]
      scan[i \in 1..Len(d) + 1] ==
        CASE i > Len(d)              -> [plain |-> <<>>, carry |-> <<>>, clicks |-> 0]
          [] d[i] # "esc"            -> with(d[i], scan[i + 1])
          [] SequenceEnd(d, i) # 0   ->
               LET e == SequenceEnd(d, i) IN
               [scan[e + 1] EXCEPT !.clicks = @ + IF IsClick(d, i, e) THEN 1 ELSE 0]
          [] StillOpen(d, i)         -> [plain |-> <<>>, carry |-> From(d, i), clicks |-> 0]
          [] OTHER                   -> scan[i + 1]
  IN scan[1]

(* _utf8_incomplete_tail: a character cut by the read waits too.           *)
HoldTail_Decoded(r) == r
HoldTail(r) ==
  IF r.carry = <<>> /\ r.plain # <<>> /\ Last(r.plain) = "u1"
  THEN [r EXCEPT !.carry = <<"u1">>, !.plain = Front(@)] ELSE r

(* Decoding ignores the bytes that make no character.                      *)
Decode(bytes) ==
  LET text[i \in 1..Len(bytes) + 2] ==
        CASE i > Len(bytes) -> <<>>
          [] bytes[i] = "u1" /\ i < Len(bytes) /\ bytes[i + 1] = "u2" -> <<"u">> \o text[i + 2]
          [] bytes[i] \in {"u1", "u2"} -> text[i + 1]
          [] OTHER -> <<bytes[i]>> \o text[i + 1]
  IN text[1]

(* _clean_text: a backspace deletes in its own chunk, or is passed on;     *)
(* apply_typed: and deletes what earlier chunks typed.                     *)
CleanText(text) ==
  FoldLeft(LAMBDA out, c :
             IF c = "bs" /\ out # <<>> /\ Last(out) # "bs" THEN Front(out) ELSE Append(out, c),
           <<>>, text)
ApplyTyped(buffer, text) ==
  FoldLeft(LAMBDA out, c :
             IF c # "bs" THEN Append(out, c) ELSE IF out = <<>> THEN out ELSE Front(out),
           buffer, text)

-----------------------------------------------------------------------------
TypedInit ==
  /\ sent = <<>> /\ unread = <<>> /\ carry = <<>>
  /\ typed = <<>> /\ clicks = 0 /\ cursor = FALSE

Sends(item) ==
  /\ Len(sent) < MaxItems
  /\ sent' = Append(sent, item) /\ unread' = unread \o Bytes(item)
  /\ UNCHANGED <<carry, typed, clicks, cursor>>

(* One turn of _read_loop: the terminal hands over any number of bytes.    *)
ReadLoop ==
  \E n \in 1..Len(unread) :
    LET data == carry \o SubSeq(unread, 1, n)
        read == HoldTail(Split(WithoutReports(data))) IN
    /\ unread' = From(unread, n + 1)
    /\ carry' = read.carry
    /\ typed' = ApplyTyped(typed, CleanText(Decode(read.plain)))
    /\ clicks' = clicks + read.clicks
    /\ cursor' = (cursor \/ HasReport(data))
    /\ UNCHANGED sent

TypedNext == (\E item \in Items : Sends(item)) \/ ReadLoop

-----------------------------------------------------------------------------
(* What was typed, click by click and key by key.                          *)
TypedMeant ==
  FoldLeft(LAMBDA out, item :
             CASE item \in {"key", "alt"} -> Append(out, "x")
               [] item = "wide" -> Append(out, "u")
               [] item = "backspace" /\ out # <<>> -> Front(out)
               [] OTHER -> out,
           <<>>, sent)
Count(item) == Len(SelectSeq(sent, LAMBDA i : i = item))

(* However the reads cut the bytes, the next prompt offers what was typed  *)
(* and nothing else -- no piece of a report, of a key or of a character -- *)
(* the panel is told of every click, once, and a late answer to a cursor   *)
(* query is taken out, never typed.                                        *)
TypedAsMeant ==
  unread = <<>> =>
    /\ typed = TypedMeant /\ carry = <<>>
    /\ clicks = Count("click") /\ cursor = (Count("cursor") > 0)
=============================================================================
