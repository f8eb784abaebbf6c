----------------------------- MODULE SavedFormat -----------------------------
(***************************************************************************)
(* The text a session is saved as, and what a restore reads from it        *)
(* (io/persistence.py, Session._conversation_text, entry/restore.py).      *)
(*                                                                         *)
(* A line is a sequence of tokens: "x" is any text, "user:" and the like   *)
(* stand for `**user**: ', "\\" for one backslash, ";; Local" and ";; End" *)
(* for the two lines around the metadata.  A message is its role, its      *)
(* lines, and whether it makes tool calls.                                 *)
(***************************************************************************)
EXTENDS Integers, Sequences, FiniteSetsExt, SequencesExt

CONSTANTS
  BodyLines,             \* lines a message may have
  MaxSaid,               \* bound: messages said
  MaxRestores            \* bound: times the session is saved and restored

Headers == {"user:", "assistant:", "tool:"}
Tokens == Headers \cup {"x", "\\", ";; Local", ";; End"}

ASSUME BodyLinesAssumption == BodyLines \subseteq Seq(Tokens)

RoleOf(header) ==
  CASE header = "user:" -> "user" [] header = "assistant:" -> "assistant" [] header = "tool:" -> "tool"
HeaderOf(role) ==
  CASE role = "user" -> "user:" [] role = "assistant" -> "assistant:" [] role = "tool" -> "tool:"

VARIABLES
  conversation,          \* the session's conversation
  said,                  \* history: what the user and the assistant said in it
  restores               \* times it was restored

savedVars == <<conversation, said, restores>>

-----------------------------------------------------------------------------
(* split_role_header, and the escape that hides a line from it.            *)
IsHeader(line) == line # <<>> /\ line[1] \in Headers
IsEscapable(line) ==
  \E k \in 0..Len(line) :
    /\ \A i \in 1..k : line[i] = "\\"
    /\ IsHeader(SubSeq(line, k + 1, Len(line)))
Escape_HeadersOnly(line) == IF IsHeader(line) THEN <<"\\">> \o line ELSE line
Escape(line) == IF IsEscapable(line) THEN <<"\\">> \o line ELSE line
Unescape(line) ==
  IF line # <<>> /\ line[1] = "\\" /\ IsEscapable(line) THEN Tail(line) ELSE line

(* Content is stripped of the blank lines around it.                       *)
Stripped(lines) ==
  LET text == {i \in 1..Len(lines) : lines[i] # <<>>} IN
  IF text = {} THEN <<>> ELSE SubSeq(lines, Min(text), Max(text))

(* _conversation_text: a message without any text is left out.             *)
CallsLine == <<"x">>
Block(m) ==
  LET escaped == [i \in 1..Len(m.lines) |-> Escape(m.lines[i])]
      body    == IF m.calls THEN Stripped(escaped \o <<CallsLine>>) ELSE escaped
  IN IF body \in {<<>>, <<<<>>>>} THEN <<>>
     ELSE <<<<HeaderOf(m.role)>> \o body[1]>> \o Tail(body) \o <<<<>>>>
Metadata == <<<<";; Local">>, <<"x">>, <<";; End">>>>
ConversationText(ms) ==
  LET text[i \in 0..Len(ms)] == IF i = 0 THEN <<>> ELSE text[i - 1] \o Block(ms[i])
  IN  text[Len(ms)]
Saved(ms) == ConversationText(ms) \o Metadata

(* strip_metadata: the last block is the session's own.                    *)
StripMetadata(file) ==
  SubSeq(file, 1, Max({i \in 1..Len(file) : file[i] = <<";; Local">>}) - 1)

(* parse_saved_body, line by line: a header begins a block and ends the    *)
(* one before, which is a message if it has a text and is not a tool's.    *)
NoBlock == [role |-> "none", lines |-> <<>>, messages |-> <<>>]
FlushBlock(block) ==
  IF block.role \in {"none", "tool"} \/ Stripped(block.lines) = <<>> THEN block.messages
  ELSE Append(block.messages,
              [role |-> block.role, lines |-> Stripped(block.lines), calls |-> FALSE])
ParseLine(block, line) ==
  IF IsHeader(line)
  THEN [role |-> RoleOf(line[1]), lines |-> <<Unescape(Tail(line))>>, messages |-> FlushBlock(block)]
  ELSE [block EXCEPT !.lines = Append(@, Unescape(line))]
ParseBody(lines) ==
  LET block[i \in 0..Len(lines)] == IF i = 0 THEN NoBlock ELSE ParseLine(block[i - 1], lines[i])
  IN  FlushBlock(block[Len(lines)])

(* load_saved_session.                                                     *)
Restored == ParseBody(StripMetadata(Saved(conversation)))

-----------------------------------------------------------------------------
SavedInit == conversation = <<>> /\ said = <<>> /\ restores = 0

(* What is left of a message when it is only text.                         *)
AsText(m) ==
  [role |-> m.role, calls |-> FALSE,
   lines |-> Stripped(IF m.calls THEN m.lines \o <<CallsLine>> ELSE m.lines)]

Say ==
  \E role \in {"user", "assistant", "tool"}, calls \in BOOLEAN :
    \E n \in 1..2 : \E lines \in [1..n -> BodyLines] :
      LET m == [role |-> role, lines |-> lines, calls |-> calls] IN
      /\ Len(conversation) < MaxSaid /\ (calls => role = "assistant")
      /\ conversation' = Append(conversation, m)
      /\ said' = IF role = "tool" \/ AsText(m).lines = <<>> THEN said ELSE Append(said, AsText(m))
      /\ UNCHANGED restores

(* apply_saved_session.                                                    *)
Restore ==
  /\ restores < MaxRestores /\ conversation # <<>>
  /\ conversation' = Restored /\ restores' = restores + 1
  /\ UNCHANGED said

SavedNext == Say \/ Restore
SavedSpec == SavedInit /\ [][SavedNext]_savedVars

-----------------------------------------------------------------------------
(* A restored session holds what the user and the assistant said, message  *)
(* by message and line by line, though a line looks like the header of     *)
(* another message, or like an escaped one, or like the metadata, and      *)
(* however often it was saved and restored before ("the round trip is      *)
(* exact at any nesting depth", escape_role_headers).                      *)
RestoreIsFaithful == Restored = said
=============================================================================
