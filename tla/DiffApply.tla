------------------------------ MODULE DiffApply ------------------------------
(***************************************************************************)
(* The Edit tool's diff mode: reading a unified diff line by line, finding *)
(* where each hunk goes, and applying them (tools/diffapply.py), and the   *)
(* recount of hunk headers for patch(1) (tools/edit.py).                   *)
(*                                                                         *)
(* A file is a sequence of lines, told apart by a letter.  A line of a     *)
(* hunk has a kind (" ", "-" or "+") and a text; removed text "dash" and   *)
(* added text "plus" are content that looks like a file header once the    *)
(* kind is in front of it (`--- x', `+++ x'); context "stale" is a line    *)
(* that the file has no longer.                                            *)
(***************************************************************************)
EXTENDS Integers, Sequences, FiniteSets, SequencesExt

CONSTANTS
  Fuzz,                  \* FUZZ: context lines that may differ, and lines off
  MaxLines,              \* bound: lines of a file
  MaxHunks,              \* bound: hunks of a diff
  MaxDrift               \* bound: lines a hunk header is off

ASSUME FuzzAssumption == Fuzz \in Nat

Texts == {"a", "dash"}

VARIABLES
  file,                  \* the lines of the file
  hunks                  \* the diff: where each hunk belongs, what its header
                         \* says, its lines, and what is to stand there then

diffVars == <<file, hunks>>

-----------------------------------------------------------------------------
(* A diff as text: each line by what it starts with, and what it says.     *)
Mark(line) ==
  CASE line = <<"-", "dash">> -> "---" [] line = <<"+", "plus">> -> "+++" [] OTHER -> line[1]
HeaderLines == <<[mark |-> "---", says |-> "path"], [mark |-> "+++", says |-> "path"]>>
HunkLines(h) ==
  <<[mark |-> "@@", says |-> h.start]>>
    \o [i \in 1..Len(h.body) |-> [mark |-> Mark(h.body[i]), says |-> h.body[i]]]
Section(hs) == HeaderLines \o FlattenSeq([i \in 1..Len(hs) |-> HunkLines(hs[i])])

(* _section_header_at: a `---' line with its `+++' partner right after it. *)
SectionHeaderAt(lines, i) ==
  /\ i \in 1..Len(lines) - 1
  /\ lines[i].mark = "---" /\ lines[i + 1].mark = "+++"

(* _parse: sections of hunks; whatever else a line is, it is skipped.      *)
Parse(lines) ==
  FoldLeft(LAMBDA sections, i :
    LET s == Len(sections)
        h == IF s = 0 THEN 0 ELSE Len(sections[s]) IN
    CASE SectionHeaderAt(lines, i) -> Append(sections, <<>>)
      [] SectionHeaderAt(lines, i - 1) \/ s = 0 -> sections
      [] lines[i].mark = "@@" ->
           [sections EXCEPT ![s] = Append(@, [start |-> lines[i].says, body |-> <<>>])]
      [] h = 0 -> sections
      [] OTHER -> [sections EXCEPT ![s][h].body = Append(@, lines[i].says)],
    <<>>, [i \in 1..Len(lines) |-> i])

(* _fix_patch_headers: old and new lines of the hunk whose header is at i; *)
(* it ends at the next header, or at the next file (_starts_file_section,  *)
(* which wants the hunk header that follows as well).                      *)
StartsFileSection(lines, i) ==
  SectionHeaderAt(lines, i) /\ i + 2 <= Len(lines) /\ lines[i + 2].mark = "@@"
HunkBody(lines, i) ==
  {j \in i + 1..Len(lines) :
     \A k \in i + 1..j : lines[k].mark # "@@" /\ ~StartsFileSection(lines, k)}
Recount(lines, i) ==
  LET marked(ms) == Cardinality({j \in HunkBody(lines, i) : lines[j].mark \in ms})
  IN <<marked({" ", "-", "---"}), marked({" ", "+", "+++"})>>

-----------------------------------------------------------------------------
(* Applying a section to a file.                                           *)
Old(h) == SelectSeq(h.body, LAMBDA l : l[1] # "+")
New(h) == SelectSeq(h.body, LAMBDA l : l[1] # "-")

(* _match_hunk at the gap p (after the first p lines): removed lines are   *)
(* there exactly, all but Fuzz of the context lines too.                   *)
MatchesAt(h, f, p) ==
  LET differ == {i \in 1..Len(Old(h)) : f[p + i] # Old(h)[i][2]} IN
  /\ p \in 0..Len(f) - Len(Old(h))
  /\ \A i \in differ : Old(h)[i][1] = " "
  /\ Cardinality(differ) <= Fuzz

(* _candidate_positions: nearest to the header's line first, the earlier   *)
(* of two first.  A hunk without old lines just goes before the line that  *)
(* its header names, kept within the file.                                 *)
Candidates(h) == FlattenSeq([d \in 1..Fuzz + 1 |-> <<h.start - d, h.start + d - 2>>])
NoMatch == -1
Inserts(h) == Old(h) = <<>>
MatchHunk(h, f) ==
  IF Inserts(h) THEN Max({0, Min({h.start - 1, Len(f)})})
  ELSE LET found == SelectSeq(Candidates(h), LAMBDA p : MatchesAt(h, f, p))
       IN IF found = <<>> THEN NoMatch ELSE found[1]

(* _apply_hunk: context lines keep the file's own text.                    *)
Replaced(f, p, h) ==
  LET new == New(h)
      context(i) == Len(SelectSeq(SubSeq(h.body, 1, i), LAMBDA l : l[1] # "+"))
      block == [i \in 1..Len(h.body) |->
                  IF h.body[i][1] = " " THEN f[p + context(i)] ELSE h.body[i][2]]
      kept == SelectSeq([i \in 1..Len(h.body) |-> <<h.body[i][1], block[i]>>],
                        LAMBDA l : l[1] # "-")
  IN SubSeq(f, 1, p) \o [i \in 1..Len(new) |-> kept[i][2]]
       \o SubSeq(f, p + Len(Old(h)) + 1, Len(f))

(* _apply_section: every hunk is matched against the file as it is; then   *)
(* they are applied from the last to the first.                            *)
Applies(f, hs) == \A k \in 1..Len(hs) : MatchHunk(hs[k], f) # NoMatch
ApplySection_TopDown(f, hs) ==
  FoldLeft(LAMBDA g, h : Replaced(g, MatchHunk(h, f), h), f, hs)
ApplySection(f, hs) ==
  FoldRight(LAMBDA h, g : Replaced(g, MatchHunk(h, f), h), hs, f)

-----------------------------------------------------------------------------
DiffInit == file = <<>> /\ hunks = <<>>

AddLine ==
  /\ hunks = <<>> /\ Len(file) < MaxLines
  /\ \E t \in Texts : file' = Append(file, t)
  /\ UNCHANGED hunks

(* Lines a+1..a+n of the file, each kept or removed, with a line added     *)
(* after the first m of them, or none.                                     *)
Body(a, kinds, m, added) ==
  LET n == Len(kinds)
      old == [i \in 1..n |-> <<kinds[i], file[a + i]>>]
  IN IF added = "none" THEN old
     ELSE SubSeq(old, 1, m) \o <<<<"+", added>>>> \o SubSeq(old, m + 1, n)
GoesStale(body, stale) ==
  [i \in 1..Len(body) |-> IF i \in stale THEN <<" ", "stale">> ELSE body[i]]

(* The next hunk, after the ones there are.  Its header names its first    *)
(* old line or, when it has none, the line it goes after; it may be off,   *)
(* and all of its context out of date.                                     *)
AddHunk ==
  LET free == IF hunks = <<>> THEN 0 ELSE Last(hunks).at + Len(Old(Last(hunks))) IN
  \E a \in free..Len(file), n \in 0..2 :
    /\ Len(hunks) < MaxHunks /\ a + n <= Len(file)
    /\ \E kinds \in [1..n -> {" ", "-"}], m \in 0..n, added \in {"none", "b", "plus"},
          drift \in -MaxDrift..MaxDrift :
      LET body == Body(a, kinds, m, added)
          start == (IF n = 0 THEN a ELSE a + 1) + drift IN
      \E stale \in {{}, {i \in 1..Len(body) : body[i][1] = " "}} :
        /\ body # <<>> /\ start >= 0
        /\ hunks' = Append(hunks, [at |-> a, start |-> start, body |-> GoesStale(body, stale),
                                   meant |-> SelectSeq(body, LAMBDA l : l[1] # "-")])
        /\ UNCHANGED file

DiffNext == AddLine \/ AddHunk

-----------------------------------------------------------------------------
(* What the diff means: its lines take the place of the lines it covers.   *)
RECURSIVE DiffMeant(_, _)
DiffMeant(from, k) ==
  IF k > Len(hunks) THEN SubSeq(file, from + 1, Len(file))
  ELSE LET h == hunks[k] IN
       SubSeq(file, from + 1, h.at) \o [i \in 1..Len(h.meant) |-> h.meant[i][2]]
         \o DiffMeant(h.at + Len(Old(h)), k + 1)

(* A hunk that can go to one place only: its header is right, or it        *)
(* removes a line that occurs once in the file.  A hunk without old lines  *)
(* has a header that names the line it goes before, or is at the top.      *)
Anchored(h) ==
  \/ h.start = h.at + 1
  \/ Inserts(h) /\ h.at = 0 /\ h.start = 0
  \/ \E i \in 1..Len(h.body) :
       h.body[i][1] = "-" /\ Cardinality({j \in 1..Len(file) : file[j] = h.body[i][2]}) = 1

(* The one shape that cannot be told from a file header: a removed `-- x'  *)
(* with an added `++ x' right after it.                                    *)
Ambiguous ==
  \E k \in 1..Len(hunks) : \E i \in 1..Len(hunks[k].body) - 1 :
    hunks[k].body[i] = <<"-", "dash">> /\ hunks[k].body[i + 1] = <<"+", "plus">>

(* A diff of two files is read back as it was meant, with every hunk       *)
(* header recounted right, removed `-- x' and added `++ x' lines included. *)
ReadsBack ==
  LET text == Section(hunks) \o Section(hunks)
      meant == [k \in 1..Len(hunks) |-> [start |-> hunks[k].start, body |-> hunks[k].body]]
      headers == SelectSeq([i \in 1..Len(text) |-> i], LAMBDA i : text[i].mark = "@@")
  IN /\ Parse(text) = <<meant, meant>>
     /\ \A n \in 1..Len(headers) :
          LET h == (hunks \o hunks)[n]
          IN Recount(text, headers[n]) = <<Len(Old(h)), Len(New(h))>>

(* A hunk with more context that the file has no longer than the fuzz      *)
(* allows.                                                                 *)
OutOfDate(h) ==
  Cardinality({i \in 1..Len(h.body) : h.body[i] = <<" ", "stale">>}) > Fuzz

(* A diff that can be told from its text does what it says: it is read     *)
(* back whole, and every hunk lands where it belongs and changes its own   *)
(* lines only, whatever the other hunks of the section have added or       *)
(* removed ("bottom-up: earlier positions stay valid").  Lines of context  *)
(* that are out of date stay as the file has them, and a section with too  *)
(* many of them in one hunk is refused as a whole.                         *)
DiffDoesWhatItSays ==
  /\ ~Ambiguous => ReadsBack
  /\ (\E k \in 1..Len(hunks) : OutOfDate(hunks[k])) => ~Applies(file, hunks)
  /\ (\A k \in 1..Len(hunks) : Anchored(hunks[k]) /\ ~OutOfDate(hunks[k])) =>
       Applies(file, hunks) /\ ApplySection(file, hunks) = DiffMeant(0, 1)

(* What the two backends of Edit promise together, for a hunk that only    *)
(* adds lines and whose header is as diff writes it, naming the line it    *)
(* goes after: "so the same diffs apply on both platforms" (edit_mac.py).  *)
InsertionsLand ==
  \A k \in 1..Len(hunks) :
    Inserts(hunks[k]) /\ hunks[k].start = hunks[k].at =>
      MatchHunk(hunks[k], file) = hunks[k].at
=============================================================================
