------------------------- MODULE ConversationProofs -------------------------
(* Lemmas about the conversation functions, for every conversation.        *)
EXTENDS Conversation, FiniteSetTheorems, WellFoundedInduction, TLAPS

(* A non-empty set of naturals has a least member.  The order is given as  *)
(* a relation, so that no theorem about an operator is instantiated.       *)
LEMMA LeastNatural ==
  ASSUME NEW S, S \subseteq Nat, S # {}
  PROVE  \E x \in S : \A y \in S : x <= y
<1> DEFINE R == {p \in Nat \X Nat : p[1] < p[2]}
<1>1. IsWellFoundedOn(R, Nat)
  BY NatLessThanWellFounded DEF OpToRel
<1>2. PICK x \in S : \A y \in S : ~ (<<y, x>> \in R)
  <2> HIDE DEF R
  <2> QED BY <1>1, WFMin
<1>3. ASSUME NEW y \in S PROVE x <= y
  <2>1. x \in Nat /\ y \in Nat /\ <<y, x>> \in Nat \X Nat
    OBVIOUS
  <2>2. <<y, x>>[1] = y /\ <<y, x>>[2] = x
    OBVIOUS
  <2>3. ~ (y < x)
    BY <1>2, <2>1, <2>2
  <2> QED BY <2>1, <2>3
<1> QED BY <1>3

(* And a bounded one a greatest.                                           *)
LEMMA GreatestNatural ==
  ASSUME NEW S, NEW n \in Nat, S \subseteq 0..n, S # {}
  PROVE  \E x \in S : \A y \in S : y <= x
<1> DEFINE D == {d \in Nat : n - d \in S}
<1>1. D \subseteq Nat
  OBVIOUS
<1>2. D # {}
  <2>1. PICK x \in S : TRUE
    OBVIOUS
  <2>2. n - x \in Nat /\ n - (n - x) = x
    BY <2>1
  <2> QED BY <2>1, <2>2
<1>3. PICK d \in D : \A e \in D : d <= e
  <2> HIDE DEF D
  <2> QED BY <1>1, <1>2, LeastNatural
<1>4. \A y \in S : n - y \in Nat /\ n - (n - y) = y
  OBVIOUS
<1>5. \A y \in S : n - y \in D
  BY <1>4
<1> QED BY <1>3, <1>5

(* The greatest and the least of a set.                                    *)
LEMMA MaxIs ==
  ASSUME NEW S, NEW n \in Nat, S \subseteq 0..n, S # {}
  PROVE  Max(S) \in S /\ \A x \in S : x <= Max(S)
<1>1. PICK m \in S : \A x \in S : x <= m
  BY GreatestNatural
<1>2. \A x \in S : m >= x
  BY <1>1
<1>3. Max(S) \in S /\ \A x \in S : Max(S) >= x
  BY <1>2 DEF Max
<1> QED BY <1>3

LEMMA MinIs ==
  ASSUME NEW S, S \subseteq Nat, S # {}
  PROVE  Min(S) \in S /\ \A x \in S : Min(S) <= x
BY LeastNatural DEF Min

LEMMA GreaterOfTwo ==
  ASSUME NEW a \in Int, NEW b \in Int
  PROVE  Max({a, b}) = IF a <= b THEN b ELSE a
<1> DEFINE m == IF a <= b THEN b ELSE a
<1>1. m \in {a, b} /\ \A y \in {a, b} : m >= y
  OBVIOUS
<1>2. \A x \in {a, b} : (\A y \in {a, b} : x >= y) => x = m
  OBVIOUS
<1> HIDE DEF m
<1>3. Max({a, b}) = m
  BY <1>1, <1>2 DEF Max
<1> QED BY <1>3 DEF m

LEMMA LesserOfTwo ==
  ASSUME NEW a \in Int, NEW b \in Int
  PROVE  Min({a, b}) = IF a <= b THEN a ELSE b
<1> DEFINE m == IF a <= b THEN a ELSE b
<1>1. m \in {a, b} /\ \A y \in {a, b} : m <= y
  OBVIOUS
<1>2. \A x \in {a, b} : (\A y \in {a, b} : x <= y) => x = m
  OBVIOUS
<1> HIDE DEF m
<1>3. Min({a, b}) = m
  BY <1>1, <1>2 DEF Min
<1> QED BY <1>3 DEF m

(* Along a range, step by step.                                            *)
LEMMA StepByStep ==
  ASSUME NEW L \in Nat, NEW S, 0 \in S, \A i \in 1..L : i - 1 \in S => i \in S
  PROVE  \A i \in 0..L : i \in S
<1> DEFINE Bad == {i \in 0..L : i \notin S}
<1>1. Bad \subseteq Nat
  OBVIOUS
<1> SUFFICES ASSUME Bad # {} PROVE FALSE
  OBVIOUS
<1>2. PICK x \in Bad : \A y \in Bad : x <= y
  BY <1>1, LeastNatural
<1>3. x \in 0..L /\ x \notin S /\ x # 0 /\ x \in 1..L
  BY <1>2
<1>4. x - 1 \in 0..L /\ ~ (x <= x - 1)
  BY <1>3
<1>5. x - 1 \in S
  BY <1>2, <1>4
<1> QED BY <1>3, <1>5

(* A recursive function exists: every shorter one can be extended.         *)
Follows(f, n, first, F) ==
  f[0] = first /\ \A i \in 1..n : f[i] = F[<<i, f[i - 1]>>]

LEMMA RecursionExists ==
  ASSUME NEW L \in Nat, NEW S, NEW first \in S, NEW F \in [(1..L) \X S -> S]
  PROVE  \E f \in [0..L -> S] : Follows(f, L, first, F)
<1> DEFINE Good == {n \in 0..L : \E f \in [0..n -> S] : Follows(f, n, first, F)}
<1>1. 0 \in Good
  <2> DEFINE f == [i \in 0..0 |-> first]
  <2>1. f \in [0..0 -> S] /\ Follows(f, 0, first, F)
    BY DEF Follows
  <2> HIDE DEF f
  <2> QED BY <2>1
<1>2. ASSUME NEW n \in 1..L, n - 1 \in Good PROVE n \in Good
  <2>1. PICK f \in [0..n - 1 -> S] : Follows(f, n - 1, first, F)
    BY <1>2
  <2> DEFINE last == F[<<n, f[n - 1]>>]
             g == [i \in 0..n |-> IF i = n THEN last ELSE f[i]]
  <2>2. last \in S
    <3>1. n - 1 \in 0..n - 1
      OBVIOUS
    <3>2. <<n, f[n - 1]>> \in (1..L) \X S
      BY <3>1
    <3> QED BY <3>2
  <2>3. g \in [0..n -> S] /\ g[n] = last /\ \A i \in 0..n - 1 : g[i] = f[i]
    <3> HIDE DEF last
    <3> QED BY <2>2
  <2> HIDE DEF g
  <2>4. g[0] = first
    BY <2>1, <2>3 DEF Follows
  <2>5. ASSUME NEW i \in 1..n PROVE g[i] = F[<<i, g[i - 1]>>]
    <3>1. i - 1 \in 0..n - 1 /\ g[i - 1] = f[i - 1]
      BY <2>3
    <3>2. CASE i = n
      BY <2>3, <3>1, <3>2
    <3>3. CASE i # n
      <4>1. i \in 1..n - 1 /\ i \in 0..n - 1
        BY <3>3
      <4> QED BY <2>1, <2>3, <3>1, <4>1 DEF Follows
    <3> QED BY <3>2, <3>3
  <2>6. Follows(g, n, first, F)
    BY <2>4, <2>5 DEF Follows
  <2> QED BY <2>3, <2>6
<1> HIDE DEF Good
<1>3. \A n \in 0..L : n \in Good
  BY <1>1, <1>2, StepByStep
<1> QED BY <1>3 DEF Good

-----------------------------------------------------------------------------
(* An open round: the last assistant message makes n calls, d of them are  *)
(* answered, and every earlier round is complete.                          *)
OpenRound(ms, n, d) ==
  /\ InOrder(ms)
  /\ d \in 0..n /\ d < Len(ms)
  /\ ms[Len(ms) - d].calls = n
  /\ \A i \in 1..Len(ms) - d - 1 : i + ms[i].calls < Len(ms) - d

LEMMA MessageKinds ==
  /\ \A r \in Roles : Plain(r) \in Message
  /\ \A t \in BOOLEAN, n \in Nat : Answer(t, n) \in Message
  /\ \A k \in Nat : ToolResult(k) \in Message
  /\ \A r \in Roles : Plain(r).role = r /\ Plain(r).calls = 0
  /\ \A t, n : Answer(t, n).role = "assistant" /\ Answer(t, n).calls = n
  /\ \A k : ToolResult(k).role = "tool" /\ ToolResult(k).calls = 0 /\ ToolResult(k).id = k
BY DEF Plain, Answer, ToolResult, Message, Roles, UserSide

(* Appending, as the provers see it.                                       *)
LEMMA AppendedMessage ==
  ASSUME NEW ms \in Seq(Message), NEW m \in Message
  PROVE  /\ Append(ms, m) \in Seq(Message)
         /\ Len(Append(ms, m)) = Len(ms) + 1
         /\ Append(ms, m)[Len(ms) + 1] = m
         /\ \A i \in 1..Len(ms) : Append(ms, m)[i] = ms[i]
OBVIOUS

LEMMA MessageFields ==
  ASSUME NEW ms \in Seq(Message), NEW i \in 1..Len(ms)
  PROVE  /\ ms[i] \in Message
         /\ ms[i].calls \in Nat /\ ms[i].id \in Nat /\ ms[i].role \in Roles
<1>1. ms[i] \in Message
  OBVIOUS
<1> QED BY <1>1 DEF Message

(* A message may follow when it is the result every unfinished round waits *)
(* for, and a tool message only when a call waits for it.                  *)
LEMMA AppendInOrder ==
  ASSUME NEW ms \in Seq(Message), NEW m \in Message, InOrder(ms),
         \A i \in 1..Len(ms) :
            i + ms[i].calls > Len(ms) => m.role = "tool" /\ m.id = Len(ms) + 1 - i,
         m.role = "tool" =>
            /\ m.id \in 1..Len(ms) /\ m.calls = 0
            /\ ms[Len(ms) + 1 - m.id].calls >= m.id
  PROVE  InOrder(Append(ms, m))
<1> DEFINE L == Len(ms)
           new == Append(ms, m)
<1>1. /\ L \in Nat /\ Len(new) = L + 1 /\ new[L + 1] = m
      /\ \A i \in 1..L : new[i] = ms[i]
  BY AppendedMessage
<1>2. \A i \in 1..L : ms[i].calls \in Nat /\ ms[i].id \in Nat
  BY MessageFields
<1>3. m.calls \in Nat /\ m.id \in Nat
  BY DEF Message
<1> HIDE DEF new
<1>4. RoundsInOrder(new)
  <2> SUFFICES ASSUME NEW i \in 1..L + 1, NEW k \in 1..new[i].calls, i + k <= L + 1
               PROVE  new[i + k].role = "tool" /\ new[i + k].id = k
    BY <1>1 DEF RoundsInOrder
  <2>1. i \in 1..L /\ new[i] = ms[i] /\ k \in Nat
    BY <1>1, <1>2, <1>3
  <2>2. CASE i + k <= L
    <3>1. i + k \in 1..L /\ new[i + k] = ms[i + k]
      BY <1>1, <2>1, <2>2
    <3> QED BY <2>1, <2>2, <3>1 DEF InOrder, RoundsInOrder
  <2>3. CASE i + k = L + 1
    <3>1. i + ms[i].calls > L
      BY <1>1, <1>2, <2>1, <2>3
    <3>2. m.role = "tool" /\ m.id = L + 1 - i
      BY <2>1, <3>1
    <3> QED BY <1>1, <2>1, <2>3, <3>2
  <2> QED BY <1>1, <2>1, <2>2, <2>3
<1>5. NoOrphans(new)
  <2> SUFFICES ASSUME NEW j \in 1..L + 1, new[j].role = "tool"
               PROVE  /\ new[j].id \in 1..(j - 1)
                      /\ new[j].calls = 0
                      /\ new[j - new[j].id].calls >= new[j].id
    BY <1>1 DEF NoOrphans
  <2>1. CASE j \in 1..L
    <3>1. /\ new[j] = ms[j] /\ ms[j].id \in 1..(j - 1) /\ ms[j].calls = 0
          /\ ms[j - ms[j].id].calls >= ms[j].id
      BY <1>1, <2>1 DEF InOrder, NoOrphans
    <3>2. j - ms[j].id \in 1..L
      BY <1>1, <2>1, <3>1
    <3> QED BY <1>1, <3>1, <3>2
  <2>2. CASE j = L + 1
    <3>1. new[j] = m /\ j - m.id \in 1..L
      BY <1>1, <1>3, <2>2
    <3> QED BY <1>1, <1>3, <2>2, <3>1
  <2> QED BY <1>1, <2>1, <2>2
<1>6. InOrder(new)
  BY <1>4, <1>5 DEF InOrder
<1> QED BY <1>6 DEF new

(* A response that makes n calls opens a round of n calls.                 *)
LEMMA AnswerOpensRound ==
  ASSUME NEW ms \in Seq(Message), Closed(ms), NEW t \in BOOLEAN, NEW n \in Nat
  PROVE  OpenRound(Append(ms, Answer(t, n)), n, 0)
<1> DEFINE m == Answer(t, n)
           new == Append(ms, m)
<1>1. m \in Message /\ m.role = "assistant" /\ m.calls = n
  BY MessageKinds
<1> HIDE DEF m
<1>2. /\ Len(new) = Len(ms) + 1 /\ new[Len(ms) + 1] = m /\ Len(ms) \in Nat
      /\ \A i \in 1..Len(ms) : new[i] = ms[i]
  BY <1>1, AppendedMessage
<1>3. \A i \in 1..Len(ms) : ms[i].calls \in Nat /\ i + ms[i].calls <= Len(ms)
  BY MessageFields DEF Closed, Complete
<1>4. InOrder(new)
  BY <1>1, <1>3, AppendInOrder DEF Closed
<1> HIDE DEF new
<1>5. \A i \in 1..Len(new) - 0 - 1 : i + new[i].calls < Len(new) - 0
  BY <1>2, <1>3
<1>6. OpenRound(new, n, 0)
  BY <1>1, <1>2, <1>4, <1>5 DEF OpenRound
<1> QED BY <1>6 DEF new, m

(* What follows the call message of an open round is its results.          *)
LEMMA InsideRound ==
  ASSUME NEW ms \in Seq(Message), NEW n \in Nat, NEW d, OpenRound(ms, n, d),
         NEW i \in 1..Len(ms), i > Len(ms) - d
  PROVE  ms[i].role = "tool" /\ ms[i].calls = 0
<1> DEFINE b == Len(ms) - d
           k == i - b
<1>1. b \in 1..Len(ms) /\ ms[b].calls = n /\ d \in 0..n
  BY DEF OpenRound
<1>2. k \in 1..n /\ b + k = i /\ b + k <= Len(ms)
  BY <1>1
<1>3. ms[b + k].role = "tool"
  <2> HIDE DEF b, k
  <2> QED BY <1>1, <1>2 DEF OpenRound, InOrder, RoundsInOrder
<1>4. ms[i].role = "tool"
  BY <1>2, <1>3
<1> QED BY <1>4 DEF OpenRound, InOrder, NoOrphans

(* A round whose calls are all answered is complete.                       *)
LEMMA AnsweredRoundCloses ==
  ASSUME NEW ms \in Seq(Message), NEW n \in Nat, OpenRound(ms, n, n)
  PROVE  Closed(ms)
<1> DEFINE b == Len(ms) - n
<1>1. b \in 1..Len(ms) /\ ms[b].calls = n /\ Len(ms) = b + n
  BY DEF OpenRound
<1>2. ASSUME NEW i \in 1..Len(ms) PROVE i + ms[i].calls <= Len(ms)
  <2>1. CASE i < b
    <3>1. i \in 1..b - 1
      BY <1>1, <2>1
    <3>2. i + ms[i].calls < b
      BY <3>1 DEF OpenRound
    <3> QED BY <1>1, <3>2, MessageFields
  <2>2. CASE i = b
    BY <1>1, <2>2
  <2>3. CASE i > b
    BY <1>1, <2>3, InsideRound
  <2>4. b \in Nat /\ i \in Nat
    BY <1>1
  <2> QED BY <2>1, <2>2, <2>3, <2>4
<1> QED BY <1>2 DEF Closed, Complete, OpenRound

(* The result of the next call of an open round.                           *)
LEMMA ResultJoinsRound ==
  ASSUME NEW ms \in Seq(Message), NEW n \in Nat, NEW d \in 0..n - 1, OpenRound(ms, n, d)
  PROVE  OpenRound(Append(ms, ToolResult(d + 1)), n, d + 1)
<1> DEFINE b == Len(ms) - d
           m == ToolResult(d + 1)
           new == Append(ms, m)
<1>1. b \in 1..Len(ms) /\ ms[b].calls = n /\ Len(ms) = b + d
  BY DEF OpenRound
<1>2. m \in Message /\ m.role = "tool" /\ m.calls = 0 /\ m.id = d + 1
  BY MessageKinds
<1> HIDE DEF m
<1>3. /\ Len(new) = Len(ms) + 1 /\ new[Len(ms) + 1] = m /\ Len(ms) \in Nat
      /\ \A i \in 1..Len(ms) : new[i] = ms[i]
  BY <1>2, AppendedMessage
<1>4. ASSUME NEW i \in 1..Len(ms), i + ms[i].calls > Len(ms) PROVE i = b
  <2>1. ~(i < b)
    <3>1. SUFFICES ASSUME i < b PROVE FALSE
      OBVIOUS
    <3>2. i \in 1..b - 1
      BY <1>1, <3>1
    <3>3. i + ms[i].calls < b
      BY <3>2 DEF OpenRound
    <3>4. b <= Len(ms) /\ i \in Nat /\ ms[i].calls \in Nat /\ b \in Nat /\ Len(ms) \in Nat
      BY <1>1, MessageFields
    <3> QED BY <1>4, <3>3, <3>4
  <2>2. ~(i > b)
    <3>1. SUFFICES ASSUME i > b PROVE FALSE
      OBVIOUS
    <3>2. ms[i].calls = 0
      BY <1>1, <3>1, InsideRound
    <3> QED BY <1>4, <3>2
  <2>3. b \in Nat /\ i \in Nat
    BY <1>1
  <2> QED BY <2>1, <2>2, <2>3
<1>5. ASSUME NEW i \in 1..Len(ms), i + ms[i].calls > Len(ms)
      PROVE  m.role = "tool" /\ m.id = Len(ms) + 1 - i
  <2>1. i = b
    BY <1>4, <1>5
  <2> QED BY <1>1, <1>2, <2>1
<1>6. /\ m.id \in 1..Len(ms) /\ m.calls = 0
      /\ ms[Len(ms) + 1 - m.id].calls >= m.id
  BY <1>1, <1>2
<1>7. InOrder(new)
  BY <1>2, <1>5, <1>6, AppendInOrder DEF OpenRound
<1> HIDE DEF new
<1>8. \A i \in 1..b - 1 : i + new[i].calls < b
  BY <1>1, <1>3 DEF OpenRound
<1>9. OpenRound(new, n, d + 1)
  <2>1. Len(new) - (d + 1) = b /\ d + 1 \in 0..n /\ d + 1 < Len(new)
    BY <1>1, <1>3
  <2>2. new[b].calls = n
    BY <1>1, <1>3
  <2> QED BY <1>7, <1>8, <2>1, <2>2 DEF OpenRound
<1> QED BY <1>9 DEF new, m

(* A message without calls keeps a conversation closed.                    *)
LEMMA CallFreeStaysClosed ==
  ASSUME NEW ms \in Seq(Message), Closed(ms), NEW m \in Message,
         m.role # "tool", m.calls = 0
  PROVE  Append(ms, m) \in Seq(Message) /\ Closed(Append(ms, m))
<1> DEFINE new == Append(ms, m)
<1>2. /\ new \in Seq(Message) /\ Len(new) = Len(ms) + 1 /\ new[Len(ms) + 1] = m
      /\ Len(ms) \in Nat /\ \A i \in 1..Len(ms) : new[i] = ms[i]
  BY AppendedMessage
<1>3. \A i \in 1..Len(ms) : ms[i].calls \in Nat /\ i + ms[i].calls <= Len(ms)
  BY MessageFields DEF Closed, Complete
<1>4. InOrder(new)
  BY <1>3, AppendInOrder DEF Closed
<1> HIDE DEF new
<1>5. Complete(new)
  BY <1>2, <1>3 DEF Complete
<1>6. new \in Seq(Message) /\ Closed(new)
  BY <1>2, <1>4, <1>5 DEF Closed
<1> QED BY <1>6 DEF new

LEMMA PlainStaysClosed ==
  ASSUME NEW ms \in Seq(Message), Closed(ms), NEW r \in Roles \ {"tool"}
  PROVE  Append(ms, Plain(r)) \in Seq(Message) /\ Closed(Append(ms, Plain(r)))
BY MessageKinds, CallFreeStaysClosed

-----------------------------------------------------------------------------
(* The salvage cut exists, and what it keeps is closed: a prefix of a      *)
(* conversation in order whose rounds are answered has no open round.      *)

LEMMA SalvageCutExists ==
  ASSUME NEW ms \in Seq(Message)
  PROVE  SalvageCut(ms) \in 0..Len(ms) /\ AllAnswered(ms, SalvageCut(ms))
<1> DEFINE S == {n \in 0..Len(ms) : AllAnswered(ms, n)}
<1>1. 0 \in S
  <2>1. AllAnswered(ms, 0)
    BY DEF AllAnswered
  <2> QED BY <2>1
<1>2. \E n \in S : \A m \in S : m <= n
  <2>1. S \subseteq 0..Len(ms) /\ S # {} /\ Len(ms) \in Nat
    BY <1>1
  <2> HIDE DEF S
  <2> QED BY <2>1, GreatestNatural
<1>3. \E n \in 0..Len(ms) :
         AllAnswered(ms, n) /\ \A m \in 0..Len(ms) : AllAnswered(ms, m) => m <= n
  BY <1>2
<1> QED BY <1>3 DEF SalvageCut

LEMMA SalvagedIsClosed ==
  ASSUME NEW ms \in Seq(Message), InOrder(ms)
  PROVE  Salvage(ms) \in Seq(Message) /\ Closed(Salvage(ms))
<1> DEFINE n == SalvageCut(ms)
           cut == SubSeq(ms, 1, n)
<1>1. n \in 0..Len(ms) /\ AllAnswered(ms, n)
  BY SalvageCutExists
<1> HIDE DEF n
<1>2. cut \in Seq(Message) /\ Len(cut) = n /\ \A i \in 1..n : cut[i] = ms[i]
  BY <1>1
<1> HIDE DEF cut
<1>3. \A i \in 1..n : i \in 1..Len(ms) /\ ms[i].calls \in Nat /\ ms[i].id \in Nat
  BY <1>1, MessageFields
<1>4. RoundsInOrder(cut)
  <2> SUFFICES ASSUME NEW i \in 1..n, NEW k \in 1..ms[i].calls, i + k <= n
               PROVE  cut[i + k].role = "tool" /\ cut[i + k].id = k
    BY <1>2 DEF RoundsInOrder
  <2>1. i + k \in 1..n /\ i + k <= Len(ms)
    BY <1>1, <1>3
  <2>2. ms[i + k].role = "tool" /\ ms[i + k].id = k
    BY <1>3, <2>1 DEF InOrder, RoundsInOrder
  <2> QED BY <1>2, <2>1, <2>2
<1>5. NoOrphans(cut)
  <2> SUFFICES ASSUME NEW j \in 1..n, ms[j].role = "tool"
               PROVE  /\ ms[j].id \in 1..(j - 1)
                      /\ ms[j].calls = 0
                      /\ cut[j - ms[j].id].calls >= ms[j].id
    BY <1>2 DEF NoOrphans
  <2>1. /\ ms[j].id \in 1..(j - 1) /\ ms[j].calls = 0
        /\ ms[j - ms[j].id].calls >= ms[j].id
    BY <1>3 DEF InOrder, NoOrphans
  <2>2. j - ms[j].id \in 1..n
    BY <1>1, <2>1
  <2> QED BY <1>2, <2>1, <2>2
<1>6. Complete(cut)
  <2> SUFFICES ASSUME NEW i \in 1..n PROVE i + ms[i].calls <= n
    BY <1>2 DEF Complete
  <2>1. CASE ms[i].calls = 0
    BY <1>1, <2>1
  <2>2. CASE ms[i].calls > 0
    <3> DEFINE c == ms[i].calls
    <3>1. c \in Nat \ {0} /\ i \in 1..Len(ms)
      BY <1>3, <2>2
    <3>2. PICK e \in i..n : /\ \A j \in i + 1..e : ms[j].role = "tool"
                           /\ \A k \in 1..c : \E j \in i + 1..e : ms[j].id = k
      BY <1>1, <2>2 DEF AllAnswered, Answered
    <3>3. PICK j \in i + 1..e : ms[j].id = c
      BY <3>1, <3>2
    <3>4. ASSUME j < i + c PROVE FALSE
      <4> DEFINE k == j - i
      <4>1. k \in 1..c /\ i + k = j /\ i + k <= Len(ms) /\ k < c
        BY <1>1, <3>1, <3>3, <3>4
      <4>2. ms[i + k].id = k
        <5> HIDE DEF k
        <5> QED BY <3>1, <4>1 DEF InOrder, RoundsInOrder
      <4> QED BY <3>1, <3>3, <4>1, <4>2
    <3> QED BY <1>1, <3>1, <3>3, <3>4
  <2> QED BY <1>3, <2>1, <2>2
<1>7. cut \in Seq(Message) /\ Closed(cut)
  BY <1>2, <1>4, <1>5, <1>6 DEF Closed, InOrder
<1> QED BY <1>7 DEF cut, n, Salvage

-----------------------------------------------------------------------------
(* Injection leaves a closed conversation closed: the reminders never come *)
(* between a call and its result.                                          *)
LEMMA InjectedIsClosed ==
  ASSUME NEW ms \in Seq(Message), Closed(ms), NEW n \in Nat, NEW t \in BOOLEAN
  PROVE  Injected(ms, n, t) \in Seq(Message) /\ Closed(Injected(ms, n, t))
<1> DEFINE L == Len(ms)
           p == InjectAt(ms, t)
           new == Injected(ms, n, t)
<1>1. /\ L \in Nat /\ p \in 1..L + 1
      /\ \/ p = L + 1
         \/ p = L /\ L > 0 /\ ms[L].role \in UserSide
  BY DEF InjectAt
<1>2. \A i \in 1..L : ms[i] \in Message /\ ms[i].calls \in Nat /\ ms[i].id \in Nat
                     /\ i + ms[i].calls <= L
  BY MessageFields DEF Closed, Complete
<1>3. /\ Plain("reminder") \in Message /\ Plain("reminder").role = "reminder"
      /\ Plain("reminder").calls = 0
  BY MessageKinds DEF Roles, UserSide
<1>4. /\ new = [k \in 1..L + n |-> IF k < p THEN ms[k] ELSE IF k < p + n THEN Plain("reminder")
                                  ELSE ms[k - n]]
  BY DEF Injected
<1> HIDE DEF p, new
<1>5. ASSUME NEW k \in 1..L + n
      PROVE  /\ new[k] \in Message
             /\ k < p => new[k] = ms[k] /\ k \in 1..L
             /\ k >= p /\ k < p + n => new[k] = Plain("reminder")
             /\ k >= p + n => p = L /\ k = L + n /\ new[k] = ms[L] /\ L \in 1..L
  <2>1. CASE k < p
    BY <1>1, <1>2, <1>4, <2>1
  <2>2. CASE k >= p /\ k < p + n
    BY <1>1, <1>3, <1>4, <2>2
  <2>3. CASE k >= p + n
    <3>1. p = L /\ k = L + n /\ L \in 1..L
      BY <1>1, <2>3
    <3>2. new[k] = ms[k - n] /\ k - n = L
      BY <1>1, <1>4, <2>3, <3>1
    <3> QED BY <1>1, <1>2, <2>3, <3>1, <3>2
  <2> QED BY <1>1, <2>1, <2>2, <2>3
<1>6. new \in Seq(Message) /\ Len(new) = L + n
  <2>1. new \in [1..L + n -> Message]
    BY <1>4, <1>5
  <2> QED BY <1>1, <2>1
(* A moved or inserted message makes no call.                              *)
<1>7. ASSUME NEW k \in 1..L + n, k >= p
      PROVE  new[k].calls = 0 /\ new[k].role # "tool"
  <2>1. CASE k < p + n
    BY <1>3, <1>5, <1>7, <2>1
  <2>2. CASE k >= p + n
    <3>1. p = L /\ new[k] = ms[L] /\ L \in 1..L
      BY <1>5, <2>2
    <3>2. ms[L].role \in UserSide /\ ms[L].calls = 0
      BY <1>1, <1>2, <3>1
    <3> QED BY <3>1, <3>2 DEF UserSide
  <2> QED BY <1>1, <2>1, <2>2
(* The rounds before it end before it.                                     *)
<1>8. ASSUME NEW i \in 1..L + n, i < p
      PROVE  new[i] = ms[i] /\ i \in 1..L /\ i + ms[i].calls < p
  <2>1. new[i] = ms[i] /\ i \in 1..L
    BY <1>5, <1>8
  <2>2. CASE p = L + 1
    BY <1>1, <1>2, <2>1, <2>2
  <2>3. CASE p = L /\ L > 0 /\ ms[L].role \in UserSide
    <3>1. ASSUME i + ms[i].calls = L PROVE FALSE
      <4> DEFINE k == ms[i].calls
      <4>1. k \in 1..ms[i].calls /\ i + k <= L /\ i + k = L
        BY <1>2, <1>8, <2>1, <2>3, <3>1
      <4>2. ms[i + k].role = "tool"
        <5> HIDE DEF k
        <5> QED BY <2>1, <4>1 DEF Closed, InOrder, RoundsInOrder
      <4> QED BY <2>3, <4>1, <4>2 DEF UserSide
    <3> QED BY <1>1, <1>2, <2>1, <2>3, <3>1
  <2> QED BY <1>1, <2>1, <2>2, <2>3
<1>9. RoundsInOrder(new)
  <2> SUFFICES ASSUME NEW i \in 1..L + n, NEW k \in 1..new[i].calls, i + k <= L + n
               PROVE  new[i + k].role = "tool" /\ new[i + k].id = k
    BY <1>6 DEF RoundsInOrder
  <2>1. i < p
    BY <1>1, <1>7
  <2>2. new[i] = ms[i] /\ i \in 1..L /\ i + ms[i].calls < p
    BY <1>8, <2>1
  <2>3. i + k \in 1..L /\ i + k < p
    BY <1>1, <1>2, <2>2
  <2>4. i + k \in 1..L + n
    BY <1>1, <2>3
  <2>5. new[i + k] = ms[i + k]
    BY <1>5, <2>3, <2>4
  <2>6. ms[i + k].role = "tool" /\ ms[i + k].id = k
    BY <2>2, <2>3 DEF Closed, InOrder, RoundsInOrder
  <2> QED BY <2>5, <2>6
<1>10. NoOrphans(new)
  <2> SUFFICES ASSUME NEW j \in 1..L + n, new[j].role = "tool"
               PROVE  /\ new[j].id \in 1..(j - 1)
                      /\ new[j].calls = 0
                      /\ new[j - new[j].id].calls >= new[j].id
    BY <1>6 DEF NoOrphans
  <2>1. j < p
    BY <1>1, <1>7
  <2>2. new[j] = ms[j] /\ j \in 1..L
    BY <1>5, <2>1
  <2>3. /\ ms[j].id \in 1..(j - 1) /\ ms[j].calls = 0
        /\ ms[j - ms[j].id].calls >= ms[j].id
    BY <2>2 DEF Closed, InOrder, NoOrphans
  <2>4. j - ms[j].id \in 1..L + n /\ j - ms[j].id < p
    BY <1>1, <2>1, <2>2, <2>3
  <2>5. new[j - ms[j].id] = ms[j - ms[j].id]
    BY <1>5, <2>4
  <2> QED BY <2>2, <2>3, <2>5
<1>11. Complete(new)
  <2> SUFFICES ASSUME NEW i \in 1..L + n PROVE i + new[i].calls <= L + n
    BY <1>6 DEF Complete
  <2>1. CASE i < p
    <3>1. new[i] = ms[i] /\ i \in 1..L
      BY <1>8, <2>1
    <3> QED BY <1>1, <1>2, <3>1
  <2>2. CASE i >= p
    BY <1>1, <1>7, <2>2
  <2> QED BY <1>1, <2>1, <2>2
<1>12. new \in Seq(Message) /\ Closed(new)
  BY <1>6, <1>9, <1>10, <1>11 DEF Closed, InOrder
<1> QED BY <1>12 DEF new

-----------------------------------------------------------------------------
(* Positions in a conversation are finitely many.                          *)
LEMMA FinitePositions ==
  ASSUME NEW L \in Nat, NEW S, S \subseteq 1..L
  PROVE  IsFiniteSet(S) /\ Cardinality(S) \in Nat
<1>1. IsFiniteSet(1..L)
  BY FS_Interval
<1>2. S \in SUBSET (1..L)
  OBVIOUS
<1>3. IsFiniteSet(S)
  BY <1>1, <1>2, FS_Subset
<1> QED BY <1>3, FS_CardinalityType

(* A finite set of positions is counted through: for every n up to its     *)
(* size some member is the n-th.                                           *)
LEMMA NthMember ==
  ASSUME NEW L \in Nat, NEW S, S \subseteq 1..L, NEW n \in 1..Cardinality(S)
  PROVE  \E i \in S : Cardinality({j \in S : j <= i}) = n
<1> DEFINE Upto(i) == {j \in S : j <= i}
           C(i) == Cardinality(Upto(i))
           T == {i \in 0..L : C(i) >= n}
<1>1. \A j \in S : j \in Nat /\ 1 <= j /\ j <= L
  OBVIOUS
<1>2. Cardinality(S) \in Nat /\ n \in Nat /\ n >= 1
  <2>1. Cardinality(S) \in Nat
    BY FinitePositions
  <2> QED BY <2>1
<1>3. ASSUME NEW i \in 0..L
      PROVE  IsFiniteSet(Upto(i)) /\ C(i) \in Nat
  <2>1. Upto(i) \subseteq 1..L
    OBVIOUS
  <2> HIDE DEF Upto
  <2> QED BY <2>1, FinitePositions
<1>4. C(L) = Cardinality(S)
  <2>1. Upto(L) \subseteq S
    OBVIOUS
  <2>2. S \subseteq Upto(L)
    BY <1>1
  <2>3. Upto(L) = S
    BY <2>1, <2>2
  <2> HIDE DEF Upto
  <2> QED BY <2>3
<1>5. C(0) = 0
  <2>1. ASSUME NEW j \in Upto(0) PROVE FALSE
    <3>1. j \in S /\ j <= 0
      BY <2>1
    <3> QED BY <1>1, <3>1
  <2>2. Upto(0) = {}
    BY <2>1
  <2> HIDE DEF Upto
  <2> QED BY <2>2, FS_EmptySet
<1>6. ASSUME NEW i \in 1..L
      PROVE  C(i) = IF i \in S THEN C(i - 1) + 1 ELSE C(i - 1)
  <2>1. IsFiniteSet(Upto(i - 1)) /\ C(i - 1) \in Nat
    <3>1. i - 1 \in 0..L
      OBVIOUS
    <3> HIDE DEF Upto, C
    <3> QED BY <1>3, <3>1
  <2>2. \A j \in S : j <= i <=> j <= i - 1 \/ j = i
    BY <1>1
  <2>3. CASE i \in S
    <3>1. \A j : j \in Upto(i) <=> j \in Upto(i - 1) \cup {i}
      BY <2>2, <2>3
    <3>2. i \notin Upto(i - 1)
      OBVIOUS
    <3> HIDE DEF Upto
    <3>3. Upto(i) = Upto(i - 1) \cup {i}
      BY <3>1
    <3> QED BY <2>1, <2>3, <3>2, <3>3, FS_AddElement
  <2>4. CASE i \notin S
    <3>1. \A j : j \in Upto(i) <=> j \in Upto(i - 1)
      BY <2>2, <2>4
    <3> HIDE DEF Upto
    <3>2. Upto(i) = Upto(i - 1)
      BY <3>1
    <3> QED BY <2>4, <3>2
  <2> QED BY <2>3, <2>4
<1> HIDE DEF C, Upto
<1>7. T \subseteq Nat /\ L \in T
  BY <1>2, <1>4
<1>8. PICK i \in T : \A j \in T : i <= j
  <2>1. T # {}
    BY <1>7
  <2> HIDE DEF T
  <2> QED BY <1>7, <2>1, LeastNatural
<1>9. i \in 0..L /\ C(i) >= n
  BY <1>8
<1>10. i \in 1..L /\ i - 1 \in 0..L
  BY <1>2, <1>5, <1>9
<1>11. i - 1 \notin T
  <2>1. ~ (i <= i - 1)
    BY <1>10
  <2> HIDE DEF T
  <2> QED BY <1>8, <2>1
<1>12. C(i) \in Nat /\ C(i - 1) \in Nat /\ C(i - 1) < n
  BY <1>2, <1>3, <1>9, <1>10, <1>11
<1>13. i \in S /\ C(i) = n
  BY <1>2, <1>6, <1>9, <1>10, <1>12
<1> QED BY <1>13 DEF C, Upto

(* A compacted conversation has no tool round at all.                      *)
LEMMA CompactedIsClosed ==
  ASSUME NEW ms \in Seq(Message), NEW r \in BOOLEAN
  PROVE  Compacted(ms, r) \in Seq(Message) /\ Closed(Compacted(ms, r))
<1> DEFINE n == Cardinality(Kept(ms))
           last == n + IF r THEN 2 ELSE 1
           RoleAt(k) == IF k = 1 THEN "frame" ELSE IF k = n + 2 THEN "resume"
                        ELSE ms[NthKept(ms, k - 1)].role
           new == Compacted(ms, r)
<1>1. Kept(ms) \subseteq 1..Len(ms) /\ Len(ms) \in Nat
  BY DEF Kept
<1>2. n \in Nat
  BY <1>1, FinitePositions
<1>3. new = [k \in 1..last |-> Plain(RoleAt(k))]
  BY DEF Compacted
<1>4. ASSUME NEW k \in 1..last PROVE RoleAt(k) \in UserSide
  <2>1. CASE k = 1 \/ k = n + 2
    BY <2>1 DEF UserSide
  <2>2. CASE k # 1 /\ k # n + 2
    <3>1. k - 1 \in 1..n
      BY <1>2, <2>2
    <3>2. \E i \in Kept(ms) : Cardinality({j \in Kept(ms) : j <= i}) = k - 1
      BY <1>1, <3>1, NthMember
    <3>3. NthKept(ms, k - 1) \in Kept(ms)
      BY <3>2 DEF NthKept
    <3>4. ms[NthKept(ms, k - 1)].role \in {"user", "reminder"}
      BY <3>3 DEF Kept, Worded, InLastBatch
    <3> QED BY <2>2, <3>4 DEF UserSide
  <2> QED BY <2>1, <2>2
<1>5. last \in Nat
  BY <1>2
<1> HIDE DEF RoleAt, last, new, n
<1>6. ASSUME NEW k \in 1..last
      PROVE  new[k] \in Message /\ new[k].calls = 0 /\ new[k].role # "tool"
  <2>1. new[k] = Plain(RoleAt(k))
    BY <1>3
  <2>2. RoleAt(k) \in Roles /\ RoleAt(k) # "tool"
    BY <1>4 DEF UserSide, Roles
  <2> QED BY <2>1, <2>2, MessageKinds
<1>7. new \in Seq(Message) /\ Len(new) = last
  <2>1. new \in [1..last -> Message]
    BY <1>3, <1>6
  <2> QED BY <1>5, <2>1
<1>8. Closed(new)
  BY <1>5, <1>6, <1>7 DEF Closed, InOrder, RoundsInOrder, NoOrphans, Complete
<1> QED BY <1>7, <1>8 DEF new

(* The ratio is a natural number of percent.                               *)
LEMMA NaturalProduct ==
  ASSUME NEW a \in Nat, NEW b \in Nat
  PROVE  a * b \in Nat
OBVIOUS

LEMMA RatioIsNatural ==
  ASSUME NEW ms \in Seq(Message)
  PROVE  Ratio(ms) \in Nat
<1>1. ASSUME NEW r \in Roles PROVE Load(ms, r) \in Nat
  <2>1. CountOf(ms, r) \in Nat
    <3>1. {i \in 1..Len(ms) : ms[i].role = r} \subseteq 1..Len(ms) /\ Len(ms) \in Nat
      OBVIOUS
    <3> QED BY <3>1, FinitePositions DEF CountOf
  <2>2. Weight[r] \in Nat
    BY WeightAssumption
  <2> QED BY <2>1, <2>2, NaturalProduct DEF Load
<1>2. UserSide \cup {"assistant", "tool"} = Roles
  BY DEF Roles
<1>3. /\ Load(ms, "user") \in Nat /\ Load(ms, "reminder") \in Nat /\ Load(ms, "hook") \in Nat
      /\ Load(ms, "frame") \in Nat /\ Load(ms, "resume") \in Nat /\ Load(ms, "nudge") \in Nat
      /\ Load(ms, "assistant") \in Nat /\ Load(ms, "tool") \in Nat
  BY <1>1, <1>2 DEF UserSide
<1> QED BY <1>3 DEF Ratio

-----------------------------------------------------------------------------
(* Counting messages: what the steps of a run do to the number of prompts  *)
(* and to the nudges since the last one that resets them.                  *)

(* Positions matched one to one are equally many.                          *)
LEMMA MatchedPositions ==
  ASSUME NEW L \in Nat, NEW S, S \subseteq 1..L, NEW T, NEW f \in [S -> T],
         \A x, y \in S : f[x] = f[y] => x = y,
         \A t \in T : \E x \in S : f[x] = t
  PROVE  Cardinality(T) = Cardinality(S)
<1>1. IsFiniteSet(S)
  BY FinitePositions
<1>2. f \in Bijection(S, T)
  BY DEF Bijection, Injection, Surjection, IsInjective
<1>3. ExistsBijection(S, T)
  BY <1>2 DEF ExistsBijection
<1> QED BY <1>1, <1>3, FS_Bijection

LEMMA AppendedPrompts ==
  ASSUME NEW ms \in Seq(Message), NEW m \in Message, m.role # "user"
  PROVE  WordedPrompts(Append(ms, m)) = WordedPrompts(ms)
<1> DEFINE new == Append(ms, m)
<1>1. /\ Len(new) = Len(ms) + 1 /\ new[Len(ms) + 1] = m /\ Len(ms) \in Nat
      /\ \A i \in 1..Len(ms) : new[i] = ms[i]
  BY AppendedMessage
<1> HIDE DEF new
<1>2. \A i \in 1..Len(new) : Worded(new, i) => i \in 1..Len(ms) /\ Worded(ms, i)
  BY <1>1 DEF Worded
<1>3. \A i \in 1..Len(ms) : Worded(ms, i) => i \in 1..Len(new) /\ Worded(new, i)
  BY <1>1 DEF Worded
<1>4. {i \in 1..Len(new) : Worded(new, i)} = {i \in 1..Len(ms) : Worded(ms, i)}
  BY <1>2, <1>3
<1> QED BY <1>4 DEF WordedPrompts, new

(* A message that is neither a nudge nor a reset leaves the recent nudges  *)
(* alone, a reset forgets them, and a nudge is one more.                   *)
LEMMA AppendedNudges ==
  ASSUME NEW ms \in Seq(Message), NEW m \in Message
  PROVE  /\ m.role \notin Forgets \cup {"nudge"} =>
              RecentNudges(Append(ms, m)) = RecentNudges(ms)
         /\ m.role \in Forgets => RecentNudges(Append(ms, m)) = {}
         /\ m.role = "nudge" =>
              Cardinality(RecentNudges(Append(ms, m))) = Cardinality(RecentNudges(ms)) + 1
<1> DEFINE L == Len(ms)
           new == Append(ms, m)
<1>1. /\ Len(new) = L + 1 /\ new[L + 1] = m /\ L \in Nat
      /\ \A i \in 1..L : new[i] = ms[i]
  BY AppendedMessage
<1> HIDE DEF new
<1>2. ASSUME NEW i \in 1..L, m.role \notin Forgets
      PROVE  i \in RecentNudges(new) <=> i \in RecentNudges(ms)
  <2>1. i \in 1..L + 1 /\ new[i] = ms[i]
    BY <1>1
  <2>2. (\A j \in i + 1..L + 1 : new[j].role \notin Forgets)
        <=> (\A j \in i + 1..L : ms[j].role \notin Forgets)
    BY <1>1, <1>2
  <2> QED BY <1>1, <2>1, <2>2 DEF RecentNudges
<1>3. RecentNudges(new) \subseteq 1..L + 1 /\ RecentNudges(ms) \subseteq 1..L
  BY <1>1 DEF RecentNudges
<1>4. L + 1 \in RecentNudges(new) <=> m.role = "nudge"
  BY <1>1 DEF RecentNudges
<1>5. CASE m.role \notin Forgets \cup {"nudge"}
  <2>1. m.role \notin Forgets /\ m.role # "nudge"
    BY <1>5
  <2>2. L + 1 \notin RecentNudges(new)
    BY <1>4, <2>1
  <2>3. \A i \in 1..L + 1 : i \in 1..L \/ i = L + 1
    BY <1>1
  <2>4. RecentNudges(new) \subseteq 1..L
    BY <1>3, <2>2, <2>3
  <2>5. \A i \in 1..L : i \in RecentNudges(new) <=> i \in RecentNudges(ms)
    BY <1>2, <2>1
  <2>6. RecentNudges(new) = RecentNudges(ms)
    BY <1>3, <2>4, <2>5
  <2> QED BY <2>1, <2>6 DEF new
<1>6. CASE m.role \in Forgets
  <2>1. \A i \in 1..L : i \notin RecentNudges(new)
    BY <1>1, <1>6 DEF RecentNudges
  <2>2. m.role # "nudge"
    BY <1>6 DEF Forgets
  <2> QED BY <1>1, <1>3, <1>4, <1>6, <2>1, <2>2 DEF new, Forgets
<1>7. CASE m.role = "nudge"
  <2>1. m.role \notin Forgets
    BY <1>7 DEF Forgets
  <2>2. RecentNudges(new) = RecentNudges(ms) \cup {L + 1}
    BY <1>1, <1>2, <1>3, <1>4, <1>7, <2>1
  <2>3. L + 1 \notin RecentNudges(ms)
    BY <1>1, <1>3
  <2>4. IsFiniteSet(RecentNudges(ms))
    BY <1>1, <1>3, FinitePositions
  <2>5. Cardinality(RecentNudges(new)) = Cardinality(RecentNudges(ms)) + 1
    BY <2>2, <2>3, <2>4, FS_AddElement
  <2> QED BY <1>7, <2>1, <2>5 DEF new
<1> QED BY <1>5, <1>6, <1>7

(* Where injection puts the i-th message.                                  *)
ShiftedTo(ms, n, t, i) == IF i < InjectAt(ms, t) THEN i ELSE i + n

LEMMA InjectedPlaces ==
  ASSUME NEW ms \in Seq(Message), NEW n \in Nat, NEW t \in BOOLEAN
  PROVE  /\ Len(Injected(ms, n, t)) = Len(ms) + n
         /\ \A i \in 1..Len(ms) :
              /\ ShiftedTo(ms, n, t, i) \in 1..Len(ms) + n
              /\ Injected(ms, n, t)[ShiftedTo(ms, n, t, i)] = ms[i]
         /\ \A i, j \in 1..Len(ms) :
              i < j <=> ShiftedTo(ms, n, t, i) < ShiftedTo(ms, n, t, j)
         /\ \A k \in 1..Len(ms) + n :
              \/ Injected(ms, n, t)[k].role = "reminder"
              \/ \E i \in 1..Len(ms) : ShiftedTo(ms, n, t, i) = k
<1> DEFINE L == Len(ms)
           p == InjectAt(ms, t)
           new == Injected(ms, n, t)
           To(i) == IF i < p THEN i ELSE i + n
<1>1. L \in Nat /\ p \in 1..L + 1
  BY DEF InjectAt
<1>2. /\ new = [k \in 1..L + n |-> IF k < p THEN ms[k] ELSE IF k < p + n THEN Plain("reminder")
                                  ELSE ms[k - n]]
  BY DEF Injected
<1>3. Plain("reminder").role = "reminder"
  BY MessageKinds DEF Roles, UserSide
<1>4. \A i : ShiftedTo(ms, n, t, i) = To(i)
  BY DEF ShiftedTo
<1> HIDE DEF p, new
<1>5. Len(new) = L + n
  BY <1>1, <1>2
<1>6. ASSUME NEW i \in 1..L
      PROVE  To(i) \in 1..L + n /\ new[To(i)] = ms[i]
  <2>1. CASE i < p
    BY <1>1, <1>2, <2>1
  <2>2. CASE i >= p
    <3>1. i + n \in 1..L + n /\ i + n >= p + n /\ (i + n) - n = i /\ ~ (i + n < p)
      BY <1>1, <2>2
    <3>2. new[i + n] = ms[(i + n) - n]
      BY <1>1, <1>2, <3>1
    <3> QED BY <1>1, <2>2, <3>1, <3>2
  <2> QED BY <1>1, <2>1, <2>2
<1>7. \A i, j \in 1..L : i < j <=> To(i) < To(j)
  BY <1>1
<1>8. ASSUME NEW k \in 1..L + n
      PROVE  new[k].role = "reminder" \/ \E i \in 1..L : To(i) = k
  <2>1. CASE k < p
    <3>1. k \in 1..L /\ To(k) = k
      BY <1>1, <2>1
    <3> QED BY <3>1
  <2>2. CASE k >= p /\ k < p + n
    BY <1>1, <1>2, <1>3, <2>2
  <2>3. CASE k >= p + n
    <3>1. k - n \in 1..L /\ To(k - n) = k
      BY <1>1, <2>3
    <3> QED BY <3>1
  <2> QED BY <1>1, <2>1, <2>2, <2>3
<1> HIDE DEF To
<1>9. /\ \A i \in 1..L : ShiftedTo(ms, n, t, i) \in 1..L + n /\ new[ShiftedTo(ms, n, t, i)] = ms[i]
      /\ \A i, j \in 1..L : i < j <=> ShiftedTo(ms, n, t, i) < ShiftedTo(ms, n, t, j)
      /\ \A k \in 1..L + n :
           new[k].role = "reminder" \/ \E i \in 1..L : ShiftedTo(ms, n, t, i) = k
  BY <1>4, <1>6, <1>7, <1>8
<1> QED BY <1>5, <1>9 DEF new

(* Injection moves the messages it finds and adds only reminders.          *)
LEMMA InjectedPrompts ==
  ASSUME NEW ms \in Seq(Message), NEW n \in Nat, NEW t \in BOOLEAN
  PROVE  WordedPrompts(Injected(ms, n, t)) = WordedPrompts(ms)
<1> DEFINE L == Len(ms)
           new == Injected(ms, n, t)
           To(i) == ShiftedTo(ms, n, t, i)
           S == {i \in 1..L : Worded(ms, i)}
           T == {k \in 1..L + n : Worded(new, k)}
           f == [i \in S |-> To(i)]
<1>1. /\ L \in Nat /\ Len(new) = L + n
      /\ \A i \in 1..L : To(i) \in 1..L + n /\ new[To(i)] = ms[i]
      /\ \A i, j \in 1..L : i < j <=> To(i) < To(j)
      /\ \A k \in 1..L + n : new[k].role = "reminder" \/ \E i \in 1..L : To(i) = k
  BY InjectedPlaces
<1> HIDE DEF L, new, To
<1>2. f \in [S -> T]
  BY <1>1 DEF Worded
<1>3. \A x, y \in S : f[x] = f[y] => x = y
  <2>1. \A x, y \in 1..L : To(x) = To(y) => x = y
    BY <1>1
  <2> QED BY <2>1
<1>4. \A k \in T : \E x \in S : f[x] = k
  BY <1>1 DEF Worded
<1>5. S \subseteq 1..L
  OBVIOUS
<1> HIDE DEF f, S, T
<1>6. Cardinality(T) = Cardinality(S)
  BY <1>1, <1>2, <1>3, <1>4, <1>5, MatchedPositions
<1> QED BY <1>1, <1>6 DEF WordedPrompts, S, T, L, new

LEMMA InjectedNudges ==
  ASSUME NEW ms \in Seq(Message), NEW n \in Nat, NEW t \in BOOLEAN
  PROVE  Cardinality(RecentNudges(Injected(ms, n, t))) = Cardinality(RecentNudges(ms))
<1> DEFINE L == Len(ms)
           new == Injected(ms, n, t)
           To(i) == ShiftedTo(ms, n, t, i)
           S == RecentNudges(ms)
           T == RecentNudges(new)
           f == [i \in S |-> To(i)]
<1>1. /\ L \in Nat /\ Len(new) = L + n
      /\ \A i \in 1..L : To(i) \in 1..L + n /\ new[To(i)] = ms[i]
      /\ \A i, j \in 1..L : i < j <=> To(i) < To(j)
      /\ \A k \in 1..L + n : new[k].role = "reminder" \/ \E i \in 1..L : To(i) = k
  BY InjectedPlaces
<1> HIDE DEF new, To
<1>2. S \subseteq 1..L /\ T \subseteq 1..L + n
  BY <1>1 DEF RecentNudges
<1>3. ASSUME NEW i \in 1..L PROVE i \in S <=> To(i) \in T
  <2>1. ASSUME \A j \in i + 1..L : ms[j].role \notin Forgets,
               NEW k \in To(i) + 1..L + n
        PROVE  new[k].role \notin Forgets
    <3>1. k \in 1..L + n /\ To(i) < k
      BY <1>1
    <3>2. CASE new[k].role = "reminder"
      BY <3>2 DEF Forgets
    <3>3. ASSUME NEW j \in 1..L, To(j) = k PROVE new[k].role \notin Forgets
      <4>1. j \in i + 1..L
        BY <1>1, <3>1, <3>3
      <4> QED BY <1>1, <2>1, <3>3, <4>1
    <3> QED BY <1>1, <3>1, <3>2, <3>3
  <2>2. ASSUME \A k \in To(i) + 1..L + n : new[k].role \notin Forgets,
               NEW j \in i + 1..L
        PROVE  ms[j].role \notin Forgets
    <3>1. j \in 1..L /\ i < j
      BY <1>1
    <3>2. To(j) \in To(i) + 1..L + n /\ new[To(j)] = ms[j]
      BY <1>1, <3>1
    <3> QED BY <2>2, <3>2
  <2>3. To(i) \in 1..L + n /\ new[To(i)] = ms[i]
    BY <1>1
  <2> QED BY <1>1, <2>1, <2>2, <2>3 DEF RecentNudges
<1>4. \A k \in T : new[k].role = "nudge"
  BY DEF RecentNudges
<1> HIDE DEF S, T
<1>5. f \in [S -> T]
  BY <1>2, <1>3
<1>6. \A x, y \in S : f[x] = f[y] => x = y
  <2>1. \A x, y \in 1..L : To(x) = To(y) => x = y
    BY <1>1
  <2> QED BY <1>2, <2>1
<1>7. \A k \in T : \E x \in S : f[x] = k
  BY <1>1, <1>2, <1>3, <1>4
<1> HIDE DEF f
<1>8. Cardinality(T) = Cardinality(S)
  BY <1>1, <1>2, <1>5, <1>6, <1>7, MatchedPositions
<1> QED BY <1>8 DEF S, T, new

(* How many of the kept messages there are up to the i-th.                 *)
Rank(ms, i) == Cardinality({j \in Kept(ms) : j <= i})

(* Each kept message has a rank of its own, and every rank has a message.  *)
LEMMA KeptByRank ==
  ASSUME NEW ms \in Seq(Message)
  PROVE  /\ \A i \in Kept(ms) : Rank(ms, i) \in 1..Cardinality(Kept(ms))
         /\ \A i, j \in Kept(ms) : i < j => Rank(ms, i) < Rank(ms, j)
         /\ \A n \in 1..Cardinality(Kept(ms)) :
              NthKept(ms, n) \in Kept(ms) /\ Rank(ms, NthKept(ms, n)) = n
<1> DEFINE K == Kept(ms)
           Upto(i) == {j \in K : j <= i}
<1>1. K \subseteq 1..Len(ms) /\ Len(ms) \in Nat
  BY DEF Kept
<1>2. \A i \in K : i \in Nat
  BY <1>1
<1> HIDE DEF K
<1>3. ASSUME NEW i PROVE IsFiniteSet(Upto(i)) /\ Cardinality(Upto(i)) \in Nat
  <2>1. Upto(i) \subseteq 1..Len(ms)
    BY <1>1
  <2> QED BY <1>1, <2>1, FinitePositions
<1>4. IsFiniteSet(K) /\ Cardinality(K) \in Nat
  BY <1>1, FinitePositions
<1>5. ASSUME NEW i \in K PROVE Cardinality(Upto(i)) \in 1..Cardinality(K)
  <2>1. Upto(i) \in SUBSET K /\ i \in Upto(i)
    BY <1>2
  <2> HIDE DEF Upto
  <2>2. Cardinality(Upto(i)) <= Cardinality(K)
    BY <1>4, <2>1, FS_Subset
  <2>3. Cardinality(Upto(i)) # 0
    BY <1>3, <2>1, FS_EmptySet
  <2> QED BY <1>3, <1>4, <2>2, <2>3
<1>6. ASSUME NEW i \in K, NEW j \in K, i < j
      PROVE  Cardinality(Upto(i)) < Cardinality(Upto(j))
  <2>1. Upto(i) \in SUBSET Upto(j)
    BY <1>2, <1>6
  <2>2. j \in Upto(j) /\ j \notin Upto(i)
    BY <1>2, <1>6
  <2> HIDE DEF Upto
  <2>3. /\ Cardinality(Upto(i)) <= Cardinality(Upto(j))
        /\ Cardinality(Upto(j)) = Cardinality(Upto(i)) => Upto(j) = Upto(i)
    BY <1>3, <2>1, FS_Subset
  <2> QED BY <1>3, <2>2, <2>3
<1>7. ASSUME NEW n \in 1..Cardinality(K)
      PROVE  NthKept(ms, n) \in K /\ Cardinality(Upto(NthKept(ms, n))) = n
  <2>1. \E i \in K : Cardinality({j \in K : j <= i}) = n
    BY <1>1, <1>7, NthMember
  <2> QED BY <2>1 DEF NthKept, K
<1> QED BY <1>5, <1>6, <1>7 DEF Rank, K

(* What stands where in a compacted conversation.                          *)
LEMMA CompactedPlaces ==
  ASSUME NEW ms \in Seq(Message), NEW r \in BOOLEAN
  PROVE  /\ Cardinality(Kept(ms)) \in Nat
         /\ Len(Compacted(ms, r)) = Cardinality(Kept(ms)) + IF r THEN 2 ELSE 1
         /\ Compacted(ms, r)[1].role = "frame"
         /\ r => Compacted(ms, r)[Cardinality(Kept(ms)) + 2].role = "resume"
         /\ \A k \in 1..Cardinality(Kept(ms)) :
              Compacted(ms, r)[k + 1].role = ms[NthKept(ms, k)].role
         /\ \A k \in 1..Len(Compacted(ms, r)) : Compacted(ms, r)[k].text
<1> DEFINE n == Cardinality(Kept(ms))
           last == n + IF r THEN 2 ELSE 1
           RoleAt(k) == IF k = 1 THEN "frame" ELSE IF k = n + 2 THEN "resume"
                        ELSE ms[NthKept(ms, k - 1)].role
           new == Compacted(ms, r)
<1>1. Kept(ms) \subseteq 1..Len(ms) /\ Len(ms) \in Nat
  BY DEF Kept
<1>2. n \in Nat /\ last \in Nat /\ n + 1 <= last /\ (r => last = n + 2)
  BY <1>1, FinitePositions
<1>3. new = [k \in 1..last |-> Plain(RoleAt(k))]
  BY DEF Compacted
<1> HIDE DEF n, new, last
<1>4. Len(new) = last
  BY <1>2, <1>3
<1>5. \A k \in 1..last : new[k].role = RoleAt(k) /\ new[k].text
  BY <1>3 DEF Plain
<1>6. new[1].role = "frame" /\ (r => new[n + 2].role = "resume")
  BY <1>2, <1>5
<1>7. ASSUME NEW k \in 1..n PROVE new[k + 1].role = ms[NthKept(ms, k)].role
  <2>1. k + 1 \in 1..last /\ k + 1 # 1 /\ k + 1 # n + 2 /\ (k + 1) - 1 = k
    BY <1>2
  <2> QED BY <1>5, <2>1
<1> HIDE DEF RoleAt
<1> QED BY <1>2, <1>4, <1>5, <1>6, <1>7 DEF n, new, last

(* A compaction keeps every prompt that has text, once.                    *)
LEMMA CompactedPrompts ==
  ASSUME NEW ms \in Seq(Message)
  PROVE  WordedPrompts(Compacted(ms, TRUE)) = WordedPrompts(ms)
<1> DEFINE L == Len(ms)
           n == Cardinality(Kept(ms))
           new == Compacted(ms, TRUE)
           S == {i \in 1..L : Worded(ms, i)}
           T == {k \in 1..n + 2 : Worded(new, k)}
           f == [i \in S |-> Rank(ms, i) + 1]
<1>1. /\ n \in Nat /\ Len(new) = n + 2 /\ new[1].role = "frame" /\ new[n + 2].role = "resume"
      /\ \A k \in 1..n : new[k + 1].role = ms[NthKept(ms, k)].role
      /\ \A k \in 1..Len(new) : new[k].text
  BY CompactedPlaces
<1>2. /\ \A i \in Kept(ms) : Rank(ms, i) \in 1..n
      /\ \A i, j \in Kept(ms) : i < j => Rank(ms, i) < Rank(ms, j)
      /\ \A k \in 1..n : NthKept(ms, k) \in Kept(ms) /\ Rank(ms, NthKept(ms, k)) = k
  BY KeptByRank
<1>3. S \subseteq Kept(ms) /\ Kept(ms) \subseteq 1..L /\ L \in Nat
  BY DEF Kept
<1> HIDE DEF n, new
<1>4. \A i, j \in Kept(ms) : Rank(ms, i) = Rank(ms, j) => i = j
  BY <1>2, <1>3
<1>5. \A i \in Kept(ms) : NthKept(ms, Rank(ms, i)) = i
  BY <1>2, <1>4
<1>6. f \in [S -> T]
  <2>1. ASSUME NEW i \in S PROVE Rank(ms, i) + 1 \in T
    <3>1. Rank(ms, i) \in 1..n /\ NthKept(ms, Rank(ms, i)) = i
      BY <1>2, <1>3, <1>5
    <3> QED BY <1>1, <3>1 DEF Worded
  <2> QED BY <2>1
<1>7. \A x, y \in S : f[x] = f[y] => x = y
  <2>1. \A x \in S : x \in Kept(ms) /\ Rank(ms, x) \in Int /\ f[x] = Rank(ms, x) + 1
    BY <1>1, <1>2, <1>3
  <2> HIDE DEF f, S
  <2>2. \A x, y \in S : f[x] = f[y] => Rank(ms, x) = Rank(ms, y)
    BY <2>1
  <2> QED BY <1>4, <2>1, <2>2
<1>8. ASSUME NEW k \in T PROVE \E x \in S : f[x] = k
  <2>1. k # 1 /\ k # n + 2 /\ k \in 1..n + 2
    BY <1>1 DEF Worded
  <2>2. k - 1 \in 1..n /\ (k - 1) + 1 = k
    BY <1>1, <2>1
  <2>3. /\ NthKept(ms, k - 1) \in Kept(ms) /\ Rank(ms, NthKept(ms, k - 1)) = k - 1
        /\ ms[NthKept(ms, k - 1)].role = "user"
    BY <1>1, <1>2, <2>2 DEF Worded
  <2>4. NthKept(ms, k - 1) \in S
    BY <1>3, <2>3 DEF Kept, InLastBatch
  <2> QED BY <2>2, <2>3, <2>4
<1>9. S \subseteq 1..L
  OBVIOUS
<1> HIDE DEF f, S, T
<1>10. Cardinality(T) = Cardinality(S)
  BY <1>3, <1>6, <1>7, <1>8, <1>9, MatchedPositions
<1> QED BY <1>1, <1>10 DEF WordedPrompts, S, T, new

(* The frame a compaction begins with, and nothing after it, is a reset:   *)
(* no nudge survives.                                                      *)
LEMMA CompactedNudges ==
  ASSUME NEW ms \in Seq(Message)
  PROVE  RecentNudges(Compacted(ms, TRUE)) = {}
<1> DEFINE n == Cardinality(Kept(ms))
           new == Compacted(ms, TRUE)
<1>1. /\ n \in Nat /\ Len(new) = n + 2 /\ new[1].role = "frame" /\ new[n + 2].role = "resume"
      /\ \A k \in 1..n : new[k + 1].role = ms[NthKept(ms, k)].role
  BY CompactedPlaces
<1>2. \A k \in 1..n : ms[NthKept(ms, k)].role \in {"user", "reminder"}
  BY KeptByRank DEF Kept, Worded, InLastBatch
<1> HIDE DEF n, new
<1>3. ASSUME NEW i \in 1..n + 2 PROVE new[i].role # "nudge"
  <2>1. CASE i = 1 \/ i = n + 2
    BY <1>1, <2>1
  <2>2. CASE i # 1 /\ i # n + 2
    <3>1. i - 1 \in 1..n /\ (i - 1) + 1 = i
      BY <1>1, <2>2
    <3>2. new[i].role \in {"user", "reminder"}
      BY <1>1, <1>2, <3>1
    <3> QED BY <3>2
  <2> QED BY <2>1, <2>2
<1> QED BY <1>1, <1>3 DEF RecentNudges, new
=============================================================================
