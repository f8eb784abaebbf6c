--------------------------- MODULE AlgorithmProofs ---------------------------
(* What the functions on conversations and texts compute, for every one of *)
(* them: the scan of salvage_messages cuts where it should, compacting     *)
(* what a compaction left changes nothing, the stream of a reply leaves    *)
(* out its final check and nothing else, and a saved conversation is read  *)
(* back as it was.                                                         *)
EXTENDS MCConversation, DeltaFilter, SavedFormat, ConversationProofs

-----------------------------------------------------------------------------
(* The scan, message by message.  A recursive function is what its         *)
(* definition says once one exists: every shorter one can be extended.     *)
ScanTo(ms, n, f) ==
  f = [i \in 0..n |-> IF i = 0 THEN ScanStart ELSE ScanStep(ms, f[i - 1], i)]

LEMMA ScanExists ==
  ASSUME NEW ms, NEW L \in Nat
  PROVE  \E f : ScanTo(ms, L, f)
<1> DEFINE Bad == {n \in Nat : ~ \E f : ScanTo(ms, n, f)}
<1>1. 0 \notin Bad
  <2> DEFINE f == [i \in 0..0 |-> ScanStart]
  <2>1. ScanTo(ms, 0, f)
    BY DEF ScanTo
  <2> QED BY <2>1
<1>2. ASSUME NEW n \in Nat, n \notin Bad PROVE n + 1 \notin Bad
  <2>1. PICK f : ScanTo(ms, n, f)
    BY <1>2
  <2> DEFINE g == [i \in 0..n + 1 |-> IF i = n + 1 THEN ScanStep(ms, f[n], n + 1) ELSE f[i]]
  <2>2. \A i \in 0..n : g[i] = f[i]
    OBVIOUS
  <2>3. \A i \in 0..n : f[i] = IF i = 0 THEN ScanStart ELSE ScanStep(ms, f[i - 1], i)
    BY <2>1 DEF ScanTo
  <2>4. ASSUME NEW i \in 0..n + 1
        PROVE  g[i] = IF i = 0 THEN ScanStart ELSE ScanStep(ms, g[i - 1], i)
    <3>1. CASE i = n + 1
      <4>1. i # 0 /\ i - 1 = n /\ n \in 0..n
        BY <3>1
      <4>2. g[i] = ScanStep(ms, f[n], n + 1)
        BY <3>1
      <4>3. g[i - 1] = f[n]
        BY <2>2, <4>1
      <4> QED BY <3>1, <4>1, <4>2, <4>3
    <3>2. CASE i # n + 1
      <4>1. i \in 0..n /\ (i # 0 => i - 1 \in 0..n)
        BY <3>2
      <4> HIDE DEF g
      <4> QED BY <2>2, <2>3, <4>1
    <3> QED BY <3>1, <3>2
  <2>5. ScanTo(ms, n + 1, g)
    BY <2>4 DEF ScanTo
  <2> HIDE DEF g
  <2> QED BY <2>5
<1> HIDE DEF Bad
<1>3. Bad = {}
  <2> SUFFICES ASSUME Bad # {} PROVE FALSE
    OBVIOUS
  <2>1. Bad \subseteq Nat
    BY DEF Bad
  <2>2. PICK x \in Bad : \A y \in Bad : x <= y
    BY <2>1, LeastNatural
  <2>3. x \in Nat /\ x # 0
    BY <1>1, <2>1
  <2>4. x - 1 \in Nat /\ x - 1 \notin Bad /\ (x - 1) + 1 = x
    BY <2>2, <2>3
  <2> QED BY <1>2, <2>4
<1> QED BY <1>3 DEF Bad

LEMMA ScannedStep ==
  ASSUME NEW ms \in Seq(Message)
  PROVE  /\ Scanned(ms)[0] = ScanStart
         /\ \A i \in 1..Len(ms) : Scanned(ms)[i] = ScanStep(ms, Scanned(ms)[i - 1], i)
<1> DEFINE L == Len(ms)
<1>1. L \in Nat
  OBVIOUS
<1>2. Scanned(ms) = CHOOSE f : ScanTo(ms, L, f)
  BY DEF Scanned, ScanTo
<1>3. ScanTo(ms, L, Scanned(ms))
  BY <1>1, <1>2, ScanExists
<1>4. Scanned(ms) = [i \in 0..L |-> IF i = 0 THEN ScanStart ELSE ScanStep(ms, Scanned(ms)[i - 1], i)]
  BY <1>3 DEF ScanTo
<1> QED BY <1>1, <1>4

-----------------------------------------------------------------------------
(* What the scan knows after the first i messages of a conversation whose  *)
(* rounds are in order: nothing is open and every round so far is          *)
(* answered, or the round at b is, and the calls it waits for are the ones *)
(* whose results would come next.                                          *)
AnsweredBefore(ms, n) == \A h \in 1..n : h + ms[h].calls <= n
Scanning(o, left) == [open |-> o, left |-> left, cut |-> NoCut]
ScanKnows(ms, i, acc) ==
  \/ acc = ScanStart /\ AnsweredBefore(ms, i)
  \/ \E b \in 1..i :
       /\ acc = Scanning(b, i - b + 1..ms[b].calls)
       /\ i < b + ms[b].calls
       /\ AnsweredBefore(ms, b - 1)

LEMMA ScanFields ==
  ASSUME NEW o, NEW l
  PROVE  Scanning(o, l).open = o /\ Scanning(o, l).left = l /\ Scanning(o, l).cut = NoCut
BY DEF Scanning

Opened(r, at, calls) == [r EXCEPT !.open = at, !.left = calls]
Counted(r, at, calls) == [r EXCEPT !.left = calls, !.open = at]
LEMMA ScanUpdated ==
  \A o, l, d, e : /\ Opened(Scanning(o, l), d, e) = Scanning(d, e)
                   /\ Counted(Scanning(o, l), d, e) = Scanning(d, e)
<1> TAKE o, l, d, e
<1> DEFINE r == Scanning(o, l)
           F == {"open", "left", "cut"}
           new == [f \in F |-> IF f = "left" THEN e ELSE IF f = "open" THEN d ELSE r[f]]
<1>1. DOMAIN r = F /\ r["cut"] = NoCut
  BY DEF Scanning
<1>2. Scanning(d, e) = new
  <2>1. new = [f \in F |-> IF f = "left" THEN e ELSE IF f = "open" THEN d ELSE NoCut]
    BY <1>1
  <2> QED BY <2>1 DEF Scanning
<1>3. Opened(r, d, e) = new
  <2> HIDE DEF r
  <2> QED BY <1>1 DEF Opened
<1>4. Counted(r, d, e) = new
  <2> HIDE DEF r
  <2> QED BY <1>1 DEF Counted
<1> QED BY <1>2, <1>3, <1>4

(* A message outside any round opens one, or is passed by: it is not a     *)
(* result, since no call waits for one.                                    *)
LEMMA ScanFromClosed ==
  ASSUME NEW ms \in Seq(Message), InOrder(ms), NEW i \in 0..Len(ms) - 1, AnsweredBefore(ms, i)
  PROVE  ScanKnows(ms, i + 1, ScanStep(ms, ScanStart, i + 1))
<1> DEFINE m == i + 1
<1>0. m \in 1..Len(ms) /\ Len(ms) \in Nat /\ i \in Nat
  OBVIOUS
<1>1. \A h \in 1..Len(ms) : ms[h].calls \in Nat /\ ms[h].id \in Nat
  BY MessageFields
<1>2. ScanStart.cut = NoCut /\ ScanStart.open = 0 /\ ScanStart.left = {}
  BY DEF ScanStart
<1>3. ms[m].role # "tool"
  <2> SUFFICES ASSUME ms[m].role = "tool" PROVE FALSE
    OBVIOUS
  <2> DEFINE h == m - ms[m].id
  <2>1. ms[m].id \in 1..i /\ ms[h].calls >= ms[m].id
    BY <1>0 DEF InOrder, NoOrphans
  <2>2. h \in 1..i /\ h + ms[m].id = m
    BY <1>0, <1>1, <2>1
  <2> HIDE DEF h
  <2>3. h + ms[h].calls <= i
    BY <2>2 DEF AnsweredBefore
  <2>4. h \in 1..Len(ms) /\ h \in Nat
    BY <1>0, <2>2
  <2>5. ms[h].calls \in Nat /\ ms[m].id \in Nat
    BY <1>0, <1>1, <2>4
  <2> DEFINE c == ms[h].calls
             d == ms[m].id
  <2> HIDE DEF c, d
  <2>6. h + c <= i /\ c >= d /\ h + d = i + 1 /\ c \in Nat /\ d \in Nat
    BY <2>1, <2>2, <2>3, <2>5 DEF c, d
  <2> QED BY <1>0, <2>4, <2>6
<1>4. CASE ms[m].calls > 0
  <2>1. ScanStep(ms, ScanStart, m) = Opened(ScanStart, m, 1..ms[m].calls)
    BY <1>2, <1>4 DEF ScanStep, Opened
  <2>2. ScanStep(ms, ScanStart, m) = Scanning(m, m - m + 1..ms[m].calls)
    <3>1. ScanStart = Scanning(0, {}) /\ m - m + 1 = 1
      BY <1>0 DEF ScanStart, Scanning
    <3>2. Opened(Scanning(0, {}), m, 1..ms[m].calls) = Scanning(m, 1..ms[m].calls)
      BY ScanUpdated
    <3> QED BY <2>1, <3>1, <3>2, Zenon
  <2>3. m - m + 1 = 1 /\ m \in 1..m /\ m < m + ms[m].calls /\ m - 1 = i
    <3> DEFINE c == ms[m].calls
    <3>1. c \in Nat /\ c > 0
      BY <1>1, <1>4
    <3> HIDE DEF c
    <3>2. m < m + c
      BY <1>0, <3>1
    <3> QED BY <1>0, <3>2 DEF c
  <2> QED BY <2>2, <2>3 DEF ScanKnows
<1>5. CASE ms[m].calls = 0
  <2>1. ScanStep(ms, ScanStart, m) = ScanStart
    BY <1>2, <1>3, <1>5 DEF ScanStep
  <2>2. AnsweredBefore(ms, m)
    BY <1>0, <1>1, <1>5 DEF AnsweredBefore
  <2> QED BY <2>1, <2>2 DEF ScanKnows
<1> QED BY <1>0, <1>1, <1>4, <1>5

(* Inside a round the next message is the result of the next call; the     *)
(* last one closes the round.                                              *)
LEMMA ScanFromOpen ==
  ASSUME NEW ms \in Seq(Message), InOrder(ms), NEW i \in 0..Len(ms) - 1, NEW b \in 1..i,
         i < b + ms[b].calls, AnsweredBefore(ms, b - 1), NEW acc,
         acc = Scanning(b, i - b + 1..ms[b].calls)
  PROVE  ScanKnows(ms, i + 1, ScanStep(ms, acc, i + 1))
<1> DEFINE m == i + 1
           n == ms[b].calls
           k == m - b
<1>0. m \in 1..Len(ms) /\ Len(ms) \in Nat /\ i \in Nat /\ b \in 1..Len(ms)
  OBVIOUS
<1>1. \A h \in 1..Len(ms) : ms[h].calls \in Nat /\ ms[h].id \in Nat
  BY MessageFields
<1>2. n \in Nat /\ i < b + n
  BY <1>0, <1>1
<1> HIDE DEF n
<1>3. k \in 1..n /\ b + k = m /\ i - b + 1 = k
  BY <1>0, <1>2
<1> DEFINE all == k..n
<1>4. acc = Scanning(b, all)
  BY <1>3 DEF n
<1>5. ms[m].role = "tool" /\ ms[m].id = k
  <2>1. ms[b + k].role = "tool" /\ ms[b + k].id = k
    <3> HIDE DEF k, m
    <3> QED BY <1>0, <1>3 DEF InOrder, RoundsInOrder, n
  <2> QED BY <1>3, <2>1
<1>6. ms[m].calls = 0
  BY <1>0, <1>5 DEF InOrder, NoOrphans
<1> DEFINE rest == k + 1..n
           o == IF rest = {} THEN 0 ELSE b
<1>7. all \ {k} = rest /\ k \in all
  BY <1>2, <1>3
<1>8. ScanStep(ms, acc, m) = Scanning(o, rest)
  <2> HIDE DEF rest, all, k, m
  <2>1. acc.open = b /\ acc.left = all /\ acc.cut = NoCut
    BY <1>4, ScanFields
  <2>2. b # 0
    BY <1>0
  <2> HIDE DEF o
  <2>3. ScanStep(ms, acc, m) = Counted(acc, o, rest)
    <3>1. acc.left \ {ms[m].id} = rest /\ ms[m].id \in acc.left
      BY <1>5, <1>7, <2>1
    <3>2. ~(ms[m].calls > 0)
      BY <1>6
    <3>3. ScanStep(ms, acc, m)
            = [acc EXCEPT !.left = acc.left \ {ms[m].id},
                          !.open = IF acc.left \ {ms[m].id} = {} THEN 0 ELSE acc.open]
      BY <1>5, <2>1, <3>1, <3>2 DEF ScanStep
    <3> QED BY <2>1, <3>1, <3>3 DEF o, Counted
  <2>4. Counted(Scanning(b, all), o, rest) = Scanning(o, rest)
    BY ScanUpdated
  <2> QED BY <1>4, <2>3, <2>4, Zenon
<1> HIDE DEF rest, all
<1>9. CASE k < n
  <2>1. /\ m - b + 1 = k + 1 /\ b \in 1..m
        /\ m < b + n /\ k + 1 \in k + 1..n
    <3>1. b \in Nat /\ b >= 1 /\ b <= i /\ n \in Nat /\ i \in Nat
      BY <1>0, <1>2
    <3> QED BY <1>9, <3>1
  <2>2. ScanStep(ms, acc, m) = Scanning(b, m - b + 1..n)
    BY <1>8, <2>1 DEF rest
  <2> QED BY <2>1, <2>2 DEF ScanKnows, n
<1>10. CASE k = n
  <2>1. rest = {}
    BY <1>2, <1>3, <1>10 DEF rest
  <2>2. ScanStep(ms, acc, m) = ScanStart
    BY <1>8, <2>1 DEF ScanStart, Scanning
  <2>3. ASSUME NEW h \in 1..m PROVE h + ms[h].calls <= m
    <3>1. CASE h < b
      <4>1. h \in 1..b - 1
        BY <1>0, <3>1
      <4>2. h + ms[h].calls <= b - 1
        BY <4>1 DEF AnsweredBefore
      <4>3. h \in 1..Len(ms) /\ ms[h].calls \in Nat
        BY <1>0, <1>1, <3>1
      <4> QED BY <1>0, <4>2, <4>3
    <3>2. CASE h = b
      BY <1>0, <1>2, <1>3, <1>10, <3>2 DEF n
    <3>3. CASE h > b
      <4> DEFINE q == h - b
      <4>1. q \in 1..n /\ b + q = h /\ h \in 1..Len(ms)
        BY <1>0, <1>2, <1>3, <1>10, <3>3
      <4>2. ms[h].role = "tool"
        <5> HIDE DEF q
        <5>1. ms[b + q].role = "tool"
          BY <1>0, <4>1 DEF InOrder, RoundsInOrder, n
        <5> QED BY <4>1, <5>1
      <4>3. ms[h].calls = 0
        BY <4>1, <4>2 DEF InOrder, NoOrphans
      <4> QED BY <1>0, <4>3
    <3> QED BY <1>0, <3>1, <3>2, <3>3
  <2> QED BY <2>2, <2>3 DEF ScanKnows, AnsweredBefore
<1> QED BY <1>2, <1>3, <1>9, <1>10

LEMMA ScanReaches ==
  ASSUME NEW ms \in Seq(Message), InOrder(ms)
  PROVE  \A i \in 0..Len(ms) : ScanKnows(ms, i, Scanned(ms)[i])
<1> DEFINE Bad == {i \in 0..Len(ms) : ~ ScanKnows(ms, i, Scanned(ms)[i])}
<1>1. 0 \notin Bad
  <2>1. AnsweredBefore(ms, 0)
    BY DEF AnsweredBefore
  <2> QED BY <2>1, ScannedStep DEF ScanKnows
<1>2. ASSUME NEW i \in 0..Len(ms) - 1, i \notin Bad PROVE i + 1 \notin Bad
  <2>0. i \in 0..Len(ms) /\ i + 1 \in 1..Len(ms) /\ (i + 1) - 1 = i
    OBVIOUS
  <2>1. ScanKnows(ms, i, Scanned(ms)[i])
    BY <1>2, <2>0
  <2>2. Scanned(ms)[i + 1] = ScanStep(ms, Scanned(ms)[i], i + 1)
    BY <2>0, ScannedStep
  <2>3. ScanKnows(ms, i + 1, ScanStep(ms, Scanned(ms)[i], i + 1))
    <3>1. CASE Scanned(ms)[i] = ScanStart /\ AnsweredBefore(ms, i)
      BY <3>1, ScanFromClosed
    <3>2. ASSUME NEW b \in 1..i,
                 Scanned(ms)[i] = Scanning(b, i - b + 1..ms[b].calls),
                 i < b + ms[b].calls, AnsweredBefore(ms, b - 1)
          PROVE  ScanKnows(ms, i + 1, ScanStep(ms, Scanned(ms)[i], i + 1))
      BY <3>2, ScanFromOpen
    <3> QED BY <2>1, <3>1, <3>2 DEF ScanKnows
  <2> QED BY <2>2, <2>3
<1> HIDE DEF Bad
<1>3. Bad = {}
  <2> SUFFICES ASSUME Bad # {} PROVE FALSE
    OBVIOUS
  <2>1. Bad \subseteq 0..Len(ms) /\ Bad \subseteq Nat
    BY DEF Bad
  <2>2. PICK x \in Bad : \A y \in Bad : x <= y
    BY <2>1, LeastNatural
  <2>3. x \in 1..Len(ms)
    BY <1>1, <2>1
  <2>4. x - 1 \in 0..Len(ms) - 1 /\ x - 1 \notin Bad /\ (x - 1) + 1 = x
    BY <2>2, <2>3
  <2> QED BY <1>2, <2>4
<1> QED BY <1>3 DEF Bad

-----------------------------------------------------------------------------
(* In such a conversation a round is answered once its last call is.       *)
LEMMA AnsweredWhenOver ==
  ASSUME NEW ms \in Seq(Message), InOrder(ms), NEW n \in 0..Len(ms), NEW i \in 1..n
  PROVE  Answered(ms, i, n) <=> i + ms[i].calls <= n
<1> DEFINE c == ms[i].calls
<1>0. i \in 1..Len(ms) /\ Len(ms) \in Nat /\ n \in Nat
  OBVIOUS
<1>1. c \in Nat
  BY <1>0, MessageFields
<1>2. \A k \in 1..c : i + k <= Len(ms) => ms[i + k].role = "tool" /\ ms[i + k].id = k
  BY <1>0 DEF InOrder, RoundsInOrder
<1> HIDE DEF c
<1>3. ASSUME i + c <= n PROVE Answered(ms, i, n)
  <2>1. i + c \in i..n
    BY <1>0, <1>1, <1>3
  <2>2. \A j \in i + 1..i + c : ms[j].role = "tool"
    <3> TAKE j \in i + 1..i + c
    <3>1. j - i \in 1..c /\ i + (j - i) = j /\ j <= Len(ms)
      BY <1>0, <1>1, <1>3
    <3> QED BY <1>2, <3>1
  <2>3. \A k \in 1..c : \E j \in i + 1..i + c : ms[j].id = k
    <3> TAKE k \in 1..c
    <3>1. i + k \in i + 1..i + c /\ ms[i + k].id = k
      BY <1>0, <1>1, <1>2, <1>3
    <3> QED BY <3>1
  <2> QED BY <2>1, <2>2, <2>3 DEF Answered, c
<1>4. ASSUME Answered(ms, i, n), i + c > n PROVE FALSE
  <2>1. PICK e \in i..n : \A k \in 1..c : \E j \in i + 1..e : ms[j].id = k
    BY <1>4 DEF Answered, c
  <2>2. c \in 1..c
    BY <1>0, <1>1, <1>4
  <2>3. PICK j \in i + 1..e : ms[j].id = c
    BY <2>1, <2>2
  <2>4. j - i \in 1..c /\ i + (j - i) = j /\ j <= Len(ms) /\ j - i # c
    BY <1>0, <1>1, <1>4, <2>1, <2>3
  <2> QED BY <1>2, <2>3, <2>4
<1> QED BY <1>0, <1>1, <1>3, <1>4 DEF c

(* The cut is the last place with nothing open before it.                  *)
LEMMA CutIsLastClosed ==
  ASSUME NEW ms \in Seq(Message), InOrder(ms), NEW n \in 0..Len(ms), AnsweredBefore(ms, n),
         \A p \in 0..Len(ms) : AnsweredBefore(ms, p) => p <= n
  PROVE  SalvageCut(ms) = n
<1>1. ASSUME NEW p \in 0..Len(ms) PROVE AllAnswered(ms, p) <=> AnsweredBefore(ms, p)
  <2>1. \A i \in 1..p : Answered(ms, i, p) <=> i + ms[i].calls <= p
    BY AnsweredWhenOver
  <2>2. \A i \in 1..p : ms[i].calls \in Nat /\ i \in Nat /\ i <= p
    BY MessageFields
  <2> QED BY <2>1, <2>2 DEF AllAnswered, AnsweredBefore
<1>2. SalvageCut(ms) \in 0..Len(ms) /\ AllAnswered(ms, SalvageCut(ms))
  BY SalvageCutExists
<1>3. \A p \in 0..Len(ms) : AllAnswered(ms, p) => p <= SalvageCut(ms)
  <2>1. \E q \in 0..Len(ms) :
           AllAnswered(ms, q) /\ \A p \in 0..Len(ms) : AllAnswered(ms, p) => p <= q
    BY <1>1
  <2> QED BY <2>1 DEF SalvageCut
<1>4. SalvageCut(ms) <= n /\ n <= SalvageCut(ms)
  BY <1>1, <1>2, <1>3
<1> QED BY <1>2, <1>4

(* The one scan of salvage_messages cuts where it should.                  *)
LEMMA ScanIsSalvage ==
  ASSUME NEW ms \in Seq(Message), InOrder(ms)
  PROVE  SalvageScan(ms) = Salvage(ms)
<1> DEFINE L == Len(ms)
           end == Scanned(ms)[L]
<1>0. L \in Nat /\ \A h \in 1..L : ms[h].calls \in Nat
  BY MessageFields
<1>1. ScanKnows(ms, L, end)
  BY <1>0, ScanReaches
<1>2. SalvageScan(ms) = SubSeq(ms, 1, IF end.cut # NoCut THEN end.cut
                                      ELSE IF end.open # 0 THEN end.open - 1 ELSE L)
  BY DEF SalvageScan
<1> HIDE DEF end
<1>3. CASE end = ScanStart /\ AnsweredBefore(ms, L)
  <2>1. end.cut = NoCut /\ end.open = 0
    BY <1>3 DEF ScanStart
  <2>2. SalvageCut(ms) = L
    BY <1>0, <1>3, CutIsLastClosed
  <2> QED BY <1>2, <2>1, <2>2 DEF Salvage
<1>4. ASSUME NEW b \in 1..L, L < b + ms[b].calls, AnsweredBefore(ms, b - 1),
             end = Scanning(b, L - b + 1..ms[b].calls)
      PROVE  SalvageScan(ms) = Salvage(ms)
  <2>1. end.cut = NoCut /\ end.open = b /\ b # 0
    BY <1>0, <1>4, ScanFields
  <2>2. ASSUME NEW p \in 0..L, AnsweredBefore(ms, p) PROVE p <= b - 1
    <3>1. b \in 1..p => b + ms[b].calls <= p
      BY <2>2 DEF AnsweredBefore
    <3> QED BY <1>0, <1>4, <3>1
  <2>3. b - 1 \in 0..L
    BY <1>0
  <2>4. SalvageCut(ms) = b - 1
    BY <1>4, <2>2, <2>3, CutIsLastClosed
  <2> QED BY <1>2, <2>1, <2>4 DEF Salvage
<1> QED BY <1>1, <1>3, <1>4 DEF ScanKnows

-----------------------------------------------------------------------------
(* A compaction of a compacted conversation keeps every message between    *)
(* the frame and the resume message: they are prompts, and reminders that  *)
(* were one batch before and are one batch still.                          *)
LEMMA KeptAgain ==
  ASSUME NEW ms \in Seq(Message), NEW r \in BOOLEAN
  PROVE  Kept(Compacted(ms, r)) = 2..Cardinality(Kept(ms)) + 1
<1> DEFINE n == Cardinality(Kept(ms))
           new == Compacted(ms, r)
           N(k) == NthKept(ms, k)
<1>1. /\ n \in Nat /\ Len(new) = n + IF r THEN 2 ELSE 1
      /\ new[1].role = "frame" /\ (r => new[n + 2].role = "resume")
      /\ \A k \in 1..n : new[k + 1].role = ms[N(k)].role
      /\ \A k \in 1..Len(new) : new[k].text
  BY CompactedPlaces
<1>2. /\ \A i, j \in Kept(ms) : i < j => Rank(ms, i) < Rank(ms, j)
      /\ \A k \in 1..n : N(k) \in Kept(ms) /\ Rank(ms, N(k)) = k
  BY KeptByRank
<1>3. Kept(ms) \subseteq 1..Len(ms) /\ Len(ms) \in Nat
  BY DEF Kept
<1> HIDE DEF n, new, N
<1>4. \A k \in 1..n : N(k) \in 1..Len(ms)
  BY <1>2, <1>3
<1>5. ASSUME NEW k \in 1..n, NEW h \in 1..n, k <= h PROVE N(k) <= N(h)
  <2>1. N(k) \in Kept(ms) /\ N(h) \in Kept(ms) /\ N(k) \in Int /\ N(h) \in Int
    BY <1>2, <1>4
  <2>2. N(h) < N(k) => h < k
    BY <1>2, <2>1
  <2> QED BY <1>1, <1>5, <2>1, <2>2
<1>6. ASSUME NEW k \in Kept(new) PROVE k \in 2..n + 1
  <2>1. k \in 1..Len(new) /\ new[k].role \in {"user", "reminder"}
    BY DEF Kept, Worded, InLastBatch
  <2>2. k # 1 /\ ~(r /\ k = n + 2)
    BY <1>1, <2>1
  <2> QED BY <1>1, <2>1, <2>2
<1>7. ASSUME NEW k \in 2..n + 1 PROVE k \in Kept(new)
  <2> DEFINE i == N(k - 1)
  <2>1. k - 1 \in 1..n /\ (k - 1) + 1 = k /\ k \in 1..Len(new)
    BY <1>1
  <2>2. new[k].role = ms[i].role /\ i \in Kept(ms)
    BY <1>1, <1>2, <2>1
  <2>3. CASE Worded(ms, i)
    BY <1>1, <2>1, <2>2, <2>3 DEF Kept, Worded
  <2>4. CASE InLastBatch(ms, i)
    <3>1. new[k].role = "reminder"
      BY <2>2, <2>4 DEF InLastBatch
    <3>2. ASSUME NEW j \in k + 1..Len(new), new[j].role = "reminder", NEW p \in k..j
          PROVE  new[p].role = "reminder"
      <4>1. ~(r /\ j = n + 2)
        BY <1>1, <3>2
      <4>2. j \in 3..n + 1 /\ p \in 2..n + 1
        BY <1>1, <3>2, <4>1
      <4>3. /\ j - 1 \in 1..n /\ (j - 1) + 1 = j
            /\ p - 1 \in 1..n /\ (p - 1) + 1 = p
        BY <1>1, <4>2
      <4>4. new[j].role = ms[N(j - 1)].role /\ new[p].role = ms[N(p - 1)].role
        BY <1>1, <4>3
      <4>5. k - 1 <= p - 1 /\ p - 1 <= j - 1
        BY <3>2, <4>2
      <4>6. N(k - 1) <= N(p - 1) /\ N(p - 1) <= N(j - 1)
        BY <1>5, <2>1, <4>3, <4>5
      <4>7. N(k - 1) # N(j - 1)
        <5>1. Rank(ms, N(k - 1)) = k - 1 /\ Rank(ms, N(j - 1)) = j - 1
          BY <1>2, <2>1, <4>3
        <5> QED BY <3>2, <4>2, <5>1
      <4>8. N(j - 1) \in i + 1..Len(ms) /\ N(p - 1) \in i..N(j - 1)
        BY <1>4, <2>1, <4>3, <4>6, <4>7
      <4> HIDE DEF i
      <4> QED BY <2>4, <3>2, <4>4, <4>8 DEF InLastBatch
    <3>3. InLastBatch(new, k)
      BY <3>1, <3>2 DEF InLastBatch
    <3> QED BY <2>1, <3>3 DEF Kept
  <2> QED BY <2>2, <2>3, <2>4 DEF Kept
<1> QED BY <1>6, <1>7 DEF n, new

LEMMA CompactedAgain ==
  ASSUME NEW ms \in Seq(Message), NEW r \in BOOLEAN
  PROVE  Compacted(Compacted(ms, r), r) = Compacted(ms, r)
<1> DEFINE n == Cardinality(Kept(ms))
           last == n + IF r THEN 2 ELSE 1
           RoleAt(k) == IF k = 1 THEN "frame" ELSE IF k = n + 2 THEN "resume"
                        ELSE ms[NthKept(ms, k - 1)].role
           new == Compacted(ms, r)
           m == Cardinality(Kept(new))
           RoleAgain(k) == IF k = 1 THEN "frame" ELSE IF k = m + 2 THEN "resume"
                           ELSE new[NthKept(new, k - 1)].role
<1>1. n \in Nat /\ new \in Seq(Message)
  BY CompactedPlaces, CompactedIsClosed
<1>2. Kept(new) = 2..n + 1
  BY KeptAgain
<1>3. new = [k \in 1..last |-> Plain(RoleAt(k))]
  BY DEF Compacted
<1>4. Compacted(new, r) = [k \in 1..m + (IF r THEN 2 ELSE 1) |-> Plain(RoleAgain(k))]
  BY DEF Compacted
<1> HIDE DEF n, new
<1>5. m = n
  BY <1>1, <1>2, FS_Interval
<1>6. ASSUME NEW k \in 1..n PROVE NthKept(new, k) = k + 1
  <2> DEFINE i == NthKept(new, k)
  <2> DEFINE Upto == {j \in 2..n + 1 : j <= i}
  <2>1. i \in 2..n + 1 /\ Cardinality(Upto) = k
    BY <1>1, <1>2, <1>5, KeptByRank DEF Rank
  <2> HIDE DEF i
  <2>2. Upto = 2..i
    BY <1>1, <2>1
  <2> HIDE DEF Upto
  <2>3. Cardinality(2..i) = i - 1
    BY <1>1, <2>1, FS_Interval
  <2>4. k = i - 1
    BY <2>1, <2>2, <2>3
  <2>5. i = k + 1
    BY <1>1, <2>1, <2>4
  <2> QED BY <2>5 DEF i
<1>7. ASSUME NEW k \in 1..last PROVE RoleAgain(k) = RoleAt(k)
  <2>1. CASE k = 1 \/ k = n + 2
    BY <1>5, <2>1
  <2>2. CASE k # 1 /\ k # n + 2
    <3>1. k - 1 \in 1..n /\ (k - 1) + 1 = k
      BY <1>1, <2>2
    <3>2. NthKept(new, k - 1) = k
      BY <1>6, <3>1
    <3>3. new[k].role = RoleAt(k)
      BY <1>3 DEF Plain
    <3> QED BY <1>5, <2>2, <3>2, <3>3
  <2> QED BY <2>1, <2>2
<1> HIDE DEF RoleAt, RoleAgain
<1> QED BY <1>3, <1>4, <1>5, <1>7 DEF new

-----------------------------------------------------------------------------
(* Whatever builds it, the history stays a conversation in order.          *)
RebuildInv == history \in Seq(Message) /\ InOrder(history)

LEMMA RebuildStays == RebuildSpec => []RebuildInv
<1>1. RebuildInit => RebuildInv
  BY DEF RebuildInit, RebuildInv, InOrder, RoundsInOrder, NoOrphans
<1>2. RebuildInv /\ [RebuildNext]_history => RebuildInv'
  <2> SUFFICES ASSUME RebuildInv, [RebuildNext]_history PROVE RebuildInv'
    OBVIOUS
  <2>1. CASE Grow
    <3>1. Closed(history)
      BY <2>1 DEF Grow
    <3>2. CASE \E role \in {"user", "hook", "nudge"} : history' = Append(history, Plain(role))
      <4>1. PICK role \in {"user", "hook", "nudge"} : history' = Append(history, Plain(role))
        BY <3>2
      <4>2. role \in Roles \ {"tool"}
        BY DEF Roles, UserSide
      <4>3. Append(history, Plain(role)) \in Seq(Message) /\ Closed(Append(history, Plain(role)))
        BY <3>1, <4>2, PlainStaysClosed DEF RebuildInv
      <4> QED BY <4>1, <4>3 DEF RebuildInv, Closed
    <3>3. CASE \E text \in BOOLEAN, n \in 0..MaxCalls : history' = Append(history, Answer(text, n))
      <4>1. PICK text \in BOOLEAN, n \in 0..MaxCalls : history' = Append(history, Answer(text, n))
        BY <3>3
      <4>2. n \in Nat /\ Answer(text, n) \in Message
        BY RebuildBounds, MessageKinds
      <4>3. Append(history, Answer(text, n)) \in Seq(Message)
        BY <4>2, AppendedMessage DEF RebuildInv
      <4>4. InOrder(Append(history, Answer(text, n)))
        BY <3>1, <4>2, AnswerOpensRound DEF RebuildInv, OpenRound
      <4> QED BY <4>1, <4>3, <4>4 DEF RebuildInv
    <3>4. CASE history' = Append(history, ImagePrompt)
      <4>1. ImagePrompt \in Message /\ ImagePrompt.role # "tool" /\ ImagePrompt.calls = 0
        BY DEF ImagePrompt, Plain, Message, Roles, UserSide
      <4>2. Append(history, ImagePrompt) \in Seq(Message) /\ Closed(Append(history, ImagePrompt))
        BY <3>1, <4>1, CallFreeStaysClosed DEF RebuildInv
      <4> QED BY <3>4, <4>2 DEF RebuildInv, Closed
    <3> QED BY <2>1, <3>2, <3>3, <3>4 DEF Grow
  <2>2. CASE Deliver
    <3>1. PICK k \in 1..MaxCalls : history' = Append(history, ToolResult(k)) /\ InOrder(history')
      BY <2>2 DEF Deliver
    <3>2. ToolResult(k) \in Message
      BY RebuildBounds, MessageKinds
    <3>3. Append(history, ToolResult(k)) \in Seq(Message)
      BY <3>2, AppendedMessage DEF RebuildInv
    <3> QED BY <3>1, <3>3 DEF RebuildInv
  <2>3. CASE Inject
    <3>1. PICK n \in 1..2, topLevel \in BOOLEAN :
             Closed(history) /\ history' = Injected(history, n, topLevel)
      BY <2>3 DEF Inject
    <3>2. Injected(history, n, topLevel) \in Seq(Message) /\ Closed(Injected(history, n, topLevel))
      BY <3>1, InjectedIsClosed DEF RebuildInv
    <3> QED BY <3>1, <3>2 DEF RebuildInv, Closed
  <2>4. CASE CompactRebuilt
    <3>1. PICK resume \in BOOLEAN : history' = Compacted(history, resume)
      BY <2>4 DEF CompactRebuilt
    <3>2. Compacted(history, resume) \in Seq(Message) /\ Closed(Compacted(history, resume))
      BY CompactedIsClosed DEF RebuildInv
    <3> QED BY <3>1, <3>2 DEF RebuildInv, Closed
  <2>5. CASE UNCHANGED history
    BY <2>5 DEF RebuildInv
  <2> QED BY <2>1, <2>2, <2>3, <2>4, <2>5 DEF RebuildNext, Full
<1> QED BY <1>1, <1>2, PTL DEF RebuildSpec

(* The one scan of salvage_messages, with its early return, keeps exactly  *)
(* the longest prefix in which every round is answered.                    *)
THEOREM ScanCutsRight == RebuildSpec => []ScanIsCut
<1>1. RebuildInv => ScanIsCut
  BY ScanIsSalvage DEF RebuildInv, ScanIsCut
<1> QED BY <1>1, RebuildStays, PTL

(* Compacting what a compaction left gives the same history: nothing that  *)
(* a compaction adds is kept by the next one.                              *)
THEOREM CompactionIsStable == RebuildSpec => []CompactionSettles
<1>1. RebuildInv => CompactionSettles
  BY CompactedAgain DEF RebuildInv, CompactionSettles
<1> QED BY <1>1, RebuildStays, PTL

-----------------------------------------------------------------------------
(* The filter of streamed text.  Where a run of pieces ends.               *)
Text == Seq(Pieces)

LEMMA PieceOfText ==
  ASSUME NEW t \in Text, NEW i \in Int
  PROVE  /\ Len(t) \in Nat
         /\ i \in 1..Len(t) => Piece(t, i) = t[i] /\ t[i] \in Pieces
         /\ i \notin 1..Len(t) => Piece(t, i) = "end"
         /\ "end" \notin Pieces
BY DEF Text, Piece, Pieces

EndsAt(t, i, kinds, j) ==
  /\ j \in i..Len(t) + 1
  /\ \A k \in i..j - 1 : t[k] \in kinds
  /\ Piece(t, j) \notin kinds

LEMMA PastIs ==
  ASSUME NEW t \in Text, NEW i \in 1..Len(t) + 1, NEW kinds, "end" \notin kinds
  PROVE  EndsAt(t, i, kinds, Past(t, i, kinds))
<1>1. Len(t) \in Nat /\ Piece(t, Len(t) + 1) = "end"
  BY PieceOfText
<1> DEFINE S == {j \in i..Len(t) + 1 : Piece(t, j) \notin kinds}
<1>2. S \subseteq Nat /\ S # {}
  BY <1>1
<1>3. PICK j \in S : \A k \in S : j <= k
  BY <1>2, LeastNatural
<1>4. \A k \in i..j - 1 : t[k] \in kinds
  <2> SUFFICES ASSUME NEW k \in i..j - 1 PROVE t[k] \in kinds
    OBVIOUS
  <2>1. k \in 1..Len(t) /\ k \in i..Len(t) + 1 /\ ~ (j <= k)
    BY <1>1, <1>3
  <2>2. Piece(t, k) = t[k]
    BY <2>1, PieceOfText
  <2> QED BY <1>3, <2>1, <2>2
<1>5. \E x \in i..Len(t) + 1 : (\A k \in i..x - 1 : t[k] \in kinds) /\ Piece(t, x) \notin kinds
  BY <1>3, <1>4
<1> QED BY <1>5 DEF Past, EndsAt

LEMMA PastUnique ==
  ASSUME NEW t \in Text, NEW i \in 1..Len(t) + 1, NEW kinds, "end" \notin kinds,
         NEW j, EndsAt(t, i, kinds, j)
  PROVE  Past(t, i, kinds) = j
<1> DEFINE p == Past(t, i, kinds)
<1>1. EndsAt(t, i, kinds, p)
  BY PastIs
<1> HIDE DEF p
<1>2. Len(t) \in Nat /\ p \in i..Len(t) + 1 /\ j \in i..Len(t) + 1
  BY <1>1, PieceOfText DEF EndsAt
<1>3. ~ (p < j)
  <2> SUFFICES ASSUME p < j PROVE FALSE
    OBVIOUS
  <2>1. p \in i..j - 1 /\ p \in 1..Len(t)
    BY <1>2
  <2>2. Piece(t, p) = t[p]
    BY <2>1, PieceOfText
  <2> QED BY <1>1, <2>1, <2>2 DEF EndsAt
<1>4. ~ (j < p)
  <2> SUFFICES ASSUME j < p PROVE FALSE
    OBVIOUS
  <2>1. j \in i..p - 1 /\ j \in 1..Len(t)
    BY <1>2
  <2>2. Piece(t, j) = t[j]
    BY <2>1, PieceOfText
  <2> QED BY <1>1, <2>1, <2>2 DEF EndsAt
<1> QED BY <1>2, <1>3, <1>4 DEF p

(* Two texts that agree on their first n pieces: what ends there is the    *)
(* same in both.                                                           *)
Agree(t, u, n) ==
  /\ n <= Len(t) /\ n <= Len(u)
  /\ \A k \in 1..n : t[k] = u[k]

LEMMA PastAgrees ==
  ASSUME NEW t \in Text, NEW u \in Text, NEW n \in Nat, Agree(t, u, n),
         NEW i \in 1..n + 1, NEW kinds, "end" \notin kinds, Past(t, i, kinds) <= n
  PROVE  Past(u, i, kinds) = Past(t, i, kinds)
<1> DEFINE p == Past(t, i, kinds)
<1>1. Len(t) \in Nat /\ Len(u) \in Nat /\ n <= Len(t) /\ n <= Len(u)
  BY PieceOfText DEF Agree
<1>2. i \in 1..Len(t) + 1 /\ i \in 1..Len(u) + 1
  BY <1>1
<1>3. EndsAt(t, i, kinds, p)
  BY <1>2, PastIs
<1>4. p <= n
  OBVIOUS
<1> HIDE DEF p
<1>5. p \in i..n /\ p \in 1..n /\ p \in 1..Len(t) /\ p \in 1..Len(u) /\ p \in i..Len(u) + 1
  BY <1>1, <1>3, <1>4 DEF EndsAt
<1>6. Piece(u, p) = Piece(t, p)
  BY <1>5, PieceOfText DEF Agree
<1>7. \A k \in i..p - 1 : k \in 1..n /\ u[k] = t[k]
  BY <1>5 DEF Agree
<1>8. EndsAt(u, i, kinds, p)
  BY <1>3, <1>5, <1>6, <1>7 DEF EndsAt
<1> QED BY <1>2, <1>8, PastUnique DEF p

LEMMA AgreeIsEqual ==
  ASSUME NEW t \in Text, NEW u \in Text, Len(t) = Len(u), Agree(t, u, Len(t))
  PROVE  t = u
BY DEF Text, Agree

(* A run that ends past the shorter text reaches its end.                  *)
LEMMA PastCut ==
  ASSUME NEW t \in Text, NEW u \in Text, Agree(t, u, Len(t)),
         NEW i \in 1..Len(t) + 1, NEW kinds, "end" \notin kinds, Past(u, i, kinds) > Len(t)
  PROVE  Past(t, i, kinds) = Len(t) + 1
<1>1. Len(t) \in Nat
  BY PieceOfText
<1>2. EndsAt(t, i, kinds, Past(t, i, kinds))
  BY PastIs
<1>3. Past(t, i, kinds) \in i..Len(t) + 1
  BY <1>2 DEF EndsAt
<1>4. CASE Past(t, i, kinds) <= Len(t)
  BY <1>1, <1>3, <1>4, PastAgrees
<1> QED BY <1>1, <1>3, <1>4

-----------------------------------------------------------------------------
(* Headers.  The place of the word, and of what follows the header.        *)
BareWord(t, b) == PastBlanks(t, PastMark(t, PastBlanks(t, b)))
BracketAt(t, i) ==
  LET j == PastMark(t, i) IN
  Piece(t, j) = "[final" /\ Piece(t, PastBlanks(t, j + 1)) = "check"
BareAt(t, b) ==
  LET j == BareWord(t, b)
      k == PastBlanks(t, j + 1)
  IN Piece(t, j) = "final" /\ Piece(t, k) = "check" /\ Piece(t, k + 1) \notin Words

LEMMA HeaderParts ==
  ASSUME NEW t, NEW i, NEW floor
  PROVE  HeaderAt(t, i, floor) <=> BracketAt(t, i) \/ \E b \in LineStarts(t, i, floor) : BareAt(t, b)
BY DEF HeaderAt, BracketAt, BareAt, BareWord

(* Past the first piece the floor of a search does not matter.             *)
LEMMA FloorIsPassed ==
  ASSUME NEW t, NEW floor \in Nat, NEW i \in Nat, i > floor
  PROVE  /\ HeaderAt(t, i, floor) <=> HeaderAt(t, i, 0)
         /\ OpenAt(t, i, floor) <=> OpenAt(t, i, 0)
<1>1. LineStarts(t, i, floor) = LineStarts(t, i, 0)
  BY DEF LineStarts
<1> QED BY <1>1 DEF HeaderAt, OpenAt

LEMMA PastBlanksIs ==
  ASSUME NEW t \in Text, NEW i \in 1..Len(t) + 1
  PROVE  /\ PastBlanks(t, i) \in i..Len(t) + 1
         /\ \A k \in i..PastBlanks(t, i) - 1 : t[k] = "s"
         /\ Piece(t, PastBlanks(t, i)) # "s"
<1>1. EndsAt(t, i, {"s"}, PastBlanks(t, i))
  BY PastIs DEF PastBlanks
<1> QED BY <1>1 DEF EndsAt

LEMMA PastBlanksAgrees ==
  ASSUME NEW t \in Text, NEW u \in Text, NEW n \in Nat, Agree(t, u, n),
         NEW i \in 1..n + 1, PastBlanks(t, i) <= n
  PROVE  PastBlanks(u, i) = PastBlanks(t, i)
BY PastAgrees DEF PastBlanks

(* A label ends every run of blanks before it.                             *)
LEMMA LabelStops ==
  ASSUME NEW t \in Text, NEW j \in 1..Len(t), t[j] = "labels", NEW i \in 1..j
  PROVE  PastBlanks(t, i) \in i..j
<1>1. Len(t) \in Nat
  BY PieceOfText
<1>2. i \in 1..Len(t) + 1
  BY <1>1
<1>3. PastBlanks(t, i) \in i..Len(t) + 1 /\ \A k \in i..PastBlanks(t, i) - 1 : t[k] = "s"
  BY <1>2, PastBlanksIs
<1>4. ~ (PastBlanks(t, i) > j)
  <2> SUFFICES ASSUME PastBlanks(t, i) > j PROVE FALSE
    OBVIOUS
  <2>1. j \in i..PastBlanks(t, i) - 1
    BY <1>1, <1>3
  <2> QED BY <1>3, <2>1
<1> QED BY <1>1, <1>3, <1>4

(* A header before a label is one in every text that agrees so far.        *)
LEMMA HeaderBeforeLabel ==
  ASSUME NEW t \in Text, NEW u \in Text, NEW j \in 1..Len(t), t[j] = "labels",
         Agree(t, u, j), NEW i \in 1..j, HeaderAt(t, i, 0)
  PROVE  HeaderAt(u, i, 0)
<1>1. Len(t) \in Nat /\ Len(u) \in Nat /\ j <= Len(t) /\ j <= Len(u) /\ j \in Nat
  BY PieceOfText DEF Agree
<1>2. \A k \in 1..j : Piece(t, k) = t[k] /\ Piece(u, k) = t[k]
  BY <1>1, PieceOfText DEF Agree
<1>3. \A k \in 1..j : PastMark(t, k) = PastMark(u, k) /\ PastMark(t, k) \in k..j
  BY <1>2 DEF PastMark
<1>4. \A k \in 1..j : PastBlanks(t, k) \in k..j /\ PastBlanks(u, k) = PastBlanks(t, k)
  <2> TAKE k \in 1..j
  <2>1. PastBlanks(t, k) \in k..j
    BY <1>1, LabelStops
  <2>2. k \in 1..j + 1 /\ PastBlanks(t, k) <= j
    BY <1>1, <2>1
  <2> QED BY <1>1, <2>1, <2>2, PastBlanksAgrees
<1>5. ASSUME BracketAt(t, i) PROVE BracketAt(u, i)
  <2> DEFINE p == PastMark(t, i)
             q == PastBlanks(t, p + 1)
  <2>1. p \in 1..j /\ PastMark(u, i) = p
    BY <1>1, <1>3
  <2>2. Piece(t, p) = "[final" /\ Piece(t, q) = "check"
    BY <1>5 DEF BracketAt
  <2> HIDE DEF p
  <2>3. p # j /\ p + 1 \in 1..j
    BY <1>1, <1>2, <2>1, <2>2
  <2>4. q \in p + 1..j /\ PastBlanks(u, p + 1) = q
    BY <1>4, <2>3
  <2> HIDE DEF q
  <2>5. Piece(u, p) = "[final" /\ Piece(u, q) = "check"
    BY <1>1, <1>2, <2>1, <2>2, <2>4
  <2> QED BY <2>1, <2>4, <2>5 DEF BracketAt, p
<1>6. LineStarts(t, i, 0) = LineStarts(u, i, 0)
  BY <1>2 DEF LineStarts
<1>7. ASSUME NEW b \in LineStarts(t, i, 0), BareAt(t, b) PROVE BareAt(u, b)
  <2>1. b \in 1..j
    <3>1. CASE t[i] = "n"
      <4>1. i # j /\ i + 1 \in 1..j
        BY <1>1, <3>1
      <4> QED BY <1>1, <1>2, <4>1 DEF LineStarts
    <3>2. CASE t[i] # "n"
      BY <1>1, <1>2, <3>2 DEF LineStarts
    <3> QED BY <3>1, <3>2
  <2> DEFINE c == PastBlanks(t, b)
             d == PastMark(t, c)
             w == PastBlanks(t, d)
             k == PastBlanks(t, w + 1)
  <2>2. c \in 1..j /\ PastBlanks(u, b) = c
    BY <1>4, <2>1
  <2>3. d \in 1..j /\ PastMark(u, c) = d
    <3> HIDE DEF c
    <3> QED BY <1>3, <2>2
  <2>4. w \in 1..j /\ PastBlanks(u, d) = w
    <3> HIDE DEF c, d
    <3> QED BY <1>4, <2>3
  <2>5. BareWord(t, b) = w /\ BareWord(u, b) = w
    BY <2>2, <2>3, <2>4 DEF BareWord
  <2>6. Piece(t, w) = "final" /\ Piece(t, k) = "check" /\ Piece(t, k + 1) \notin Words
    BY <1>7, <2>5 DEF BareAt
  <2> HIDE DEF c, d, w
  <2>7. w # j /\ w + 1 \in 1..j
    BY <1>1, <1>2, <2>4, <2>6
  <2>8. k \in 1..j /\ PastBlanks(u, w + 1) = k
    BY <1>4, <2>7
  <2> HIDE DEF k
  <2>9. k # j /\ k + 1 \in 1..j
    BY <1>1, <1>2, <2>6, <2>8
  <2>10. Piece(u, w) = "final" /\ Piece(u, k) = "check" /\ Piece(u, k + 1) \notin Words
    BY <1>2, <2>4, <2>6, <2>8, <2>9
  <2> QED BY <2>5, <2>8, <2>10 DEF BareAt
<1> QED BY <1>5, <1>6, <1>7, HeaderParts

LEMMA BlanksAtEnd ==
  ASSUME NEW t \in Text
  PROVE  Piece(t, Len(t) + 1) = "end" /\ PastBlanks(t, Len(t) + 1) = Len(t) + 1
<1>1. Len(t) \in Nat /\ Len(t) + 1 \in 1..Len(t) + 1
  BY PieceOfText
<1>2. PastBlanks(t, Len(t) + 1) \in Len(t) + 1..Len(t) + 1
  BY <1>1, PastBlanksIs
<1> QED BY <1>1, <1>2, PieceOfText

LEMMA OpenTail ==
  ASSUME NEW t \in Text, NEW m \in 1..Len(t) + 1,
         \/ m = Len(t) + 1
         \/ t[m] \in {"final", "[final"} /\ PastBlanks(t, m + 1) = Len(t) + 1
  PROVE  HeaderTail(t, m)
<1>1. Len(t) \in Nat /\ Piece(t, Len(t) + 1) = "end"
  BY PieceOfText
<1>2. PastBlanks(t, Len(t) + 1) = Len(t) + 1
  BY BlanksAtEnd
<1>3. CASE m = Len(t) + 1
  BY <1>1, <1>2, <1>3 DEF HeaderTail
<1>4. CASE m # Len(t) + 1
  <2>1. Piece(t, m) = t[m]
    BY <1>1, <1>4, PieceOfText
  <2> QED BY <1>1, <1>4, <2>1 DEF HeaderTail
<1> QED BY <1>3, <1>4

(* What may still become a header shows: where a longer text has one, the  *)
(* shorter has it, or is open there, or has only blanks from there on.     *)
LEMMA BracketSeen ==
  ASSUME NEW t \in Text, NEW u \in Text, Agree(t, u, Len(t)), NEW m \in 1..Len(t),
         BracketAt(u, m)
  PROVE  BracketAt(t, m) \/ OpenAt(t, m, 0)
<1> DEFINE L == Len(t)
           p == PastMark(u, m)
           q == PastBlanks(u, p + 1)
<1>1. L \in Nat /\ Len(u) \in Nat /\ L <= Len(u) /\ Agree(u, t, L)
  BY PieceOfText DEF Agree
<1>2. \A k \in 1..L : Piece(t, k) = t[k] /\ Piece(u, k) = t[k]
  BY <1>1, PieceOfText DEF Agree
<1>3. Piece(u, p) = "[final" /\ Piece(u, q) = "check"
  BY DEF BracketAt
<1>4. PastMark(t, m) = p /\ p \in m..m + 1 /\ (p # m => t[m] = "d")
  BY <1>1, <1>2 DEF PastMark
<1>5. CASE p > L
  <2>1. m = L /\ t[m] = "d"
    BY <1>1, <1>4, <1>5
  <2>2. EndsAt(t, m, {"d"}, L + 1)
    BY <1>1, <2>1, PieceOfText DEF EndsAt
  <2>3. Past(t, m, {"d"}) = L + 1
    BY <1>1, <2>2, PastUnique
  <2>4. Piece(t, L + 1) = "end" /\ PastBlanks(t, L + 1) = L + 1
    BY BlanksAtEnd
  <2> QED BY <1>2, <2>1, <2>3, <2>4 DEF OpenAt
<1>6. CASE p <= L
  <2> HIDE DEF p
  <2>1. p \in 1..L /\ p + 1 \in 1..L + 1 /\ t[p] = "[final" /\ Piece(t, p) = "[final"
    BY <1>1, <1>2, <1>3, <1>4, <1>6
  <2>2. CASE q <= L
    <3>1. PastBlanks(t, p + 1) = q /\ q \in 1..Len(u) + 1
      <4>1. p + 1 \in 1..Len(u) + 1
        BY <1>1, <2>1
      <4>2. q \in p + 1..Len(u) + 1
        BY <4>1, PastBlanksIs
      <4>3. PastBlanks(t, p + 1) = q
        BY <1>1, <2>1, <2>2, PastBlanksAgrees
      <4> QED BY <1>1, <2>1, <4>2, <4>3
    <3>2. Piece(t, q) = "check"
      BY <1>1, <1>2, <1>3, <2>2, <3>1
    <3> QED BY <1>4, <2>1, <3>1, <3>2 DEF BracketAt
  <2>3. CASE q > L
    <3>1. PastBlanks(t, p + 1) = L + 1
      BY <1>1, <2>1, <2>3, PastCut DEF PastBlanks
    <3>2. HeaderTail(t, p)
      BY <1>1, <2>1, <3>1, OpenTail
    <3> QED BY <1>4, <2>1, <3>2 DEF OpenAt
  <2>4. q \in Int
    <3>1. p + 1 \in 1..Len(u) + 1
      BY <1>1, <2>1
    <3>2. q \in p + 1..Len(u) + 1
      BY <3>1, PastBlanksIs
    <3> QED BY <1>1, <2>1, <3>2
  <2> QED BY <1>1, <2>2, <2>3, <2>4
<1> QED BY <1>1, <1>4, <1>5, <1>6

LEMMA BareSeen ==
  ASSUME NEW t \in Text, NEW u \in Text, Agree(t, u, Len(t)), NEW m \in 1..Len(t),
         NEW b \in LineStarts(t, m, 0), BareAt(u, b)
  PROVE  \/ BareAt(t, b)
         \/ OpenAt(t, m, 0)
         \/ PastBlanks(t, b) = Len(t) + 1
<1> DEFINE L == Len(t)
<1>1. L \in Nat /\ Len(u) \in Nat /\ L <= Len(u) /\ Agree(u, t, L) /\ Piece(t, L + 1) = "end"
  BY PieceOfText DEF Agree
<1>2. \A k \in 1..L : Piece(t, k) = t[k] /\ Piece(u, k) = t[k]
  BY <1>1, PieceOfText DEF Agree
<1>3. b \in 1..L + 1 /\ b \in 1..Len(u) + 1
  BY <1>1 DEF LineStarts
<1>4. \A k \in 1..L + 1 : PastBlanks(u, k) \in k..Len(u) + 1
  <2> TAKE k \in 1..L + 1
  <2>1. k \in 1..Len(u) + 1
    BY <1>1
  <2> QED BY <2>1, PastBlanksIs
<1>5. \A k \in 1..L + 1 :
         IF PastBlanks(u, k) <= L THEN PastBlanks(t, k) = PastBlanks(u, k)
                                  ELSE PastBlanks(t, k) = L + 1
  <2> TAKE k \in 1..L + 1
  <2>1. CASE PastBlanks(u, k) <= L
    BY <1>1, <2>1, PastBlanksAgrees
  <2>2. CASE ~ (PastBlanks(u, k) <= L)
    <3>1. PastBlanks(u, k) > L
      BY <1>1, <1>4, <2>2
    <3> QED BY <1>1, <3>1, PastCut, <2>2 DEF PastBlanks
  <2> QED BY <2>1, <2>2
<1> DEFINE c == PastBlanks(u, b)
           d == PastMark(u, c)
           w == PastBlanks(u, d)
           k == PastBlanks(u, w + 1)
<1>6. Piece(u, w) = "final" /\ Piece(u, k) = "check" /\ Piece(u, k + 1) \notin Words
  BY DEF BareAt, BareWord
<1>7. CASE c > L
  BY <1>1, <1>3, <1>4, <1>5, <1>7
<1>8. CASE c <= L
  <2>1. c \in 1..L /\ PastBlanks(t, b) = c /\ Piece(u, c) # "s"
    BY <1>1, <1>3, <1>4, <1>5, <1>8, PastBlanksIs
  <2> HIDE DEF c
  <2>2. PastMark(t, c) = d /\ d \in c..c + 1 /\ d \in 1..L + 1 /\ (d # c => t[c] = "d")
    BY <1>1, <1>2, <2>1 DEF PastMark
  <2> HIDE DEF d
  <2>3. w \in d..Len(u) + 1 /\ \A x \in d..w - 1 : u[x] = "s"
    <3>1. d \in 1..Len(u) + 1
      BY <1>1, <2>2
    <3> QED BY <3>1, PastBlanksIs
  <2> HIDE DEF w
  <2>4. CASE w > L
    (* the marks are the last piece but blanks                             *)
    <3>1. d # c
      <4> SUFFICES ASSUME d = c PROVE FALSE
        OBVIOUS
      <4>1. c \in d..w - 1 /\ c \in 1..L
        BY <1>1, <2>1, <2>3, <2>4
      <4>2. u[c] = "s" /\ u[c] = Piece(u, c)
        BY <1>1, <2>3, <4>1, PieceOfText
      <4> QED BY <2>1, <4>2
    <3>2. EndsAt(t, c, {"d", "s"}, L + 1)
      <4>1. \A x \in c..L : t[x] \in {"d", "s"}
        <5> SUFFICES ASSUME NEW x \in c..L PROVE t[x] \in {"d", "s"}
          OBVIOUS
        <5>1. CASE x = c
          BY <2>2, <3>1, <5>1
        <5>2. CASE x # c
          <6>1. x \in d..w - 1 /\ x \in 1..L
            BY <1>1, <2>1, <2>2, <2>3, <2>4, <5>2
          <6> QED BY <2>3, <6>1 DEF Agree
        <5> QED BY <5>1, <5>2
      <4> QED BY <1>1, <2>1, <4>1 DEF EndsAt
    <3>3. Past(t, c, {"d", "s"}) = L + 1
      BY <1>1, <2>1, <3>2, PastUnique
    <3>4. HeaderTail(t, L + 1)
      BY <1>1, OpenTail
    <3>5. Piece(t, c) = "d"
      BY <1>2, <2>1, <2>2, <3>1
    <3> QED BY <2>1, <3>3, <3>4, <3>5 DEF OpenAt
  <2>5. CASE w <= L
    <3>1. w \in 1..L /\ w + 1 \in 1..L + 1 /\ t[w] = "final" /\ Piece(t, w) = "final"
      BY <1>1, <1>2, <1>6, <2>2, <2>3, <2>5
    <3>2. PastBlanks(t, d) = w
      BY <1>5, <2>2, <2>5 DEF w
    <3>3. BareWord(t, b) = w
      BY <2>1, <2>2, <3>2 DEF BareWord
    <3>4. k \in w + 1..Len(u) + 1
      BY <1>4, <3>1
    <3>5. CASE k <= L
      <4>1. PastBlanks(t, w + 1) = k
        BY <1>5, <3>1, <3>5
      <4> HIDE DEF k
      <4>2. k \in 1..L /\ Piece(t, k) = "check"
        BY <1>1, <1>2, <1>6, <3>1, <3>4, <3>5
      <4>3. Piece(t, k + 1) \notin Words
        <5>1. CASE k = L
          BY <1>1, <5>1 DEF Words
        <5>2. CASE k # L
          <6>1. k + 1 \in 1..L
            BY <1>1, <4>2, <5>2
          <6> QED BY <1>2, <1>6, <6>1
        <5> QED BY <5>1, <5>2
      <4> QED BY <3>1, <3>3, <4>1, <4>2, <4>3 DEF BareAt
    <3>6. CASE k > L
      <4>1. PastBlanks(t, w + 1) = L + 1
        BY <1>1, <1>5, <3>1, <3>4, <3>6
      <4>2. HeaderTail(t, w)
        BY <1>1, <3>1, <4>1, OpenTail
      <4>3. EndsAt(t, c, {"d", "s"}, w)
        <5>1. \A x \in c..w - 1 : t[x] \in {"d", "s"}
          <6> SUFFICES ASSUME NEW x \in c..w - 1 PROVE t[x] \in {"d", "s"}
            OBVIOUS
          <6>1. x \in 1..L
            BY <1>1, <2>1, <3>1
          <6>2. CASE x = c /\ d # c
            BY <2>2, <6>2
          <6>3. CASE x # c \/ d = c
            <7>1. x \in d..w - 1
              BY <1>1, <2>1, <2>2, <3>1, <6>3
            <7> QED BY <2>3, <6>1, <7>1 DEF Agree
          <6> QED BY <6>2, <6>3
        <5> QED BY <1>1, <2>1, <2>2, <2>3, <3>1, <5>1 DEF EndsAt
      <4>4. Past(t, c, {"d", "s"}) = w
        BY <1>1, <2>1, <4>3, PastUnique
      <4>5. Piece(t, c) \in {"d", "final"}
        <5>1. CASE d # c
          BY <1>2, <2>1, <2>2, <5>1
        <5>2. CASE d = c
          <6>1. w = c
            <7> SUFFICES ASSUME w # c PROVE FALSE
              OBVIOUS
            <7>1. c \in d..w - 1
              BY <1>1, <2>1, <2>3, <3>1, <5>2
            <7>2. u[c] = "s" /\ u[c] = Piece(u, c)
              BY <1>1, <2>1, <2>3, <7>1, PieceOfText
            <7> QED BY <2>1, <7>2
          <6> QED BY <3>1, <6>1
        <5> QED BY <5>1, <5>2
      <4> QED BY <2>1, <4>2, <4>4, <4>5 DEF OpenAt
    <3> QED BY <1>1, <3>1, <3>4, <3>5, <3>6
  <2> QED BY <1>1, <2>2, <2>3, <2>4, <2>5
<1> QED BY <1>1, <1>3, <1>4, <1>7, <1>8

LEMMA HeaderSeen ==
  ASSUME NEW t \in Text, NEW u \in Text, Agree(t, u, Len(t)), NEW m \in 1..Len(t),
         HeaderAt(u, m, 0)
  PROVE  \/ HeaderAt(t, m, 0) \/ OpenAt(t, m, 0)
         \/ \A k \in m..Len(t) : t[k] \in {"s", "n"}
<1>1. Len(t) \in Nat /\ Len(u) \in Nat /\ Len(t) <= Len(u)
  BY PieceOfText DEF Agree
<1>2. Piece(t, m) = t[m] /\ Piece(u, m) = t[m]
  BY <1>1, PieceOfText DEF Agree
<1>3. LineStarts(u, m, 0) = LineStarts(t, m, 0)
  BY <1>2 DEF LineStarts
<1>4. CASE BracketAt(u, m)
  BY <1>4, BracketSeen, HeaderParts
<1>5. ASSUME NEW b \in LineStarts(t, m, 0), BareAt(u, b), PastBlanks(t, b) = Len(t) + 1
      PROVE  \A k \in m..Len(t) : t[k] \in {"s", "n"}
  <2>1. b \in m..m + 1 /\ b \in 1..Len(t) + 1 /\ (b # m => t[m] = "n")
    BY <1>1, <1>2 DEF LineStarts
  <2>2. \A k \in b..Len(t) : t[k] = "s"
    BY <1>1, <1>5, <2>1, PastBlanksIs
  <2> QED BY <1>1, <2>1, <2>2
<1>6. CASE \E b \in LineStarts(t, m, 0) : BareAt(u, b)
  <2>1. PICK b \in LineStarts(t, m, 0) : BareAt(u, b)
    BY <1>6
  <2> QED BY <1>5, <2>1, BareSeen, HeaderParts
<1> QED BY <1>3, <1>4, <1>6, HeaderParts

-----------------------------------------------------------------------------
(* Cuts.                                                                   *)
Blank == {"s", "n"}

LEMMA TrimmedIs ==
  ASSUME NEW t \in Text, NEW e \in 0..Len(t)
  PROVE  /\ Trimmed(t, e) \in 0..e
         /\ Trimmed(t, e) # 0 => t[Trimmed(t, e)] \notin Blank
         /\ \A k \in 1..e : k > Trimmed(t, e) => t[k] \in Blank
<1> DEFINE S == {k \in 0..e : k = 0 \/ t[k] \notin {"s", "n"}}
<1>1. e \in Nat /\ S \subseteq 0..e /\ 0 \in S
  BY PieceOfText
<1>2. Trimmed(t, e) = Max(S)
  BY DEF Trimmed
<1>3. Max(S) \in S /\ \A x \in S : x <= Max(S)
  <2> HIDE DEF S
  <2> QED BY <1>1, MaxIs
<1>4. \A k \in 1..e : k > Max(S) => k \notin S
  <2> SUFFICES ASSUME NEW k \in 1..e, k > Max(S), k \in S PROVE FALSE
    OBVIOUS
  <2> HIDE DEF S
  <2>1. k <= Max(S) /\ Max(S) \in 0..e
    BY <1>1, <1>3
  <2> QED BY <1>1, <2>1
<1> QED BY <1>1, <1>2, <1>3, <1>4 DEF Blank

LEMMA TrimmedUnique ==
  ASSUME NEW t \in Text, NEW e \in 0..Len(t), NEW r \in 0..e,
         r # 0 => t[r] \notin Blank,
         \A k \in 1..e : k > r => t[k] \in Blank
  PROVE  Trimmed(t, e) = r
<1>1. Len(t) \in Nat
  BY PieceOfText
<1>2. /\ Trimmed(t, e) \in 0..e
      /\ Trimmed(t, e) # 0 => t[Trimmed(t, e)] \notin Blank
      /\ \A k \in 1..e : k > Trimmed(t, e) => t[k] \in Blank
  BY TrimmedIs
<1> QED BY <1>1, <1>2

(* The start of the line a place is on, and a line of nothing but marks.   *)
LineOf(t, end) == Max({0} \cup {k \in 1..end : t[k] = "n"}) + 1
MarksOnly(t, line, end) ==
  \E c \in line..end : /\ \A k \in line..c - 1 : t[k] = "s"
                       /\ \A k \in c..end : t[k] = "d"

LEMMA LineIs ==
  ASSUME NEW t \in Text, NEW end \in 0..Len(t)
  PROVE  /\ LineOf(t, end) \in 1..end + 1
         /\ \A k \in LineOf(t, end)..end : t[k] # "n"
         /\ LineOf(t, end) # 1 => t[LineOf(t, end) - 1] = "n"
<1> DEFINE S == {0} \cup {k \in 1..end : t[k] = "n"}
<1>1. end \in Nat /\ S \subseteq 0..end /\ S # {}
  BY PieceOfText
<1>2. Max(S) \in S /\ \A x \in S : x <= Max(S)
  <2> HIDE DEF S
  <2> QED BY <1>1, MaxIs
<1>3. \A k \in Max(S) + 1..end : k \in 1..end /\ k \notin S
  <2> SUFFICES ASSUME NEW k \in Max(S) + 1..end PROVE k \in 1..end /\ k \notin S
    OBVIOUS
  <2> HIDE DEF S
  <2>1. Max(S) \in 0..end
    BY <1>1, <1>2
  <2>2. k \in 1..end /\ ~ (k <= Max(S))
    BY <1>1, <2>1
  <2> QED BY <1>2, <2>2
<1> QED BY <1>1, <1>2, <1>3 DEF LineOf

LEMMA CutEndIs ==
  ASSUME NEW t \in Text, NEW e \in 0..Len(t), NEW end, end = Trimmed(t, e),
         NEW line, line = LineOf(t, end)
  PROVE  CutEnd(t, e) = IF MarksOnly(t, line, end)
                        THEN Trimmed(t, IF line = 1 THEN 0 ELSE line - 2) ELSE end
<1>1. Len(t) \in Nat /\ end \in 0..e /\ end \in 0..Len(t) /\ (end # 0 => t[end] \notin Blank)
  BY TrimmedIs, PieceOfText
<1>2. line \in 1..end + 1 /\ \A k \in line..end : t[k] # "n"
  BY <1>1, LineIs
<1>3. Max({0, line - 2}) = IF line = 1 THEN 0 ELSE line - 2
  <2>1. line - 2 \in Int /\ (0 <= line - 2 <=> line # 1)
    BY <1>1, <1>2
  <2> QED BY <2>1, GreaterOfTwo
<1>4. ASSUME line <= end
      PROVE  Past(t, PastBlanks(t, line), {"d"}) > end <=> MarksOnly(t, line, end)
  <2> DEFINE c == PastBlanks(t, line)
             p == Past(t, c, {"d"})
  <2>1. line \in 1..Len(t) + 1 /\ end \in line..Len(t) /\ end # 0
    BY <1>1, <1>2, <1>4
  <2>2. c \in line..Len(t) + 1 /\ \A k \in line..c - 1 : t[k] = "s"
    BY <2>1, PastBlanksIs
  <2>3. Piece(t, c) # "s"
    BY <2>1, PastBlanksIs
  <2> HIDE DEF c
  <2>4. c <= end
    <3> SUFFICES ASSUME ~ (c <= end) PROVE FALSE
      OBVIOUS
    <3>1. end \in line..c - 1
      BY <1>1, <2>1, <2>2
    <3> QED BY <1>1, <2>1, <2>2, <3>1 DEF Blank
  <2>5. c \in 1..Len(t) + 1 /\ c \in line..end
    BY <1>1, <2>1, <2>2, <2>4
  <2>6. EndsAt(t, c, {"d"}, p)
    BY <2>5, PastIs
  <2> HIDE DEF p
  <2>7. p \in c..Len(t) + 1 /\ (\A k \in c..p - 1 : t[k] = "d") /\ Piece(t, p) # "d"
    BY <2>6 DEF EndsAt
  <2>8. ASSUME p > end PROVE MarksOnly(t, line, end)
    <3>1. \A k \in c..end : k \in c..p - 1
      BY <1>1, <2>5, <2>7, <2>8
    <3> QED BY <2>2, <2>5, <2>7, <3>1 DEF MarksOnly
  <2>9. ASSUME MarksOnly(t, line, end) PROVE p > end
    <3>1. PICK x \in line..end : (\A k \in line..x - 1 : t[k] = "s") /\ (\A k \in x..end : t[k] = "d")
      BY <2>9 DEF MarksOnly
    <3>2. Piece(t, c) = t[c] /\ c \in 1..Len(t) /\ c \in Nat /\ x \in Nat
      <4>1. c \in 1..Len(t) /\ c \in Nat /\ x \in Nat
        BY <1>1, <1>2, <2>1, <2>5
      <4> QED BY <4>1, PieceOfText
    <3>3. c >= x
      <4> SUFFICES ASSUME ~ (c >= x) PROVE FALSE
        OBVIOUS
      <4>1. c \in line..x - 1
        BY <1>1, <1>2, <2>5, <3>2
      <4> QED BY <2>3, <3>1, <3>2, <4>1
    <3> SUFFICES ASSUME ~ (p > end) PROVE FALSE
      OBVIOUS
    <3>4. p \in x..end /\ p \in 1..Len(t)
      BY <1>1, <1>2, <2>1, <2>5, <2>7, <3>2, <3>3
    <3>5. Piece(t, p) = t[p]
      BY <3>4, PieceOfText
    <3> QED BY <2>7, <3>1, <3>4, <3>5
  <2> QED BY <2>8, <2>9 DEF p, c
<1>5. ~ (line <= end) => ~ MarksOnly(t, line, end)
  BY <1>1, <1>2 DEF MarksOnly
<1>6. CutEnd(t, e) = IF line <= end /\ Past(t, PastBlanks(t, line), {"d"}) > end
                     THEN Trimmed(t, Max({0, line - 2})) ELSE end
  BY DEF CutEnd, LineOf
<1> QED BY <1>3, <1>4, <1>5, <1>6

LEMMA CutEndBelow ==
  ASSUME NEW t \in Text, NEW e \in 0..Len(t)
  PROVE  CutEnd(t, e) \in 0..Trimmed(t, e) /\ CutEnd(t, e) \in 0..e
<1> DEFINE end == Trimmed(t, e)
           line == LineOf(t, end)
<1>1. Len(t) \in Nat /\ end \in 0..e /\ end \in 0..Len(t)
  BY TrimmedIs, PieceOfText
<1>2. line \in 1..end + 1
  BY <1>1, LineIs
<1>3. CutEnd(t, e) = IF MarksOnly(t, line, end)
                     THEN Trimmed(t, IF line = 1 THEN 0 ELSE line - 2) ELSE end
  BY CutEndIs
<1> HIDE DEF end, line
<1>4. (IF line = 1 THEN 0 ELSE line - 2) \in 0..Len(t)
      /\ (IF line = 1 THEN 0 ELSE line - 2) <= end
  BY <1>1, <1>2
<1>5. Trimmed(t, IF line = 1 THEN 0 ELSE line - 2) \in 0..end
  <2>1. Trimmed(t, IF line = 1 THEN 0 ELSE line - 2) \in 0..(IF line = 1 THEN 0 ELSE line - 2)
    BY <1>4, TrimmedIs
  <2> QED BY <1>1, <1>2, <1>4, <2>1
<1>6. CutEnd(t, e) \in 0..end
  BY <1>1, <1>3, <1>5
<1> QED BY <1>1, <1>6 DEF end

(* A cut reads no further than where it is asked for.                      *)
LEMMA CutEndAgrees ==
  ASSUME NEW t \in Text, NEW u \in Text, NEW e \in Nat, Agree(t, u, e)
  PROVE  CutEnd(t, e) = CutEnd(u, e)
<1>1. Len(t) \in Nat /\ Len(u) \in Nat /\ e \in 0..Len(t) /\ e \in 0..Len(u)
  BY PieceOfText DEF Agree
<1>2. \A d \in 0..e : Trimmed(u, d) = Trimmed(t, d) /\ Trimmed(t, d) \in 0..d
  <2> TAKE d \in 0..e
  <2>1. d \in 0..Len(t) /\ d \in 0..Len(u)
    BY <1>1
  <2> DEFINE r == Trimmed(t, d)
  <2>2. r \in 0..d /\ (r # 0 => t[r] \notin Blank) /\ \A k \in 1..d : k > r => t[k] \in Blank
    BY <2>1, TrimmedIs
  <2> HIDE DEF r
  <2>3. r # 0 => u[r] = t[r]
    BY <2>2 DEF Agree
  <2>4. \A k \in 1..d : u[k] = t[k]
    BY DEF Agree
  <2>5. Trimmed(u, d) = r
    BY <2>1, <2>2, <2>3, <2>4, TrimmedUnique
  <2> QED BY <2>2, <2>5 DEF r
<1> DEFINE end == Trimmed(t, e)
           line == LineOf(t, end)
<1>3. end \in 0..e /\ end = Trimmed(u, e) /\ end \in 0..Len(t)
  BY <1>1, <1>2
<1>4. {k \in 1..end : t[k] = "n"} = {k \in 1..end : u[k] = "n"}
  <2> HIDE DEF end
  <2> QED BY <1>3 DEF Agree
<1>5. LineOf(u, end) = line
  BY <1>4 DEF LineOf
<1>6. line \in 1..end + 1
  BY <1>3, LineIs
<1>7. CutEnd(t, e) = IF MarksOnly(t, line, end)
                     THEN Trimmed(t, IF line = 1 THEN 0 ELSE line - 2) ELSE end
  BY <1>1, CutEndIs
<1>8. CutEnd(u, e) = IF MarksOnly(u, line, end)
                     THEN Trimmed(u, IF line = 1 THEN 0 ELSE line - 2) ELSE end
  BY <1>1, <1>3, <1>5, CutEndIs
<1> HIDE DEF end, line
<1>9. \A k \in line..end : u[k] = t[k]
  BY <1>3, <1>6 DEF Agree
<1>10. MarksOnly(t, line, end) <=> MarksOnly(u, line, end)
  <2>1. end \in Nat /\ line \in Nat
    BY <1>3, <1>6
  <2>2. ASSUME NEW c \in line..end
        PROVE  /\ (\A k \in line..c - 1 : t[k] = "s") <=> (\A k \in line..c - 1 : u[k] = "s")
               /\ (\A k \in c..end : t[k] = "d") <=> (\A k \in c..end : u[k] = "d")
    <3>1. (\A k \in line..c - 1 : k \in line..end) /\ (\A k \in c..end : k \in line..end)
      BY <2>1
    <3> QED BY <1>9, <3>1
  <2> QED BY <2>2 DEF MarksOnly
<1>11. (IF line = 1 THEN 0 ELSE line - 2) \in 0..e
  BY <1>3, <1>6
<1> QED BY <1>2, <1>7, <1>8, <1>10, <1>11

LEMMA TrimmedMonotone ==
  ASSUME NEW t \in Text, NEW e \in 0..Len(t), NEW d \in 0..e
  PROVE  Trimmed(t, d) <= Trimmed(t, e)
<1>1. Len(t) \in Nat /\ d \in 0..Len(t)
  BY PieceOfText
<1>2. Trimmed(t, d) \in 0..d /\ (Trimmed(t, d) # 0 => t[Trimmed(t, d)] \notin Blank)
  BY <1>1, TrimmedIs
<1>3. Trimmed(t, e) \in 0..e /\ \A k \in 1..e : k > Trimmed(t, e) => t[k] \in Blank
  BY TrimmedIs
<1> QED BY <1>1, <1>2, <1>3

(* A later cut keeps no less.                                              *)
LEMMA CutEndMonotone ==
  ASSUME NEW t \in Text, NEW e \in 0..Len(t), NEW d \in 0..e
  PROVE  CutEnd(t, d) <= CutEnd(t, e)
<1> DEFINE end == Trimmed(t, e)
           line == LineOf(t, end)
           r == Trimmed(t, d)
<1>1. Len(t) \in Nat /\ d \in 0..Len(t) /\ e \in 0..Len(t)
  BY PieceOfText
<1>2. end \in 0..e /\ end \in 0..Len(t)
  BY <1>1, TrimmedIs
<1>3. r \in 0..d /\ (r # 0 => t[r] \notin Blank) /\ r \in 0..Len(t)
  BY <1>1, TrimmedIs
<1>4. r <= end
  BY <1>1, TrimmedMonotone
<1>5. CutEnd(t, d) \in 0..r
  BY <1>1, CutEndBelow
<1>6. line \in 1..end + 1 /\ (\A k \in line..end : t[k] # "n")
      /\ (line # 1 => t[line - 1] = "n")
  BY <1>2, LineIs
<1>7. CutEnd(t, e) = IF MarksOnly(t, line, end)
                     THEN Trimmed(t, IF line = 1 THEN 0 ELSE line - 2) ELSE end
  BY <1>1, CutEndIs
<1>8. CutEnd(t, d) = IF MarksOnly(t, LineOf(t, r), r)
                     THEN Trimmed(t, IF LineOf(t, r) = 1 THEN 0 ELSE LineOf(t, r) - 2) ELSE r
  BY <1>1, CutEndIs
<1>9. /\ LineOf(t, r) \in 1..r + 1 /\ (\A k \in LineOf(t, r)..r : t[k] # "n")
      /\ (LineOf(t, r) # 1 => t[LineOf(t, r) - 1] = "n")
  BY <1>3, LineIs
<1> HIDE DEF end, line, r
<1>10. CASE ~ MarksOnly(t, line, end)
  BY <1>1, <1>2, <1>3, <1>4, <1>5, <1>7, <1>10
<1>11. CASE MarksOnly(t, line, end) /\ r < line
  <2> DEFINE f == IF line = 1 THEN 0 ELSE line - 2
  <2>1. f \in 0..Len(t)
    BY <1>2, <1>6
  <2>2. r <= f
    <3>1. CASE line = 1
      BY <1>3, <1>11, <3>1
    <3>2. CASE line # 1
      <4>1. r # line - 1
        <5>1. line - 1 # 0
          BY <1>2, <1>6, <3>2
        <5> QED BY <1>3, <1>6, <3>2, <5>1 DEF Blank
      <4> QED BY <1>2, <1>3, <1>6, <1>11, <3>2, <4>1
    <3> QED BY <3>1, <3>2
  <2>3. CutEnd(t, e) = Trimmed(t, f)
    BY <1>7, <1>11
  <2> HIDE DEF f
  <2>4. Trimmed(t, f) \in 0..f /\ \A k \in 1..f : k > Trimmed(t, f) => t[k] \in Blank
    BY <2>1, TrimmedIs
  <2>5. r <= Trimmed(t, f)
    BY <1>1, <1>3, <2>1, <2>2, <2>4
  <2> QED BY <1>1, <1>3, <1>5, <2>1, <2>3, <2>4, <2>5
<1>12. CASE MarksOnly(t, line, end) /\ r >= line
  <2>1. LineOf(t, r) = line
    <3>1. ~ (LineOf(t, r) < line)
      <4> SUFFICES ASSUME LineOf(t, r) < line PROVE FALSE
        OBVIOUS
      <4>1. line - 1 \in LineOf(t, r)..r /\ line # 1
        BY <1>2, <1>3, <1>6, <1>9, <1>12
      <4> QED BY <1>6, <1>9, <4>1
    <3>2. ~ (LineOf(t, r) > line)
      <4> SUFFICES ASSUME LineOf(t, r) > line PROVE FALSE
        OBVIOUS
      <4>1. LineOf(t, r) - 1 \in line..end /\ LineOf(t, r) # 1
        BY <1>2, <1>3, <1>4, <1>6, <1>9, <1>12
      <4> QED BY <1>6, <1>9, <4>1
    <3> QED BY <1>2, <1>3, <1>6, <1>9, <3>1, <3>2
  <2>2. MarksOnly(t, line, r)
    <3>1. PICK c \in line..end : (\A k \in line..c - 1 : t[k] = "s") /\ (\A k \in c..end : t[k] = "d")
      BY <1>12 DEF MarksOnly
    <3>2. c <= r
      <4> SUFFICES ASSUME ~ (c <= r) PROVE FALSE
        OBVIOUS
      <4>1. r \in line..c - 1 /\ r # 0
        BY <1>2, <1>3, <1>6, <1>12, <3>1
      <4> QED BY <1>3, <3>1, <4>1 DEF Blank
    <3>3. c \in line..r /\ \A k \in c..r : k \in c..end
      BY <1>2, <1>3, <1>4, <1>6, <3>1, <3>2
    <3> QED BY <3>1, <3>3 DEF MarksOnly
  <2>3. CutEnd(t, d) = CutEnd(t, e)
    BY <1>7, <1>8, <1>12, <2>1, <2>2
  <2> QED BY <1>1, <1>3, <1>5, <2>3
<1> QED BY <1>2, <1>3, <1>6, <1>10, <1>11, <1>12

-----------------------------------------------------------------------------
(* Blocks: headers whose labels have come.  The first one stays the first. *)
Blocks(t) == {i \in 1..Len(t) : HeaderAt(t, i, 0) /\ \E j \in i..Len(t) : t[j] = "labels"}

LEMMA StrippedIs ==
  ASSUME NEW t \in Text, NEW floor \in Nat, \A i \in Blocks(t) : i > floor
  PROVE  StripFinalCheck(t, floor) =
           IF Blocks(t) = {} THEN t ELSE SubSeq(t, 1, CutEnd(t, Min(Blocks(t)) - 1))
<1> DEFINE B == {i \in floor + 1..Len(t) :
                   HeaderAt(t, i, floor) /\ \E j \in i..Len(t) : t[j] = "labels"}
<1>1. Len(t) \in Nat
  BY PieceOfText
<1>2. \A i \in floor + 1..Len(t) : HeaderAt(t, i, floor) <=> HeaderAt(t, i, 0)
  BY <1>1, FloorIsPassed
<1>3. B = Blocks(t)
  BY <1>1, <1>2 DEF Blocks
<1> HIDE DEF B
<1>4. StripFinalCheck(t, floor) = IF B = {} THEN t ELSE SubSeq(t, 1, CutEnd(t, Min(B) - 1))
  BY DEF StripFinalCheck, B
<1> QED BY <1>3, <1>4

LEMMA FirstBlock ==
  ASSUME NEW t \in Text, Blocks(t) # {}
  PROVE  /\ Min(Blocks(t)) \in Blocks(t) /\ Min(Blocks(t)) \in 1..Len(t)
         /\ \A i \in Blocks(t) : Min(Blocks(t)) <= i
<1>1. Blocks(t) \subseteq Nat /\ Blocks(t) \subseteq 1..Len(t)
  BY PieceOfText DEF Blocks
<1> QED BY <1>1, MinIs

LEMMA FirstBlockStays ==
  ASSUME NEW t \in Text, NEW u \in Text, Agree(t, u, Len(t)), Blocks(t) # {}
  PROVE  Blocks(u) # {} /\ Min(Blocks(u)) = Min(Blocks(t))
<1> DEFINE m == Min(Blocks(t))
<1>1. Len(t) \in Nat /\ Len(u) \in Nat /\ Len(t) <= Len(u) /\ Agree(u, t, Len(t))
  BY PieceOfText DEF Agree
<1>2. m \in Blocks(t) /\ m \in 1..Len(t) /\ \A i \in Blocks(t) : m <= i
  BY FirstBlock
<1> HIDE DEF m
<1>3. PICK j \in m..Len(t) : t[j] = "labels"
  BY <1>2 DEF Blocks
<1>4. j \in 1..Len(t) /\ j \in 1..Len(u) /\ u[j] = "labels" /\ m \in 1..j
  BY <1>1, <1>2, <1>3 DEF Agree
<1>5. Agree(t, u, j) /\ Agree(u, t, j)
  BY <1>1, <1>4 DEF Agree
<1>6. m \in Blocks(u)
  <2>1. HeaderAt(u, m, 0)
    BY <1>2, <1>3, <1>4, <1>5, HeaderBeforeLabel DEF Blocks
  <2> QED BY <1>1, <1>2, <1>3, <1>4, <2>1 DEF Blocks
<1>7. ASSUME NEW i \in Blocks(u) PROVE m <= i
  <2> SUFFICES ASSUME ~ (m <= i) PROVE FALSE
    OBVIOUS
  <2>1. i \in 1..Len(u) /\ HeaderAt(u, i, 0)
    BY DEF Blocks
  <2>2. i \in 1..j /\ i \in 1..Len(t) /\ j \in i..Len(t)
    BY <1>1, <1>2, <1>3, <2>1
  <2>3. HeaderAt(t, i, 0)
    BY <1>4, <1>5, <2>1, <2>2, HeaderBeforeLabel
  <2>4. i \in Blocks(t)
    BY <1>3, <2>2, <2>3 DEF Blocks
  <2> QED BY <1>2, <2>4
<1>8. Min(Blocks(u)) \in Blocks(u) /\ Min(Blocks(u)) <= m /\ Min(Blocks(u)) \in 1..Len(u)
  BY <1>6, FirstBlock
<1>9. m <= Min(Blocks(u))
  BY <1>7, <1>8
<1> QED BY <1>1, <1>2, <1>6, <1>8, <1>9 DEF m

-----------------------------------------------------------------------------
(* What a longer text shows of this one, and what is certain of it.        *)
Shown(t) == IF Blocks(t) = {} THEN Len(t) ELSE CutEnd(t, Min(Blocks(t)) - 1)

LEMMA ShownIs ==
  ASSUME NEW t \in Text
  PROVE  Shown(t) \in 0..Len(t) /\ \A i \in Blocks(t) : Shown(t) < i
<1>1. Len(t) \in Nat
  BY PieceOfText
<1>2. CASE Blocks(t) = {}
  BY <1>1, <1>2 DEF Shown
<1>3. CASE Blocks(t) # {}
  <2> DEFINE m == Min(Blocks(t))
  <2>1. m \in 1..Len(t) /\ \A i \in Blocks(t) : m <= i /\ i \in 1..Len(t)
    BY <1>3, FirstBlock DEF Blocks
  <2> HIDE DEF m
  <2>2. m - 1 \in 0..Len(t)
    BY <1>1, <2>1
  <2>3. CutEnd(t, m - 1) \in 0..m - 1
    BY <2>2, CutEndBelow
  <2> QED BY <1>1, <1>3, <2>1, <2>3 DEF Shown, m
<1> QED BY <1>2, <1>3

Certain(t, n) ==
  /\ n \in Nat
  /\ \A u \in Text : Agree(t, u, Len(t)) => n <= Shown(u)

LEMMA HeldIsCertain ==
  ASSUME NEW t \in Text, NEW u \in Text, Agree(t, u, Len(t)), NEW floor \in Nat,
         NEW v \in Text, Len(v) = Shown(t), Agree(v, t, Len(v)), Certain(t, floor)
  PROVE  HoldIndex(v, floor) \in 0..Shown(t) /\ HoldIndex(v, floor) <= Shown(u)
<1>1. Len(t) \in Nat /\ Len(u) \in Nat /\ Len(t) <= Len(u) /\ Shown(t) \in 0..Len(t)
  BY ShownIs, PieceOfText DEF Agree
<1> DEFINE n == Shown(t)
<1>2. /\ v \in Text /\ Len(v) = n /\ Agree(v, t, n) /\ n \in Nat /\ n <= Len(t)
      /\ \A k \in 1..n : v[k] = t[k]
  BY <1>1 DEF Agree
<1>3. n \in 0..Len(t)
  BY <1>1
<1> HIDE DEF n
<1> DEFINE H == {i \in floor + 1..Len(v) : HeaderAt(v, i, floor) \/ OpenAt(v, i, floor)}
           E == {i - 1 : i \in H} \cup {Len(v)}
           h == Min(E)
<1>13. ASSUME NEW i \in H PROVE i \in 1..n
  <2>1. i \in floor + 1..Len(v)
    OBVIOUS
  <2> HIDE DEF H
  <2> QED BY <1>2, <2>1
<1>14. HoldIndex(v, floor) = CutEnd(v, h)
  BY DEF HoldIndex
<1>15. \A i \in floor + 1..Len(v) : i \notin H => ~ HeaderAt(v, i, floor) /\ ~ OpenAt(v, i, floor)
  OBVIOUS
<1> HIDE DEF H
<1>4. E \subseteq 0..n /\ n \in E
  <2>1. \A x \in E : x = n \/ \E i \in H : x = i - 1
    BY <1>2
  <2>2. n \in E
    BY <1>2
  <2> HIDE DEF E
  <2> QED BY <1>2, <1>13, <2>1, <2>2
<1>16. \A i \in H : i - 1 \in E
  OBVIOUS
<1> HIDE DEF E
<1>5. E # {} /\ E \subseteq Nat
  BY <1>2, <1>4
<1>6. h \in E /\ \A x \in E : h <= x
  BY <1>5, MinIs
<1>7. h \in 0..n /\ HoldIndex(v, floor) = CutEnd(v, h)
  <2> HIDE DEF h
  <2> QED BY <1>4, <1>6, <1>14
<1>8. \A i \in H : h < i
  <2> SUFFICES ASSUME NEW i \in H PROVE h < i
    OBVIOUS
  <2>1. i - 1 \in E /\ i \in 1..n
    BY <1>13, <1>16
  <2> HIDE DEF h
  <2>2. h <= i - 1
    BY <1>6, <2>1
  <2> QED BY <1>2, <1>7, <2>1, <2>2
<1> HIDE DEF h
<1>9. CutEnd(v, h) \in 0..h /\ CutEnd(v, h) \in 0..n
  <2>1. CutEnd(v, h) \in 0..h
    BY <1>2, <1>7, CutEndBelow
  <2> QED BY <1>2, <1>7, <2>1
<1>10. CASE Blocks(t) # {}
  <2>1. Blocks(u) # {} /\ Min(Blocks(u)) = Min(Blocks(t))
    BY <1>10, FirstBlockStays
  <2>2. Min(Blocks(t)) - 1 \in Nat /\ Agree(t, u, Min(Blocks(t)) - 1)
    BY <1>1, <1>10, FirstBlock DEF Agree
  <2>3. Shown(u) = n
    BY <1>10, <2>1, <2>2, CutEndAgrees DEF Shown, n
  <2> QED BY <1>2, <1>7, <1>9, <2>3 DEF n
<1>11. CASE Blocks(t) = {} /\ Blocks(u) = {}
  BY <1>1, <1>2, <1>7, <1>9, <1>11 DEF Shown, n
<1>12. CASE Blocks(t) = {} /\ Blocks(u) # {}
  <2> DEFINE m == Min(Blocks(u))
  <2>1. m \in 1..Len(u) /\ HeaderAt(u, m, 0) /\ m - 1 \in 0..Len(u)
    <3>1. m \in 1..Len(u) /\ m \in Blocks(u)
      BY <1>12, FirstBlock
    <3> HIDE DEF m
    <3> QED BY <1>1, <3>1 DEF Blocks
  <2>2. Shown(u) = CutEnd(u, m - 1) /\ floor < m
    <3>1. m \in Blocks(u)
      BY <1>12, FirstBlock
    <3>2. floor <= Shown(u) /\ Shown(u) < m /\ Shown(u) \in Nat /\ m \in Nat
      BY <1>1, <2>1, <3>1, ShownIs DEF Certain
    <3>3. floor < m
      BY <3>2
    <3> QED BY <1>12, <3>3 DEF Shown
  <2> HIDE DEF m
  <2>3. n = Len(t) /\ Agree(t, v, n) /\ Agree(v, u, n)
    BY <1>1, <1>2, <1>12 DEF Shown, n, Agree
  <2>4. v = t
    BY <1>2, <2>3, AgreeIsEqual
  <2>5. h \in 0..Len(u) /\ h \in Nat /\ Agree(t, u, h)
    BY <1>1, <1>2, <1>7, <2>3 DEF Agree
  <2>6. CutEnd(t, h) = CutEnd(u, h)
    BY <2>5, CutEndAgrees
  <2>7. CASE h <= m - 1
    <3>1. h \in 0..m - 1
      BY <1>1, <2>1, <2>5, <2>7
    <3>2. CutEnd(u, h) <= CutEnd(u, m - 1)
      BY <2>1, <3>1, CutEndMonotone
    <3> QED BY <1>2, <1>7, <1>9, <2>2, <2>4, <2>6, <3>2 DEF n
  <2>8. CASE ~ (h <= m - 1)
    <3>1. m \in 1..Len(t) /\ m <= h
      BY <1>1, <1>2, <1>7, <2>1, <2>3, <2>8
    <3>2. m \notin H
      <4> SUFFICES ASSUME m \in H PROVE FALSE
        OBVIOUS
      <4>1. h < m
        BY <1>8
      <4> QED BY <1>1, <1>2, <1>7, <3>1, <4>1
    <3>3. ~ HeaderAt(t, m, 0) /\ ~ OpenAt(t, m, 0)
      <4>1. m \in floor + 1..Len(v) /\ m \in Nat /\ m > floor
        BY <1>1, <1>2, <2>1, <2>2, <2>3, <3>1
      <4>2. ~ HeaderAt(t, m, floor) /\ ~ OpenAt(t, m, floor)
        BY <1>15, <2>4, <3>2, <4>1
      <4> QED BY <4>1, <4>2, FloorIsPassed
    <3>4. \A k \in m..Len(t) : t[k] \in {"s", "n"}
      BY <2>1, <3>1, <3>3, HeaderSeen
    <3>5. h \in 0..Len(t) /\ m - 1 \in 0..Len(t) /\ m - 1 \in 0..h
      BY <1>1, <1>2, <1>7, <2>3, <3>1
    <3>6. Trimmed(t, h) = Trimmed(t, m - 1)
      <4> DEFINE r == Trimmed(t, m - 1)
      <4>1. r \in 0..m - 1 /\ (r # 0 => t[r] \notin Blank) /\ \A k \in 1..m - 1 : k > r => t[k] \in Blank
        BY <3>5, TrimmedIs
      <4> HIDE DEF r
      <4>2. r \in 0..h /\ \A k \in 1..h : k > r => t[k] \in Blank
        <5>1. \A k \in 1..h : k \in 1..m - 1 \/ k \in m..Len(t)
          BY <1>1, <3>1, <3>5
        <5> QED BY <3>4, <3>5, <4>1, <5>1 DEF Blank
      <4> QED BY <3>5, <4>1, <4>2, TrimmedUnique DEF r
    <3>7. CutEnd(t, h) = CutEnd(t, m - 1)
      BY <3>5, <3>6, CutEndIs
    <3>8. Agree(t, u, m - 1) /\ m - 1 \in Nat
      BY <1>1, <3>5 DEF Agree
    <3>9. CutEnd(t, m - 1) = CutEnd(u, m - 1)
      BY <3>8, CutEndAgrees
    <3>10. Shown(u) = CutEnd(v, h)
      BY <2>2, <2>4, <3>7, <3>9
    <3> QED BY <1>2, <1>7, <1>9, <3>10 DEF n
  <2> QED BY <2>7, <2>8
<1> QED BY <1>10, <1>11, <1>12

LEMMA ShownText ==
  ASSUME NEW t \in Text, NEW floor \in Nat, floor <= Shown(t)
  PROVE  /\ StripFinalCheck(t, floor) = SubSeq(t, 1, Shown(t))
         /\ SubSeq(t, 1, Shown(t)) \in Text
         /\ Len(SubSeq(t, 1, Shown(t))) = Shown(t)
         /\ Agree(SubSeq(t, 1, Shown(t)), t, Shown(t))
<1>1. Len(t) \in Nat /\ Shown(t) \in 0..Len(t) /\ \A i \in Blocks(t) : Shown(t) < i
  BY ShownIs, PieceOfText
<1>2. \A i \in Blocks(t) : i \in Nat
  BY <1>1 DEF Blocks
<1>3. \A i \in Blocks(t) : i > floor
  BY <1>1, <1>2
<1>4. StripFinalCheck(t, floor) = IF Blocks(t) = {} THEN t ELSE SubSeq(t, 1, CutEnd(t, Min(Blocks(t)) - 1))
  BY <1>3, StrippedIs
<1>5. SubSeq(t, 1, Len(t)) = t
  BY DEF Text
<1>6. StripFinalCheck(t, floor) = SubSeq(t, 1, Shown(t))
  BY <1>4, <1>5 DEF Shown
<1> DEFINE n == Shown(t)
<1>7. n \in 0..Len(t) /\ t \in Seq(Pieces)
  BY <1>1 DEF Text
<1> HIDE DEF n
<1>8. SubSeq(t, 1, n) \in Seq(Pieces) /\ Len(SubSeq(t, 1, n)) = n
      /\ \A k \in 1..n : SubSeq(t, 1, n)[k] = t[k]
  BY <1>1, <1>7
<1>9. Agree(SubSeq(t, 1, n), t, n)
  BY <1>1, <1>7, <1>8 DEF Agree
<1> QED BY <1>6, <1>8, <1>9 DEF n, Text

(* What is written grows along the text.                                   *)
LEMMA WrittenGrows ==
  ASSUME NEW t \in Text, NEW v \in Text, NEW n \in Nat, NEW m \in Nat,
         n <= m, m <= Len(v), Agree(v, t, Len(v))
  PROVE  SubSeq(t, 1, n) \o SubSeq(v, n + 1, m) = SubSeq(t, 1, m)
<1>1. t \in Seq(Pieces) /\ v \in Seq(Pieces) /\ Len(t) \in Nat /\ Len(v) \in Nat /\ Len(v) <= Len(t)
  BY DEF Text, Agree
<1>2. /\ SubSeq(t, 1, n) \in Text /\ Len(SubSeq(t, 1, n)) = n
      /\ \A k \in 1..n : SubSeq(t, 1, n)[k] = t[k]
  BY <1>1 DEF Text
<1>3. /\ SubSeq(v, n + 1, m) \in Text /\ Len(SubSeq(v, n + 1, m)) = m - n
      /\ \A k \in 1..m - n : SubSeq(v, n + 1, m)[k] = v[n + k]
  BY <1>1 DEF Text
<1>4. /\ SubSeq(t, 1, m) \in Text /\ Len(SubSeq(t, 1, m)) = m
      /\ \A k \in 1..m : SubSeq(t, 1, m)[k] = t[k]
  BY <1>1 DEF Text
<1> DEFINE a == SubSeq(t, 1, n)
           b == SubSeq(v, n + 1, m)
<1> HIDE DEF a, b
<1>5. /\ a \o b \in Text /\ Len(a \o b) = m
      /\ \A k \in 1..n : (a \o b)[k] = t[k]
      /\ \A k \in n + 1..m : (a \o b)[k] = v[k]
  BY <1>2, <1>3 DEF Text, a, b
<1>6. \A k \in 1..m : (a \o b)[k] = t[k]
  BY <1>1, <1>5 DEF Agree
<1>7. Agree(a \o b, SubSeq(t, 1, m), m)
  BY <1>4, <1>5, <1>6 DEF Agree
<1> QED BY <1>4, <1>5, <1>7, AgreeIsEqual DEF a, b

-----------------------------------------------------------------------------
(* What was written is the start of the reply, and can never be cut away.  *)
FilterInv ==
  /\ buf \in Text
  /\ Certain(buf, emitted)
  /\ out = SubSeq(buf, 1, emitted)

LEMMA FeedKeeps ==
  ASSUME FilterInv, NEW chunk \in Text, Feed(chunk)
  PROVE  FilterInv'
<1> DEFINE t == buf \o chunk
           v == StripFinalCheck(t, emitted)
           h == HoldIndex(v, emitted)
           safe == Max({emitted, h})
<1>1. t \in Text /\ Len(t) \in Nat /\ Agree(buf, t, Len(buf))
  BY DEF FilterInv, Text, Agree
<1>2. buf' = t /\ emitted' = safe /\ out' = out \o SubSeq(v, emitted + 1, safe)
  BY DEF Feed
<1> HIDE DEF t
<1>3. Certain(t, emitted)
  <2>1. \A u \in Text : Agree(t, u, Len(t)) => Agree(buf, u, Len(buf))
    BY <1>1, PieceOfText DEF Agree, FilterInv
  <2> QED BY <2>1 DEF FilterInv, Certain
<1>4. emitted \in Nat /\ emitted <= Shown(t)
  BY <1>1, <1>3 DEF Certain, Agree
<1>5. v = SubSeq(t, 1, Shown(t)) /\ v \in Text /\ Len(v) = Shown(t) /\ Agree(v, t, Len(v))
      /\ Shown(t) \in 0..Len(t)
  BY <1>1, <1>4, ShownText, ShownIs
<1> HIDE DEF v
<1>6. ASSUME NEW u \in Text, Agree(t, u, Len(t)) PROVE h \in 0..Shown(t) /\ h <= Shown(u)
  BY <1>1, <1>3, <1>4, <1>5, <1>6, HeldIsCertain
<1>7. h \in 0..Shown(t)
  BY <1>1, <1>6 DEF Agree
<1> HIDE DEF h
<1>8. (safe = emitted /\ h <= emitted) \/ (safe = h /\ emitted <= h)
  <2>1. h \in Nat
    BY <1>1, <1>5, <1>7
  <2>2. Max({emitted, h}) = IF emitted <= h THEN h ELSE emitted
    BY <1>4, <2>1, GreaterOfTwo
  <2>3. emitted \in Nat
    BY <1>4
  <2> QED BY <2>1, <2>2, <2>3
<1> HIDE DEF safe
<1>9. safe \in Nat /\ emitted <= safe /\ safe <= Len(v)
  BY <1>1, <1>4, <1>5, <1>7, <1>8
<1>10. Certain(t, safe)
  <2> SUFFICES ASSUME NEW u \in Text, Agree(t, u, Len(t)) PROVE safe <= Shown(u)
    BY <1>9 DEF Certain
  <2>1. emitted <= Shown(u)
    BY <1>3 DEF Certain
  <2>2. h <= Shown(u)
    BY <1>6
  <2> QED BY <1>8, <2>1, <2>2
<1>11. out = SubSeq(t, 1, emitted)
  <2>1. emitted <= Len(buf)
    <3>1. Agree(buf, buf, Len(buf)) /\ Len(buf) \in Nat
      BY DEF Agree, FilterInv, Text
    <3>2. emitted <= Shown(buf)
      BY <3>1 DEF FilterInv, Certain
    <3>3. Shown(buf) \in 0..Len(buf)
      BY ShownIs DEF FilterInv
    <3> QED BY <1>4, <3>1, <3>2, <3>3
  <2>2. SubSeq(t, 1, emitted) = SubSeq(buf, 1, emitted)
    BY <1>1, <1>4, <2>1 DEF FilterInv, Text, Agree
  <2> QED BY <2>2 DEF FilterInv
<1>12. out' = SubSeq(t, 1, safe)
  BY <1>1, <1>2, <1>4, <1>5, <1>9, <1>11, WrittenGrows
<1>13. Certain(buf', emitted')
  BY <1>2, <1>10
<1> QED BY <1>1, <1>2, <1>12, <1>13 DEF FilterInv

LEMMA FilterStays == FilterSpec => []FilterInv
<1>1. FilterInit => FilterInv
  <2> SUFFICES ASSUME FilterInit PROVE FilterInv
    OBVIOUS
  <2>1. buf \in Text /\ buf = <<>> /\ emitted = 0 /\ out = SubSeq(buf, 1, emitted)
    BY DEF FilterInit, Text
  <2>2. \A u \in Text : Shown(u) \in Nat
    BY ShownIs
  <2>3. Certain(buf, emitted)
    BY <2>1, <2>2 DEF Certain
  <2> QED BY <2>1, <2>3 DEF FilterInv
<1>2. FilterInv /\ [FilterNext]_filterVars => FilterInv'
  <2> SUFFICES ASSUME FilterInv, [FilterNext]_filterVars PROVE FilterInv'
    OBVIOUS
  <2>1. CASE UNCHANGED filterVars
    BY <2>1 DEF FilterInv, filterVars, Certain
  <2>2. ASSUME NEW p \in Pieces, Feed(<<p>>) PROVE FilterInv'
    <3>1. <<p>> \in Text
      BY DEF Text
    <3> QED BY <2>2, <3>1, FeedKeeps
  <2>3. ASSUME NEW p \in Pieces, NEW q \in Pieces, Feed(<<p, q>>) PROVE FilterInv'
    <3>1. <<p, q>> \in Text
      BY DEF Text
    <3> QED BY <2>3, <3>1, FeedKeeps
  <2> QED BY <2>1, <2>2, <2>3 DEF FilterNext
<1> QED BY <1>1, <1>2, PTL DEF FilterSpec

(* FilteredDeltaStream never has to take a piece back: for replies of any   *)
(* length, what it has written so far and would flush now is what          *)
(* strip_final_check leaves of the whole reply.                            *)
THEOREM StreamIsTheReply == FilterSpec => []StreamIsStripped
<1>1. FilterInv => StreamIsStripped
  <2> SUFFICES ASSUME FilterInv PROVE StreamIsStripped
    OBVIOUS
  <2>1. buf \in Text /\ emitted \in Nat /\ Len(buf) \in Nat /\ Agree(buf, buf, Len(buf))
    BY PieceOfText DEF FilterInv, Certain, Agree
  <2>2. emitted <= Shown(buf) /\ Shown(buf) \in 0..Len(buf)
    BY <2>1, ShownIs DEF FilterInv, Certain
  <2> DEFINE v == SubSeq(buf, 1, Shown(buf))
  <2>3. /\ StripFinalCheck(buf, emitted) = v /\ StripFinalCheck(buf, 0) = v
        /\ v \in Text /\ Len(v) = Shown(buf) /\ Agree(v, buf, Len(v))
    <3>1. 0 \in Nat /\ 0 <= Shown(buf)
      BY <2>1, <2>2
    <3> QED BY <2>1, <2>2, <3>1, ShownText
  <2>4. v = SubSeq(buf, 1, Len(v))
    BY <2>3
  <2> HIDE DEF v
  <2>5. Len(v) \in Nat /\ emitted <= Len(v)
    BY <2>1, <2>2, <2>3
  <2>6. SubSeq(buf, 1, emitted) \o SubSeq(v, emitted + 1, Len(v)) = SubSeq(buf, 1, Len(v))
    <3>1. Len(v) <= Len(v)
      BY <2>5
    <3> QED BY <2>1, <2>3, <2>5, <3>1, WrittenGrows
  <2>7. out \o SubSeq(v, emitted + 1, Len(v)) = v
    BY <2>4, <2>6 DEF FilterInv
  <2>8. StripFinalCheck(buf, emitted) = v /\ StripFinalCheck(buf, 0) = v
    BY <2>3
  <2> QED BY <2>7, <2>8 DEF StreamIsStripped, Flushed
<1> QED BY <1>1, FilterStays, PTL

-----------------------------------------------------------------------------
(* The saved text.  A line is escapable when a header follows its          *)
(* backslashes.                                                            *)
SavedLine == Seq(Tokens)

LEMMA SomeTokens == {"\\", "x", ";; Local", "user:", "assistant:", "tool:"} \subseteq Tokens
BY DEF Tokens, Headers
HeaderAfter(line, k) ==
  /\ k \in 0..Len(line) - 1 /\ line[k + 1] \in Headers
  /\ \A i \in 1..k : line[i] = "\\"

LEMMA EscapableIs ==
  ASSUME NEW line \in SavedLine
  PROVE  IsEscapable(line) <=> \E k \in 0..Len(line) : HeaderAfter(line, k)
<1>1. Len(line) \in Nat
  BY DEF SavedLine
<1>2. ASSUME NEW k \in 0..Len(line)
      PROVE  IsHeader(SubSeq(line, k + 1, Len(line))) <=> (k < Len(line) /\ line[k + 1] \in Headers)
  <2> DEFINE rest == SubSeq(line, k + 1, Len(line))
  <2>1. rest \in SavedLine /\ Len(rest) = Len(line) - k /\ (k < Len(line) => rest[1] = line[k + 1])
    BY <1>1 DEF SavedLine
  <2>2. rest # <<>> <=> Len(rest) # 0
    <3> HIDE DEF rest
    <3> QED BY <2>1 DEF SavedLine
  <2> HIDE DEF rest
  <2>3. rest # <<>> <=> k < Len(line)
    BY <1>1, <2>1, <2>2
  <2>4. IsHeader(rest) <=> (k < Len(line) /\ line[k + 1] \in Headers)
    BY <2>1, <2>3 DEF IsHeader
  <2> QED BY <2>4 DEF rest
<1>3. ASSUME NEW k \in 0..Len(line)
      PROVE  k \in 0..Len(line) - 1 <=> k < Len(line)
  BY <1>1
<1> QED BY <1>2, <1>3 DEF IsEscapable, HeaderAfter

(* An escaped line is never a header, and unescaping gives the line back.  *)
LEMMA EscapeIsUndone ==
  ASSUME NEW line \in SavedLine
  PROVE  /\ Escape(line) \in SavedLine /\ ~ IsHeader(Escape(line))
         /\ Unescape(Escape(line)) = line
         /\ Escape(line) = <<>> <=> line = <<>>
<1>1. Len(line) \in Nat
  BY DEF SavedLine
<1>2. CASE IsEscapable(line)
  <2> DEFINE new == <<"\\">> \o line
  <2>1. /\ new \in SavedLine /\ Len(new) = Len(line) + 1 /\ new[1] = "\\" /\ new # <<>>
        /\ Tail(new) = line
    <3>1. <<"\\">> \in SavedLine
      <4>1. \A t \in Tokens : <<t>> \in Seq(Tokens)
        OBVIOUS
      <4>2. "\\" \in Tokens
        BY SomeTokens
      <4> QED BY <4>1, <4>2 DEF SavedLine
    <3>2. new \in SavedLine /\ Len(new) = Len(line) + 1 /\ new[1] = "\\"
      BY <3>1 DEF SavedLine
    <3>3. Len(Tail(new)) = Len(line) /\ Tail(new) \in SavedLine
          /\ \A i \in 1..Len(line) : Tail(new)[i] = line[i]
      BY <1>1, <3>1 DEF SavedLine
    <3> HIDE DEF new
    <3>4. new # <<>>
      BY <1>1, <3>2 DEF SavedLine
    <3>5. Tail(new) = line
      BY <3>3 DEF SavedLine
    <3> QED BY <3>2, <3>4, <3>5
  <2>2. \A i \in 1..Len(line) : new[i + 1] = line[i]
    BY <1>1 DEF SavedLine
  <2>3. Escape(line) = new
    BY <1>2 DEF Escape
  <2> HIDE DEF new
  <2>4. PICK k \in 0..Len(line) : HeaderAfter(line, k)
    BY <1>2, EscapableIs
  <2>5. HeaderAfter(new, k + 1)
    <3>1. k \in 0..Len(line) - 1 /\ k + 1 \in 1..Len(line)
      BY <1>1, <2>4 DEF HeaderAfter
    <3>2. new[k + 2] = line[k + 1]
      BY <2>2, <3>1
    <3>3. ASSUME NEW i \in 1..k + 1 PROVE new[i] = "\\"
      <4>1. CASE i = 1
        BY <2>1, <4>1
      <4>2. CASE i # 1
        <5>1. i - 1 \in 1..k /\ i - 1 \in 1..Len(line) /\ (i - 1) + 1 = i
          BY <1>1, <3>1, <4>2
        <5> QED BY <2>2, <2>4, <5>1 DEF HeaderAfter
      <4> QED BY <4>1, <4>2
    <3>4. k + 1 \in 0..Len(new) - 1 /\ (k + 1) + 1 = k + 2
      BY <1>1, <2>1, <3>1
    <3> QED BY <2>4, <3>2, <3>3, <3>4 DEF HeaderAfter
  <2>6. IsEscapable(new)
    <3>1. k + 1 \in 0..Len(new)
      BY <1>1, <2>1
    <3> QED BY <2>1, <2>5, <3>1, EscapableIs
  <2>7. Unescape(new) = line
    BY <2>1, <2>6 DEF Unescape
  <2>8. ~ IsHeader(new)
    BY <2>1 DEF IsHeader, Headers
  <2>9. line # <<>>
    BY <1>1, <2>4 DEF HeaderAfter
  <2> QED BY <2>1, <2>3, <2>7, <2>8, <2>9
<1>3. CASE ~ IsEscapable(line)
  <2>1. Escape(line) = line /\ Unescape(line) = line
    BY <1>3 DEF Escape, Unescape
  <2>2. ~ IsHeader(line)
    <3> SUFFICES ASSUME IsHeader(line) PROVE FALSE
      OBVIOUS
    <3>1. Len(line) >= 1 /\ line[1] \in Headers
      BY DEF IsHeader, SavedLine
    <3>2. HeaderAfter(line, 0) /\ 0 \in 0..Len(line)
      BY <1>1, <3>1 DEF HeaderAfter
    <3> QED BY <1>3, <3>2, EscapableIs
  <2> QED BY <2>1, <2>2
<1> QED BY <1>2, <1>3

LEMMA UnescapeIs ==
  ASSUME NEW line \in SavedLine
  PROVE  Unescape(line) \in SavedLine
<1>1. CASE line = <<>>
  BY <1>1 DEF Unescape
<1>2. CASE line # <<>>
  <2>1. Tail(line) \in SavedLine
    BY <1>2 DEF SavedLine
  <2> QED BY <2>1 DEF Unescape
<1> QED BY <1>1, <1>2

-----------------------------------------------------------------------------
(* The text of some lines runs from a to b.                                *)
TextSpan(ls, a, b) ==
  /\ a \in 1..Len(ls) /\ b \in 1..Len(ls)
  /\ ls[a] # <<>> /\ ls[b] # <<>>
  /\ \A k \in 1..Len(ls) : ls[k] # <<>> => a <= k /\ k <= b

LEMMA SomeText ==
  ASSUME NEW ls \in Seq(SavedLine), NEW k \in 1..Len(ls), ls[k] # <<>>
  PROVE  \E a, b \in 1..Len(ls) : TextSpan(ls, a, b)
<1> DEFINE text == {i \in 1..Len(ls) : ls[i] # <<>>}
<1>1. Len(ls) \in Nat /\ text # {} /\ text \subseteq 0..Len(ls) /\ text \subseteq Nat
  OBVIOUS
<1> HIDE DEF text
<1>2. Min(text) \in text /\ \A x \in text : Min(text) <= x
  BY <1>1, MinIs
<1>3. Max(text) \in text /\ \A x \in text : x <= Max(text)
  BY <1>1, MaxIs
<1>4. TextSpan(ls, Min(text), Max(text))
  BY <1>2, <1>3 DEF text, TextSpan
<1> QED BY <1>4 DEF TextSpan

LEMMA StrippedOfText ==
  ASSUME NEW ls \in Seq(SavedLine), NEW a, NEW b, TextSpan(ls, a, b)
  PROVE  Stripped(ls) = SubSeq(ls, a, b)
<1> DEFINE text == {i \in 1..Len(ls) : ls[i] # <<>>}
<1>1. Len(ls) \in Nat /\ a \in Nat /\ b \in Nat /\ a \in text /\ b \in text /\ text \subseteq 0..Len(ls) /\ text \subseteq Nat
  BY DEF TextSpan
<1>2. Stripped(ls) = SubSeq(ls, Min(text), Max(text))
  BY <1>1 DEF Stripped
<1>3. \A x \in text : a <= x /\ x <= b
  BY DEF TextSpan
<1> HIDE DEF text
<1>4. Min(text) = a
  <2>1. Min(text) \in text /\ Min(text) <= a
    BY <1>1, MinIs
  <2>2. Min(text) \in Nat /\ a <= Min(text)
    BY <1>1, <1>3, <2>1
  <2> QED BY <1>1, <2>1, <2>2
<1>5. Max(text) = b
  <2>1. Max(text) \in text /\ b <= Max(text)
    BY <1>1, MaxIs
  <2>2. Max(text) \in Nat /\ Max(text) <= b
    BY <1>1, <1>3, <2>1
  <2> QED BY <1>1, <2>1, <2>2
<1> QED BY <1>2, <1>4, <1>5

LEMMA StrippedOfBlanks ==
  ASSUME NEW ls \in Seq(SavedLine), \A k \in 1..Len(ls) : ls[k] = <<>>
  PROVE  Stripped(ls) = <<>>
BY DEF Stripped

(* What is left begins and ends with text, and is left alone by a second   *)
(* stripping; blank lines below change nothing.                            *)
LEMMA StrippedLines ==
  ASSUME NEW ls \in Seq(SavedLine)
  PROVE  /\ Stripped(ls) \in Seq(SavedLine)
         /\ Stripped(Stripped(ls)) = Stripped(ls)
         /\ Stripped(Append(ls, <<>>)) = Stripped(ls)
<1>1. Len(ls) \in Nat
  OBVIOUS
<1> DEFINE more == Append(ls, <<>>)
<1>2. /\ more \in Seq(SavedLine) /\ Len(more) = Len(ls) + 1 /\ more[Len(ls) + 1] = <<>>
      /\ \A k \in 1..Len(ls) : more[k] = ls[k]
  BY DEF SavedLine
<1> HIDE DEF more
<1>3. CASE \A k \in 1..Len(ls) : ls[k] = <<>>
  <2>1. Stripped(ls) = <<>>
    BY <1>3, StrippedOfBlanks
  <2>2. \A k \in 1..Len(more) : more[k] = <<>>
    <3> SUFFICES ASSUME NEW k \in 1..Len(more) PROVE more[k] = <<>>
      OBVIOUS
    <3>1. k \in 1..Len(ls) \/ k = Len(ls) + 1
      BY <1>1, <1>2
    <3> QED BY <1>2, <1>3, <3>1
  <2>3. Stripped(more) = <<>>
    BY <1>2, <2>2, StrippedOfBlanks
  <2>4. <<>> \in Seq(SavedLine) /\ \A k \in 1..Len(<<>>) : <<>>[k] = <<>>
    OBVIOUS
  <2>5. Stripped(<<>>) = <<>>
    BY <2>4, StrippedOfBlanks
  <2> QED BY <2>1, <2>3, <2>4, <2>5 DEF more
<1>4. CASE ~ \A k \in 1..Len(ls) : ls[k] = <<>>
  <2>1. PICK a, b \in 1..Len(ls) : TextSpan(ls, a, b)
    BY <1>4, SomeText
  <2>2. Stripped(ls) = SubSeq(ls, a, b)
    BY <2>1, StrippedOfText
  <2>3. a <= b
    BY <2>1 DEF TextSpan
  <2> DEFINE text == SubSeq(ls, a, b)
             n == b - a + 1
  <2>4. n \in Nat \ {0} /\ text \in Seq(SavedLine) /\ Len(text) = n
        /\ \A k \in 1..n : text[k] = ls[a + k - 1]
    BY <1>1, <2>3
  <2>5. TextSpan(text, 1, n)
    <3>1. text[1] = ls[a] /\ text[n] = ls[b]
      <4>1. 1 \in 1..n /\ n \in 1..n /\ a + 1 - 1 = a /\ a + n - 1 = b
        BY <1>1, <2>3
      <4> HIDE DEF text, n
      <4> QED BY <2>4, <4>1
    <3> HIDE DEF text, n
    <3> QED BY <2>1, <2>4, <3>1 DEF TextSpan
  <2>6. Stripped(text) = text
    <3>1. Stripped(text) = SubSeq(text, 1, n)
      BY <2>4, <2>5, StrippedOfText
    <3> HIDE DEF text, n
    <3> QED BY <2>4, <3>1
  <2>7. TextSpan(more, a, b)
    <3> SUFFICES ASSUME NEW k \in 1..Len(more), more[k] # <<>>
                 PROVE  a <= k /\ k <= b
      BY <1>1, <1>2, <2>1 DEF TextSpan
    <3>1. k \in 1..Len(ls)
      BY <1>1, <1>2
    <3> QED BY <1>2, <2>1, <3>1 DEF TextSpan
  <2>8. Stripped(more) = SubSeq(more, a, b)
    BY <1>2, <2>7, StrippedOfText
  <2>9. SubSeq(more, a, b) = SubSeq(ls, a, b)
    BY <1>1, <1>2, <2>3
  <2> HIDE DEF text
  <2> QED BY <2>2, <2>4, <2>6, <2>8, <2>9 DEF text, more
<1> QED BY <1>3, <1>4

-----------------------------------------------------------------------------
(* Reading the text.                                                       *)
SavedRoles == {"user", "assistant", "tool"}
SavedMessage == [role : SavedRoles, lines : Seq(SavedLine), calls : BOOLEAN]
SavedBlock == [role : SavedRoles \cup {"none"}, lines : Seq(SavedLine), messages : Seq(SavedMessage)]

LEMMA FlushBlockIs ==
  ASSUME NEW b \in SavedBlock
  PROVE  FlushBlock(b) \in Seq(SavedMessage)
<1>1. b.role \in SavedRoles \cup {"none"} /\ b.lines \in Seq(SavedLine) /\ b.messages \in Seq(SavedMessage)
  BY DEF SavedBlock
<1>2. CASE b.role \in {"none", "tool"} \/ Stripped(b.lines) = <<>>
  BY <1>1, <1>2 DEF FlushBlock
<1>3. CASE ~ (b.role \in {"none", "tool"} \/ Stripped(b.lines) = <<>>)
  <2> DEFINE m == [role |-> b.role, lines |-> Stripped(b.lines), calls |-> FALSE]
  <2>1. Stripped(b.lines) \in Seq(SavedLine)
    BY <1>1, StrippedLines
  <2>2. m \in SavedMessage
    BY <1>1, <1>3, <2>1 DEF SavedMessage
  <2>3. FlushBlock(b) = Append(b.messages, m)
    BY <1>3 DEF FlushBlock
  <2> HIDE DEF m
  <2> QED BY <1>1, <2>2, <2>3
<1> QED BY <1>2, <1>3

LEMMA HeaderLine ==
  ASSUME NEW b, NEW line \in SavedLine, NEW role \in SavedRoles
  PROVE  LET new == <<HeaderOf(role)>> \o line IN
         /\ new \in SavedLine
         /\ ParseLine(b, new) = [role |-> role, lines |-> <<Unescape(line)>>, messages |-> FlushBlock(b)]
<1> DEFINE h == HeaderOf(role)
           new == <<h>> \o line
<1>1. h \in Headers /\ h \in Tokens /\ RoleOf(h) = role
  BY DEF HeaderOf, RoleOf, Headers, Tokens, SavedRoles
<1> HIDE DEF h
<1>2. <<h>> \in SavedLine
  BY <1>1 DEF SavedLine
<1>3. new \in SavedLine /\ Len(new) = Len(line) + 1 /\ new[1] = h /\ Len(line) \in Nat
  BY <1>2 DEF SavedLine
<1>4. Tail(new) = line
  <2>1. Tail(new) \in SavedLine /\ Len(Tail(new)) = Len(line) /\ \A i \in 1..Len(line) : Tail(new)[i] = line[i]
    BY <1>2 DEF SavedLine
  <2> HIDE DEF new
  <2> QED BY <2>1 DEF SavedLine
<1> HIDE DEF new
<1>5. new # <<>>
  BY <1>3 DEF SavedLine
<1>6. IsHeader(new)
  BY <1>1, <1>3, <1>5 DEF IsHeader
<1>7. ParseLine(b, new) = [role |-> role, lines |-> <<Unescape(line)>>, messages |-> FlushBlock(b)]
  BY <1>1, <1>3, <1>4, <1>6 DEF ParseLine
<1> QED BY <1>3, <1>7 DEF new, h

LEMMA BodyLine ==
  ASSUME NEW b \in SavedBlock, NEW line \in SavedLine, ~ IsHeader(line)
  PROVE  ParseLine(b, line) =
           [role |-> b.role, lines |-> Append(b.lines, Unescape(line)), messages |-> b.messages]
BY DEF ParseLine, SavedBlock

(* Reading LS in block b leaves the reader in block c.                     *)
Scans(b, ls, c) ==
  \E f \in [0..Len(ls) -> SavedBlock] :
    /\ f[0] = b /\ f[Len(ls)] = c
    /\ \A i \in 1..Len(ls) : f[i] = ParseLine(f[i - 1], ls[i])

LEMMA ScanOfBody ==
  ASSUME NEW ls \in Seq(SavedLine), NEW c, Scans(NoBlock, ls, c)
  PROVE  ParseBody(ls) = FlushBlock(c)
<1> DEFINE L == Len(ls)
           Run(f) == f = [i \in 0..L |-> IF i = 0 THEN NoBlock ELSE ParseLine(f[i - 1], ls[i])]
<1>1. L \in Nat
  OBVIOUS
<1>2. PICK f \in [0..L -> SavedBlock] :
        /\ f[0] = NoBlock /\ f[L] = c
        /\ \A i \in 1..L : f[i] = ParseLine(f[i - 1], ls[i])
  BY DEF Scans
<1>3. Run(f)
  <2> HIDE DEF L
  <2> QED BY <1>1, <1>2
<1> DEFINE h == CHOOSE k : Run(k)
<1>4. Run(h)
  BY <1>3
<1>5. ParseBody(ls) = FlushBlock(h[L])
  BY DEF ParseBody
<1> HIDE DEF h
<1>6. h[0] = NoBlock /\ \A i \in 1..L : h[i] = ParseLine(h[i - 1], ls[i])
  <2> HIDE DEF L
  <2> QED BY <1>1, <1>4
<1> HIDE DEF Run, L
<1> DEFINE Same == {i \in 0..L : h[i] = f[i]}
<1>7. 0 \in Same
  BY <1>1, <1>2, <1>6
<1>8. ASSUME NEW i \in 1..L, i - 1 \in Same PROVE i \in Same
  BY <1>1, <1>2, <1>6, <1>8
<1>9. h[L] = f[L]
  <2> HIDE DEF Same
  <2>1. \A i \in 0..L : i \in Same
    BY <1>1, <1>7, <1>8, StepByStep
  <2>2. L \in Same
    BY <1>1, <2>1
  <2> QED BY <2>2 DEF Same
<1> QED BY <1>2, <1>5, <1>9

LEMMA ScansOn ==
  ASSUME NEW a, NEW b, NEW c, NEW p \in Seq(SavedLine), NEW q \in Seq(SavedLine),
         Scans(a, p, b), Scans(b, q, c)
  PROVE  p \o q \in Seq(SavedLine) /\ Scans(a, p \o q, c)
<1> DEFINE P == Len(p)
           Q == Len(q)
           r == p \o q
<1>1. P \in Nat /\ Q \in Nat /\ r \in Seq(SavedLine) /\ Len(r) = P + Q
      /\ (\A i \in 1..P : r[i] = p[i]) /\ (\A i \in 1..Q : r[P + i] = q[i])
  OBVIOUS
<1>2. PICK f \in [0..P -> SavedBlock] :
        f[0] = a /\ f[P] = b /\ \A i \in 1..P : f[i] = ParseLine(f[i - 1], p[i])
  BY DEF Scans
<1>3. PICK g \in [0..Q -> SavedBlock] :
        g[0] = b /\ g[Q] = c /\ \A i \in 1..Q : g[i] = ParseLine(g[i - 1], q[i])
  BY DEF Scans
<1> HIDE DEF P, Q, r
<1> DEFINE k == [i \in 0..P + Q |-> IF i <= P THEN f[i] ELSE g[i - P]]
<1>4. k \in [0..P + Q -> SavedBlock]
  <2>1. \A i \in 0..P + Q : (i <= P => i \in 0..P) /\ (~ (i <= P) => i - P \in 0..Q)
    BY <1>1
  <2> QED BY <2>1
<1>5. \A i \in 0..P : i \in 0..P + Q /\ k[i] = f[i]
  BY <1>1
<1>6. \A i \in 0..Q : k[P + i] = g[i]
  <2> SUFFICES ASSUME NEW i \in 0..Q PROVE k[P + i] = g[i]
    OBVIOUS
  <2>1. P + i \in 0..P + Q /\ (P + i) - P = i /\ (P + i <= P <=> i = 0)
    BY <1>1
  <2>2. CASE i = 0
    <3>1. P + i = P /\ P \in 0..P
      BY <1>1, <2>2
    <3> HIDE DEF k
    <3> QED BY <1>2, <1>3, <1>5, <2>2, <3>1
  <2>3. CASE i # 0
    BY <2>1, <2>3
  <2> QED BY <2>2, <2>3
<1> HIDE DEF k
<1>7. ASSUME NEW i \in 1..P + Q PROVE k[i] = ParseLine(k[i - 1], r[i])
  <2>1. CASE i <= P
    <3>1. i \in 1..P /\ i \in 0..P /\ i - 1 \in 0..P
      BY <1>1, <2>1
    <3> QED BY <1>1, <1>2, <1>5, <3>1
  <2>2. CASE ~ (i <= P)
    <3>1. i - P \in 1..Q /\ i - P \in 0..Q /\ i - P - 1 \in 0..Q /\ P + (i - P) = i
          /\ P + (i - P - 1) = i - 1
      BY <1>1, <2>2
    <3>2. k[i] = g[i - P] /\ k[i - 1] = g[i - P - 1] /\ r[i] = q[i - P]
      BY <1>1, <1>6, <3>1
    <3> QED BY <1>3, <3>1, <3>2
  <2> QED BY <2>1, <2>2
<1>8. k[0] = a /\ k[P + Q] = c
  <2>1. 0 \in 0..P /\ Q \in 0..Q
    BY <1>1
  <2> QED BY <1>2, <1>3, <1>5, <1>6, <2>1
<1>9. Scans(a, r, c)
  BY <1>1, <1>4, <1>7, <1>8 DEF Scans
<1> QED BY <1>1, <1>9 DEF r

-----------------------------------------------------------------------------
(* Lines that are read back as others, and never as a header.              *)
Escapes(es, ls) ==
  /\ es \in Seq(SavedLine) /\ ls \in Seq(SavedLine) /\ Len(es) = Len(ls)
  /\ \A k \in 1..Len(ls) :
       /\ ~ IsHeader(es[k]) /\ Unescape(es[k]) = ls[k]
       /\ es[k] = <<>> <=> ls[k] = <<>>

LEMMA EscapesStripped ==
  ASSUME NEW es, NEW ls, Escapes(es, ls)
  PROVE  Escapes(Stripped(es), Stripped(ls))
<1>1. es \in Seq(SavedLine) /\ ls \in Seq(SavedLine) /\ Len(es) = Len(ls) /\ Len(ls) \in Nat
  BY DEF Escapes
<1>2. CASE \A k \in 1..Len(ls) : ls[k] = <<>>
  <2>1. \A k \in 1..Len(es) : es[k] = <<>>
    BY <1>1, <1>2 DEF Escapes
  <2>2. Stripped(es) = <<>> /\ Stripped(ls) = <<>>
    BY <1>1, <1>2, <2>1, StrippedOfBlanks
  <2>3. <<>> \in Seq(SavedLine) /\ Len(<<>>) = 0
    OBVIOUS
  <2> QED BY <2>2, <2>3 DEF Escapes
<1>3. CASE ~ \A k \in 1..Len(ls) : ls[k] = <<>>
  <2>1. PICK a, b \in 1..Len(ls) : TextSpan(ls, a, b)
    BY <1>1, <1>3, SomeText
  <2>2. TextSpan(es, a, b)
    BY <1>1, <2>1 DEF TextSpan, Escapes
  <2>3. Stripped(ls) = SubSeq(ls, a, b) /\ Stripped(es) = SubSeq(es, a, b)
    BY <1>1, <2>1, <2>2, StrippedOfText
  <2>4. a <= b
    BY <2>1 DEF TextSpan
  <2> DEFINE sl == SubSeq(ls, a, b)
             se == SubSeq(es, a, b)
             n  == b - a + 1
  <2>5. /\ n \in Nat /\ sl \in Seq(SavedLine) /\ se \in Seq(SavedLine) /\ Len(sl) = n /\ Len(se) = n
        /\ \A k \in 1..n : sl[k] = ls[a + k - 1] /\ se[k] = es[a + k - 1]
    BY <1>1, <2>4
  <2>6. \A k \in 1..n : a + k - 1 \in 1..Len(ls)
    BY <1>1, <2>4
  <2> HIDE DEF sl, se, n
  <2>7. Escapes(se, sl)
    BY <2>5, <2>6 DEF Escapes
  <2> QED BY <2>3, <2>7 DEF sl, se
<1> QED BY <1>2, <1>3

LEMMA EscapesMore ==
  ASSUME NEW es, NEW ls, Escapes(es, ls)
  PROVE  Escapes(es \o <<CallsLine>>, ls \o <<CallsLine>>)
<1>1. /\ es \in Seq(SavedLine) /\ ls \in Seq(SavedLine) /\ Len(es) = Len(ls) /\ Len(ls) \in Nat
      /\ \A k \in 1..Len(ls) :
           /\ ~ IsHeader(es[k]) /\ Unescape(es[k]) = ls[k]
           /\ es[k] = <<>> <=> ls[k] = <<>>
  BY DEF Escapes
<1>2. CallsLine \in SavedLine /\ Len(CallsLine) = 1 /\ CallsLine[1] = "x" /\ CallsLine # <<>>
  <2>1. "x" \in Tokens
    BY SomeTokens
  <2> QED BY <2>1 DEF CallsLine, SavedLine
<1>3. ~ IsHeader(CallsLine) /\ Unescape(CallsLine) = CallsLine
  BY <1>2 DEF IsHeader, Unescape, Headers
<1> HIDE DEF CallsLine
<1> DEFINE em == es \o <<CallsLine>>
           lm == ls \o <<CallsLine>>
           n  == Len(ls) + 1
<1>4. /\ em \in Seq(SavedLine) /\ lm \in Seq(SavedLine) /\ Len(em) = n /\ Len(lm) = n
      /\ em[n] = CallsLine /\ lm[n] = CallsLine
      /\ \A k \in 1..Len(ls) : em[k] = es[k] /\ lm[k] = ls[k]
  BY <1>1, <1>2
<1> HIDE DEF em, lm
<1>5. \A k \in 1..n :
        /\ ~ IsHeader(em[k]) /\ Unescape(em[k]) = lm[k]
        /\ em[k] = <<>> <=> lm[k] = <<>>
  <2> SUFFICES ASSUME NEW k \in 1..n
               PROVE  /\ ~ IsHeader(em[k]) /\ Unescape(em[k]) = lm[k]
                      /\ em[k] = <<>> <=> lm[k] = <<>>
    OBVIOUS
  <2>1. CASE k = n
    BY <1>3, <1>4, <2>1
  <2>2. CASE k # n
    <3>1. k \in 1..Len(ls)
      BY <1>1, <2>2
    <3> QED BY <1>1, <1>4, <3>1
  <2> QED BY <2>1, <2>2
<1>6. Escapes(em, lm)
  BY <1>4, <1>5 DEF Escapes
<1> QED BY <1>6 DEF em, lm

LEMMA BodyIs ==
  ASSUME NEW m \in SavedMessage
  PROVE  \E body, ls :
           /\ Escapes(body, ls) /\ Stripped(ls) = AsText(m).lines
           /\ Block(m) = IF body \in {<<>>, <<<<>>>>} THEN <<>>
                         ELSE <<<<HeaderOf(m.role)>> \o body[1]>> \o Tail(body) \o <<<<>>>>
<1> DEFINE escaped == [i \in 1..Len(m.lines) |-> Escape(m.lines[i])]
<1>1. m.lines \in Seq(SavedLine) /\ m.calls \in BOOLEAN /\ Len(m.lines) \in Nat
  BY DEF SavedMessage
<1>2. Escapes(escaped, m.lines)
  <2>1. \A i \in 1..Len(m.lines) : m.lines[i] \in SavedLine
    BY <1>1
  <2>2. escaped \in [1..Len(m.lines) -> SavedLine]
    BY <2>1, EscapeIsUndone
  <2>3. \A i \in 1..Len(m.lines) : escaped[i] = Escape(m.lines[i])
    OBVIOUS
  <2> HIDE DEF escaped
  <2>4. escaped \in Seq(SavedLine) /\ Len(escaped) = Len(m.lines)
    BY <1>1, <2>2
  <2> QED BY <1>1, <2>1, <2>3, <2>4, EscapeIsUndone DEF Escapes
<1> DEFINE body == IF m.calls THEN Stripped(escaped \o <<CallsLine>>) ELSE escaped
           ls == IF m.calls THEN Stripped(m.lines \o <<CallsLine>>) ELSE m.lines
<1>3. Block(m) = IF body \in {<<>>, <<<<>>>>} THEN <<>>
                 ELSE <<<<HeaderOf(m.role)>> \o body[1]>> \o Tail(body) \o <<<<>>>>
  BY DEF Block
<1> HIDE DEF escaped
<1>4. Escapes(body, ls)
  BY <1>2, EscapesMore, EscapesStripped
<1>5. Stripped(ls) = AsText(m).lines
  <2>1. AsText(m).lines = Stripped(IF m.calls THEN m.lines \o <<CallsLine>> ELSE m.lines)
    BY DEF AsText
  <2>2. m.lines \o <<CallsLine>> \in Seq(SavedLine)
    BY <1>2, EscapesMore DEF Escapes
  <2> QED BY <2>1, <2>2, StrippedLines
<1> HIDE DEF body, ls
<1> QED BY <1>3, <1>4, <1>5

-----------------------------------------------------------------------------
(* What a reader makes of the block of a message: the message as text, if  *)
(* it is not a tool's and has one.                                         *)
KeepOne(ks, m) == IF m.role = "tool" \/ AsText(m).lines = <<>> THEN ks ELSE Append(ks, AsText(m))

LEMMA HeadedScan ==
  ASSUME NEW b \in SavedBlock, NEW role \in SavedRoles, NEW body, NEW ls,
         Escapes(body, ls), body # <<>>
  PROVE  LET text == <<<<HeaderOf(role)>> \o body[1]>> \o Tail(body) \o <<<<>>>>
             c == [role |-> role, lines |-> Append(ls, <<>>), messages |-> FlushBlock(b)]
         IN text \in Seq(SavedLine) /\ c \in SavedBlock /\ Scans(b, text, c)
<1> DEFINE N == Len(body)
           head == <<HeaderOf(role)>> \o body[1]
           text == <<head>> \o Tail(body) \o <<<<>>>>
           all == Append(ls, <<>>)
           c == [role |-> role, lines |-> all, messages |-> FlushBlock(b)]
<1>1. body \in Seq(SavedLine) /\ ls \in Seq(SavedLine) /\ Len(ls) = N /\ N \in Nat \ {0}
  BY DEF Escapes
<1>2. body[1] \in SavedLine /\ head \in SavedLine
      /\ ParseLine(b, head) = [role |-> role, lines |-> <<Unescape(body[1])>>, messages |-> FlushBlock(b)]
  BY <1>1, HeaderLine
<1> HIDE DEF head
<1>3. /\ text \in Seq(SavedLine) /\ Len(text) = N + 1
      /\ text[1] = head /\ text[N + 1] = <<>> /\ \A i \in 2..N : text[i] = body[i]
  <2>1. Tail(body) \in Seq(SavedLine) /\ Len(Tail(body)) = N - 1
        /\ \A i \in 1..N - 1 : Tail(body)[i] = body[i + 1]
    BY <1>1
  <2> DEFINE tail == Tail(body)
             first == <<head>> \o tail
  <2>2. tail \in Seq(SavedLine) /\ Len(tail) = N - 1 /\ \A i \in 1..N - 1 : tail[i] = body[i + 1]
    BY <2>1
  <2> HIDE DEF tail, N
  <2>3. first \in Seq(SavedLine) /\ Len(first) = N /\ first[1] = head
        /\ \A i \in 1..N - 1 : first[i + 1] = body[i + 1]
    BY <1>1, <1>2, <2>2
  <2> HIDE DEF first
  <2>4. <<>> \in SavedLine
    BY DEF SavedLine
  <2>5. first \o <<<<>>>> \in Seq(SavedLine) /\ Len(first \o <<<<>>>>) = N + 1
        /\ (first \o <<<<>>>>)[N + 1] = <<>> /\ \A i \in 1..N : (first \o <<<<>>>>)[i] = first[i]
    BY <1>1, <2>3, <2>4
  <2>6. \A i \in 2..N : i - 1 \in 1..N - 1 /\ (i - 1) + 1 = i
    BY <1>1
  <2>7. \A i \in 2..N : first[i] = body[i]
    BY <2>3, <2>6
  <2>8. text = first \o <<<<>>>>
    BY DEF first, tail
  <2> HIDE DEF text
  <2> QED BY <1>1, <2>3, <2>5, <2>7, <2>8
<1>4. /\ all \in Seq(SavedLine) /\ Len(all) = N + 1 /\ all[N + 1] = <<>>
      /\ \A i \in 1..N : all[i] = ls[i]
  <2>1. <<>> \in SavedLine
    BY DEF SavedLine
  <2> QED BY <1>1, <2>1
<1> HIDE DEF N, text, all
<1>5. \A i \in 2..N + 1 : text[i] \in SavedLine /\ ~ IsHeader(text[i]) /\ Unescape(text[i]) = all[i]
  <2> SUFFICES ASSUME NEW i \in 2..N + 1
               PROVE  text[i] \in SavedLine /\ ~ IsHeader(text[i]) /\ Unescape(text[i]) = all[i]
    OBVIOUS
  <2>1. text[i] \in SavedLine
    BY <1>1, <1>3
  <2>2. CASE i = N + 1
    BY <1>3, <1>4, <2>1, <2>2 DEF IsHeader, Unescape
  <2>3. CASE i # N + 1
    <3>1. i \in 2..N /\ i \in 1..N
      BY <1>1, <2>3
    <3>2. ~ IsHeader(body[i]) /\ Unescape(body[i]) = ls[i]
      BY <1>1, <3>1 DEF Escapes
    <3> QED BY <1>3, <1>4, <2>1, <3>1, <3>2
  <2> QED BY <2>2, <2>3
<1> DEFINE at(i) == [role |-> role, lines |-> SubSeq(all, 1, i), messages |-> FlushBlock(b)]
           f == [i \in 0..N + 1 |-> IF i = 0 THEN b ELSE at(i)]
<1>6. FlushBlock(b) \in Seq(SavedMessage)
  BY FlushBlockIs
<1>7. \A i \in 1..N + 1 : at(i) \in SavedBlock
  <2> SUFFICES ASSUME NEW i \in 1..N + 1 PROVE at(i) \in SavedBlock
    OBVIOUS
  <2>1. SubSeq(all, 1, i) \in Seq(SavedLine)
    BY <1>1, <1>4
  <2> QED BY <1>6, <2>1 DEF SavedBlock
<1>8. at(1) = ParseLine(b, text[1])
  <2>1. SubSeq(all, 1, 1) = <<all[1]>>
    <3> DEFINE one == SubSeq(all, 1, 1)
    <3>1. one \in Seq(SavedLine) /\ Len(one) = 1 /\ one[1] = all[1]
      BY <1>1, <1>4
    <3> HIDE DEF one
    <3>2. one = <<one[1]>>
      BY <3>1
    <3> QED BY <3>1, <3>2 DEF one
  <2>2. Unescape(body[1]) = ls[1] /\ all[1] = ls[1]
    <3>1. 1 \in 1..N
      BY <1>1
    <3> QED BY <1>1, <1>4, <3>1 DEF Escapes
  <2> QED BY <1>2, <1>3, <2>1, <2>2
<1>9. ASSUME NEW i \in 2..N + 1 PROVE at(i) = ParseLine(at(i - 1), text[i])
  <2>1. i - 1 \in 1..N + 1
    BY <1>1
  <2>2. at(i - 1) \in SavedBlock
    BY <1>7, <2>1
  <2>3. SubSeq(all, 1, i) = Append(SubSeq(all, 1, i - 1), all[i])
    BY <1>1, <1>4, <2>1
  <2>4. ParseLine(at(i - 1), text[i]) =
          [role |-> at(i - 1).role, lines |-> Append(at(i - 1).lines, Unescape(text[i])),
           messages |-> at(i - 1).messages]
    <3> HIDE DEF at
    <3> QED BY <1>5, <2>2, BodyLine
  <2>5. at(i - 1).role = role /\ at(i - 1).lines = SubSeq(all, 1, i - 1)
        /\ at(i - 1).messages = FlushBlock(b)
    OBVIOUS
  <2> QED BY <1>5, <2>3, <2>4, <2>5
<1>10. at(N + 1) = c
  <2>1. \A q \in Seq(SavedLine) : SubSeq(q, 1, Len(q)) = q
    OBVIOUS
  <2>2. SubSeq(all, 1, N + 1) = all
    BY <1>4, <2>1
  <2> QED BY <2>2
<1> HIDE DEF at
<1>11. f \in [0..N + 1 -> SavedBlock] /\ f[0] = b /\ \A i \in 1..N + 1 : f[i] = at(i)
  <2>1. \A i \in 0..N + 1 : i # 0 => i \in 1..N + 1
    BY <1>1
  <2>2. 0 \in 0..N + 1 /\ \A i \in 1..N + 1 : i \in 0..N + 1 /\ i # 0
    BY <1>1
  <2> QED BY <1>7, <2>1, <2>2
<1> HIDE DEF f
<1>12. ASSUME NEW i \in 1..N + 1 PROVE f[i] = ParseLine(f[i - 1], text[i])
  <2>1. CASE i = 1
    BY <1>8, <1>11, <2>1
  <2>2. CASE i # 1
    <3>1. i \in 2..N + 1 /\ i - 1 \in 1..N + 1
      BY <1>1, <2>2
    <3> QED BY <1>9, <1>11, <3>1
  <2> QED BY <2>1, <2>2
<1>13. f[N + 1] = c /\ c \in SavedBlock
  <2>1. N + 1 \in 1..N + 1
    BY <1>1
  <2> QED BY <1>7, <1>10, <1>11, <2>1
<1> HIDE DEF c
<1>14. Scans(b, text, c)
  BY <1>3, <1>11, <1>12, <1>13 DEF Scans
<1> QED BY <1>3, <1>13, <1>14 DEF text, head, c, all

LEMMA BlockScan ==
  ASSUME NEW b \in SavedBlock, NEW m \in SavedMessage
  PROVE  /\ Block(m) \in Seq(SavedLine)
         /\ \E c \in SavedBlock : Scans(b, Block(m), c) /\ FlushBlock(c) = KeepOne(FlushBlock(b), m)
<1>1. PICK body, ls :
        /\ Escapes(body, ls) /\ Stripped(ls) = AsText(m).lines
        /\ Block(m) = IF body \in {<<>>, <<<<>>>>} THEN <<>>
                      ELSE <<<<HeaderOf(m.role)>> \o body[1]>> \o Tail(body) \o <<<<>>>>
  BY BodyIs
<1>2. body \in Seq(SavedLine) /\ ls \in Seq(SavedLine) /\ Len(ls) = Len(body) /\ m.role \in SavedRoles
  BY <1>1 DEF Escapes, SavedMessage
<1>3. CASE body \in {<<>>, <<<<>>>>}
  <2>1. \A k \in 1..Len(ls) : ls[k] = <<>>
    <3>1. \A k \in 1..Len(body) : body[k] = <<>>
      BY <1>3
    <3> QED BY <1>1, <1>2, <3>1 DEF Escapes
  <2>2. AsText(m).lines = <<>>
    BY <1>1, <1>2, <2>1, StrippedOfBlanks
  <2>3. Block(m) = <<>> /\ <<>> \in Seq(SavedLine) /\ Len(<<>>) = 0
    BY <1>1, <1>3
  <2> DEFINE f == [i \in 0..0 |-> b]
  <2>4. f \in [0..0 -> SavedBlock] /\ f[0] = b
    OBVIOUS
  <2> HIDE DEF f
  <2>5. Scans(b, <<>>, b)
    BY <2>3, <2>4 DEF Scans
  <2> QED BY <2>2, <2>3, <2>5 DEF KeepOne
<1>4. CASE body \notin {<<>>, <<<<>>>>}
  <2> DEFINE c == [role |-> m.role, lines |-> Append(ls, <<>>), messages |-> FlushBlock(b)]
  <2>1. /\ Block(m) \in Seq(SavedLine) /\ c \in SavedBlock /\ Scans(b, Block(m), c)
    <3> DEFINE text == <<<<HeaderOf(m.role)>> \o body[1]>> \o Tail(body) \o <<<<>>>>
    <3>1. Block(m) = text
      BY <1>1, <1>4
    <3>2. text \in Seq(SavedLine) /\ c \in SavedBlock /\ Scans(b, text, c)
      BY <1>1, <1>2, <1>4, HeadedScan
    <3> HIDE DEF text, c
    <3> QED BY <3>1, <3>2
  <2>2. Stripped(c.lines) = AsText(m).lines
    BY <1>1, <1>2, StrippedLines
  <2>3. c.role = m.role /\ c.messages = FlushBlock(b)
    OBVIOUS
  <2>4. AsText(m) = [role |-> m.role, lines |-> AsText(m).lines, calls |-> FALSE]
    BY DEF AsText
  <2> HIDE DEF c
  <2>5. FlushBlock(c) = KeepOne(FlushBlock(b), m)
    <3>1. c.role # "none"
      BY <1>2, <2>3 DEF SavedRoles
    <3> QED BY <2>2, <2>3, <2>4, <3>1 DEF FlushBlock, KeepOne
  <2> QED BY <2>1, <2>5
<1> QED BY <1>3, <1>4

(* What is left of a conversation, message by message.                     *)
Keeps(ms, ks) ==
  \E f \in [0..Len(ms) -> Seq(SavedMessage)] :
    /\ f[0] = <<>> /\ f[Len(ms)] = ks
    /\ \A i \in 1..Len(ms) : f[i] = KeepOne(f[i - 1], ms[i])

LEMMA TextIsRead ==
  ASSUME NEW ms \in Seq(SavedMessage), NEW ks, Keeps(ms, ks)
  PROVE  /\ ConversationText(ms) \in Seq(SavedLine)
         /\ \E c \in SavedBlock : Scans(NoBlock, ConversationText(ms), c) /\ FlushBlock(c) = ks
<1> DEFINE L == Len(ms)
           S == Seq(SavedLine)
           F == [p \in (1..L) \X S |-> p[2] \o Block(ms[p[1]])]
           Run(f) == f = [i \in 0..L |-> IF i = 0 THEN <<>> ELSE f[i - 1] \o Block(ms[i])]
<1>1. L \in Nat /\ <<>> \in S /\ \A i \in 1..L : ms[i] \in SavedMessage
  OBVIOUS
<1>2. NoBlock \in SavedBlock /\ FlushBlock(NoBlock) = <<>>
  <2>1. <<>> \in Seq(SavedLine) /\ <<>> \in Seq(SavedMessage)
    OBVIOUS
  <2>2. NoBlock \in SavedBlock
    BY <2>1 DEF NoBlock, SavedBlock
  <2> QED BY <2>2 DEF NoBlock, FlushBlock
<1>3. \A i \in 1..L : Block(ms[i]) \in S
  BY <1>1, <1>2, BlockScan
<1>4. \A i \in 1..L : \A t \in S : t \o Block(ms[i]) \in S
  BY <1>3
<1> HIDE DEF S
<1>5. F \in [(1..L) \X S -> S]
  <2> HIDE DEF L
  <2> QED BY <1>4
<1>6. \A i \in 1..L : \A t \in S : F[<<i, t>>] = t \o Block(ms[i])
  <2> SUFFICES ASSUME NEW i \in 1..L, NEW t \in S PROVE F[<<i, t>>] = t \o Block(ms[i])
    OBVIOUS
  <2>1. <<i, t>> \in (1..L) \X S
    OBVIOUS
  <2> QED BY <2>1
<1> HIDE DEF F
<1>7. PICK g \in [0..L -> S] : Follows(g, L, <<>>, F)
  <2> HIDE DEF L
  <2> QED BY <1>1, <1>5, RecursionExists, Zenon
<1>8. \A i \in 1..L : g[i] = g[i - 1] \o Block(ms[i])
  <2> SUFFICES ASSUME NEW i \in 1..L PROVE g[i] = g[i - 1] \o Block(ms[i])
    OBVIOUS
  <2>1. i - 1 \in 0..L
    BY <1>1
  <2> HIDE DEF L
  <2>2. g[i - 1] \in S
    BY <2>1
  <2> QED BY <1>6, <1>7, <2>2 DEF Follows
<1>9. Run(g)
  <2> DEFINE e(i) == IF i = 0 THEN <<>> ELSE g[i - 1] \o Block(ms[i])
  <2> HIDE DEF L
  <2>1. \A i \in 0..L : g[i] = e(i)
    <3> SUFFICES ASSUME NEW i \in 0..L PROVE g[i] = e(i)
      OBVIOUS
    <3>1. i = 0 \/ i \in 1..L
      BY <1>1
    <3>2. ~ (0 \in 1..L)
      BY <1>1
    <3> QED BY <1>7, <1>8, <3>1, <3>2 DEF Follows
  <2> HIDE DEF e
  <2>2. g = [i \in 0..L |-> e(i)]
    BY <1>7, <2>1
  <2> QED BY <2>2 DEF e
<1> DEFINE h == CHOOSE f : Run(f)
<1>10. Run(h)
  BY <1>9
<1>11. ConversationText(ms) = h[L]
  BY DEF ConversationText
<1> HIDE DEF h
<1>12. h[0] = <<>> /\ \A i \in 1..L : h[i] = h[i - 1] \o Block(ms[i])
  <2> HIDE DEF L
  <2> QED BY <1>1, <1>10
<1> HIDE DEF Run
<1>13. PICK kept \in [0..L -> Seq(SavedMessage)] :
         /\ kept[0] = <<>> /\ kept[L] = ks
         /\ \A i \in 1..L : kept[i] = KeepOne(kept[i - 1], ms[i])
  BY DEF Keeps
<1> HIDE DEF L
<1> DEFINE Read(i) == /\ h[i] \in S
                      /\ \E c \in SavedBlock : Scans(NoBlock, h[i], c) /\ FlushBlock(c) = kept[i]
           Good == {i \in 0..L : Read(i)}
<1>14. 0 \in Good
  <2> DEFINE f == [i \in 0..0 |-> NoBlock]
  <2>1. f \in [0..0 -> SavedBlock] /\ f[0] = NoBlock /\ Len(<<>>) = 0
    BY <1>2
  <2> HIDE DEF f
  <2>2. Scans(NoBlock, <<>>, NoBlock)
    BY <2>1 DEF Scans
  <2> QED BY <1>1, <1>2, <1>12, <1>13, <2>2
<1>15. ASSUME NEW i \in 1..L, i - 1 \in Good PROVE i \in Good
  <2>1. Read(i - 1)
    BY <1>15
  <2>2. PICK b \in SavedBlock : Scans(NoBlock, h[i - 1], b) /\ FlushBlock(b) = kept[i - 1]
    BY <2>1
  <2>3. PICK c \in SavedBlock : Scans(b, Block(ms[i]), c) /\ FlushBlock(c) = KeepOne(FlushBlock(b), ms[i])
    BY <1>1, BlockScan
  <2>4. h[i - 1] \in Seq(SavedLine) /\ Block(ms[i]) \in Seq(SavedLine)
    BY <1>3, <2>1 DEF S
  <2>5. h[i - 1] \o Block(ms[i]) \in Seq(SavedLine) /\ Scans(NoBlock, h[i - 1] \o Block(ms[i]), c)
    BY <2>2, <2>3, <2>4, ScansOn
  <2>6. h[i] = h[i - 1] \o Block(ms[i]) /\ FlushBlock(c) = kept[i]
    BY <1>12, <1>13, <2>2, <2>3
  <2>7. Read(i)
    BY <2>5, <2>6 DEF S
  <2>8. i \in 0..L
    BY <1>1
  <2> QED BY <2>7, <2>8
<1>16. L \in Good
  <2> HIDE DEF Good
  <2>1. \A i \in 0..L : i \in Good
    BY <1>1, <1>14, <1>15, StepByStep
  <2>2. L \in 0..L
    BY <1>1
  <2> QED BY <2>1, <2>2
<1>17. Read(L)
  BY <1>16
<1> QED BY <1>11, <1>13, <1>17 DEF S

(* The metadata cut off is the one the session wrote.                      *)
LEMMA MetadataStripped ==
  ASSUME NEW text \in Seq(SavedLine)
  PROVE  StripMetadata(text \o Metadata) = text
<1> DEFINE n == Len(text)
           file == text \o Metadata
           marks == {i \in 1..Len(file) : file[i] = <<";; Local">>}
<1>1. Metadata \in Seq(SavedLine) /\ Len(Metadata) = 3 /\ Metadata[1] = <<";; Local">>
      /\ Metadata[2] # <<";; Local">> /\ Metadata[3] # <<";; Local">>
  <2> DEFINE a == <<";; Local">>
             b == <<"x">>
             c == <<";; End">>
  <2>1. {";; Local", ";; End", "x"} \subseteq Tokens
    BY DEF Tokens
  <2>2. a \in SavedLine /\ b \in SavedLine /\ c \in SavedLine
    <3>1. \A t \in Tokens : <<t>> \in Seq(Tokens)
      OBVIOUS
    <3> QED BY <2>1, <3>1 DEF SavedLine
  <2>3. b # a /\ c # a
    OBVIOUS
  <2>4. Metadata = <<a, b, c>>
    BY DEF Metadata
  <2> HIDE DEF a, b, c
  <2>5. <<a, b, c>> \in Seq(SavedLine) /\ Len(<<a, b, c>>) = 3
        /\ <<a, b, c>>[1] = a /\ <<a, b, c>>[2] = b /\ <<a, b, c>>[3] = c
    BY <2>2
  <2> QED BY <2>3, <2>4, <2>5 DEF a
<1> DEFINE mark == <<";; Local">>
<1>2. Metadata \in Seq(SavedLine) /\ Len(Metadata) = 3 /\ Metadata[1] = mark
      /\ Metadata[2] # mark /\ Metadata[3] # mark
  BY <1>1
<1>3. StripMetadata(file) = SubSeq(file, 1, Max(marks) - 1)
  BY DEF StripMetadata
<1>4. marks = {i \in 1..Len(file) : file[i] = mark}
  OBVIOUS
<1> HIDE DEF Metadata
<1>5. /\ n \in Nat /\ file \in Seq(SavedLine) /\ Len(file) = n + 3
      /\ (\A i \in 1..n : file[i] = text[i]) /\ (\A i \in 1..3 : file[n + i] = Metadata[i])
  <2>1. \A q \in Seq(SavedLine) :
          /\ text \o q \in Seq(SavedLine) /\ Len(text \o q) = Len(text) + Len(q) /\ Len(text) \in Nat
          /\ \A i \in 1..Len(text) : (text \o q)[i] = text[i]
          /\ \A i \in 1..Len(q) : (text \o q)[Len(text) + i] = q[i]
    OBVIOUS
  <2> QED BY <1>2, <2>1
<1> HIDE DEF file, n, mark, marks
<1>6. file[n + 1] = Metadata[1] /\ file[n + 2] = Metadata[2] /\ file[n + 3] = Metadata[3]
  BY <1>5
<1>7. n + 1 \in marks /\ marks \subseteq 0..n + 3
  <2>1. n + 1 \in 1..Len(file)
    BY <1>5
  <2>2. marks \subseteq 1..n + 3
    BY <1>5, <1>4
  <2> QED BY <1>2, <1>5, <1>6, <1>4, <2>1, <2>2
<1>8. \A i \in marks : i <= n + 1
  <2> SUFFICES ASSUME NEW i \in marks, ~ (i <= n + 1) PROVE FALSE
    OBVIOUS
  <2>1. i \in 1..n + 3 /\ file[i] = mark
    BY <1>5, <1>4
  <2>2. i = n + 2 \/ i = n + 3
    BY <1>5, <2>1
  <2> QED BY <1>2, <1>6, <2>1, <2>2
<1>9. n + 3 \in Nat
  BY <1>5
<1>10. Max(marks) = n + 1
  <2>1. Max(marks) \in marks /\ n + 1 <= Max(marks)
    BY <1>7, <1>9, MaxIs
  <2>2. Max(marks) \in 0..n + 3 /\ Max(marks) <= n + 1
    BY <1>7, <1>8, <2>1
  <2> QED BY <1>5, <2>1, <2>2
<1> DEFINE cut == SubSeq(file, 1, n)
<1>11. StripMetadata(file) = cut
  <2>1. Max(marks) - 1 = n
    BY <1>5, <1>10
  <2> QED BY <1>3, <2>1
<1>12. cut \in Seq(SavedLine) /\ Len(cut) = n /\ \A i \in 1..n : cut[i] = text[i]
  BY <1>5
<1> HIDE DEF cut
<1>13. cut = text
  BY <1>12 DEF n
<1> QED BY <1>11, <1>13 DEF file

LEMMA RestoredIs ==
  ASSUME conversation \in Seq(SavedMessage), Keeps(conversation, said)
  PROVE  Restored = said
<1>1. ConversationText(conversation) \in Seq(SavedLine)
  BY TextIsRead
<1>2. PICK c \in SavedBlock :
        Scans(NoBlock, ConversationText(conversation), c) /\ FlushBlock(c) = said
  BY TextIsRead
<1>3. StripMetadata(Saved(conversation)) = ConversationText(conversation)
  BY <1>1, MetadataStripped DEF Saved
<1> QED BY <1>1, <1>2, <1>3, ScanOfBody DEF Restored

-----------------------------------------------------------------------------
(* What was said is text already: saving and reading it changes nothing.   *)
Settled(m) ==
  m \in SavedMessage /\ m.role # "tool" /\ m.lines # <<>> /\ AsText(m) = m
SavedInv ==
  /\ conversation \in Seq(SavedMessage) /\ said \in Seq(SavedMessage)
  /\ \A i \in 1..Len(said) : Settled(said[i])
  /\ Keeps(conversation, said)

LEMMA AsTextIs ==
  ASSUME NEW m \in SavedMessage
  PROVE  /\ AsText(m) \in SavedMessage
         /\ m.role # "tool" /\ AsText(m).lines # <<>> => Settled(AsText(m))
<1> DEFINE t == AsText(m)
           ls == IF m.calls THEN m.lines \o <<CallsLine>> ELSE m.lines
<1>1. m.role \in SavedRoles /\ m.lines \in Seq(SavedLine)
  BY DEF SavedMessage
<1>2. ls \in Seq(SavedLine)
  <2>1. \A k \in Tokens : <<k>> \in Seq(Tokens)
    OBVIOUS
  <2>2. CallsLine \in SavedLine
    BY <2>1, SomeTokens DEF CallsLine, SavedLine
  <2> QED BY <1>1, <2>2
<1>3. t = [role |-> m.role, calls |-> FALSE, lines |-> Stripped(ls)]
  BY DEF AsText
<1> HIDE DEF ls
<1>4. Stripped(ls) \in Seq(SavedLine) /\ Stripped(Stripped(ls)) = Stripped(ls)
  BY <1>2, StrippedLines
<1>5. t.role = m.role /\ t.calls = FALSE /\ t.lines = Stripped(ls)
  BY <1>3
<1> HIDE DEF t
<1>6. t \in SavedMessage
  BY <1>1, <1>3, <1>4 DEF SavedMessage
<1>7. AsText(t) = t
  <2>1. AsText(t) = [role |-> t.role, calls |-> FALSE, lines |-> Stripped(t.lines)]
    BY <1>5 DEF AsText
  <2> QED BY <1>3, <1>4, <1>5, <2>1
<1>8. m.role # "tool" /\ t.lines # <<>> => Settled(t)
  BY <1>5, <1>6, <1>7 DEF Settled
<1> QED BY <1>6, <1>8 DEF t

LEMMA KeepsSettled ==
  ASSUME NEW ks \in Seq(SavedMessage), \A i \in 1..Len(ks) : Settled(ks[i])
  PROVE  Keeps(ks, ks)
<1> DEFINE L == Len(ks)
           f == [i \in 0..L |-> SubSeq(ks, 1, i)]
<1>1. L \in Nat
  OBVIOUS
<1>2. \A i \in 0..L : SubSeq(ks, 1, i) \in Seq(SavedMessage)
  OBVIOUS
<1>3. SubSeq(ks, 1, 0) = <<>> /\ SubSeq(ks, 1, L) = ks
  OBVIOUS
<1>4. \A i \in 1..L : SubSeq(ks, 1, i) = Append(SubSeq(ks, 1, i - 1), ks[i])
  OBVIOUS
<1>5. \A i \in 1..L : i \in 0..L /\ i - 1 \in 0..L
  BY <1>1
<1>6. f \in [0..L -> Seq(SavedMessage)] /\ f[0] = <<>> /\ f[L] = ks
  <2>1. 0 \in 0..L /\ L \in 0..L
    BY <1>1
  <2> HIDE DEF L
  <2> QED BY <1>2, <1>3, <2>1
<1>7. \A i \in 1..L : f[i] = KeepOne(f[i - 1], ks[i])
  <2> SUFFICES ASSUME NEW i \in 1..L PROVE f[i] = KeepOne(f[i - 1], ks[i])
    OBVIOUS
  <2>1. f[i] = SubSeq(ks, 1, i) /\ f[i - 1] = SubSeq(ks, 1, i - 1)
    BY <1>5
  <2> HIDE DEF f, L
  <2>2. f[i] = Append(f[i - 1], ks[i])
    BY <1>4, <2>1
  <2>3. Settled(ks[i])
    BY DEF L
  <2> QED BY <2>2, <2>3 DEF Settled, KeepOne
<1> HIDE DEF f
<1> QED BY <1>6, <1>7 DEF Keeps

LEMMA KeepsMore ==
  ASSUME NEW ms \in Seq(SavedMessage), NEW ks, Keeps(ms, ks), NEW m \in SavedMessage
  PROVE  KeepOne(ks, m) \in Seq(SavedMessage) /\ Keeps(Append(ms, m), KeepOne(ks, m))
<1> DEFINE L == Len(ms)
           new == Append(ms, m)
<1>1. L \in Nat /\ Len(new) = L + 1 /\ new[L + 1] = m /\ \A i \in 1..L : new[i] = ms[i]
  OBVIOUS
<1> HIDE DEF new
<1>2. PICK f \in [0..L -> Seq(SavedMessage)] :
        /\ f[0] = <<>> /\ f[L] = ks
        /\ \A i \in 1..L : f[i] = KeepOne(f[i - 1], ms[i])
  BY DEF Keeps
<1> HIDE DEF L
<1>3. ks \in Seq(SavedMessage)
  <2>1. L \in 0..L
    BY <1>1
  <2> QED BY <1>2, <2>1
<1>4. KeepOne(ks, m) \in Seq(SavedMessage)
  <2>1. AsText(m) \in SavedMessage
    BY AsTextIs
  <2> QED BY <1>3, <2>1 DEF KeepOne
<1> DEFINE g == [i \in 0..L + 1 |-> IF i = L + 1 THEN KeepOne(ks, m) ELSE f[i]]
<1>5. /\ g \in [0..L + 1 -> Seq(SavedMessage)] /\ g[L + 1] = KeepOne(ks, m)
      /\ \A i \in 0..L : g[i] = f[i]
  <2>1. \A i \in 0..L + 1 : i # L + 1 => i \in 0..L
    BY <1>1
  <2>2. L + 1 \in 0..L + 1 /\ \A i \in 0..L : i \in 0..L + 1 /\ i # L + 1
    BY <1>1
  <2> QED BY <1>4, <2>1, <2>2
<1> HIDE DEF g
<1>6. g[0] = <<>>
  BY <1>1, <1>2, <1>5
<1>7. ASSUME NEW i \in 1..L + 1 PROVE g[i] = KeepOne(g[i - 1], new[i])
  <2>1. CASE i = L + 1
    <3>1. i - 1 = L /\ L \in 0..L
      BY <1>1, <2>1
    <3> QED BY <1>1, <1>2, <1>5, <2>1, <3>1
  <2>2. CASE i # L + 1
    <3>1. i \in 1..L /\ i \in 0..L /\ i - 1 \in 0..L
      BY <1>1, <2>2
    <3> QED BY <1>1, <1>2, <1>5, <3>1
  <2> QED BY <2>1, <2>2
<1>8. Keeps(new, KeepOne(ks, m))
  BY <1>1, <1>5, <1>6, <1>7 DEF Keeps
<1> QED BY <1>4, <1>8 DEF new

LEMMA SavedBegins == SavedInit => SavedInv
<1> SUFFICES ASSUME SavedInit PROVE SavedInv
  OBVIOUS
<1>1. conversation = <<>> /\ said = <<>>
  BY DEF SavedInit
<1>2. <<>> \in Seq(SavedMessage) /\ \A i \in 1..Len(<<>>) : Settled(<<>>[i])
  OBVIOUS
<1>3. Keeps(<<>>, <<>>)
  BY <1>2, KeepsSettled
<1> QED BY <1>1, <1>2, <1>3 DEF SavedInv

LEMMA SavedKeeps == SavedInv /\ [SavedNext]_savedVars => SavedInv'
<1> SUFFICES ASSUME SavedInv, [SavedNext]_savedVars PROVE SavedInv'
  OBVIOUS
<1>0. /\ conversation \in Seq(SavedMessage) /\ said \in Seq(SavedMessage)
      /\ \A i \in 1..Len(said) : Settled(said[i])
      /\ Keeps(conversation, said)
  BY DEF SavedInv
<1>1. CASE Say
  <2> DEFINE Said(role, calls, lines) ==
               LET m == [role |-> role, lines |-> lines, calls |-> calls] IN
               /\ conversation' = Append(conversation, m)
               /\ said' = IF role = "tool" \/ AsText(m).lines = <<>> THEN said
                          ELSE Append(said, AsText(m))
  <2>0. PICK role \in {"user", "assistant", "tool"}, calls \in BOOLEAN, n \in 1..2 :
          \E lines \in [1..n -> BodyLines] : Said(role, calls, lines)
    BY <1>1 DEF Say
  <2>1. PICK lines \in [1..n -> BodyLines] : Said(role, calls, lines)
    BY <2>0
  <2> DEFINE m == [role |-> role, lines |-> lines, calls |-> calls]
  <2>2. lines \in Seq(SavedLine)
    <3>1. lines \in [1..n -> Seq(Tokens)]
      BY BodyLinesAssumption
    <3> QED BY <3>1 DEF SavedLine
  <2>3. m \in SavedMessage /\ m.role = role
    BY <2>2 DEF SavedMessage, SavedRoles
  <2>4. conversation' = Append(conversation, m) /\ said' = KeepOne(said, m)
    BY <2>1, <2>3 DEF KeepOne
  <2> HIDE DEF m
  <2>5. conversation' \in Seq(SavedMessage) /\ said' \in Seq(SavedMessage) /\ Keeps(conversation', said')
    BY <1>0, <2>3, <2>4, KeepsMore
  <2>6. \A i \in 1..Len(said') : Settled(said'[i])
    <3>1. CASE m.role = "tool" \/ AsText(m).lines = <<>>
      BY <1>0, <2>4, <3>1 DEF KeepOne
    <3>2. CASE ~ (m.role = "tool" \/ AsText(m).lines = <<>>)
      <4> DEFINE t == AsText(m)
      <4>1. said' = Append(said, t)
        BY <2>4, <3>2 DEF KeepOne
      <4>2. t \in SavedMessage /\ Settled(t)
        BY <2>3, <3>2, AsTextIs
      <4> HIDE DEF t
      <4>3. Len(said') = Len(said) + 1 /\ said'[Len(said) + 1] = t
            /\ \A i \in 1..Len(said) : said'[i] = said[i]
        BY <1>0, <4>1, <4>2
      <4> SUFFICES ASSUME NEW i \in 1..Len(said') PROVE Settled(said'[i])
        OBVIOUS
      <4>4. i \in 1..Len(said) \/ i = Len(said) + 1
        BY <1>0, <4>3
      <4> QED BY <1>0, <4>2, <4>3, <4>4
    <3> QED BY <3>1, <3>2
  <2>7. \A i \in 1..Len(said)' : Settled(said[i])'
    BY <2>6 DEF Settled
  <2>8. Keeps(conversation, said)'
    BY <2>5 DEF Keeps
  <2> QED BY <2>5, <2>6, <2>8 DEF SavedInv
<1>2. CASE Restore
  <2>1. conversation' = said /\ said' = said
    BY <1>0, <1>2, RestoredIs DEF Restore
  <2>2. Keeps(said, said)
    BY <1>0, KeepsSettled
  <2> QED BY <1>0, <2>1, <2>2 DEF SavedInv
<1>3. CASE UNCHANGED savedVars
  BY <1>0, <1>3 DEF savedVars, SavedInv
<1> QED BY <1>1, <1>2, <1>3 DEF SavedNext

(* Whatever the lines, the messages and the number of times, what          *)
(* parse_saved_body reads from what _conversation_text wrote is what the   *)
(* user and the assistant said.                                            *)
THEOREM RestoreReadsWhatWasSaid == SavedSpec => []RestoreIsFaithful
<1>1. SavedInv => RestoreIsFaithful
  BY RestoredIs DEF SavedInv, RestoreIsFaithful
<1> QED BY <1>1, SavedBegins, SavedKeeps, PTL DEF SavedSpec
===============================================================================
