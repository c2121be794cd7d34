--------------------------- MODULE MarketFeed_proofs ---------------------------
(* The types of MarketFeed and the ceiling at the venue, for every limit,     *)
(* window, budget, pool and threshold.                                        *)
EXTENDS MarketFeed, DataFacts, SequenceTheorems

Ages == 0..(Window + 1)
Kinds == Venues \cup {"gemini", "deepseek"}
Jobs == [by : Callers, what : Kinds]

(* The constants as the provers need them.                                    *)
LEMMA Bounds ==
  /\ Limit \in Nat \ {0} /\ Window \in Nat \ {0}
  /\ Budget \in Nat /\ Budget < Window
  /\ Ages \subseteq Int /\ 0 \in Ages
  /\ 0..(Window - Budget) \subseteq Int /\ 0 \in 0..(Window - Budget)
BY FeedAssumption DEF Ages

--------------------------------------------------------------------------------
(* The window.                                                                *)

(* What popleft leaves: all but the first d ages, each of them beyond the     *)
(* bound, and the first that stays is not.                                    *)
LEMMA RecentIsRest ==
  ASSUME NEW S, S \subseteq Int, NEW ages \in Seq(S), NEW bound \in Int
  PROVE  /\ Governor!Recent(ages, bound) \in Seq(S)
         /\ \E d \in 0..Len(ages) :
              /\ Len(Governor!Recent(ages, bound)) = Len(ages) - d
              /\ \A i \in 1..(Len(ages) - d) :
                   Governor!Recent(ages, bound)[i] = ages[d + i]
              /\ \A i \in 1..d : ages[i] > bound
              /\ d < Len(ages) => ages[d + 1] <= bound
<1> DEFINE L == Len(ages)
           P(n) == /\ n <= L => ages[n] <= bound
                   /\ \A i \in 1..(n - 1) : ages[i] > bound
           Q == {n \in Nat : n >= 1 /\ (n <= L => ages[n] <= bound)}
<1>1. L \in Nat /\ \A i \in 1..L : ages[i] \in S /\ ages[i] \in Int
  BY ElementOfSeq, LenProperties
<1>2. L + 1 \in Q /\ Q \subseteq Nat
  BY <1>1
<1>3. PICK n \in Q : \A m \in Q : n <= m
  BY <1>2, LeastNatural
<1>4. n \in 1..(L + 1) /\ P(n)
  <2>1. n <= L + 1 /\ n >= 1 /\ n \in Nat /\ (n <= L => ages[n] <= bound)
    BY <1>2, <1>3
  <2>2. ASSUME NEW i \in 1..(n - 1) PROVE ages[i] > bound
    <3>1. i \in Nat /\ i >= 1 /\ i <= L /\ i < n
      BY <1>1, <2>1, <2>2
    <3>2. i \notin Q
      BY <1>3, <3>1
    <3>3. ages[i] \in Int
      BY <1>1, <3>1
    <3> QED
      BY <3>1, <3>2, <3>3
  <2> QED
    BY <1>1, <2>1, <2>2
<1> DEFINE first == CHOOSE m \in 1..(L + 1) : P(m)
<1>5. first \in 1..(L + 1) /\ P(first)
  BY <1>4
<1>6. Governor!Recent(ages, bound) = SubSeq(ages, first, L)
  BY DEF Governor!Recent
<1> HIDE DEF first
<1> DEFINE r == SubSeq(ages, first, L)
<1>7. /\ r \in Seq(S)
      /\ Len(r) = IF first <= L THEN L - first + 1 ELSE 0
      /\ \A i \in 1..(L - first + 1) : r[i] = ages[first + i - 1]
  <2>1. \A i \in first..L : ages[i] \in S
    BY <1>1, <1>5
  <2>2. first \in Int /\ L \in Int
    BY <1>1, <1>5
  <2> HIDE DEF L
  <2> QED
    BY <2>1, <2>2, SubSeqProperties
<1> HIDE DEF r
<1>8. first - 1 \in 0..L /\ first \in Nat
  BY <1>1, <1>5
<1>9. Len(r) = L - (first - 1)
  BY <1>1, <1>5, <1>7, <1>8
<1>10. \A i \in 1..(L - (first - 1)) : r[i] = ages[(first - 1) + i]
  BY <1>1, <1>7, <1>8
<1>11. \A i \in 1..(first - 1) : ages[i] > bound
  BY <1>5
<1>12. first - 1 < L => ages[(first - 1) + 1] <= bound
  BY <1>1, <1>5, <1>8
<1> QED
  BY <1>6, <1>7, <1>8, <1>9, <1>10, <1>11, <1>12 DEF r

(* The window h covers the venue's record s (SlotInv), with a request waiting *)
(* if p = 1, which has left time units of its budget.                         *)
Covers(h, s, p, left) ==
  LET first == Len(h) - Len(s) - p
  IN  /\ first >= 0
      /\ \A i \in DOMAIN s : h[first + i] <= s[i] + Budget
      /\ p = 1 => h[Len(h)] <= Budget - left

(* Dropping what is older than the window uncovers nothing.                   *)
LEMMA PruneCovers ==
  ASSUME NEW h \in Seq(Ages), Falling(h), Len(h) <= Limit,
         NEW s \in Seq(0..(Window - Budget)), NEW p \in {0, 1}, NEW left \in Nat,
         Covers(h, s, p, left)
  PROVE  /\ Governor!Prune(h) \in Seq(Ages)
         /\ Len(Governor!Prune(h)) <= Len(h)
         /\ Falling(Governor!Prune(h))
         /\ Covers(Governor!Prune(h), s, p, left)
         /\ \A i \in DOMAIN Governor!Prune(h) : Governor!Prune(h)[i] <= Window
<1> DEFINE r == Governor!Recent(h, Window)
           L == Len(h)
<1>0. Governor!Prune(h) = r
  BY DEF Governor!Prune
<1>1. PICK d \in 0..L :
        /\ r \in Seq(Ages)
        /\ Len(r) = L - d
        /\ \A i \in 1..(L - d) : r[i] = h[d + i]
        /\ \A i \in 1..d : h[i] > Window
        /\ d < L => h[d + 1] <= Window
  <2>1. Window \in Int /\ Ages \subseteq Int
    BY Bounds
  <2> QED
    BY <2>1, RecentIsRest
<1> HIDE DEF r
<1>2. /\ L \in Nat /\ DOMAIN h = 1..L /\ \A i \in 1..L : h[i] \in Int
      /\ DOMAIN r = 1..(L - d) /\ DOMAIN s = 1..Len(s) /\ Len(s) \in Nat
      /\ \A i \in 1..Len(s) : s[i] \in Int /\ s[i] <= Window - Budget
  <2>1. L \in Nat /\ DOMAIN h = 1..L /\ \A i \in 1..L : h[i] \in Ages
    BY LenProperties, ElementOfSeq
  <2>2. /\ Len(s) \in Nat /\ DOMAIN s = 1..Len(s)
        /\ \A i \in 1..Len(s) : s[i] \in 0..(Window - Budget)
    BY LenProperties, ElementOfSeq
  <2>3. DOMAIN r = 1..(L - d)
    BY <1>1, LenProperties
  <2>4. \A x \in 0..(Window - Budget) : x \in Int /\ x <= Window - Budget
    OBVIOUS
  <2>5. \A i \in 1..L : h[i] \in Int
    BY <2>1, Bounds
  <2> QED
    BY <2>1, <2>2, <2>3, <2>4, <2>5
<1> HIDE DEF L
<1>3. Falling(r)
  <2> SUFFICES ASSUME NEW i \in 1..(L - d), NEW j \in 1..(L - d), i <= j
               PROVE  r[j] <= r[i]
    BY <1>2 DEF Falling
  <2>1. d + i \in 1..L /\ d + j \in 1..L /\ d + i <= d + j
    BY <1>1, <1>2
  <2>2. h[d + j] <= h[d + i]
    BY <1>2, <2>1 DEF Falling
  <2> QED
    BY <1>1, <2>2
<1>4. \A i \in DOMAIN r : r[i] <= Window
  <2> SUFFICES ASSUME NEW i \in 1..(L - d) PROVE r[i] <= Window
    BY <1>2
  <2>1. d < L /\ d + 1 \in 1..L /\ d + i \in 1..L /\ d + 1 <= d + i
    BY <1>1, <1>2
  <2>2. h[d + i] <= h[d + 1] /\ h[d + i] \in Int /\ h[d + 1] \in Int
    BY <1>2, <2>1 DEF Falling
  <2> QED
    BY SMTT(20), <1>1, <2>1, <2>2, Bounds
<1> DEFINE first == L - Len(s) - p
<1>5. first >= 0 /\ first \in Int
  BY <1>2 DEF Covers, L
<1>6. first - d >= 0
  <2>1. CASE Len(s) = 0 /\ p = 0
    BY <1>1, <1>2, <2>1
  <2>2. CASE Len(s) > 0
    <3>1. h[first + 1] <= s[1] + Budget
      BY SMTT(20), <1>2, <2>2 DEF Covers, L
    <3>2. first + 1 \in 1..L
      BY <1>2, <1>5, <2>2
    <3>3. h[first + 1] <= Window
      <4>1. s[1] \in Int /\ s[1] <= Window - Budget /\ h[first + 1] \in Int
        BY <1>2, <2>2, <3>2
      <4> QED
        BY SMTT(20), <3>1, <4>1, Bounds
    <3>4. first + 1 \notin 1..d
      BY <1>1, <1>2, <3>2, <3>3, Bounds
    <3> QED
      BY <1>1, <1>2, <1>5, <3>4
  <2>3. CASE Len(s) = 0 /\ p = 1
    <3>1. L \in 1..L /\ h[L] <= Window
      BY <1>2, <1>5, <2>3, Bounds DEF Covers, L
    <3>2. L \notin 1..d
      BY <1>1, <1>2, <3>1, Bounds
    <3> QED
      BY <1>1, <1>2, <2>3, <3>1, <3>2
  <2> QED
    BY <1>2, <2>1, <2>2, <2>3
<1>7. Len(r) - Len(s) - p = first - d
  BY <1>1, <1>2
<1>8. \A i \in DOMAIN s : r[(first - d) + i] <= s[i] + Budget
  <2> SUFFICES ASSUME NEW i \in 1..Len(s)
               PROVE  r[(first - d) + i] <= s[i] + Budget
    BY <1>2
  <2>1. (first - d) + i \in 1..(L - d) /\ d + ((first - d) + i) = first + i
    <3>1. p \in Int /\ p >= 0 /\ i \in Int /\ d \in Int
      BY <1>1, <1>2
    <3>2. first + i <= L
      BY <1>2, <3>1
    <3> HIDE DEF first
    <3> QED
      BY <1>2, <1>5, <1>6, <3>1, <3>2
  <2>2. r[(first - d) + i] = h[first + i]
    BY <1>1, <2>1
  <2> QED
    BY <1>2, <2>2 DEF Covers, L
<1>9. p = 1 => r[Len(r)] <= Budget - left
  <2>1. p = 1 => L - d \in 1..(L - d) /\ d + (L - d) = L
    BY <1>1, <1>2, <1>6
  <2> QED
    BY <1>1, <2>1 DEF Covers, L
<1>10. Covers(r, s, p, left)
  BY <1>6, <1>7, <1>8, <1>9 DEF Covers
<1>11. r \in Seq(Ages) /\ Len(r) <= L
  BY <1>1, <1>2
<1> QED
  BY <1>0, <1>3, <1>4, <1>10, <1>11 DEF L

(* A slot reserved for a request that goes to the queue.                      *)
LEMMA ReserveCovers ==
  ASSUME NEW h \in Seq(Ages), Falling(h), Len(h) <= Limit,
         NEW s \in Seq(0..(Window - Budget)), NEW left \in Nat,
         Covers(h, s, 0, left), Governor!HasSlot(h)
  PROVE  /\ Governor!Reserve(h) \in Seq(Ages)
         /\ Len(Governor!Reserve(h)) <= Limit
         /\ Falling(Governor!Reserve(h))
         /\ Covers(Governor!Reserve(h), s, 1, Budget)
<1> DEFINE q == Governor!Prune(h)
           r == Append(q, 0)
<1>1. /\ q \in Seq(Ages) /\ Falling(q) /\ Covers(q, s, 0, left)
      /\ Len(q) < Limit
  BY PruneCovers DEF Governor!HasSlot
<1>2. Governor!Reserve(h) = r
  BY DEF Governor!Reserve
<1> HIDE DEF q
<1>3. /\ r \in Seq(Ages) /\ Len(r) = Len(q) + 1 /\ Len(q) \in Nat
      /\ \A i \in 1..Len(q) : r[i] = q[i] /\ q[i] \in Ages
      /\ r[Len(q) + 1] = 0
      /\ DOMAIN r = 1..(Len(q) + 1) /\ DOMAIN q = 1..Len(q)
  BY <1>1, Bounds
<1>4. /\ DOMAIN s = 1..Len(s) /\ Len(s) \in Nat
  BY LenProperties
<1> HIDE DEF r
<1>5. Falling(r)
  <2>1. \A i \in 1..Len(q) : q[i] >= 0
    BY <1>3 DEF Ages
  <2> QED
    BY <1>1, <1>3, <2>1 DEF Falling
<1>6. Covers(r, s, 1, Budget)
  <2>1. /\ Len(q) - Len(s) - 0 >= 0
        /\ \A i \in 1..Len(s) : q[Len(q) - Len(s) - 0 + i] <= s[i] + Budget
    BY <1>1, <1>4 DEF Covers
  <2>2. Len(r) - Len(s) - 1 = Len(q) - Len(s) - 0
    BY <1>3, <1>4
  <2>3. \A i \in 1..Len(s) : Len(q) - Len(s) - 0 + i \in 1..Len(q)
    BY <1>3, <1>4, <2>1
  <2>4. r[Len(r)] <= Budget - Budget
    BY <1>3, Bounds
  <2> QED
    BY <1>3, <1>4, <2>1, <2>2, <2>3, <2>4 DEF Covers
<1>7. Len(r) <= Limit
  BY <1>1, <1>3, Bounds
<1> QED
  BY <1>2, <1>3, <1>5, <1>6, <1>7

(* A 429 fills the window up with slots of this instant.                      *)
LEMMA FillCovers ==
  ASSUME NEW h \in Seq(Ages), Falling(h), Len(h) <= Limit,
         NEW s \in Seq(0..(Window - Budget)), NEW p \in {0, 1},
         NEW left \in Nat, left <= Budget, Covers(h, s, p, left)
  PROVE  /\ Governor!Fill(h) \in Seq(Ages)
         /\ Len(Governor!Fill(h)) <= Limit
         /\ Falling(Governor!Fill(h))
         /\ Covers(Governor!Fill(h), s, p, left)
<1> DEFINE q == Governor!Prune(h)
           z == [i \in 1..(Limit - Len(q)) |-> 0]
           r == q \o z
<1>1. /\ q \in Seq(Ages) /\ Falling(q) /\ Covers(q, s, p, left)
      /\ Len(q) <= Len(h)
  BY PruneCovers
<1>2. Governor!Fill(h) = r
  BY DEF Governor!Fill
<1> HIDE DEF q
<1>3. Len(q) \in Nat /\ Len(q) <= Limit /\ Limit - Len(q) \in Nat
  BY <1>1, LenProperties, Bounds
<1>4. z \in Seq(Ages) /\ Len(z) = Limit - Len(q) /\ \A i \in 1..Len(z) : z[i] = 0
  BY <1>3, Bounds
<1> HIDE DEF z
<1>5. /\ r \in Seq(Ages) /\ Len(r) = Limit
      /\ \A i \in 1..Len(q) : r[i] = q[i]
      /\ \A i \in (Len(q) + 1)..Limit : r[i] = 0
      /\ DOMAIN r = 1..Limit /\ DOMAIN q = 1..Len(q)
      /\ \A i \in 1..Len(q) : q[i] \in Ages
  <2>1. /\ r \in Seq(Ages) /\ Len(r) = Len(q) + Len(z)
        /\ \A i \in 1..(Len(q) + Len(z)) :
             r[i] = IF i <= Len(q) THEN q[i] ELSE z[i - Len(q)]
    BY <1>1, <1>4, ConcatProperties
  <2>2. Len(r) = Limit
    BY <1>3, <1>4, <2>1, Bounds
  <2>3. DOMAIN r = 1..Len(r) /\ DOMAIN q = 1..Len(q) /\ \A i \in 1..Len(q) : q[i] \in Ages
    BY <1>1, <2>1, LenProperties, ElementOfSeq
  <2>4. \A i \in (Len(q) + 1)..Limit : i - Len(q) \in 1..Len(z) /\ ~(i <= Len(q))
    BY <1>3, <1>4, Bounds
  <2> QED
    BY <1>3, <1>4, <2>1, <2>2, <2>3, <2>4, Bounds
<1> HIDE DEF r
<1>6. DOMAIN s = 1..Len(s) /\ Len(s) \in Nat
  BY LenProperties
<1>7. Falling(r)
  <2>1. \A i \in 1..Len(q) : q[i] \in Int /\ q[i] >= 0
    BY <1>5 DEF Ages
  <2>2. \A i \in 1..Limit : i \in 1..Len(q) \/ i \in (Len(q) + 1)..Limit
    BY <1>3, Bounds
  <2> QED
    BY <1>1, <1>3, <1>5, <2>1, <2>2, Bounds DEF Falling
<1>8. Covers(r, s, p, left)
  <2> DEFINE a == Len(q) - Len(s) - p
             b == Limit - Len(s) - p
  <2>1. a >= 0 /\ \A i \in 1..Len(s) : q[a + i] <= s[i] + Budget
    BY <1>1, <1>6 DEF Covers
  <2>2. b >= 0 /\ Len(r) - Len(s) - p = b /\ a <= b
    BY <1>3, <1>5, <1>6, <2>1, Bounds
  <2>3. ASSUME NEW i \in 1..Len(s) PROVE r[b + i] <= s[i] + Budget
    <3>1. a + i \in 1..Len(q) /\ a + i \in 1..Limit /\ b + i \in 1..Limit /\ a + i <= b + i
      BY <1>3, <1>6, <2>1, <2>2, Bounds
    <3>2. r[b + i] <= r[a + i] /\ r[a + i] = q[a + i]
      BY <1>5, <1>7, <3>1 DEF Falling
    <3>3. r[b + i] \in Int /\ r[a + i] \in Int /\ s[i] \in Int
      BY <1>5, <1>6, <3>1, ElementOfSeq, Bounds
    <3>4. q[a + i] <= s[i] + Budget /\ Budget \in Int
      BY <2>1, Bounds
    <3> HIDE DEF a, b
    <3> QED
      BY <3>2, <3>3, <3>4
  <2>4. ASSUME p = 1 PROVE r[Limit] <= Budget - left
    <3>1. CASE Len(q) = Limit
      BY <1>1, <1>5, <2>4, <3>1, Bounds DEF Covers
    <3>2. CASE Len(q) < Limit
      <4>1. Limit \in (Len(q) + 1)..Limit
        BY <1>3, <3>2, Bounds
      <4>2. r[Limit] = 0
        BY <1>5, <4>1
      <4> QED
        BY <4>2, Bounds
    <3> QED
      BY <1>3, <3>1, <3>2, Bounds
  <2> QED
    BY <1>5, <1>6, <2>2, <2>3, <2>4 DEF Covers
<1> QED
  BY <1>2, <1>5, <1>7, <1>8, Bounds

(* A request that a worker takes.                                             *)
LEMMA TakeCovers ==
  ASSUME NEW h \in Seq(Ages), NEW s \in Seq(0..(Window - Budget)), Falling(s),
         NEW left \in Nat, left <= Budget, Covers(h, s, 1, left)
  PROVE  /\ Append(s, 0) \in Seq(0..(Window - Budget))
         /\ Falling(Append(s, 0))
         /\ Covers(h, Append(s, 0), 0, left)
<1> DEFINE r == Append(s, 0)
<1>1. /\ Len(h) \in Nat /\ Len(s) \in Nat /\ DOMAIN s = 1..Len(s)
      /\ \A i \in 1..Len(h) : h[i] \in Int
      /\ \A i \in 1..Len(s) : s[i] \in 0..(Window - Budget)
  BY LenProperties, ElementOfSeq, Bounds
<1>2. /\ r \in Seq(0..(Window - Budget)) /\ Len(r) = Len(s) + 1
      /\ DOMAIN r = 1..(Len(s) + 1)
      /\ \A i \in 1..Len(s) : r[i] = s[i]
      /\ r[Len(s) + 1] = 0
  BY Bounds
<1> HIDE DEF r
<1>3. Falling(r)
  <2>1. \A i \in 1..Len(s) : s[i] >= 0
    BY <1>1, Bounds
  <2> QED
    BY SMTT(20), <1>1, <1>2, <2>1 DEF Falling
<1>4. Covers(h, r, 0, left)
  <2> DEFINE a == Len(h) - Len(s) - 1
  <2>1. /\ a >= 0 /\ a \in Int /\ \A i \in 1..Len(s) : h[a + i] <= s[i] + Budget
        /\ h[Len(h)] <= Budget - left
    <3>1. a \in Int
      BY <1>1
    <3> HIDE DEF a
    <3> QED
      BY <1>1, <3>1 DEF Covers, a
  <2>2. Len(h) - Len(r) - 0 = a
    BY <1>1, <1>2
  <2>3. Len(h) \in 1..Len(h) /\ a + (Len(s) + 1) = Len(h)
    BY <1>1, <2>1
  <2>4. h[a + (Len(s) + 1)] <= 0 + Budget
    <3>1. h[Len(h)] \in Int
      BY <1>1, <2>3
    <3> QED
      BY <2>1, <2>3, <3>1, Bounds
  <2> HIDE DEF a
  <2>5. \A i \in DOMAIN r : h[a + i] <= r[i] + Budget
    <3>1. \A i \in DOMAIN r : i \in 1..Len(s) \/ i = Len(s) + 1
      BY <1>1, <1>2
    <3> QED
      BY <1>2, <2>1, <2>4, <3>1
  <2> QED
    BY <2>1, <2>2, <2>5 DEF Covers
<1> QED
  BY <1>2, <1>3, <1>4 DEF r

(* A request that is cancelled in the queue leaves its slot unused.           *)
LEMMA CancelCovers ==
  ASSUME NEW h \in Seq(Ages), Falling(h), NEW s \in Seq(0..(Window - Budget)),
         NEW p \in {0, 1}, NEW left \in Nat, Covers(h, s, p, left)
  PROVE  Covers(h, s, 0, left)
<1>1. /\ Len(h) \in Nat /\ Len(s) \in Nat /\ DOMAIN s = 1..Len(s)
      /\ DOMAIN h = 1..Len(h)
      /\ \A i \in 1..Len(h) : h[i] \in Int
      /\ \A i \in 1..Len(s) : s[i] \in Int
  BY LenProperties, ElementOfSeq, Bounds
<1> DEFINE a == Len(h) - Len(s) - 1
<1>2. CASE p = 0
  BY <1>2
<1>3. CASE p = 1
  <2>1. a >= 0 /\ a \in Int /\ \A i \in 1..Len(s) : h[a + i] <= s[i] + Budget
    <3>1. a \in Int
      BY <1>1
    <3> HIDE DEF a
    <3> QED
      BY <1>1, <1>3, <3>1 DEF Covers, a
  <2>2. Len(h) - Len(s) - 0 = a + 1
    BY <1>1
  <2>3. ASSUME NEW i \in 1..Len(s) PROVE h[(a + 1) + i] <= s[i] + Budget
    <3>1. a + i \in 1..Len(h) /\ (a + 1) + i \in 1..Len(h) /\ a + i <= (a + 1) + i
      BY <1>1, <2>1
    <3>2. h[(a + 1) + i] <= h[a + i] /\ h[a + i] <= s[i] + Budget
      BY <1>1, <2>1, <3>1 DEF Falling
    <3>3. h[(a + 1) + i] \in Int /\ h[a + i] \in Int /\ s[i] + Budget \in Int
      BY SMTT(20), <1>1, <3>1, Bounds
    <3> HIDE DEF a
    <3> QED
      BY <3>2, <3>3
  <2> HIDE DEF a
  <2>4. \A i \in 1..Len(s) : h[(Len(h) - Len(s) - 0) + i] <= s[i] + Budget
    BY <2>2, <2>3
  <2>5. Len(h) - Len(s) - 0 >= 0
    BY <2>1, <2>2
  <2> QED
    BY <1>1, <2>4, <2>5 DEF Covers
<1> QED
  BY <1>2, <1>3

(* One time unit.                                                             *)
LEMMA TimeCovers ==
  ASSUME NEW h \in Seq(Ages), Falling(h), Len(h) <= Limit,
         NEW s \in Seq(0..(Window - Budget)), Falling(s),
         NEW p \in {0, 1}, NEW left \in Nat, p = 1 => left > 0,
         Covers(h, s, p, left)
  PROVE  LET older == [i \in DOMAIN s |-> s[i] + 1]
             t == Governor!Recent(older, Window - Budget)
         IN  /\ Governor!Older(h) \in Seq(Ages)
             /\ Len(Governor!Older(h)) <= Limit
             /\ Falling(Governor!Older(h))
             /\ t \in Seq(0..(Window - Budget))
             /\ Falling(t)
             /\ Covers(Governor!Older(h), t, p, left - 1)
<1> DEFINE older == [i \in DOMAIN s |-> s[i] + 1]
           t == Governor!Recent(older, Window - Budget)
           g == Governor!Older(h)
           W == Window - Budget
<1>1. /\ Len(h) \in Nat /\ Len(s) \in Nat /\ DOMAIN s = 1..Len(s)
      /\ DOMAIN h = 1..Len(h)
      /\ \A i \in 1..Len(h) : h[i] \in Ages /\ h[i] \in Int
      /\ \A i \in 1..Len(s) : s[i] \in Int /\ 0 <= s[i]
  <2>1. /\ Len(h) \in Nat /\ Len(s) \in Nat /\ DOMAIN s = 1..Len(s)
        /\ DOMAIN h = 1..Len(h)
        /\ \A i \in 1..Len(h) : h[i] \in Ages
        /\ \A i \in 1..Len(s) : s[i] \in 0..W
    BY LenProperties, ElementOfSeq
  <2>2. \A x \in 0..W : x \in Int /\ 0 <= x
    OBVIOUS
  <2> QED
    BY <2>1, <2>2, Bounds
<1>2. /\ g \in Seq(Ages) /\ Len(g) = Len(h) /\ DOMAIN g = 1..Len(h)
      /\ \A i \in 1..Len(h) :
           /\ g[i] = IF h[i] > Window THEN h[i] ELSE h[i] + 1
           /\ g[i] \in Int /\ g[i] <= h[i] + 1
  <2>1. \A x \in Ages : /\ (IF x > Window THEN x ELSE x + 1) \in Ages
                        /\ (IF x > Window THEN x ELSE x + 1) <= x + 1
    BY Bounds DEF Ages
  <2>2. g = [i \in 1..Len(h) |-> IF h[i] > Window THEN h[i] ELSE h[i] + 1]
    BY <1>1 DEF Governor!Older
  <2>3. g \in [1..Len(h) -> Ages]
    BY <1>1, <2>1, <2>2
  <2>4. g \in Seq(Ages) /\ Len(g) = Len(h)
    BY <1>1, <2>3, SeqDef
  <2> QED
    BY <1>1, <2>1, <2>2, <2>4, Bounds
<1> HIDE DEF g
<1>3. Falling(g)
  <2>1. \A i, j \in 1..Len(h) : i <= j => h[j] <= h[i]
    BY <1>1 DEF Falling
  <2> QED
    <3> SUFFICES ASSUME NEW i \in 1..Len(h), NEW j \in 1..Len(h), i <= j
                 PROVE  g[j] <= g[i]
      BY <1>2 DEF Falling
    <3>1. h[j] <= h[i] /\ h[i] \in Int /\ h[j] \in Int /\ h[i] <= Window + 1
      BY <1>1, <2>1 DEF Ages
    <3>2. /\ g[j] = IF h[j] > Window THEN h[j] ELSE h[j] + 1
          /\ g[i] = IF h[i] > Window THEN h[i] ELSE h[i] + 1
      BY <1>2
    <3>3. Window \in Int
      BY Bounds
    <3> QED
      BY <3>1, <3>2, <3>3
<1>4. /\ older \in Seq(Nat) /\ Len(older) = Len(s) /\ DOMAIN older = 1..Len(s)
      /\ \A i \in 1..Len(s) : older[i] = s[i] + 1
  <2>1. older \in [1..Len(s) -> Nat]
    BY <1>1
  <2>2. older \in Seq(Nat) /\ Len(older) = Len(s)
    BY <1>1, <2>1, SeqDef
  <2> QED
    BY <1>1, <2>2
<1> HIDE DEF older
<1>5. PICK d \in 0..Len(older) :
        /\ t \in Seq(Nat)
        /\ Len(t) = Len(older) - d
        /\ \A i \in 1..(Len(older) - d) : t[i] = older[d + i]
        /\ d < Len(older) => older[d + 1] <= W
  <2>1. W \in Int /\ Nat \subseteq Int
    BY Bounds
  <2> HIDE DEF W
  <2> QED
    BY <1>4, <2>1, RecentIsRest DEF W
<1> HIDE DEF t
<1>6. /\ d \in Nat /\ d <= Len(s) /\ Len(t) = Len(s) - d /\ DOMAIN t = 1..(Len(s) - d)
      /\ \A i \in 1..(Len(s) - d) : /\ d + i \in 1..Len(s)
                                    /\ t[i] = s[d + i] + 1
                                    /\ t[i] \in Int /\ t[i] >= 0
  <2>1. d \in Nat /\ d <= Len(s) /\ Len(t) = Len(s) - d /\ DOMAIN t = 1..(Len(s) - d)
    BY <1>1, <1>4, <1>5, LenProperties
  <2>2. \A i \in 1..(Len(s) - d) : d + i \in 1..Len(s)
    BY <1>1, <2>1
  <2> QED
    <3> SUFFICES ASSUME NEW i \in 1..(Len(s) - d)
                 PROVE  t[i] = s[d + i] + 1 /\ t[i] \in Int /\ t[i] >= 0
      BY <2>1, <2>2
    <3>1. t[i] = older[d + i] /\ older[d + i] = s[d + i] + 1
      BY <1>4, <1>5, <2>2
    <3>2. s[d + i] \in Int /\ 0 <= s[d + i]
      BY <1>1, <2>2
    <3> QED
      BY <3>1, <3>2
<1>7. Falling(t)
  <2> SUFFICES ASSUME NEW i \in 1..(Len(s) - d), NEW j \in 1..(Len(s) - d), i <= j
               PROVE  t[j] <= t[i]
    BY <1>6 DEF Falling
  <2>1. d + i <= d + j
    BY <1>6
  <2>2. s[d + j] <= s[d + i] /\ s[d + j] \in Int /\ s[d + i] \in Int
    BY <1>1, <1>6, <2>1 DEF Falling
  <2> QED
    BY SMTT(20), <1>6, <2>2
<1>8. t \in Seq(0..W)
  <2>1. \A i \in 1..(Len(s) - d) : t[i] \in 0..W
    <3> SUFFICES ASSUME NEW i \in 1..(Len(s) - d) PROVE t[i] \in 0..W
      OBVIOUS
    <3>1. 1 \in 1..(Len(s) - d) /\ d + 1 \in 1..Len(s) /\ 1 <= i
      BY <1>1, <1>6
    <3>2. t[i] <= t[1]
      BY <1>6, <1>7, <3>1 DEF Falling
    <3>3. t[1] <= W /\ t[1] \in Int
      BY <1>1, <1>4, <1>5, <1>6, <3>1
    <3>4. W \in Int /\ t[i] \in Int /\ t[i] >= 0
      BY <1>6, Bounds
    <3> HIDE DEF W
    <3> QED
      BY <3>2, <3>3, <3>4
  <2>2. t \in [1..Len(t) -> 0..W]
    BY <1>5, <1>6, <2>1, LenProperties
  <2>3. Len(t) \in Nat
    BY <1>1, <1>6
  <2> DEFINE T == 0..W
  <2>4. t \in [1..Len(t) -> T]
    BY <2>2
  <2> HIDE DEF T
  <2>5. t \in Seq(T)
    BY <2>3, <2>4, SeqDef
  <2> QED
    BY <2>5 DEF T
<1>9. Covers(g, t, p, left - 1)
  <2> DEFINE a == Len(h) - Len(s) - p
  <2>1. /\ a >= 0 /\ a \in Int /\ \A i \in 1..Len(s) : h[a + i] <= s[i] + Budget
        /\ p = 1 => h[Len(h)] <= Budget - left
    <3>1. a \in Int
      BY <1>1
    <3> HIDE DEF a
    <3> QED
      BY <1>1, <3>1 DEF Covers, a
  <2>2. Len(g) - Len(t) - p = a + d
    BY <1>1, <1>2, <1>6
  <2>3. \A i \in 1..Len(s) : a + i \in 1..Len(h)
    BY <1>1, <2>1
  <2>4. a + d >= 0 /\ a + d \in Int
    BY <1>6, <2>1
  <2>5. p = 1 => g[Len(g)] <= Budget - (left - 1)
    <3>1. p = 1 => Len(h) \in 1..Len(h)
      BY <1>1, <2>1
    <3> HIDE DEF a
    <3> QED
      <4>1. p = 1 => /\ g[Len(h)] <= h[Len(h)] + 1
                     /\ g[Len(h)] \in Int /\ h[Len(h)] \in Int
        BY <1>1, <1>2, <3>1
      <4>2. Budget \in Int
        BY Bounds
      <4> QED
        BY <1>2, <2>1, <4>1, <4>2
  <2> HIDE DEF a
  <2>6. ASSUME NEW i \in 1..(Len(s) - d) PROVE g[(a + d) + i] <= t[i] + Budget
    <3>1. /\ (a + d) + i = a + (d + i) /\ d + i \in 1..Len(s)
          /\ a + (d + i) \in 1..Len(h)
      BY <1>6, <2>1, <2>3
    <3>2. /\ g[a + (d + i)] <= h[a + (d + i)] + 1
          /\ h[a + (d + i)] <= s[d + i] + Budget
          /\ t[i] = s[d + i] + 1
      BY <1>2, <1>6, <2>1, <3>1
    <3>3. /\ g[a + (d + i)] \in Int /\ h[a + (d + i)] \in Int /\ s[d + i] \in Int
      BY <1>1, <1>2, <3>1
    <3>4. Budget \in Int
      BY Bounds
    <3>5. g[a + (d + i)] <= t[i] + Budget
      <4>1. \A x, y, z, b \in Int : x <= y + 1 /\ y <= z + b => x <= (z + 1) + b
        OBVIOUS
      <4> QED
        BY <3>2, <3>3, <3>4, <4>1
    <3> QED
      BY <3>1, <3>5
  <2> QED
    BY <1>6, <2>2, <2>4, <2>5, <2>6 DEF Covers
<1> QED
  BY <1>2, <1>3, <1>7, <1>8, <1>9 DEF g, t, older

--------------------------------------------------------------------------------
(* The queue as the set of its tasks, of which each thread has one at most.   *)

Tasks(q) == {q[i] : i \in DOMAIN q}
Single(q) == \A i, j \in DOMAIN q : q[i].by = q[j].by => i = j

(* Taking the head of the queue removes the only task of its caller. *)
LEMMA TailOfQueue ==
  ASSUME NEW q \in Seq(Jobs), q # <<>>, Single(q)
  PROVE  /\ Tail(q) \in Seq(Jobs) /\ Single(Tail(q))
         /\ Head(q) \in Tasks(q) /\ Head(q) \in Jobs
         /\ Tasks(Tail(q)) = {t \in Tasks(q) : t.by # Head(q).by}
<1> DEFINE r == Tail(q)
<1>1. /\ Len(q) \in Nat \ {0} /\ DOMAIN q = 1..Len(q)
      /\ r \in Seq(Jobs) /\ Len(r) = Len(q) - 1
      /\ \A i \in 1..(Len(q) - 1) : r[i] = q[i + 1]
      /\ Head(q) = q[1] /\ Head(q) \in Jobs
  BY EmptySeq, LenProperties, HeadTailProperties
<1>2. DOMAIN r = 1..(Len(q) - 1)
  BY <1>1, LenProperties
<1> HIDE DEF r
<1>3. Single(r)
  <2> SUFFICES ASSUME NEW i \in 1..(Len(q) - 1), NEW j \in 1..(Len(q) - 1),
                      r[i].by = r[j].by
               PROVE  i = j
    BY <1>2 DEF Single
  <2>1. r[i] = q[i + 1] /\ r[j] = q[j + 1] /\ i + 1 \in DOMAIN q /\ j + 1 \in DOMAIN q
    BY <1>1
  <2>2. i + 1 = j + 1
    BY <2>1 DEF Single
  <2> QED
    BY <1>1, <2>2
<1>4. Head(q) \in Tasks(q)
  BY <1>1 DEF Tasks
<1>5. \A t \in Tasks(r) : t \in Tasks(q) /\ t.by # q[1].by
  <2> SUFFICES ASSUME NEW i \in 1..(Len(q) - 1)
               PROVE  r[i] \in Tasks(q) /\ r[i].by # q[1].by
    BY <1>2 DEF Tasks
  <2>1. r[i] = q[i + 1] /\ i + 1 \in 1..Len(q) /\ i + 1 # 1 /\ 1 \in 1..Len(q)
    BY <1>1
  <2> QED
    BY SMTT(20), <1>1, <2>1 DEF Tasks, Single
<1>6. ASSUME NEW t \in Tasks(q), t.by # q[1].by PROVE t \in Tasks(r)
  <2>1. PICK i \in 1..Len(q) : t = q[i]
    BY <1>1 DEF Tasks
  <2>2. i - 1 \in 1..(Len(q) - 1) /\ (i - 1) + 1 = i
    BY <1>1, <1>6, <2>1
  <2>3. r[i - 1] = t
    BY <1>1, <2>1, <2>2
  <2> QED
    BY <1>2, <2>2, <2>3 DEF Tasks
<1> QED
  BY <1>1, <1>3, <1>4, <1>5, <1>6 DEF r

(* A caller with no task in the queue may add one. *)
LEMMA AppendToQueue ==
  ASSUME NEW q \in Seq(Jobs), Single(q), NEW job \in Jobs,
         \A t \in Tasks(q) : t.by # job.by
  PROVE  /\ Append(q, job) \in Seq(Jobs) /\ Single(Append(q, job))
         /\ Tasks(Append(q, job)) = Tasks(q) \cup {job}
<1> DEFINE r == Append(q, job)
<1>1. /\ Len(q) \in Nat /\ DOMAIN q = 1..Len(q)
      /\ r \in Seq(Jobs) /\ DOMAIN r = 1..(Len(q) + 1)
      /\ \A i \in 1..Len(q) : r[i] = q[i]
      /\ r[Len(q) + 1] = job
  BY LenProperties
<1> HIDE DEF r
<1>2. \A i \in DOMAIN r : i \in 1..Len(q) \/ i = Len(q) + 1
  BY <1>1
<1>3. 1..Len(q) \subseteq DOMAIN r /\ Len(q) + 1 \in DOMAIN r
  BY <1>1
<1>4. \A i \in 1..Len(q) : q[i] \in Tasks(q)
  BY <1>1 DEF Tasks
<1>5. Single(r)
  BY <1>1, <1>2, <1>4 DEF Single
<1>6. Tasks(r) = Tasks(q) \cup {job}
  BY <1>1, <1>2, <1>3 DEF Tasks
<1> QED
  BY <1>1, <1>5, <1>6 DEF r

(* Cancelling removes the task of one caller. *)
LEMMA CancelInQueue ==
  ASSUME queue \in Seq(Jobs), Single(queue), NEW c
  PROVE  /\ Cancelled(c) \in Seq(Jobs) /\ Single(Cancelled(c))
         /\ Tasks(Cancelled(c)) = {t \in Tasks(queue) : t.by # c}
<1> DEFINE mine == {i \in DOMAIN queue : queue[i].by = c}
           L == Len(queue)
<1>1. L \in Nat /\ DOMAIN queue = 1..L /\ \A i \in 1..L : queue[i] \in Jobs
  BY LenProperties, ElementOfSeq
<1>2. CASE mine = {}
  <2>1. Cancelled(c) = queue
    BY <1>2 DEF Cancelled
  <2>2. \A t \in Tasks(queue) : t.by # c
    BY <1>2 DEF Tasks
  <2> QED
    BY <2>1, <2>2
<1>3. CASE mine # {}
  <2> DEFINE k == CHOOSE i \in mine : TRUE
  <2>1. k \in 1..L /\ queue[k].by = c
    BY <1>1, <1>3
  <2>2. Cancelled(c) = SubSeq(queue, 1, k - 1) \o SubSeq(queue, k + 1, L)
    BY <1>3 DEF Cancelled, RemoveAt
  <2> HIDE DEF k
  <2> DEFINE a == SubSeq(queue, 1, k - 1)
             b == SubSeq(queue, k + 1, L)
             r == a \o b
  <2>3. /\ a \in Seq(Jobs) /\ Len(a) = k - 1
        /\ \A i \in 1..(k - 1) : a[i] = queue[i]
    <3>1. \A i \in 1..(k - 1) : queue[i] \in Jobs
      BY <1>1, <2>1
    <3>2. k - 1 \in Int /\ 1 \in Int
      BY <1>1, <2>1
    <3>3. /\ a \in Seq(Jobs)
          /\ Len(a) = IF 1 <= k - 1 THEN (k - 1) - 1 + 1 ELSE 0
          /\ \A i \in 1..((k - 1) - 1 + 1) : a[i] = queue[1 + i - 1]
      BY <3>1, <3>2, SubSeqProperties
    <3> HIDE DEF a
    <3> QED
      BY <1>1, <2>1, <3>3
  <2>4. /\ b \in Seq(Jobs) /\ Len(b) = L - k
        /\ \A i \in 1..(L - k) : b[i] = queue[k + i]
    <3>1. \A i \in (k + 1)..L : queue[i] \in Jobs
      BY <1>1, <2>1
    <3>2. k + 1 \in Int /\ L \in Int
      BY <1>1, <2>1
    <3> HIDE DEF L
    <3>3. /\ b \in Seq(Jobs)
          /\ Len(b) = IF k + 1 <= L THEN L - (k + 1) + 1 ELSE 0
          /\ \A i \in 1..(L - (k + 1) + 1) : b[i] = queue[(k + 1) + i - 1]
      BY <3>1, <3>2, SubSeqProperties
    <3> HIDE DEF b
    <3> QED
      BY <1>1, <2>1, <3>3
  <2> HIDE DEF a, b
  <2>5. /\ r \in Seq(Jobs) /\ DOMAIN r = 1..(L - 1)
        /\ \A i \in 1..(L - 1) :
             r[i] = IF i <= k - 1 THEN a[i] ELSE b[i - (k - 1)]
    <3>1. /\ r \in Seq(Jobs) /\ Len(r) = Len(a) + Len(b)
          /\ \A i \in 1..(Len(a) + Len(b)) :
               r[i] = IF i <= Len(a) THEN a[i] ELSE b[i - Len(a)]
      BY <2>3, <2>4, ConcatProperties
    <3>2. Len(a) + Len(b) = L - 1
      BY <1>1, <2>1, <2>3, <2>4
    <3> QED
      BY <2>3, <3>1, <3>2, LenProperties
  <2> HIDE DEF r
  <2>6. \A i \in 1..(L - 1) : \E j \in (1..L) \ {k} :
          /\ r[i] = queue[j] /\ j = IF i < k THEN i ELSE i + 1
    <3> SUFFICES ASSUME NEW i \in 1..(L - 1)
                 PROVE  \E j \in (1..L) \ {k} :
                          /\ r[i] = queue[j] /\ j = IF i < k THEN i ELSE i + 1
      OBVIOUS
    <3>1. CASE i < k
      <4>1. i <= k - 1 /\ i \in 1..(k - 1) /\ i \in (1..L) \ {k}
        BY <1>1, <2>1, <3>1
      <4> QED
        BY <2>3, <2>5, <3>1, <4>1
    <3>2. CASE ~(i < k)
      <4>1. /\ ~(i <= k - 1) /\ i - (k - 1) \in 1..(L - k)
            /\ k + (i - (k - 1)) = i + 1 /\ i + 1 \in (1..L) \ {k}
        BY <1>1, <2>1, <3>2
      <4> QED
        BY <2>4, <2>5, <3>2, <4>1
    <3> QED
      BY <3>1, <3>2
  <2>7. \A j \in (1..L) \ {k} : \E i \in 1..(L - 1) : r[i] = queue[j]
    <3> SUFFICES ASSUME NEW j \in (1..L) \ {k}
                 PROVE  \E i \in 1..(L - 1) : r[i] = queue[j]
      OBVIOUS
    <3>1. CASE j < k
      <4>1. j \in 1..(L - 1)
        BY <1>1, <2>1, <3>1
      <4> QED
        BY <2>6, <3>1, <4>1
    <3>2. CASE j > k
      <4>1. j - 1 \in 1..(L - 1) /\ ~(j - 1 < k) /\ (j - 1) + 1 = j
        BY <1>1, <2>1, <3>2
      <4> QED
        BY <2>6, <4>1
    <3> QED
      BY <1>1, <2>1, <3>1, <3>2
  <2>8. Single(r)
    <3> SUFFICES ASSUME NEW i \in 1..(L - 1), NEW j \in 1..(L - 1), r[i].by = r[j].by
                 PROVE  i = j
      BY <2>5 DEF Single
    <3>1. (IF i < k THEN i ELSE i + 1) = (IF j < k THEN j ELSE j + 1)
      BY <1>1, <2>6 DEF Single
    <3> QED
      BY <1>1, <2>1, <3>1
  <2>9. Tasks(r) = {t \in Tasks(queue) : t.by # c}
    <3>1. ASSUME NEW t \in Tasks(r) PROVE t \in Tasks(queue) /\ t.by # c
      <4>1. PICK j \in (1..L) \ {k} : t = queue[j]
        BY <2>5, <2>6 DEF Tasks
      <4> QED
        BY <1>1, <2>1, <4>1 DEF Tasks, Single
    <3>2. ASSUME NEW t \in Tasks(queue), t.by # c PROVE t \in Tasks(r)
      <4>1. PICK j \in (1..L) \ {k} : t = queue[j]
        BY <1>1, <2>1, <3>2 DEF Tasks
      <4> QED
        BY <2>5, <2>7, <4>1 DEF Tasks
    <3> QED
      BY <3>1, <3>2
  <2> QED
    BY <2>2, <2>5, <2>8, <2>9 DEF r, a, b
<1> QED
  BY <1>2, <1>3

--------------------------------------------------------------------------------
(* The breakers, the pool and the two threads.                                *)

(* The operations of a breaker give a breaker. *)
LEMMA BreakerType ==
  /\ Breaker!Fresh \in Breaker!Breakers
  /\ \A b \in Breaker!Breakers :
       /\ Breaker!Read(b) \in Breaker!Breakers
       /\ Breaker!RecordSuccess(b) \in Breaker!Breakers
       /\ Breaker!RecordFailure(b) \in Breaker!Breakers
       /\ Breaker!OlderBreaker(b) \in Breaker!Breakers
<1>1. Threshold \in Nat \ {0} /\ Cooldown \in Nat /\ Breaker!Never = -1
  BY FeedAssumption DEF Breaker!Never
<1>2. Breaker!Fresh \in Breaker!Breakers
  BY <1>1 DEF Breaker!Fresh, Breaker!Breakers
<1> SUFFICES ASSUME NEW b \in Breaker!Breakers
             PROVE  /\ Breaker!RecordFailure(b) \in Breaker!Breakers
                    /\ Breaker!OlderBreaker(b) \in Breaker!Breakers
  BY <1>2 DEF Breaker!Read, Breaker!RecordSuccess
<1>3. b.failures \in 0..Threshold /\ b.opened \in {Breaker!Never} \cup (0..Cooldown)
  BY DEF Breaker!Breakers
<1>4. \A n \in 0..Threshold, o \in {Breaker!Never} \cup (0..Cooldown) :
        [failures |-> n, opened |-> o] \in Breaker!Breakers
  BY DEF Breaker!Breakers
<1>5. Breaker!RecordFailure(b) \in Breaker!Breakers
  <2> DEFINE n == IF b.failures < Threshold THEN b.failures + 1 ELSE Threshold
             o == IF n >= Threshold /\ b.opened = Breaker!Never THEN 0 ELSE b.opened
  <2>1. n \in 0..Threshold
    BY <1>1, <1>3
  <2>2. o \in {Breaker!Never} \cup (0..Cooldown)
    BY <1>1, <1>3
  <2>3. Breaker!RecordFailure(b) = [failures |-> n, opened |-> o]
    BY DEF Breaker!RecordFailure
  <2> HIDE DEF n, o
  <2> QED
    BY <1>4, <2>1, <2>2, <2>3
<1>6. Breaker!OlderBreaker(b) \in Breaker!Breakers
  <2>1. CASE Breaker!IsOpen(b)
    <3>1. b.opened + 1 \in 0..Cooldown
      BY <1>1, <1>3, <2>1 DEF Breaker!IsOpen
    <3> QED
      BY <2>1, <3>1 DEF Breaker!OlderBreaker, Breaker!Breakers
  <2>2. CASE ~Breaker!IsOpen(b)
    BY <2>2 DEF Breaker!OlderBreaker
  <2> QED
    BY <2>1, <2>2
<1> QED
  BY <1>5, <1>6

Engines == [at : Idle \cup {"acquire", "fetch"}, venue : Venues \cup {"none"},
            legs : 0..2, left : 0..Budget]
Threads == [model : 0..2, left : 0..Budget]
Counts == [alpaca : Nat, other : Nat]

(* TypeOK but for the window and the venue's record.                          *)
PoolTypes ==
  /\ equity \in EquityProviders
  /\ breaker \in [Fenced -> Breaker!Breakers]
  /\ engine \in Engines
  /\ news \in Threads
  /\ queue \in Seq(Jobs)
  /\ running \subseteq Callers
  /\ lost \in Counts /\ Busy <= Workers
  /\ kicked \in 0..Interval
  /\ bias \in [tilt : BOOLEAN, age : 0..(TTL + 1)]
WindowTypes ==
  /\ hits \in Seq(Ages) /\ Len(hits) <= Limit
  /\ sent \in Seq(0..(Window - Budget))

(* The types, apart into those of the pool and those of the window. *)
LEMMA TypesSplit == TypeOK <=> PoolTypes /\ WindowTypes
BY DEF TypeOK, PoolTypes, WindowTypes, Engines, Threads, Counts, Jobs, Kinds, Ages

(* TaskInv over the set of the tasks.                                         *)
EngineWaitsFor(t, e, run) ==
  t.by = "engine" => /\ "engine" \notin run /\ e.at = "fetch" /\ t.what = e.venue
NewsWaitsFor(t, n, run) ==
  t.by = "news" => /\ "news" \notin run /\ n # NoThread /\ t.what \notin Venues
EngineTasks(Q, e, run) ==
  /\ \A t \in Q : EngineWaitsFor(t, e, run)
  /\ "engine" \in run => e.at = "fetch"
  /\ e.at \in Idle => e.venue = "none"
  /\ e.at = "acquire" => e.venue = "alpaca"
NewsTasks(Q, n, run) ==
  /\ \A t \in Q : NewsWaitsFor(t, n, run)
  /\ "news" \in run => n # NoThread
  /\ n.model = 0 => n = NoThread

(* TaskInv asks of the queue only which tasks it holds, once each. *)
LEMMA TaskInvOverSet ==
  ASSUME queue \in Seq(Jobs)
  PROVE  TaskInv <=> /\ Single(queue)
                     /\ EngineTasks(Tasks(queue), engine, running)
                     /\ NewsTasks(Tasks(queue), news, running)
<1>1. \A i \in DOMAIN queue : queue[i].by \in {"engine", "news"}
  <2>1. \A i \in DOMAIN queue : queue[i] \in Jobs
    BY LenProperties, ElementOfSeq
  <2> QED
    BY <2>1 DEF Jobs, Callers
<1>2. \A i \in DOMAIN queue : queue[i] \in Tasks(queue)
  BY DEF Tasks
<1>3. \A t \in Tasks(queue) : \E i \in DOMAIN queue : t = queue[i]
  BY DEF Tasks
<1> QED
  BY <1>1, <1>2, <1>3
  DEF TaskInv, Single, EngineTasks, NewsTasks, EngineWaitsFor, NewsWaitsFor

(* The workers that are taken.                                                *)
LEMMA BusyCount ==
  ASSUME NEW run, run \subseteq Callers
  PROVE  /\ IsFiniteSet(run) /\ Cardinality(run) \in Nat
         /\ \A c \in Callers : /\ Cardinality(run \cup {c}) <= Cardinality(run) + 1
                               /\ Cardinality(run \cup {c}) \in Nat
                               /\ Cardinality(run \ {c}) \in Nat
         /\ \A c \in run : Cardinality(run \ {c}) = Cardinality(run) - 1
         /\ \A c \in Callers \ run : run \ {c} = run
<1>1. IsFiniteSet(Callers)
  <2>1. IsFiniteSet({"engine"})
    BY FS_Singleton
  <2>2. IsFiniteSet({"engine"} \cup {"news"})
    BY <2>1, FS_AddElement
  <2>3. Callers = {"engine"} \cup {"news"}
    BY DEF Callers
  <2> QED
    BY <2>2, <2>3
<1>2. IsFiniteSet(run)
  BY <1>1, FS_Subset
<1>3. Cardinality(run) \in Nat
  BY <1>2, FS_CardinalityType
<1>4. \A c : /\ Cardinality(run \cup {c}) =
                  IF c \in run THEN Cardinality(run) ELSE Cardinality(run) + 1
             /\ Cardinality(run \ {c}) =
                  IF c \in run THEN Cardinality(run) - 1 ELSE Cardinality(run)
             /\ IsFiniteSet(run \ {c})
  BY <1>2, FS_AddElement, FS_RemoveElement
<1>5. \A c : Cardinality(run \ {c}) \in Nat
  BY <1>4, FS_CardinalityType
<1> QED
  BY <1>2, <1>3, <1>4, <1>5

(* What a step of the engine's call leads to: the next request, queued behind *)
(* q, or the end of the call.                                                 *)
EngineGoesOn(q) ==
  /\ engine' \in Engines
  /\ \/ /\ engine'.at = "fetch" /\ engine'.venue \in Venues
        /\ queue' = Append(q, Task("engine", engine'.venue))
     \/ engine'.at \in Idle /\ engine'.venue = "none" /\ queue' = q

(* The states the engine side is put in have their type. *)
LEMMA EngineStates ==
  /\ \A how \in Idle : Ended(how) \in Engines
  /\ \A v \in Venues, n \in 0..2 :
       [at |-> "fetch", venue |-> v, legs |-> n, left |-> Budget] \in Engines
<1>1. 0 \in 0..Budget /\ Budget \in 0..Budget /\ 0 \in 0..2
  BY Bounds
<1> QED
  BY <1>1 DEF Engines, Ended

(* Asking the next provider of a chain leaves the engine waiting or done. *)
LEMMA AskFromGoesOn ==
  ASSUME NEW v \in Fenced, NEW n \in 0..2, NEW q,
         NEW b \in [Fenced -> Breaker!Breakers], AskFrom(v, n, b, q)
  PROVE  /\ breaker' \in [Fenced -> Breaker!Breakers]
         /\ EngineGoesOn(q)
         /\ engine'.venue # "alpaca"
<1> DEFINE mine == Breaker!Read(b[v])
           kraken == Breaker!Read(b["kraken"])
<1>1. "kraken" \in Fenced /\ "coinbase" \in Fenced /\ Fenced \subseteq Venues
      /\ "alpaca" \notin Fenced /\ Legs("kraken") \in 0..2
  BY DEF Fenced, Venues, Legs
<1>2. mine \in Breaker!Breakers /\ kraken \in Breaker!Breakers
  BY <1>1, BreakerType
<1>3. ASSUME NEW u \in Fenced, NEW k \in 0..2,
             engine' = [at |-> "fetch", venue |-> u, legs |-> k, left |-> Budget],
             queue' = Append(q, Task("engine", u))
      PROVE  EngineGoesOn(q) /\ engine'.venue # "alpaca"
  <2>1. engine'.at = "fetch" /\ engine'.venue = u
    BY <1>3
  <2>2. engine' \in Engines
    BY <1>1, <1>3, EngineStates
  <2> QED
    BY <1>1, <1>3, <2>1, <2>2 DEF EngineGoesOn
<1>4. ASSUME NEW how \in Idle, engine' = Ended(how), queue' = q
      PROVE  EngineGoesOn(q) /\ engine'.venue # "alpaca"
  <2>1. engine'.at \in Idle /\ engine'.venue = "none"
    BY <1>4 DEF Ended
  <2>2. engine' \in Engines
    BY <1>4, EngineStates
  <2> QED
    BY <1>4, <2>1, <2>2 DEF EngineGoesOn
<1>5. \/ /\ breaker' = [b EXCEPT ![v] = mine]
         /\ engine' = [at |-> "fetch", venue |-> v, legs |-> n, left |-> Budget]
         /\ queue' = Append(q, Task("engine", v))
      \/ /\ breaker' = [b EXCEPT !["coinbase"] = mine, !["kraken"] = kraken]
         /\ engine' = [at |-> "fetch", venue |-> "kraken", legs |-> Legs("kraken"),
                       left |-> Budget]
         /\ queue' = Append(q, Task("engine", "kraken"))
      \/ /\ breaker' = [b EXCEPT ![v] = mine]
         /\ engine' = Ended(IF v = "yahoo" THEN "error" ELSE "unavailable")
         /\ queue' = q
  BY DEF AskFrom
<1>6. breaker' \in [Fenced -> Breaker!Breakers]
  <2> HIDE DEF mine, kraken
  <2> QED
    BY <1>2, <1>5
<1> HIDE DEF mine, kraken
<1>7. \A how \in {"error", "unavailable"} : how \in Idle
  BY DEF Idle
<1> QED
  BY <1>1, <1>3, <1>4, <1>5, <1>6, <1>7

(* The same of a request that failed.                                         *)
LEMMA FailOverGoesOn ==
  ASSUME breaker \in [Fenced -> Breaker!Breakers], engine.venue \in Fenced,
         NEW q, FailOver(q)
  PROVE  /\ breaker' \in [Fenced -> Breaker!Breakers]
         /\ EngineGoesOn(q)
         /\ engine'.venue # "alpaca"
<1> DEFINE b == [breaker EXCEPT ![engine.venue] = Breaker!RecordFailure(@)]
<1>1. b \in [Fenced -> Breaker!Breakers]
  BY BreakerType
<1> HIDE DEF b
<1>2. CASE engine.venue = "coinbase"
  <2>1. AskFrom("kraken", Legs("kraken"), b, q)
    BY <1>2 DEF FailOver, b
  <2>2. "kraken" \in Fenced /\ Legs("kraken") \in 0..2
    BY DEF Fenced, Legs
  <2> QED
    BY <1>1, <2>1, <2>2, AskFromGoesOn
<1>3. CASE engine.venue # "coinbase"
  <2>1. breaker' = b /\ engine' = Ended("unavailable") /\ queue' = q
    BY <1>3 DEF FailOver, b
  <2>2. engine' \in Engines /\ engine'.at \in Idle /\ engine'.venue = "none"
    BY <2>1, EngineStates DEF Idle, Ended
  <2> QED
    BY <1>1, <2>1, <2>2 DEF EngineGoesOn
<1> QED
  BY <1>2, <1>3

(* What a step of the news thread leads to.                                   *)
NewsGoesOn(q) ==
  /\ news' \in Threads
  /\ \/ /\ news'.model # 0
        /\ \E what \in Kinds \ Venues : queue' = Append(q, Task("news", what))
     \/ news' = NoThread /\ queue' = q

(* Asking a model leaves the news thread waiting for it. *)
LEMMA AskModelGoesOn ==
  ASSUME NEW m \in {1, 2}, NEW q, AskModel(m, q)
  PROVE  NewsGoesOn(q)
<1>1. Models[m] \in Kinds \ Venues
  BY DEF Models, Kinds, Venues, Fenced
<1>2. news' = [model |-> m, left |-> Budget] /\ Budget \in 0..Budget
  BY Bounds DEF AskModel
<1>3. news' \in Threads /\ news'.model = m
  BY <1>2 DEF Threads
<1>4. queue' = Append(q, Task("news", Models[m]))
  BY DEF AskModel
<1> QED
  BY <1>1, <1>3, <1>4 DEF NewsGoesOn

(* After a failed model the news thread asks the next or ends. *)
LEMMA NextModelGoesOn ==
  ASSUME news \in Threads, news.model # 0, NEW q, NextModel(q),
         bias \in [tilt : BOOLEAN, age : 0..(TTL + 1)]
  PROVE  NewsGoesOn(q) /\ bias' \in [tilt : BOOLEAN, age : 0..(TTL + 1)]
<1>1. Len(Models) = 2 /\ news.model \in {1, 2}
  BY DEF Models, Threads
<1>2. CASE news.model < Len(Models)
  <2>1. news.model + 1 \in {1, 2}
    BY <1>1, <1>2
  <2>2. AskModel(news.model + 1, q) /\ bias' = bias
    BY <1>2 DEF NextModel
  <2> QED
    BY <2>1, <2>2, AskModelGoesOn
<1>3. CASE ~(news.model < Len(Models))
  <2>1. news' = NoThread /\ queue' = q /\ bias' = [tilt |-> FALSE, age |-> 0]
    BY <1>3 DEF NextModel
  <2>2. NoThread \in Threads /\ 0 \in 0..(TTL + 1)
    BY Bounds, FeedAssumption DEF NoThread, Threads
  <2> QED
    BY <2>1, <2>2 DEF NewsGoesOn
<1> QED
  BY <1>2, <1>3

(* The primed form of TaskInvOverSet.                                         *)
LEMMA NextTaskInvOverSet ==
  ASSUME queue' \in Seq(Jobs)
  PROVE  TaskInv' <=> /\ Single(queue')
                      /\ EngineTasks(Tasks(queue'), engine', running')
                      /\ NewsTasks(Tasks(queue'), news', running')
<1>1. \A i \in DOMAIN queue' : queue'[i].by \in {"engine", "news"}
  <2>1. \A i \in DOMAIN queue' : queue'[i] \in Jobs
    BY LenProperties, ElementOfSeq
  <2> QED
    BY <2>1 DEF Jobs, Callers
<1>2. \A i \in DOMAIN queue' : queue'[i] \in Tasks(queue')
  BY DEF Tasks
<1>3. \A t \in Tasks(queue') : \E i \in DOMAIN queue' : t = queue'[i]
  BY DEF Tasks
<1> QED
  BY <1>1, <1>2, <1>3
  DEF TaskInv, Single, EngineTasks, NewsTasks, EngineWaitsFor, NewsWaitsFor

(* The engine's step keeps both threads' tasks in order: q is the queue       *)
(* without a task of the engine's.                                            *)
LEMMA EngineMoves ==
  ASSUME queue \in Seq(Jobs), TaskInv,
         NEW q \in Seq(Jobs), Single(q),
         \A t \in Tasks(q) : t \in Tasks(queue) /\ t.by # "engine",
         EngineGoesOn(q), running' = running \ {"engine"}, news' = news
  PROVE  queue' \in Seq(Jobs) /\ TaskInv'
<1>1. /\ EngineTasks(Tasks(queue), engine, running)
      /\ NewsTasks(Tasks(queue), news, running)
  BY TaskInvOverSet
<1>2. ASSUME NEW job \in Jobs, job.by = "engine", job.what = engine'.venue,
             engine'.at = "fetch", queue' = Append(q, job)
      PROVE  queue' \in Seq(Jobs) /\ TaskInv'
  <2>1. /\ queue' \in Seq(Jobs) /\ Single(queue')
        /\ Tasks(queue') = Tasks(q) \cup {job}
    BY <1>2, AppendToQueue
  <2>2. EngineTasks(Tasks(queue'), engine', running')
    BY <1>2, <2>1 DEF EngineTasks, EngineWaitsFor, Idle
  <2>3. NewsTasks(Tasks(queue'), news', running')
    BY <1>1, <1>2, <2>1 DEF NewsTasks, NewsWaitsFor
  <2> QED
    BY <2>1, <2>2, <2>3, NextTaskInvOverSet
<1>3. CASE /\ engine'.at = "fetch" /\ engine'.venue \in Venues
           /\ queue' = Append(q, Task("engine", engine'.venue))
  <2>1. \A v \in Venues : /\ Task("engine", v) \in Jobs
                          /\ Task("engine", v).by = "engine"
                          /\ Task("engine", v).what = v
    BY DEF Task, Jobs, Callers, Kinds
  <2> QED
    BY <1>2, <1>3, <2>1
<1>4. CASE engine'.at \in Idle /\ engine'.venue = "none" /\ queue' = q
  <2>1. EngineTasks(Tasks(queue'), engine', running')
    BY <1>4 DEF EngineTasks, EngineWaitsFor, Idle
  <2>2. NewsTasks(Tasks(queue'), news', running')
    BY <1>1, <1>4 DEF NewsTasks, NewsWaitsFor
  <2> QED
    BY <1>4, <2>1, <2>2, NextTaskInvOverSet
<1> QED
  BY <1>3, <1>4 DEF EngineGoesOn

(* The same of the news thread's step.                                        *)
LEMMA NewsMoves ==
  ASSUME queue \in Seq(Jobs), TaskInv,
         NEW q \in Seq(Jobs), Single(q),
         \A t \in Tasks(q) : t \in Tasks(queue) /\ t.by # "news",
         NewsGoesOn(q), running' = running \ {"news"}, engine' = engine
  PROVE  /\ queue' \in Seq(Jobs) /\ TaskInv'
         /\ \A t \in Tasks(queue') : t.by = "engine" => t \in Tasks(queue)
<1>1. /\ EngineTasks(Tasks(queue), engine, running)
      /\ NewsTasks(Tasks(queue), news, running)
  BY TaskInvOverSet
<1>0. NoThread.model = 0
  BY DEF NoThread
<1>2. ASSUME NEW job \in Jobs, job.by = "news", job.what \notin Venues,
             news'.model # 0, queue' = Append(q, job)
      PROVE  /\ queue' \in Seq(Jobs) /\ TaskInv'
             /\ \A t \in Tasks(queue') : t.by = "engine" => t \in Tasks(queue)
  <2>1. /\ queue' \in Seq(Jobs) /\ Single(queue')
        /\ Tasks(queue') = Tasks(q) \cup {job}
    BY <1>2, AppendToQueue
  <2>2. NewsTasks(Tasks(queue'), news', running')
    BY <1>0, <1>2, <2>1 DEF NewsTasks, NewsWaitsFor
  <2>3. EngineTasks(Tasks(queue'), engine', running')
    BY <1>1, <1>2, <2>1 DEF EngineTasks, EngineWaitsFor
  <2> QED
    BY <1>2, <2>1, <2>2, <2>3, NextTaskInvOverSet
<1>3. CASE /\ news'.model # 0
           /\ \E what \in Kinds \ Venues : queue' = Append(q, Task("news", what))
  <2>1. \A v \in Kinds \ Venues : /\ Task("news", v) \in Jobs
                                  /\ Task("news", v).by = "news"
                                  /\ Task("news", v).what = v
    BY DEF Task, Jobs, Callers, Kinds
  <2> QED
    BY <1>2, <1>3, <2>1
<1>4. CASE news' = NoThread /\ queue' = q
  <2>1. NewsTasks(Tasks(queue'), news', running')
    BY <1>4 DEF NewsTasks, NewsWaitsFor
  <2>2. EngineTasks(Tasks(queue'), engine', running')
    BY <1>1, <1>4 DEF EngineTasks, EngineWaitsFor
  <2> QED
    BY <1>4, <2>1, <2>2, NextTaskInvOverSet
<1> QED
  BY <1>3, <1>4 DEF NewsGoesOn

(* The two queues a thread's step starts from.                                *)
LEMMA NoTaskWhileRunning ==
  ASSUME queue \in Seq(Jobs), TaskInv, NEW c \in Callers,
         \/ c \in running
         \/ c = "engine" /\ engine.at # "fetch"
         \/ c = "news" /\ news = NoThread
  PROVE  Single(queue) /\ \A t \in Tasks(queue) : t.by # c
<1>1. /\ Single(queue)
      /\ EngineTasks(Tasks(queue), engine, running)
      /\ NewsTasks(Tasks(queue), news, running)
  BY TaskInvOverSet
<1> QED
  BY <1>1 DEF EngineTasks, NewsTasks, EngineWaitsFor, NewsWaitsFor, Callers

(* An abandoned task keeps its worker.                                        *)
LEMMA AbandonKeepsBusy ==
  ASSUME running \subseteq Callers, lost \in Counts, Busy <= Workers,
         NEW c \in Callers, NEW what, Abandon(c, what)
  PROVE  running' \subseteq Callers /\ lost' \in Counts /\ Busy' <= Workers
<1>1. /\ Cardinality(running) \in Nat
      /\ c \in running => Cardinality(running \ {c}) = Cardinality(running) - 1
      /\ c \notin running => running \ {c} = running
  BY BusyCount
<1>2. lost.alpaca \in Nat /\ lost.other \in Nat /\ Workers \in Nat
  BY FeedAssumption DEF Counts
<1>3. running' = running \ {c} /\ running' \subseteq Callers
  BY DEF Abandon
<1>4. CASE c \notin running
  <2>1. lost' = lost /\ running' = running
    BY <1>1, <1>3, <1>4 DEF Abandon
  <2> QED
    BY <1>3, <2>1 DEF Busy
<1>5. CASE c \in running
  <2>1. Cardinality(running') = Cardinality(running) - 1
    BY <1>1, <1>3, <1>5
  <2>2. \/ lost' = [lost EXCEPT !.alpaca = @ + 1]
        \/ lost' = [lost EXCEPT !.other = @ + 1]
    BY <1>5 DEF Abandon
  <2>3. lost' \in Counts /\ lost'.alpaca + lost'.other = lost.alpaca + lost.other + 1
    BY <1>2, <2>2 DEF Counts
  <2>4. lost'.alpaca \in Nat /\ lost'.other \in Nat
    BY <2>3 DEF Counts
  <2> QED
    BY <1>1, <1>2, <1>3, <2>1, <2>3, <2>4 DEF Busy
<1> QED
  BY <1>4, <1>5

(* A task that is no longer waited for frees its worker.                      *)
LEMMA AnswerFreesWorker ==
  ASSUME running \subseteq Callers, lost \in Counts, Busy <= Workers,
         NEW c \in Callers, running' = running \ {c}, lost' = lost
  PROVE  running' \subseteq Callers /\ Busy' <= Workers
<1>1. /\ Cardinality(running) \in Nat /\ Cardinality(running \ {c}) \in Nat
      /\ c \in running => Cardinality(running \ {c}) = Cardinality(running) - 1
      /\ c \notin running => running \ {c} = running
  BY BusyCount
<1>2. lost.alpaca \in Nat /\ lost.other \in Nat /\ Workers \in Nat
  BY FeedAssumption DEF Counts
<1>3. Cardinality(running') <= Cardinality(running)
  BY <1>1
<1> HIDE DEF Busy
<1>4. Busy' <= Busy
  BY <1>1, <1>2, <1>3 DEF Busy
<1>5. Busy \in Int /\ Busy' \in Int
  BY <1>1, <1>2 DEF Busy
<1> QED
  BY <1>2, <1>4, <1>5

(* The parts of the types the other thread's steps leave alone.               *)
EngineSide == /\ breaker \in [Fenced -> Breaker!Breakers]
              /\ engine \in Engines
NewsSide == /\ news \in Threads /\ kicked \in 0..Interval
            /\ bias \in [tilt : BOOLEAN, age : 0..(TTL + 1)]
Shared == /\ queue \in Seq(Jobs)
          /\ running \subseteq Callers
          /\ lost \in Counts /\ Busy <= Workers

(* The types of the pool, by the part of the state they speak of. *)
LEMMA PoolTypesSplit ==
  PoolTypes <=> equity \in EquityProviders /\ EngineSide /\ NewsSide /\ Shared
BY DEF PoolTypes, EngineSide, NewsSide, Shared

(* A worker takes a task.                                                     *)
LEMMA TakeTaskKeeps ==
  ASSUME PoolTypes, TaskInv, TakeTask
  PROVE  Shared' /\ TaskInv'
<1>1. /\ queue \in Seq(Jobs) /\ queue # <<>> /\ running \subseteq Callers
      /\ lost \in Counts /\ Busy < Workers /\ engine' = engine /\ news' = news
      /\ running' = running \cup {Head(queue).by} /\ queue' = Tail(queue)
      /\ lost' = lost
  BY DEF PoolTypes, TakeTask, newsVars
<1>2. /\ Single(queue)
      /\ EngineTasks(Tasks(queue), engine, running)
      /\ NewsTasks(Tasks(queue), news, running)
  BY <1>1, TaskInvOverSet
<1> DEFINE h == Head(queue)
<1>3. /\ queue' \in Seq(Jobs) /\ Single(queue')
      /\ h \in Tasks(queue) /\ h \in Jobs
      /\ Tasks(queue') = {t \in Tasks(queue) : t.by # h.by}
  BY <1>1, <1>2, TailOfQueue
<1>4. running' \subseteq Callers /\ h.by \in Callers
  BY <1>1, <1>3 DEF Jobs
<1>5. Busy' <= Workers
  <2>1. /\ Cardinality(running) \in Nat /\ Cardinality(running') \in Nat
        /\ Cardinality(running') <= Cardinality(running) + 1
    BY <1>1, <1>4, BusyCount
  <2>2. lost.alpaca \in Nat /\ lost.other \in Nat /\ Workers \in Nat
    BY <1>1, FeedAssumption DEF Counts
  <2>3. Busy' <= Busy + 1 /\ Busy \in Int /\ Busy' \in Int
    BY SMTT(20), <1>1, <2>1, <2>2 DEF Busy
  <2> HIDE DEF Busy
  <2> QED
    BY <1>1, <2>2, <2>3
<1> HIDE DEF h
<1>6. EngineTasks(Tasks(queue'), engine', running')
  BY <1>1, <1>2, <1>3 DEF EngineTasks, EngineWaitsFor, h
<1>7. NewsTasks(Tasks(queue'), news', running')
  BY <1>1, <1>2, <1>3 DEF NewsTasks, NewsWaitsFor, h
<1>8. TaskInv'
  BY <1>3, <1>6, <1>7, NextTaskInvOverSet
<1> QED
  BY <1>1, <1>3, <1>4, <1>5, <1>8 DEF Shared

(* What the engine's steps have in common.                                    *)
LEMMA EngineSteps ==
  ASSUME PoolTypes, TaskInv, NEW q \in Seq(Jobs), Single(q),
         \A t \in Tasks(q) : t \in Tasks(queue) /\ t.by # "engine",
         EngineGoesOn(q), breaker' \in [Fenced -> Breaker!Breakers],
         UNCHANGED newsVars,
         \/ running' = running \ {"engine"} /\ lost' = lost
         \/ \E what : Abandon("engine", what)
  PROVE  EngineSide' /\ NewsSide' /\ Shared' /\ TaskInv'
<1>1. /\ queue \in Seq(Jobs) /\ running \subseteq Callers
      /\ lost \in Counts /\ Busy <= Workers /\ news' = news
      /\ "engine" \in Callers
  BY DEF PoolTypes, newsVars, Callers
<1>2. running' = running \ {"engine"}
  BY DEF Abandon
<1>3. running' \subseteq Callers /\ lost' \in Counts /\ Busy' <= Workers
  BY <1>1, AbandonKeepsBusy, AnswerFreesWorker
<1>4. queue' \in Seq(Jobs) /\ TaskInv'
  BY <1>1, <1>2, EngineMoves
<1>5. EngineSide'
  BY DEF EngineSide, EngineGoesOn
<1>6. NewsSide'
  BY PoolTypesSplit DEF NewsSide, newsVars
<1> QED
  BY <1>3, <1>4, <1>5, <1>6 DEF Shared

(* What the news thread's steps have in common.                               *)
LEMMA NewsSteps ==
  ASSUME PoolTypes, TaskInv, NEW q \in Seq(Jobs), Single(q),
         \A t \in Tasks(q) : t \in Tasks(queue) /\ t.by # "news",
         NewsGoesOn(q), kicked' \in 0..Interval,
         bias' \in [tilt : BOOLEAN, age : 0..(TTL + 1)],
         UNCHANGED <<breaker, engine>>,
         \/ running' = running \ {"news"} /\ lost' = lost
         \/ \E what : Abandon("news", what)
  PROVE  /\ EngineSide' /\ NewsSide' /\ Shared' /\ TaskInv'
         /\ \A t \in Tasks(queue') : t.by = "engine" => t \in Tasks(queue)
<1>1. /\ queue \in Seq(Jobs) /\ running \subseteq Callers
      /\ lost \in Counts /\ Busy <= Workers /\ engine' = engine
      /\ "news" \in Callers
  BY DEF PoolTypes, Callers
<1>2. running' = running \ {"news"}
  BY DEF Abandon
<1>3. running' \subseteq Callers /\ lost' \in Counts /\ Busy' <= Workers
  BY <1>1, AbandonKeepsBusy, AnswerFreesWorker
<1>4. /\ queue' \in Seq(Jobs) /\ TaskInv'
      /\ \A t \in Tasks(queue') : t.by = "engine" => t \in Tasks(queue)
  BY <1>1, <1>2, NewsMoves
<1>5. NewsSide'
  BY DEF NewsSide, NewsGoesOn
<1>6. EngineSide'
  BY PoolTypesSplit DEF EngineSide
<1> QED
  BY <1>3, <1>4, <1>5, <1>6 DEF Shared

(* The steps of the news thread, one by one: none of them touches a task of   *)
(* the engine's.                                                              *)
LEMMA NewsActions ==
  ASSUME PoolTypes, TaskInv, KickNews \/ ModelAnswers \/ ModelFails \/ ModelTimeout
  PROVE  /\ EngineSide' /\ NewsSide' /\ Shared' /\ TaskInv'
         /\ \A t \in Tasks(queue') : t.by = "engine" => t \in Tasks(queue)
<1>1. /\ NewsSide /\ Shared /\ queue \in Seq(Jobs)
  BY PoolTypesSplit DEF Shared
<1>2. /\ Single(queue)
      /\ NewsTasks(Tasks(queue), news, running)
  BY <1>1, TaskInvOverSet
<1>3. /\ Cancelled("news") \in Seq(Jobs) /\ Single(Cancelled("news"))
      /\ \A t \in Tasks(Cancelled("news")) : t \in Tasks(queue) /\ t.by # "news"
  BY <1>1, <1>2, CancelInQueue
<1>4. ASSUME "news" \in running \/ news = NoThread
      PROVE  \A t \in Tasks(queue) : t \in Tasks(queue) /\ t.by # "news"
  BY <1>1, <1>4, NoTaskWhileRunning DEF Callers
<1>5. news = NoThread => running \ {"news"} = running
  BY <1>2 DEF NewsTasks
<1>6. /\ bias \in [tilt : BOOLEAN, age : 0..(TTL + 1)]
      /\ kicked \in 0..Interval
  BY <1>1 DEF NewsSide
<1>7. CASE KickNews
  <2>1. news = NoThread /\ kicked' = 0
        /\ \/ news' = news /\ queue' = queue
           \/ AskModel(1, queue)
        /\ running' = running /\ lost' = lost /\ bias' = bias
        /\ breaker' = breaker /\ engine' = engine
    BY <1>7 DEF KickNews, sources
  <2>2. NewsGoesOn(queue)
    BY <1>1, <2>1, AskModelGoesOn DEF NewsGoesOn, NewsSide
  <2>3. kicked' \in 0..Interval
    BY <2>1, FeedAssumption
  <2> QED
    BY <1>1, <1>2, <1>4, <1>5, <1>6, <2>1, <2>2, <2>3, NewsSteps
<1>8. CASE ModelAnswers
  <2>1. "news" \in running /\ running' = running \ {"news"} /\ news' = NoThread
        /\ bias' \in {bias} \cup {[tilt |-> t, age |-> 0] : t \in BOOLEAN}
        /\ queue' = queue /\ lost' = lost /\ kicked' = kicked
        /\ breaker' = breaker /\ engine' = engine
    BY <1>8 DEF ModelAnswers, sources
  <2>2. NewsGoesOn(queue)
    BY <2>1, Bounds DEF NewsGoesOn, Threads, NoThread
  <2>3. bias' \in [tilt : BOOLEAN, age : 0..(TTL + 1)]
    BY <1>6, <2>1, FeedAssumption
  <2> QED
    BY <1>1, <1>2, <1>4, <1>6, <2>1, <2>2, <2>3, NewsSteps
<1>9. CASE ModelFails
  <2>1. "news" \in running /\ running' = running \ {"news"} /\ NextModel(queue)
        /\ lost' = lost /\ kicked' = kicked /\ breaker' = breaker /\ engine' = engine
    BY <1>9 DEF ModelFails, sources
  <2>2. news \in Threads /\ news.model # 0
    BY <1>1, <1>2, <2>1 DEF NewsSide, NewsTasks
  <2>3. NewsGoesOn(queue) /\ bias' \in [tilt : BOOLEAN, age : 0..(TTL + 1)]
    BY <1>6, <2>1, <2>2, NextModelGoesOn
  <2> QED
    BY <1>1, <1>2, <1>4, <1>6, <2>1, <2>3, NewsSteps
<1>10. CASE ModelTimeout
  <2>1. news # NoThread /\ Abandon("news", Models[news.model])
        /\ NextModel(Cancelled("news"))
        /\ kicked' = kicked /\ breaker' = breaker /\ engine' = engine
    BY <1>10 DEF ModelTimeout, sources
  <2>2. news \in Threads /\ news.model # 0
    BY <1>1, <1>2, <2>1 DEF NewsSide, NewsTasks
  <2>3. NewsGoesOn(Cancelled("news")) /\ bias' \in [tilt : BOOLEAN, age : 0..(TTL + 1)]
    BY <1>6, <2>1, <2>2, NextModelGoesOn
  <2> QED
    BY <1>1, <1>3, <1>6, <2>1, <2>3, NewsSteps
<1> QED
  BY <1>7, <1>8, <1>9, <1>10

(* Time passes for the engine only while it has some of its budget left.      *)
LEMMA TickLeavesTime ==
  ASSUME TypeOK, Tick, engine.at \notin Idle
  PROVE  engine.left > 0
<1>1. /\ engine.left \in 0..Budget /\ Budget \in Nat /\ Limit \in Nat \ {0}
      /\ hits \in Seq(Ages) /\ engine.at \in Idle \cup {"acquire", "fetch"}
      /\ engine.at = "acquire" => MustSleep
      /\ engine.at = "fetch" => engine.left > 0
  BY Bounds DEF TypeOK, Tick, Ages
<1>2. CASE engine.at = "acquire"
  <2>1. ~(Len(Governor!Prune(hits)) < Limit) /\ Governor!Wait(hits) <= engine.left
    BY <1>1, <1>2 DEF MustSleep, Governor!HasSlot
  <2>2. Governor!Prune(hits) \in Seq(Ages)
    <3>1. Window \in Int /\ Ages \subseteq Int
      BY Bounds
    <3> QED
      BY <1>1, <3>1, RecentIsRest DEF Governor!Prune
  <2>3. Len(Governor!Prune(hits)) \in Nat /\ Governor!Prune(hits) # <<>>
    BY <1>1, <2>1, <2>2, LenProperties
  <2>4. Head(Governor!Prune(hits)) \in Int
    BY <2>2, <2>3, HeadTailProperties, Bounds
  <2>5. Governor!Wait(hits) \in Int /\ Governor!Wait(hits) >= 1
    BY <2>4, Bounds DEF Governor!Wait
  <2> QED
    BY <1>1, <2>1, <2>5
<1> QED
  BY <1>1, <1>2

(* Every action keeps the types and TaskInv.                                  *)
LEMMA PoolStep ==
  ASSUME TypeOK, TaskInv, [Next]_vars
  PROVE  PoolTypes' /\ TaskInv'
<1>1. /\ PoolTypes /\ equity \in EquityProviders /\ EngineSide /\ NewsSide /\ Shared
      /\ queue \in Seq(Jobs)
  BY TypesSplit, PoolTypesSplit DEF Shared
<1>2. /\ Single(queue)
      /\ EngineTasks(Tasks(queue), engine, running)
      /\ NewsTasks(Tasks(queue), news, running)
  BY <1>1, TaskInvOverSet
<1>3. /\ Cancelled("engine") \in Seq(Jobs) /\ Single(Cancelled("engine"))
      /\ \A t \in Tasks(Cancelled("engine")) : t \in Tasks(queue) /\ t.by # "engine"
      /\ Cancelled("news") \in Seq(Jobs) /\ Single(Cancelled("news"))
      /\ \A t \in Tasks(Cancelled("news")) : t \in Tasks(queue) /\ t.by # "news"
  BY <1>1, <1>2, CancelInQueue
<1>4. ASSUME "engine" \in running \/ engine.at # "fetch"
      PROVE  \A t \in Tasks(queue) : t \in Tasks(queue) /\ t.by # "engine"
  BY <1>1, <1>4, NoTaskWhileRunning DEF Callers
<1>5. ASSUME "news" \in running \/ news = NoThread
      PROVE  \A t \in Tasks(queue) : t \in Tasks(queue) /\ t.by # "news"
  BY <1>1, <1>5, NoTaskWhileRunning DEF Callers
<1>6. /\ engine.at # "fetch" => running \ {"engine"} = running
      /\ news = NoThread => running \ {"news"} = running
  BY <1>2 DEF EngineTasks, NewsTasks
<1>7. \A how \in Idle : how # "fetch" /\ how # "acquire"
  BY DEF Idle
<1>8. breaker \in [Fenced -> Breaker!Breakers] /\ bias \in [tilt : BOOLEAN, age : 0..(TTL + 1)]
      /\ kicked \in 0..Interval
  BY <1>1 DEF EngineSide, NewsSide
<1>9. equity' = equity
  BY DEF Next, vars, TakeTask, LateEnd, BeginAlpaca, Acquire, AcquireRaises,
         AlpacaAnswers, AlpacaTimeout, BeginCrypto, BeginYahoo, FencedAnswers,
         FencedFails, FencedTimeout, KickNews, ModelAnswers, ModelFails,
         ModelTimeout, Tick, sources
<1> SUFFICES EngineSide' /\ NewsSide' /\ Shared' /\ TaskInv'
  BY <1>1, <1>9 DEF PoolTypes, EngineSide, NewsSide, Shared
<1>10. CASE TakeTask
  <2>1. Shared' /\ TaskInv'
    BY <1>1, <1>10, TakeTaskKeeps
  <2>2. EngineSide' /\ NewsSide'
    BY <1>1, <1>10 DEF TakeTask, EngineSide, NewsSide, newsVars
  <2> QED
    BY <2>1, <2>2
<1>11. CASE LateEnd
  <2>1. lost' \in Counts /\ lost'.alpaca + lost'.other <= lost.alpaca + lost.other
        /\ lost'.alpaca \in Nat /\ lost'.other \in Nat
        /\ lost.alpaca \in Nat /\ lost.other \in Nat
    BY <1>1, <1>11 DEF LateEnd, Shared, Counts
  <2>2. running' = running /\ queue' = queue /\ engine' = engine /\ news' = news
        /\ kicked' = kicked /\ bias' = bias /\ breaker' = breaker
    BY <1>11 DEF LateEnd, newsVars
  <2>3. Busy' <= Workers
    <3>1. Cardinality(running) \in Nat /\ Workers \in Nat /\ Busy <= Workers
      BY <1>1, BusyCount, FeedAssumption DEF Shared
    <3> QED
      BY <2>1, <2>2, <3>1 DEF Busy
  <2> QED
    BY <1>1, <1>8, <2>1, <2>2, <2>3
    DEF EngineSide, NewsSide, Shared, TaskInv, NoThread
<1>12. CASE BeginAlpaca
  <2>1. engine' = [at |-> "acquire", venue |-> "alpaca", legs |-> 1, left |-> Budget]
        /\ engine.at \in Idle
        /\ queue' = queue /\ running' = running /\ lost' = lost
        /\ breaker' = breaker /\ news' = news /\ kicked' = kicked /\ bias' = bias
    BY <1>12 DEF BeginAlpaca, sources, newsVars
  <2>2. EngineSide'
    BY <1>1, <2>1, Bounds DEF EngineSide, Engines, Venues
  <2>3. EngineTasks(Tasks(queue'), engine', running')
    BY <1>2, <1>7, <2>1 DEF EngineTasks, EngineWaitsFor, Idle
  <2>4. NewsTasks(Tasks(queue'), news', running')
    BY <1>2, <2>1
  <2> QED
    BY <1>1, <1>2, <2>1, <2>2, <2>3, <2>4, NextTaskInvOverSet DEF NewsSide, Shared, Busy
<1>13. CASE Acquire
  <2>1. engine.at = "acquire" /\ engine.venue = "alpaca"
        /\ engine' = [engine EXCEPT !.at = "fetch", !.left = Budget]
        /\ queue' = Append(queue, Task("engine", "alpaca"))
        /\ running' = running /\ lost' = lost /\ breaker' = breaker
        /\ UNCHANGED newsVars
    BY <1>2, <1>13 DEF Acquire, EngineTasks
  <2>2. EngineGoesOn(queue)
    <3>1. engine \in Engines /\ Budget \in 0..Budget /\ "alpaca" \in Venues
      BY <1>1, Bounds DEF EngineSide, Venues
    <3>2. engine' \in Engines /\ engine'.at = "fetch" /\ engine'.venue = "alpaca"
      BY <2>1, <3>1 DEF Engines
    <3> QED
      BY <2>1, <3>1, <3>2 DEF EngineGoesOn
  <2> QED
    BY <1>1, <1>2, <1>4, <1>6, <1>8, <2>1, <2>2, EngineSteps
<1>14. CASE AcquireRaises
  <2>1. engine.at = "acquire" /\ engine' = Ended("error") /\ queue' = queue
        /\ running' = running /\ lost' = lost /\ breaker' = breaker
        /\ UNCHANGED newsVars
    BY <1>14 DEF AcquireRaises
  <2>2. EngineGoesOn(queue)
    BY <2>1, EngineStates DEF EngineGoesOn, Idle, Ended
  <2> QED
    BY <1>1, <1>2, <1>4, <1>6, <1>8, <2>1, <2>2, EngineSteps
<1>15. CASE AlpacaAnswers
  <2>1. "engine" \in running /\ running' = running \ {"engine"} /\ lost' = lost
        /\ (engine' = Ended("answered") \/ engine' = Ended("unavailable"))
        /\ queue' = queue /\ breaker' = breaker /\ UNCHANGED newsVars
    BY <1>15 DEF AlpacaAnswers
  <2>2. EngineGoesOn(queue)
    BY <2>1, EngineStates DEF EngineGoesOn, Idle, Ended
  <2> QED
    BY <1>1, <1>2, <1>4, <1>8, <2>1, <2>2, EngineSteps
<1>16. CASE AlpacaTimeout
  <2>1. Abandon("engine", "alpaca") /\ engine' = Ended("unavailable")
        /\ queue' = Cancelled("engine") /\ breaker' = breaker /\ UNCHANGED newsVars
    BY <1>16 DEF AlpacaTimeout, sources
  <2>2. EngineGoesOn(Cancelled("engine"))
    BY <2>1, EngineStates DEF EngineGoesOn, Idle, Ended
  <2> QED
    BY <1>1, <1>3, <1>8, <2>1, <2>2, EngineSteps
<1>17. CASE BeginCrypto
  <2>1. engine.at \in Idle /\ AskFrom("coinbase", Legs("coinbase"), breaker, queue)
        /\ running' = running /\ lost' = lost /\ UNCHANGED newsVars
        /\ "coinbase" \in Fenced /\ Legs("coinbase") \in 0..2
    BY <1>17 DEF BeginCrypto, Fenced, Legs
  <2>2. EngineGoesOn(queue) /\ breaker' \in [Fenced -> Breaker!Breakers]
    BY <1>8, <2>1, AskFromGoesOn
  <2> QED
    BY <1>1, <1>2, <1>4, <1>6, <1>7, <2>1, <2>2, EngineSteps
<1>18. CASE BeginYahoo
  <2>1. engine.at \in Idle /\ AskFrom("yahoo", Legs("yahoo"), breaker, queue)
        /\ running' = running /\ lost' = lost /\ UNCHANGED newsVars
        /\ "yahoo" \in Fenced /\ Legs("yahoo") \in 0..2
    BY <1>18 DEF BeginYahoo, Fenced, Legs
  <2>2. EngineGoesOn(queue) /\ breaker' \in [Fenced -> Breaker!Breakers]
    BY <1>8, <2>1, AskFromGoesOn
  <2> QED
    BY <1>1, <1>2, <1>4, <1>6, <1>7, <2>1, <2>2, EngineSteps
<1>19. CASE FencedAnswers
  <2> DEFINE b == [breaker EXCEPT ![engine.venue] = Breaker!RecordSuccess(@)]
  <2>1. engine.venue \in Fenced /\ "engine" \in running
        /\ running' = running \ {"engine"} /\ lost' = lost /\ UNCHANGED newsVars
        /\ IF engine.legs > 1
           THEN AskFrom(engine.venue, engine.legs - 1, b, queue)
           ELSE breaker' = b /\ engine' = Ended("answered") /\ queue' = queue
    BY <1>19 DEF FencedAnswers
  <2>2. b \in [Fenced -> Breaker!Breakers]
    BY <1>8, BreakerType
  <2> HIDE DEF b
  <2>3. EngineGoesOn(queue) /\ breaker' \in [Fenced -> Breaker!Breakers]
    <3>1. CASE engine.legs > 1
      <4>1. engine.legs \in 0..2
        BY <1>1 DEF EngineSide, Engines
      <4>2. engine.legs - 1 \in 0..2
        BY <3>1, <4>1
      <4> QED
        BY <2>1, <2>2, <3>1, <4>2, AskFromGoesOn
    <3>2. CASE ~(engine.legs > 1)
      BY <2>1, <2>2, <3>2, EngineStates DEF EngineGoesOn, Idle, Ended
    <3> QED
      BY <3>1, <3>2
  <2> QED
    BY <1>1, <1>2, <1>4, <2>1, <2>3, EngineSteps
<1>20. CASE FencedFails
  <2>1. engine.venue \in Fenced /\ "engine" \in running
        /\ running' = running \ {"engine"} /\ lost' = lost /\ UNCHANGED newsVars
        /\ FailOver(queue)
    BY <1>20 DEF FencedFails
  <2>2. EngineGoesOn(queue) /\ breaker' \in [Fenced -> Breaker!Breakers]
    BY <1>8, <2>1, FailOverGoesOn
  <2> QED
    BY <1>1, <1>2, <1>4, <2>1, <2>2, EngineSteps
<1>21. CASE FencedTimeout
  <2>1. engine.venue \in Fenced /\ Abandon("engine", engine.venue)
        /\ FailOver(Cancelled("engine")) /\ UNCHANGED newsVars
    BY <1>21 DEF FencedTimeout
  <2>2. EngineGoesOn(Cancelled("engine")) /\ breaker' \in [Fenced -> Breaker!Breakers]
    BY <1>8, <2>1, FailOverGoesOn
  <2> QED
    BY <1>1, <1>3, <2>1, <2>2, EngineSteps
<1>22. CASE KickNews \/ ModelAnswers \/ ModelFails \/ ModelTimeout
  BY <1>1, <1>22, NewsActions
<1>23. CASE Tick
  <2>1. /\ breaker' = [v \in Fenced |-> Breaker!OlderBreaker(breaker[v])]
        /\ engine' = [engine EXCEPT !.left = IF engine.at \in Idle THEN 0 ELSE @ - 1]
        /\ news' = [news EXCEPT !.left = IF news = NoThread THEN 0 ELSE @ - 1]
        /\ news # NoThread => news.left > 0
        /\ kicked' = IF kicked < Interval THEN kicked + 1 ELSE kicked
        /\ bias' = [bias EXCEPT !.age = IF @ > TTL THEN @ ELSE @ + 1]
        /\ queue' = queue /\ running' = running /\ lost' = lost
    BY <1>23 DEF Tick
  <2>2. engine.at \notin Idle => engine.left > 0
    BY <1>23, TickLeavesTime
  <2>3. breaker' \in [Fenced -> Breaker!Breakers]
    BY <1>8, <2>1, BreakerType
  <2>4. engine' \in Engines /\ engine'.at = engine.at /\ engine'.venue = engine.venue
    <3>1. engine \in Engines /\ engine.left \in 0..Budget /\ Budget \in Nat
      BY <1>1, Bounds DEF EngineSide, Engines
    <3>2. (IF engine.at \in Idle THEN 0 ELSE engine.left - 1) \in 0..Budget
      BY <2>2, <3>1
    <3> QED
      BY <2>1, <3>1, <3>2 DEF Engines
  <2>5. news' \in Threads /\ news'.model = news.model
    <3>1. news \in Threads /\ news.left \in 0..Budget /\ Budget \in Nat
      BY <1>1, Bounds DEF NewsSide, Threads
    <3>2. (IF news = NoThread THEN 0 ELSE news.left - 1) \in 0..Budget
      BY <2>1, <3>1
    <3> QED
      BY <2>1, <3>1, <3>2 DEF Threads
  <2>6. news' = NoThread <=> news = NoThread
    <3>1. news = NoThread => news' = NoThread
      BY <2>1 DEF NoThread
    <3>2. news # NoThread => news' # NoThread
      BY <1>2, <2>5 DEF NewsTasks, NoThread
    <3> QED
      BY <3>1, <3>2
  <2>7. kicked' \in 0..Interval
    BY <1>8, <2>1, FeedAssumption
  <2>8. bias' \in [tilt : BOOLEAN, age : 0..(TTL + 1)]
    <3>1. bias.age \in 0..(TTL + 1) /\ TTL \in Nat
      BY <1>8, FeedAssumption
    <3>2. (IF bias.age > TTL THEN bias.age ELSE bias.age + 1) \in 0..(TTL + 1)
      BY <3>1
    <3> QED
      BY <1>8, <2>1, <3>2
  <2>9. EngineTasks(Tasks(queue'), engine', running')
    BY <1>2, <2>1, <2>4 DEF EngineTasks, EngineWaitsFor
  <2>10. NewsTasks(Tasks(queue'), news', running')
    BY <1>2, <2>1, <2>5, <2>6 DEF NewsTasks, NewsWaitsFor
  <2>11. Shared' /\ TaskInv'
    BY <1>1, <1>2, <2>1, <2>9, <2>10, NextTaskInvOverSet DEF Shared, Busy
  <2> QED
    BY <2>3, <2>4, <2>5, <2>7, <2>8, <2>11 DEF EngineSide, NewsSide
<1>24. CASE UNCHANGED vars
  BY <1>1, <1>24 DEF vars, EngineSide, NewsSide, Shared, Busy, TaskInv, NoThread
<1> QED
  BY <1>10, <1>11, <1>12, <1>13, <1>14, <1>15, <1>16, <1>17, <1>18, <1>19, <1>20,
     <1>21, <1>22, <1>23, <1>24 DEF Next

--------------------------------------------------------------------------------
(* The window again: every action keeps SlotInv.                              *)

(* An Alpaca request waits in the pool: it is the engine's, whose budget runs.*)
Asked(Q) == \E t \in Q : t.what = "alpaca"

(* Pending counts the waiting Alpaca request, there is one at most, in its budget. *)
LEMMA PendingIsAsked ==
  ASSUME PoolTypes, TaskInv
  PROVE  /\ Pending = IF Asked(Tasks(queue)) THEN 1 ELSE 0
         /\ \A t \in Tasks(queue) : t.what = "alpaca" =>
              t.by = "engine" /\ engine.at = "fetch" /\ engine.venue = "alpaca"
         /\ engine.left \in Nat /\ engine.left <= Budget
<1>1. queue \in Seq(Jobs) /\ engine.left \in Nat /\ engine.left <= Budget
  BY Bounds DEF PoolTypes, Engines
<1>2. /\ EngineTasks(Tasks(queue), engine, running)
      /\ NewsTasks(Tasks(queue), news, running)
  BY <1>1, TaskInvOverSet
<1>3. \A t \in Tasks(queue) : t.by \in {"engine", "news"}
  <2>1. \A i \in DOMAIN queue : queue[i] \in Jobs
    BY <1>1, LenProperties, ElementOfSeq
  <2> QED
    BY <2>1 DEF Tasks, Jobs, Callers
<1>4. "alpaca" \in Venues
  BY DEF Venues
<1>5. \A t \in Tasks(queue) : t.what = "alpaca" =>
        t.by = "engine" /\ engine.at = "fetch" /\ engine.venue = "alpaca"
  BY <1>2, <1>3, <1>4 DEF EngineTasks, NewsTasks, EngineWaitsFor, NewsWaitsFor
<1>6. Pending = IF Asked(Tasks(queue)) THEN 1 ELSE 0
  BY DEF Pending, Asked, Tasks
<1> QED
  BY <1>1, <1>5, <1>6

(* The same of the next state. *)
LEMMA NextPendingIsAsked ==
  ASSUME PoolTypes', TaskInv'
  PROVE  /\ Pending' = IF Asked(Tasks(queue')) THEN 1 ELSE 0
         /\ \A t \in Tasks(queue') : t.what = "alpaca" =>
              t.by = "engine" /\ engine'.at = "fetch" /\ engine'.venue = "alpaca"
         /\ engine'.left \in Nat /\ engine'.left <= Budget
<1>1. queue' \in Seq(Jobs) /\ engine'.left \in Nat /\ engine'.left <= Budget
  BY Bounds DEF PoolTypes, Engines
<1>2. /\ EngineTasks(Tasks(queue'), engine', running')
      /\ NewsTasks(Tasks(queue'), news', running')
  BY <1>1, NextTaskInvOverSet
<1>3. \A t \in Tasks(queue') : t.by \in {"engine", "news"}
  <2>1. \A i \in DOMAIN queue' : queue'[i] \in Jobs
    BY <1>1, LenProperties, ElementOfSeq
  <2> QED
    BY <2>1 DEF Tasks, Jobs, Callers
<1>4. "alpaca" \in Venues
  BY DEF Venues
<1>5. \A t \in Tasks(queue') : t.what = "alpaca" =>
        t.by = "engine" /\ engine'.at = "fetch" /\ engine'.venue = "alpaca"
  BY <1>2, <1>3, <1>4 DEF EngineTasks, NewsTasks, EngineWaitsFor, NewsWaitsFor
<1>6. Pending' = IF Asked(Tasks(queue')) THEN 1 ELSE 0
  BY DEF Pending, Asked, Tasks
<1> QED
  BY <1>1, <1>5, <1>6

Covered == Falling(hits) /\ Falling(sent) /\ Covers(hits, sent, Pending, engine.left)

(* SlotInv in the form the steps are proved in. *)
LEMMA SlotInvIsCovered ==
  /\ SlotInv <=> Covered
  /\ SlotInv' <=> Covered'
BY DEF SlotInv, Covered, Covers

(* When no request waits, the slots cover whatever budget is left. *)
LEMMA AnyTime ==
  ASSUME NEW h, NEW s, NEW l1, NEW l2, Covers(h, s, 0, l1)
  PROVE  Covers(h, s, 0, l2)
BY DEF Covers

(* The slots are as they were, or filled after a 429, and nothing was sent.   *)
LEMMA NothingSent ==
  ASSUME WindowTypes, Falling(hits), Falling(sent), NEW p \in {0, 1},
         NEW left \in Nat, left <= Budget, Covers(hits, sent, p, left),
         hits' \in {hits, Governor!Fill(hits)}, sent' = sent,
         Pending' = 0 \/ (Pending' = p /\ engine'.left = left)
  PROVE  WindowTypes' /\ Covered'
<1>1. /\ hits \in Seq(Ages) /\ Len(hits) <= Limit
      /\ sent \in Seq(0..(Window - Budget))
  BY DEF WindowTypes
<1>2. /\ hits' \in Seq(Ages) /\ Len(hits') <= Limit /\ Falling(hits')
      /\ Covers(hits', sent, p, left)
  BY <1>1, FillCovers
<1>3. Covers(hits', sent, 0, left)
  BY <1>1, <1>2, CancelCovers
<1>4. Covers(hits', sent', Pending', engine'.left)
  BY <1>2, <1>3, AnyTime
<1> QED
  BY <1>1, <1>2, <1>4 DEF WindowTypes, Covered

(* Every step keeps the types of the window and the slots of the requests sent. *)
LEMMA WindowStep ==
  ASSUME TypeOK, TaskInv, SlotInv, PoolTypes', TaskInv', [Next]_vars
  PROVE  WindowTypes' /\ SlotInv'
<1>1. /\ PoolTypes /\ WindowTypes
      /\ hits \in Seq(Ages) /\ Len(hits) <= Limit /\ sent \in Seq(0..(Window - Budget))
      /\ Falling(hits) /\ Falling(sent) /\ Covers(hits, sent, Pending, engine.left)
  BY TypesSplit, SlotInvIsCovered DEF WindowTypes, Covered
<1>2. /\ Pending = IF Asked(Tasks(queue)) THEN 1 ELSE 0
      /\ \A t \in Tasks(queue) : t.what = "alpaca" =>
           t.by = "engine" /\ engine.at = "fetch" /\ engine.venue = "alpaca"
      /\ engine.left \in Nat /\ engine.left <= Budget
  BY <1>1, PendingIsAsked
<1>3. /\ Pending' = IF Asked(Tasks(queue')) THEN 1 ELSE 0
      /\ \A t \in Tasks(queue') : t.what = "alpaca" =>
           t.by = "engine" /\ engine'.at = "fetch" /\ engine'.venue = "alpaca"
      /\ engine'.left \in Nat /\ engine'.left <= Budget
  BY NextPendingIsAsked
<1>4. /\ Pending \in {0, 1} /\ Pending' \in {0, 1}
      /\ (Pending = 1) => engine.at = "fetch" /\ engine.venue = "alpaca"
      /\ (Pending' = 1) => engine'.at = "fetch" /\ engine'.venue = "alpaca"
  BY <1>2, <1>3 DEF Asked
<1>5. \A how \in Idle : how # "fetch" /\ Ended(how).at # "fetch"
  BY DEF Idle, Ended
<1> SUFFICES WindowTypes' /\ Covered'
  BY SlotInvIsCovered
<1>6. ASSUME hits' \in {hits, Governor!Fill(hits)}, sent' = sent,
             Pending' = 0 \/ (Pending' = Pending /\ engine'.left = engine.left)
      PROVE  WindowTypes' /\ Covered'
  BY <1>1, <1>2, <1>4, <1>6, NothingSent
<1>7. CASE TakeTask
  <2>1. /\ queue # <<>> /\ queue' = Tail(queue) /\ hits' = hits /\ engine' = engine
        /\ sent' = IF Head(queue).what = "alpaca" THEN Append(sent, 0) ELSE sent
        /\ queue \in Seq(Jobs) /\ Single(queue)
    BY <1>1, <1>7, TaskInvOverSet DEF TakeTask, PoolTypes
  <2>2. /\ Head(queue) \in Tasks(queue)
        /\ Tasks(queue') = {t \in Tasks(queue) : t.by # Head(queue).by}
    BY <2>1, TailOfQueue
  <2>3. CASE Head(queue).what = "alpaca"
    <3>1. Pending = 1 /\ Pending' = 0
      BY <1>2, <1>3, <2>2, <2>3 DEF Asked
    <3>2. /\ Append(sent, 0) \in Seq(0..(Window - Budget)) /\ Falling(Append(sent, 0))
          /\ Covers(hits, Append(sent, 0), 0, engine.left)
      BY <1>1, <1>2, <3>1, TakeCovers
    <3> QED
      BY <1>1, <2>1, <2>3, <3>1, <3>2 DEF WindowTypes, Covered
  <2>4. CASE Head(queue).what # "alpaca"
    <3>1. Pending' = 0 \/ Pending' = Pending
      BY <1>2, <1>3, <2>2 DEF Asked
    <3> QED
      BY <1>6, <2>1, <2>4, <3>1
  <2> QED
    BY <2>3, <2>4
<1>8. CASE LateEnd
  <2>1. /\ hits' \in {hits, Governor!Fill(hits)} /\ sent' = sent
        /\ queue' = queue /\ engine' = engine
    BY <1>8 DEF LateEnd
  <2> QED
    BY <1>2, <1>3, <1>6, <2>1
<1>9. CASE BeginAlpaca
  <2>1. hits' = hits /\ sent' = sent /\ engine'.at = "acquire"
    BY <1>9 DEF BeginAlpaca, sources
  <2> QED
    BY <1>4, <1>6, <2>1
<1>10. CASE Acquire
  <2>1. /\ engine.at = "acquire" /\ Governor!HasSlot(hits)
        /\ hits' = Governor!Reserve(hits) /\ sent' = sent
        /\ engine' = [engine EXCEPT !.at = "fetch", !.left = Budget]
    BY <1>10 DEF Acquire
  <2>2. engine'.left = Budget /\ Budget \in Nat
    BY <1>1, <2>1, Bounds DEF PoolTypes, Engines
  <2>3. Covers(hits, sent, 0, engine.left)
    BY <1>1, <1>4, <2>1
  <2>4. /\ hits' \in Seq(Ages) /\ Len(hits') <= Limit /\ Falling(hits')
        /\ Covers(hits', sent, 1, Budget)
    BY <1>1, <1>2, <2>1, <2>3, ReserveCovers
  <2>5. Covers(hits', sent, 0, Budget)
    BY <1>1, <2>2, <2>4, CancelCovers
  <2> QED
    BY <1>1, <1>4, <2>1, <2>2, <2>4, <2>5 DEF WindowTypes, Covered
<1>11. CASE AcquireRaises
  <2>1. hits' = Governor!Prune(hits) /\ sent' = sent /\ engine' = Ended("error")
    BY <1>11 DEF AcquireRaises
  <2>2. Pending' = 0
    BY <1>4, <1>5, <2>1 DEF Idle
  <2>3. Covers(hits, sent, 0, engine.left)
    BY <1>1, <1>2, <1>4, CancelCovers
  <2>4. /\ hits' \in Seq(Ages) /\ Len(hits') <= Len(hits) /\ Falling(hits')
        /\ Covers(hits', sent, 0, engine.left)
    BY <1>1, <1>2, <2>1, <2>3, PruneCovers
  <2>5. Len(hits') <= Limit
    <3>1. Len(hits') \in Nat /\ Len(hits) \in Nat /\ Limit \in Nat
      BY <1>1, <2>4, LenProperties, Bounds
    <3> QED
      BY <1>1, <2>4, <3>1
  <2> QED
    BY <1>1, <2>1, <2>2, <2>4, <2>5, AnyTime DEF WindowTypes, Covered
<1>12. CASE AlpacaAnswers
  <2>1. /\ engine' = Ended("answered") \/ engine' = Ended("unavailable")
        /\ hits' \in {hits, Governor!Fill(hits)} /\ sent' = sent
    BY <1>12 DEF AlpacaAnswers
  <2>2. Pending' = 0
    BY <1>4, <1>5, <2>1 DEF Idle
  <2> QED
    BY <1>6, <2>1, <2>2
<1>13. CASE AlpacaTimeout
  <2>1. engine' = Ended("unavailable") /\ hits' = hits /\ sent' = sent
    BY <1>13 DEF AlpacaTimeout, sources
  <2>2. Pending' = 0
    BY <1>4, <1>5, <2>1 DEF Idle
  <2> QED
    BY <1>6, <2>1, <2>2
<1>14. CASE BeginCrypto \/ BeginYahoo
  <2>1. hits' = hits /\ sent' = sent
    BY <1>14 DEF BeginCrypto, BeginYahoo
  <2>2. breaker \in [Fenced -> Breaker!Breakers]
    BY <1>1 DEF PoolTypes
  <2>3. \E v \in Fenced, n \in 0..2 : AskFrom(v, n, breaker, queue)
    BY <1>14 DEF BeginCrypto, BeginYahoo, Fenced, Legs
  <2>4. engine'.venue # "alpaca"
    BY <2>2, <2>3, AskFromGoesOn
  <2> QED
    BY <1>4, <1>6, <2>1, <2>4
<1>15. CASE FencedAnswers
  <2> DEFINE b == [breaker EXCEPT ![engine.venue] = Breaker!RecordSuccess(@)]
  <2>1. /\ hits' = hits /\ sent' = sent
        /\ engine.venue \in Fenced
        /\ IF engine.legs > 1
           THEN AskFrom(engine.venue, engine.legs - 1, b, queue)
           ELSE engine' = Ended("answered")
    BY <1>15 DEF FencedAnswers
  <2>2. b \in [Fenced -> Breaker!Breakers]
    BY <1>1, BreakerType DEF PoolTypes
  <2> HIDE DEF b
  <2>3. CASE engine.legs > 1
    <3>1. engine.legs \in 0..2
      BY <1>1 DEF PoolTypes, Engines
    <3>2. engine.legs - 1 \in 0..2
      BY <2>3, <3>1
    <3>3. engine'.venue # "alpaca"
      BY <2>1, <2>2, <2>3, <3>2, AskFromGoesOn
    <3> QED
      BY <1>4, <1>6, <2>1, <3>3
  <2>4. CASE ~(engine.legs > 1)
    BY <1>4, <1>5, <1>6, <2>1, <2>4 DEF Idle
  <2> QED
    BY <2>3, <2>4
<1>16. CASE FencedFails \/ FencedTimeout
  <2>1. hits' = hits /\ sent' = sent /\ engine.venue \in Fenced
    BY <1>16 DEF FencedFails, FencedTimeout
  <2>2. \E q : FailOver(q)
    BY <1>16 DEF FencedFails, FencedTimeout
  <2>3. engine'.venue # "alpaca"
    BY <1>1, <2>1, <2>2, FailOverGoesOn DEF PoolTypes
  <2> QED
    BY <1>4, <1>6, <2>1, <2>3
<1>17. CASE KickNews \/ ModelAnswers \/ ModelFails \/ ModelTimeout
  <2>1. hits' = hits /\ sent' = sent /\ engine' = engine
    BY <1>17 DEF KickNews, ModelAnswers, ModelFails, ModelTimeout, sources
  <2>2. \A t \in Tasks(queue') : t.by = "engine" => t \in Tasks(queue)
    BY <1>1, <1>17, NewsActions
  <2>3. Pending' = 0 \/ Pending' = Pending
    BY <1>2, <1>3, <2>2 DEF Asked
  <2> QED
    BY <1>6, <2>1, <2>3
<1>18. CASE Tick
  <2>1. /\ hits' = Governor!Older(hits)
        /\ sent' = Governor!Recent([i \in DOMAIN sent |-> sent[i] + 1], Window - Budget)
        /\ engine' = [engine EXCEPT !.left = IF engine.at \in Idle THEN 0 ELSE @ - 1]
        /\ queue' = queue
    BY <1>18 DEF Tick
  <2>2. Pending' = Pending
    BY <1>2, <1>3, <2>1
  <2>3. Pending = 1 => engine.left > 0 /\ engine'.left = engine.left - 1
    <3>1. Pending = 1 => engine.at \notin Idle
      BY <1>4, <1>5
    <3>2. engine \in Engines
      BY <1>1 DEF PoolTypes
    <3> QED
      BY <1>18, <2>1, <3>1, <3>2, TickLeavesTime DEF Engines
  <2>4. /\ hits' \in Seq(Ages) /\ Len(hits') <= Limit /\ Falling(hits')
        /\ sent' \in Seq(0..(Window - Budget)) /\ Falling(sent')
        /\ Covers(hits', sent', Pending, engine.left - 1)
    BY <1>1, <1>2, <1>4, <2>1, <2>3, TimeCovers
  <2>5. Covers(hits', sent', Pending', engine'.left)
    BY <1>4, <2>2, <2>3, <2>4, AnyTime
  <2> QED
    BY <2>4, <2>5 DEF WindowTypes, Covered
<1>19. CASE UNCHANGED vars
  BY <1>1, <1>19 DEF vars, WindowTypes, Covered, Pending
<1> QED
  BY <1>7, <1>8, <1>9, <1>10, <1>11, <1>12, <1>13, <1>14, <1>15, <1>16, <1>17,
     <1>18, <1>19 DEF Next

--------------------------------------------------------------------------------
FeedInv == TypeOK /\ TaskInv /\ SlotInv

(* The invariant holds at the start. *)
LEMMA FeedStarts == Init => FeedInv
<1> SUFFICES ASSUME Init PROVE FeedInv
  OBVIOUS
<1>1. /\ queue = <<>> /\ running = {} /\ hits = <<>> /\ sent = <<>>
      /\ engine = Ended("answered") /\ news = NoThread
      /\ lost = [alpaca |-> 0, other |-> 0]
      /\ breaker = [v \in Fenced |-> Breaker!Fresh]
      /\ kicked = Interval /\ bias = NoRow /\ equity \in EquityProviders
  BY DEF Init
<1>2. Busy <= Workers
  <2>1. Cardinality({}) = 0
    BY FS_EmptySet
  <2> QED
    BY <1>1, <2>1, FeedAssumption DEF Busy
<1>3. engine \in Engines /\ news \in Threads /\ lost \in Counts
  BY <1>1, EngineStates, Bounds DEF Idle, NoThread, Threads, Counts
<1>4. bias \in [tilt : BOOLEAN, age : 0..(TTL + 1)] /\ kicked \in 0..Interval
  BY <1>1, FeedAssumption DEF NoRow
<1>5. breaker \in [Fenced -> Breaker!Breakers]
  BY <1>1, BreakerType
<1>6. TypeOK
  <2>1. PoolTypes
    BY <1>1, <1>2, <1>3, <1>4, <1>5 DEF PoolTypes
  <2>2. WindowTypes
    BY <1>1, Bounds DEF WindowTypes
  <2> QED
    BY <2>1, <2>2, TypesSplit
<1>7. TaskInv
  BY <1>1 DEF TaskInv, Ended, Idle, NoThread
<1>8. SlotInv
  BY <1>1 DEF SlotInv, Falling, Pending
<1> QED
  BY <1>6, <1>7, <1>8 DEF FeedInv

(* Every step keeps the invariant. *)
LEMMA FeedStays == FeedInv /\ [Next]_vars => FeedInv'
<1> SUFFICES ASSUME FeedInv, [Next]_vars PROVE FeedInv'
  OBVIOUS
<1>1. TypeOK /\ TaskInv /\ SlotInv
  BY DEF FeedInv
<1>2. PoolTypes' /\ TaskInv'
  BY <1>1, PoolStep
<1>3. WindowTypes' /\ SlotInv'
  BY <1>1, <1>2, WindowStep
<1>4. TypeOK'
  BY <1>2, <1>3 DEF TypeOK, PoolTypes, WindowTypes, Engines, Threads, Counts, Jobs,
                    Kinds, Ages
<1> QED
  BY <1>2, <1>3, <1>4 DEF FeedInv

(* The slots in use never exceed the limit, the pool never runs more tasks    *)
(* than it has workers, and the rest of the types.                            *)
THEOREM FeedTypeCorrect == Spec => []TypeOK
<1>1. FeedInv => TypeOK
  BY DEF FeedInv
<1> QED
  BY <1>1, FeedStarts, FeedStays, PTL DEF Spec

(* RateGovernor.acquire hands out slots, not requests: a request may wait in  *)
(* the pool after its slot was reserved.  For every limit, window, budget and *)
(* pool, Alpaca still receives at most limit requests in any window shorter   *)
(* by one budget, since each request it received has a slot of its own that   *)
(* still counts (SlotInv).                                                    *)
THEOREM VenueNeverOverrun == Spec => []VenueWindow
<1>1. FeedInv => VenueWindow
  <2> SUFFICES ASSUME FeedInv PROVE VenueWindow
    OBVIOUS
  <2>1. /\ hits \in Seq(Ages) /\ Len(hits) <= Limit
        /\ sent \in Seq(0..(Window - Budget))
        /\ Len(hits) - Len(sent) - Pending >= 0
    BY DEF FeedInv, TypeOK, SlotInv, Ages
  <2>2. Len(hits) \in Nat /\ Len(sent) \in Nat /\ Limit \in Nat /\ Pending \in {0, 1}
    BY <2>1, LenProperties, Bounds DEF Pending
  <2> QED
    BY <2>1, <2>2 DEF VenueWindow
<1> QED
  BY <1>1, FeedStarts, FeedStays, PTL DEF Spec
================================================================================
