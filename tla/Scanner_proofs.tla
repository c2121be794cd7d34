--------------------------- MODULE Scanner_proofs ---------------------------
(***************************************************************************)
(* Proofs about Scanner: whatever the settings, the universe and the feed, *)
(* an entry stays within the limits on positions and on money, the scores  *)
(* are scores, the chain that is not fetched held no candidate, the best   *)
(* come first and every symbol is accounted for.                           *)
(***************************************************************************)
EXTENDS Scanner, DataFacts, FiniteSetTheorems, SequenceTheorems, TLAPS

-----------------------------------------------------------------------------
(* The limits that count positions. *)

(* A candidate the gates let pass was refused by none of them.               *)
LEMMA NoGateRefuses ==
  ASSUME NEW b, NEW e, check(b, e).allowed
  PROVE  /\ ~b.halted
         /\ ~(open_count_for(b, e.underlying)
                >= settings.max_positions_per_underlying)
         /\ ~(Cardinality(b.open) >= settings.max_open_positions)
         /\ e.underlying \notin b.cooling
         /\ ~(b.today >= settings.max_new_positions_per_day)
<1> DEFINE gates == Gates(b, e)
<1>1. DOMAIN gates = 1..13
  BY DEF Gates
<1>2. \A i \in 1..13 : ~gates[i][2]
  <2>1. Refusing(gates) = {}
    BY DEF check, RiskDecision
  <2> QED
    BY <1>1, <2>1 DEF Refusing
<1>3. gates[2] = <<"HALTED", b.halted>>
  BY DEF Gates
<1>4. gates[4] = <<"PER_UNDERLYING_CAP",
                   open_count_for(b, e.underlying)
                     >= settings.max_positions_per_underlying>>
  BY DEF Gates
<1>5. gates[5] = <<"MAX_OPEN",
                   Cardinality(b.open) >= settings.max_open_positions>>
  BY DEF Gates
<1>6. gates[6] = <<"COOLDOWN", e.underlying \in b.cooling>>
  BY DEF Gates
<1>7. gates[7] = <<"DAILY_TRADE_CAP",
                   b.today >= settings.max_new_positions_per_day>>
  BY DEF Gates
<1> HIDE DEF gates
<1>8. ~gates[2][2] /\ ~gates[4][2] /\ ~gates[5][2] /\ ~gates[6][2] /\ ~gates[7][2]
  BY <1>2
<1>9. \A name, refuses, gate :
        gate = <<name, refuses>> /\ ~gate[2] => ~refuses
  OBVIOUS
<1>10. ~b.halted
  BY <1>3, <1>8, <1>9
<1>11. ~(open_count_for(b, e.underlying)
           >= settings.max_positions_per_underlying)
  BY <1>4, <1>8, <1>9
<1>12. ~(Cardinality(b.open) >= settings.max_open_positions)
  BY <1>5, <1>8, <1>9
<1>13. e.underlying \notin b.cooling
  BY <1>6, <1>8, <1>9
<1>14. ~(b.today >= settings.max_new_positions_per_day)
  BY <1>7, <1>8, <1>9
<1> QED
  BY <1>10, <1>11, <1>12, <1>13, <1>14

(* A set that takes one more element grows by one at the most.               *)
LEMMA OneMore ==
  ASSUME NEW S, IsFiniteSet(S), NEW x, NEW T, T \subseteq S \cup {x}
  PROVE  /\ IsFiniteSet(T)
         /\ Cardinality(S) \in Nat
         /\ Cardinality(T) \in Nat
         /\ Cardinality(T) <= Cardinality(S) + 1
<1>1. IsFiniteSet(S \cup {x}) /\ Cardinality(S) \in Nat
  BY FS_AddElement, FS_CardinalityType
<1>2. /\ IsFiniteSet(T) /\ Cardinality(T) \in Nat
      /\ Cardinality(T) <= Cardinality(S \cup {x})
  BY <1>1, FS_Subset, FS_CardinalityType
<1>3. Cardinality(S \cup {x}) \in Nat
      /\ Cardinality(S \cup {x}) <= Cardinality(S) + 1
  <2>1. Cardinality(S \cup {x}) \in {Cardinality(S), Cardinality(S) + 1}
    <3>1. CASE x \in S
      <4>1. S \cup {x} = S
        BY <3>1
      <4> QED
        BY <4>1, Zenon
    <3>2. CASE x \notin S
      BY <3>2, FS_AddElement
    <3> QED
      BY <3>1, <3>2
  <2> QED
    BY <1>1, <2>1
<1> QED
  BY <1>1, <1>2, <1>3

(* The shape of the book, and that no key of an open position is forgotten.  *)
PositionRow(p) ==
  p = [key |-> p.key, market |-> p.market, underlying |-> p.underlying,
       cost |-> p.cost, value |-> p.value, at_stop |-> p.at_stop]
BookRow ==
  book = [open |-> book.open, keys |-> book.keys, cooling |-> book.cooling,
          today |-> book.today, realized |-> book.realized,
          cash |-> book.cash, halted |-> book.halted]
BookInv ==
  /\ BookRow
  /\ book.today \in Int
  /\ IsFiniteSet(book.open)
  /\ \A p \in book.open : PositionRow(p) /\ p.key \in book.keys

(* What an opening does to the book, with the money left open.               *)
LEMMA OpenedRow ==
  ASSUME BookRow, Open
  PROVE  \E new, cash :
           /\ PositionRow(new) /\ new.underlying = Entry(Candidate).underlying
           /\ book' = [open |-> book.open \cup {new},
                       keys |-> book.keys \cup {new.key},
                       cooling |-> book.cooling, today |-> book.today + 1,
                       realized |-> book.realized, cash |-> cash,
                       halted |-> book.halted]
<1> DEFINE e == Entry(Candidate)
           gross == Quantity + slippage(e.market, Quantity)
           new == [key |-> e.key, market |-> e.market,
                   underlying |-> Candidate.symbol, cost |-> gross,
                   value |-> gross, at_stop |-> LossAtStop(Candidate, Quantity)]
           cash == book.cash - gross - _fees_for(e, gross)
<1>1. e.underlying = Candidate.symbol
  BY DEF Entry
<1>2. book' = [book EXCEPT !.open = @ \cup {new}, !.keys = @ \cup {e.key},
                           !.today = @ + 1, !.cash = @ - gross - _fees_for(e, gross)]
  BY DEF Open
<1> HIDE DEF e, gross
<1>3. book' = [open |-> book.open \cup {new}, keys |-> book.keys \cup {new.key},
               cooling |-> book.cooling, today |-> book.today + 1,
               realized |-> book.realized, cash |-> cash, halted |-> book.halted]
  BY <1>2 DEF BookRow
<1>4. PositionRow(new) /\ new.underlying = e.underlying
  BY <1>1 DEF PositionRow
<1> HIDE DEF new, cash
<1> QED
  BY <1>3, <1>4 DEF e

(* The steps that open nothing: the open positions are those there were, one *)
(* perhaps gone or with another value, and no key is forgotten.              *)
Keeps ==
  /\ book'.keys = book.keys
  /\ \A p \in book'.open : p.key \in book.keys

(* No step but Open adds a key or a position. *)
LEMMA OtherSteps ==
  ASSUME BookInv, [Next]_vars, ~Open
  PROVE  BookInv' /\ Keeps
<1> USE DEF BookInv, BookRow, Keeps
<1>1. CASE UNCHANGED book
  BY <1>1 DEF PositionRow
<1>2. ASSUME NEW p \in book.open, Close(p)
      PROVE  BookInv' /\ Keeps
  <2>1. book' = [open |-> book.open \ {p}, keys |-> book.keys,
                 cooling |-> book.cooling \cup {p.underlying},
                 today |-> book.today,
                 realized |-> book.realized + p.value - p.cost,
                 cash |-> book.cash + p.value, halted |-> book.halted]
    BY <1>2 DEF Close
  <2>2. IsFiniteSet(book.open \ {p})
    BY FS_Subset
  <2> QED
    BY <2>1, <2>2
<1>3. ASSUME NEW p \in book.open, NEW m \in Marks, Mark(p, m)
      PROVE  BookInv' /\ Keeps
  <2> DEFINE marked == [p EXCEPT !.value = (p.cost * m) \div 100]
  <2>1. PositionRow(marked) /\ marked.key = p.key
    BY DEF PositionRow
  <2>2. book' = [book EXCEPT !.open = (book.open \ {p}) \cup {marked}]
    BY <1>3 DEF Mark
  <2> HIDE DEF marked
  <2>3. book' = [open |-> (book.open \ {p}) \cup {marked}, keys |-> book.keys,
                 cooling |-> book.cooling, today |-> book.today,
                 realized |-> book.realized, cash |-> book.cash,
                 halted |-> book.halted]
    BY <2>2
  <2>4. IsFiniteSet((book.open \ {p}) \cup {marked})
    BY OneMore
  <2> QED
    BY <2>1, <2>3, <2>4
<1>4. ASSUME NEW u \in book.cooling, CooldownEnds(u)
      PROVE  BookInv' /\ Keeps
  BY <1>4 DEF CooldownEnds
<1>5. CASE Halt
  BY <1>5 DEF Halt
<1>6. CASE Midnight
  <2>1. book' = [open |-> book.open, keys |-> book.keys,
                 cooling |-> book.cooling, today |-> 0, realized |-> 0,
                 cash |-> book.cash, halted |-> book.halted]
    BY <1>6 DEF Midnight
  <2> QED
    BY <2>1 DEF PositionRow
<1>7. CASE \/ \E market \in Markets : Begin(market)
           \/ BuildContext \/ Assess \/ Rank \/ Refuse \/ DryRun
           \/ Record \/ Return \/ Stop \/ UNCHANGED vars
  <2>1. UNCHANGED book
    BY <1>7 DEF Begin, BuildContext, Assess, Rank, Refuse, DryRun, Record,
                Return, Stop, vars
  <2> QED
    BY <1>1, <2>1
<1> QED
  BY <1>2, <1>3, <1>4, <1>5, <1>6, <1>7 DEF Next

(* An opening finds the book as the gates saw it, and adds the one position. *)
LEMMA OpenStep ==
  ASSUME BookInv, Open
  PROVE  /\ BookInv'
         /\ \A p \in book'.open :
              (p.key \notin book.keys) =>
                 /\ ~book.halted
                 /\ p.underlying \notin book.cooling
                 /\ Cardinality(book'.open) <= settings.max_open_positions
                 /\ open_count_for(book', p.underlying)
                       <= settings.max_positions_per_underlying
                 /\ book'.today <= settings.max_new_positions_per_day
<1> DEFINE e == Entry(Candidate)
<1>1. PICK new, cash :
           /\ PositionRow(new) /\ new.underlying = e.underlying
           /\ book' = [open |-> book.open \cup {new},
                       keys |-> book.keys \cup {new.key},
                       cooling |-> book.cooling, today |-> book.today + 1,
                       realized |-> book.realized, cash |-> cash,
                       halted |-> book.halted]
  BY OpenedRow DEF BookInv
<1>2. check(book, e).allowed
  BY DEF Open, Allowed, Decision
<1> HIDE DEF e
<1>3. /\ book'.open = book.open \cup {new} /\ book'.keys = book.keys \cup {new.key}
      /\ book'.today = book.today + 1
  BY <1>1
<1>4. /\ settings.max_open_positions \in Int
      /\ settings.max_positions_per_underlying \in Int
      /\ settings.max_new_positions_per_day \in Int
  BY LimitsAssumption
<1>5. BookInv'
  <2>1. IsFiniteSet(book.open \cup {new})
    BY OneMore DEF BookInv
  <2>2. BookRow' /\ book'.today \in Int
    BY <1>1 DEF BookRow, BookInv
  <2>3. \A p \in book'.open : PositionRow(p) /\ p.key \in book'.keys
    BY <1>1, <1>3 DEF BookInv
  <2> QED
    BY <1>3, <2>1, <2>2, <2>3 DEF BookInv, PositionRow
<1>6. Cardinality(book'.open) <= settings.max_open_positions
  <2>1. /\ Cardinality(book.open) \in Nat /\ Cardinality(book'.open) \in Nat
        /\ Cardinality(book'.open) <= Cardinality(book.open) + 1
    BY <1>3, OneMore DEF BookInv
  <2>2. ~(Cardinality(book.open) >= settings.max_open_positions)
    BY <1>2, NoGateRefuses
  <2> QED
    BY <1>4, <2>1, <2>2
<1>7. open_count_for(book', e.underlying) <= settings.max_positions_per_underlying
  <2> DEFINE old == {p \in book.open : p.underlying = e.underlying}
             now == {p \in book'.open : p.underlying = e.underlying}
  <2>1. IsFiniteSet(old) /\ now \subseteq old \cup {new}
    BY <1>3, FS_Subset DEF BookInv
  <2>2. /\ Cardinality(old) \in Nat /\ Cardinality(now) \in Nat
        /\ Cardinality(now) <= Cardinality(old) + 1
    BY <2>1, OneMore
  <2>3. ~(Cardinality(old) >= settings.max_positions_per_underlying)
    BY <1>2, NoGateRefuses DEF open_count_for
  <2>4. Cardinality(now) <= settings.max_positions_per_underlying
    BY <1>4, <2>2, <2>3
  <2> QED
    BY <2>4 DEF open_count_for
<1>8. book'.today <= settings.max_new_positions_per_day
  <2>1. ~(book.today >= settings.max_new_positions_per_day)
    BY <1>2, NoGateRefuses
  <2> QED
    BY <1>3, <1>4, <2>1 DEF BookInv
<1>9. ~book.halted /\ e.underlying \notin book.cooling
  BY <1>2, NoGateRefuses
<1>10. \A p \in book'.open : p.key \notin book.keys => p = new
  BY <1>3 DEF BookInv
<1> QED
  BY <1>1, <1>5, <1>6, <1>7, <1>8, <1>9, <1>10

(* However many candidates, scans, closes and midnights lie before it, an    *)
(* opening passes no limit that counts positions.                            *)
THEOREM CountsAreKept == Spec => EntryWithinCounts
<1> DEFINE Within == \A p \in book'.open :
              (p.key \notin book.keys) =>
                 /\ ~book.halted
                 /\ p.underlying \notin book.cooling
                 /\ Cardinality(book'.open) <= settings.max_open_positions
                 /\ open_count_for(book', p.underlying)
                       <= settings.max_positions_per_underlying
                 /\ book'.today <= settings.max_new_positions_per_day
<1>1. Init => BookInv
  BY FS_EmptySet DEF Init, BookInv, BookRow
<1>2. BookInv /\ [Next]_vars => BookInv' /\ Within
  <2> SUFFICES ASSUME BookInv, [Next]_vars PROVE BookInv' /\ Within
    OBVIOUS
  <2>1. CASE Open
    BY <2>1, OpenStep
  <2>2. CASE ~Open
    BY <2>2, OtherSteps DEF Keeps
  <2> QED
    BY <2>1, <2>2
<1>3. BookInv /\ [Next]_vars => BookInv' /\ [Within]_vars
  BY <1>2
<1> QED
  BY <1>1, <1>3, PTL DEF Spec, EntryWithinCounts

-----------------------------------------------------------------------------
(* The scores. *)

Score == 0..100
Whole(S) == S \subseteq Int

(* A score is a number of points from 0 to 100, whatever is graded.          *)
LEMMA ClampIsScore ==
  \A x \in Int : clamp(x, 0, 100) \in Score
BY DEF clamp, Score

(* A grade is a score, whichever end is the better. *)
LEMMA GradeIsScore ==
  ASSUME NEW v \in Int, NEW best \in Int, NEW worst \in Int
  PROVE  grade(v, best, worst) \in Score
<1>1. CASE best = worst
  BY <1>1 DEF grade, Score
<1>2. CASE best > worst
  <2>1. (100 * (v - worst)) \div (best - worst) \in Int
    BY <1>2
  <2>2. grade(v, best, worst) = clamp((100 * (v - worst)) \div (best - worst), 0, 100)
    BY <1>2 DEF grade
  <2> QED
    BY <2>1, <2>2, ClampIsScore
<1>3. CASE best < worst
  <2>1. (100 * (worst - v)) \div (worst - best) \in Int
    BY <1>3
  <2>2. grade(v, best, worst) = clamp((100 * (worst - v)) \div (worst - best), 0, 100)
    BY <1>3 DEF grade
  <2> QED
    BY <2>1, <2>2, ClampIsScore
<1> QED
  BY <1>1, <1>2, <1>3

(* What the scores read of a tape.                                           *)
Readable(bars) == Enough(bars, 1) => Whole(Readings(bars))

(* The lesser of two numbers. *)
LEMMA LesserOfTwo ==
  ASSUME NEW x \in Int, NEW y \in Int
  PROVE  Min({x, y}) \in {x, y} /\ Min({x, y}) <= x /\ Min({x, y}) <= y
<1>1. \E m \in {x, y} : \A n \in {x, y} : m =< n
  <2>1. CASE x <= y
    BY <2>1
  <2>2. CASE y <= x
    BY <2>2
  <2> QED
    BY <2>1, <2>2
<1> QED
  BY <1>1 DEF Min

(* A mean of scores with whole percentages as weights is a score. *)
LEMMA WeightedScore ==
  ASSUME NEW a \in Score, NEW b \in Score, NEW c \in Score, NEW d \in Score,
         NEW i \in Nat, NEW j \in Nat, NEW k \in Nat, NEW l \in Nat,
         i + j + k + l = 100
  PROVE  (i * a + j * b + k * c + l * d) \div 100 \in Score
<1>1. \A n \in Nat, x \in Score : n * x \in Int /\ 0 <= n * x /\ n * x <= 100 * n
  BY DEF Score
<1>2. /\ i * a \in Int /\ 0 <= i * a /\ i * a <= 100 * i
      /\ j * b \in Int /\ 0 <= j * b /\ j * b <= 100 * j
      /\ k * c \in Int /\ 0 <= k * c /\ k * c <= 100 * k
      /\ l * d \in Int /\ 0 <= l * d /\ l * d <= 100 * l
  BY <1>1
<1> DEFINE s == i * a + j * b + k * c + l * d
<1>3. s \in Int /\ 0 <= s /\ s <= 10000
  BY <1>2
<1> HIDE DEF s
<1>4. s \div 100 \in 0..100
  BY <1>3
<1> QED
  BY <1>4 DEF s, Score

(* The technical pillar of a readable tape is a score. *)
LEMMA TechnicalIsScore ==
  ASSUME NEW bars, Enough(bars, 1), Readable(bars), NEW bullish \in BOOLEAN
  PROVE  score_technical(bars, bullish) \in Score
<1> DEFINE closes == Field(bars, "close")
           g1 == grade(Seen(trend_score(closes), 0, bullish), 60, -40)
           g2 == GradeOf(Optional(Enough(closes, periods.rsi + 1), rsi(closes, periods.rsi)),
                         LAMBDA r : RsiGrade(Seen(r, 100, bullish)))
           g3 == GradeOf(range_position(bars, periods.volume),
                         LAMBDA rp : grade(Seen(rp, 100, bullish), 80, 15))
           g4 == GradeOf(Optional(Enough(bars, periods.atr + 1), atr_pct(bars, periods.atr)),
                         AtrGrade)
<1>1. /\ trend_score(closes) \in Int
      /\ Whole(Optional(Enough(closes, periods.rsi + 1), rsi(closes, periods.rsi)))
      /\ Whole(range_position(bars, periods.volume))
      /\ Whole(Optional(Enough(bars, periods.atr + 1), atr_pct(bars, periods.atr)))
  BY DEF Readable, Readings, Whole
<1>2. \A x \in Int, top \in Int : Seen(x, top, bullish) \in Int
  BY DEF Seen
<1>3. g1 \in Score
  <2>1. Seen(trend_score(closes), 0, bullish) \in Int /\ 60 \in Int /\ -40 \in Int
    BY <1>1, <1>2
  <2> QED
    BY <2>1, GradeIsScore
<1>4. g2 \in Score
  <2> DEFINE S == Optional(Enough(closes, periods.rsi + 1), rsi(closes, periods.rsi))
  <2>1. \A r \in S : RsiGrade(Seen(r, 100, bullish)) \in Score
    <3> TAKE r \in S
    <3>1. Seen(r, 100, bullish) \in Int
      BY <1>1, <1>2 DEF Whole
    <3>2. \A x \in Int : 100 - (22 * Abs(x - 60)) \div 10 \in Int
      BY DEF Abs
    <3> QED
      BY <3>1, <3>2, ClampIsScore DEF RsiGrade
  <2> HIDE DEF S
  <2>2. CASE S = {}
    BY <2>2 DEF GradeOf, Score, S
  <2>3. CASE S # {}
    <3>1. {RsiGrade(Seen(r, 100, bullish)) : r \in S} # {}
      BY <2>3
    <3>2. GradeOf(S, LAMBDA r : RsiGrade(Seen(r, 100, bullish))) \in Score
      BY <2>1, <2>3, <3>1 DEF GradeOf
    <3> QED
      BY <3>2 DEF S
  <2> QED
    BY <2>2, <2>3
<1>5. g3 \in Score
  <2> DEFINE S == range_position(bars, periods.volume)
  <2>1. \A r \in S : grade(Seen(r, 100, bullish), 80, 15) \in Score
    <3> TAKE r \in S
    <3>1. Seen(r, 100, bullish) \in Int /\ 80 \in Int /\ 15 \in Int
      BY <1>1, <1>2 DEF Whole
    <3> QED
      BY <3>1, GradeIsScore
  <2> HIDE DEF S
  <2>2. CASE S = {}
    BY <2>2 DEF GradeOf, Score, S
  <2>3. CASE S # {}
    <3>1. {grade(Seen(r, 100, bullish), 80, 15) : r \in S} # {}
      BY <2>3
    <3>2. GradeOf(S, LAMBDA r : grade(Seen(r, 100, bullish), 80, 15)) \in Score
      BY <2>1, <2>3, <3>1 DEF GradeOf
    <3> QED
      BY <3>2 DEF S
  <2> QED
    BY <2>2, <2>3
<1>6. g4 \in Score
  <2> DEFINE S == Optional(Enough(bars, periods.atr + 1), atr_pct(bars, periods.atr))
  <2>1. \A r \in S : AtrGrade(r) \in Score
    <3> TAKE r \in S
    <3>1. \A x \in Int : 100 - (22 * Abs(x - 220)) \div 100 \in Int
      BY DEF Abs
    <3> QED
      BY <1>1, <3>1, ClampIsScore DEF AtrGrade, Whole
  <2> HIDE DEF S
  <2>2. CASE S = {}
    BY <2>2 DEF GradeOf, Score, S
  <2>3. CASE S # {}
    <3>1. {AtrGrade(r) : r \in S} # {}
      BY <2>3
    <3>2. GradeOf(S, AtrGrade) \in Score
      BY <2>1, <2>3, <3>1 DEF GradeOf
    <3> QED
      BY <3>2 DEF S
  <2> QED
    BY <2>2, <2>3
<1>7. score_technical(bars, bullish) = (40 * g1 + 25 * g2 + 20 * g3 + 15 * g4) \div 100
  BY DEF score_technical
<1> HIDE DEF g1, g2, g3, g4
<1> QED
  BY <1>3, <1>4, <1>5, <1>6, <1>7, WeightedScore

(* The sentiment pillar is a score, with any bias of the news. *)
LEMMA SentimentIsScore ==
  ASSUME NEW change \in Int, NEW benchmark, Whole(benchmark),
         NEW momentum, Whole(momentum), NEW volume, Whole(volume),
         NEW bullish \in BOOLEAN, NEW news_bias \in Int
  PROVE  score_sentiment(change, benchmark, momentum, volume, bullish, news_bias) \in Score
<1> DEFINE sign == IF bullish THEN 1 ELSE -1
           g1 == GradeOf(benchmark, LAMBDA x : grade(sign * (change - x), 150, -150))
           g2 == GradeOf(momentum, LAMBDA x : grade(sign * x, 800, -600))
           g3 == GradeOf(volume, LAMBDA x : grade(Min({x, 300}), 180, 40))
           base == SentimentBase(sign, change, benchmark, momentum, volume)
<1>1. sign \in Int
  OBVIOUS
<1> HIDE DEF sign
<1>2. g1 \in Score
  <2>1. \A x \in benchmark : grade(sign * (change - x), 150, -150) \in Score
    <3> TAKE x \in benchmark
    <3>1. x \in Int
      BY DEF Whole
    <3>2. sign * (change - x) \in Int /\ 150 \in Int /\ -150 \in Int
      BY <1>1, <3>1
    <3> QED
      BY <3>2, GradeIsScore
  <2>2. CASE benchmark = {}
    BY <2>2 DEF GradeOf, Score
  <2>3. CASE benchmark # {}
    <3>1. {grade(sign * (change - x), 150, -150) : x \in benchmark} # {}
      BY <2>3
    <3> QED
      BY <2>1, <2>3, <3>1 DEF GradeOf
  <2> QED
    BY <2>2, <2>3
<1>3. g2 \in Score
  <2>1. \A x \in momentum : grade(sign * x, 800, -600) \in Score
    <3> TAKE x \in momentum
    <3>1. x \in Int
      BY DEF Whole
    <3>2. sign * x \in Int /\ 800 \in Int /\ -600 \in Int
      BY <1>1, <3>1
    <3> QED
      BY <3>2, GradeIsScore
  <2>2. CASE momentum = {}
    BY <2>2 DEF GradeOf, Score
  <2>3. CASE momentum # {}
    <3>1. {grade(sign * x, 800, -600) : x \in momentum} # {}
      BY <2>3
    <3> QED
      BY <2>1, <2>3, <3>1 DEF GradeOf
  <2> QED
    BY <2>2, <2>3
<1>4. g3 \in Score
  <2>1. \A x \in volume : grade(Min({x, 300}), 180, 40) \in Score
    <3> TAKE x \in volume
    <3>1. x \in Int
      BY DEF Whole
    <3>2. 300 \in Int /\ 180 \in Int /\ 40 \in Int
      OBVIOUS
    <3>3. Min({x, 300}) \in {x, 300}
      BY <3>1, <3>2, LesserOfTwo
    <3>4. Min({x, 300}) \in Int
      BY <3>1, <3>2, <3>3
    <3> QED
      BY <3>2, <3>4, GradeIsScore
  <2>2. CASE volume = {}
    BY <2>2 DEF GradeOf, Score
  <2>3. CASE volume # {}
    <3>1. {grade(Min({x, 300}), 180, 40) : x \in volume} # {}
      BY ZenonT(40), <2>3
    <3> QED
      BY ZenonT(40), <2>1, <2>3, <3>1 DEF GradeOf
  <2> QED
    BY <2>2, <2>3
<1>5. base = (40 * g1 + 35 * g2 + 25 * g3) \div 100
  BY DEF SentimentBase
<1> HIDE DEF g1, g2, g3, base
<1>6. base \in Int
  BY <1>2, <1>3, <1>4, <1>5 DEF Score
<1> DEFINE bias == clamp(news_bias, -100, 100)
           share == (IF bias > 0 THEN 100 - base ELSE base) * settings.news_bias_weight * bias
<1>7. bias \in Int
  BY DEF clamp
<1>8. share \in Int
  <2>1. settings.news_bias_weight \in Int
    BY ScoringAssumption
  <2> HIDE DEF bias
  <2> QED
    BY <1>6, <1>7, <2>1
<1>9. score_sentiment(change, benchmark, momentum, volume, bullish, news_bias)
        = clamp(base + share \div 10000, 0, 100)
  BY DEF score_sentiment, Tilted, base, sign
<1> HIDE DEF share
<1>10. base + share \div 10000 \in Int
  BY <1>6, <1>8
<1> QED
  BY <1>9, <1>10, ClampIsScore

(* The liquidity of an option is a score. *)
LEMMA OptionLiquidityIsScore ==
  ASSUME NEW q, {q.spread, q.volume, q.open_interest} \subseteq Int
  PROVE  score_option_liquidity(q) \in Score
<1> DEFINE g1 == grade(q.spread, 100, settings.max_spread_pct)
           g2 == grade(q.volume, 2000, 0)
           g3 == grade(depth(q), 5000, settings.min_open_interest)
<1>1. /\ q.spread \in Int /\ q.volume \in Int /\ depth(q) \in Int
      /\ settings.max_spread_pct \in Int /\ settings.min_open_interest \in Int
      /\ 100 \in Int /\ 2000 \in Int /\ 0 \in Int /\ 5000 \in Int
  BY ScoringAssumption DEF depth
<1>2. g1 \in Score /\ g2 \in Score /\ g3 \in Score
  BY <1>1, GradeIsScore
<1>3. score_option_liquidity(q) = (60 * g1 + 25 * g2 + 15 * g3) \div 100
  BY DEF score_option_liquidity
<1> HIDE DEF g1, g2, g3
<1>4. (60 * g1 + 25 * g2 + 15 * g3 + 0 * g3) \div 100 \in Score
  BY <1>2, WeightedScore
<1>5. 60 * g1 + 25 * g2 + 15 * g3 + 0 * g3 = 60 * g1 + 25 * g2 + 15 * g3
  BY <1>2 DEF Score
<1> QED
  BY <1>3, <1>4, <1>5

(* The liquidity of a spot market is a score. *)
LEMMA SpotLiquidityIsScore ==
  ASSUME NEW bars, Enough(bars, 1), Readable(bars), NEW spread \in Int
  PROVE  score_spot_liquidity(bars, spread) \in Score
<1> DEFINE width == IF spread > 0 THEN spread ELSE ProxySpread(Last(bars))
           ratio == RatioOrOne(volume_ratio(bars, periods.volume))
           g1 == grade(width, 20, 1000)
           g2 == VolumeGrade(ratio)
           g3 == TurnoverOf(bars)
<1>1. /\ ProxySpread(Last(bars)) \in Int
      /\ Whole(volume_ratio(bars, periods.volume))
      /\ Whole(Optional(Len(Traded(bars)) >= periods.turnover, TurnoverRatio(Traded(bars))))
  <2>1. Readings(bars) \subseteq Int
    BY DEF Readable, Whole
  <2>2. /\ ProxySpread(Last(bars)) \in Readings(bars)
        /\ volume_ratio(bars, periods.volume) \subseteq Readings(bars)
    BY DEF Readings
  <2>3. Optional(Len(Traded(bars)) >= periods.turnover, TurnoverRatio(Traded(bars)))
          \subseteq Readings(bars)
    BY DEF Readings
  <2> QED
    BY <2>1, <2>2, <2>3 DEF Whole
<1>2. width \in Int /\ 20 \in Int /\ 1000 \in Int
  BY <1>1
<1>3. g1 \in Score
  <2> HIDE DEF width
  <2> QED
    BY <1>2, GradeIsScore
<1>4. ratio \in Int
  BY <1>1 DEF RatioOrOne, Whole
<1>5. g2 \in Score
  <2> HIDE DEF ratio
  <2>1. 160 \in Int /\ 30 \in Int /\ 60 \in Score
    BY DEF Score
  <2> QED
    BY <1>4, <2>1, GradeIsScore DEF VolumeGrade
<1>6. g3 \in Score
  <2> DEFINE vols == Traded(bars)
  <2>1. CASE Len(vols) >= periods.turnover
    <3>1. TurnoverRatio(vols) \in Int
      BY <1>1, <2>1 DEF Optional, Whole
    <3>2. 300 \in Int /\ 150 \in Int /\ 40 \in Int
      OBVIOUS
    <3>3. Min({TurnoverRatio(vols), 300}) \in {TurnoverRatio(vols), 300}
      BY <3>1, <3>2, LesserOfTwo
    <3>4. Min({TurnoverRatio(vols), 300}) \in Int
      BY <3>1, <3>2, <3>3
    <3>5. grade(Min({TurnoverRatio(vols), 300}), 150, 40) \in Score
      BY <3>2, <3>4, GradeIsScore
    <3>6. TurnoverGrade(vols) = grade(Min({TurnoverRatio(vols), 300}), 150, 40)
      BY <2>1 DEF TurnoverGrade
    <3> QED
      BY <3>5, <3>6 DEF TurnoverOf
  <2>2. CASE ~(Len(vols) >= periods.turnover)
    <3>1. TurnoverGrade(vols) = 50
      BY <2>2 DEF TurnoverGrade
    <3> QED
      BY <3>1 DEF TurnoverOf, Score
  <2> QED
    BY <2>1, <2>2
<1>7. score_spot_liquidity(bars, spread) = (50 * g1 + 30 * g2 + 20 * g3) \div 100
  BY DEF score_spot_liquidity
<1> HIDE DEF g1, g2, g3
<1>8. (50 * g1 + 30 * g2 + 20 * g3 + 0 * g3) \div 100 \in Score
  BY <1>3, <1>5, <1>6, WeightedScore
<1>9. 50 * g1 + 30 * g2 + 20 * g3 + 0 * g3 = 50 * g1 + 30 * g2 + 20 * g3
  BY <1>3, <1>5, <1>6 DEF Score
<1> QED
  BY <1>7, <1>8, <1>9

(* A total is a whole number; with weights that are not negative it is a     *)
(* score in hundredths of a point, and better liquidity never lowers it.     *)
Fair(x, w) == x \in Int /\ (NonNegative(w) => x \in Hundredths)
StoredWeights == [liquidity : Int, technical : Int, sentiment : Int]

(* With weights that are not negative a total is in the range, and full marks for
   the liquidity pillar bound it (adapters.py:82-91). *)
LEMMA TotalOf ==
  ASSUME NEW w \in StoredWeights, NEW a \in Score, NEW b \in Score, NEW c \in Score
  PROVE  /\ Fair(total(compose(a, b, c, load_weights(w))), w)
         /\ NonNegative(w) => total(compose(a, b, c, load_weights(w)))
                                <= total(compose(100, b, c, load_weights(w)))
<1> DEFINE u == load_weights(w)
           x == u.liquidity
           y == u.technical
           z == u.sentiment
<1>1. /\ x \in Int /\ y \in Int /\ z \in Int /\ x + y + z = 100
      /\ NonNegative(w) => x >= 0 /\ y >= 0 /\ z >= 0
  BY DEF load_weights, DEFAULT_WEIGHTS, SumsTo100, StoredWeights, NonNegative
<1>2. /\ total(compose(a, b, c, u)) = a * x + b * y + c * z
      /\ total(compose(100, b, c, u)) = 100 * x + b * y + c * z
  BY DEF total, compose
<1> HIDE DEF u, x, y, z
<1>3. a \in Int /\ b \in Int /\ c \in Int
  BY DEF Score
<1>4. \A s \in Score, n \in Int : /\ s * n \in Int
                                  /\ n >= 0 => 0 <= s * n /\ s * n <= 100 * n
  BY DEF Score
<1>5. a * x \in Int /\ b * y \in Int /\ c * z \in Int
  BY <1>1, <1>4
<1>6. a * x + b * y + c * z \in Int
  BY <1>5
<1>7. ASSUME NonNegative(w)
      PROVE  /\ a * x + b * y + c * z \in Hundredths
             /\ a * x + b * y + c * z <= 100 * x + b * y + c * z
  <2>1. /\ 0 <= a * x /\ a * x <= 100 * x
        /\ 0 <= b * y /\ b * y <= 100 * y
        /\ 0 <= c * z /\ c * z <= 100 * z
    BY <1>1, <1>4, <1>7
  <2>2. \A p, q, r, i, j, k \in Int :
          /\ 0 <= p /\ p <= 100 * i /\ 0 <= q /\ q <= 100 * j
          /\ 0 <= r /\ r <= 100 * k /\ i + j + k = 100
          => p + q + r \in Hundredths /\ p + q + r <= 100 * i + q + r
    BY DEF Hundredths
  <2> DEFINE p == a * x
             q == b * y
             r == c * z
  <2>3. p \in Int /\ q \in Int /\ r \in Int
    BY <1>5
  <2>4. /\ 0 <= p /\ p <= 100 * x /\ 0 <= q /\ q <= 100 * y
        /\ 0 <= r /\ r <= 100 * z
    BY <2>1
  <2> HIDE DEF p, q, r
  <2>5. p + q + r \in Hundredths /\ p + q + r <= 100 * x + q + r
    BY <1>1, <2>2, <2>3, <2>4
  <2> QED
    BY <2>5 DEF p, q, r
<1>8. total(compose(a, b, c, u)) \in Int
  BY <1>2, <1>6
<1>9. /\ Fair(total(compose(a, b, c, u)), w)
      /\ NonNegative(w) => total(compose(a, b, c, u)) <= total(compose(100, b, c, u))
  <2> SUFFICES ASSUME NonNegative(w)
               PROVE  /\ total(compose(a, b, c, u)) \in Hundredths
                      /\ total(compose(a, b, c, u)) <= total(compose(100, b, c, u))
    BY <1>8 DEF Fair
  <2>1. /\ a * x + b * y + c * z \in Hundredths
        /\ a * x + b * y + c * z <= 100 * x + b * y + c * z
    BY <1>7
  <2> DEFINE t == total(compose(a, b, c, u))
             best == total(compose(100, b, c, u))
             m == a * x + b * y + c * z
             n == 100 * x + b * y + c * z
  <2>2. t = m /\ best = n
    BY <1>2
  <2>3. m \in Hundredths /\ m <= n
    BY <2>1
  <2> HIDE DEF t, best, m, n
  <2>4. t \in Hundredths /\ t <= best
    BY <2>2, <2>3
  <2> QED
    BY <2>4 DEF t, best
<1> QED
  BY <1>9 DEF u

(* The views and the contexts a scan works with.                             *)
TypedContext(ctx) == ctx.news_bias \in Int /\ Whole(ctx.benchmark)
TypedQuote(q) == q.price \in Int /\ q.change \in Int /\ q.spread \in Int
TypedContract(q) == /\ q.mid \in Int /\ q.spread \in Int
                    /\ q.volume \in Int /\ q.open_interest \in Int

(* The contexts of a scan hold numbers where the scores read them. *)
LEMMA ContextsAreTyped ==
  \A ctx \in Contexts \cup {NoContext} : TypedContext(ctx)
BY FeedAssumption DEF TypedContext, NoContext, Whole

(* The views of a symbol hold numbers where the scores read them. *)
LEMMA ViewsAreTyped ==
  ASSUME NEW v \in Views
  PROVE  /\ v.quote # {} => The(v.quote) \in v.quote /\ TypedQuote(The(v.quote))
         /\ \A q \in UNION v.chain : TypedContract(q)
         /\ Readable(v.bars)
<1>1. \A q \in v.quote : {q.price, q.change, q.spread} \subseteq Int
  BY FeedAssumption
<1>2. \A q \in UNION v.chain : {q.mid, q.spread, q.volume, q.open_interest} \subseteq Int
  BY FeedAssumption
<1>3. Enough(v.bars, 1) => Readings(v.bars) \subseteq Int
  BY FeedAssumption
<1>4. v.quote # {} => The(v.quote) \in v.quote
  BY DEF The
<1> QED
  BY <1>1, <1>2, <1>3, <1>4 DEF TypedQuote, TypedContract, Readable, Whole

(* Every pillar is a score, on any desk.                                     *)
LEMMA SentimentOfView ==
  ASSUME NEW v \in Views, v.quote # {}, Enough(v.bars, 1),
         NEW ctx, TypedContext(ctx), NEW benchmark, Whole(benchmark),
         NEW lookback \in {periods.momentum, periods.cryptoMomentum},
         NEW ratio, Whole(ratio), NEW bullish \in BOOLEAN
  PROVE  Sentiment(v, ctx, benchmark, lookback, ratio, bullish) \in Score
<1> DEFINE momentum == Optional(Enough(v.bars, lookback + 1),
                                momentum_pct(Closes(v), lookback))
<1>1. Whole(momentum)
  <2>1. Readings(v.bars) \subseteq Int
    BY ViewsAreTyped DEF Readable, Whole
  <2>2. momentum \in {Optional(Enough(v.bars, n + 1), momentum_pct(Closes(v), n)) :
                      n \in {periods.momentum, periods.cryptoMomentum}}
    OBVIOUS
  <2>3. momentum \subseteq Readings(v.bars)
    BY <2>2 DEF Readings, Closes
  <2> QED
    BY <2>1, <2>3 DEF Whole
<1>2. The(v.quote).change \in Int /\ ctx.news_bias \in Int
  BY ViewsAreTyped DEF TypedQuote, TypedContext
<1>3. Sentiment(v, ctx, benchmark, lookback, ratio, bullish)
        = score_sentiment(The(v.quote).change, benchmark, momentum, ratio, bullish,
                          ctx.news_bias)
  BY DEF Sentiment
<1> HIDE DEF momentum
<1> QED
  BY <1>1, <1>2, <1>3, SentimentIsScore

(* The pillars an option is judged by before its chain is fetched are scores. *)
LEMMA PillarsAreScores ==
  ASSUME NEW v \in Views, v.quote # {}, Enough(v.bars, 1),
         NEW ctx, TypedContext(ctx)
  PROVE  /\ OptionPillars(v, ctx).technical \in Score
         /\ OptionPillars(v, ctx).sentiment \in Score
<1> DEFINE bullish == trend_score(Closes(v)) >= 0
           ratio == volume_ratio(v.bars, periods.volume)
<1>1. Readable(v.bars)
  BY ViewsAreTyped
<1>2. Whole(ratio)
  <2>1. Readings(v.bars) \subseteq Int
    BY <1>1 DEF Readable, Whole
  <2>2. ratio \subseteq Readings(v.bars)
    BY DEF Readings
  <2> QED
    BY <2>1, <2>2 DEF Whole
<1>3. OptionPillars(v, ctx).technical = score_technical(v.bars, bullish)
  BY DEF OptionPillars, PillarsOf
<1>4. OptionPillars(v, ctx).sentiment
        = Sentiment(v, ctx, ctx.benchmark, periods.momentum, ratio, bullish)
  BY DEF OptionPillars, PillarsOf
<1>5. bullish \in BOOLEAN
  OBVIOUS
<1>6. Whole(ctx.benchmark) /\ periods.momentum \in {periods.momentum, periods.cryptoMomentum}
  BY DEF TypedContext
<1> HIDE DEF bullish, ratio
<1>7. score_technical(v.bars, bullish) \in Score
  BY <1>1, <1>5, TechnicalIsScore
<1>8. Sentiment(v, ctx, ctx.benchmark, periods.momentum, ratio, bullish) \in Score
  BY <1>2, <1>5, <1>6, SentimentOfView
<1> QED
  BY <1>3, <1>4, <1>7, <1>8

(* An assessment, and what its card's total may be.                          *)
AssessmentRow(a) ==
  a = [symbol |-> a.symbol, total |-> a.total, verdict |-> a.verdict,
       blocked_by |-> a.blocked_by, price |-> a.price,
       direction |-> a.direction, scalp |-> a.scalp]
Verdicts == {"EXECUTE", "PASS", "BLOCKED", "ERROR"}
Directions == {"LONG_CALL", "LONG_PUT", "LONG_SHARE", "LONG_SPOT", "none"}
IsAssessment(a, symbol, w) ==
  /\ AssessmentRow(a)
  /\ a.symbol = symbol
  /\ Fair(a.total, w)
  /\ a.price \in Int /\ a.scalp \in Int
  /\ a.verdict \in Verdicts /\ a.direction \in Directions
  /\ a.verdict = "BLOCKED" <=> a.blocked_by # ""
  /\ a.blocked_by \in {"", "MARKET_REGIME"}

(* What a desk writes of a symbol is an assessment of it. *)
LEMMA AssessedIsAssessment ==
  ASSUME NEW symbol, NEW w, NEW score, Fair(score, w), NEW price \in Int,
         NEW direction \in Directions,
         NEW verdict \in {"EXECUTE", "PASS", "ERROR"}
  PROVE  IsAssessment(Assessed(symbol, score, verdict, price, direction), symbol, w)
BY DEF IsAssessment, AssessmentRow, Assessed, Verdicts

(* A changed verdict leaves the other fields of an assessment. *)
LEMMA Reworded ==
  ASSUME NEW a, AssessmentRow(a), NEW verdict, NEW gate,
         NEW g, g = [a EXCEPT !.verdict = verdict, !.blocked_by = gate]
  PROVE  g = [symbol |-> a.symbol, total |-> a.total, verdict |-> verdict,
              blocked_by |-> gate, price |-> a.price,
              direction |-> a.direction, scalp |-> a.scalp]
BY DEF AssessmentRow

(* The regime gate leaves an assessment. *)
LEMMA GateKeepsAssessment ==
  ASSUME NEW a, NEW symbol, NEW w, IsAssessment(a, symbol, w), NEW ctx
  PROVE  IsAssessment(_apply_regime_gate(a, ctx), symbol, w)
<1>1. CASE _apply_regime_gate(a, ctx) = a
  BY <1>1
<1>2. CASE _apply_regime_gate(a, ctx)
             = [a EXCEPT !.verdict = "BLOCKED", !.blocked_by = "MARKET_REGIME"]
  <2> DEFINE g == [a EXCEPT !.verdict = "BLOCKED", !.blocked_by = "MARKET_REGIME"]
  <2>1. g = [a EXCEPT !.verdict = "BLOCKED", !.blocked_by = "MARKET_REGIME"]
    OBVIOUS
  <2> HIDE DEF g
  <2>2. IsAssessment(g, symbol, w)
    <3>1. g = [symbol |-> a.symbol, total |-> a.total, verdict |-> "BLOCKED",
               blocked_by |-> "MARKET_REGIME", price |-> a.price,
               direction |-> a.direction, scalp |-> a.scalp]
      BY <2>1, Reworded DEF IsAssessment
    <3> QED
      BY <3>1 DEF IsAssessment, AssessmentRow, Verdicts
  <2> QED
    BY <1>2, <2>2 DEF g
<1> QED
  BY <1>1, <1>2 DEF _apply_regime_gate

(* A card is executed, passed over or in error. *)
LEMMA VerdictIsVerdict ==
  \A card, threshold : Verdict(card, threshold) \in {"EXECUTE", "PASS", "ERROR"}
BY DEF Verdict

-----------------------------------------------------------------------------
(* The desks. *)

(* Whatever the view, the context and the weights, a desk assesses the       *)
(* symbol it was asked for: a score, a verdict, a price.                     *)
LEMMA OptionsAreAssessments ==
  ASSUME NEW v \in Views, v.quote # {}, Enough(v.bars, 1), NEW ctx, TypedContext(ctx),
         NEW w \in StoredWeights, NEW symbol
  PROVE  \A a \in AssessOption(symbol, v, ctx, load_weights(w)) : IsAssessment(a, symbol, w)
<1> DEFINE p == OptionPillars(v, ctx)
           u == load_weights(w)
           pass == OptionOn(symbol, OptionCard(0, p, u), "PASS", 0, p)
           picked == _pick_contract(The(v.chain), The(v.quote).price, p.bullish)
           of(q) == Priced(symbol, OptionCard(score_option_liquidity(q), p, u), q, p)
<1>1. p.technical \in Score /\ p.sentiment \in Score
  BY PillarsAreScores
<1>2. AssessOption(symbol, v, ctx, u)
        \subseteq {pass} \cup (IF v.chain = {} THEN {}
                               ELSE {_apply_regime_gate(of(q), ctx) : q \in picked})
  BY DEF AssessOption, OptionOutcomes
<1> HIDE DEF p, u
<1>3. \A l \in Score : Fair(total(OptionCard(l, p, u)), w)
  BY <1>1, TotalOf DEF OptionCard, u
<1>4. IsAssessment(pass, symbol, w)
  <2> DEFINE d == IF p.bullish THEN "LONG_CALL" ELSE "LONG_PUT"
  <2>1. pass = Assessed(symbol, total(OptionCard(0, p, u)), "PASS", 0, d)
    BY DEF OptionOn
  <2>2. 0 \in Score /\ 0 \in Int /\ d \in Directions
    BY DEF Score, Directions
  <2>3. Fair(total(OptionCard(0, p, u)), w)
    BY <1>3, <2>2
  <2> HIDE DEF d, pass
  <2> QED
    BY <2>1, <2>2, <2>3, AssessedIsAssessment
<1>5. ASSUME v.chain # {}, NEW q \in picked
      PROVE  IsAssessment(_apply_regime_gate(of(q), ctx), symbol, w)
  <2> DEFINE l == score_option_liquidity(q)
             d == IF p.bullish THEN "LONG_CALL" ELSE "LONG_PUT"
             verdict == Verdict(OptionCard(l, p, u), settings.execute_threshold)
  <2>1. q \in The(v.chain)
    BY DEF _pick_contract
  <2>2. The(v.chain) \in v.chain
    BY <1>5 DEF The
  <2>3. TypedContract(q)
    BY <2>1, <2>2, ViewsAreTyped
  <2>4. l \in Score
    <3>1. {q.spread, q.volume, q.open_interest} \subseteq Int
      BY <2>3 DEF TypedContract
    <3> QED
      BY <3>1, OptionLiquidityIsScore
  <2>5. Fair(total(OptionCard(l, p, u)), w)
    BY <1>3, <2>4
  <2>6. verdict \in {"EXECUTE", "PASS", "ERROR"}
    BY VerdictIsVerdict
  <2>7. of(q) = Assessed(symbol, total(OptionCard(l, p, u)), verdict, q.mid, d)
    BY DEF Priced, OptionOn
  <2>8. q.mid \in Int /\ d \in Directions
    BY <2>3 DEF TypedContract, Directions
  <2> HIDE DEF l, d, verdict, of
  <2>9. IsAssessment(of(q), symbol, w)
    BY <2>5, <2>6, <2>7, <2>8, AssessedIsAssessment
  <2> QED
    BY <2>9, GateKeepsAssessment
<1> HIDE DEF pass, picked, of
<1>6. \A a \in AssessOption(symbol, v, ctx, u) :
        a = pass \/ \E q \in picked : v.chain # {} /\ a = _apply_regime_gate(of(q), ctx)
  BY <1>2
<1>7. \A a \in AssessOption(symbol, v, ctx, u) : IsAssessment(a, symbol, w)
  BY <1>4, <1>5, <1>6
<1> QED
  BY <1>7 DEF u

(* The share desk gives an assessment. *)
LEMMA ShareIsAssessment ==
  ASSUME NEW v \in Views, v.quote # {}, Enough(v.bars, 1), NEW ctx, TypedContext(ctx),
         NEW w \in StoredWeights, NEW symbol
  PROVE  IsAssessment(AssessShare(symbol, v, ctx, load_weights(w)), symbol, w)
<1> DEFINE bullish == trend_score(Closes(v)) >= 0
           u == load_weights(w)
           quote == The(v.quote)
           card == ShareCard(v, ctx, u, bullish)
           share == ShareOf(symbol, card, quote, bullish)
           l == score_spot_liquidity(v.bars, quote.spread)
           t == score_technical(v.bars, bullish)
           s == Sentiment(v, ctx, ctx.benchmark, periods.momentum, {}, bullish)
<1>1. quote.price \in Int /\ quote.spread \in Int /\ Readable(v.bars)
  BY ViewsAreTyped DEF TypedQuote
<1>2. /\ bullish \in BOOLEAN /\ Whole(ctx.benchmark) /\ Whole({})
      /\ periods.momentum \in {periods.momentum, periods.cryptoMomentum}
  BY DEF TypedContext, Whole
<1>3. card = compose(l, t, s, u)
  BY DEF ShareCard
<1>4. AssessShare(symbol, v, ctx, u) = _apply_regime_gate(share, ctx)
  BY DEF AssessShare
<1> HIDE DEF bullish
<1>5. l \in Score /\ t \in Score /\ s \in Score
  <2>1. l \in Score
    <3> HIDE DEF quote
    <3> QED
      BY <1>1, SpotLiquidityIsScore
  <2>2. t \in Score
    BY <1>1, <1>2, TechnicalIsScore
  <2>3. s \in Score
    BY <1>2, SentimentOfView
  <2> QED
    BY <2>1, <2>2, <2>3
<1>6. Fair(total(card), w)
  <2> HIDE DEF l, t, s, card
  <2>1. Fair(total(compose(l, t, s, load_weights(w))), w)
    BY <1>5, TotalOf
  <2> QED
    BY <1>3, <2>1
<1> HIDE DEF l, t, s, card, quote
<1>7. IsAssessment(share, symbol, w)
  <2>1. CASE bullish
    <3> DEFINE verdict == Verdict(card, settings.execute_threshold)
    <3>1. share = Assessed(symbol, total(card), verdict, quote.price, "LONG_SHARE")
      BY <2>1 DEF ShareOf
    <3>2. verdict \in {"EXECUTE", "PASS", "ERROR"} /\ "LONG_SHARE" \in Directions
      BY VerdictIsVerdict DEF Directions
    <3> HIDE DEF share, verdict
    <3> QED
      BY <1>1, <1>6, <3>1, <3>2, AssessedIsAssessment
  <2>2. CASE ~bullish
    <3>1. share = Assessed(symbol, total(card), "PASS", 0, "none")
      BY <2>2 DEF ShareOf
    <3>2. 0 \in Int /\ "none" \in Directions
      BY DEF Directions
    <3> HIDE DEF share
    <3> QED
      BY <1>6, <3>1, <3>2, AssessedIsAssessment
  <2> QED
    BY <2>1, <2>2
<1> HIDE DEF share
<1>8. IsAssessment(AssessShare(symbol, v, ctx, u), symbol, w)
  BY <1>4, <1>7, GateKeepsAssessment
<1> QED
  BY <1>8 DEF u

(* The crypto desk gives an assessment. *)
LEMMA CryptoIsAssessment ==
  ASSUME NEW v \in Views, v.quote # {}, Enough(v.bars, 1), NEW ctx, TypedContext(ctx),
         NEW w \in StoredWeights, NEW symbol
  PROVE  IsAssessment(AssessCrypto(symbol, v, ctx, load_weights(w)), symbol, w)
<1> DEFINE u == load_weights(w)
           quote == The(v.quote)
           benchmark == IF symbol = "BTC-USD" THEN {} ELSE ctx.benchmark
           card == CryptoCard(symbol, v, ctx, u)
           verdict == Verdict(card, settings.execute_threshold_crypto)
           l == score_spot_liquidity(v.bars, 0)
           t == score_technical(v.bars, TRUE)
           s == Sentiment(v, ctx, benchmark, periods.cryptoMomentum, {}, TRUE)
           scalp == ScalpOf(symbol, verdict, v)
           plain == Assessed(symbol, total(card), verdict, quote.price, "LONG_SPOT")
<1>1. quote.price \in Int /\ Readable(v.bars)
  BY ViewsAreTyped DEF TypedQuote
<1>2. /\ Whole(benchmark) /\ Whole({}) /\ TRUE \in BOOLEAN /\ 0 \in Int
      /\ periods.cryptoMomentum \in {periods.momentum, periods.cryptoMomentum}
  BY DEF TypedContext, Whole
<1>3. card = compose(l, t, s, u)
  BY DEF CryptoCard
<1>4. AssessCrypto(symbol, v, ctx, u) = [plain EXCEPT !.scalp = scalp]
  BY DEF AssessCrypto, SpotOf
<1> HIDE DEF benchmark
<1>5. l \in Score /\ t \in Score /\ s \in Score
  <2>1. l \in Score
    BY <1>1, <1>2, SpotLiquidityIsScore
  <2>2. t \in Score
    BY <1>1, <1>2, TechnicalIsScore
  <2>3. s \in Score
    BY <1>2, SentimentOfView
  <2> QED
    BY <2>1, <2>2, <2>3
<1>6. Fair(total(card), w)
  <2> HIDE DEF l, t, s, card
  <2>1. Fair(total(compose(l, t, s, load_weights(w))), w)
    BY <1>5, TotalOf
  <2> QED
    BY <1>3, <2>1
<1>7. scalp \in Int
  <2>1. CASE Enough(v.bars, periods.atr + 1)
    <3>1. Readings(v.bars) \subseteq Int
      BY <1>1 DEF Readable, Whole
    <3>2. atr(v.bars, periods.atr) \in Readings(v.bars)
      BY <2>1 DEF Readings, Optional
    <3>3. atr(v.bars, periods.atr) \in Int /\ settings.scalp_atr_mult \in Int
      BY <3>1, <3>2, ScoringAssumption
    <3>4. (atr(v.bars, periods.atr) * settings.scalp_atr_mult) \div 100 \in Int
      BY <3>3
    <3> QED
      BY <3>4 DEF ScalpOf, build_plan
  <2>2. CASE ~Enough(v.bars, periods.atr + 1)
    BY <2>2 DEF ScalpOf, build_plan
  <2> QED
    BY <2>1, <2>2
<1>8. verdict \in {"EXECUTE", "PASS", "ERROR"}
  BY VerdictIsVerdict
<1> HIDE DEF l, t, s, card, verdict, scalp, quote
<1>9. IsAssessment([plain EXCEPT !.scalp = scalp], symbol, w)
  <2>1. [plain EXCEPT !.scalp = scalp]
          = [symbol |-> symbol, total |-> total(card), verdict |-> verdict,
             blocked_by |-> "", price |-> quote.price, direction |-> "LONG_SPOT",
             scalp |-> scalp]
    <3>1. plain = [symbol |-> symbol, total |-> total(card), verdict |-> verdict,
                   blocked_by |-> "", price |-> quote.price,
                   direction |-> "LONG_SPOT", scalp |-> 0]
      BY DEF Assessed
    <3>2. SUFFICES ASSUME NEW g, g = [plain EXCEPT !.scalp = scalp]
                   PROVE  g = [symbol |-> symbol, total |-> total(card),
                               verdict |-> verdict, blocked_by |-> "",
                               price |-> quote.price, direction |-> "LONG_SPOT",
                               scalp |-> scalp]
      OBVIOUS
    <3> HIDE DEF plain
    <3> QED
      BY <3>1, <3>2
  <2> QED
    BY <1>1, <1>6, <1>7, <1>8, <2>1
          DEF IsAssessment, AssessmentRow, Verdicts, Directions
<1> HIDE DEF plain
<1>10. IsAssessment(AssessCrypto(symbol, v, ctx, u), symbol, w)
  BY <1>4, <1>9
<1> QED
  BY <1>10 DEF u

(* Every desk gives assessments of the symbol it was asked about. *)
LEMMA DesksAssess ==
  ASSUME NEW market \in Markets, NEW symbol, NEW v \in Views,
         NEW ctx, TypedContext(ctx), NEW w \in StoredWeights
  PROVE  \A a \in assess(market, symbol, v, ctx, load_weights(w)) :
            IsAssessment(a, symbol, w)
<1> DEFINE history == IF market = "CRYPTO_SPOT" THEN periods.cryptoHistory
                      ELSE periods.history
<1>1. IsAssessment(Unpriceable(symbol), symbol, w)
  <2>1. 0 \in Int /\ Fair(0, w) /\ "none" \in Directions
    BY DEF Fair, Directions, Hundredths
  <2> QED
    BY <2>1, AssessedIsAssessment DEF Unpriceable
<1>2. history \in Nat \ {0}
  BY ScoringAssumption
<1>3. CASE v.quote = {}
  <2>1. assess(market, symbol, v, ctx, load_weights(w)) = {}
    BY <1>3 DEF assess
  <2> QED
    BY <2>1
<1>4. CASE v.quote # {} /\ ~Enough(v.bars, history)
  <2>1. assess(market, symbol, v, ctx, load_weights(w)) = {Unpriceable(symbol)}
    BY <1>4 DEF assess
  <2> QED
    BY <1>1, <2>1
<1>5. CASE v.quote # {} /\ Enough(v.bars, history)
  <2>1. Enough(v.bars, 1)
    <3>1. Len(v.bars) \in Nat
      BY FeedAssumption, LenProperties
    <3> QED
      BY <1>2, <1>5, <3>1 DEF Enough
  <2>2. CASE market = "EQUITY_OPTION"
    <3>1. assess(market, symbol, v, ctx, load_weights(w))
            = AssessOption(symbol, v, ctx, load_weights(w))
      BY <1>5, <2>2 DEF assess
    <3> QED
      BY <1>5, <2>1, <3>1, OptionsAreAssessments
  <2>3. CASE market = "EQUITY_SHARE"
    <3>1. assess(market, symbol, v, ctx, load_weights(w))
            = {AssessShare(symbol, v, ctx, load_weights(w))}
      BY <1>5, <2>3 DEF assess
    <3> QED
      BY <1>5, <2>1, <3>1, ShareIsAssessment
  <2>4. CASE market = "CRYPTO_SPOT"
    <3>1. assess(market, symbol, v, ctx, load_weights(w))
            = {AssessCrypto(symbol, v, ctx, load_weights(w))}
      BY <1>5, <2>4 DEF assess
    <3> QED
      BY <1>5, <2>1, <3>1, CryptoIsAssessment
  <2> QED
    BY <2>2, <2>3, <2>4 DEF Markets
<1> QED
  BY <1>3, <1>4, <1>5

-----------------------------------------------------------------------------
(* Money: the budget, the size and the surcharge. *)

(* Money is counted in whole cents, and no position costs nothing.           *)
PricedPosition(p) ==
  /\ p.market \in Markets
  /\ p.cost \in Int /\ p.cost > 0
  /\ p.value \in Int
  /\ p.at_stop \in Int /\ p.at_stop >= 0
MoneyIsWhole(b) ==
  /\ IsFiniteSet(b.open) /\ \A p \in b.open : PricedPosition(p)
  /\ b.cash \in Int /\ b.realized \in Int
PricedEntry(e) == e.market \in Markets /\ e.price \in Int

(* The value of the open positions is a whole number. *)
LEMMA ValueIsWhole ==
  ASSUME NEW b, MoneyIsWhole(b), NEW ms
  PROVE  open_market_value(b, ms) \in Int
<1> DEFINE D == {q \in b.open : q.market \in ms}
           f == [p \in D |-> p.value]
<1>1. IsFiniteSet(D)
  BY FS_Subset DEF MoneyIsWhole
<1>2. \A p \in D : f[p] \in Int
  BY DEF MoneyIsWhole, PricedPosition
<1>3. open_market_value(b, ms) = SumFunctionOnSet(f, D)
  BY DEF open_market_value, SumFunction
<1> HIDE DEF D, f
<1> QED
  BY <1>1, <1>2, <1>3, SumOfOneMore

(* The equity and the crypto exposure are whole numbers. *)
LEMMA EquityIsWhole ==
  ASSUME NEW b, MoneyIsWhole(b)
  PROVE  account_equity(b) \in Int /\ crypto_open_notional(b) \in Int
<1>1. open_market_value(b, Markets) \in Int /\ open_market_value(b, {"CRYPTO_SPOT"}) \in Int
  BY ValueIsWhole
<1>2. b.cash \in Int
  BY DEF MoneyIsWhole
<1> QED
  BY <1>1, <1>2 DEF account_equity, crypto_open_notional

(* A position on top adds its value to the exposure.                         *)
LEMMA ValueOfOneMore ==
  ASSUME NEW b, MoneyIsWhole(b), NEW c, MoneyIsWhole(c),
         NEW new, new \notin b.open, c.open = b.open \cup {new},
         NEW ms, new.market \in ms
  PROVE  open_market_value(c, ms) = open_market_value(b, ms) + new.value
<1> DEFINE D == {q \in b.open : q.market \in ms}
           E == {q \in c.open : q.market \in ms}
           f == [p \in D |-> p.value]
           g == [p \in E |-> p.value]
<1>1. IsFiniteSet(D) /\ IsFiniteSet(E)
  BY FS_Subset DEF MoneyIsWhole
<1>2. \A p \in E : g[p] \in Int
  BY DEF MoneyIsWhole, PricedPosition
<1>3. new \in E /\ E \ {new} = D /\ \A p \in D : f[p] \in Int /\ g[p] = f[p]
  BY DEF MoneyIsWhole, PricedPosition
<1>4. /\ open_market_value(b, ms) = SumFunctionOnSet(f, D)
      /\ open_market_value(c, ms) = SumFunctionOnSet(g, E)
  BY DEF open_market_value, SumFunction
<1>5. g[new] = new.value
  BY <1>3
<1> HIDE DEF D, E, f, g
<1>6. /\ SumFunctionOnSet(g, E \ {new}) \in Int
      /\ SumFunctionOnSet(g, E) = g[new] + SumFunctionOnSet(g, E \ {new})
  BY <1>1, <1>2, <1>3, SumOfOneMore
<1>7. SumFunctionOnSet(g, D) = SumFunctionOnSet(f, D)
  BY <1>1, <1>3, SumOfEquals
<1>8. g[new] \in Int
  BY <1>2, <1>3
<1>9. E \ {new} = D
  BY <1>3
<1>10. /\ SumFunctionOnSet(g, D) \in Int
       /\ SumFunctionOnSet(g, E) = g[new] + SumFunctionOnSet(g, D)
  BY <1>6, <1>9
<1>11. SumFunctionOnSet(g, E) = SumFunctionOnSet(g, D) + g[new]
  BY <1>8, <1>10
<1> QED
  BY <1>4, <1>5, <1>7, <1>11

(* The least of three numbers. *)
LEMMA LeastOfThree ==
  ASSUME NEW x \in Int, NEW y \in Int, NEW z \in Int
  PROVE  /\ Min({x, y, z}) \in Int
         /\ Min({x, y, z}) <= x /\ Min({x, y, z}) <= y /\ Min({x, y, z}) <= z
<1>1. \E m \in {x, y, z} : \A n \in {x, y, z} : m =< n
  <2>1. \/ x <= y /\ x <= z
        \/ y <= x /\ y <= z
        \/ z <= x /\ z <= y
    OBVIOUS
  <2> QED
    BY <2>1
<1>2. /\ Min({x, y, z}) \in {x, y, z}
      /\ \A n \in {x, y, z} : Min({x, y, z}) =< n
  BY <1>1 DEF Min
<1> QED
  BY <1>2

(* The greater of two numbers. *)
LEMMA GreaterOfTwo ==
  ASSUME NEW x \in Int, NEW y \in Int
  PROVE  Max({x, y}) = IF x >= y THEN x ELSE y
<1>1. \E m \in {x, y} : \A n \in {x, y} : m >= n
  <2>1. x >= y \/ y >= x
    OBVIOUS
  <2> QED
    BY <2>1
<1>2. /\ Max({x, y}) \in {x, y}
      /\ \A n \in {x, y} : Max({x, y}) >= n
  BY <1>1 DEF Max
<1> QED
  BY <1>2

(* A unit costs something only at a positive price. *)
LEMMA UnitCostIsWhole ==
  ASSUME NEW e, PricedEntry(e)
  PROVE  unit_cost(e) \in Int /\ (unit_cost(e) > 0 => e.price > 0)
BY DEF unit_cost, multiplier, PricedEntry

(* The budget never passes the cash, nor a slot of the equity for shares,    *)
(* nor the headroom under the ceiling on crypto.                             *)
LEMMA BudgetFits ==
  ASSUME NEW b, MoneyIsWhole(b), NEW e, PricedEntry(e)
  PROVE  /\ budget(b, e) \in Int /\ budget(b, e) <= b.cash
         /\ e.market = "EQUITY_SHARE" =>
              budget(b, e) <= account_equity(b) \div settings.max_open_positions
         /\ e.market = "CRYPTO_SPOT" => budget(b, e) <= headroom(b)
<1> DEFINE equity == account_equity(b)
           slot == equity \div settings.max_open_positions
           dollar_risk == bp(equity, settings.risk_pct_per_trade)
           risk == IF e.market = "EQUITY_OPTION" THEN dollar_risk
                   ELSE (dollar_risk * 10000) \div settings.stop_pct[e.market]
           third == IF e.market = "EQUITY_SHARE" THEN slot
                    ELSE IF e.market = "CRYPTO_SPOT" THEN headroom(b) ELSE b.cash
           limits == {risk, b.cash}
                        \cup (IF e.market = "EQUITY_SHARE" THEN {slot} ELSE {})
                        \cup (IF e.market = "CRYPTO_SPOT" THEN {headroom(b)} ELSE {})
           raised == /\ e.market = "EQUITY_OPTION"
                     /\ equity > 0
                     /\ unit_cost(e) > Min(limits)
                     /\ unit_cost(e) <= b.cash
                     /\ unit_cost(e) <= max_single(b)
<1>1. equity \in Int /\ b.cash \in Int /\ unit_cost(e) \in Int /\ e.market \in Markets
  BY EquityIsWhole, UnitCostIsWhole DEF MoneyIsWhole, PricedEntry
<1>2. /\ settings.max_open_positions \in Int /\ settings.max_open_positions >= 1
      /\ settings.risk_pct_per_trade \in Int
      /\ settings.stop_pct[e.market] \in Int /\ settings.stop_pct[e.market] > 0
  BY SMTT(20), <1>1, LimitsAssumption, SettingsAssumption DEF validate
<1>3. slot \in Int
  <2> HIDE DEF equity
  <2> QED
    BY <1>1, <1>2
<1>4. risk \in Int
  <2> HIDE DEF equity
  <2>1. dollar_risk \in Int
    BY <1>1, <1>2 DEF bp
  <2> HIDE DEF dollar_risk
  <2>2. (dollar_risk * 10000) \div settings.stop_pct[e.market] \in Int
    BY <1>2, <2>1
  <2> QED
    BY <2>1, <2>2
<1>5. headroom(b) \in Int
  <2>1. settings.crypto_max_exposure - crypto_open_notional(b) \in Int /\ 0 \in Int
    BY EquityIsWhole, LimitsAssumption
  <2>2. headroom(b) \in {0, settings.crypto_max_exposure - crypto_open_notional(b)}
    BY <2>1, GreaterOfTwo DEF headroom
  <2> QED
    BY <2>1, <2>2
<1>6. budget(b, e) = IF raised THEN unit_cost(e) ELSE Min(limits)
  BY DEF budget
<1>7. limits = {risk, b.cash, third}
  OBVIOUS
<1>8. third \in Int
  BY <1>1, <1>3, <1>5
<1> HIDE DEF limits, equity, slot, risk, third
<1>9. /\ Min(limits) \in Int /\ Min(limits) <= b.cash /\ Min(limits) <= third
  BY <1>1, <1>4, <1>7, <1>8, LeastOfThree
<1> HIDE DEF raised
<1>10. budget(b, e) \in Int /\ budget(b, e) <= b.cash
  BY <1>1, <1>6, <1>9 DEF raised
<1>11. e.market # "EQUITY_OPTION" => budget(b, e) <= third
  BY <1>6, <1>9 DEF raised
<1> QED
  BY <1>10, <1>11 DEF third, slot, equity

(* The sizing never gives more units than the largest number asked for. *)
LEMMA SizeFits ==
  ASSUME NEW e, PricedEntry(e), NEW n \in Int
  PROVE  /\ size_position(e, n) \in Int
         /\ size_position(e, n) > 0 => size_position(e, n) <= n /\ e.price > 0
<1> DEFINE u == unit_cost(e)
<1>1. u \in Int /\ (u > 0 => e.price > 0)
  BY UnitCostIsWhole
<1>2. CASE u <= 0
  <2>1. size_position(e, n) = 0
    BY <1>2 DEF size_position
  <2> QED
    BY <2>1
<1>3. CASE u > 0
  <2> HIDE DEF u
  <2>1. (n \div u) * u \in Int /\ (n \div u) * u <= n
    BY <1>1, <1>3
  <2>2. size_position(e, n) \in {0, n, (n \div u) * u}
    BY <1>1, <1>3 DEF size_position, u
  <2> QED
    BY <1>1, <1>3, <2>1, <2>2
<1> QED
  BY <1>1, <1>2, <1>3

(* The surcharge grows with the notional, and a fee is never negative.       *)
LEMMA SlippageGrows ==
  ASSUME NEW m \in Markets, NEW x \in Int, NEW y \in Int, 0 <= x, x <= y
  PROVE  /\ slippage(m, x) \in Int /\ slippage(m, y) \in Int
         /\ 0 <= slippage(m, x) /\ slippage(m, x) <= slippage(m, y)
BY DEF slippage, bp, Markets

(* Fees are never negative. *)
LEMMA FeesAreFees ==
  ASSUME NEW e, PricedEntry(e), e.price > 0, NEW x \in Int, 0 <= x
  PROVE  _fees_for(e, x) \in Int /\ 0 <= _fees_for(e, x)
<1> DEFINE u == unit_cost(e)
<1>1. u \in Int /\ u > 0
  BY UnitCostIsWhole DEF unit_cost, multiplier, PricedEntry
<1> HIDE DEF u
<1>2. x \div u \in Int /\ 0 <= x \div u
  BY <1>1
<1> QED
  BY <1>2 DEF _fees_for, bp, u, PricedEntry, Markets

(* The loss at the stop is never negative. *)
LEMMA StopLosesMoney ==
  ASSUME NEW a, a.price \in Int, a.price > 0, a.scalp \in Int,
         scan.market \in Markets, NEW n \in Int, n > 0
  PROVE  LossAtStop(a, n) \in Int /\ LossAtStop(a, n) >= 0
<1>1. CASE a.scalp > 0
  <2> DEFINE k == n * a.scalp
  <2>1. k \in Int /\ k >= 0
    BY <1>1
  <2> HIDE DEF k
  <2>2. k \div a.price \in Int /\ k \div a.price >= 0
    BY <2>1
  <2> QED
    BY <1>1, <2>2 DEF LossAtStop, k
<1>2. CASE ~(a.scalp > 0)
  <2> DEFINE s == settings.stop_pct[scan.market]
  <2>1. s \in Int /\ s > 0
    BY LimitsAssumption, SettingsAssumption DEF validate
  <2>2. LossAtStop(a, n) = bp(n, s)
    BY <1>2 DEF LossAtStop
  <2> HIDE DEF s
  <2>3. n * s \in Int /\ n * s >= 0
    BY <2>1
  <2>4. bp(n, s) \in Int /\ bp(n, s) >= 0
    BY <2>3 DEF bp
  <2> QED
    BY <2>2, <2>4
<1> QED
  BY <1>1, <1>2

-----------------------------------------------------------------------------
(* The gates by name, and the best of the candidates. *)

GateNames ==
  {"", "MARKET_REGIME", "TRADING_DISABLED", "HALTED", "DUPLICATE",
   "PER_UNDERLYING_CAP", "MAX_OPEN", "COOLDOWN", "DAILY_TRADE_CAP",
   "DAILY_LOSS_LIMIT", "CRYPTO_EXPOSURE_CAP", "INSUFFICIENT_CASH",
   "MAX_SINGLE_TRADE", "SIZE_TOO_LARGE", "SIZE_ZERO"}

(* A refusal names a gate, and names the limit on positions only when the    *)
(* book is full.                                                             *)
LEMMA RefusalNamesGate ==
  ASSUME NEW b, NEW e, ~check(b, e).allowed
  PROVE  /\ check(b, e).gate \in GateNames /\ check(b, e).gate # ""
         /\ check(b, e).gate = "MAX_OPEN" =>
              Cardinality(b.open) >= settings.max_open_positions
<1> DEFINE gates == Gates(b, e)
           full == Cardinality(b.open) >= settings.max_open_positions
           first == Min(Refusing(gates))
<1>1. /\ DOMAIN gates = 1..13
      /\ gates[1][1] = "TRADING_DISABLED" /\ gates[2][1] = "HALTED"
      /\ gates[3][1] = "DUPLICATE" /\ gates[4][1] = "PER_UNDERLYING_CAP"
      /\ gates[5][1] = "MAX_OPEN" /\ gates[6][1] = "COOLDOWN"
      /\ gates[7][1] = "DAILY_TRADE_CAP" /\ gates[8][1] = "DAILY_LOSS_LIMIT"
      /\ gates[9][1] = "CRYPTO_EXPOSURE_CAP" /\ gates[10][1] = "INSUFFICIENT_CASH"
      /\ gates[11][1] = "MAX_SINGLE_TRADE" /\ gates[12][1] = "SIZE_TOO_LARGE"
      /\ gates[13][1] = "INSUFFICIENT_CASH"
  BY DEF Gates
<1>2. gates[5] = <<"MAX_OPEN", full>>
  BY DEF Gates
<1>3. Refusing(gates) # {} /\ check(b, e).gate = gates[first][1]
  BY DEF check, RiskDecision
<1> HIDE DEF gates
<1>4. Refusing(gates) \subseteq 1..13
  BY <1>1 DEF Refusing
<1>5. first \in Refusing(gates)
  <2>1. Refusing(gates) \subseteq Nat
    BY <1>4
  <2>2. \E m \in Refusing(gates) : \A k \in Refusing(gates) : m <= k
    BY <1>3, <2>1, LeastNatural
  <2> QED
    BY <2>2 DEF Min
<1> HIDE DEF first
<1>6. first \in 1..13 /\ gates[first][2]
  BY <1>4, <1>5 DEF Refusing
<1>7. gates[first][1] \in GateNames /\ gates[first][1] # ""
  <2>1. \/ first = 1 \/ first = 2 \/ first = 3 \/ first = 4 \/ first = 5
        \/ first = 6 \/ first = 7 \/ first = 8 \/ first = 9 \/ first = 10
        \/ first = 11 \/ first = 12 \/ first = 13
    BY <1>6
  <2> DEFINE name == gates[first][1]
  <2>2. name \in {gates[1][1], gates[2][1], gates[3][1], gates[4][1], gates[5][1],
                  gates[6][1], gates[7][1], gates[8][1], gates[9][1], gates[10][1],
                  gates[11][1], gates[12][1], gates[13][1]}
    BY <2>1
  <2> HIDE DEF name
  <2>3. name \in GateNames /\ name # ""
    BY <1>1, <2>2 DEF GateNames
  <2> QED
    BY <2>3 DEF name
<1>8. gates[first][1] = "MAX_OPEN" => first = 5
  BY <1>1, <1>6
<1>9. gates[5][2] => full
  <2> HIDE DEF full
  <2> QED
    BY <1>2
<1> QED
  BY <1>3, <1>6, <1>7, <1>8, <1>9

(* Of finitely many elements, one has the greatest value.                    *)
LEMMA GreatestOfFinite ==
  ASSUME NEW D, IsFiniteSet(D), D # {}, NEW f, \A x \in D : f[x] \in Int
  PROVE  \E m \in D : \A k \in D : f[k] <= f[m]
<1> DEFINE P == {S \in SUBSET D : S # {} => \E m \in S : \A k \in S : f[k] <= f[m]}
<1>1. {} \in P
  OBVIOUS
<1>2. ASSUME NEW S \in SUBSET D, \A x \in S : S \ {x} \in P, S # {}
      PROVE  S \in P
  <2>1. PICK x \in S : TRUE
    BY <1>2
  <2>2. CASE S \ {x} = {}
    <3>1. \A k \in S : f[k] <= f[x]
      BY <2>2
    <3> QED
      BY <3>1
  <2>3. CASE S \ {x} # {}
    <3>1. PICK m \in S \ {x} : \A k \in S \ {x} : f[k] <= f[m]
      BY <1>2, <2>3
    <3>2. f[m] \in Int /\ f[x] \in Int /\ \A k \in S : f[k] \in Int
      OBVIOUS
    <3>3. CASE f[m] <= f[x]
      <4>1. \A k \in S : f[k] <= f[x]
        BY <3>1, <3>2, <3>3
      <4> QED
        BY <4>1
    <3>4. CASE f[x] <= f[m]
      <4>1. \A k \in S : f[k] <= f[m]
        BY <3>1, <3>2, <3>4
      <4> QED
        BY <4>1
    <3> QED
      BY <3>2, <3>3, <3>4
  <2> QED
    BY <2>2, <2>3
<1> HIDE DEF P
<1>3. D \in P
  BY ZenonT(40), <1>1, <1>2, SubsetInduction
<1> QED
  BY <1>3 DEF P

(* What an assessment and a row may hold.                                    *)
Symbols == UNION {Range(universe(m)) : m \in Markets}
Assessment == [symbol : Symbols, total : Int, verdict : Verdicts, blocked_by : GateNames,
               price : Int, direction : Directions, scalp : Int]
ResultRow == [symbol : Symbols, verdict : Verdicts, blocked_by : GateNames]
ScanRecord ==
  [status : {"RUNNING", "OK", "PARTIAL", "ABORTED"}, market : Markets, session : Int,
   context : Contexts \cup {NoContext}, todo : Seq(Symbols), assessed : Seq(Assessment),
   ranked : SUBSET Nat, ok : Nat, failed : Nat, opened : Seq(Nat),
   rows : SUBSET ResultRow]

(* The best of the candidates left is one of them, and none precedes it.     *)
LEMMA BestIsFirst ==
  ASSUME scan.assessed \in Seq(Assessment),
         scan.ranked \subseteq DOMAIN scan.assessed, scan.ranked # {}
  PROVE  /\ Best \in scan.ranked
         /\ \A j \in scan.ranked : scan.assessed[Best].total >= scan.assessed[j].total
<1> DEFINE of(i) == scan.assessed[i].total
<1>1. /\ Len(scan.assessed) \in Nat /\ DOMAIN scan.assessed = 1..Len(scan.assessed)
      /\ \A i \in DOMAIN scan.assessed : of(i) \in Int
  <2>1. /\ Len(scan.assessed) \in Nat /\ DOMAIN scan.assessed = 1..Len(scan.assessed)
        /\ scan.assessed \in [1..Len(scan.assessed) -> Assessment]
    BY LenProperties
  <2>2. \A i \in DOMAIN scan.assessed : scan.assessed[i] \in Assessment
    BY <2>1
  <2>3. \A i \in DOMAIN scan.assessed : of(i) \in Int
    BY <2>2 DEF Assessment
  <2> QED
    BY <2>1, <2>3
<1>2. IsFiniteSet(scan.ranked)
  <2>1. IsFiniteSet(1..Len(scan.assessed))
    BY <1>1, CountTo
  <2> QED
    BY <1>1, <2>1, FS_Subset
<1>3. PICK t \in scan.ranked : \A k \in scan.ranked : of(k) <= of(t)
  <2> DEFINE f == [i \in scan.ranked |-> of(i)]
  <2>1. \A i \in scan.ranked : f[i] = of(i) /\ f[i] \in Int
    BY <1>1
  <2> HIDE DEF f, of
  <2>2. \E m \in scan.ranked : \A k \in scan.ranked : f[k] <= f[m]
    BY <1>2, <2>1, GreatestOfFinite
  <2> QED
    BY <2>1, <2>2
<1> HIDE DEF of
<1> DEFINE top == {i \in scan.ranked : of(i) = of(t)}
<1>5. top # {} /\ top \subseteq Nat
  BY <1>1
<1>6. PICK m \in top : \A k \in top : m <= k
  BY <1>5, LeastNatural
<1>7. \A j \in scan.ranked : Precedes(m, j)
  <2> SUFFICES ASSUME NEW j \in scan.ranked PROVE Precedes(m, j)
    OBVIOUS
  <2>1. of(j) \in Int /\ of(m) \in Int /\ of(j) <= of(m)
    BY <1>1, <1>3
  <2>2. of(j) = of(m) => m <= j
    BY <1>6
  <2> QED
    BY <2>1, <2>2 DEF Precedes, of
<1>8. Best \in scan.ranked /\ \A j \in scan.ranked : Precedes(Best, j)
  BY <1>7 DEF Best
<1>9. ASSUME NEW j \in scan.ranked
      PROVE  of(Best) >= of(j)
  <2>1. of(Best) \in Int /\ of(j) \in Int
    BY <1>1, <1>8
  <2>2. of(Best) > of(j) \/ of(Best) = of(j)
    BY <1>8 DEF Precedes, of
  <2> QED
    BY <2>1, <2>2
<1> QED
  BY <1>8, <1>9 DEF of

-----------------------------------------------------------------------------
(* The scan, step by step. *)

(* The scan under way, part by part.  Every symbol of the universe is either *)
(* still to do, assessed or in a row.                                        *)
Score1(i) == scan.assessed[i].total
Execute == Candidates(scan.assessed)
Accounted ==
  /\ Len(scan.todo) + scan.ok + scan.failed = Len(universe(scan.market))
  /\ scan.ok = Len(scan.assessed)
  /\ Range(scan.todo) \cup {scan.assessed[i].symbol : i \in DOMAIN scan.assessed}
       \cup {r.symbol : r \in scan.rows} = Range(universe(scan.market))
Judged ==
  \A i \in DOMAIN scan.assessed :
     /\ Fair(scan.assessed[i].total, weights)
     /\ scan.assessed[i].verdict = "BLOCKED" <=> scan.assessed[i].blocked_by # ""
FailedRows ==
  at # "done" => \A r \in scan.rows : r.verdict = "ERROR" /\ r.blocked_by = ""

(* In the first pass nothing is ranked, in the second nothing is to do and   *)
(* the candidates are those ranked and those opened.                         *)
FirstPass ==
  at \in {"context", "assess"} =>
     /\ scan.ranked = {} /\ scan.opened = <<>>
     /\ \A i \in DOMAIN scan.assessed : scan.assessed[i].blocked_by # "MAX_OPEN"
SecondPass ==
  at \in {"open", "done"} =>
     /\ scan.todo = <<>>
     /\ scan.ranked \subseteq Execute
     /\ Range(scan.opened) \subseteq Execute \ scan.ranked
     /\ ~dry_run => Execute \subseteq scan.ranked \cup Range(scan.opened)
     /\ dry_run => scan.opened = <<>>
     /\ at = "done" => scan.ranked = {}

(* The opened come in the order of their score, before what is still ranked; *)
(* what the limit on positions stopped stands behind them all, and while the *)
(* pass lasts the book stays full.                                           *)
Descending ==
  at \in {"open", "done"} =>
     /\ \A i, j \in DOMAIN scan.opened :
          i < j => Score1(scan.opened[i]) >= Score1(scan.opened[j])
     /\ \A k \in Range(scan.opened), j \in scan.ranked : Score1(k) >= Score1(j)
     /\ \A i \in DOMAIN scan.assessed :
          scan.assessed[i].blocked_by = "MAX_OPEN" =>
             /\ at = "open" => BookFull
             /\ \A k \in Range(scan.opened) : Score1(i) <= Score1(k)

ScanInv ==
  /\ at \in {"idle", "context", "assess", "open", "done"}
  /\ weights \in Weights /\ dry_run \in BOOLEAN /\ day \in Nat
  /\ at = "idle" => scan = NoScan
  /\ at # "idle" =>
       /\ scan \in ScanRecord
       /\ Accounted /\ Judged /\ FailedRows /\ FirstPass /\ SecondPass /\ Descending

(* The universe of a market lists symbols. *)
LEMMA UniverseOfSymbols ==
  ASSUME NEW m \in Markets
  PROVE  /\ universe(m) \in Seq(Symbols) /\ Range(universe(m)) \subseteq Symbols
         /\ Len(universe(m)) \in Nat
<1>1. Range(universe(m)) \subseteq Symbols
  BY DEF Symbols
<1>2. universe(m) \in Seq(Range(universe(m)))
  BY ScannerAssumption
<1>3. universe(m) \in Seq(Symbols)
  BY <1>1, <1>2
<1> QED
  BY <1>1, <1>3, LenProperties

(* The steps of a scan, one by one: it begins. *)
LEMMA BeginStep ==
  ASSUME ScanInv, NEW m \in Markets, Begin(m)
  PROVE  ScanInv'
<1> DEFINE u == universe(m)
<1>1. scan' = [status |-> "RUNNING", market |-> m, session |-> day,
               context |-> NoContext, todo |-> u, assessed |-> <<>>,
               ranked |-> {}, ok |-> 0, failed |-> 0,
               opened |-> <<>>, rows |-> {}]
      /\ at' = "context" /\ weights' = weights /\ dry_run' = dry_run /\ day' = day
  BY DEF Begin
<1>2. u \in Seq(Symbols) /\ Len(u) \in Nat
  BY UniverseOfSymbols
<1>3. <<>> \in Seq(Assessment) /\ <<>> \in Seq(Nat) /\ Len(<<>>) = 0
      /\ DOMAIN <<>> = {}
  OBVIOUS
<1>4. scan' \in ScanRecord
  <2> HIDE DEF u
  <2>1. day \in Int
    BY DEF ScanInv
  <2> QED
    BY <1>1, <1>2, <1>3, <2>1 DEF ScanRecord
<1>5. Accounted'
  <2>1. Range(scan'.todo) = Range(universe(scan'.market))
    BY <1>1
  <2>2. {scan'.assessed[i].symbol : i \in DOMAIN scan'.assessed} = {}
        /\ {r.symbol : r \in scan'.rows} = {}
    BY <1>1, <1>3
  <2>3. Len(scan'.todo) + scan'.ok + scan'.failed = Len(universe(scan'.market))
    BY <1>1, <1>2
  <2>4. scan'.ok = Len(scan'.assessed)
    BY <1>1, <1>3
  <2> QED
    BY <2>1, <2>2, <2>3, <2>4 DEF Accounted
<1>6. Judged' /\ FailedRows' /\ FirstPass' /\ SecondPass' /\ Descending'
  BY <1>1, <1>3 DEF Judged, FailedRows, FirstPass, SecondPass, Descending
<1> QED
  BY <1>1, <1>4, <1>5, <1>6 DEF ScanInv

(* The context is built. *)
LEMMA ContextStep ==
  ASSUME ScanInv, BuildContext
  PROVE  ScanInv'
<1>1. PICK ctx \in Contexts \cup {NoContext} : scan' = [scan EXCEPT !.context = ctx]
  BY DEF BuildContext
<1>2. /\ at = "context" /\ at' = "assess" /\ scan \in ScanRecord
      /\ weights' = weights /\ dry_run' = dry_run /\ day' = day
  BY DEF BuildContext, ScanInv
<1>3. /\ scan' \in ScanRecord
      /\ scan'.market = scan.market /\ scan'.todo = scan.todo
      /\ scan'.assessed = scan.assessed /\ scan'.ranked = scan.ranked
      /\ scan'.ok = scan.ok /\ scan'.failed = scan.failed
      /\ scan'.opened = scan.opened /\ scan'.rows = scan.rows
  BY <1>1, <1>2 DEF ScanRecord
<1>4. Accounted /\ Judged /\ FailedRows /\ FirstPass
  BY <1>2 DEF ScanInv
<1>5. Accounted'
  BY <1>3, <1>4 DEF Accounted
<1>6. Judged' /\ FailedRows' /\ FirstPass' /\ SecondPass' /\ Descending'
  BY ZenonT(40), <1>2, <1>3, <1>4 DEF Judged, FailedRows, FirstPass, SecondPass, Descending
<1> QED
  BY <1>2, <1>3, <1>5, <1>6 DEF ScanInv

(* The candidates are ranked. *)
LEMMA RankStep ==
  ASSUME ScanInv, Rank
  PROVE  ScanInv'
<1>1. /\ scan' = [scan EXCEPT !.ranked = Candidates(scan.assessed), !.context = NoContext]
      /\ at = "assess" /\ at' = "open" /\ scan \in ScanRecord /\ scan.todo = <<>>
      /\ weights' = weights /\ dry_run' = dry_run /\ day' = day
  BY DEF Rank, ScanInv
<1>2. Candidates(scan.assessed) \subseteq Nat
  <2>1. scan.assessed \in Seq(Assessment)
    BY <1>1 DEF ScanRecord
  <2>2. DOMAIN scan.assessed \subseteq Nat
    BY <2>1, LenProperties
  <2> QED
    BY <2>2 DEF Candidates
<1>3. /\ scan' \in ScanRecord
      /\ scan'.market = scan.market /\ scan'.todo = scan.todo
      /\ scan'.assessed = scan.assessed /\ scan'.ranked = Candidates(scan.assessed)
      /\ scan'.ok = scan.ok /\ scan'.failed = scan.failed
      /\ scan'.opened = scan.opened /\ scan'.rows = scan.rows
  <2> DEFINE c == Candidates(scan.assessed)
  <2> HIDE DEF c
  <2>1. scan' = [scan EXCEPT !.ranked = c, !.context = NoContext] /\ c \subseteq Nat
    BY <1>1, <1>2 DEF c
  <2>2. /\ scan' \in ScanRecord
        /\ scan'.market = scan.market /\ scan'.todo = scan.todo
        /\ scan'.assessed = scan.assessed /\ scan'.ranked = c
        /\ scan'.ok = scan.ok /\ scan'.failed = scan.failed
        /\ scan'.opened = scan.opened /\ scan'.rows = scan.rows
    BY <1>1, <2>1 DEF ScanRecord
  <2> QED
    BY <2>2 DEF c
<1>4. Accounted /\ Judged /\ FailedRows /\ FirstPass
  BY <1>1 DEF ScanInv
<1>5. Accounted' /\ Judged' /\ FailedRows' /\ FirstPass'
  <2>1. Accounted'
    BY <1>3, <1>4 DEF Accounted
  <2>2. Judged'
    BY <1>1, <1>3, <1>4 DEF Judged
  <2>3. FailedRows'
    BY <1>1, <1>3, <1>4 DEF FailedRows
  <2> QED
    BY <1>1, <2>1, <2>2, <2>3 DEF FirstPass
<1>6. scan.opened = <<>> /\ Range(<<>>) = {} /\ DOMAIN <<>> = {}
  BY <1>1, <1>4 DEF FirstPass, Range
<1>7. SecondPass'
  BY <1>1, <1>3, <1>6 DEF SecondPass, Execute
<1>8. Descending'
  <2>1. \A i \in DOMAIN scan.assessed : scan.assessed[i].blocked_by # "MAX_OPEN"
    BY <1>1, <1>4 DEF FirstPass
  <2> QED
    BY <1>1, <1>3, <1>6, <2>1 DEF Descending
<1> QED
  BY <1>1, <1>3, <1>5, <1>7, <1>8 DEF ScanInv

(* The first pass takes one symbol from what is to do to the assessments or  *)
(* to the rows.                                                              *)
LEMMA FirstTaken ==
  ASSUME scan \in ScanRecord, scan.todo # <<>>
  PROVE  /\ Head(scan.todo) \in Symbols /\ Tail(scan.todo) \in Seq(Symbols)
         /\ Len(Tail(scan.todo)) = Len(scan.todo) - 1 /\ Len(scan.todo) \in Nat
         /\ Range(scan.todo) = {Head(scan.todo)} \cup Range(Tail(scan.todo))
<1> DEFINE s == scan.todo
<1>1. s \in Seq(Symbols) /\ s # <<>>
  BY DEF ScanRecord
<1> HIDE DEF s
<1>2. /\ Head(s) \in Symbols /\ Tail(s) \in Seq(Symbols) /\ Len(Tail(s)) = Len(s) - 1
      /\ \A i \in 1..Len(Tail(s)) : Tail(s)[i] = s[i + 1]
  BY <1>1, HeadTailProperties
<1>3. Len(s) \in Nat \ {0} /\ DOMAIN s = 1..Len(s) /\ DOMAIN Tail(s) = 1..Len(Tail(s))
  BY <1>1, <1>2, LenProperties, EmptySeq
<1>4. Head(s) = s[1]
  BY <1>1
<1>5. ASSUME NEW i \in DOMAIN s
      PROVE  s[i] \in {Head(s)} \cup Range(Tail(s))
  <2>1. CASE i = 1
    BY <1>4, <2>1
  <2>2. CASE i # 1
    <3>1. i - 1 \in 1..Len(Tail(s)) /\ (i - 1) + 1 = i
      BY <1>2, <1>3, <2>2
    <3>2. Tail(s)[i - 1] = s[i]
      BY <1>2, <3>1
    <3> QED
      BY <1>3, <3>1, <3>2 DEF Range
  <2> QED
    BY <2>1, <2>2
<1>6. Head(s) \in Range(s)
  BY <1>3, <1>4 DEF Range
<1>7. ASSUME NEW i \in DOMAIN Tail(s)
      PROVE  Tail(s)[i] \in Range(s)
  <2>1. i + 1 \in DOMAIN s /\ Tail(s)[i] = s[i + 1]
    BY <1>2, <1>3
  <2> QED
    BY <2>1 DEF Range
<1>8. Range(s) = {Head(s)} \cup Range(Tail(s))
  BY <1>5, <1>6, <1>7 DEF Range
<1> QED
  BY <1>2, <1>3, <1>8 DEF s

(* A symbol is assessed. *)
LEMMA AssessStep ==
  ASSUME ScanInv, Assess
  PROVE  ScanInv'
<1> DEFINE symbol == Head(scan.todo)
<1>1. /\ at = "assess" /\ at' = "assess" /\ scan.todo # <<>> /\ scan \in ScanRecord
      /\ weights' = weights /\ dry_run' = dry_run /\ day' = day
      /\ weights \in StoredWeights
  BY ScannerAssumption DEF Assess, ScanInv, StoredWeights
<1>2. Accounted /\ Judged /\ FailedRows /\ FirstPass
  BY <1>1 DEF ScanInv
<1>3. /\ symbol \in Symbols /\ Tail(scan.todo) \in Seq(Symbols)
      /\ Len(Tail(scan.todo)) = Len(scan.todo) - 1 /\ Len(scan.todo) \in Nat
      /\ Range(scan.todo) = {symbol} \cup Range(Tail(scan.todo))
  BY <1>1, FirstTaken
<1>4. /\ scan.ok \in Nat /\ scan.failed \in Nat /\ scan.rows \subseteq ResultRow
      /\ scan.assessed \in Seq(Assessment) /\ scan.market \in Markets
      /\ scan.context \in Contexts \cup {NoContext}
  BY <1>1 DEF ScanRecord
<1>5. Len(scan.assessed) \in Nat /\ DOMAIN scan.assessed = 1..Len(scan.assessed)
  BY <1>4, LenProperties
<1>6. CASE scan' = [scan EXCEPT !.todo = Tail(@), !.failed = @ + 1,
                                       !.rows = @ \cup {Row(Unpriceable(symbol))}]
  <2> DEFINE row == [symbol |-> symbol, verdict |-> "ERROR", blocked_by |-> ""]
             rest == Tail(scan.todo)
  <2>1. Row(Unpriceable(symbol)) = row
    BY DEF Row, Unpriceable, Assessed
  <2>2. row \in ResultRow
    BY <1>3 DEF ResultRow, Verdicts, GateNames
  <2> HIDE DEF symbol
  <2>3. /\ scan' \in ScanRecord
        /\ scan'.market = scan.market /\ scan'.todo = rest
        /\ scan'.assessed = scan.assessed /\ scan'.ranked = scan.ranked
        /\ scan'.ok = scan.ok /\ scan'.failed = scan.failed + 1
        /\ scan'.opened = scan.opened /\ scan'.rows = scan.rows \cup {row}
    <3> HIDE DEF rest, row
    <3>1. scan' = [scan EXCEPT !.todo = rest, !.failed = scan.failed + 1,
                               !.rows = scan.rows \cup {row}]
      BY <1>6, <2>1 DEF rest
    <3>2. rest \in Seq(Symbols) /\ scan.failed + 1 \in Nat
          /\ scan.rows \cup {row} \subseteq ResultRow
      BY <1>3, <1>4, <2>2 DEF rest
    <3> QED
      BY <1>1, <3>1, <3>2 DEF ScanRecord
  <2>4. Accounted'
    <3>1. row.symbol = symbol
      OBVIOUS
    <3>2. {r.symbol : r \in scan.rows \cup {row}} = {r.symbol : r \in scan.rows} \cup {symbol}
      BY <3>1
    <3> HIDE DEF rest, row
    <3>3. Len(rest) + scan.ok + (scan.failed + 1) = Len(universe(scan.market))
      <4>1. /\ Len(rest) = Len(scan.todo) - 1 /\ Len(scan.todo) \in Nat
            /\ Len(scan.todo) + scan.ok + scan.failed = Len(universe(scan.market))
        BY <1>2, <1>3 DEF Accounted, rest
      <4> DEFINE l == Len(rest)
                 t == Len(scan.todo)
                 k == scan.ok
                 f == scan.failed
      <4>2. /\ l = t - 1 /\ t \in Int /\ k \in Int /\ f \in Int
            /\ t + k + f = Len(universe(scan.market))
        BY <1>4, <4>1
      <4> HIDE DEF l, t, k, f
      <4>3. l + k + (f + 1) = t + k + f
        BY <4>2
      <4> QED
        BY <4>2, <4>3 DEF l, k, f
    <3>4. Range(rest) \cup {scan.assessed[i].symbol : i \in DOMAIN scan.assessed}
            \cup {r.symbol : r \in scan.rows \cup {row}} = Range(universe(scan.market))
      BY <1>2, <1>3, <3>2 DEF Accounted, rest
    <3> QED
      BY <1>2, <2>3, <3>3, <3>4 DEF Accounted
  <2>5. Judged' /\ FailedRows' /\ FirstPass' /\ SecondPass' /\ Descending'
    <3>1. FailedRows'
      <4>1. row.verdict = "ERROR" /\ row.blocked_by = ""
        OBVIOUS
      <4> HIDE DEF row
      <4>2. \A r \in scan.rows \cup {row} : r.verdict = "ERROR" /\ r.blocked_by = ""
        BY <1>1, <1>2, <4>1 DEF FailedRows
      <4> QED
        BY <2>3, <4>2 DEF FailedRows
    <3>2. Judged'
      BY <1>1, <1>2, <2>3 DEF Judged
    <3> QED
      BY <1>1, <1>2, <2>3, <3>1, <3>2 DEF FirstPass, SecondPass, Descending
  <2> QED
    BY <1>1, <2>3, <2>4, <2>5 DEF ScanInv
<1>7. ASSUME NEW v \in Views,
             NEW a \in assess(scan.market, symbol, v, scan.context, load_weights(weights)),
             scan' = [scan EXCEPT !.todo = Tail(@), !.ok = @ + 1,
                                  !.assessed = Append(@, a)]
      PROVE  ScanInv'
  <2> DEFINE rest == Tail(scan.todo)
             now == Append(scan.assessed, a)
  <2>1. IsAssessment(a, symbol, weights)
    <3>1. TypedContext(scan.context)
      BY <1>4, ContextsAreTyped
    <3> QED
      BY <1>1, <1>4, <1>7, <3>1, DesksAssess
  <2> HIDE DEF symbol
  <2>2. a \in Assessment
    <3>1. /\ a.symbol \in Symbols /\ a.total \in Int /\ a.price \in Int /\ a.scalp \in Int
          /\ a.verdict \in Verdicts /\ a.direction \in Directions
          /\ a.blocked_by \in GateNames
      <4>1. /\ a.symbol = symbol /\ a.price \in Int /\ a.scalp \in Int
            /\ a.verdict \in Verdicts /\ a.direction \in Directions
            /\ a.blocked_by \in {"", "MARKET_REGIME"}
        BY <2>1 DEF IsAssessment
      <4>2. a.total \in Int
        BY <2>1 DEF IsAssessment, Fair
      <4>3. a.blocked_by \in GateNames
        BY <4>1 DEF GateNames
      <4> QED
        BY <1>3, <4>1, <4>2, <4>3
    <3>2. AssessmentRow(a)
      BY <2>1 DEF IsAssessment
    <3> QED
      BY <3>1, <3>2 DEF AssessmentRow, Assessment
  <2>3. /\ now \in Seq(Assessment) /\ Len(now) = Len(scan.assessed) + 1
        /\ \A i \in 1..Len(scan.assessed) : now[i] = scan.assessed[i]
        /\ now[Len(scan.assessed) + 1] = a
    BY <1>4, <2>2, AppendProperties
  <2>4. DOMAIN now = 1..(Len(scan.assessed) + 1)
    BY <2>3, LenProperties
  <2>5. /\ scan' \in ScanRecord
        /\ scan'.market = scan.market /\ scan'.todo = rest
        /\ scan'.assessed = now /\ scan'.ranked = scan.ranked
        /\ scan'.ok = scan.ok + 1 /\ scan'.failed = scan.failed
        /\ scan'.opened = scan.opened /\ scan'.rows = scan.rows
    <3>1. scan' = [scan EXCEPT !.todo = rest, !.ok = scan.ok + 1, !.assessed = now]
      BY <1>7
    <3>2. rest \in Seq(Symbols) /\ scan.ok + 1 \in Nat /\ now \in Seq(Assessment)
      BY <1>3, <1>4, <2>3
    <3> HIDE DEF rest, now
    <3> QED
      BY <1>1, <3>1, <3>2 DEF ScanRecord
  <2> HIDE DEF now
  <2>6. \A i \in DOMAIN now :
          \/ i \in DOMAIN scan.assessed /\ now[i] = scan.assessed[i]
          \/ i = Len(scan.assessed) + 1 /\ now[i] = a
    BY <1>5, <2>3, <2>4
  <2>7. Accounted'
    <3>1. a.symbol = symbol
      BY <2>1 DEF IsAssessment
    <3>2. {now[i].symbol : i \in DOMAIN now}
            = {scan.assessed[i].symbol : i \in DOMAIN scan.assessed} \cup {symbol}
      <4>1. \A i \in DOMAIN scan.assessed : i \in DOMAIN now /\ now[i] = scan.assessed[i]
        BY <1>5, <2>3, <2>4
      <4>2. Len(scan.assessed) + 1 \in DOMAIN now
        BY <1>5, <2>4
      <4> QED
        BY <2>3, <2>6, <3>1, <4>1, <4>2
    <3>3. Len(rest) + (scan.ok + 1) + scan.failed = Len(universe(scan.market))
      <4>1. /\ Len(rest) = Len(scan.todo) - 1 /\ Len(scan.todo) \in Nat
            /\ Len(scan.todo) + scan.ok + scan.failed = Len(universe(scan.market))
        BY <1>2, <1>3 DEF Accounted
      <4> HIDE DEF rest
      <4> QED
        BY SMTT(20), <1>4, <4>1
    <3>4. Range(rest) \cup {now[i].symbol : i \in DOMAIN now}
            \cup {r.symbol : r \in scan.rows} = Range(universe(scan.market))
      BY <1>2, <1>3, <3>2 DEF Accounted
    <3>5. scan.ok + 1 = Len(now)
      BY <1>2, <2>3 DEF Accounted
    <3> QED
      BY <2>5, <3>3, <3>4, <3>5 DEF Accounted
  <2>8. Judged'
    <3>1. Fair(a.total, weights) /\ (a.verdict = "BLOCKED" <=> a.blocked_by # "")
      BY <2>1 DEF IsAssessment
    <3> QED
      BY <1>1, <1>2, <2>5, <2>6, <3>1 DEF Judged
  <2>9. FirstPass'
    <3>1. a.blocked_by # "MAX_OPEN"
      BY <2>1 DEF IsAssessment
    <3> QED
      BY <1>1, <1>2, <2>5, <2>6, <3>1 DEF FirstPass
  <2>10. FailedRows' /\ SecondPass' /\ Descending'
    BY <1>1, <1>2, <2>5 DEF FailedRows, SecondPass, Descending
  <2> QED
    BY <1>1, <2>5, <2>7, <2>8, <2>9, <2>10 DEF ScanInv
<1> QED
  BY <1>6, <1>7 DEF Assess

(* In the second pass the candidate is one the first pass would execute, and *)
(* none of those opened before it scores less.                               *)
LEMMA NextCandidate ==
  ASSUME ScanInv, at = "open", scan.ranked # {}
  PROVE  /\ scan \in ScanRecord
         /\ Best \in scan.ranked /\ Best \in DOMAIN scan.assessed
         /\ Best \notin Range(scan.opened)
         /\ Candidate \in Assessment /\ Candidate.verdict = "EXECUTE"
         /\ Left \subseteq Nat
         /\ \A j \in Left : Score1(Best) >= Score1(j)
         /\ \A k \in Range(scan.opened) : Score1(k) >= Score1(Best)
<1>1. scan \in ScanRecord /\ SecondPass /\ Descending
  BY DEF ScanInv
<1>2. /\ scan.assessed \in Seq(Assessment) /\ scan.ranked \subseteq Nat
      /\ scan.ranked \subseteq DOMAIN scan.assessed
  BY <1>1 DEF ScanRecord, SecondPass, Execute, Candidates
<1>3. /\ Best \in scan.ranked
      /\ \A j \in scan.ranked : Score1(Best) >= Score1(j)
  BY <1>2, BestIsFirst DEF Score1
<1>4. Best \in DOMAIN scan.assessed /\ Candidate \in Assessment
  BY <1>2, <1>3, LenProperties DEF Candidate
<1>5. Candidate.verdict = "EXECUTE" /\ Best \notin Range(scan.opened)
  BY <1>1, <1>3 DEF SecondPass, Execute, Candidates, Candidate
<1>6. \A k \in Range(scan.opened) : Score1(k) >= Score1(Best)
  BY <1>1, <1>3 DEF Descending
<1> QED
  BY <1>1, <1>2, <1>3, <1>4, <1>5, <1>6 DEF Left

(* A candidate is refused. *)
LEMMA RefuseStep ==
  ASSUME ScanInv, Refuse
  PROVE  ScanInv'
<1> DEFINE gate == IF BookFull THEN "MAX_OPEN"
                   ELSE IF ~Decision.allowed THEN Decision.gate ELSE "SIZE_ZERO"
           a == [Candidate EXCEPT !.verdict = "BLOCKED", !.blocked_by = gate]
           i0 == Best
           now == [scan.assessed EXCEPT ![i0] = a]
           left == scan.ranked \ {i0}
<1>1. /\ at = "open" /\ at' = "open" /\ scan.ranked # {}
      /\ weights' = weights /\ dry_run' = dry_run /\ day' = day /\ book' = book
      /\ scan' = [scan EXCEPT !.assessed[i0] = a, !.ranked = left]
  BY DEF Refuse, Settle, Left
<1>2. /\ scan \in ScanRecord
      /\ i0 \in scan.ranked /\ i0 \in DOMAIN scan.assessed /\ i0 \notin Range(scan.opened)
      /\ scan.assessed[i0] \in Assessment /\ scan.assessed[i0].verdict = "EXECUTE"
      /\ \A k \in Range(scan.opened) : Score1(k) >= Score1(i0)
  BY <1>1, NextCandidate DEF Candidate
<1>3. Accounted /\ Judged /\ FailedRows /\ SecondPass /\ Descending
  BY <1>1 DEF ScanInv
<1>4. gate \in GateNames /\ gate # "" /\ (gate = "MAX_OPEN" => BookFull)
  <2>1. CASE BookFull
    BY <2>1 DEF GateNames
  <2>2. CASE ~BookFull /\ ~Decision.allowed
    BY <2>2, RefusalNamesGate DEF Decision, BookFull
  <2>3. CASE ~BookFull /\ Decision.allowed
    BY <2>3 DEF GateNames
  <2> QED
    BY <2>1, <2>2, <2>3
<1> HIDE DEF gate, i0
<1>5. /\ a \in Assessment /\ a.symbol = scan.assessed[i0].symbol
      /\ a.total = scan.assessed[i0].total /\ a.verdict = "BLOCKED" /\ a.blocked_by = gate
  <2>1. a = [scan.assessed[i0] EXCEPT !.verdict = "BLOCKED", !.blocked_by = gate]
    BY DEF Candidate, i0
  <2> HIDE DEF a
  <2>2. "BLOCKED" \in Verdicts
    BY DEF Verdicts
  <2> QED
    BY <1>2, <1>4, <2>1, <2>2 DEF Assessment
<1>6. /\ scan.assessed \in Seq(Assessment) /\ DOMAIN scan.assessed = 1..Len(scan.assessed)
      /\ Len(scan.assessed) \in Nat
  BY <1>2, LenProperties DEF ScanRecord
<1> HIDE DEF a
<1>7. /\ now \in Seq(Assessment) /\ Len(now) = Len(scan.assessed)
      /\ DOMAIN now = DOMAIN scan.assessed /\ now[i0] = a
      /\ \A i \in DOMAIN now : i # i0 => now[i] = scan.assessed[i]
  BY <1>2, <1>5, <1>6
<1>8. left \subseteq Nat /\ left \subseteq scan.ranked /\ i0 \notin left
  BY <1>2 DEF ScanRecord
<1>9. /\ scan' \in ScanRecord
      /\ scan'.market = scan.market /\ scan'.todo = scan.todo
      /\ scan'.assessed = now /\ scan'.ranked = left
      /\ scan'.ok = scan.ok /\ scan'.failed = scan.failed
      /\ scan'.opened = scan.opened /\ scan'.rows = scan.rows
  <2>1. scan' = [scan EXCEPT !.assessed = now, !.ranked = left]
    BY <1>1, <1>2 DEF ScanRecord
  <2> HIDE DEF now, left
  <2> QED
    BY <1>2, <1>7, <1>8, <2>1 DEF ScanRecord
<1> HIDE DEF now
<1>10. /\ \A i \in DOMAIN now : /\ now[i].symbol = scan.assessed[i].symbol
                                /\ now[i].total = scan.assessed[i].total
  BY <1>5, <1>7
<1>11. Accounted'
  <2>1. {now[i].symbol : i \in DOMAIN now}
          = {scan.assessed[i].symbol : i \in DOMAIN scan.assessed}
    BY <1>7, <1>10
  <2> QED
    BY <1>3, <1>7, <1>9, <2>1 DEF Accounted
<1>12. Judged'
  <2>1. ASSUME NEW i \in DOMAIN now
        PROVE  Fair(now[i].total, weights) /\ (now[i].verdict = "BLOCKED" <=> now[i].blocked_by # "")
    <3>1. Fair(now[i].total, weights)
      BY <1>3, <1>7, <1>10 DEF Judged
    <3>2. CASE i = i0
      BY <1>4, <1>5, <1>7, <3>1, <3>2
    <3>3. CASE i # i0
      BY <1>3, <1>7, <3>1, <3>3 DEF Judged
    <3> QED
      BY <3>2, <3>3
  <2> QED
    BY <1>1, <1>9, <2>1 DEF Judged
<1>13. FailedRows' /\ FirstPass'
  BY <1>1, <1>3, <1>9 DEF FailedRows, FirstPass
<1>14. Candidates(now) = Candidates(scan.assessed) \ {i0}
  BY <1>5, <1>7 DEF Candidates
<1>15. SecondPass'
  BY <1>1, <1>2, <1>3, <1>9, <1>14 DEF SecondPass, Execute
<1>16. Descending'
  <2>1. \A i \in DOMAIN now : now[i].total = Score1(i)
    BY <1>7, <1>10 DEF Score1
  <2>2. \A i \in Range(scan.opened) \cup scan.ranked : i \in DOMAIN now
    BY <1>1, <1>3, <1>7 DEF SecondPass, Execute, Candidates
  <2>3. \A i \in DOMAIN scan.opened : scan.opened[i] \in DOMAIN now
    BY <2>2 DEF Range
  <2>4. ASSUME NEW i \in DOMAIN now, now[i].blocked_by = "MAX_OPEN"
        PROVE  BookFull /\ \A k \in Range(scan.opened) : Score1(i) <= Score1(k)
    <3>1. CASE i = i0
      <4>1. BookFull
        BY <1>4, <1>5, <1>7, <2>4, <3>1
      <4>2. \A k \in Range(scan.opened) \cup {i0} : Score1(k) \in Int
        <5>1. \A k \in DOMAIN scan.assessed : scan.assessed[k] \in Assessment
          BY <1>6
        <5> QED
          BY <1>2, <1>7, <2>2, <5>1 DEF Score1, Assessment
      <4> QED
        BY <1>2, <3>1, <4>1, <4>2
    <3>2. CASE i # i0
      BY <1>1, <1>3, <1>7, <2>4, <3>2 DEF Descending
    <3> QED
      BY <3>1, <3>2
  <2>5. \A i, j \in DOMAIN scan.opened :
          i < j => now[scan.opened[i]].total >= now[scan.opened[j]].total
    BY <1>1, <1>3, <2>1, <2>3 DEF Descending
  <2>6. \A k \in Range(scan.opened), j \in left : now[k].total >= now[j].total
    BY <1>1, <1>3, <1>8, <2>1, <2>2 DEF Descending
  <2>7. ASSUME NEW i \in DOMAIN now, now[i].blocked_by = "MAX_OPEN"
        PROVE  BookFull' /\ \A k \in Range(scan.opened) : now[i].total <= now[k].total
    <3>1. BookFull /\ \A k \in Range(scan.opened) : Score1(i) <= Score1(k)
      BY <2>4, <2>7
    <3> QED
      BY <1>1, <2>1, <2>2, <3>1 DEF BookFull
  <2> QED
    BY <1>9, <2>5, <2>6, <2>7 DEF Descending, Score1
<1> QED
  BY <1>1, <1>9, <1>11, <1>12, <1>13, <1>15, <1>16 DEF ScanInv

(* A dry run settles the candidate as it is.                                 *)
LEMMA DryRunStep ==
  ASSUME ScanInv, DryRun
  PROVE  ScanInv'
<1> DEFINE i0 == Best
           left == scan.ranked \ {i0}
<1>1. /\ at = "open" /\ at' = "open" /\ scan.ranked # {} /\ dry_run
      /\ weights' = weights /\ dry_run' = dry_run /\ day' = day /\ book' = book
      /\ scan' = [scan EXCEPT !.assessed[i0] = scan.assessed[i0], !.ranked = left]
  BY DEF DryRun, Settle, Left, Candidate
<1>2. scan \in ScanRecord /\ i0 \in DOMAIN scan.assessed /\ left \subseteq Nat
  BY <1>1, NextCandidate DEF Left
<1> HIDE DEF i0
<1>3. [scan.assessed EXCEPT ![i0] = scan.assessed[i0]] = scan.assessed
  <2>1. scan.assessed \in [1..Len(scan.assessed) -> Assessment]
    BY <1>2, LenProperties DEF ScanRecord
  <2> QED
    BY <1>2, <2>1
<1>4. /\ scan' \in ScanRecord
      /\ scan'.market = scan.market /\ scan'.todo = scan.todo
      /\ scan'.assessed = scan.assessed /\ scan'.ranked = left
      /\ scan'.ok = scan.ok /\ scan'.failed = scan.failed
      /\ scan'.opened = scan.opened /\ scan'.rows = scan.rows
  <2>1. scan' = [scan EXCEPT !.assessed = [scan.assessed EXCEPT ![i0] = scan.assessed[i0]],
                             !.ranked = left]
    BY <1>1, <1>2 DEF ScanRecord
  <2>2. scan' = [scan EXCEPT !.assessed = scan.assessed, !.ranked = left]
    BY <1>3, <2>1
  <2> HIDE DEF left
  <2> QED
    BY <1>2, <2>2 DEF ScanRecord
<1>5. Accounted /\ Judged /\ FailedRows /\ SecondPass /\ Descending
  BY <1>1 DEF ScanInv
<1>6. Accounted'
  <2>1. /\ Len(scan'.todo) = Len(scan.todo) /\ Len(scan'.assessed) = Len(scan.assessed)
        /\ universe(scan'.market) = universe(scan.market)
        /\ Range(scan'.todo) = Range(scan.todo)
        /\ {scan'.assessed[i].symbol : i \in DOMAIN scan'.assessed}
             = {scan.assessed[i].symbol : i \in DOMAIN scan.assessed}
        /\ {r.symbol : r \in scan'.rows} = {r.symbol : r \in scan.rows}
    BY <1>4, Zenon
  <2>2. scan'.ok = scan.ok /\ scan'.failed = scan.failed
    BY <1>4
  <2> QED
    BY <1>5, <2>1, <2>2, Zenon DEF Accounted
<1>7. Judged' /\ FailedRows' /\ FirstPass'
  BY ZenonT(40), <1>1, <1>4, <1>5 DEF Judged, FailedRows, FirstPass
<1>8. SecondPass'
  BY <1>1, <1>4, <1>5 DEF SecondPass, Execute
<1>9. Descending'
  <2>1. BookFull' = BookFull
    BY <1>1 DEF BookFull
  <2> QED
    BY <1>1, <1>4, <1>5, <2>1 DEF Descending, Score1
<1> QED
  BY <1>1, <1>4, <1>6, <1>7, <1>8, <1>9 DEF ScanInv

(* A candidate is opened. *)
LEMMA OpenScan ==
  ASSUME ScanInv, Open
  PROVE  ScanInv'
<1> DEFINE i0 == Best
           left == scan.ranked \ {i0}
           now == Append(scan.opened, i0)
           n == Len(scan.opened)
<1>1. /\ at = "open" /\ at' = "open" /\ scan.ranked # {} /\ ~dry_run /\ ~BookFull
      /\ weights' = weights /\ dry_run' = dry_run /\ day' = day
      /\ scan' = [scan EXCEPT !.ranked = left, !.opened = now]
  BY DEF Open, Allowed, Left
<1>2. /\ scan \in ScanRecord /\ i0 \in scan.ranked /\ left \subseteq Nat
      /\ i0 \in DOMAIN scan.assessed
      /\ \A j \in left : Score1(i0) >= Score1(j)
      /\ \A k \in Range(scan.opened) : Score1(k) >= Score1(i0)
  BY <1>1, NextCandidate DEF Left
<1> HIDE DEF i0
<1>3. /\ now \in Seq(Nat) /\ n \in Nat /\ Len(now) = n + 1
      /\ DOMAIN now = 1..(n + 1) /\ DOMAIN scan.opened = 1..n
      /\ \A i \in 1..n : now[i] = scan.opened[i]
      /\ now[n + 1] = i0
  <2>1. scan.opened \in Seq(Nat) /\ i0 \in Nat
    BY <1>2 DEF ScanRecord
  <2>2. now \in Seq(Nat)
    BY <2>1, AppendProperties
  <2> QED
    BY <2>1, <2>2, AppendProperties, LenProperties
<1> HIDE DEF now, n
<1>4. Range(now) = Range(scan.opened) \cup {i0}
  <2>1. \A i \in 1..(n + 1) : i \in 1..n \/ i = n + 1
    BY <1>3
  <2>2. 1..n \subseteq 1..(n + 1) /\ n + 1 \in 1..(n + 1)
    BY <1>3
  <2> QED
    BY <1>3, <2>1, <2>2 DEF Range
<1>5. /\ scan' \in ScanRecord
      /\ scan'.market = scan.market /\ scan'.todo = scan.todo
      /\ scan'.assessed = scan.assessed /\ scan'.ranked = left
      /\ scan'.ok = scan.ok /\ scan'.failed = scan.failed
      /\ scan'.opened = now /\ scan'.rows = scan.rows
  <2> HIDE DEF left
  <2> QED
    BY <1>1, <1>2, <1>3 DEF ScanRecord
<1>6. Accounted /\ Judged /\ FailedRows /\ SecondPass /\ Descending
  BY <1>1 DEF ScanInv
<1>7. Accounted'
  BY <1>5, <1>6 DEF Accounted
<1>8. Judged' /\ FailedRows' /\ FirstPass'
  <2>1. Judged'
    BY <1>1, <1>5, <1>6 DEF Judged
  <2>2. FailedRows'
    BY <1>1, <1>5, <1>6 DEF FailedRows
  <2> QED
    BY <1>1, <2>1, <2>2 DEF FirstPass
<1>9. SecondPass'
  BY <1>1, <1>2, <1>4, <1>5, <1>6 DEF SecondPass, Execute
<1>10. Descending'
  <2>1. \A i, j \in DOMAIN now : i < j =>
          scan.assessed[now[i]].total >= scan.assessed[now[j]].total
    <3> SUFFICES ASSUME NEW i \in DOMAIN now, NEW j \in DOMAIN now, i < j
                 PROVE  scan.assessed[now[i]].total >= scan.assessed[now[j]].total
      OBVIOUS
    <3>1. i \in 1..n /\ now[i] = scan.opened[i] /\ now[i] \in Range(scan.opened)
      <4>1. i \in 1..n
        BY <1>3
      <4> QED
        BY <1>3, <4>1 DEF Range
    <3>2. CASE j \in 1..n
      BY <1>1, <1>3, <1>6, <3>1, <3>2 DEF Descending, Score1
    <3>3. CASE j = n + 1
      BY <1>2, <1>3, <3>1, <3>3 DEF Score1
    <3> QED
      BY <1>3, <3>2, <3>3
  <2>2. \A k \in Range(now), j \in left :
          scan.assessed[k].total >= scan.assessed[j].total
    BY <1>1, <1>2, <1>4, <1>6 DEF Descending, Score1
  <2>3. \A i \in DOMAIN scan.assessed : scan.assessed[i].blocked_by # "MAX_OPEN"
    BY <1>1, <1>6 DEF Descending
  <2> QED
    BY <1>5, <2>1, <2>2, <2>3 DEF Descending, Score1
<1> QED
  BY <1>1, <1>5, <1>7, <1>8, <1>9, <1>10 DEF ScanInv

(* Recording adds the rows of the assessed and closes the scan.              *)
Recorded == {Row(scan.assessed[i]) : i \in DOMAIN scan.assessed}

(* The results are recorded. *)
LEMMA RecordStep ==
  ASSUME ScanInv, Record
  PROVE  ScanInv'
<1> DEFINE status == IF scan.failed = 0 THEN "OK"
                     ELSE IF scan.ok > 0 THEN "PARTIAL" ELSE "ABORTED"
           now == scan.rows \cup Recorded
<1>1. /\ at = "open" /\ at' = "done" /\ scan.ranked = {}
      /\ weights' = weights /\ dry_run' = dry_run /\ day' = day
      /\ scan' = [scan EXCEPT !.rows = now, !.status = status]
  BY DEF Record, Recorded
<1>2. /\ scan \in ScanRecord /\ Accounted /\ Judged /\ SecondPass /\ Descending
  BY <1>1 DEF ScanInv
<1>3. now \subseteq ResultRow
  <2>1. \A i \in DOMAIN scan.assessed : scan.assessed[i] \in Assessment
    BY <1>2, LenProperties DEF ScanRecord
  <2>2. \A i \in DOMAIN scan.assessed : Row(scan.assessed[i]) \in ResultRow
    BY <2>1 DEF Row, ResultRow, Assessment
  <2>3. scan.rows \subseteq ResultRow
    BY <1>2 DEF ScanRecord
  <2> QED
    BY <2>2, <2>3 DEF Recorded
<1>4. status \in {"RUNNING", "OK", "PARTIAL", "ABORTED"}
  OBVIOUS
<1> HIDE DEF status
<1>5. /\ scan' \in ScanRecord
      /\ scan'.market = scan.market /\ scan'.todo = scan.todo
      /\ scan'.assessed = scan.assessed /\ scan'.ranked = scan.ranked
      /\ scan'.ok = scan.ok /\ scan'.failed = scan.failed
      /\ scan'.opened = scan.opened /\ scan'.rows = now
  <2> HIDE DEF now
  <2> QED
    BY <1>1, <1>2, <1>3, <1>4 DEF ScanRecord
<1>6. {r.symbol : r \in now} = {r.symbol : r \in scan.rows}
                                 \cup {scan.assessed[i].symbol : i \in DOMAIN scan.assessed}
  <2>1. \A i \in DOMAIN scan.assessed : Row(scan.assessed[i]).symbol = scan.assessed[i].symbol
    BY DEF Row
  <2> QED
    BY <2>1 DEF Recorded
<1> HIDE DEF now
<1>7. Accounted'
  <2>1. Range(scan.todo) \cup {scan.assessed[i].symbol : i \in DOMAIN scan.assessed}
          \cup {r.symbol : r \in now} = Range(universe(scan.market))
    BY <1>2, <1>6 DEF Accounted
  <2> QED
    BY <1>2, <1>5, <2>1 DEF Accounted
<1>8. Judged' /\ FailedRows' /\ FirstPass'
  BY <1>1, <1>2, <1>5 DEF Judged, FailedRows, FirstPass
<1>9. SecondPass'
  BY <1>1, <1>2, <1>5 DEF SecondPass, Execute
<1>10. Descending'
  BY <1>1, <1>2, <1>5 DEF Descending, Score1
<1> QED
  BY <1>1, <1>5, <1>7, <1>8, <1>9, <1>10 DEF ScanInv

(* Nothing else touches the scan, and in the second pass the book only       *)
(* changes by what the pass opens.                                           *)
LEMMA ScanHolds ==
  ASSUME ScanInv, BookRow, [Next]_vars
  PROVE  ScanInv'
<1>1. CASE \E m \in Markets : Begin(m)
  BY <1>1, BeginStep
<1>2. CASE BuildContext
  BY <1>2, ContextStep
<1>3. CASE Assess
  BY <1>3, AssessStep
<1>4. CASE Rank
  BY <1>4, RankStep
<1>5. CASE Refuse
  BY <1>5, RefuseStep
<1>6. CASE DryRun
  BY <1>6, DryRunStep
<1>7. CASE Open
  BY <1>7, OpenScan
<1>8. CASE Record
  BY <1>8, RecordStep
<1>9. CASE Return \/ Stop
  BY <1>9 DEF Return, Stop, ScanInv
<1>10. CASE \/ \E p \in book.open : Close(p) \/ \E m \in Marks : Mark(p, m)
            \/ Halt
  <2>1. /\ at = "idle" /\ at' = "idle" /\ scan' = scan /\ weights' = weights
        /\ dry_run' = dry_run /\ day' = day
    BY <1>10 DEF Close, Mark, Halt, Managing
  <2> QED
    BY <2>1 DEF ScanInv
<1>11. CASE \/ \E u \in book.cooling : CooldownEnds(u)
            \/ Midnight \/ UNCHANGED vars
  <2>1. at' = at /\ scan' = scan /\ weights' = weights /\ dry_run' = dry_run
    BY <1>11 DEF CooldownEnds, Midnight, vars
  <2>2. book'.open = book.open /\ day' \in Nat
    <3>1. \A c, t, r : /\ [book EXCEPT !.cooling = c].open = book.open
                       /\ [book EXCEPT !.today = t, !.realized = r].open = book.open
      BY DEF BookRow
    <3>2. day \in Nat
      BY DEF ScanInv
    <3>3. \/ UNCHANGED <<book, day>>
          \/ \E c : day' = day /\ book' = [book EXCEPT !.cooling = c]
          \/ day' = day + 1 /\ book' = [book EXCEPT !.today = 0, !.realized = 0]
      BY <1>11 DEF CooldownEnds, Midnight, vars
    <3>4. CASE UNCHANGED <<book, day>>
      BY <3>2, <3>4
    <3>5. CASE \E c : day' = day /\ book' = [book EXCEPT !.cooling = c]
      BY <3>1, <3>2, <3>5
    <3>6. CASE day' = day + 1 /\ book' = [book EXCEPT !.today = 0, !.realized = 0]
      <4>1. [book EXCEPT !.today = 0, !.realized = 0].open = book.open
        BY <3>1
      <4> QED
        BY <3>2, <3>6, <4>1
    <3> QED
      BY <3>3, <3>4, <3>5, <3>6
  <2>3. BookFull' = BookFull
    BY <2>2 DEF BookFull
  <2>4. CASE at = "idle"
    BY <2>1, <2>2, <2>4 DEF ScanInv
  <2>5. CASE at # "idle"
    <3>1. Accounted' /\ Judged' /\ FailedRows' /\ FirstPass' /\ SecondPass'
      <4>1. Accounted /\ Judged /\ FailedRows /\ FirstPass /\ SecondPass
        BY <2>5 DEF ScanInv
      <4>2. Accounted' /\ Judged'
        BY <2>1, <4>1 DEF Accounted, Judged
      <4>3. FailedRows' /\ FirstPass' /\ SecondPass'
        BY <2>1, <4>1 DEF FailedRows, FirstPass, SecondPass, Execute
      <4> QED
        BY <4>2, <4>3
    <3>2. Descending'
      <4>1. Descending
        BY <2>5 DEF ScanInv
      <4> QED
        BY <2>1, <2>3, <4>1 DEF Descending, Score1
    <3> QED
      BY <2>1, <2>2, <2>5, <3>1, <3>2 DEF ScanInv
  <2> QED
    BY <2>4, <2>5
<1> QED
  BY <1>1, <1>2, <1>3, <1>4, <1>5, <1>6, <1>7, <1>8, <1>9, <1>10, <1>11 DEF Next

-----------------------------------------------------------------------------
(* The money, step by step. *)

(* The position an opening adds, with what it costs.                         *)
Opened ==
  [key |-> Entry(Candidate).key, market |-> scan.market,
   underlying |-> Candidate.symbol,
   cost |-> Quantity + slippage(scan.market, Quantity),
   value |-> Quantity + slippage(scan.market, Quantity),
   at_stop |-> LossAtStop(Candidate, Quantity)]

(* An opening adds one position and takes its cost and fees from the cash. *)
LEMMA OpenedAtCost ==
  ASSUME BookRow, Open
  PROVE  /\ book'.open = book.open \cup {Opened}
         /\ book'.keys = book.keys \cup {Opened.key}
         /\ book'.cash = book.cash - Opened.cost - _fees_for(Entry(Candidate), Opened.cost)
         /\ book'.realized = book.realized
<1> DEFINE e == Entry(Candidate)
           gross == Quantity + slippage(scan.market, Quantity)
           o == book.open \cup {Opened}
           k == book.keys \cup {Opened.key}
           c == book.cash - gross - _fees_for(e, gross)
<1>1. e.market = scan.market /\ Opened.key = e.key /\ Opened.cost = gross
  BY DEF Entry, Opened
<1>2. book' = [book EXCEPT !.open = o, !.keys = k, !.today = @ + 1, !.cash = c]
  BY <1>1 DEF Open, Opened
<1> HIDE DEF o, k, c, e, gross
<1>3. book'.open = o /\ book'.keys = k /\ book'.cash = c /\ book'.realized = book.realized
  BY <1>2 DEF BookRow
<1> QED
  BY <1>1, <1>3 DEF o, k, c, e

(* An entry the gates let pass is paid from the cash, and what is paid for   *)
(* the position itself is what the sizing allowed.                           *)
LEMMA PaidEntry ==
  ASSUME ScanInv, MoneyIsWhole(book), Open
  PROVE  /\ PricedEntry(Entry(Candidate)) /\ Entry(Candidate).price > 0
         /\ scan.market \in Markets
         /\ Quantity \in Int /\ Quantity > 0
         /\ Quantity <= budget(book, Entry(Candidate))
         /\ PricedPosition(Opened)
         /\ Opened.cost = Quantity + slippage(scan.market, Quantity)
<1> DEFINE e == Entry(Candidate)
           n == budget(book, e)
<1>1. /\ at = "open" /\ scan.ranked # {} /\ Decision.allowed /\ Quantity > 0
  BY DEF Open, Allowed
<1>2. scan \in ScanRecord /\ Candidate \in Assessment
  BY <1>1, NextCandidate
<1>3. scan.market \in Markets /\ Candidate.price \in Int /\ Candidate.scalp \in Int
  BY <1>2 DEF ScanRecord, Assessment
<1>4. e.price = Candidate.price /\ e.market = scan.market
  BY DEF Entry
<1>5. PricedEntry(e)
  BY <1>3, <1>4 DEF PricedEntry
<1> HIDE DEF e
<1>6. n \in Int
  BY <1>5, BudgetFits
<1>7. Quantity = size_position(e, n)
  BY DEF Quantity, Decision, check, RiskDecision, e
<1> HIDE DEF n
<1>8. Quantity \in Int /\ Quantity <= n /\ e.price > 0
  BY <1>1, <1>5, <1>6, <1>7, SizeFits
<1>9. LossAtStop(Candidate, Quantity) \in Int /\ LossAtStop(Candidate, Quantity) >= 0
  BY <1>1, <1>3, <1>4, <1>8, StopLosesMoney
<1>10. slippage(scan.market, Quantity) \in Int /\ 0 <= slippage(scan.market, Quantity)
  BY <1>1, <1>3, <1>8, SlippageGrows
<1>11. /\ Opened.market = scan.market
       /\ Opened.cost = Quantity + slippage(scan.market, Quantity)
       /\ Opened.value = Quantity + slippage(scan.market, Quantity)
       /\ Opened.at_stop = LossAtStop(Candidate, Quantity)
  BY DEF Opened
<1>12. PricedPosition(Opened)
  BY <1>1, <1>3, <1>8, <1>9, <1>10, <1>11 DEF PricedPosition
<1> QED
  BY <1>1, <1>3, <1>5, <1>8, <1>11, <1>12 DEF e, n

(* An opening leaves whole amounts. *)
LEMMA OpenKeepsMoney ==
  ASSUME ScanInv, BookInv, MoneyIsWhole(book), Open
  PROVE  MoneyIsWhole(book')
<1>1. /\ book'.open = book.open \cup {Opened}
      /\ book'.cash = book.cash - Opened.cost - _fees_for(Entry(Candidate), Opened.cost)
      /\ book'.realized = book.realized
  BY OpenedAtCost DEF BookInv
<1>2. PricedPosition(Opened) /\ PricedEntry(Entry(Candidate)) /\ Entry(Candidate).price > 0
  BY PaidEntry
<1>3. Opened.cost \in Int /\ Opened.cost > 0
  BY <1>2 DEF PricedPosition
<1>4. _fees_for(Entry(Candidate), Opened.cost) \in Int
  BY <1>2, <1>3, FeesAreFees
<1>5. IsFiniteSet(book.open \cup {Opened})
  BY FS_AddElement DEF MoneyIsWhole
<1> QED
  BY <1>1, <1>2, <1>3, <1>4, <1>5 DEF MoneyIsWhole

(* So does every other step. *)
LEMMA OthersKeepMoney ==
  ASSUME BookInv, MoneyIsWhole(book), [Next]_vars, ~Open
  PROVE  MoneyIsWhole(book')
<1> USE DEF MoneyIsWhole
<1>1. CASE book' = book
  BY <1>1
<1>2. ASSUME NEW p \in book.open, Close(p)
      PROVE  MoneyIsWhole(book')
  <2>1. /\ book'.open = book.open \ {p} /\ book'.realized = book.realized + p.value - p.cost
        /\ book'.cash = book.cash + p.value
    <3> DEFINE o == book.open \ {p}
               c == book.cooling \cup {p.underlying}
               r == book.realized + p.value - p.cost
               m == book.cash + p.value
    <3>1. book' = [book EXCEPT !.open = o, !.cooling = c, !.realized = r, !.cash = m]
      BY <1>2 DEF Close
    <3> HIDE DEF o, c, r, m
    <3>2. book'.open = o /\ book'.realized = r /\ book'.cash = m
      BY <3>1 DEF BookInv, BookRow
    <3> QED
      BY <3>2 DEF o, r, m
  <2>2. p.value \in Int /\ p.cost \in Int
    BY DEF PricedPosition
  <2>3. IsFiniteSet(book.open \ {p})
    BY FS_Subset
  <2> QED
    BY <2>1, <2>2, <2>3
<1>3. ASSUME NEW p \in book.open, NEW m \in Marks, Mark(p, m)
      PROVE  MoneyIsWhole(book')
  <2> DEFINE v == (p.cost * m) \div 100
             marked == [p EXCEPT !.value = v]
             o == (book.open \ {p}) \cup {marked}
  <2>1. p.cost \in Int /\ m \in Int
    BY ScannerAssumption DEF PricedPosition
  <2>2. v \in Int
    BY <2>1
  <2> HIDE DEF v
  <2>3. PricedPosition(marked)
    <3>1. /\ PricedPosition(p) /\ PositionRow(p)
      BY DEF BookInv
    <3> HIDE DEF marked
    <3>2. marked = [p EXCEPT !.value = v]
      BY DEF marked
    <3>3. marked.market = p.market /\ marked.cost = p.cost /\ marked.value = v
          /\ marked.at_stop = p.at_stop
      BY <3>1, <3>2 DEF PositionRow
    <3> QED
      BY <2>2, <3>1, <3>3 DEF PricedPosition
  <2>4. IsFiniteSet(o)
    BY OneMore
  <2>5. book' = [book EXCEPT !.open = o]
    BY <1>3 DEF Mark, v
  <2> HIDE DEF marked, o
  <2>6. book'.open = o /\ book'.cash = book.cash /\ book'.realized = book.realized
    BY <2>5 DEF BookInv, BookRow
  <2> QED
    BY <2>3, <2>4, <2>6 DEF o
<1>4. CASE (\E u \in book.cooling : CooldownEnds(u)) \/ Halt
  <2>1. (\E c : book' = [book EXCEPT !.cooling = c]) \/ \E h : book' = [book EXCEPT !.halted = h]
    BY <1>4 DEF CooldownEnds, Halt
  <2>2. \A c, h : /\ [book EXCEPT !.cooling = c].open = book.open
                  /\ [book EXCEPT !.cooling = c].cash = book.cash
                  /\ [book EXCEPT !.cooling = c].realized = book.realized
                  /\ [book EXCEPT !.halted = h].open = book.open
                  /\ [book EXCEPT !.halted = h].cash = book.cash
                  /\ [book EXCEPT !.halted = h].realized = book.realized
    BY DEF BookInv, BookRow
  <2>3. book'.open = book.open /\ book'.cash = book.cash /\ book'.realized = book.realized
    BY <2>1, <2>2
  <2> QED
    BY <2>3
<1>5. CASE Midnight
  <2>1. book' = [book EXCEPT !.today = 0, !.realized = 0]
    BY <1>5 DEF Midnight
  <2>2. book'.open = book.open /\ book'.cash = book.cash /\ book'.realized = 0
    BY <2>1 DEF BookInv, BookRow
  <2> QED
    BY <2>2
<1>6. CASE \/ \E market \in Markets : Begin(market)
           \/ BuildContext \/ Assess \/ Rank \/ Refuse \/ DryRun
           \/ Record \/ Return \/ Stop \/ UNCHANGED vars
  <2>1. UNCHANGED book
    BY <1>6 DEF Begin, BuildContext, Assess, Rank, Refuse, DryRun, Record,
                Return, Stop, vars
  <2> QED
    BY <1>1, <2>1
<1> QED
  BY <1>2, <1>3, <1>4, <1>5, <1>6 DEF Next
(* The gates on money that an entry passed.                                  *)
LEMMA NoMoneyGateRefuses ==
  ASSUME NEW b, NEW e, check(b, e).allowed
  PROVE  settings.daily_loss_limit_pct > 0 =>
           ~(day_pnl(b) <= -bp(settings.starting_capital, settings.daily_loss_limit_pct))
<1> DEFINE gates == Gates(b, e)
           limit == -bp(settings.starting_capital, settings.daily_loss_limit_pct)
           refuses == settings.daily_loss_limit_pct > 0 /\ day_pnl(b) <= limit
<1>1. gates[8] = <<"DAILY_LOSS_LIMIT", refuses>>
  BY DEF Gates
<1>2. 8 \in DOMAIN gates
  BY DEF Gates
<1>3. Refusing(gates) = {}
  BY DEF check, RiskDecision
<1> HIDE DEF gates
<1>4. ~gates[8][2]
  BY <1>2, <1>3 DEF Refusing
<1>5. \A name, r, gate : gate = <<name, r>> /\ ~gate[2] => ~r
  OBVIOUS
<1> HIDE DEF refuses
<1>6. ~refuses
  BY <1>1, <1>4, <1>5
<1> QED
  BY <1>6 DEF refuses

(* The profit of the day is a whole number. *)
LEMMA DayIsWhole ==
  ASSUME NEW b, MoneyIsWhole(b)
  PROVE  day_pnl(b) \in Int
<1> DEFINE f == [p \in b.open |-> p.value - p.cost]
<1>1. \A p \in b.open : f[p] \in Int
  BY DEF MoneyIsWhole, PricedPosition
<1>2. IsFiniteSet(b.open) /\ b.realized \in Int
  BY DEF MoneyIsWhole
<1>3. day_pnl(b) = b.realized + SumFunctionOnSet(f, b.open)
  BY DEF day_pnl, SumFunction
<1> HIDE DEF f
<1> QED
  BY <1>1, <1>2, <1>3, SumOfOneMore

(* The one entry of an opening, against every limit on money.                *)
LEMMA OpenWithinMoney ==
  ASSUME ScanInv, BookInv, MoneyIsWhole(book), Open,
         NEW p \in book'.open, p.key \notin book.keys
  PROVE  LET extra == slippage(p.market, p.cost) + _fees_for(Entry(Candidate), p.cost)
         IN  /\ settings.daily_loss_limit_pct > 0 =>
                   day_pnl(book) > -bp(settings.starting_capital,
                                       settings.daily_loss_limit_pct)
             /\ book'.cash >= -extra
             /\ p.market = "CRYPTO_SPOT" =>
                   crypto_open_notional(book') <= settings.crypto_max_exposure + extra
             /\ p.market = "EQUITY_SHARE" =>
                   settings.max_open_positions * (p.cost - extra)
                     <= account_equity(book)
<1> DEFINE e == Entry(Candidate)
           n == Quantity
           slip == slippage(p.market, n)
           more == slippage(p.market, p.cost)
           fees == _fees_for(e, p.cost)
           extra == more + fees
           equity == account_equity(book)
           slots == settings.max_open_positions
           held == crypto_open_notional(book)
<1>1. /\ PricedEntry(e) /\ e.price > 0 /\ scan.market \in Markets
      /\ n \in Int /\ n > 0 /\ n <= budget(book, e)
      /\ PricedPosition(Opened) /\ Opened.cost = n + slippage(scan.market, n)
  BY PaidEntry
<1>2. /\ book'.open = book.open \cup {Opened}
      /\ book'.cash = book.cash - Opened.cost - _fees_for(e, Opened.cost)
  BY OpenedAtCost DEF BookInv
<1>3. p = Opened /\ p \notin book.open
  BY <1>2 DEF BookInv
<1>4. p.market = scan.market /\ e.market = scan.market /\ p.value = p.cost
  BY <1>3 DEF Opened, Entry
<1> HIDE DEF e, n, slip, more, fees, equity, slots, held
<1>5. p.cost \in Int /\ p.cost > 0 /\ p.cost = n + slip
  BY <1>1, <1>3, <1>4 DEF PricedPosition, slip
<1>6. slip \in Int /\ 0 <= slip
  BY <1>1, <1>4, SlippageGrows DEF slip
<1>7. slip <= more /\ more \in Int
  <2>1. n \in Int /\ p.cost \in Int /\ 0 <= n /\ n <= p.cost /\ p.market \in Markets
    BY <1>1, <1>4, <1>5, <1>6
  <2> QED
    BY <2>1, SlippageGrows DEF slip, more
<1>8. fees \in Int /\ 0 <= fees
  <2>1. 0 <= p.cost
    BY <1>5
  <2> QED
    BY <1>1, <1>5, <2>1, FeesAreFees DEF fees
<1>9. /\ budget(book, e) \in Int /\ budget(book, e) <= book.cash
      /\ e.market = "EQUITY_SHARE" => budget(book, e) <= equity \div slots
      /\ e.market = "CRYPTO_SPOT" => budget(book, e) <= headroom(book)
  BY <1>1, BudgetFits DEF equity, slots
<1>10. book.cash \in Int /\ equity \in Int /\ held \in Int
  BY EquityIsWhole DEF MoneyIsWhole, equity, held
<1>11. book'.cash >= -extra
  <2>1. book'.cash = book.cash - p.cost - fees
    BY <1>2, <1>3 DEF fees
  <2>2. n <= book.cash
    BY <1>1, <1>9, <1>10
  <2> QED
    BY <1>1, <1>5, <1>6, <1>7, <1>8, <1>10, <2>1, <2>2
<1>12. ASSUME p.market = "CRYPTO_SPOT"
       PROVE  crypto_open_notional(book') <= settings.crypto_max_exposure + extra
  <2>1. settings.crypto_max_exposure \in Int
    BY LimitsAssumption
  <2>2. headroom(book) = IF 0 >= settings.crypto_max_exposure - held
                         THEN 0 ELSE settings.crypto_max_exposure - held
    <3>1. settings.crypto_max_exposure - held \in Int /\ 0 \in Int
      BY <1>10, <2>1
    <3> QED
      BY <3>1, GreaterOfTwo DEF headroom, held
  <2>3. n <= headroom(book)
    <3>1. headroom(book) \in Int
      BY <1>10, <2>1, <2>2
    <3> QED
      BY <1>1, <1>4, <1>9, <1>12, <3>1
  <2>4. held + n <= settings.crypto_max_exposure
    BY <1>1, <1>10, <2>1, <2>2, <2>3
  <2>5. crypto_open_notional(book') = held + p.value
    <3>1. MoneyIsWhole(book')
      BY OpenKeepsMoney
    <3>2. p \notin book.open /\ book'.open = book.open \cup {p} /\ p.market \in {"CRYPTO_SPOT"}
      BY <1>2, <1>3, <1>12
    <3>3. open_market_value(book', {"CRYPTO_SPOT"})
            = open_market_value(book, {"CRYPTO_SPOT"}) + p.value
      BY <3>1, <3>2, ValueOfOneMore
    <3> QED
      BY <3>3 DEF crypto_open_notional, held
  <2>6. crypto_open_notional(book') = held + n + slip
    BY <1>1, <1>4, <1>5, <1>6, <1>10, <2>5
  <2> QED
    BY <1>1, <1>6, <1>7, <1>8, <1>10, <2>1, <2>4, <2>6
<1>13. ASSUME p.market = "EQUITY_SHARE"
       PROVE  slots * (p.cost - extra) <= equity
  <2>1. slots \in Int /\ slots > 0
    BY LimitsAssumption, SettingsAssumption DEF validate, slots
  <2>2. \A x, y, u \in Int : u > 0 /\ y <= x \div u => u * y <= x
    OBVIOUS
  <2>3. p.cost - extra \in Int /\ p.cost - extra <= n
    BY <1>1, <1>5, <1>6, <1>7, <1>8
  <2>4. n <= equity \div slots
    <3>1. equity \div slots \in Int
      BY <1>10, <2>1
    <3> QED
      BY <1>1, <1>4, <1>9, <1>13, <3>1
  <2> DEFINE y == p.cost - extra
             q == equity \div slots
  <2>5. q \in Int /\ y \in Int /\ y <= q
    <3>1. q \in Int
      BY <1>10, <2>1
    <3> HIDE DEF q
    <3>2. n <= q
      BY <2>4 DEF q
    <3> QED
      BY <1>1, <2>3, <3>1, <3>2
  <2> HIDE DEF y
  <2>6. slots * y <= equity
    BY <1>10, <2>1, <2>2, <2>5
  <2> QED
    BY <2>6 DEF y
<1>14. settings.daily_loss_limit_pct > 0 =>
          day_pnl(book) > -bp(settings.starting_capital, settings.daily_loss_limit_pct)
  <2>1. check(book, e).allowed
    BY DEF Open, Allowed, Decision, e
  <2>2. day_pnl(book) \in Int
    BY DayIsWhole
  <2>3. bp(settings.starting_capital, settings.daily_loss_limit_pct) \in Int
    <3>1. settings.starting_capital \in Int /\ settings.daily_loss_limit_pct \in Int
      BY LimitsAssumption
    <3>2. settings.starting_capital * settings.daily_loss_limit_pct \in Int
      BY <3>1
    <3> QED
      BY <3>2 DEF bp
  <2>4. settings.daily_loss_limit_pct > 0 =>
          ~(day_pnl(book) <= -bp(settings.starting_capital, settings.daily_loss_limit_pct))
    BY <2>1, NoMoneyGateRefuses
  <2> HIDE DEF e
  <2> QED
    BY <2>2, <2>3, <2>4
<1> QED
  BY <1>11, <1>12, <1>13, <1>14 DEF more, fees, e, slots, equity

-----------------------------------------------------------------------------
(* The theorems. *)

(* The scan, the book and the money together are kept by every step.         *)
DeskInv ==
  /\ ScanInv /\ BookInv /\ MoneyIsWhole(book)
  /\ scans \in 0..MaxScans /\ day \in 1..MaxDays /\ moves \in 0..MaxMoves

(* The invariant holds at the start. *)
LEMMA DeskStarts == Init => DeskInv
<1> SUFFICES ASSUME Init PROVE DeskInv
  OBVIOUS
<1>1. BookInv
  BY FS_EmptySet DEF Init, BookInv, BookRow
<1>2. MoneyIsWhole(book)
  <2>1. settings.starting_capital \in Int
    BY LimitsAssumption
  <2>2. book.open = {} /\ book.cash = settings.starting_capital /\ book.realized = 0
    BY DEF Init
  <2> QED
    BY <2>1, <2>2, FS_EmptySet DEF MoneyIsWhole
<1>3. ScanInv
  BY DEF Init, ScanInv
<1>4. scans \in 0..MaxScans /\ day \in 1..MaxDays /\ moves \in 0..MaxMoves
  BY ScannerAssumption DEF Init
<1> QED
  BY <1>1, <1>2, <1>3, <1>4 DEF DeskInv

(* Every step keeps the invariant. *)
LEMMA DeskHolds == DeskInv /\ [Next]_vars => DeskInv'
<1> SUFFICES ASSUME DeskInv, [Next]_vars PROVE DeskInv'
  OBVIOUS
<1>1. ScanInv /\ BookInv /\ MoneyIsWhole(book) /\ BookRow
  BY DEF DeskInv, BookInv
<1>2. ScanInv'
  BY <1>1, ScanHolds
<1>3. BookInv' /\ MoneyIsWhole(book')
  <2>1. CASE Open
    BY <1>1, <2>1, OpenStep, OpenKeepsMoney
  <2>2. CASE ~Open
    BY <1>1, <2>2, OtherSteps, OthersKeepMoney
  <2> QED
    BY <2>1, <2>2
<1>4. scans' \in 0..MaxScans /\ day' \in 1..MaxDays /\ moves' \in 0..MaxMoves
  <2>1. /\ scans \in 0..MaxScans /\ day \in 1..MaxDays /\ moves \in 0..MaxMoves
        /\ MaxScans \in Int /\ MaxDays \in Int /\ MaxMoves \in Int
    BY ScannerAssumption DEF DeskInv
  <2>2. CASE \E market \in Markets : Begin(market)
    BY <2>1, <2>2 DEF Begin
  <2>3. CASE (\E p \in book.open : Close(p) \/ \E m \in Marks : Mark(p, m)) \/ Halt
    <3>1. Managing /\ UNCHANGED <<scans, day>>
      BY <2>3 DEF Close, Mark, Halt
    <3> QED
      BY <2>1, <3>1 DEF Managing
  <2>4. CASE Midnight
    BY <2>1, <2>4 DEF Midnight
  <2>5. CASE \/ BuildContext \/ Assess \/ Rank \/ Refuse \/ DryRun \/ Open
             \/ Record \/ Return \/ Stop \/ UNCHANGED vars
             \/ \E u \in book.cooling : CooldownEnds(u)
    <3>1. UNCHANGED <<scans, day, moves>>
      BY <2>5 DEF BuildContext, Assess, Rank, Refuse, DryRun, Open, Record, Return,
                  Stop, CooldownEnds, vars
    <3> QED
      BY <2>1, <3>1
  <2> QED
    BY <2>2, <2>3, <2>4, <2>5 DEF Next
<1> QED
  BY <1>2, <1>3, <1>4 DEF DeskInv

(* Types: a scan under way is one of the shapes a scan has, every total a    *)
(* score if no weight is negative, every position paid and with a key on     *)
(* record.                                                                   *)
THEOREM DeskTypeCorrect == Spec => []TypeOK
<1>1. DeskInv => TypeOK
  <2> SUFFICES ASSUME DeskInv PROVE TypeOK
    OBVIOUS
  <2>1. ScanInv /\ BookInv /\ MoneyIsWhole(book)
    BY DEF DeskInv
  <2>2. scans \in 0..MaxScans /\ day \in 1..MaxDays /\ moves \in 0..MaxMoves
    BY DEF DeskInv
  <2>3. \A p \in book.open : p.key \in book.keys /\ p.cost > 0 /\ p.at_stop >= 0
    BY <2>1 DEF BookInv, MoneyIsWhole, PricedPosition
  <2>4. at \in {"idle", "context", "assess", "open", "done"} /\ dry_run \in BOOLEAN
    BY <2>1 DEF ScanInv
  <2>5. CASE at = "idle"
    BY <2>1, <2>2, <2>3, <2>4, <2>5 DEF ScanInv, TypeOK
  <2>6. CASE at # "idle"
    <3>1. scan \in ScanRecord /\ Judged
      BY <2>1, <2>6 DEF ScanInv
    <3>2. scan.market \in Markets /\ scan.status \in {"RUNNING", "OK", "PARTIAL", "ABORTED"}
          /\ scan.assessed \in Seq(Assessment)
      BY <3>1 DEF ScanRecord
    <3>3. scan # NoScan
      BY <3>2 DEF NoScan
    <3>4. \A a \in Results : a.verdict \in {"EXECUTE", "PASS", "BLOCKED", "ERROR"}
      <4> SUFFICES ASSUME NEW i \in DOMAIN scan.assessed
                   PROVE  scan.assessed[i].verdict \in {"EXECUTE", "PASS", "BLOCKED", "ERROR"}
        BY DEF Results
      <4>1. scan.assessed[i] \in Assessment
        BY <3>2, LenProperties
      <4> QED
        BY <4>1 DEF Assessment, Verdicts
    <3>5. \A a \in Results : NonNegative(weights) => a.total \in Hundredths
      <4> SUFFICES ASSUME NonNegative(weights), NEW i \in DOMAIN scan.assessed
                   PROVE  scan.assessed[i].total \in Hundredths
        BY Zenon DEF Results
      <4>1. Fair(scan.assessed[i].total, weights)
        BY <3>1, Zenon DEF Judged
      <4> QED
        BY <4>1, Zenon DEF Fair
    <3>6. /\ scan.market \in Markets
          /\ scan.status \in {"RUNNING", "OK", "PARTIAL", "ABORTED"}
          /\ \A a \in Results :
               /\ a.verdict \in {"EXECUTE", "PASS", "BLOCKED", "ERROR"}
               /\ NonNegative(weights) => a.total \in Hundredths
      BY <3>2, <3>4, <3>5, Zenon
    <3>7. at = "idle" <=> scan = NoScan
      BY <2>6, <3>3
    <3> QED
      BY <2>2, <2>3, <2>4, <2>6, <3>6, <3>7, Zenon DEF TypeOK
  <2> QED
    BY <2>5, <2>6
<1> QED
  BY <1>1, DeskStarts, DeskHolds, PTL DEF Spec

(* Best of N: however the feed scores them, the positions of a scan are      *)
(* opened best first, and the limit on positions stops none that is better   *)
(* than one it let through.                                                  *)
THEOREM BestComeFirst == Spec => []BestFirst
<1>1. DeskInv => BestFirst
  <2> SUFFICES ASSUME DeskInv, at = "done" PROVE BestFirst
    BY DEF BestFirst
  <2>1. Descending
    BY DEF DeskInv, ScanInv
  <2>2. \A a \in Results : \E i \in DOMAIN scan.assessed : a = scan.assessed[i]
    BY DEF Results
  <2> QED
    BY <2>1, <2>2 DEF BestFirst, Descending, Score1
<1> QED
  BY <1>1, DeskStarts, DeskHolds, PTL DEF Spec

(* The chain that is not fetched held no candidate, whatever its contracts:  *)
(* with weights that are not negative, no liquidity lifts the total over     *)
(* what a perfect one would make of it.                                      *)
THEOREM BoundHolds == Spec => []BoundIsExact
<1>1. DeskInv => BoundIsExact
  <2> SUFFICES ASSUME DeskInv, at = "assess", scan.market = "EQUITY_OPTION",
                      NonNegative(weights),
                      NEW v \in Views, v.quote # {}, Enough(v.bars, periods.history),
                      ~_chain_worth_fetching(OptionPillars(v, scan.context).technical,
                                             OptionPillars(v, scan.context).sentiment,
                                             load_weights(weights)),
                      NEW q \in UNION v.chain
               PROVE  ~meets_threshold(OptionCard(score_option_liquidity(q),
                                                  OptionPillars(v, scan.context),
                                                  load_weights(weights)),
                                       settings.execute_threshold)
    BY DEF BoundIsExact
  <2> DEFINE p == OptionPillars(v, scan.context)
             l == score_option_liquidity(q)
             reached == total(compose(l, p.technical, p.sentiment, load_weights(weights)))
             bound == total(compose(100, p.technical, p.sentiment, load_weights(weights)))
             least == 100 * settings.execute_threshold
  <2>1. weights \in StoredWeights /\ TypedContext(scan.context)
    <3>1. weights \in Weights /\ scan \in ScanRecord
      BY DEF DeskInv, ScanInv
    <3>2. scan.context \in Contexts \cup {NoContext}
      BY <3>1 DEF ScanRecord
    <3> QED
      BY <3>1, <3>2, ScannerAssumption, ContextsAreTyped DEF StoredWeights
  <2>2. Enough(v.bars, 1)
    <3>1. Len(v.bars) \in Nat /\ periods.history \in Nat \ {0}
      BY FeedAssumption, ScoringAssumption, LenProperties
    <3> QED
      BY <3>1 DEF Enough
  <2>3. p.technical \in Score /\ p.sentiment \in Score
    BY <2>1, <2>2, PillarsAreScores
  <2>4. l \in Score
    <3>1. {q.spread, q.volume, q.open_interest} \subseteq Int
      BY ViewsAreTyped DEF TypedContract
    <3> QED
      BY <3>1, OptionLiquidityIsScore
  <2>5. ~(bound >= least)
    BY DEF _chain_worth_fetching, meets_threshold
  <2>6. meets_threshold(OptionCard(l, p, load_weights(weights)), settings.execute_threshold)
          <=> reached >= least
    BY DEF meets_threshold, OptionCard
  <2> HIDE DEF p, l
  <2>7. 100 \in Score
    BY DEF Score
  <2>8. Fair(reached, weights) /\ Fair(bound, weights) /\ reached <= bound
    BY <2>1, <2>3, <2>4, <2>7, TotalOf
  <2>9. least \in Int
    BY ScoringAssumption
  <2> HIDE DEF reached, bound, least
  <2>10. ~(reached >= least)
    BY <2>5, <2>8, <2>9 DEF Fair
  <2> QED
    BY <2>6, <2>10 DEF l, p
<1> QED
  BY <1>1, DeskStarts, DeskHolds, PTL DEF Spec

(* However many candidates, scans, closes and midnights lie before it, an    *)
(* entry is made after no day's loss past the limit, out of the cash, under  *)
(* the ceiling on crypto and within a slot of the equity, but for the        *)
(* slippage and the fees added after the sizing.                             *)
THEOREM MoneyIsKept == Spec => EntryWithinMoney
<1> DEFINE Within == \A p \in book'.open :
         (p.key \notin book.keys) =>
            LET extra == slippage(p.market, p.cost) + _fees_for(Entry(Candidate), p.cost)
            IN  /\ settings.daily_loss_limit_pct > 0 =>
                      day_pnl(book) > -bp(settings.starting_capital,
                                          settings.daily_loss_limit_pct)
                /\ book'.cash >= -extra
                /\ p.market = "CRYPTO_SPOT" =>
                      crypto_open_notional(book') <= settings.crypto_max_exposure + extra
                /\ p.market = "EQUITY_SHARE" =>
                      settings.max_open_positions * (p.cost - extra)
                        <= account_equity(book)
<1>1. DeskInv /\ [Next]_vars => Within
  <2> SUFFICES ASSUME DeskInv, [Next]_vars, NEW p \in book'.open, p.key \notin book.keys
               PROVE  LET extra == slippage(p.market, p.cost)
                                     + _fees_for(Entry(Candidate), p.cost)
            IN  /\ settings.daily_loss_limit_pct > 0 =>
                      day_pnl(book) > -bp(settings.starting_capital,
                                          settings.daily_loss_limit_pct)
                /\ book'.cash >= -extra
                /\ p.market = "CRYPTO_SPOT" =>
                      crypto_open_notional(book') <= settings.crypto_max_exposure + extra
                /\ p.market = "EQUITY_SHARE" =>
                      settings.max_open_positions * (p.cost - extra)
                        <= account_equity(book)
    OBVIOUS
  <2>1. ScanInv /\ BookInv /\ MoneyIsWhole(book)
    BY DEF DeskInv
  <2>2. CASE Open
    BY <2>1, <2>2, OpenWithinMoney
  <2>3. CASE ~Open
    BY <2>1, <2>3, OtherSteps DEF Keeps
  <2> QED
    BY <2>2, <2>3
<1>2. DeskInv /\ [Next]_vars => [Within]_vars
  BY <1>1
<1> HIDE DEF Within
<1>3. DeskInv /\ [Next]_vars => DeskInv' /\ [Within]_vars
  BY <1>2, DeskHolds
<1> QED
  BY <1>3, DeskStarts, PTL DEF Spec, EntryWithinMoney, Within
-----------------------------------------------------------------------------
(* Every symbol once: where no universe lists a symbol twice. *)

NoRepeats ==
  \A m \in Markets : \A i, j \in DOMAIN universe(m) :
     universe(m)[i] = universe(m)[j] => i = j

(* What is to do, what is assessed and what failed share no symbol.          *)
Distinct ==
  at \notin {"idle", "done"} =>
     /\ \A i, j \in DOMAIN scan.todo : scan.todo[i] = scan.todo[j] => i = j
     /\ \A i, j \in DOMAIN scan.assessed :
          scan.assessed[i].symbol = scan.assessed[j].symbol => i = j
     /\ \A r, s \in scan.rows : r.symbol = s.symbol => r = s
     /\ \A i \in DOMAIN scan.assessed : scan.assessed[i].symbol \notin Range(scan.todo)
     /\ \A r \in scan.rows : r.symbol \notin Range(scan.todo)
     /\ \A r \in scan.rows, i \in DOMAIN scan.assessed : r.symbol # scan.assessed[i].symbol

(* Taking the first of distinct symbols leaves distinct ones, and not it.    *)
LEMMA FirstOfDistinct ==
  ASSUME NEW s, s \in Seq(Symbols), s # <<>>,
         \A i, j \in DOMAIN s : s[i] = s[j] => i = j
  PROVE  /\ \A i, j \in DOMAIN Tail(s) : Tail(s)[i] = Tail(s)[j] => i = j
         /\ Head(s) \notin Range(Tail(s))
<1>1. /\ Tail(s) \in Seq(Symbols) /\ Len(Tail(s)) = Len(s) - 1
      /\ \A i \in 1..Len(Tail(s)) : Tail(s)[i] = s[i + 1]
  BY HeadTailProperties
<1>2. Len(s) \in Nat \ {0} /\ DOMAIN s = 1..Len(s) /\ DOMAIN Tail(s) = 1..Len(Tail(s))
  BY <1>1, LenProperties, EmptySeq
<1>3. Head(s) = s[1]
  OBVIOUS
<1>4. \A i \in DOMAIN Tail(s) : i \in Nat /\ i + 1 \in DOMAIN s /\ i + 1 # 1
                                /\ Tail(s)[i] = s[i + 1]
  BY <1>1, <1>2
<1>5. ASSUME NEW i \in DOMAIN Tail(s), NEW j \in DOMAIN Tail(s), Tail(s)[i] = Tail(s)[j]
      PROVE  i = j
  <2>1. i + 1 = j + 1
    BY <1>4, <1>5
  <2> QED
    BY <1>4, <2>1
<1>6. \A i \in DOMAIN Tail(s) : Tail(s)[i] # Head(s)
  <2>1. 1 \in DOMAIN s
    BY <1>2
  <2> QED
    BY <1>3, <1>4, <2>1
<1> QED
  BY <1>5, <1>6 DEF Range

(* A symbol that was assessed is no longer among those to come. *)
LEMMA AssessKeepsDistinct ==
  ASSUME ScanInv, Distinct, Assess
  PROVE  Distinct'
<1> DEFINE symbol == Head(scan.todo)
           rest == Tail(scan.todo)
<1>1. /\ at = "assess" /\ at' = "assess" /\ scan.todo # <<>> /\ scan \in ScanRecord
      /\ weights \in StoredWeights
  BY ScannerAssumption DEF Assess, ScanInv, StoredWeights
<1>2. /\ \A i, j \in DOMAIN scan.todo : scan.todo[i] = scan.todo[j] => i = j
      /\ \A i, j \in DOMAIN scan.assessed :
           scan.assessed[i].symbol = scan.assessed[j].symbol => i = j
      /\ \A r, s \in scan.rows : r.symbol = s.symbol => r = s
      /\ \A i \in DOMAIN scan.assessed : scan.assessed[i].symbol \notin Range(scan.todo)
      /\ \A r \in scan.rows : r.symbol \notin Range(scan.todo)
      /\ \A r \in scan.rows, i \in DOMAIN scan.assessed : r.symbol # scan.assessed[i].symbol
  BY <1>1 DEF Distinct
<1>3. /\ scan.assessed \in Seq(Assessment) /\ scan.market \in Markets
      /\ scan.todo \in Seq(Symbols) /\ scan.context \in Contexts \cup {NoContext}
  BY <1>1 DEF ScanRecord
<1>4. /\ \A i, j \in DOMAIN rest : rest[i] = rest[j] => i = j
      /\ symbol \notin Range(rest)
  BY <1>1, <1>2, <1>3, FirstOfDistinct
<1>5. symbol \in Range(scan.todo) /\ Range(rest) \subseteq Range(scan.todo)
  BY <1>1, FirstTaken
<1>6. CASE scan' = [scan EXCEPT !.todo = Tail(@), !.failed = @ + 1,
                                !.rows = @ \cup {Row(Unpriceable(symbol))}]
  <2> DEFINE row == Row(Unpriceable(symbol))
             rows == scan.rows \cup {row}
  <2>1. row.symbol = symbol
    BY DEF Row, Unpriceable, Assessed
  <2> HIDE DEF row, symbol, rest
  <2>2. scan'.todo = rest /\ scan'.assessed = scan.assessed /\ scan'.rows = rows
    <3> HIDE DEF rows
    <3>1. scan' = [scan EXCEPT !.todo = rest, !.failed = scan.failed + 1, !.rows = rows]
      BY <1>6 DEF rest, rows, row
    <3> QED
      BY <1>1, <3>1 DEF ScanRecord
  <2>3. \A r \in rows : r \in scan.rows \/ r = row
    OBVIOUS
  <2>4. \A r, s \in rows : r.symbol = s.symbol => r = s
    BY <1>2, <1>5, <2>1, <2>3
  <2>5. \A r \in rows : r.symbol \notin Range(rest)
    BY <1>2, <1>4, <1>5, <2>1, <2>3
  <2>6. \A r \in rows, i \in DOMAIN scan.assessed : r.symbol # scan.assessed[i].symbol
    BY <1>2, <1>5, <2>1, <2>3
  <2>7. \A i \in DOMAIN scan.assessed : scan.assessed[i].symbol \notin Range(rest)
    BY <1>2, <1>5
  <2> HIDE DEF rows
  <2> QED
    BY <1>2, <1>4, <2>2, <2>4, <2>5, <2>6, <2>7 DEF Distinct
<1>7. ASSUME NEW v \in Views,
             NEW a \in assess(scan.market, symbol, v, scan.context, load_weights(weights)),
             scan' = [scan EXCEPT !.todo = Tail(@), !.ok = @ + 1,
                                  !.assessed = Append(@, a)]
      PROVE  Distinct'
  <2> DEFINE now == Append(scan.assessed, a)
             n == Len(scan.assessed)
  <2>1. a.symbol = symbol
    <3>1. TypedContext(scan.context)
      BY <1>3, ContextsAreTyped
    <3>2. IsAssessment(a, symbol, weights)
      BY <1>1, <1>3, <1>5, <1>7, <3>1, DesksAssess
    <3> QED
      BY <3>2 DEF IsAssessment
  <2> HIDE DEF symbol, rest
  <2>2. n \in Nat /\ DOMAIN scan.assessed = 1..n
    BY <1>3, LenProperties
  <2>3. /\ DOMAIN now = 1..(n + 1) /\ \A i \in 1..n : now[i] = scan.assessed[i]
        /\ now[n + 1] = a
    BY <1>3, <2>2
  <2>4. scan'.todo = rest /\ scan'.assessed = now /\ scan'.rows = scan.rows
    <3> HIDE DEF now
    <3>1. scan' = [scan EXCEPT !.todo = rest, !.ok = scan.ok + 1, !.assessed = now]
      BY <1>7 DEF rest, now
    <3> QED
      BY <1>1, <3>1 DEF ScanRecord
  <2> HIDE DEF now, n
  <2>5. \A i \in DOMAIN now :
          \/ i \in DOMAIN scan.assessed /\ now[i].symbol = scan.assessed[i].symbol
          \/ i = n + 1 /\ now[i].symbol = symbol
    BY <2>1, <2>2, <2>3
  <2>6. \A i, j \in DOMAIN now : now[i].symbol = now[j].symbol => i = j
    BY <1>2, <1>5, <2>5
  <2>7. \A i \in DOMAIN now : now[i].symbol \notin Range(rest)
    BY <1>2, <1>4, <1>5, <2>5
  <2>8. \A r \in scan.rows, i \in DOMAIN now : r.symbol # now[i].symbol
    BY <1>2, <1>5, <2>5
  <2>9. \A r \in scan.rows : r.symbol \notin Range(rest)
    BY <1>2, <1>5
  <2> QED
    BY <1>2, <1>4, <2>4, <2>6, <2>7, <2>8, <2>9 DEF Distinct
<1> QED
  BY <1>6, <1>7 DEF Assess

(* No step assesses or ranks a symbol twice, if the universe lists none twice. *)
LEMMA DistinctHolds ==
  ASSUME NoRepeats, ScanInv, Distinct, [Next]_vars
  PROVE  Distinct'
<1>1. ASSUME NEW m \in Markets, Begin(m)
      PROVE  Distinct'
  <2>1. /\ scan'.todo = universe(m) /\ scan'.assessed = <<>> /\ scan'.rows = {}
    BY <1>1 DEF Begin
  <2>2. DOMAIN <<>> = {}
    OBVIOUS
  <2>3. \A i, j \in DOMAIN universe(m) : universe(m)[i] = universe(m)[j] => i = j
    BY DEF NoRepeats
  <2> QED
    BY <2>1, <2>2, <2>3 DEF Distinct
<1>2. CASE Assess
  BY <1>2, AssessKeepsDistinct
<1>3. CASE BuildContext
  <2>1. at = "context" /\ at' = "assess" /\ scan \in ScanRecord
        /\ \E ctx : scan' = [scan EXCEPT !.context = ctx]
    BY <1>3 DEF BuildContext, ScanInv
  <2>2. /\ scan'.todo = scan.todo /\ scan'.assessed = scan.assessed
        /\ scan'.rows = scan.rows
    BY <2>1 DEF ScanRecord
  <2> QED
    BY <2>1, <2>2 DEF Distinct
<1>4. CASE Rank
  <2>1. at = "assess" /\ at' = "open" /\ scan \in ScanRecord
        /\ \E c : scan' = [scan EXCEPT !.ranked = c, !.context = NoContext]
    BY <1>4 DEF Rank, ScanInv
  <2>2. /\ scan'.todo = scan.todo /\ scan'.assessed = scan.assessed
        /\ scan'.rows = scan.rows
    BY <2>1 DEF ScanRecord
  <2> QED
    BY <2>1, <2>2 DEF Distinct
<1>5. ASSUME at = "open", at' = "open", scan.ranked # {}, NEW a, Settle(a),
             a.symbol = Candidate.symbol
      PROVE  Distinct'
  <2> DEFINE i0 == Best
             now == [scan.assessed EXCEPT ![i0] = a]
  <2>1. scan \in ScanRecord /\ i0 \in DOMAIN scan.assessed
    BY <1>5, NextCandidate
  <2>2. a.symbol = scan.assessed[i0].symbol
    BY <1>5 DEF Candidate
  <2> HIDE DEF i0
  <2>3. /\ DOMAIN now = DOMAIN scan.assessed
        /\ \A i \in DOMAIN now : now[i].symbol = scan.assessed[i].symbol
    <3>1. scan.assessed \in [1..Len(scan.assessed) -> Assessment]
      BY <2>1, LenProperties DEF ScanRecord
    <3> QED
      BY <2>1, <2>2, <3>1
  <2>4. scan'.todo = scan.todo /\ scan'.assessed = now /\ scan'.rows = scan.rows
    BY <1>5, <2>1 DEF Settle, ScanRecord, i0
  <2> HIDE DEF now
  <2>5. Distinct
    OBVIOUS
  <2> QED
    BY <1>5, <2>3, <2>4, <2>5 DEF Distinct
<1>6. CASE Refuse
  <2>1. at = "open" /\ at' = "open" /\ scan.ranked # {}
    BY <1>6 DEF Refuse
  <2>2. PICK gate : Settle([Candidate EXCEPT !.verdict = "BLOCKED", !.blocked_by = gate])
    BY <1>6 DEF Refuse
  <2>3. Candidate \in Assessment
    BY <2>1, NextCandidate
  <2>4. [Candidate EXCEPT !.verdict = "BLOCKED", !.blocked_by = gate].symbol
          = Candidate.symbol
    BY <2>3 DEF Assessment
  <2> QED
    BY <1>5, <2>1, <2>2, <2>4
<1>7. CASE DryRun
  BY <1>5, <1>7 DEF DryRun
<1>8. CASE Open
  <2>1. at = "open" /\ at' = "open" /\ scan \in ScanRecord
        /\ \E r, o : scan' = [scan EXCEPT !.ranked = r, !.opened = o]
    BY <1>8 DEF Open, ScanInv
  <2>2. /\ scan'.todo = scan.todo /\ scan'.assessed = scan.assessed
        /\ scan'.rows = scan.rows
    BY <2>1 DEF ScanRecord
  <2> QED
    BY <2>1, <2>2 DEF Distinct
<1>9. CASE Record \/ Return \/ Stop
  BY <1>9 DEF Record, Return, Stop, Distinct
<1>10. CASE \/ \E p \in book.open : Close(p) \/ \E m \in Marks : Mark(p, m)
            \/ \E u \in book.cooling : CooldownEnds(u)
            \/ Halt \/ Midnight \/ UNCHANGED vars
  <2>1. UNCHANGED <<at, scan>>
    BY <1>10 DEF Close, Mark, CooldownEnds, Halt, Midnight, vars
  <2> QED
    BY <2>1 DEF Distinct
<1> QED
  BY <1>1, <1>2, <1>3, <1>4, <1>6, <1>7, <1>8, <1>9, <1>10 DEF Next
-----------------------------------------------------------------------------
(* The rows of a scan that is closed. *)

(* Rows of different symbols, one for each symbol of a list that has each    *)
(* but once, are as many as the list is long.                                *)
LEMMA OneRowEach ==
  ASSUME NEW u, u \in Seq(Symbols), NEW rows,
         \A i, j \in DOMAIN u : u[i] = u[j] => i = j,
         \A r, s \in rows : r.symbol = s.symbol => r = s,
         {r.symbol : r \in rows} = Range(u)
  PROVE  Cardinality(rows) = Len(u)
<1> DEFINE row(i) == CHOOSE r \in rows : r.symbol = u[i]
           b == [i \in 1..Len(u) |-> row(i)]
<1>1. Len(u) \in Nat /\ DOMAIN u = 1..Len(u)
  BY LenProperties
<1>2. \A i \in 1..Len(u) : row(i) \in rows /\ row(i).symbol = u[i]
  <2> SUFFICES ASSUME NEW i \in 1..Len(u) PROVE row(i) \in rows /\ row(i).symbol = u[i]
    OBVIOUS
  <2>1. u[i] \in Range(u)
    BY <1>1 DEF Range
  <2>2. \E r \in rows : r.symbol = u[i]
    BY <2>1
  <2> QED
    BY <2>2
<1>3. \A r \in rows : \E i \in 1..Len(u) : row(i) = r
  <2> SUFFICES ASSUME NEW r \in rows PROVE \E i \in 1..Len(u) : row(i) = r
    OBVIOUS
  <2>1. r.symbol \in Range(u)
    OBVIOUS
  <2>2. PICK i \in DOMAIN u : u[i] = r.symbol
    BY <2>1 DEF Range
  <2>3. row(i) \in rows /\ row(i).symbol = r.symbol
    BY <1>1, <1>2, <2>2
  <2> QED
    BY <1>1, <2>2, <2>3
<1> HIDE DEF row
<1>4. b \in [1..Len(u) -> rows]
  BY <1>2
<1>5. \A i, j \in 1..Len(u) : b[i] = b[j] => i = j
  BY <1>1, <1>2
<1>6. \A r \in rows : \E i \in 1..Len(u) : b[i] = r
  BY <1>3
<1> HIDE DEF b
<1>7. b \in Injection(1..Len(u), rows)
  BY <1>4, <1>5 DEF Injection, IsInjective
<1>8. b \in Surjection(1..Len(u), rows)
  BY <1>4, <1>6 DEF Surjection
<1>9. ExistsBijection(1..Len(u), rows)
  BY <1>7, <1>8 DEF Bijection, ExistsBijection
<1> QED
  BY <1>1, <1>9, FS_CountingElements

(* The recorded rows are those of the universe, one each. *)
LEMMA RecordAccounts ==
  ASSUME NoRepeats, ScanInv, Distinct, Record
  PROVE  EverySymbolAccounted'
<1> DEFINE n == Len(scan.assessed)
           assessed(i) == scan.assessed[i]
           recorded == {Row(scan.assessed[i]) : i \in DOMAIN scan.assessed}
           rows == scan.rows \cup recorded
           u == universe(scan.market)
           opened == {scan.assessed[i].symbol : i \in Range(scan.opened)}
<1>1. /\ at = "open" /\ at' = "done" /\ scan.ranked = {} /\ scan \in ScanRecord
      /\ Accounted /\ Judged /\ FailedRows /\ SecondPass
  BY DEF Record, ScanInv
<1>2. /\ scan.market \in Markets /\ scan.assessed \in Seq(Assessment)
      /\ scan.ok \in Nat /\ scan.failed \in Nat /\ dry_run \in BOOLEAN
  BY <1>1 DEF ScanRecord, ScanInv
<1>3. /\ scan'.rows = rows /\ scan'.market = scan.market /\ scan'.ok = scan.ok
      /\ scan'.failed = scan.failed /\ scan'.assessed = scan.assessed
      /\ scan'.opened = scan.opened /\ dry_run' = dry_run
  <2> HIDE DEF rows, recorded
  <2>1. \E status : scan' = [scan EXCEPT !.rows = rows, !.status = status]
    BY DEF Record, rows, recorded
  <2>2. dry_run' = dry_run
    BY DEF Record
  <2> QED
    BY <1>1, <2>1, <2>2 DEF ScanRecord
<1>4. /\ \A i, j \in DOMAIN scan.assessed :
           scan.assessed[i].symbol = scan.assessed[j].symbol => i = j
      /\ \A r, s \in scan.rows : r.symbol = s.symbol => r = s
      /\ \A r \in scan.rows, i \in DOMAIN scan.assessed : r.symbol # scan.assessed[i].symbol
  BY <1>1 DEF Distinct
<1>5. \A r \in rows : \/ r \in scan.rows
                      \/ \E i \in DOMAIN scan.assessed :
                            /\ r = Row(scan.assessed[i])
                            /\ r.symbol = scan.assessed[i].symbol
                            /\ r.verdict = scan.assessed[i].verdict
                            /\ r.blocked_by = scan.assessed[i].blocked_by
  BY DEF Row
<1>6. \A r, s \in rows : r.symbol = s.symbol => r = s
  <2> HIDE DEF rows
  <2> QED
    BY <1>4, <1>5
<1>7. {r.symbol : r \in rows} = Range(u)
  <2>1. scan.todo = <<>> /\ Range(scan.todo) = {}
    BY <1>1 DEF SecondPass, Range
  <2>2. {scan.assessed[i].symbol : i \in DOMAIN scan.assessed}
          = {r.symbol : r \in recorded}
    <3>1. \A i \in DOMAIN scan.assessed :
             /\ Row(scan.assessed[i]) \in recorded
             /\ Row(scan.assessed[i]).symbol = scan.assessed[i].symbol
      BY DEF Row
    <3>2. \A r \in recorded : \E i \in DOMAIN scan.assessed :
             r.symbol = scan.assessed[i].symbol
      BY DEF Row
    <3> HIDE DEF recorded
    <3> QED
      BY <3>1, <3>2
  <2>3. Range(scan.todo) \cup {scan.assessed[i].symbol : i \in DOMAIN scan.assessed}
          \cup {r.symbol : r \in scan.rows} = Range(u)
    BY <1>1 DEF Accounted
  <2> HIDE DEF recorded, u
  <2> QED
    BY <2>1, <2>2, <2>3
<1>8. Cardinality(rows) = Len(u) /\ scan.ok + scan.failed = Len(u)
  <2>1. u \in Seq(Symbols) /\ Len(u) \in Nat /\ \A i, j \in DOMAIN u : u[i] = u[j] => i = j
    BY <1>2, UniverseOfSymbols DEF NoRepeats
  <2>2. scan.todo = <<>> /\ Len(scan.todo) = 0
    BY <1>1 DEF SecondPass
  <2>3. Len(scan.todo) + scan.ok + scan.failed = Len(u)
    BY <1>1 DEF Accounted
  <2> HIDE DEF u, rows
  <2>4. scan.ok + scan.failed = Len(u)
    BY <1>2, <2>1, <2>2, <2>3
  <2>5. Cardinality(rows) = Len(u)
    BY <1>6, <1>7, <2>1, OneRowEach
  <2> QED
    BY <2>4, <2>5
<1>9. ASSUME NEW r \in rows
      PROVE  /\ r.verdict = "BLOCKED" <=> r.blocked_by # ""
             /\ ~dry_run => (r.verdict = "EXECUTE" <=> r.symbol \in opened)
  <2>0. /\ Range(scan.opened) \subseteq Execute /\ Execute \subseteq DOMAIN scan.assessed
        /\ ~dry_run => Execute \subseteq Range(scan.opened)
    BY <1>1 DEF SecondPass, Execute, Candidates
  <2>1. CASE r \in scan.rows
    <3>1. r.verdict = "ERROR" /\ r.blocked_by = ""
      BY <1>1, <2>1 DEF FailedRows
    <3>2. r.symbol \notin opened
      BY <1>4, <2>0, <2>1
    <3> QED
      BY <3>1, <3>2
  <2>2. CASE r \notin scan.rows
    <3>1. PICK i \in DOMAIN scan.assessed :
            /\ r.symbol = scan.assessed[i].symbol
            /\ r.verdict = scan.assessed[i].verdict
            /\ r.blocked_by = scan.assessed[i].blocked_by
      BY <1>5, <2>2
    <3>2. scan.assessed[i].verdict = "BLOCKED" <=> scan.assessed[i].blocked_by # ""
      BY <1>1, <3>1 DEF Judged
    <3>3. r.verdict = "EXECUTE" <=> i \in Execute
      BY <3>1 DEF Execute, Candidates
    <3>4. r.symbol \in opened <=> i \in Range(scan.opened)
      BY <1>4, <2>0, <3>1
    <3> HIDE DEF opened
    <3> QED
      BY <2>0, <3>1, <3>2, <3>3, <3>4
  <2> QED
    BY <2>1, <2>2
<1>10. dry_run => opened = {}
  <2>1. dry_run => scan.opened = <<>> /\ Range(scan.opened) = {}
    BY <1>1 DEF SecondPass, Range
  <2> QED
    BY <2>1
<1>11. EverySymbolAccounted'
         <=> (at' = "done" =>
                /\ {r.symbol : r \in scan'.rows} = Range(universe(scan'.market))
                /\ Cardinality(scan'.rows) = Len(universe(scan'.market))
                /\ scan'.ok + scan'.failed = Cardinality(scan'.rows)
                /\ \A r \in scan'.rows :
                     /\ r.verdict = "BLOCKED" <=> r.blocked_by # ""
                     /\ ~dry_run' => (r.verdict = "EXECUTE"
                          <=> r.symbol \in {scan'.assessed[i].symbol : i \in Range(scan'.opened)})
                     /\ dry_run' => {scan'.assessed[i].symbol : i \in Range(scan'.opened)} = {})
  BY DEF EverySymbolAccounted
<1>12. /\ {scan'.assessed[i].symbol : i \in Range(scan'.opened)} = opened
       /\ universe(scan'.market) = u
  BY <1>3
<1> HIDE DEF rows, opened, u
<1> QED
  BY <1>3, <1>7, <1>8, <1>9, <1>10, <1>11, <1>12

(* However a scan goes, once it is closed every symbol of its universe has   *)
(* its one row, the counts add up to it, the rows that say EXECUTE are those *)
(* of the positions that were opened, and every other candidate names its    *)
(* gate: where no universe lists a symbol twice.                             *)
THEOREM EverySymbolHasItsRow ==
  ASSUME NoRepeats PROVE Spec => []EverySymbolAccounted
<1> DEFINE I == DeskInv /\ Distinct /\ EverySymbolAccounted
<1>1. Init => I
  <2>1. Init => at = "idle"
    BY DEF Init
  <2> QED
    BY <2>1, DeskStarts DEF Distinct, EverySymbolAccounted
<1>2. I /\ [Next]_vars => I'
  <2> SUFFICES ASSUME DeskInv, Distinct, EverySymbolAccounted, [Next]_vars
               PROVE  DeskInv' /\ Distinct' /\ EverySymbolAccounted'
    OBVIOUS
  <2>1. ScanInv
    BY DEF DeskInv
  <2>2. DeskInv' /\ Distinct'
    BY <2>1, DeskHolds, DistinctHolds
  <2>3. EverySymbolAccounted'
    <3>1. CASE Record
      BY <2>1, <3>1, RecordAccounts
    <3>2. CASE \/ \E market \in Markets : Begin(market)
               \/ BuildContext \/ Assess \/ Rank \/ Refuse \/ DryRun \/ Open
               \/ Return \/ Stop
      <4>1. at' # "done"
        BY <3>2 DEF Begin, BuildContext, Assess, Rank, Refuse, DryRun, Open, Return, Stop
      <4> QED
        BY <4>1 DEF EverySymbolAccounted
    <3>3. CASE \/ \E p \in book.open : Close(p) \/ \E m \in Marks : Mark(p, m)
               \/ \E u \in book.cooling : CooldownEnds(u)
               \/ Halt \/ Midnight \/ UNCHANGED vars
      <4>1. UNCHANGED <<at, scan, dry_run>>
        BY <3>3 DEF Close, Mark, CooldownEnds, Halt, Midnight, vars
      <4> QED
        BY ZenonT(40), <4>1 DEF EverySymbolAccounted
    <3> QED
      BY <3>1, <3>2, <3>3 DEF Next
  <2> QED
    BY <2>2, <2>3
<1> QED
  BY <1>1, <1>2, PTL DEF Spec
=============================================================================
