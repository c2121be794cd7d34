-------------------------- MODULE ExitPolicy_proofs --------------------------
(* Proofs about ExitPolicy, for every plan, every feed and every sequence   *)
(* of marks, failures and passes.                                           *)
EXTENDS ExitPolicy, TLAPS

(* What a plan and a row are made of.                                       *)
LEMMA PlanType ==
  ASSUME NEW p \in Positions
  PROVE  PlanOf(p) \in PlanFields /\ PlanOf(p).lock \in Nat
         /\ PlanOf(p).arm \in Nat /\ PlanOf(p).stop \in Nat
BY ExitPolicyAssumption DEF PlanOf, Markets, PlanFields

(* The updates of a pass leave a row of the exit plan. *)
LEMMA RowUpdates ==
  ASSUME NEW r \in RowFields
  PROVE  /\ \A n \in Nat : [r EXCEPT !.stop = n] \in RowFields
         /\ \A n \in Nat : [r EXCEPT !.floor = n] \in RowFields
         /\ \A s \in {"OPEN", "CLOSING", "CLOSED"} :
              [r EXCEPT !.status = s] \in RowFields
         /\ \A n \in Nat : [r EXCEPT !.age = 0, !.water = n] \in RowFields
         /\ \A n \in 0..(StaleAge + 1) : [r EXCEPT !.age = n] \in RowFields
<1>1. 0 \in 0..(StaleAge + 1)
  BY ExitPolicyAssumption
<1> QED
  BY <1>1 DEF RowFields

(* Every column keeps its type and a pass is never anywhere but where it    *)
(* has a priced position in hand.                                           *)
THEOREM TypeCorrect == Spec => []TypeOK
<1>1. Init => TypeOK
  <2> SUFFICES ASSUME Init PROVE TypeOK
    OBVIOUS
  <2>0. Prices \subseteq Nat
    BY ExitPolicyAssumption DEF Prices, Markets
  <2>1. ASSUME NEW p \in Positions, NEW f \in Prices
        PROVE  [status |-> "OPEN", stop |-> PlanOf(p).stop, water |-> 0,
                floor |-> f, age |-> 0] \in RowFields
    BY <2>0, PlanType, ExitPolicyAssumption DEF RowFields
  <2>2. row \in [Positions -> RowFields]
    <3>1. PICK floor \in [Positions -> Prices] :
            row = [p \in Positions |->
                     [status |-> "OPEN", stop |-> PlanOf(p).stop, water |-> 0,
                      floor |-> floor[p], age |-> 0]]
      BY DEF Init
    <3>2. \A p \in Positions : floor[p] \in Prices
      OBVIOUS
    <3> QED
      BY <2>1, <3>1, <3>2
  <2>3. marks \in [Positions -> Nat \cup {NoMark}]
        /\ late \in [Positions -> BOOLEAN] /\ peak \in [Positions -> Nat]
    BY DEF Init
  <2>4. /\ pc = "between" /\ todo = {} /\ cur = Nobody
        /\ flatten = FALSE /\ bell = FALSE /\ faults = 0
    BY DEF Init
  <2>5. faults \in 0..MaxFaults
    BY <2>4, ExitPolicyAssumption
  <2> QED
    BY <2>2, <2>3, <2>4, <2>5 DEF TypeOK
<1>2. TypeOK /\ [Next]_vars => TypeOK'
  <2> SUFFICES ASSUME TypeOK, [Next]_vars PROVE TypeOK'
    OBVIOUS
  <2> USE ExitPolicyAssumption DEF TypeOK
  <2>1. ASSUME NEW dead \in SUBSET Markets, BeginPass(dead)
        PROVE  TypeOK'
    <3>1. marks' \in [Positions -> Nat \cup {NoMark}]
      BY <2>1 DEF BeginPass, Batch
    <3> QED
      BY <2>1, <3>1 DEF BeginPass
  <2>2. ASSUME NEW p \in Positions, TakeNext(p)
        PROVE  TypeOK'
    <3>1. marks[p] = NoMark \/ marks[p] \in Nat
      OBVIOUS
    <3>2. row' \in [Positions -> RowFields]
      <4>1. \A f \in Feed[Market[p]] : f \in Nat
        BY DEF Markets
      <4>2. \A f \in Feed[Market[p]] : [row[p] EXCEPT !.floor = f] \in RowFields
        BY <4>1, RowUpdates
      <4>3. \A f \in Feed[Market[p]] :
              [row EXCEPT ![p].floor = f] \in [Positions -> RowFields]
        BY <4>2
      <4>4. row' = row \/ \E f \in Feed[Market[p]] :
                             row' = [row EXCEPT ![p].floor = f]
        BY <2>2 DEF TakeNext
      <4> QED
        BY <4>3, <4>4
    <3>3. pc' = "next" \/ pc' = "close" \/ (pc' = "raise" /\ marks[p] # NoMark)
      <4>1. row[p].age \in Int /\ StaleAge \in Int
        BY DEF RowFields
      <4>2. row[p].age <= StaleAge \/ row[p].age > StaleAge
        BY <4>1
      <4> QED
        BY <2>2, <4>2 DEF TakeNext
    <3>4. cur' \in Positions \cup {Nobody} /\ (pc' # "next" => cur' = p)
      BY <2>2 DEF TakeNext
    <3>5. /\ todo' = todo \ {p}
          /\ UNCHANGED <<marks, flatten, late, bell, peak, faults>>
      BY <2>2 DEF TakeNext
    <3> QED
      BY <3>1, <3>2, <3>3, <3>4, <3>5
  <2>3. CASE RaiseStop
    <3>1. cur \in Positions
      BY <2>3 DEF RaiseStop
    <3>2. [row[cur] EXCEPT !.stop = PlanOf(cur).lock] \in RowFields
      BY <3>1, PlanType, RowUpdates
    <3> QED
      BY <2>3, <3>1, <3>2 DEF RaiseStop
  <2>4. CASE RecordMark
    <3>1. cur \in Positions /\ marks[cur] \in Nat
      BY <2>4 DEF RecordMark
    <3>2. row[cur].water \in Nat /\ peak[cur] \in Nat
      BY <3>1 DEF RowFields
    <3>3. ASSUME NEW n \in Nat
          PROVE  [row EXCEPT ![cur].age = 0, ![cur].water = n]
                   \in [Positions -> RowFields]
      BY <3>1, RowUpdates
    <3>4. row' \in [Positions -> RowFields]
      <4> DEFINE w == IF marks[cur] >= PlanOf(cur).arm /\ marks[cur] > row[cur].water
                      THEN marks[cur] ELSE row[cur].water
      <4>1. w \in Nat
        BY <3>1, <3>2
      <4>2. row' = row \/ row' = [row EXCEPT ![cur].age = 0, ![cur].water = w]
        BY <2>4 DEF RecordMark
      <4> QED
        BY <3>3, <4>1, <4>2
    <3>5. peak' \in [Positions -> Nat]
      BY <2>4, <3>1, <3>2 DEF RecordMark
    <3> QED
      BY <2>4, <3>1, <3>4, <3>5 DEF RecordMark
  <2>5. CASE Evaluate
    BY <2>5 DEF Evaluate
  <2>6. CASE Close
    <3>1. cur \in Positions
      BY <2>6 DEF Close
    <3>2. \A s \in {"OPEN", "CLOSING", "CLOSED"} :
            [row EXCEPT ![cur].status = s] \in [Positions -> RowFields]
      BY <3>1, RowUpdates
    <3>3. row' \in [Positions -> RowFields]
      BY <2>6, <3>1, <3>2 DEF Close, Live
    <3> QED
      BY <2>6, <3>1, <3>3 DEF Close
  <2>7. CASE EndPass
    BY <2>7 DEF EndPass
  <2>8. CASE CloseFails
    <3>1. cur \in Positions
      BY <2>8 DEF CloseFails
    <3>2. \A s \in {"OPEN", "CLOSING", "CLOSED"} :
            [row EXCEPT ![cur].status = s] \in [Positions -> RowFields]
      BY <3>1, RowUpdates
    <3>3. row' \in [Positions -> RowFields]
      BY <2>8, <3>1, <3>2 DEF CloseFails, Live
    <3> QED
      BY <2>8, <3>1, <3>3 DEF CloseFails
  <2>9. CASE Abort
    <3>1. faults' \in 0..MaxFaults
      BY <2>9, ExitPolicyAssumption DEF Abort
    <3>2. /\ UNCHANGED <<row, marks, late, bell, peak>>
          /\ pc' = "between" /\ cur' = Nobody /\ todo' = {} /\ flatten' = FALSE
      BY <2>9 DEF Abort
    <3> QED
      BY <3>1, <3>2
  <2>10. CASE Elapse
    <3>1. ASSUME NEW p \in Positions
          PROVE  [row[p] EXCEPT !.age = IF @ > StaleAge THEN @ ELSE @ + 1]
                   \in RowFields
      <4>1. (IF row[p].age > StaleAge THEN row[p].age ELSE row[p].age + 1)
              \in 0..(StaleAge + 1)
        BY DEF RowFields
      <4> QED
        BY <4>1, RowUpdates
    <3> QED
      BY <2>10, <3>1 DEF Elapse
  <2>11. ASSUME NEW p \in Positions, ClosedElsewhere(p)
        PROVE  TypeOK'
    <3>1. p \in Positions
      BY <2>11 DEF ClosedElsewhere
    <3>2. \A s \in {"OPEN", "CLOSING", "CLOSED"} :
            [row EXCEPT ![p].status = s] \in [Positions -> RowFields]
      BY <3>1, RowUpdates
    <3>3. row' \in [Positions -> RowFields]
      BY <2>11, <3>1, <3>2 DEF ClosedElsewhere, Live
    <3> QED
      BY <2>11, <3>1, <3>3 DEF ClosedElsewhere
  <2>12. CASE UNCHANGED vars
    BY <2>12 DEF vars
  <2> QED
    BY <2>1, <2>2, <2>3, <2>4, <2>5, <2>6, <2>7, <2>8, <2>9,
       <2>10, <2>11, <2>12 DEF Next, PassStep
<1> QED
  BY <1>1, <1>2, PTL DEF Spec

(* The stop and the trail's high water only ever rise.                      *)
THEOREM StopsOnlyRise == Spec => OnlyRatchets
<1> DEFINE Up == \A p \in Positions : /\ row'[p].stop >= row[p].stop
                                      /\ row'[p].water >= row[p].water
<1>1. TypeOK /\ [Next]_vars => [Up]_vars
  <2> SUFFICES ASSUME TypeOK, [Next]_vars PROVE Up
    OBVIOUS
  <2>0. /\ row \in [Positions -> RowFields]
        /\ \A p \in Positions : row[p].stop \in Nat /\ row[p].water \in Nat
    BY DEF TypeOK, RowFields
  <2>1. ASSUME NEW dead \in SUBSET Markets, BeginPass(dead)
        PROVE  Up
    BY <2>1, <2>0 DEF BeginPass
  <2>2. ASSUME NEW p \in Positions, TakeNext(p)
        PROVE  Up
    BY <2>2, <2>0 DEF TakeNext, RowFields
  <2>3. CASE RaiseStop
    <3>1. cur \in Positions /\ marks[cur] \in Nat
      BY <2>3 DEF RaiseStop, TypeOK
    <3> QED
      BY <2>3, <2>0, <3>1, PlanType DEF RaiseStop, RowFields
  <2>4. CASE RecordMark
    <3>1. cur \in Positions /\ marks[cur] \in Nat
      BY <2>4 DEF RecordMark, TypeOK
    <3> QED
      BY <2>4, <2>0, <3>1, PlanType DEF RecordMark, RowFields
  <2>5. CASE Evaluate
    BY <2>5, <2>0 DEF Evaluate
  <2>6. CASE Close
    BY <2>6, <2>0 DEF Close, RowFields
  <2>7. CASE EndPass
    BY <2>7, <2>0 DEF EndPass
  <2>8. CASE CloseFails
    BY <2>8, <2>0 DEF CloseFails, RowFields
  <2>9. CASE Abort
    BY <2>9, <2>0 DEF Abort
  <2>10. CASE Elapse
    BY <2>10, <2>0 DEF Elapse, RowFields
  <2>11. ASSUME NEW p \in Positions, ClosedElsewhere(p)
        PROVE  Up
    BY <2>11, <2>0 DEF ClosedElsewhere, RowFields
  <2>12. CASE UNCHANGED vars
    BY <2>12, <2>0 DEF vars
  <2> QED
    BY <2>1, <2>2, <2>3, <2>4, <2>5, <2>6, <2>7, <2>8, <2>9,
       <2>10, <2>11, <2>12 DEF Next, PassStep
<1> QED
  BY <1>1, TypeCorrect, PTL DEF Spec, OnlyRatchets

(* A gain once seen is locked in: raise_stop commits before mark does, so   *)
(* nothing that fails between the two can lose the lock.                    *)
THEOREM GainsAreLocked == Spec => []PeakIsLocked
<1> DEFINE Locked(p) == row[p].stop >= PlanOf(p).lock
           Raised == pc = "mark" => \/ ~Live(cur)
                                    \/ PlanOf(cur).lock = 0
                                    \/ marks[cur] < PlanOf(cur).lock
                                    \/ Locked(cur)
           Inv == PeakIsLocked /\ Raised
<1>1. Init => Inv
  BY PlanType DEF Init, PeakIsLocked
<1>2. TypeOK /\ Inv /\ [Next]_vars => Inv'
  <2> SUFFICES ASSUME TypeOK, Inv, [Next]_vars PROVE Inv'
    OBVIOUS
  <2>0. /\ row \in [Positions -> RowFields]
        /\ \A p \in Positions : /\ row[p].stop \in Nat /\ peak[p] \in Nat
                                /\ PlanOf(p).lock \in Nat
    BY PlanType DEF TypeOK, RowFields
  <2> USE DEF PeakIsLocked
  <2>1. ASSUME NEW dead \in SUBSET Markets, BeginPass(dead)
        PROVE  Inv'
    BY <2>1, <2>0 DEF BeginPass, PlanOf, Live
  <2>2. ASSUME NEW p \in Positions, TakeNext(p)
        PROVE  Inv'
    <3>1. \A q \in Positions : row'[q].stop = row[q].stop
      BY <2>2, <2>0 DEF TakeNext, RowFields
    <3> QED
      BY <2>2, <3>1 DEF TakeNext, PlanOf
  <2>3. CASE RaiseStop
    <3>1. cur \in Positions /\ marks[cur] \in Nat
      BY <2>3 DEF RaiseStop, TypeOK
    <3>2. \A p \in Positions : row'[p].stop >= row[p].stop /\ row'[p].stop \in Nat
                               /\ row'[p].status = row[p].status
      BY <2>3, <2>0, <3>1 DEF RaiseStop, RowFields
    <3>3. PeakIsLocked'
      BY <2>3, <2>0, <3>2 DEF RaiseStop, PlanOf
    <3>4. Raised'
      BY <2>3, <2>0, <3>1, <3>2 DEF RaiseStop, Live, RowFields, PlanOf
    <3> QED
      BY <3>3, <3>4
  <2>4. CASE RecordMark
    <3>1. cur \in Positions /\ marks[cur] \in Nat
      BY <2>4 DEF RecordMark, TypeOK
    <3>2. \A p \in Positions : row'[p].stop = row[p].stop
      BY <2>4, <2>0, <3>1 DEF RecordMark, RowFields
    <3>3. \A p \in Positions :
            \/ peak'[p] = peak[p]
            \/ p = cur /\ Live(p) /\ peak'[p] \in {marks[p], peak[p]}
      BY <2>4, <3>1 DEF RecordMark, TypeOK
    <3>4. PeakIsLocked'
      BY <2>4, <2>0, <3>1, <3>2, <3>3 DEF RecordMark, PlanOf
    <3> QED
      BY <2>4, <3>4 DEF RecordMark
  <2>5. CASE Evaluate
    BY <2>5, <2>0 DEF Evaluate, PlanOf, Live
  <2>6. CASE Close
    <3>1. \A q \in Positions : row'[q].stop = row[q].stop
      BY <2>6, <2>0 DEF Close, RowFields
    <3> QED
      BY <2>6, <3>1 DEF Close, PlanOf
  <2>7. CASE EndPass
    BY <2>7, <2>0 DEF EndPass, PlanOf, Live
  <2>8. CASE CloseFails
    <3>1. \A q \in Positions : row'[q].stop = row[q].stop
      BY <2>8, <2>0 DEF CloseFails, RowFields
    <3> QED
      BY <2>8, <3>1 DEF CloseFails, PlanOf
  <2>9. CASE Abort
    BY <2>9, <2>0 DEF Abort, PlanOf, Live
  <2>10. CASE Elapse
    <3>1. \A q \in Positions : row'[q].stop = row[q].stop
      BY <2>10, <2>0 DEF Elapse, RowFields
    <3> QED
      BY <2>10, <3>1 DEF Elapse, PlanOf
  <2>11. ASSUME NEW p \in Positions, ClosedElsewhere(p)
        PROVE  Inv'
    <3>1. \A q \in Positions : /\ row'[q].stop = row[q].stop
                               /\ row'[q].status \in {row[q].status, "CLOSED"}
      BY <2>11, <2>0 DEF ClosedElsewhere, RowFields
    <3>2. pc = "mark" => cur \in Positions
      BY DEF TypeOK
    <3> QED
      BY <2>11, <3>1, <3>2 DEF ClosedElsewhere, PlanOf, Live
  <2>12. CASE UNCHANGED vars
    BY <2>12, <2>0 DEF vars, PlanOf, Live
  <2> QED
    BY <2>1, <2>2, <2>3, <2>4, <2>5, <2>6, <2>7, <2>8, <2>9,
       <2>10, <2>11, <2>12 DEF Next, PassStep
<1> QED
  BY <1>1, <1>2, TypeCorrect, PTL DEF Spec

------------------------------------------------------------------------------
(* The effective stop is never below the stop of the row.                   *)
LEMMA EffectiveStopIsHigher ==
  ASSUME TypeOK, NEW p \in Positions, NEW m \in Nat
  PROVE  EffectiveStop(p, m) \in Nat /\ EffectiveStop(p, m) >= row[p].stop
<1>1. row[p].stop \in Nat /\ PlanOf(p).lock \in Nat
  BY PlanType DEF TypeOK, RowFields
<1> QED
  BY <1>1 DEF EffectiveStop

(* What evaluate holds is priced above the stop that was recorded, and      *)
(* above the lock-in price once the position had traded there: the verdict  *)
(* is taken before any other rule of the plan, on a stop that was raised in *)
(* the same pass.                                                           *)
THEOREM HeldIsAboveTheFloor == Spec => HeldAboveTheFloor
<1> DEFINE Held == /\ pc = "evaluate" /\ pc' = "next"
                   /\ Live(cur) /\ marks[cur] > 0
           High == /\ marks[cur] > row[cur].stop
                   /\ PlanOf(cur).lock > 0 /\ peak[cur] >= PlanOf(cur).lock =>
                        marks[cur] > PlanOf(cur).lock
<1>1. TypeOK /\ PeakIsLocked /\ [Next]_vars => [Held => High]_vars
  <2> SUFFICES ASSUME TypeOK, PeakIsLocked, Next, Held PROVE High
    BY DEF vars
  <2>1. /\ cur \in Positions /\ marks[cur] \in Nat
        /\ row[cur].stop \in Nat /\ PlanOf(cur).lock \in Nat
    BY PlanType DEF TypeOK, RowFields
  <2>2. Evaluate
    <3>1. ~(\E dead \in SUBSET Markets : BeginPass(dead)) /\ ~RaiseStop
          /\ ~RecordMark /\ ~Close /\ ~CloseFails /\ ~EndPass /\ ~Abort /\ ~Elapse
      BY DEF BeginPass, RaiseStop, RecordMark, Close, CloseFails, EndPass,
             Abort, Elapse
    <3>2. ~(\E p \in Positions : TakeNext(p))
          /\ ~(\E p \in Positions : ClosedElsewhere(p))
      BY DEF TakeNext, ClosedElsewhere
    <3> QED
      BY <3>1, <3>2 DEF Next, PassStep
  <2>3. Verdict(cur, marks[cur]) = "HOLD"
    BY <2>2 DEF Evaluate
  <2>4. ~(marks[cur] <= EffectiveStop(cur, marks[cur]))
    BY <2>1, <2>3 DEF Verdict
  <2>5. marks[cur] > row[cur].stop
    BY <2>1, <2>4, EffectiveStopIsHigher
  <2>6. PlanOf(cur).lock > 0 /\ peak[cur] >= PlanOf(cur).lock =>
          row[cur].stop >= PlanOf(cur).lock
    BY <2>1 DEF PeakIsLocked
  <2> QED
    BY <2>1, <2>5, <2>6
<1> QED
  BY <1>1, TypeCorrect, GainsAreLocked, PTL DEF Spec, HeldAboveTheFloor
==============================================================================
