---------------------------- MODULE Booking_proofs ----------------------------
(* Proofs about Booking, for every set of keys, engines, prices and fees    *)
(* and for every bound on interruptions and administration.                 *)
EXTENDS Booking, TLAPS

(* A fill and the fee on it are amounts, never negative.                    *)
LEMMA FillsAreAmounts ==
  /\ \A p \in Prices : BuyFill(p) \in Fills /\ SellFill(p) \in Fills
  /\ Fills \subseteq Nat
  /\ \A g \in Fills : FeeOf[g] \in Nat
BY BookingAssumption DEF Fills, BuyFill, SellFill

(* An engine that is not idle holds a well-formed handler.                  *)
LEMMA HandlerType ==
  ASSUME TypeOK, NEW e \in Engines, op[e].pc # "idle"
  PROVE  /\ op[e] \in Handlers
         /\ op[e].key \in Keys
         /\ op[e].fill \in Fills
         /\ op[e].fill \in Nat
         /\ op[e].basis \in Nat
         /\ FeeOf[op[e].fill] \in Nat
<1>1. op[e] \in Handlers
  BY DEF TypeOK, Idle
<1> QED
  BY <1>1, FillsAreAmounts DEF Handlers

(* A row written off by a rebase is a row, a ledger resized is a ledger.    *)
LEMMA WrittenOff ==
  ASSUME NEW row \in Rows
  PROVE  [row EXCEPT !.status = "CLOSED", !.realized = 0,
                     !.reason = "CAPITAL_REBASE"] \in Rows
<1>1. \A z \in Int : [row EXCEPT !.status = "CLOSED", !.realized = z,
                                 !.reason = "CAPITAL_REBASE"] \in Rows
  BY DEF Rows
<1>2. 0 \in Int
  OBVIOUS
<1> QED
  BY <1>1, <1>2

(* close writes the row it holds, if there is one, and lets it go. *)
LEMMA RowAfterClose ==
  ASSUME TypeOK, NEW e \in Engines, CloseWrite(e)
  PROVE  /\ op[e].pc = "finishing" /\ op[e].key \in Keys
         /\ op' = [op EXCEPT ![e] = Idle]
         /\ UNCHANGED <<debits, credits>>
         /\ \A k \in Keys :
              IF k = op[e].key /\ positions[k].status # "NONE"
              THEN positions'[k].status = "CLOSED" /\ positions'[k].reason = "TRADE"
              ELSE positions'[k] = positions[k]
<1>1. op[e].pc = "finishing" /\ op[e].key \in Keys
  BY HandlerType DEF CloseWrite
<1>2. op' = [op EXCEPT ![e] = Idle] /\ UNCHANGED <<debits, credits>>
  BY DEF CloseWrite
<1>3. CASE positions[op[e].key].status = "NONE"
  BY <1>1, <1>2, <1>3 DEF CloseWrite
<1>4. CASE positions[op[e].key].status # "NONE"
  <2> DEFINE won == op[e].fill - op[e].basis - FeeOf[op[e].fill]
  <2>1. positions' = [positions EXCEPT ![op[e].key].status = "CLOSED",
                                       ![op[e].key].reason = "TRADE",
                                       ![op[e].key].realized = won]
    BY <1>4 DEF CloseWrite
  <2> HIDE DEF won
  <2> QED
    BY <1>1, <1>2, <1>4, <2>1 DEF TypeOK, Rows
<1> QED
  BY <1>3, <1>4

(* A rebase of the capital leaves a ledger row. *)
LEMMA Resized ==
  ASSUME NEW row \in Ledgers, NEW c \in Nat
  PROVE  [row EXCEPT !.starting = c, !.cash = c] \in Ledgers
<1>1. c \in Int
  OBVIOUS
<1> QED
  BY <1>1 DEF Ledgers

(* What has failed stays failed: the counters never go down.                *)
LEMMA Remembered ==
  ASSUME TypeOK, [Next]_vars
  PROVE  /\ Unwiped' => Unwiped
         /\ Unfailed' => Unfailed
<1>1. \/ admin' = admin
      \/ \E p \in Procs, c \in Capitals : DetectDrift(p, c)
      \/ \E c \in Capitals : ResetBook(c)
  BY DEF Next, vars, EngineStep, PassGates, ReadForClose, Buy, InsertPosition,
     RequestRead, RequestWrite, Sell, CloseRead, CloseWrite, Interrupt,
     RebaseCapital
<1>2. interruptions' = interruptions \/ \E e \in Engines : Interrupt(e)
  BY DEF Next, vars, EngineStep, PassGates, ReadForClose, Buy, InsertPosition,
     RequestRead, RequestWrite, Sell, CloseRead, CloseWrite, RebaseCapital,
     DetectDrift, ResetBook
<1>3. Unwiped' => Unwiped
  BY <1>1 DEF DetectDrift, ResetBook, Unwiped, TypeOK
<1>4. interruptions' = 0 => interruptions = 0
  BY <1>2, BookingAssumption DEF Interrupt, TypeOK
<1> QED
  BY <1>3, <1>4 DEF Unfailed

(* A reset is never unseen.                                                 *)
LEMMA ResetWipes ==
  ASSUME TypeOK, NEW c \in Capitals, ResetBook(c)
  PROVE  ~Unwiped'
BY DEF ResetBook, Unwiped, TypeOK

(* Every column and every handler in progress keeps its type, whatever the  *)
(* interleaving of engines, failures and administration.                    *)
THEOREM TypeCorrect == Spec => []TypeOK
<1>1. Init => TypeOK
  BY BookingAssumption DEF Init, TypeOK, Rows, Ledgers, NoRow, Procs
<1>2. TypeOK /\ [Next]_vars => TypeOK'
  <2> SUFFICES ASSUME TypeOK, [Next]_vars PROVE TypeOK'
    OBVIOUS
  <2> USE DEF TypeOK
  <2>1. ASSUME NEW e \in Engines, NEW k \in Keys, NEW p \in Prices,
               PassGates(e, k, p)
        PROVE  TypeOK'
    <3>1. [pc |-> "gated", key |-> k, fill |-> BuyFill(p), basis |-> 0]
            \in Handlers
      BY FillsAreAmounts DEF Handlers
    <3> QED
      BY <2>1, <3>1 DEF PassGates
  <2>2. ASSUME NEW e \in Engines, NEW k \in Keys, NEW p \in Prices,
               ReadForClose(e, k, p)
        PROVE  TypeOK'
    <3>1. [pc |-> "closing", key |-> k, fill |-> SellFill(p),
           basis |-> positions[k].entry] \in Handlers
      BY FillsAreAmounts DEF Handlers, Rows, Closing
    <3> QED
      BY <2>2, <3>1 DEF ReadForClose
  <2>3. ASSUME NEW e \in Engines, Buy(e) PROVE TypeOK'
    <3>1. op[e].pc # "idle"
      BY <2>3 DEF Buy
    <3>2. [op[e] EXCEPT !.pc = "bought"] \in Handlers
      BY <3>1, HandlerType DEF Handlers
    <3>3. op' \in [Engines -> {Idle} \cup Handlers]
      BY <2>3, <3>2 DEF Buy
    <3>4. ledger' \in Ledgers
      <4> DEFINE g == op[e].fill
                 f == FeeOf[g]
      <4>1. g \in Nat /\ f \in Nat
        BY <3>1, HandlerType
      <4>2. /\ ledger.cash \in Int /\ ledger.realized \in Int
            /\ ledger.fees \in Nat /\ ledger.opened \in Nat
        BY DEF Ledgers
      <4>3. /\ ledger.cash - (g + f) \in Int
            /\ ledger.fees + f \in Nat /\ ledger.opened + 1 \in Nat
        BY <4>1, <4>2, <3>1, HandlerType
      <4> HIDE DEF TypeOK
      <4> QED
        BY <2>3, <4>3 DEF Buy, Ledgers, TypeOK
    <3>5. debits' \in [Keys -> Nat]
      BY <2>3, <3>1, HandlerType DEF Buy
    <3> QED
      BY <2>3, <3>3, <3>4, <3>5 DEF Buy
  <2>4. ASSUME NEW e \in Engines, InsertPosition(e) PROVE TypeOK'
    <3>1. op[e].pc # "idle"
      BY <2>4 DEF InsertPosition
    <3>2. [status |-> "OPEN", entry |-> op[e].fill, realized |-> 0,
           reason |-> "none"] \in Rows
      BY <3>1, HandlerType DEF Rows
    <3> QED
      BY <2>4, <3>2 DEF InsertPosition
  <2>5. ASSUME NEW e \in Engines, RequestRead(e) PROVE TypeOK'
    <3>1. op[e].pc # "idle"
      BY <2>5 DEF RequestRead
    <3>2. ASSUME NEW c \in Closing PROVE [op[e] EXCEPT !.pc = c] \in Handlers
      BY <3>1, HandlerType DEF Handlers
    <3>3. op' \in [Engines -> {Idle} \cup Handlers]
      BY <2>5, <3>2 DEF RequestRead, Closing
    <3> QED
      BY <2>5, <3>3 DEF RequestRead
  <2>6. ASSUME NEW e \in Engines, RequestWrite(e) PROVE TypeOK'
    <3>1. op[e].pc # "idle"
      BY <2>6 DEF RequestWrite
    <3>2. [op[e] EXCEPT !.pc = "requested"] \in Handlers
      BY <3>1, HandlerType DEF Handlers, Closing
    <3>3. positions' \in [Keys -> Rows]
      <4>1. op[e].key \in Keys /\ positions[op[e].key] \in Rows
        BY <3>1, HandlerType
      <4>2. [positions[op[e].key] EXCEPT !.status = "CLOSING"] \in Rows
        BY <4>1 DEF Rows
      <4>3. \/ positions' = positions
            \/ positions' = [positions EXCEPT ![op[e].key] =
                               [positions[op[e].key] EXCEPT !.status = "CLOSING"]]
        BY <2>6 DEF RequestWrite
      <4> QED
        BY <4>1, <4>2, <4>3
    <3> QED
      BY <2>6, <3>2, <3>3 DEF RequestWrite
  <2>7. ASSUME NEW e \in Engines, Sell(e) PROVE TypeOK'
    <3>1. op[e].pc # "idle"
      BY <2>7 DEF Sell
    <3>2. [op[e] EXCEPT !.pc = "sold"] \in Handlers
      BY <3>1, HandlerType DEF Handlers, Closing
    <3>3. op' \in [Engines -> {Idle} \cup Handlers]
      BY <2>7, <3>2 DEF Sell
    <3>4. ledger' \in Ledgers
      <4> DEFINE g == op[e].fill
                 f == FeeOf[g]
      <4>1. g \in Nat /\ f \in Nat
        BY <3>1, HandlerType
      <4>2. /\ ledger.cash \in Int /\ ledger.realized \in Int
            /\ ledger.fees \in Nat /\ ledger.closed \in Nat
        BY DEF Ledgers
      <4>3. /\ ledger.cash + (g - f) \in Int
            /\ ledger.realized + (g - op[e].basis - f) \in Int
            /\ ledger.fees + f \in Nat /\ ledger.closed + 1 \in Nat
        BY <4>1, <4>2, <3>1, HandlerType
      <4> HIDE DEF TypeOK
      <4> QED
        BY <2>7, <4>3 DEF Sell, Ledgers, TypeOK
    <3>5. credits' \in [Keys -> Nat]
      BY <2>7, <3>1, HandlerType DEF Sell
    <3> QED
      BY <2>7, <3>3, <3>4, <3>5 DEF Sell
  <2>8. ASSUME NEW e \in Engines, CloseRead(e) PROVE TypeOK'
    <3>1. op[e].pc # "idle"
      BY <2>8 DEF CloseRead
    <3>2. [op[e] EXCEPT !.pc = "finishing"] \in Handlers
      BY <3>1, HandlerType DEF Handlers, Closing
    <3> QED
      BY <2>8, <3>2 DEF CloseRead
  <2>9. ASSUME NEW e \in Engines, CloseWrite(e) PROVE TypeOK'
    <3>1. op[e].pc # "idle"
      BY <2>9 DEF CloseWrite
    <3>2. positions' \in [Keys -> Rows]
      BY <2>9, <3>1, HandlerType DEF CloseWrite, Rows
    <3> QED
      BY <2>9, <3>2 DEF CloseWrite
  <2>10. ASSUME NEW e \in Engines, Interrupt(e) PROVE TypeOK'
    BY <2>10, BookingAssumption DEF Interrupt
  <2>11. ASSUME NEW p \in Procs, NEW c \in Capitals, DetectDrift(p, c)
         PROVE  TypeOK'
    <3>1. admin' \in [boots : Nat, resets : Nat]
          /\ admin'.boots + admin'.resets <= MaxAdmin
      BY <2>11, BookingAssumption DEF DetectDrift
    <3> QED
      BY <2>11, <3>1, BookingAssumption DEF DetectDrift
  <2>12. ASSUME NEW p \in Procs, RebaseCapital(p) PROVE TypeOK'
    <3>1. positions' \in [Keys -> Rows]
      BY <2>12, WrittenOff DEF RebaseCapital
    <3>2. ledger' \in Ledgers
      BY <2>12, Resized DEF RebaseCapital
    <3>3. boot' \in [Procs -> Nat] /\ settled' \subseteq Keys
      BY <2>12 DEF RebaseCapital
    <3> QED
      BY <2>12, <3>1, <3>2, <3>3 DEF RebaseCapital
  <2>13. ASSUME NEW c \in Capitals, ResetBook(c) PROVE TypeOK'
    <3>1. ledger' \in Ledgers /\ NoRow \in Rows
      BY <2>13, BookingAssumption DEF ResetBook, Ledgers, Rows, NoRow
    <3>2. admin' \in [boots : Nat, resets : Nat]
          /\ admin'.boots + admin'.resets <= MaxAdmin
      BY <2>13, BookingAssumption DEF ResetBook
    <3> QED
      BY <2>13, <3>1, <3>2, BookingAssumption DEF ResetBook
  <2>14. CASE UNCHANGED vars
    BY <2>14 DEF vars
  <2> QED
    BY <2>1, <2>2, <2>3, <2>4, <2>5, <2>6, <2>7, <2>8, <2>9, <2>10, <2>11,
       <2>12, <2>13, <2>14 DEF Next, EngineStep
<1> QED
  BY <1>1, <1>2, PTL DEF Spec

(* Rows are only ever created by open_position, as OPEN: a close under way  *)
(* when reset_book wipes the table cannot bring its row back, because the   *)
(* audit row it writes has lost the row it refers to.                       *)
THEOREM OnlyInsertsCreateRows == Spec => RowsComeFromInsert
<1> DEFINE Born == \A k \in Keys : positions[k].status = "NONE" =>
                     positions'[k].status \in {"NONE", "OPEN"}
<1>1. TypeOK /\ [Next]_vars => [Born]_vars
  <2> SUFFICES ASSUME TypeOK, [Next]_vars PROVE Born
    OBVIOUS
  <2>1. ASSUME NEW e \in Engines, NEW k \in Keys, NEW p \in Prices, PassGates(e, k, p)
        PROVE  Born
    BY <2>1 DEF PassGates
  <2>2. ASSUME NEW e \in Engines, NEW k \in Keys, NEW p \in Prices, ReadForClose(e, k, p)
        PROVE  Born
    BY <2>2 DEF ReadForClose
  <2>3. ASSUME NEW e \in Engines, Buy(e)
        PROVE  Born
    BY <2>3 DEF Buy
  <2>4. ASSUME NEW e \in Engines, InsertPosition(e)
        PROVE  Born
    <3>1. op[e].key \in Keys
      BY <2>4, HandlerType DEF InsertPosition
    <3>2. positions \in [Keys -> Rows]
      BY DEF TypeOK
    <3> QED
      BY <2>4, <3>1, <3>2 DEF InsertPosition
  <2>5. ASSUME NEW e \in Engines, RequestRead(e)
        PROVE  Born
    BY <2>5 DEF RequestRead
  <2>6. ASSUME NEW e \in Engines, RequestWrite(e)
        PROVE  Born
    BY <2>6, HandlerType DEF RequestWrite, TypeOK, Rows
  <2>7. ASSUME NEW e \in Engines, Sell(e)
        PROVE  Born
    BY <2>7 DEF Sell
  <2>8. ASSUME NEW e \in Engines, CloseRead(e)
        PROVE  Born
    BY <2>8 DEF CloseRead
  <2>9. ASSUME NEW e \in Engines, CloseWrite(e)
        PROVE  Born
    BY <2>9, HandlerType DEF CloseWrite, TypeOK, Rows
  <2>10. ASSUME NEW e \in Engines, Interrupt(e)
        PROVE  Born
    BY <2>10 DEF Interrupt
  <2>11. ASSUME NEW p \in Procs, NEW c \in Capitals, DetectDrift(p, c)
        PROVE  Born
    BY <2>11 DEF DetectDrift
  <2>12. ASSUME NEW p \in Procs, RebaseCapital(p)
        PROVE  Born
    BY <2>12 DEF RebaseCapital, TypeOK, Rows, Live
  <2>13. ASSUME NEW c \in Capitals, ResetBook(c)
        PROVE  Born
    BY <2>13 DEF ResetBook, TypeOK, Rows, NoRow
  <2>14. CASE UNCHANGED vars
    BY <2>14 DEF vars, TypeOK, Rows
  <2> QED
    BY <2>1, <2>2, <2>3, <2>4, <2>5, <2>6, <2>7, <2>8, <2>9,
       <2>10, <2>11, <2>12, <2>13, <2>14 DEF Next, EngineStep
<1> QED
  BY <1>1, TypeCorrect, PTL DEF Spec, RowsComeFromInsert

(* The fill a row was opened at is never overwritten, by how many engines   *)
(* the same signal may be traded.                                           *)
THEOREM FirstFillIsKept == Spec => FirstFillStands
<1> DEFINE Kept == Unwiped' => \A k \in Keys : positions[k].status # "NONE" =>
                     positions'[k].entry = positions[k].entry
<1>1. TypeOK /\ [Next]_vars => [Kept]_vars
  <2> SUFFICES ASSUME TypeOK, [Next]_vars PROVE Kept
    OBVIOUS
  <2>1. ASSUME NEW e \in Engines, NEW k \in Keys, NEW p \in Prices, PassGates(e, k, p)
        PROVE  Kept
    BY <2>1 DEF PassGates
  <2>2. ASSUME NEW e \in Engines, NEW k \in Keys, NEW p \in Prices, ReadForClose(e, k, p)
        PROVE  Kept
    BY <2>2 DEF ReadForClose
  <2>3. ASSUME NEW e \in Engines, Buy(e)
        PROVE  Kept
    BY <2>3 DEF Buy
  <2>4. ASSUME NEW e \in Engines, InsertPosition(e)
        PROVE  Kept
    BY <2>4, HandlerType DEF InsertPosition, TypeOK, Rows
  <2>5. ASSUME NEW e \in Engines, RequestRead(e)
        PROVE  Kept
    BY <2>5 DEF RequestRead
  <2>6. ASSUME NEW e \in Engines, RequestWrite(e)
        PROVE  Kept
    BY <2>6, HandlerType DEF RequestWrite, TypeOK, Rows
  <2>7. ASSUME NEW e \in Engines, Sell(e)
        PROVE  Kept
    BY <2>7 DEF Sell
  <2>8. ASSUME NEW e \in Engines, CloseRead(e)
        PROVE  Kept
    BY <2>8 DEF CloseRead
  <2>9. ASSUME NEW e \in Engines, CloseWrite(e)
        PROVE  Kept
    BY <2>9, HandlerType DEF CloseWrite, TypeOK, Rows
  <2>10. ASSUME NEW e \in Engines, Interrupt(e)
        PROVE  Kept
    BY <2>10 DEF Interrupt
  <2>11. ASSUME NEW p \in Procs, NEW c \in Capitals, DetectDrift(p, c)
        PROVE  Kept
    BY <2>11 DEF DetectDrift
  <2>12. ASSUME NEW p \in Procs, RebaseCapital(p)
        PROVE  Kept
    BY <2>12 DEF RebaseCapital, TypeOK, Rows, Live
  <2>13. ASSUME NEW c \in Capitals, ResetBook(c)
        PROVE  Kept
    BY <2>13, ResetWipes
  <2>14. CASE UNCHANGED vars
    BY <2>14 DEF vars, TypeOK, Rows
  <2> QED
    BY <2>1, <2>2, <2>3, <2>4, <2>5, <2>6, <2>7, <2>8, <2>9,
       <2>10, <2>11, <2>12, <2>13, <2>14 DEF Next, EngineStep
<1> QED
  BY <1>1, TypeCorrect, PTL DEF Spec, FirstFillStands

(* Until a reset, whatever is interrupted, however many engines run and   *)
(* whoever rebases: a row has been debited, a row a trade closed has been   *)
(* credited, and nothing is credited for a row that never left OPEN. The    *)
(* debit before the insert and the credit before the close put every error  *)
(* on one side. OrderInv adds what each handler has behind it.              *)
THEOREM NeverUnpaid == Spec => []BookedAtLeastOnce
<1> DEFINE Inv == Unwiped => OrderInv /\ BookedAtLeastOnce
<1>1. Init => Inv
  BY DEF Init, OrderInv, BookedAtLeastOnce, NoRow, Idle, Closing
<1>2. TypeOK /\ Inv /\ [Next]_vars => Inv'
  <2> SUFFICES ASSUME TypeOK, OrderInv, BookedAtLeastOnce, Unwiped,
                      [Next]_vars
               PROVE  Inv'
    BY Remembered
  <2> USE DEF OrderInv, BookedAtLeastOnce
  <2>1. ASSUME NEW e \in Engines, NEW k \in Keys, NEW p \in Prices, PassGates(e, k, p)
        PROVE  Inv'
    BY <2>1 DEF PassGates, TypeOK, Closing, Rows
  <2>2. ASSUME NEW e \in Engines, NEW k \in Keys, NEW p \in Prices, ReadForClose(e, k, p)
        PROVE  Inv'
    BY <2>2 DEF ReadForClose, Live, TypeOK, Closing, Rows
  <2>3. ASSUME NEW e \in Engines, Buy(e)
        PROVE  Inv'
    BY <2>3, HandlerType DEF Buy, TypeOK, Closing, Rows
  <2>4. ASSUME NEW e \in Engines, InsertPosition(e)
        PROVE  Inv'
    <3>1. /\ op[e].pc = "bought" /\ op[e].key \in Keys
          /\ UNCHANGED <<debits, credits>> /\ op' = [op EXCEPT ![e] = Idle]
      BY <2>4, HandlerType DEF InsertPosition
    <3>2. \A k \in Keys : \/ positions'[k] = positions[k]
                          \/ /\ k = op[e].key /\ positions[k].status = "NONE"
                             /\ positions'[k].status = "OPEN"
                             /\ positions'[k].reason = "none"
      BY <2>4, <3>1 DEF InsertPosition, TypeOK, Rows
    <3>3. OrderInv'
      <4> SUFFICES ASSUME NEW d \in Engines, op'[d].pc # "idle"
                   PROVE  OrderInv!(d)'
        BY DEF Closing
      <4>1. op'[d] = op[d] /\ op[d].pc # "idle" /\ op[d].key \in Keys
        BY <3>1, HandlerType DEF TypeOK, Idle
      <4> QED
        BY <3>1, <3>2, <4>1
    <3>4. BookedAtLeastOnce'
      BY <3>1, <3>2 DEF TypeOK
    <3> QED
      BY <3>3, <3>4
  <2>5. ASSUME NEW e \in Engines, RequestRead(e)
        PROVE  Inv'
    BY <2>5, HandlerType DEF RequestRead, Idle, TypeOK, Closing, Rows
  <2>6. ASSUME NEW e \in Engines, RequestWrite(e)
        PROVE  Inv'
    <3>1. /\ op[e].pc = "requesting" /\ op[e].key \in Keys
          /\ positions[op[e].key].status # "NONE"
          /\ UNCHANGED <<debits, credits>>
          /\ op' = [op EXCEPT ![e].pc = "requested"]
      BY <2>6, HandlerType DEF RequestWrite, Closing
    <3>2. \A k \in Keys : /\ positions'[k].reason = positions[k].reason
                          /\ positions'[k].status = IF k = op[e].key THEN "CLOSING"
                                                   ELSE positions[k].status
      BY <2>6, <3>1 DEF RequestWrite, TypeOK, Rows
    <3>3. OrderInv'
      <4> SUFFICES ASSUME NEW d \in Engines, op'[d].pc # "idle"
                   PROVE  OrderInv!(d)'
        BY DEF Closing
      <4>1. /\ op'[d].key = op[d].key /\ op[d].key \in Keys
            /\ op'[d].pc = IF d = e THEN "requested" ELSE op[d].pc
        BY <3>1, HandlerType DEF TypeOK, Handlers
      <4> QED
        BY <3>1, <3>2, <4>1 DEF Closing
    <3>4. BookedAtLeastOnce'
      BY <3>1, <3>2 DEF TypeOK
    <3> QED
      BY <3>3, <3>4
  <2>7. ASSUME NEW e \in Engines, Sell(e)
        PROVE  Inv'
    BY <2>7, HandlerType DEF Sell, TypeOK, Closing, Rows
  <2>8. ASSUME NEW e \in Engines, CloseRead(e)
        PROVE  Inv'
    BY <2>8, HandlerType DEF CloseRead, Idle, TypeOK, Closing, Rows
  <2>9. ASSUME NEW e \in Engines, CloseWrite(e)
        PROVE  Inv'
    <3>1. OrderInv'
      <4> SUFFICES ASSUME NEW d \in Engines, op'[d].pc # "idle"
                   PROVE  OrderInv!(d)'
        BY DEF Closing
      <4>1. op'[d] = op[d] /\ op[d].pc # "idle" /\ op[d].key \in Keys
        BY <2>9, RowAfterClose, HandlerType DEF TypeOK, Idle
      <4> QED
        BY <2>9, <4>1, RowAfterClose
    <3>2. BookedAtLeastOnce'
      BY <2>9, RowAfterClose DEF TypeOK
    <3> QED
      BY <3>1, <3>2
  <2>10. ASSUME NEW e \in Engines, Interrupt(e)
        PROVE  Inv'
    BY <2>10 DEF Interrupt, Idle, TypeOK, Closing, Rows
  <2>11. ASSUME NEW p \in Procs, NEW c \in Capitals, DetectDrift(p, c)
        PROVE  Inv'
    BY <2>11 DEF DetectDrift, TypeOK, Closing, Rows
  <2>12. ASSUME NEW p \in Procs, RebaseCapital(p)
        PROVE  Inv'
    <3>1. UNCHANGED <<op, debits, credits>>
      BY <2>12 DEF RebaseCapital
    <3>2. \A k \in Keys :
            \/ positions'[k] = positions[k]
            \/ /\ positions[k].status # "NONE"
               /\ positions'[k].status = "CLOSED"
               /\ positions'[k].reason = "CAPITAL_REBASE"
      BY <2>12 DEF RebaseCapital, Live, TypeOK, Rows
    <3>3. OrderInv'
      <4> SUFFICES ASSUME NEW d \in Engines, op[d].pc # "idle"
                   PROVE  OrderInv!(d)'
        BY <3>1 DEF Closing
      <4>1. op[d].key \in Keys
        BY HandlerType
      <4> QED
        BY <3>1, <3>2, <4>1 DEF Closing
    <3>4. BookedAtLeastOnce'
      BY <3>1, <3>2 DEF TypeOK
    <3> QED
      BY <3>3, <3>4
  <2>13. ASSUME NEW c \in Capitals, ResetBook(c)
        PROVE  Inv'
    BY <2>13, ResetWipes
  <2>14. CASE UNCHANGED vars
    BY <2>14 DEF vars, TypeOK, Closing, Rows
  <2> QED
    BY <2>1, <2>2, <2>3, <2>4, <2>5, <2>6, <2>7, <2>8, <2>9,
       <2>10, <2>11, <2>12, <2>13, <2>14 DEF Next, EngineStep
<1>3. Inv => BookedAtLeastOnce
  BY DEF BookedAtLeastOnce
<1> QED
  BY <1>1, <1>2, <1>3, TypeCorrect, PTL DEF Spec

(* With one engine and no dashboard booting beside it, a rebase finds the   *)
(* engine between handlers, and what a close has read holds when it writes. *)
LEMMA BootsComeFirst ==
  ASSUME Undisturbed
  PROVE  Spec => [](BootInv /\ FreshInv)
<1> DEFINE Inv == BootInv /\ FreshInv
<1> USE DEF BootInv, FreshInv
<1>1. Init => Inv
  BY DEF Init, Idle, Procs
<1>2. TypeOK /\ Inv /\ [Next]_vars => Inv'
  <2> SUFFICES ASSUME TypeOK, Inv, [Next]_vars PROVE Inv'
    OBVIOUS
  <2>1. ASSUME NEW e \in Engines, NEW k \in Keys, NEW p \in Prices, PassGates(e, k, p)
        PROVE  Inv'
    BY <2>1 DEF PassGates, Ready, TypeOK, Idle, Rows, Procs
  <2>2. ASSUME NEW e \in Engines, NEW k \in Keys, NEW p \in Prices, ReadForClose(e, k, p)
        PROVE  Inv'
    BY <2>2 DEF ReadForClose, Ready, TypeOK, Idle, Rows, Procs
  <2>3. ASSUME NEW e \in Engines, Buy(e)
        PROVE  Inv'
    BY <2>3, HandlerType DEF Buy, TypeOK, Idle, Rows, Procs
  <2>4. ASSUME NEW e \in Engines, InsertPosition(e)
        PROVE  Inv'
    <3>1. op[e].pc = "bought" /\ op[e].key \in Keys /\ UNCHANGED boot
      BY <2>4, HandlerType DEF InsertPosition
    <3>2. \A k \in Keys : positions'[k].status \in {positions[k].status, "OPEN"}
      BY <2>4, <3>1 DEF InsertPosition, TypeOK, Rows
    <3>3. \A d \in Engines :
            \/ op'[d] = op[d]
            \/ d = e /\ boot[d] = 0 /\ op'[d].pc \in {"idle", "requested"}
      BY <2>4, <3>1 DEF InsertPosition, TypeOK, Idle
    <3>4. \A d \in Engines : op[d].pc # "idle" => op[d].key \in Keys
      BY HandlerType
    <3> QED
      BY <3>1, <3>2, <3>3, <3>4
  <2>5. ASSUME NEW e \in Engines, RequestRead(e)
        PROVE  Inv'
    BY <2>5, HandlerType DEF RequestRead, TypeOK, Idle, Rows, Procs
  <2>6. ASSUME NEW e \in Engines, RequestWrite(e)
        PROVE  Inv'
    <3>1. op[e].pc = "requesting" /\ op[e].key \in Keys /\ UNCHANGED boot
      BY <2>6, HandlerType DEF RequestWrite
    <3>2. \A k \in Keys : positions'[k].status \in {positions[k].status, "CLOSING"}
      BY <2>6, <3>1 DEF RequestWrite, TypeOK, Rows
    <3>3. \A d \in Engines :
            \/ op'[d] = op[d]
            \/ d = e /\ boot[d] = 0 /\ op'[d].pc \in {"idle", "requested"}
      BY <2>6, <3>1, HandlerType DEF RequestWrite, TypeOK, Idle, Handlers
    <3>4. \A d \in Engines : op[d].pc # "idle" => op[d].key \in Keys
      BY HandlerType
    <3> QED
      BY <3>1, <3>2, <3>3, <3>4
  <2>7. ASSUME NEW e \in Engines, Sell(e)
        PROVE  Inv'
    BY <2>7, HandlerType DEF Sell, TypeOK, Idle, Rows, Procs
  <2>8. ASSUME NEW e \in Engines, CloseRead(e)
        PROVE  Inv'
    BY <2>8, HandlerType DEF CloseRead, LegalTransitions, Idle, TypeOK, Idle, Rows, Procs
  <2>9. ASSUME NEW e \in Engines, CloseWrite(e)
        PROVE  Inv'
    BY <2>9, HandlerType DEF CloseWrite, TypeOK, Idle, Rows, Procs, Undisturbed, OneEngine
  <2>10. ASSUME NEW e \in Engines, Interrupt(e)
        PROVE  Inv'
    BY <2>10 DEF Interrupt, TypeOK, Idle, Rows, Procs
  <2>11. ASSUME NEW p \in Procs, NEW c \in Capitals, DetectDrift(p, c)
        PROVE  Inv'
    <3>1. p \in Engines /\ op[p].pc = "idle" /\ UNCHANGED <<op, positions>>
      BY <2>11 DEF DetectDrift, Undisturbed, Ready, Procs
    <3>2. boot'["web"] = boot["web"]
          /\ \A d \in Engines : d # p => boot'[d] = boot[d]
      BY <2>11, <3>1, BookingAssumption DEF DetectDrift, TypeOK, Procs
    <3> QED
      BY <3>1, <3>2
  <2>12. ASSUME NEW p \in Procs, RebaseCapital(p)
        PROVE  Inv'
    BY <2>12, BookingAssumption DEF RebaseCapital, TypeOK, Idle, Rows, Procs, Undisturbed, OneEngine
  <2>13. ASSUME NEW c \in Capitals, ResetBook(c)
        PROVE  Inv'
    <3>1. /\ UNCHANGED <<op, boot>>
          /\ \A k \in Keys : positions'[k].status = "NONE"
      BY <2>13 DEF ResetBook, NoRow
    <3>2. \A d \in Engines : op[d].pc # "idle" => op[d].key \in Keys
      BY HandlerType
    <3> QED
      BY <3>1, <3>2
  <2>14. CASE UNCHANGED vars
    BY <2>14 DEF vars, TypeOK, Idle, Rows, Procs
  <2> QED
    BY <2>1, <2>2, <2>3, <2>4, <2>5, <2>6, <2>7, <2>8, <2>9,
       <2>10, <2>11, <2>12, <2>13, <2>14 DEF Next, EngineStep
<1> QED
  BY <1>1, <1>2, TypeCorrect, PTL DEF Spec

(* With one engine and the dashboard not booting meanwhile, whatever fails  *)
(* and even under a reset: a CLOSED row is never touched again. It needs    *)
(* that what request_close and close read is still so when they write       *)
(* (FreshInv), which fails as soon as another process may rebase, and that  *)
(* an engine rebases only before it trades (BootInv).                       *)
THEOREM ClosedRowsAreFinal ==
  ASSUME Undisturbed
  PROVE  Spec => ClosedIsFinal
<1> DEFINE Final == \A k \in Keys : positions[k].status = "CLOSED" =>
                      positions'[k] \in {positions[k], NoRow}
<1>1. TypeOK /\ BootInv /\ FreshInv /\ [Next]_vars => [Final]_vars
  <2> SUFFICES ASSUME TypeOK, BootInv, FreshInv, [Next]_vars PROVE Final
    OBVIOUS
  <2> USE DEF BootInv, FreshInv
  <2>1. ASSUME NEW e \in Engines, NEW k \in Keys, NEW p \in Prices, PassGates(e, k, p)
        PROVE  Final
    BY <2>1 DEF PassGates, TypeOK, Rows
  <2>2. ASSUME NEW e \in Engines, NEW k \in Keys, NEW p \in Prices, ReadForClose(e, k, p)
        PROVE  Final
    BY <2>2 DEF ReadForClose, TypeOK, Rows
  <2>3. ASSUME NEW e \in Engines, Buy(e)
        PROVE  Final
    BY <2>3 DEF Buy, TypeOK, Rows
  <2>4. ASSUME NEW e \in Engines, InsertPosition(e)
        PROVE  Final
    BY <2>4, HandlerType DEF InsertPosition, TypeOK, Rows
  <2>5. ASSUME NEW e \in Engines, RequestRead(e)
        PROVE  Final
    BY <2>5 DEF RequestRead, TypeOK, Rows
  <2>6. ASSUME NEW e \in Engines, RequestWrite(e)
        PROVE  Final
    BY <2>6, HandlerType DEF RequestWrite, TypeOK, Rows
  <2>7. ASSUME NEW e \in Engines, Sell(e)
        PROVE  Final
    BY <2>7 DEF Sell, TypeOK, Rows
  <2>8. ASSUME NEW e \in Engines, CloseRead(e)
        PROVE  Final
    BY <2>8 DEF CloseRead, TypeOK, Rows
  <2>9. ASSUME NEW e \in Engines, CloseWrite(e)
        PROVE  Final
    BY <2>9, HandlerType DEF CloseWrite, TypeOK, Rows
  <2>10. ASSUME NEW e \in Engines, Interrupt(e)
        PROVE  Final
    BY <2>10 DEF Interrupt, TypeOK, Rows
  <2>11. ASSUME NEW p \in Procs, NEW c \in Capitals, DetectDrift(p, c)
        PROVE  Final
    BY <2>11 DEF DetectDrift, TypeOK, Rows
  <2>12. ASSUME NEW p \in Procs, RebaseCapital(p)
        PROVE  Final
    BY <2>12 DEF RebaseCapital, Live, TypeOK, Rows
  <2>13. ASSUME NEW c \in Capitals, ResetBook(c)
        PROVE  Final
    BY <2>13 DEF ResetBook, NoRow, TypeOK, Rows
  <2>14. CASE UNCHANGED vars
    BY <2>14 DEF vars, TypeOK, Rows
  <2> QED
    BY <2>1, <2>2, <2>3, <2>4, <2>5, <2>6, <2>7, <2>8, <2>9,
       <2>10, <2>11, <2>12, <2>13, <2>14 DEF Next, EngineStep
<1> QED
  BY <1>1, TypeCorrect, BootsComeFirst, PTL DEF Spec, ClosedIsFinal

(* StepInv and BookedOnce as they read for the one engine e there is.       *)
Trading(e, k, pcs) == op[e].key = k /\ op[e].pc \in pcs
StepOf(e) ==
  LET s == positions[op[e].key].status IN
  /\ op[e].pc \in {"gated", "bought"} => s = "NONE"
  /\ op[e].pc \in {"closing", "requesting"} => s = "OPEN"
  /\ op[e].pc \in {"requested", "sold", "finishing"} => s = "CLOSING"
RowOf(e, k) ==
  /\ positions[k].status = "CLOSING" =>
       Trading(e, k, {"requested", "sold", "finishing"})
  /\ positions[k].status = "CLOSED" <=> positions[k].reason # "none"
  /\ debits[k] = IF positions[k].status # "NONE" \/ Trading(e, k, {"bought"})
                 THEN 1 ELSE 0
  /\ credits[k] = IF \/ positions[k].reason = "TRADE"
                     \/ Trading(e, k, {"sold", "finishing"})
                  THEN 1 ELSE 0

(* With one engine and no dashboard booting beside it, until something      *)
(* fails: StepInv ties the status of a row to the point its handler has     *)
(* reached, BootInv keeps a rebase out of the engine's handlers.            *)
LEMMA StepsAreInOrder ==
  ASSUME Undisturbed
  PROVE  Spec => [](Unfailed => BootInv /\ StepInv /\ BookedOnce)
<1> DEFINE Inv == Unfailed => BootInv /\ StepInv /\ BookedOnce
           Of(e) == StepOf(e) /\ \A k \in Keys : RowOf(e, k)
<1>1. Init => Inv
  BY DEF Init, BootInv, StepInv, BookedOnce, NoRow, Idle, Procs, InHand
<1>2. ASSUME NEW e \in Engines PROVE Unfailed /\ StepInv /\ BookedOnce => Of(e)
  BY Undisturbed DEF Undisturbed, OneEngine, StepInv, BookedOnce,
     InHand, StepOf, RowOf, Trading
<1>3. ASSUME NEW e \in Engines PROVE BootInv' /\ Of(e)' => Inv'
  BY Undisturbed DEF Undisturbed, OneEngine, StepInv, BookedOnce,
     InHand, StepOf, RowOf, Trading
<1>4. TypeOK /\ Inv /\ [Next]_vars => Inv'
  <2> SUFFICES ASSUME TypeOK, BootInv, StepInv, BookedOnce, Unfailed,
                      [Next]_vars
               PROVE  Inv'
    BY Remembered
  <2> USE DEF BootInv
  <2>1. ASSUME NEW e \in Engines, NEW k \in Keys, NEW p \in Prices, PassGates(e, k, p)
        PROVE  Inv'
    <3>1. Of(e)
      BY <1>2
    <3>2. BootInv'
      BY <2>1, Undisturbed DEF PassGates, Undisturbed, OneEngine, TypeOK, Procs, Ready
    <3>3. Of(e)'
      BY <2>1, <3>1 DEF PassGates, Ready, Live, Idle, Closing, TypeOK, Rows, StepOf, RowOf, Trading
    <3> QED
      BY <3>2, <3>3, <1>3
  <2>2. ASSUME NEW e \in Engines, NEW k \in Keys, NEW p \in Prices, ReadForClose(e, k, p)
        PROVE  Inv'
    <3>1. Of(e)
      BY <1>2
    <3>2. BootInv'
      BY <2>2, Undisturbed DEF ReadForClose, Undisturbed, OneEngine, TypeOK, Procs, Ready
    <3>3. Of(e)'
      BY <2>2, <3>1 DEF ReadForClose, Ready, Live, Idle, Closing, TypeOK, Rows, StepOf, RowOf, Trading
    <3> QED
      BY <3>2, <3>3, <1>3
  <2>3. ASSUME NEW e \in Engines, Buy(e)
        PROVE  Inv'
    <3>1. Of(e)
      BY <1>2
    <3>2. BootInv'
      BY <2>3, Undisturbed DEF Buy, Undisturbed, OneEngine, TypeOK, Procs
    <3>3. Of(e)'
      BY <2>3, <3>1, HandlerType DEF Buy, Handlers, Idle, Closing, TypeOK, Rows, StepOf, RowOf, Trading
    <3> QED
      BY <3>2, <3>3, <1>3
  <2>4. ASSUME NEW e \in Engines, InsertPosition(e)
        PROVE  Inv'
    <3>1. Of(e)
      BY <1>2
    <3>2. BootInv'
      BY <2>4, Undisturbed DEF InsertPosition, Undisturbed, OneEngine, TypeOK, Procs
    <3>3. Of(e)'
      BY <2>4, <3>1, HandlerType DEF InsertPosition, Handlers, Idle, Closing, TypeOK, Rows, StepOf, RowOf, Trading
    <3> QED
      BY <3>2, <3>3, <1>3
  <2>5. ASSUME NEW e \in Engines, RequestRead(e)
        PROVE  Inv'
    <3>1. Of(e)
      BY <1>2
    <3>2. BootInv'
      BY <2>5, Undisturbed DEF RequestRead, Undisturbed, OneEngine, TypeOK, Procs
    <3>3. Of(e)'
      BY <2>5, <3>1, HandlerType DEF RequestRead, Handlers, Idle, Closing, TypeOK, Rows, StepOf, RowOf, Trading
    <3> QED
      BY <3>2, <3>3, <1>3
  <2>6. ASSUME NEW e \in Engines, RequestWrite(e)
        PROVE  Inv'
    <3>1. Of(e)
      BY <1>2
    <3>2. BootInv'
      BY <2>6, Undisturbed DEF RequestWrite, Undisturbed, OneEngine, TypeOK, Procs
    <3>3. Of(e)'
      BY <2>6, <3>1, HandlerType DEF RequestWrite, Handlers, Idle, Closing, TypeOK, Rows, StepOf, RowOf, Trading
    <3> QED
      BY <3>2, <3>3, <1>3
  <2>7. ASSUME NEW e \in Engines, Sell(e)
        PROVE  Inv'
    <3>1. Of(e)
      BY <1>2
    <3>2. BootInv'
      BY <2>7, Undisturbed DEF Sell, Undisturbed, OneEngine, TypeOK, Procs
    <3>3. Of(e)'
      BY <2>7, <3>1, HandlerType DEF Sell, Handlers, Idle, Closing, TypeOK, Rows, StepOf, RowOf, Trading
    <3> QED
      BY <3>2, <3>3, <1>3
  <2>8. ASSUME NEW e \in Engines, CloseRead(e)
        PROVE  Inv'
    <3>1. Of(e)
      BY <1>2
    <3>2. BootInv'
      BY <2>8, Undisturbed DEF CloseRead, Undisturbed, OneEngine, TypeOK, Procs
    <3>3. Of(e)'
      BY <2>8, <3>1, HandlerType DEF CloseRead, Handlers, LegalTransitions, Idle, Closing, TypeOK, Rows, StepOf, RowOf, Trading
    <3> QED
      BY <3>2, <3>3, <1>3
  <2>9. ASSUME NEW e \in Engines, CloseWrite(e)
        PROVE  Inv'
    <3>1. Of(e)
      BY <1>2
    <3>2. BootInv'
      BY <2>9, Undisturbed DEF CloseWrite, Undisturbed, OneEngine, TypeOK, Procs
    <3>3. Of(e)'
      <4>1. op'[e].pc = "idle" /\ op'[e].key \notin Keys
        BY <2>9, RowAfterClose, BookingAssumption DEF TypeOK, Idle
      <4>2. ASSUME NEW k \in Keys PROVE RowOf(e, k)'
        <5>1. CASE k # op[e].key
          <6>1. /\ positions'[k] = positions[k]
                /\ debits'[k] = debits[k] /\ credits'[k] = credits[k]
            BY <2>9, <5>1, RowAfterClose
          <6> QED
            BY <3>1, <4>1, <5>1, <6>1 DEF RowOf, Trading
        <5>2. CASE k = op[e].key
          <6>1. /\ op[e].pc = "finishing" /\ positions[k].status = "CLOSING"
                /\ positions'[k].status = "CLOSED" /\ positions'[k].reason = "TRADE"
                /\ debits'[k] = debits[k] /\ credits'[k] = credits[k]
            BY <2>9, <3>1, <5>2, RowAfterClose DEF StepOf
          <6> QED
            BY <3>1, <4>1, <5>2, <6>1 DEF RowOf, Trading
        <5> QED
          BY <5>1, <5>2
      <4> QED
        BY <4>1, <4>2 DEF StepOf
    <3> QED
      BY <3>2, <3>3, <1>3
  <2>10. ASSUME NEW e \in Engines, Interrupt(e)
        PROVE  Inv'
    BY <2>10 DEF Interrupt, Unfailed, TypeOK
  <2>11. ASSUME NEW p \in Procs, NEW c \in Capitals, DetectDrift(p, c)
        PROVE  Inv'
    <3>1. p \in Engines
      BY <2>11, Undisturbed DEF DetectDrift, Undisturbed, Procs
    <3>2. Of(p)
      BY <3>1, <1>2
    <3>3. BootInv'
      BY <2>11, <3>1, BookingAssumption DEF DetectDrift, Ready, TypeOK, Procs
    <3>4. Of(p)'
      BY <2>11, <3>1, <3>2 DEF DetectDrift, Live, TypeOK, Rows, StepOf, RowOf, Trading
    <3> QED
      BY <3>1, <3>3, <3>4, <1>3
  <2>12. ASSUME NEW p \in Procs, RebaseCapital(p)
        PROVE  Inv'
    <3>1. p \in Engines
      BY <2>12, Undisturbed DEF RebaseCapital, Undisturbed, Procs
    <3>2. Of(p)
      BY <3>1, <1>2
    <3>3. BootInv'
      BY <2>12, <3>1, BookingAssumption DEF RebaseCapital, Ready, TypeOK, Procs
    <3>4. /\ UNCHANGED <<op, debits, credits>>
          /\ op[p].pc = "idle"
      BY <2>12, <3>1 DEF RebaseCapital, TypeOK, Procs
    <3>5. \A k \in Keys :
            IF positions[k].status \in {"OPEN", "CLOSING"}
            THEN /\ positions'[k].status = "CLOSED"
                 /\ positions'[k].reason = "CAPITAL_REBASE"
            ELSE positions'[k] = positions[k]
      BY <2>12 DEF RebaseCapital, Live, TypeOK, Rows
    <3>6. \A k \in Keys : RowOf(p, k)'
      BY <3>2, <3>4, <3>5 DEF RowOf, Trading
    <3>7. Of(p)'
      BY <3>4, <3>6 DEF StepOf
    <3> QED
      BY <3>1, <3>3, <3>7, <1>3
  <2>13. ASSUME NEW c \in Capitals, ResetBook(c)
        PROVE  Inv'
    BY <2>13, ResetWipes DEF Unfailed
  <2>14. CASE UNCHANGED vars
    BY <2>14 DEF vars, StepInv, BookedOnce, InHand
  <2> QED
    BY <2>1, <2>2, <2>3, <2>4, <2>5, <2>6, <2>7, <2>8, <2>9,
       <2>10, <2>11, <2>12, <2>13, <2>14 DEF Next, EngineStep
<1> QED
  BY <1>1, <1>4, TypeCorrect, PTL DEF Spec

(* Until something fails, with one engine and the dashboard not booting     *)
(* beside it, every trade is debited exactly once and credited exactly once: *)
(* the three commits of a trade are as good as one.                         *)
THEOREM TradesAreBookedOnce ==
  ASSUME Undisturbed
  PROVE  Spec => []BookedOnce
<1>1. (Unfailed => BootInv /\ StepInv /\ BookedOnce) => BookedOnce
  BY DEF BookedOnce
<1> QED
  BY <1>1, StepsAreInOrder, PTL
===============================================================================
