-------------------------- MODULE TradeLedger_proofs --------------------------
(* Booking implements TradeLedger: with one engine and no dashboard booting   *)
(* beside it, until something fails, the separate commits of a trade cannot   *)
(* be told from a book in which every trade is one event. And the sums of     *)
(* that one book: what the ledger holds is what the rows add up to.           *)
EXTENDS Booking_proofs, DataFacts

(* The abstract stage and cost of a key, as the one engine there is fixes     *)
(* them.                                                                      *)
StageIn(e, k) ==
  IF Trading(e, k, {"sold", "finishing"}) \/ positions[k].status = "CLOSED"
  THEN "done"
  ELSE IF Trading(e, k, {"bought"}) \/ Live(k) THEN "held"
  ELSE "none"
CostIn(e, k) ==
  IF Trading(e, k, {"bought"}) THEN op[e].fill ELSE positions[k].entry

(* With one engine, a trade has the stage and the cost its handler gives it. *)
LEMMA OneHand ==
  ASSUME Undisturbed, NEW e \in Engines, NEW k \in Keys
  PROVE  /\ stageOf(k) = StageIn(e, k) /\ stageOf(k)' = StageIn(e, k)'
         /\ costOf(k) = CostIn(e, k) /\ costOf(k)' = CostIn(e, k)'
<1>1. /\ InHand(k, {"sold", "finishing"}) <=> Trading(e, k, {"sold", "finishing"})
      /\ InHand(k, {"bought"}) <=> Trading(e, k, {"bought"})
  BY DEF Undisturbed, OneEngine, InHand, Trading
<1>2. /\ InHand(k, {"sold", "finishing"})' <=> Trading(e, k, {"sold", "finishing"})'
      /\ InHand(k, {"bought"})' <=> Trading(e, k, {"bought"})'
  BY DEF Undisturbed, OneEngine, InHand, Trading
<1>3. op[e].key = k => Hand(k) = e
  BY DEF Undisturbed, OneEngine, Hand
<1>4. op'[e].key = k => Hand(k)' = e
  BY DEF Undisturbed, OneEngine, Hand
<1>5. Trading(e, k, {"bought"}) => op[e].key = k
  BY DEF Trading
<1>6. Trading(e, k, {"bought"})' => op'[e].key = k
  BY DEF Trading
<1>7. stageOf(k) = StageIn(e, k)
  BY <1>1 DEF stageOf, StageIn
<1>8. stageOf(k)' = StageIn(e, k)'
  BY <1>2 DEF stageOf, StageIn
<1>9. costOf(k) = CostIn(e, k)
  BY <1>1, <1>3, <1>5 DEF costOf, CostIn
<1>10. costOf(k)' = CostIn(e, k)'
  BY <1>2, <1>4, <1>6 DEF costOf, CostIn
<1> QED
  BY <1>7, <1>8, <1>9, <1>10

(* A step that changes neither is no step of the account.                     *)
LEMMA Stutters ==
  ASSUME Undisturbed, NEW e \in Engines,
         \A k \in Keys : StageIn(e, k)' = StageIn(e, k) /\ CostIn(e, k)' = CostIn(e, k),
         ledger'.cash = ledger.cash, ledger'.realized = ledger.realized
  PROVE  UNCHANGED Account!vars
<1>1. \A k \in Keys : stageOf(k)' = stageOf(k) /\ costOf(k)' = costOf(k)
  BY OneHand
<1>2. [k \in Keys |-> stageOf(k)]' = [k \in Keys |-> stageOf(k)]
  BY <1>1
<1>3. [k \in Keys |-> costOf(k)]' = [k \in Keys |-> costOf(k)]
  BY <1>1
<1> QED
  BY <1>2, <1>3 DEF Account!vars

(* A rebase sets a capital of the .env file, and the row a handler closes has *)
(* cost what the handler read.                                                *)
AmountInv ==
  /\ \A p \in Procs : boot[p] \in Capitals \cup {0}
  /\ Unfailed => \A e \in Engines :
       op[e].pc \in Closing => op[e].basis = positions[op[e].key].entry

(* The amounts handlers hold are those of the rows they close. *)
LEMMA AmountsAreKept ==
  ASSUME Undisturbed
  PROVE  Spec => []AmountInv
<1> DEFINE Ordered == Unfailed => BootInv /\ StepInv /\ BookedOnce
           Basis(e) == op[e].pc \in Closing =>
                         op[e].basis = positions[op[e].key].entry
<1>1. Init => AmountInv
  BY DEF Init, AmountInv, Idle, Closing
<1>2. TypeOK /\ TypeOK' /\ Ordered /\ AmountInv /\ [Next]_vars => AmountInv'
  <2> SUFFICES ASSUME TypeOK, TypeOK', Ordered, AmountInv, [Next]_vars
               PROVE  AmountInv'
    OBVIOUS
  <2>1. \A p \in Procs : boot'[p] \in Capitals \cup {0}
    <3>1. CASE UNCHANGED boot
      BY <3>1 DEF AmountInv
    <3>2. ASSUME NEW p \in Procs, NEW c \in Capitals, DetectDrift(p, c)
          PROVE  \A q \in Procs : boot'[q] \in Capitals \cup {0}
      BY <3>2 DEF AmountInv, DetectDrift, TypeOK
    <3>3. ASSUME NEW p \in Procs, RebaseCapital(p)
          PROVE  \A q \in Procs : boot'[q] \in Capitals \cup {0}
      BY <3>3 DEF AmountInv, RebaseCapital, TypeOK
    <3> QED
      BY <3>1, <3>2, <3>3 DEF Next, EngineStep, PassGates, ReadForClose, Buy,
         InsertPosition, RequestRead, RequestWrite, Sell, CloseRead, CloseWrite,
         Interrupt, ResetBook, vars
  <2>2. ASSUME Unfailed'
        PROVE  \A e \in Engines : Basis(e)'
    <3>0. BootInv /\ StepInv /\ \A e \in Engines : Basis(e)
      BY <2>2, Remembered DEF AmountInv
    <3> HIDE DEF Ordered
    <3> USE DEF TypeOK, Rows
    <3>1. ASSUME NEW e \in Engines, NEW k \in Keys, NEW p \in Prices, PassGates(e, k, p)
          PROVE  \A d \in Engines : Basis(d)'
      BY <3>0, <3>1 DEF PassGates, Closing
    <3>2. ASSUME NEW e \in Engines, NEW k \in Keys, NEW p \in Prices, ReadForClose(e, k, p)
          PROVE  \A d \in Engines : Basis(d)'
      BY <3>0, <3>2 DEF ReadForClose, Closing
    <3>3. ASSUME NEW e \in Engines, Buy(e)
          PROVE  \A d \in Engines : Basis(d)'
      BY <3>0, <3>3, HandlerType DEF Buy, Closing
    <3>4. ASSUME NEW e \in Engines, InsertPosition(e)
          PROVE  \A d \in Engines : Basis(d)'
      <4>1. \A d \in Engines : d = e
        BY DEF Undisturbed, OneEngine
      <4> QED
        BY <3>4, <4>1 DEF InsertPosition, Idle, Closing
    <3>5. ASSUME NEW e \in Engines, RequestRead(e)
          PROVE  \A d \in Engines : Basis(d)'
      BY <3>0, <3>5, HandlerType DEF RequestRead, Closing, Idle
    <3>6. ASSUME NEW e \in Engines, RequestWrite(e)
          PROVE  \A d \in Engines : Basis(d)'
      <4>1. \A k \in Keys : positions'[k].entry = positions[k].entry
        BY <3>6 DEF RequestWrite
      <4>2. \A d \in Engines : d = e
        BY DEF Undisturbed, OneEngine
      <4>3. op[e].key \in Keys /\ op[e].pc \in Closing
        BY <3>6, HandlerType DEF RequestWrite, Closing
      <4>4. \/ op'[e] = Idle
            \/ op'[e].key = op[e].key /\ op'[e].basis = op[e].basis
        <5>1. op' = [op EXCEPT ![e] = Idle] \/ op' = [op EXCEPT ![e].pc = "requested"]
          BY <3>6 DEF RequestWrite
        <5>2. op[e] \in Handlers
          BY <3>6, HandlerType DEF RequestWrite
        <5>3. /\ [op[e] EXCEPT !.pc = "requested"].key = op[e].key
              /\ [op[e] EXCEPT !.pc = "requested"].basis = op[e].basis
          BY <5>2 DEF Handlers
        <5>4. op'[e] = Idle \/ op'[e] = [op[e] EXCEPT !.pc = "requested"]
          BY <5>1
        <5> QED
          BY <5>3, <5>4
      <4> QED
        BY <3>0, <4>1, <4>2, <4>3, <4>4 DEF Closing, Idle
    <3>7. ASSUME NEW e \in Engines, Sell(e)
          PROVE  \A d \in Engines : Basis(d)'
      BY <3>0, <3>7, HandlerType DEF Sell, Closing
    <3>8. ASSUME NEW e \in Engines, CloseRead(e)
          PROVE  \A d \in Engines : Basis(d)'
      BY <3>0, <3>8, HandlerType DEF CloseRead, Closing, Idle
    <3>9. ASSUME NEW e \in Engines, CloseWrite(e)
          PROVE  \A d \in Engines : Basis(d)'
      <4>1. \A d \in Engines : d = e
        BY DEF Undisturbed, OneEngine
      <4> QED
        BY <3>9, <4>1 DEF CloseWrite, Idle, Closing
    <3>10. ASSUME NEW e \in Engines, Interrupt(e)
           PROVE  \A d \in Engines : Basis(d)'
      BY <3>0, <3>10 DEF Interrupt, Idle, Closing
    <3>11. ASSUME NEW p \in Procs, NEW c \in Capitals, DetectDrift(p, c)
           PROVE  \A d \in Engines : Basis(d)'
      BY <3>0, <3>11 DEF DetectDrift
    <3>12. ASSUME NEW p \in Procs, RebaseCapital(p)
           PROVE  \A d \in Engines : Basis(d)'
      <4>1. p \in Engines /\ \A d \in Engines : d = p
        BY <3>0, <3>12 DEF Undisturbed, OneEngine, RebaseCapital, BootInv, Procs
      <4>2. op[p].pc = "idle" /\ op' = op
        BY <3>0, <3>12, <4>1 DEF RebaseCapital, BootInv
      <4> QED
        BY <4>1, <4>2 DEF Closing
    <3>13. ASSUME NEW c \in Capitals, ResetBook(c)
           PROVE  \A d \in Engines : Basis(d)'
      BY <2>2, <3>13, ResetWipes DEF Unfailed
    <3>14. CASE UNCHANGED vars
      BY <3>0, <3>14 DEF vars
    <3> QED
      BY <3>1, <3>2, <3>3, <3>4, <3>5, <3>6, <3>7, <3>8, <3>9, <3>10, <3>11,
         <3>12, <3>13, <3>14 DEF Next, EngineStep
  <2> QED
    BY <2>1, <2>2 DEF AmountInv
<1> QED
  BY <1>1, <1>2, TypeCorrect, StepsAreInOrder, PTL DEF Spec

(* Every step of the program is a step of the account, or leaves it as it is, *)
(* until something fails: the debit enters the trade, the credit leaves it,   *)
(* and every other commit of the two handlers moves neither.                  *)
THEOREM OneEngineKeepsTheAccount ==
  ASSUME Undisturbed
  PROVE  Spec => AccountSpec
<1> DEFINE Ordered == Unfailed => BootInv /\ StepInv /\ BookedOnce
           Step == Account!Next \/ UNCHANGED Account!vars
           Same(e) == \A k \in Keys : /\ StageIn(e, k)' = StageIn(e, k)
                                      /\ CostIn(e, k)' = CostIn(e, k)
<1>1. Init => Account!Init
  <2> SUFFICES ASSUME Init PROVE Account!Init
    OBVIOUS
  <2>1. \A k \in Keys : stageOf(k) = "none" /\ costOf(k) = 0
    BY DEF Init, stageOf, costOf, InHand, Live, NoRow, Idle
  <2>2. \E c \in Capitals : ledger.cash = c /\ ledger.realized = 0
    BY DEF Init
  <2> QED
    BY <2>1, <2>2 DEF Account!Init
<1>2. TypeOK /\ TypeOK' /\ Ordered /\ AmountInv /\ [Next]_vars /\ Unfailed' => Step
  <2> SUFFICES ASSUME TypeOK, TypeOK', Ordered, AmountInv, [Next]_vars, Unfailed'
               PROVE  Step
    OBVIOUS
  <2>0. /\ BootInv /\ StepInv
        /\ \A e \in Engines : op[e].pc \in Closing =>
             op[e].basis = positions[op[e].key].entry
    BY Remembered DEF AmountInv
  <2>00. \A e \in Engines : StepOf(e)
    BY <2>0 DEF StepInv, StepOf
  <2> HIDE DEF Ordered
  <2>1. ASSUME NEW e \in Engines, NEW k \in Keys, NEW p \in Prices, PassGates(e, k, p)
        PROVE  Step
    <3>1. Same(e)
      BY <2>1 DEF PassGates, Ready, TypeOK, StageIn, CostIn, Trading, Live
    <3> QED
      BY <2>1, <3>1, Stutters DEF PassGates
  <2>2. ASSUME NEW e \in Engines, NEW k \in Keys, NEW p \in Prices, ReadForClose(e, k, p)
        PROVE  Step
    <3>1. Same(e)
      BY <2>2 DEF ReadForClose, Ready, TypeOK, StageIn, CostIn, Trading, Live
    <3> QED
      BY <2>2, <3>1, Stutters DEF ReadForClose
  <2>3. ASSUME NEW e \in Engines, Buy(e)
        PROVE  Step
    <3> DEFINE k == op[e].key
               g == op[e].fill
    <3>1. k \in Keys /\ g \in Fills
      BY <2>3, HandlerType DEF Buy, Handlers
    <3>2. /\ op[e].pc = "gated" /\ op' = [op EXCEPT ![e].pc = "bought"]
          /\ positions' = positions
      BY <2>3 DEF Buy
    <3>3. op'[e].pc = "bought" /\ op'[e].key = k /\ op'[e].fill = g
      BY <3>2 DEF TypeOK, Handlers, Idle
    <3>4. positions[k].status = "NONE"
      BY <2>00, <3>2 DEF StepOf
    <3> HIDE DEF k, g
    <3>5. \A j \in Keys : /\ StageIn(e, j)' = IF j = k THEN "held" ELSE StageIn(e, j)
                          /\ CostIn(e, j)' = IF j = k THEN g ELSE CostIn(e, j)
      BY <3>2, <3>3, <3>4 DEF StageIn, CostIn, Trading, Live, k, g
    <3>6. StageIn(e, k) = "none"
      BY <3>1, <3>2, <3>4 DEF StageIn, Trading, Live
    <3>7. /\ ledger'.cash = ledger.cash - (g + FeeOf[g])
          /\ ledger'.realized = ledger.realized
      BY <2>3 DEF Buy, TypeOK, Ledgers, k, g
    <3>8. Account!Enter(k, g)
      <4>1. /\ \A j \in Keys : stageOf(j)' = IF j = k THEN "held" ELSE stageOf(j)
            /\ \A j \in Keys : costOf(j)' = IF j = k THEN g ELSE costOf(j)
            /\ stageOf(k) = "none"
        BY <3>1, <3>5, <3>6, OneHand
      <4> QED
        BY <3>1, <3>7, <4>1 DEF Account!Enter
    <3> QED
      BY <3>1, <3>8 DEF Account!Next
  <2>4. ASSUME NEW e \in Engines, InsertPosition(e)
        PROVE  Step
    <3>1. Same(e)
      BY <2>4, <2>00, HandlerType
      DEF InsertPosition, TypeOK, Handlers, StepOf, StageIn, CostIn, Trading, Live, Idle
    <3> QED
      BY <2>4, <3>1, Stutters DEF InsertPosition
  <2>5. ASSUME NEW e \in Engines, RequestRead(e)
        PROVE  Step
    <3>1. Same(e)
      BY <2>5, <2>00, HandlerType
      DEF RequestRead, TypeOK, Handlers, StepOf, StageIn, CostIn, Trading, Live, Idle
    <3> QED
      BY <2>5, <3>1, Stutters DEF RequestRead
  <2>6. ASSUME NEW e \in Engines, RequestWrite(e)
        PROVE  Step
    <3>1. Same(e)
      BY <2>6, <2>00, HandlerType
      DEF RequestWrite, TypeOK, Rows, Handlers, StepOf, StageIn, CostIn, Trading, Live, Idle
    <3> QED
      BY <2>6, <3>1, Stutters DEF RequestWrite
  <2>7. ASSUME NEW e \in Engines, Sell(e)
        PROVE  Step
    <3> DEFINE k == op[e].key
               g == op[e].fill
    <3>1. k \in Keys /\ g \in Fills
      BY <2>7, HandlerType DEF Sell, Handlers
    <3>2. /\ op[e].pc = "requested" /\ op' = [op EXCEPT ![e].pc = "sold"]
          /\ positions' = positions
      BY <2>7 DEF Sell
    <3>3. op'[e].pc = "sold" /\ op'[e].key = k
      BY <3>2 DEF TypeOK, Handlers, Idle
    <3>4. positions[k].status = "CLOSING" /\ op[e].basis = positions[k].entry
      BY <2>0, <2>00, <3>2 DEF StepOf, Closing
    <3> HIDE DEF k, g
    <3>5. \A j \in Keys : /\ StageIn(e, j)' = IF j = k THEN "done" ELSE StageIn(e, j)
                          /\ CostIn(e, j)' = CostIn(e, j)
      BY <3>2, <3>3, <3>4 DEF StageIn, CostIn, Trading, Live, k, g
    <3>6. StageIn(e, k) = "held" /\ CostIn(e, k) = op[e].basis
      BY <3>1, <3>2, <3>4 DEF StageIn, CostIn, Trading, Live
    <3>7. /\ ledger'.cash = ledger.cash + (g - FeeOf[g])
          /\ ledger'.realized = ledger.realized + (g - op[e].basis - FeeOf[g])
      BY <2>7 DEF Sell, TypeOK, Ledgers, k, g
    <3>8. Account!Leave(k, g)
      <4>1. /\ \A j \in Keys : stageOf(j)' = IF j = k THEN "done" ELSE stageOf(j)
            /\ \A j \in Keys : costOf(j)' = costOf(j)
            /\ stageOf(k) = "held" /\ costOf(k) = op[e].basis
        BY <3>1, <3>5, <3>6, OneHand
      <4> QED
        BY <3>1, <3>7, <4>1 DEF Account!Leave
    <3> QED
      BY <3>1, <3>8 DEF Account!Next
  <2>8. ASSUME NEW e \in Engines, CloseRead(e)
        PROVE  Step
    <3>1. Same(e)
      BY <2>8, <2>00, HandlerType
      DEF CloseRead, TypeOK, Handlers, LegalTransitions, StepOf, StageIn, CostIn, Trading, Live, Idle
    <3> QED
      BY <2>8, <3>1, Stutters DEF CloseRead
  <2>9. ASSUME NEW e \in Engines, CloseWrite(e)
        PROVE  Step
    <3>1. Same(e)
      BY <2>9, <2>00, HandlerType
      DEF CloseWrite, TypeOK, Rows, Handlers, StepOf, StageIn, CostIn, Trading, Live, Idle
    <3> QED
      BY <2>9, <3>1, Stutters DEF CloseWrite
  <2>10. ASSUME NEW e \in Engines, Interrupt(e)
         PROVE  Step
    BY <2>10 DEF Interrupt, Unfailed, TypeOK
  <2>11. ASSUME NEW p \in Procs, NEW c \in Capitals, DetectDrift(p, c)
         PROVE  Step
    BY <2>11 DEF DetectDrift, Account!vars, stageOf, costOf, InHand, Hand, Live
  <2>12. ASSUME NEW p \in Procs, RebaseCapital(p)
         PROVE  Step
    <3>1. p \in Engines /\ boot[p] \in Capitals /\ op[p].pc = "idle" /\ op' = op
      BY <2>0, <2>12 DEF RebaseCapital, BootInv, Procs, AmountInv
    <3>2. \A k \in Keys :
            /\ positions'[k].status =
                 IF Live(k) THEN "CLOSED" ELSE positions[k].status
            /\ positions'[k].entry = positions[k].entry
      <4>1. \A k \in Keys : positions'[k] =
              IF Live(k)
              THEN [positions[k] EXCEPT !.status = "CLOSED", !.realized = 0,
                                        !.reason = "CAPITAL_REBASE"]
              ELSE positions[k]
        BY <2>12 DEF RebaseCapital
      <4>2. \A r \in Rows :
              LET written == [r EXCEPT !.status = "CLOSED", !.realized = 0,
                                       !.reason = "CAPITAL_REBASE"]
              IN  written.status = "CLOSED" /\ written.entry = r.entry
        BY DEF Rows
      <4>3. \A k \in Keys : positions[k] \in Rows
        BY DEF TypeOK
      <4> QED
        BY <4>1, <4>2, <4>3
    <3>3. \A k \in Keys :
            /\ StageIn(p, k)' = IF StageIn(p, k) = "held" THEN "done" ELSE StageIn(p, k)
            /\ CostIn(p, k)' = CostIn(p, k)
      BY <3>1, <3>2 DEF StageIn, CostIn, Trading, Live
    <3>4. ledger'.cash = boot[p] /\ ledger'.realized = ledger.realized
      BY <2>12 DEF RebaseCapital, TypeOK, Ledgers
    <3>5. /\ \A k \in Keys : stageOf(k)' = IF stageOf(k) = "held" THEN "done" ELSE stageOf(k)
          /\ \A k \in Keys : costOf(k)' = costOf(k)
      BY <3>1, <3>3, OneHand
    <3>6. Account!Rebase(boot[p])
      BY <3>4, <3>5 DEF Account!Rebase
    <3> QED
      BY <3>1, <3>6 DEF Account!Next
  <2>13. ASSUME NEW c \in Capitals, ResetBook(c)
         PROVE  Step
    BY <2>13, ResetWipes DEF Unfailed
  <2>14. CASE UNCHANGED vars
    BY <2>14 DEF vars, Account!vars, stageOf, costOf, InHand, Hand, Live
  <2> QED
    BY <2>1, <2>2, <2>3, <2>4, <2>5, <2>6, <2>7, <2>8, <2>9, <2>10, <2>11,
       <2>12, <2>13, <2>14 DEF Next, EngineStep
<1>3. TypeOK /\ TypeOK' /\ Ordered /\ AmountInv /\ [Next]_vars
        => [Unfailed' => Account!Next]_(Account!vars)
  BY <1>2
<1> QED
  BY <1>1, <1>3, TypeCorrect, StepsAreInOrder, AmountsAreKept, PTL
  DEF Spec, AccountSpec

-------------------------------------------------------------------------------
(* The ledger against the sum of the rows.                                    *)

(* What the ledger has booked for a key: the row's part of it, ahead of the   *)
(* row by what the engine has in hand.                                        *)
FlowIn(e, k) ==
  LET g == op[e].fill
      paid == positions[k].entry + FeeOf[positions[k].entry]
  IN  IF Trading(e, k, {"bought"}) THEN 0 - (g + FeeOf[g])
      ELSE IF Trading(e, k, {"sold", "finishing"}) THEN g - FeeOf[g] - paid
      ELSE CashOf(k)
ResultIn(e, k) ==
  LET g == op[e].fill
  IN  IF Trading(e, k, {"sold", "finishing"})
      THEN g - positions[k].entry - FeeOf[g]
      ELSE positions[k].realized
Entered(e) ==
  {k \in Keys : positions[k].status # "NONE" \/ Trading(e, k, {"bought"})}
Left(e) ==
  {k \in Keys : positions[k].reason = "TRADE" \/ Trading(e, k, {"sold", "finishing"})}

(* A row's cost is that of a fill, a row not closed has no result yet, and    *)
(* what a rebase wrote off is closed.                                         *)
RowInv ==
  /\ \A k \in Keys :
       /\ positions[k].status # "NONE" => positions[k].entry \in Fills
       /\ positions[k].status # "CLOSED" => positions[k].realized = 0
  /\ \A k \in settled : positions[k].status = "CLOSED"

Agree(e) ==
  /\ ledger.cash = ledger.starting
       + SumFunctionOnSet([k \in Keys |-> FlowIn(e, k)], Keys \ settled)
  /\ ledger.realized = SumFunctionOnSet([k \in Keys |-> ResultIn(e, k)], Keys)
  /\ ledger.opened = Cardinality(Entered(e))
  /\ ledger.closed = Cardinality(Left(e))

Whole ==
  \A e \in Engines, k \in Keys : FlowIn(e, k) \in Int /\ ResultIn(e, k) \in Int

(* With the rows in order, every amount is a whole number.                    *)
LEMMA AmountsAreWhole == TypeOK /\ StepInv /\ RowInv => Whole
<1> SUFFICES ASSUME TypeOK, StepInv, RowInv, NEW e \in Engines, NEW k \in Keys
             PROVE  FlowIn(e, k) \in Int /\ ResultIn(e, k) \in Int
  BY DEF Whole
<1>1. positions[k] \in Rows
  BY DEF TypeOK
<1>2. Trading(e, k, {"bought", "sold", "finishing"}) =>
        op[e].fill \in Nat /\ FeeOf[op[e].fill] \in Nat
  BY HandlerType DEF Trading
<1>3. /\ positions[k].realized \in Int
      /\ positions[k].status # "NONE" =>
           positions[k].entry \in Nat /\ FeeOf[positions[k].entry] \in Nat
  BY <1>1, FillsAreAmounts DEF RowInv, Rows
<1>4. Trading(e, k, {"sold", "finishing"}) => positions[k].status # "NONE"
  BY DEF StepInv, Trading
<1>5. positions[k].reason = "TRADE" => positions[k].status # "NONE"
  BY DEF StepInv
<1>6. CashOf(k) \in Int
  BY <1>3, <1>5 DEF CashOf
<1>7. FlowIn(e, k) \in Int
  BY <1>2, <1>3, <1>4, <1>6 DEF FlowIn, Trading
<1>8. ResultIn(e, k) \in Int
  BY <1>2, <1>3, <1>4 DEF ResultIn, Trading
<1> QED
  BY <1>7, <1>8

(* A commit that moves no amount leaves the books in agreement.               *)
LEMMA NothingMoves ==
  ASSUME NEW e \in Engines, Agree(e),
         \A k \in Keys : FlowIn(e, k)' = FlowIn(e, k) /\ ResultIn(e, k)' = ResultIn(e, k),
         Entered(e)' = Entered(e), Left(e)' = Left(e),
         UNCHANGED <<ledger, settled>>
  PROVE  Agree(e)'
<1>1. [k \in Keys |-> FlowIn(e, k)]' = [k \in Keys |-> FlowIn(e, k)]
  OBVIOUS
<1>2. [k \in Keys |-> ResultIn(e, k)]' = [k \in Keys |-> ResultIn(e, k)]
  OBVIOUS
<1> QED
  BY <1>1, <1>2 DEF Agree

(* A commit of the ledger books the flow and the result of one key, and the   *)
(* ledger moves by as much.                                                   *)
LEMMA OneKeyMoves ==
  ASSUME TypeOK, NEW e \in Engines, Agree(e), IsFiniteSet(Keys),
         NEW k \in Keys \ settled, settled' = settled,
         \A j \in Keys : FlowIn(e, j) \in Int /\ ResultIn(e, j) \in Int,
         \A j \in Keys : FlowIn(e, j)' \in Int /\ ResultIn(e, j)' \in Int,
         \A j \in Keys \ {k} : /\ FlowIn(e, j)' = FlowIn(e, j)
                               /\ ResultIn(e, j)' = ResultIn(e, j),
         ledger'.starting = ledger.starting,
         ledger'.cash = ledger.cash + (FlowIn(e, k)' - FlowIn(e, k)),
         ledger'.realized = ledger.realized + (ResultIn(e, k)' - ResultIn(e, k)),
         ledger'.opened = Cardinality(Entered(e)'),
         ledger'.closed = Cardinality(Left(e)')
  PROVE  Agree(e)'
<1> DEFINE f == [j \in Keys |-> FlowIn(e, j)]
           g == [j \in Keys |-> FlowIn(e, j)']
           r == [j \in Keys |-> ResultIn(e, j)]
           s == [j \in Keys |-> ResultIn(e, j)']
           D == Keys \ settled
           K == Keys
<1>1. /\ \A j \in Keys : f[j] \in Int /\ g[j] \in Int /\ r[j] \in Int /\ s[j] \in Int
      /\ \A j \in Keys \ {k} : g[j] = f[j] /\ s[j] = r[j]
      /\ f[k] = FlowIn(e, k) /\ g[k] = FlowIn(e, k)'
      /\ r[k] = ResultIn(e, k) /\ s[k] = ResultIn(e, k)'
  OBVIOUS
<1>2. IsFiniteSet(D) /\ k \in D /\ D \subseteq Keys /\ IsFiniteSet(K)
  BY FS_Subset
<1>3. f' = g /\ r' = s /\ D' = D
  OBVIOUS
<1>4. /\ ledger.cash = ledger.starting + SumFunctionOnSet(f, D)
      /\ ledger.realized = SumFunctionOnSet(r, K)
      /\ ledger.starting \in Int
  BY DEF Agree, TypeOK, Ledgers
<1> HIDE DEF f, g, r, s, D, K
<1>5. /\ SumFunctionOnSet(f, D) \in Int
      /\ SumFunctionOnSet(g, D) = SumFunctionOnSet(f, D) + g[k] - f[k]
  <2>1. \A j \in D : f[j] \in Int /\ g[j] \in Int
    BY <1>1, <1>2
  <2>2. \A j \in D \ {k} : g[j] = f[j]
    BY <1>1, <1>2
  <2>3. SumFunctionOnSet(f, D) \in Int
    BY ONLY <1>2, <2>1, SumOfOneMore
  <2>4. SumFunctionOnSet(g, D) = SumFunctionOnSet(f, D) + g[k] - f[k]
    BY ONLY <1>2, <2>1, <2>2, SumChanges
  <2> QED
    BY <2>3, <2>4
<1>6. /\ SumFunctionOnSet(r, K) \in Int
      /\ SumFunctionOnSet(s, K) = SumFunctionOnSet(r, K) + s[k] - r[k]
  <2>1. k \in K /\ \A j \in K : r[j] \in Int /\ s[j] \in Int
    BY <1>1, <1>2 DEF K
  <2>2. \A j \in K \ {k} : s[j] = r[j]
    BY <1>1 DEF K
  <2>3. SumFunctionOnSet(r, K) \in Int
    BY ONLY <1>2, <2>1, SumOfOneMore
  <2>4. SumFunctionOnSet(s, K) = SumFunctionOnSet(r, K) + s[k] - r[k]
    BY ONLY <1>2, <2>1, <2>2, SumChanges
  <2> QED
    BY <2>3, <2>4
<1>7. f[k] \in Int /\ g[k] \in Int /\ r[k] \in Int /\ s[k] \in Int
  BY <1>1
<1>8. ledger'.cash = ledger'.starting + SumFunctionOnSet(g, D)
  BY <1>1, <1>4, <1>5, <1>7
<1>9. ledger'.realized = SumFunctionOnSet(s, K)
  BY <1>1, <1>4, <1>6, <1>7
<1>10. /\ ledger'.cash = ledger'.starting + SumFunctionOnSet(f, D)'
       /\ ledger'.realized = SumFunctionOnSet(r, K)'
  BY <1>3, <1>8, <1>9 DEF K
<1> QED
  BY <1>10 DEF Agree, f, r, D, K

(* What the rows keep: by StepInv and the cost each handler carries.          *)
LEMMA RowsAreKept ==
  ASSUME Undisturbed, TypeOK, TypeOK', BootInv, StepInv, AmountInv, RowInv,
         [Next]_vars, Unfailed'
  PROVE  RowInv'
<1>0. \A e \in Engines : StepOf(e)
  BY DEF StepInv, StepOf
<1> DEFINE Kept ==
      \A k \in Keys : \/ positions'[k] = positions[k]
                      \/ /\ positions'[k].entry \in Fills
                         /\ positions[k].status # "CLOSED"
                         /\ positions'[k].status # "CLOSED" => positions'[k].realized = 0
<1>1. ASSUME Kept, UNCHANGED settled
      PROVE  RowInv'
  <2>1. \A k \in Keys :
          /\ positions'[k].status # "NONE" => positions'[k].entry \in Fills
          /\ positions'[k].status # "CLOSED" => positions'[k].realized = 0
    BY <1>1 DEF RowInv
  <2>2. \A k \in settled : k \in Keys /\ positions[k].status = "CLOSED"
    BY DEF RowInv, TypeOK
  <2>3. \A k \in settled : positions'[k].status = "CLOSED"
    BY <1>1, <2>2
  <2> QED
    BY <1>1, <2>1, <2>3 DEF RowInv
<1>2. CASE UNCHANGED <<positions, settled>>
  BY <1>1, <1>2
<1>3. ASSUME NEW e \in Engines, InsertPosition(e)
      PROVE  RowInv'
  <2>1. op[e].fill \in Fills /\ op[e].key \in Keys
    BY <1>3, HandlerType DEF InsertPosition
  <2>2. Kept
    BY <1>3, <2>1 DEF InsertPosition, TypeOK
  <2> QED
    BY <1>1, <1>3, <2>2 DEF InsertPosition
<1>4. ASSUME NEW e \in Engines, RequestWrite(e)
      PROVE  RowInv'
  <2>1. op[e].key \in Keys /\ positions[op[e].key].status = "OPEN"
    BY <1>0, <1>4, HandlerType DEF RequestWrite, StepOf
  <2>2. Kept
    BY <1>4, <2>1 DEF RequestWrite, TypeOK, Rows, RowInv
  <2> QED
    BY <1>1, <1>4, <2>2 DEF RequestWrite
<1>5. ASSUME NEW e \in Engines, CloseWrite(e)
      PROVE  RowInv'
  <2>1. op[e].key \in Keys /\ positions[op[e].key].status = "CLOSING"
    BY <1>0, <1>5, HandlerType DEF CloseWrite, StepOf
  <2>2. Kept
    BY ZenonT(40), <1>5, <2>1 DEF CloseWrite, TypeOK, Rows, RowInv
  <2> QED
    BY <1>1, <1>5, <2>2 DEF CloseWrite
<1>6. ASSUME NEW p \in Procs, RebaseCapital(p)
      PROVE  RowInv'
  <2>1. \A k \in Keys :
          /\ positions[k] \in Rows
          /\ positions'[k] =
               IF Live(k)
               THEN [positions[k] EXCEPT !.status = "CLOSED", !.realized = 0,
                                         !.reason = "CAPITAL_REBASE"]
               ELSE positions[k]
    BY <1>6 DEF RebaseCapital, TypeOK
  <2>2. \A k \in Keys :
          /\ positions'[k].entry = positions[k].entry
          /\ positions'[k].status =
               IF Live(k) THEN "CLOSED" ELSE positions[k].status
          /\ ~Live(k) => positions'[k].realized = positions[k].realized
    BY <2>1 DEF Rows
  <2>3. \A k \in Keys : Live(k) \/ positions[k].status \in {"NONE", "CLOSED"}
    BY <2>1 DEF Rows, Live
  <2>4. settled' = {k \in Keys : positions[k].status # "NONE"}
    BY <1>6 DEF RebaseCapital
  <2>5. \A k \in Keys : Live(k) => positions[k].status # "NONE"
    BY DEF Live
  <2> QED
    BY <2>2, <2>3, <2>4, <2>5 DEF RowInv
<1>7. ASSUME NEW c \in Capitals, ResetBook(c)
      PROVE  RowInv'
  BY <1>7, ResetWipes DEF Unfailed
<1> QED
  BY <1>2, <1>3, <1>4, <1>5, <1>6, <1>7
  DEF Next, EngineStep, PassGates, ReadForClose, Buy, RequestRead, Sell,
      CloseRead, Interrupt, DetectDrift, vars

(* Until something fails, ledger and rows agree whenever the engine is        *)
(* between handlers. BooksInv says by how much the ledger is ahead in between. *)
BooksInv == Unfailed => RowInv /\ \A e \in Engines : Agree(e)

(* While nothing has failed and no handler is under way, cash is the starting
   capital less what open rows cost, fees included, and with what closed rows
   gained or lost; realized PnL and the two counters are those of the rows
   (PositionRepo, LedgerRepo), for one engine
   with no dashboard booting beside it. *)
THEOREM BooksAlwaysAgree ==
  ASSUME Undisturbed, Engines # {}, IsFiniteSet(Keys)
  PROVE  Spec => []BooksAgree
<1> DEFINE Ordered == Unfailed => BootInv /\ StepInv /\ BookedOnce
<1>1. Init => BooksInv
  <2> SUFFICES ASSUME Init, NEW e \in Engines PROVE RowInv /\ Agree(e)
    BY DEF BooksInv
  <2>1. \A k \in Keys : FlowIn(e, k) = 0 /\ ResultIn(e, k) = 0
    BY DEF Init, FlowIn, ResultIn, CashOf, Trading, Idle, NoRow
  <2>2. Entered(e) = {} /\ Left(e) = {}
    BY DEF Init, Entered, Left, Trading, Idle, NoRow
  <2>3. RowInv
    BY DEF Init, RowInv, NoRow
  <2> DEFINE f == [k \in Keys |-> FlowIn(e, k)]
             r == [k \in Keys |-> ResultIn(e, k)]
  <2>4. /\ \A k \in Keys : f[k] = 0 /\ r[k] = 0
        /\ settled = {} /\ Keys \ settled = Keys
    BY <2>1 DEF Init
  <2> HIDE DEF f, r
  <2>5. SumFunctionOnSet(f, Keys) = 0 /\ SumFunctionOnSet(r, Keys) = 0
    BY <2>4, SumOfZeros
  <2>6. /\ ledger.cash = ledger.starting /\ ledger.starting \in Int
        /\ ledger.realized = 0 /\ ledger.opened = 0 /\ ledger.closed = 0
    BY BookingAssumption DEF Init
  <2> QED
    BY <2>2, <2>3, <2>4, <2>5, <2>6, FS_EmptySet DEF Agree, f, r
<1>2. /\ TypeOK /\ TypeOK' /\ Ordered /\ Ordered' /\ AmountInv /\ BooksInv
      /\ [Next]_vars /\ (TypeOK' /\ StepInv' /\ RowInv' => Whole')
      => BooksInv'
  <2> SUFFICES ASSUME TypeOK, TypeOK', Ordered, Ordered', AmountInv, BooksInv,
                      [Next]_vars, TypeOK' /\ StepInv' /\ RowInv' => Whole',
                      Unfailed', NEW e \in Engines
               PROVE  RowInv' /\ Agree(e)'
    BY DEF BooksInv
  <2>0. /\ BootInv /\ StepInv /\ StepInv' /\ RowInv /\ Agree(e)
        /\ op[e].pc \in Closing => op[e].basis = positions[op[e].key].entry
    BY Remembered DEF AmountInv, BooksInv
  <2>1. RowInv'
    BY <2>0, RowsAreKept
  <2> SUFFICES Agree(e)'
    BY <2>1
  <2>2. /\ \A k \in Keys : FlowIn(e, k) \in Int /\ ResultIn(e, k) \in Int
        /\ \A k \in Keys : FlowIn(e, k)' \in Int /\ ResultIn(e, k)' \in Int
    BY <2>0, <2>1, AmountsAreWhole DEF Whole
  <2>3. StepOf(e) /\ \A d \in Engines : d = e
    BY <2>0 DEF StepInv, StepOf, Undisturbed, OneEngine
  <2> HIDE DEF Ordered
  <2> DEFINE Same == \A k \in Keys :
               /\ FlowIn(e, k)' = FlowIn(e, k)
               /\ ResultIn(e, k)' = ResultIn(e, k)
               /\ k \in Entered(e)' <=> k \in Entered(e)
               /\ k \in Left(e)' <=> k \in Left(e)
  <2>4. ASSUME Same, UNCHANGED <<ledger, settled>>
        PROVE  Agree(e)'
    <3>1. Entered(e)' = Entered(e) /\ Left(e)' = Left(e)
      BY <2>4 DEF Entered, Left
    <3> QED
      BY <2>0, <2>4, <3>1, NothingMoves
  <2> HIDE DEF Same
  <2>5. ASSUME NEW k \in Keys, NEW p \in Prices, PassGates(e, k, p)
        PROVE  Agree(e)'
    <3>1. op[e].pc = "idle" /\ op'[e].pc = "gated" /\ positions' = positions
      BY <2>5 DEF PassGates, Ready, TypeOK
    <3>2. Same
      BY <3>1 DEF Same, FlowIn, ResultIn, Entered, Left, CashOf, Trading
    <3> QED
      BY <2>4, <2>5, <3>2 DEF PassGates
  <2>6. ASSUME NEW k \in Keys, NEW p \in Prices, ReadForClose(e, k, p)
        PROVE  Agree(e)'
    <3>1. op[e].pc = "idle" /\ op'[e].pc = "closing" /\ positions' = positions
      BY <2>6 DEF ReadForClose, Ready, TypeOK
    <3>2. Same
      BY <3>1 DEF Same, FlowIn, ResultIn, Entered, Left, CashOf, Trading
    <3> QED
      BY <2>4, <2>6, <3>2 DEF ReadForClose
  <2>7. CASE Buy(e)
    <3>0. PICK k \in Keys, g \in Fills : k = op[e].key /\ g = op[e].fill
      BY <2>7, HandlerType DEF Buy
    <3>1. /\ k \in Keys /\ g \in Fills /\ g \in Nat /\ FeeOf[g] \in Nat
          /\ op[e].pc = "gated" /\ positions' = positions /\ settled' = settled
          /\ op'[e].pc = "bought" /\ op'[e].key = k /\ op'[e].fill = g
      BY <2>7, <3>0, HandlerType DEF Buy, Handlers, TypeOK, Idle
    <3>2. positions[k].status = "NONE" /\ positions[k].reason = "none"
      BY <2>0, <2>3, <3>0, <3>1 DEF StepOf, StepInv, TypeOK, Rows
    <3>3. k \notin settled
      BY <2>0, <3>2 DEF RowInv
    <3>4. /\ FlowIn(e, k) = 0 /\ FlowIn(e, k)' = 0 - (g + FeeOf[g])
          /\ ResultIn(e, k)' = ResultIn(e, k)
      BY <3>0, <3>1, <3>2 DEF FlowIn, ResultIn, Trading, CashOf
    <3>5. \A j \in Keys \ {k} : /\ FlowIn(e, j)' = FlowIn(e, j)
                                /\ ResultIn(e, j)' = ResultIn(e, j)
      BY <3>0, <3>1 DEF FlowIn, ResultIn, Trading, CashOf
    <3>7. Entered(e)' = Entered(e) \cup {k} /\ k \notin Entered(e)
      BY <3>0, <3>1, <3>2 DEF Entered, Trading
    <3>8. Left(e)' = Left(e)
      BY <3>1 DEF Left, Trading
    <3>9. /\ Cardinality(Entered(e)') = ledger.opened + 1
          /\ Cardinality(Left(e)') = ledger.closed
      BY <2>0, <3>8, <3>7, FS_Subset, FS_AddElement DEF Entered, Agree
    <3>10. /\ ledger'.cash = ledger.cash - (g + FeeOf[g])
           /\ ledger'.starting = ledger.starting
           /\ ledger'.realized = ledger.realized
           /\ ledger'.opened = ledger.opened + 1
           /\ ledger'.closed = ledger.closed
      BY <2>7, <3>0 DEF Buy, TypeOK, Ledgers
    <3>11. /\ ledger'.cash = ledger.cash + (FlowIn(e, k)' - FlowIn(e, k))
           /\ ledger'.realized = ledger.realized + (ResultIn(e, k)' - ResultIn(e, k))
      <4>1. ledger.cash \in Int /\ ledger.realized \in Int /\ ResultIn(e, k) \in Int
        BY <2>2 DEF TypeOK, Ledgers
      <4> QED
        BY ONLY <3>1, <3>4, <3>10, <4>1
    <3> QED
      <4>1. /\ k \in Keys \ settled /\ settled' = settled
            /\ ledger'.opened = Cardinality(Entered(e)')
            /\ ledger'.closed = Cardinality(Left(e)')
        BY <3>1, <3>3, <3>9, <3>10
      <4> QED
        BY <2>0, <2>2, <3>5, <3>10, <3>11, <4>1, OneKeyMoves
  <2>8. CASE Sell(e)
    <3>0. PICK k \in Keys, g \in Fills : k = op[e].key /\ g = op[e].fill
      BY <2>8, HandlerType DEF Sell
    <3>1. /\ g \in Nat /\ FeeOf[g] \in Nat
          /\ op[e].pc = "requested" /\ positions' = positions /\ settled' = settled
          /\ op'[e].pc = "sold" /\ op'[e].key = k /\ op'[e].fill = g
      BY <2>8, <3>0, HandlerType DEF Sell, Handlers, TypeOK, Idle
    <3>2. /\ positions[k].status = "CLOSING" /\ positions[k].reason = "none"
          /\ positions[k].entry \in Nat /\ FeeOf[positions[k].entry] \in Nat
          /\ positions[k].realized = 0 /\ op[e].basis = positions[k].entry
      BY <2>0, <2>3, <3>0, <3>1, FillsAreAmounts
      DEF StepOf, StepInv, RowInv, TypeOK, Rows, Closing
    <3>3. k \notin settled
      BY <2>0, <3>2 DEF RowInv
    <3>4. LET b == positions[k].entry IN
          /\ FlowIn(e, k) = 0 - b - FeeOf[b]
          /\ FlowIn(e, k)' = g - FeeOf[g] - (b + FeeOf[b])
          /\ ResultIn(e, k) = 0 /\ ResultIn(e, k)' = g - b - FeeOf[g]
      BY <3>0, <3>1, <3>2 DEF FlowIn, ResultIn, Trading, CashOf
    <3>5. \A j \in Keys \ {k} : /\ FlowIn(e, j)' = FlowIn(e, j)
                                /\ ResultIn(e, j)' = ResultIn(e, j)
      BY <3>0, <3>1 DEF FlowIn, ResultIn, Trading, CashOf
    <3>6. Entered(e)' = Entered(e)
      BY <3>1 DEF Entered, Trading
    <3>7. Left(e)' = Left(e) \cup {k} /\ k \notin Left(e)
      BY <3>0, <3>1, <3>2 DEF Left, Trading
    <3>8. /\ Cardinality(Entered(e)') = ledger.opened
          /\ Cardinality(Left(e)') = ledger.closed + 1
      BY <2>0, <3>6, <3>7, FS_Subset, FS_AddElement DEF Left, Agree
    <3>9. /\ ledger'.cash = ledger.cash + (g - FeeOf[g])
          /\ ledger'.starting = ledger.starting
          /\ ledger'.realized = ledger.realized + (g - op[e].basis - FeeOf[g])
          /\ ledger'.opened = ledger.opened
          /\ ledger'.closed = ledger.closed + 1
      BY <2>8, <3>0 DEF Sell, TypeOK, Ledgers
    <3>10. /\ ledger'.cash = ledger.cash + (FlowIn(e, k)' - FlowIn(e, k))
           /\ ledger'.realized = ledger.realized + (ResultIn(e, k)' - ResultIn(e, k))
      <4>1. ledger.cash \in Int /\ ledger.realized \in Int
        BY DEF TypeOK, Ledgers
      <4> QED
        BY ONLY <3>1, <3>2, <3>4, <3>9, <4>1
    <3> QED
      <4>1. /\ k \in Keys \ settled /\ settled' = settled
            /\ ledger'.opened = Cardinality(Entered(e)')
            /\ ledger'.closed = Cardinality(Left(e)')
        BY <3>1, <3>3, <3>8, <3>9
      <4> QED
        BY <2>0, <2>2, <3>5, <3>9, <3>10, <4>1, OneKeyMoves
  <2>9. CASE InsertPosition(e)
    <3>0. PICK k \in Keys, g \in Fills : k = op[e].key /\ g = op[e].fill
      BY <2>9, HandlerType DEF InsertPosition
    <3>1. /\ g \in Nat /\ FeeOf[g] \in Nat
          /\ op[e].pc = "bought" /\ positions[k].status = "NONE"
          /\ positions[k].realized = 0 /\ positions[k].reason = "none"
          /\ op'[e].pc = "idle"
          /\ \A j \in Keys \ {k} : positions'[j] = positions[j]
          /\ positions'[k] = [status |-> "OPEN", entry |-> g, realized |-> 0,
                              reason |-> "none"]
      BY <2>0, <2>3, <2>9, <3>0, HandlerType
      DEF InsertPosition, StepOf, StepInv, RowInv, TypeOK, Rows, Idle
    <3>2. Same
      BY <3>0, <3>1 DEF Same, FlowIn, ResultIn, Entered, Left, CashOf, Trading
    <3> QED
      BY <2>4, <2>9, <3>2 DEF InsertPosition
  <2>10. CASE RequestRead(e)
    <3>1. /\ op[e].pc = "closing" /\ positions' = positions
          /\ op'[e].pc \in {"idle", "requesting", "requested"}
      BY <2>10 DEF RequestRead, TypeOK, Handlers, Idle
    <3>2. Same
      BY <3>1 DEF Same, FlowIn, ResultIn, Entered, Left, CashOf, Trading
    <3> QED
      BY <2>4, <2>10, <3>2 DEF RequestRead
  <2>11. CASE RequestWrite(e)
    <3>0. PICK k \in Keys : k = op[e].key
      BY <2>11, HandlerType DEF RequestWrite
    <3>1. /\ op[e].pc = "requesting" /\ op'[e].pc \in {"idle", "requested"}
          /\ positions[k].status = "OPEN" /\ positions[k] \in Rows
          /\ positions' = [positions EXCEPT ![k].status = "CLOSING"]
      <4>1. op[e].pc = "requesting" /\ op[e] \in Handlers
        BY <2>11, HandlerType DEF RequestWrite
      <4>2. positions[k].status = "OPEN"
        BY <2>3, <3>0, <4>1 DEF StepOf
      <4>3. op' = [op EXCEPT ![e] = Idle] \/ op' = [op EXCEPT ![e].pc = "requested"]
        BY <2>11 DEF RequestWrite
      <4>4. op'[e].pc \in {"idle", "requested"}
        BY <4>1, <4>3 DEF TypeOK, Handlers, Idle
      <4> QED
        BY <2>11, <3>0, <4>1, <4>2, <4>4 DEF RequestWrite, TypeOK
    <3>2. /\ \A j \in Keys \ {k} : positions'[j] = positions[j]
          /\ positions'[k].status = "CLOSING"
          /\ positions'[k].entry = positions[k].entry
          /\ positions'[k].realized = positions[k].realized
          /\ positions'[k].reason = positions[k].reason
      BY <3>1 DEF TypeOK, Rows
    <3>3. Same
      BY <3>0, <3>1, <3>2 DEF Same, FlowIn, ResultIn, Entered, Left, CashOf, Trading
    <3> QED
      BY <2>4, <2>11, <3>3 DEF RequestWrite
  <2>12. CASE CloseRead(e)
    <3>1. /\ op[e].pc = "sold" /\ positions' = positions
          /\ op'[e].pc = "finishing" /\ op'[e].key = op[e].key
          /\ op'[e].fill = op[e].fill
      BY <2>3, <2>12, HandlerType
      DEF CloseRead, TypeOK, Handlers, Idle, LegalTransitions, StepOf
    <3>2. Same
      BY <3>1 DEF Same, FlowIn, ResultIn, Entered, Left, CashOf, Trading
    <3> QED
      BY <2>4, <2>12, <3>2 DEF CloseRead
  <2>13. CASE CloseWrite(e)
    <3>0. PICK k \in Keys, g \in Fills : k = op[e].key /\ g = op[e].fill
      BY <2>13, HandlerType DEF CloseWrite
    <3>1. /\ g \in Nat /\ FeeOf[g] \in Nat
          /\ op[e].pc = "finishing" /\ op'[e].pc = "idle"
          /\ positions[k].status = "CLOSING" /\ positions[k] \in Rows
          /\ op[e].basis = positions[k].entry
          /\ positions[k].entry \in Nat /\ FeeOf[positions[k].entry] \in Nat
          /\ positions' = [positions EXCEPT ![k].status = "CLOSED",
                              ![k].reason = "TRADE",
                              ![k].realized = g - op[e].basis - FeeOf[g]]
      BY <2>0, <2>3, <2>13, <3>0, HandlerType, FillsAreAmounts
      DEF CloseWrite, StepOf, RowInv, TypeOK, Idle, Closing
    <3>2. /\ \A j \in Keys \ {k} : positions'[j] = positions[j]
          /\ positions'[k].status = "CLOSED" /\ positions'[k].reason = "TRADE"
          /\ positions'[k].entry = positions[k].entry
          /\ positions'[k].realized = g - positions[k].entry - FeeOf[g]
      BY <3>1 DEF TypeOK, Rows
    <3>3. LET b == positions[k].entry IN
          /\ FlowIn(e, k) = g - FeeOf[g] - (b + FeeOf[b])
          /\ FlowIn(e, k)' = g - b - FeeOf[g] - FeeOf[b]
          /\ ResultIn(e, k) = g - b - FeeOf[g]
          /\ ResultIn(e, k)' = g - b - FeeOf[g]
      BY <3>0, <3>1, <3>2 DEF FlowIn, ResultIn, CashOf, Trading
    <3>4. FlowIn(e, k)' = FlowIn(e, k) /\ ResultIn(e, k)' = ResultIn(e, k)
      BY <3>1, <3>3
    <3>5. \A j \in Keys \ {k} : /\ FlowIn(e, j)' = FlowIn(e, j)
                                /\ ResultIn(e, j)' = ResultIn(e, j)
      <4>1. \A j \in Keys \ {k} : /\ ~Trading(e, j, {"bought"})
                                  /\ ~Trading(e, j, {"sold", "finishing"})
        BY <3>0 DEF Trading
      <4>2. \A j \in Keys \ {k} : /\ ~Trading(e, j, {"bought"})'
                                  /\ ~Trading(e, j, {"sold", "finishing"})'
        BY <3>1 DEF Trading
      <4>3. \A j \in Keys \ {k} : CashOf(j)' = CashOf(j)
        BY <3>2 DEF CashOf
      <4> QED
        BY <3>2, <4>1, <4>2, <4>3 DEF FlowIn, ResultIn
    <3>6. \A j \in Keys : /\ j \in Entered(e)' <=> j \in Entered(e)
                          /\ j \in Left(e)' <=> j \in Left(e)
      BY <3>0, <3>1, <3>2 DEF Entered, Left, Trading
    <3>7. Same
      BY <3>4, <3>5, <3>6 DEF Same
    <3> QED
      BY <2>4, <2>13, <3>7 DEF CloseWrite
  <2>14. CASE Interrupt(e)
    BY <2>14 DEF Interrupt, Unfailed, TypeOK
  <2>15. CASE UNCHANGED <<positions, op, ledger, settled>>
    <3>1. Same
      BY <2>15 DEF Same, FlowIn, ResultIn, Entered, Left, CashOf, Trading
    <3> QED
      BY <2>4, <2>15, <3>1
  <2>16. ASSUME NEW p \in Procs, RebaseCapital(p)
         PROVE  Agree(e)'
    <3>1. op[e].pc = "idle" /\ op' = op
      BY <2>0, <2>3, <2>16 DEF RebaseCapital, BootInv, Procs
    <3>2. \A k \in Keys :
            /\ positions[k] \in Rows
            /\ positions'[k] =
                 IF Live(k)
                 THEN [positions[k] EXCEPT !.status = "CLOSED", !.realized = 0,
                                           !.reason = "CAPITAL_REBASE"]
                 ELSE positions[k]
      BY <2>16 DEF RebaseCapital, TypeOK
    <3>3. \A k \in Keys :
            /\ positions[k].status = "NONE" => positions'[k] = positions[k]
            /\ positions'[k].status = "NONE" <=> positions[k].status = "NONE"
            /\ positions'[k].reason = "TRADE" <=> positions[k].reason = "TRADE"
            /\ positions'[k].realized = positions[k].realized
      <4>1. \A r \in Rows :
              LET written == [r EXCEPT !.status = "CLOSED", !.realized = 0,
                                       !.reason = "CAPITAL_REBASE"]
              IN  written.status = "CLOSED" /\ written.realized = 0
                  /\ written.reason = "CAPITAL_REBASE"
        BY DEF Rows
      <4>2. \A k \in Keys : Live(k) =>
              /\ positions'[k].status = "CLOSED" /\ positions'[k].realized = 0
              /\ positions'[k].reason = "CAPITAL_REBASE"
        BY <3>2, <4>1
      <4>3. \A k \in Keys : Live(k) =>
              /\ positions[k].status # "NONE" /\ positions[k].realized = 0
              /\ positions[k].reason = "none"
        BY <2>0 DEF Live, StepInv, RowInv
      <4> QED
        BY <3>2, <4>2, <4>3
    <3>4. \A k \in Keys : ResultIn(e, k)' = ResultIn(e, k)
      BY <3>1, <3>3 DEF ResultIn, Trading
    <3>5. Entered(e)' = Entered(e) /\ Left(e)' = Left(e)
      BY <3>1, <3>3 DEF Entered, Left, Trading
    <3>6. /\ settled' = {k \in Keys : positions[k].status # "NONE"}
          /\ ledger'.cash = boot[p] /\ ledger'.starting = boot[p]
          /\ ledger'.realized = ledger.realized
          /\ ledger'.opened = ledger.opened /\ ledger'.closed = ledger.closed
          /\ boot[p] \in Nat
      BY <2>16 DEF RebaseCapital, TypeOK, Ledgers
    <3>7. \A k \in Keys \ settled' : FlowIn(e, k)' = 0
      <4>1. \A k \in Keys \ settled' : /\ positions'[k].status = "NONE"
                                        /\ positions'[k].reason = "none"
        BY <2>0, <3>3, <3>6 DEF StepInv
      <4>2. \A k \in Keys \ settled' : CashOf(k)' = 0
        BY <4>1 DEF CashOf
      <4>3. \A k \in Keys : /\ ~Trading(e, k, {"bought"})'
                            /\ ~Trading(e, k, {"sold", "finishing"})'
        BY <3>1 DEF Trading
      <4> QED
        BY <4>2, <4>3 DEF FlowIn
    <3> DEFINE f == [k \in Keys |-> FlowIn(e, k)']
               D == Keys \ settled'
    <3>8. IsFiniteSet(D) /\ \A k \in D : f[k] = 0
      BY <3>7, FS_Subset
    <3> HIDE DEF f, D
    <3>9. SumFunctionOnSet(f, D) = 0
      BY ONLY <3>8, SumOfZeros
    <3>10. ledger'.cash = ledger'.starting + SumFunctionOnSet(f, D)
      BY <3>6, <3>9
    <3>11. [k \in Keys |-> ResultIn(e, k)]' = [k \in Keys |-> ResultIn(e, k)]
      BY <3>4
    <3> QED
      BY <2>0, <3>5, <3>6, <3>10, <3>11 DEF Agree, f, D
  <2>17. ASSUME NEW c \in Capitals, ResetBook(c)
         PROVE  Agree(e)'
    BY <2>17, ResetWipes DEF Unfailed
  <2> QED
    BY <2>1, <2>3, <2>5, <2>6, <2>7, <2>8, <2>9, <2>10, <2>11, <2>12, <2>13, <2>14,
       <2>15, <2>16, <2>17 DEF Next, EngineStep, DetectDrift, vars
<1>3. TypeOK /\ BooksInv => BooksAgree
  <2> SUFFICES ASSUME TypeOK, BooksInv, Unfailed, AllIdle
               PROVE  BooksAgree
    BY DEF BooksAgree
  <2>1. PICK e \in Engines : TRUE
    OBVIOUS
  <2>2. op[e].pc = "idle" /\ Agree(e)
    BY DEF AllIdle, BooksInv
  <2>3. \A k \in Keys : /\ FlowIn(e, k) = CashOf(k)
                        /\ ResultIn(e, k) = positions[k].realized
    BY <2>2 DEF FlowIn, ResultIn, Trading
  <2>4. /\ Entered(e) = {k \in Keys : positions[k].status # "NONE"}
        /\ Left(e) = {k \in Keys : positions[k].reason = "TRADE"}
    BY <2>2 DEF Entered, Left, Trading
  <2>5. /\ [k \in Keys |-> FlowIn(e, k)] = [k \in Keys |-> CashOf(k)]
        /\ [k \in Keys |-> ResultIn(e, k)] = [k \in Keys |-> positions[k].realized]
    BY <2>3
  <2>6. SumFunction([k \in Keys |-> positions[k].realized])
          = SumFunctionOnSet([k \in Keys |-> positions[k].realized], Keys)
    BY DEF SumFunction
  <2> QED
    BY <2>2, <2>4, <2>5, <2>6 DEF Agree, BooksAgree
<1>4. TypeOK /\ StepInv /\ RowInv => Whole
  BY AmountsAreWhole
<1> QED
  BY <1>1, <1>2, <1>3, <1>4, TypeCorrect, StepsAreInOrder, AmountsAreKept, PTL DEF Spec

-------------------------------------------------------------------------------
(* What failures cost.                                                        *)

(* Where the row of a handler's key stands, with one engine, whatever was     *)
(* abandoned before: only CLOSING may be left over from an earlier close.     *)
PlaceInv ==
  /\ \A e \in Engines :
       LET s == positions[op[e].key].status IN
       /\ op[e].pc \in {"gated", "bought"} => s = "NONE"
       /\ op[e].pc = "closing" => s \in {"OPEN", "CLOSING"}
       /\ op[e].pc = "requesting" => s = "OPEN"
       /\ op[e].pc \in {"requested", "sold", "finishing"} => s = "CLOSING"
  /\ \A k \in Keys : positions[k].reason = "TRADE" => positions[k].status = "CLOSED"

(* A handler that holds a key works on a row in the matching status. *)
LEMMA PlacesAreKept ==
  ASSUME Undisturbed
  PROVE  Spec => [](Unwiped => PlaceInv)
<1> DEFINE Inv == Unwiped => PlaceInv
<1>1. Init => Inv
  BY DEF Init, PlaceInv, Idle, NoRow
<1>2. TypeOK /\ BootInv /\ FreshInv /\ Inv /\ [Next]_vars => Inv'
  <2> SUFFICES ASSUME TypeOK, BootInv, FreshInv, Inv, [Next]_vars, Unwiped'
               PROVE  PlaceInv'
    OBVIOUS
  <2>0. PlaceInv /\ \A d, e \in Engines : d = e
    BY Remembered DEF Undisturbed, OneEngine
  <2> HIDE DEF Inv
  <2> USE DEF PlaceInv
  <2>1. ASSUME NEW e \in Engines, NEW k \in Keys, NEW p \in Prices, PassGates(e, k, p)
        PROVE  PlaceInv'
    BY <2>0, <2>1 DEF PassGates, TypeOK
  <2>2. ASSUME NEW e \in Engines, NEW k \in Keys, NEW p \in Prices, ReadForClose(e, k, p)
        PROVE  PlaceInv'
    BY <2>0, <2>2 DEF ReadForClose, TypeOK, Live
  <2>3. ASSUME NEW e \in Engines, Buy(e)
        PROVE  PlaceInv'
    BY <2>0, <2>3, HandlerType DEF Buy, TypeOK
  <2>4. ASSUME NEW e \in Engines, InsertPosition(e)
        PROVE  PlaceInv'
    <3>1. op'[e].pc = "idle" /\ \A d \in Engines : d = e
      BY <2>0, <2>4 DEF InsertPosition, TypeOK, Idle
    <3>2. \A k \in Keys : positions'[k] = positions[k] \/ positions'[k].reason = "none"
      BY <2>4, HandlerType DEF InsertPosition, TypeOK
    <3> QED
      BY <2>0, <3>1, <3>2
  <2>5. ASSUME NEW e \in Engines, RequestRead(e)
        PROVE  PlaceInv'
    <3>1. /\ op[e].pc = "closing" /\ positions' = positions
          /\ positions[op[e].key].status \in {"OPEN", "CLOSING"}
      BY <2>0, <2>5 DEF RequestRead
    <3>2. \/ /\ positions[op[e].key].status = "OPEN"
             /\ op'[e].pc = "requesting" /\ op'[e].key = op[e].key
          \/ /\ positions[op[e].key].status = "CLOSING"
             /\ op'[e].pc = "requested" /\ op'[e].key = op[e].key
      <4>1. op[e] \in Handlers /\ op \in [Engines -> {Idle} \cup Handlers]
        BY <3>1, HandlerType DEF TypeOK
      <4>2. CASE positions[op[e].key].status = "OPEN"
        <5>1. op' = [op EXCEPT ![e].pc = "requesting"]
          BY <2>5, <4>2 DEF RequestRead
        <5> QED
          BY <4>1, <4>2, <5>1 DEF Handlers
      <4>3. CASE positions[op[e].key].status = "CLOSING"
        <5>1. op' = [op EXCEPT ![e].pc = "requested"]
          BY <2>5, <4>3 DEF RequestRead
        <5> QED
          BY <4>1, <4>3, <5>1 DEF Handlers
      <4> QED
        BY <3>1, <4>2, <4>3
    <3>3. \A k \in Keys : positions'[k].reason = "TRADE" => positions'[k].status = "CLOSED"
      BY <2>0, <3>1
    <3> QED
      BY <2>0, <3>1, <3>2, <3>3
  <2>6. ASSUME NEW e \in Engines, RequestWrite(e)
        PROVE  PlaceInv'
    <3>0. PICK k \in Keys : k = op[e].key
      BY <2>6, HandlerType DEF RequestWrite
    <3>1. op[e].pc = "requesting" /\ positions[k].status = "OPEN" /\ op[e] \in Handlers
      BY <2>0, <2>6, <3>0, HandlerType DEF RequestWrite
    <3>2. /\ op' = [op EXCEPT ![e].pc = "requested"]
          /\ positions' = [positions EXCEPT ![k].status = "CLOSING"]
      BY <2>6, <3>0, <3>1 DEF RequestWrite
    <3>3. op'[e].pc = "requested" /\ op'[e].key = k
      BY <3>0, <3>1, <3>2 DEF TypeOK, Handlers
    <3>4. /\ \A j \in Keys \ {k} : positions'[j] = positions[j]
          /\ positions'[k].status = "CLOSING"
          /\ positions'[k].reason = positions[k].reason
      BY <3>2 DEF TypeOK, Rows
    <3> QED
      BY <2>0, <3>1, <3>3, <3>4
  <2>7. ASSUME NEW e \in Engines, Sell(e)
        PROVE  PlaceInv'
    BY <2>0, <2>7, HandlerType DEF Sell, TypeOK
  <2>8. ASSUME NEW e \in Engines, CloseRead(e)
        PROVE  PlaceInv'
    BY <2>0, <2>8, HandlerType DEF CloseRead, TypeOK, Idle
  <2>9. ASSUME NEW e \in Engines, CloseWrite(e)
        PROVE  PlaceInv'
    <3>1. op'[e].pc = "idle" /\ \A d \in Engines : d = e
      BY <2>0, <2>9 DEF CloseWrite, TypeOK, Idle
    <3>2. \A k \in Keys : positions'[k] = positions[k] \/ positions'[k].status = "CLOSED"
      BY <2>9, HandlerType DEF CloseWrite, TypeOK, Rows
    <3> QED
      BY <2>0, <3>1, <3>2
  <2>10. ASSUME NEW e \in Engines, Interrupt(e)
         PROVE  PlaceInv'
    BY <2>0, <2>10 DEF Interrupt, TypeOK, Idle
  <2>11. ASSUME NEW p \in Procs, NEW c \in Capitals, DetectDrift(p, c)
         PROVE  PlaceInv'
    BY <2>0, <2>11 DEF DetectDrift
  <2>12. ASSUME NEW p \in Procs, RebaseCapital(p)
         PROVE  PlaceInv'
    <3>1. p \in Engines /\ op[p].pc = "idle" /\ op' = op
      BY <2>12 DEF RebaseCapital, BootInv, Procs
    <3>2. \A k \in Keys :
            \/ positions'[k] = positions[k]
            \/ positions'[k].reason = "CAPITAL_REBASE"
      BY <2>12 DEF RebaseCapital, TypeOK, Rows
    <3> QED
      BY <2>0, <3>1, <3>2
  <2>13. ASSUME NEW c \in Capitals, ResetBook(c)
         PROVE  PlaceInv'
    BY <2>13, ResetWipes
  <2>14. CASE UNCHANGED vars
    BY <2>0, <2>14 DEF vars
  <2> QED
    BY <2>1, <2>2, <2>3, <2>4, <2>5, <2>6, <2>7, <2>8, <2>9, <2>10, <2>11,
       <2>12, <2>13, <2>14 DEF Next, EngineStep
<1> QED
  BY <1>1, <1>2, TypeCorrect, BootsComeFirst, PTL DEF Spec

(* The bookings of a key its row does not account for, and among them those   *)
(* no handler has in hand any more.                                           *)
Over(k) ==
  debits[k] + credits[k]
  - (IF positions[k].status # "NONE" THEN 1 ELSE 0)
  - (IF positions[k].reason = "TRADE" THEN 1 ELSE 0)
InHandNow(e, k) ==
  IF Trading(e, k, {"bought", "sold", "finishing"}) THEN 1 ELSE 0
Abandoned(e, k) == Over(k) - InHandNow(e, k)
SumAbandoned(e) == SumFunctionOnSet([k \in Keys |-> Abandoned(e, k)], Keys)

(* Bookings beyond the trade are counted in whole numbers. *)
LEMMA BookingsAreWhole ==
  TypeOK => \A e \in Engines, k \in Keys : Over(k) \in Int /\ Abandoned(e, k) \in Int
BY DEF TypeOK, Over, Abandoned, InHandNow

(* With one engine, what the rows do not account for was abandoned or is in   *)
(* hand, and it was abandoned at most once per failure.                       *)
THEOREM FewExtraBookings ==
  ASSUME Undisturbed, Engines # {}, IsFiniteSet(Keys)
  PROVE  Spec => []ExtraBookingsBounded
<1>0. PICK e \in Engines : \A d \in Engines : d = e
  BY DEF Undisturbed, OneEngine
<1> DEFINE Inv == Unwiped => SumAbandoned(e) <= interruptions
           Placed == Unwiped => PlaceInv
           BookingsWhole == \A k \in Keys : Over(k) \in Int /\ Abandoned(e, k) \in Int
<1>1. Init => Inv
  <2> SUFFICES ASSUME Init PROVE SumAbandoned(e) <= interruptions
    OBVIOUS
  <2> DEFINE f == [k \in Keys |-> Abandoned(e, k)]
  <2>1. \A k \in Keys : f[k] = 0
    <3>1. \A k \in Keys :
            /\ debits[k] = 0 /\ credits[k] = 0
            /\ positions[k].status = "NONE" /\ positions[k].reason = "none"
      BY DEF Init, NoRow
    <3>2. op[e].pc = "idle"
      BY DEF Init, Idle
    <3> QED
      BY <3>1, <3>2 DEF Abandoned, Over, InHandNow, Trading
  <2> HIDE DEF f
  <2>2. SumFunctionOnSet(f, Keys) = 0
    BY ONLY <2>1, IsFiniteSet(Keys), SumOfZeros
  <2> QED
    BY <2>2 DEF Init, SumAbandoned, f
<1>2. /\ TypeOK /\ TypeOK' /\ BootInv /\ Placed /\ Inv /\ [Next]_vars
      /\ BookingsWhole /\ BookingsWhole'
      => Inv'
  <2> SUFFICES ASSUME TypeOK, TypeOK', BootInv, Placed, Inv, [Next]_vars,
                      BookingsWhole, BookingsWhole', Unwiped'
               PROVE  SumAbandoned(e)' <= interruptions'
    OBVIOUS
  <2>0. PlaceInv /\ SumAbandoned(e) <= interruptions
    BY Remembered
  <2> DEFINE Same == \A k \in Keys : Abandoned(e, k)' = Abandoned(e, k)
  <2>1. Same => SumAbandoned(e)' = SumAbandoned(e)
    BY DEF SumAbandoned
  <2> SUFFICES ASSUME ~\E d \in Engines : Interrupt(d)
               PROVE  Same
    <3>1. ASSUME Interrupt(e)
          PROVE  SumAbandoned(e)' <= interruptions'
      <4>1. PICK k \in Keys : k = op[e].key
        BY <3>1, HandlerType DEF Interrupt
      <4> DEFINE f == [j \in Keys |-> Abandoned(e, j)]
                 g == [j \in Keys |-> Abandoned(e, j)']
      <4>2. /\ interruptions' = interruptions + 1 /\ op'[e].pc = "idle"
            /\ \A j \in Keys : Over(j)' = Over(j)
        BY <3>1 DEF Interrupt, Over, TypeOK, Idle
      <4>3. /\ \A j \in Keys \ {k} : g[j] = f[j]
            /\ g[k] <= f[k] + 1
        BY <4>1, <4>2 DEF Abandoned, InHandNow, Trading
      <4>4. \A j \in Keys : f[j] \in Int /\ g[j] \in Int
        OBVIOUS
      <4>5. SumAbandoned(e) = SumFunctionOnSet(f, Keys) /\ SumAbandoned(e)' = SumFunctionOnSet(g, Keys)
        BY DEF SumAbandoned
      <4> HIDE DEF f, g
      <4>6. SumFunctionOnSet(g, Keys) = SumFunctionOnSet(f, Keys) + g[k] - f[k]
        BY ONLY k \in Keys, IsFiniteSet(Keys), <4>3, <4>4, SumChanges
      <4>7. SumFunctionOnSet(f, Keys) \in Int
        BY ONLY IsFiniteSet(Keys), <4>4, SumOfOneMore
      <4> QED
        BY <2>0, <4>2, <4>3, <4>4, <4>5, <4>6, <4>7 DEF TypeOK
    <3>2. (\E d \in Engines : Interrupt(d)) \/ interruptions' = interruptions
      BY DEF Next, vars, EngineStep, PassGates, ReadForClose, Buy, InsertPosition,
         RequestRead, RequestWrite, Sell, CloseRead, CloseWrite, RebaseCapital,
         DetectDrift, ResetBook
    <3> QED
      BY <1>0, <2>0, <2>1, <3>1, <3>2
  <2> HIDE DEF Inv, Placed, BookingsWhole
  <2>2. CASE UNCHANGED <<positions, debits, credits>>
             /\ op[e].pc \notin {"bought", "sold", "finishing"}
             /\ op'[e].pc \notin {"bought", "sold", "finishing"}
    BY <2>2 DEF Abandoned, Over, InHandNow, Trading
  <2>3. ASSUME NEW k \in Keys, NEW p \in Prices, PassGates(e, k, p)
        PROVE  Same
    BY <2>2, <2>3 DEF PassGates, Ready, TypeOK
  <2>4. ASSUME NEW k \in Keys, NEW p \in Prices, ReadForClose(e, k, p)
        PROVE  Same
    BY <2>2, <2>4 DEF ReadForClose, Ready, TypeOK
  <2>5. CASE Buy(e)
    <3>0. PICK k \in Keys : k = op[e].key
      BY <2>5, HandlerType DEF Buy
    <3>1. /\ op[e].pc = "gated" /\ op'[e].pc = "bought" /\ op'[e].key = k
          /\ positions' = positions /\ credits' = credits
          /\ debits' = [debits EXCEPT ![k] = @ + 1]
      BY <2>5, <3>0, HandlerType DEF Buy, TypeOK, Handlers, Idle
    <3> QED
      BY <3>0, <3>1 DEF Abandoned, Over, InHandNow, Trading, TypeOK
  <2>6. CASE Sell(e)
    <3>0. PICK k \in Keys : k = op[e].key
      BY <2>6, HandlerType DEF Sell
    <3>1. /\ op[e].pc = "requested" /\ op'[e].pc = "sold" /\ op'[e].key = k
          /\ positions' = positions /\ debits' = debits
          /\ credits' = [credits EXCEPT ![k] = @ + 1]
      BY <2>6, <3>0, HandlerType DEF Sell, TypeOK, Handlers, Idle
    <3> QED
      BY <3>0, <3>1 DEF Abandoned, Over, InHandNow, Trading, TypeOK
  <2>7. CASE InsertPosition(e)
    <3>0. PICK k \in Keys : k = op[e].key
      BY <2>7, HandlerType DEF InsertPosition
    <3>1. /\ op[e].pc = "bought" /\ op'[e].pc = "idle"
          /\ debits' = debits /\ credits' = credits
          /\ positions[k].status = "NONE" /\ positions[k].reason # "TRADE"
          /\ positions'[k].status = "OPEN" /\ positions'[k].reason = "none"
          /\ \A j \in Keys \ {k} : positions'[j] = positions[j]
      BY <2>0, <2>7, <3>0, HandlerType DEF InsertPosition, PlaceInv, TypeOK, Idle
    <3> QED
      BY <3>0, <3>1 DEF Abandoned, Over, InHandNow, Trading, TypeOK
  <2>8. CASE RequestRead(e)
    BY <2>2, <2>8 DEF RequestRead, TypeOK, Handlers, Idle
  <2>9. CASE RequestWrite(e)
    <3>0. PICK k \in Keys : k = op[e].key
      BY <2>9, HandlerType DEF RequestWrite
    <3>1. /\ op[e].pc = "requesting" /\ positions[k].status = "OPEN"
          /\ op[e] \in Handlers
      BY <2>0, <2>9, <3>0, HandlerType DEF RequestWrite, PlaceInv
    <3>2. /\ op' = [op EXCEPT ![e].pc = "requested"]
          /\ positions' = [positions EXCEPT ![k].status = "CLOSING"]
          /\ debits' = debits /\ credits' = credits
      BY <2>9, <3>0, <3>1 DEF RequestWrite
    <3>3. op'[e].pc = "requested"
      BY <3>1, <3>2 DEF TypeOK, Handlers
    <3>4. /\ \A j \in Keys \ {k} : positions'[j] = positions[j]
          /\ positions'[k].status = "CLOSING"
          /\ positions'[k].reason = positions[k].reason
      BY <3>2 DEF TypeOK, Rows
    <3> QED
      BY <3>1, <3>2, <3>3, <3>4 DEF Abandoned, Over, InHandNow, Trading
  <2>10. CASE CloseRead(e)
    <3>1. /\ op[e].pc = "sold" /\ op'[e].pc = "finishing" /\ op'[e].key = op[e].key
          /\ UNCHANGED <<positions, debits, credits>>
      BY <2>0, <2>10, HandlerType
      DEF CloseRead, TypeOK, Handlers, Idle, LegalTransitions, PlaceInv
    <3> QED
      BY <3>1 DEF Abandoned, Over, InHandNow, Trading
  <2>11. CASE CloseWrite(e)
    <3>0. PICK k \in Keys : k = op[e].key
      BY <2>11, HandlerType DEF CloseWrite
    <3>1. /\ op[e].pc = "finishing" /\ op'[e].pc = "idle"
          /\ debits' = debits /\ credits' = credits
          /\ positions[k].status = "CLOSING" /\ positions[k].reason # "TRADE"
      BY <2>0, <2>11, <3>0, HandlerType DEF CloseWrite, PlaceInv, TypeOK, Idle
    <3>2. /\ positions'[k].status = "CLOSED" /\ positions'[k].reason = "TRADE"
          /\ \A j \in Keys \ {k} : positions'[j] = positions[j]
      BY ZenonT(40), <2>11, <3>0, <3>1 DEF CloseWrite, TypeOK, Rows
    <3> QED
      BY <3>0, <3>1, <3>2 DEF Abandoned, Over, InHandNow, Trading, TypeOK
  <2>12. CASE UNCHANGED <<positions, op, debits, credits>>
    BY <2>12 DEF Abandoned, Over, InHandNow, Trading
  <2>13. ASSUME NEW p \in Procs, RebaseCapital(p)
         PROVE  Same
    <3>1. UNCHANGED <<op, debits, credits>>
      BY <2>13 DEF RebaseCapital
    <3>2. \A k \in Keys :
            \/ positions'[k] = positions[k]
            \/ /\ Live(k) /\ positions'[k].status = "CLOSED"
               /\ positions'[k].reason = "CAPITAL_REBASE"
      <4>1. \A r \in Rows :
              LET written == [r EXCEPT !.status = "CLOSED", !.realized = 0,
                                       !.reason = "CAPITAL_REBASE"]
              IN  written.status = "CLOSED" /\ written.reason = "CAPITAL_REBASE"
        BY DEF Rows
      <4> QED
        BY <2>13, <4>1 DEF RebaseCapital, TypeOK
    <3>3. \A k \in Keys : Live(k) =>
            positions[k].status # "NONE" /\ positions[k].reason # "TRADE"
      BY <2>0 DEF PlaceInv, Live
    <3> QED
      BY <3>1, <3>2, <3>3 DEF Abandoned, Over, InHandNow, Trading
  <2>14. ASSUME NEW c \in Capitals, ResetBook(c)
         PROVE  Same
    BY <2>14, ResetWipes
  <2> QED
    BY <1>0, <2>3, <2>4, <2>5, <2>6, <2>7, <2>8, <2>9, <2>10, <2>11, <2>12,
       <2>13, <2>14 DEF Next, EngineStep, DetectDrift, vars
<1>3. TypeOK /\ BookingsWhole /\ Inv => ExtraBookingsBounded
  <2> SUFFICES ASSUME TypeOK, BookingsWhole, Unwiped, SumAbandoned(e) <= interruptions
               PROVE  ExtraBookings <= interruptions + Cardinality(Ahead)
    BY DEF ExtraBookingsBounded
  <2> DEFINE f == [k \in Keys |-> Abandoned(e, k)]
             g == [k \in Keys |-> Over(k)]
  <2>1. \A k \in Keys : f[k] \in Int /\ g[k] \in Int
    OBVIOUS
  <2>2. ExtraBookings = SumFunctionOnSet(g, Keys) /\ SumAbandoned(e) = SumFunctionOnSet(f, Keys)
    BY DEF ExtraBookings, SumFunction, Over, SumAbandoned
  <2>3. CASE op[e].pc \notin {"bought", "sold", "finishing"}
    <3>1. \A k \in Keys : g[k] = f[k]
      BY <2>1, <2>3 DEF Abandoned, InHandNow, Trading
    <3>2. Ahead = {}
      BY <1>0, <2>3 DEF Ahead
    <3> HIDE DEF f, g
    <3>3. SumFunctionOnSet(g, Keys) = SumFunctionOnSet(f, Keys)
      BY ONLY <2>1, <3>1, IsFiniteSet(Keys), SumOfEquals
    <3> QED
      BY <2>2, <3>2, <3>3, FS_EmptySet DEF TypeOK
  <2>4. CASE op[e].pc \in {"bought", "sold", "finishing"}
    <3>0. PICK k \in Keys : k = op[e].key
      BY <2>4, HandlerType
    <3>1. /\ \A j \in Keys \ {k} : g[j] = f[j]
          /\ g[k] = f[k] + 1
      BY <2>1, <2>4, <3>0 DEF Abandoned, InHandNow, Trading
    <3>2. Ahead = {e}
      BY <1>0, <2>4 DEF Ahead
    <3> HIDE DEF f, g
    <3>3. SumFunctionOnSet(g, Keys) = SumFunctionOnSet(f, Keys) + g[k] - f[k]
      BY ONLY k \in Keys, <2>1, <3>1, IsFiniteSet(Keys), SumChanges
    <3>4. SumFunctionOnSet(f, Keys) \in Int
      BY ONLY IsFiniteSet(Keys), <2>1, SumOfOneMore
    <3>5. Cardinality(Ahead) = 1
      BY <3>2, FS_Singleton
    <3> QED
      BY <2>1, <2>2, <3>1, <3>3, <3>4, <3>5 DEF TypeOK
  <2> QED
    BY <2>3, <2>4
<1>4. TypeOK => BookingsWhole
  BY BookingsAreWhole
<1> QED
  BY <1>1, <1>2, <1>3, <1>4, TypeCorrect, BootsComeFirst, PlacesAreKept, PTL DEF Spec
===============================================================================
