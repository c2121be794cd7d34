------------------------------- MODULE Booking -------------------------------
(***************************************************************************)
(* The positions table, the ledger row, and the engine handlers that keep  *)
(* the two in step. Each action is one database commit: scanner._try_open  *)
(* and position_manager._close are sequences of them with nothing around   *)
(* the sequence, so a failed commit, a killed process or another process's *)
(* commit can fall between any two.                                        *)
(***************************************************************************)
EXTENDS Integers, FiniteSets, Functions

CONSTANTS
  Keys,             \* idempotency keys; one row of `positions` per key at most
  Engines,          \* engine processes (one, as long as the file lock works)
  NoKey,            \* "no position", the target of an idle engine
  Prices,           \* reference prices times quantity: what the feed may say
  Slip,             \* what crossing the spread costs on a fill
  FeeOf,            \* [fill amounts -> Nat], the fee charged on a fill
  Capitals,         \* values STARTING_CAPITAL has in .env over time
  MaxInterruptions, \* bound: sequences abandoned half way (crash, DB error)
  WebReboots,       \* does the dashboard boot while the engine is trading?
  BookResets,       \* is scripts/reset_book.py run while the engine is up?
                    \* (one engine then: a key's next row is another row)
  MaxAdmin          \* bound: rebases begun plus resets made

BuyFill(p)  == p + Slip
SellFill(p) == IF p > Slip THEN p - Slip ELSE 0
Fills == {BuyFill(p) : p \in Prices} \cup {SellFill(p) : p \in Prices}

ASSUME BookingAssumption ==
  /\ NoKey \notin Keys
  /\ Prices \subseteq Nat
  /\ Slip \in Nat
  /\ FeeOf \in [Fills -> Nat]
  /\ Capitals \subseteq Nat \ {0}
  /\ MaxInterruptions \in Nat
  /\ MaxAdmin \in Nat
  /\ WebReboots \in BOOLEAN
  /\ BookResets \in BOOLEAN
  /\ "web" \notin Engines
  /\ BookResets => \A d, e \in Engines : d = e

VARIABLES
  positions,      \* [Keys -> row], the table `positions`
  ledger,         \* the single row of the table `ledger`
  op,             \* [Engines -> the handler in progress]
  boot,           \* [processes -> the capital init_db is about to rebase to]
  interruptions,  \* how many handlers were abandoned so far
  admin,          \* how many rebases were begun, and resets made, so far
  debits,         \* history: [Keys -> Nat], ledger.debit calls for the key
  credits,        \* history: [Keys -> Nat], ledger.credit calls for the key
  settled         \* history: keys whose rows a rebase has written off

vars == <<positions, ledger, op, boot, interruptions, admin,
          debits, credits, settled>>

Rows == [status : {"NONE", "OPEN", "CLOSING", "CLOSED"}, entry : Nat,
         realized : Int, reason : {"none", "TRADE", "CAPITAL_REBASE"}]
Ledgers == [starting : Nat, cash : Int, realized : Int, fees : Nat,
            opened : Nat, closed : Nat]
NoRow == [status |-> "NONE", entry |-> 0, realized |-> 0, reason |-> "none"]
(* A handler in progress: which commit of _try_open or _close is next, the  *)
(* key it works on, the amount of its fill, the cost of the row it closes.  *)
Closing == {"closing", "requesting", "requested", "sold", "finishing"}
Handlers == [pc : {"gated", "bought"} \cup Closing,
             key : Keys, fill : Fills, basis : Nat]
Idle  == [pc |-> "idle", key |-> NoKey, fill |-> 0, basis |-> 0]
Procs == Engines \cup {"web"}

(* mutant: the selection without its status filter.                        *)
LiveUnfiltered(k) == positions[k].status # "NONE"

(* The rows open_positions(), open_count() and the rebase select. Nothing  *)
(* in the program writes PENDING or REJECTED.                              *)
Live(k) == positions[k].status \in {"OPEN", "CLOSING"}

(* mutant: a close that went through CLOSING cannot be completed.          *)
TransitionsWithoutClosing == {<<"OPEN", "CLOSING">>, <<"OPEN", "CLOSED">>,
                              <<"CLOSING", "OPEN">>}

(* LEGAL_TRANSITIONS, restricted to the statuses that are ever written.    *)
LegalTransitions == {<<"OPEN", "CLOSING">>, <<"OPEN", "CLOSED">>,
                     <<"CLOSING", "CLOSED">>, <<"CLOSING", "OPEN">>}

Ready(e) == op[e].pc = "idle" /\ boot[e] = 0

Init ==
  /\ positions = [k \in Keys |-> NoRow]
  /\ \E c \in Capitals :
       ledger = [starting |-> c, cash |-> c, realized |-> 0, fees |-> 0,
                 opened |-> 0, closed |-> 0]
  /\ op = [e \in Engines |-> Idle]
  /\ boot = [p \in Procs |-> 0]
  /\ interruptions = 0
  /\ admin = [boots |-> 0, resets |-> 0]
  /\ debits = [k \in Keys |-> 0]
  /\ credits = [k \in Keys |-> 0]
  /\ settled = {}

------------------------------------------------------------------------------
(* Opening: scanner._try_open                                              *)

(* mutant: the DUPLICATE gate is missing.                                  *)
PassGatesAgain(e, k, p) ==
  /\ Ready(e)
  /\ 0 < p /\ p <= ledger.cash
  /\ op' = [op EXCEPT ![e] =
              [pc |-> "gated", key |-> k, fill |-> BuyFill(p), basis |-> 0]]
  /\ UNCHANGED <<positions, ledger, boot, interruptions, admin,
                 debits, credits, settled>>

(* risk.check passes for a key with no row (the DUPLICATE gate) and a      *)
(* reference cost that the cash it reads covers.                           *)
PassGates(e, k, p) ==
  /\ Ready(e)
  /\ positions[k].status = "NONE"
  /\ p > 0
  /\ p <= ledger.cash
  /\ op' = [op EXCEPT ![e] =
              [pc |-> "gated", key |-> k, fill |-> BuyFill(p), basis |-> 0]]
  /\ UNCHANGED <<positions, ledger, boot, interruptions, admin,
                 debits, credits, settled>>

(* mutant: the fee is recorded but not taken from cash.                    *)
BuyWithoutFee(e) ==
  /\ op[e].pc = "gated"
  /\ ledger' = [ledger EXCEPT !.cash = @ - op[e].fill, !.opened = @ + 1,
                              !.fees = @ + FeeOf[op[e].fill]]
  /\ op' = [op EXCEPT ![e].pc = "bought"]
  /\ debits' = [debits EXCEPT ![op[e].key] = @ + 1]
  /\ UNCHANGED <<positions, boot, interruptions, admin, credits, settled>>

(* PaperBroker.buy: the ledger is debited in a commit of its own.          *)
Buy(e) ==
  LET g == op[e].fill
      f == FeeOf[g]
  IN /\ op[e].pc = "gated"
     /\ ledger' = [ledger EXCEPT !.cash = @ - (g + f), !.fees = @ + f,
                                 !.opened = @ + 1]
     /\ op' = [op EXCEPT ![e].pc = "bought"]
     /\ debits' = [debits EXCEPT ![op[e].key] = @ + 1]
     /\ UNCHANGED <<positions, boot, interruptions, admin, credits, settled>>

(* mutant: the row is inserted with the first status schema.sql lists. *)
InsertPending(e) ==
  /\ op[e].pc = "bought"
  /\ positions' = [positions EXCEPT ![op[e].key] =
        [status |-> "PENDING", entry |-> op[e].fill, realized |-> 0,
         reason |-> "none"]]
  /\ op' = [op EXCEPT ![e] = Idle]
  /\ UNCHANGED <<ledger, boot, interruptions, admin, debits, credits, settled>>

(* mutant: an upsert in the place of the insert.                           *)
InsertOrReplace(e) ==
  /\ op[e].pc = "bought"
  /\ positions' = [positions EXCEPT ![op[e].key] =
        [status |-> "OPEN", entry |-> op[e].fill, realized |-> 0,
         reason |-> "none"]]
  /\ op' = [op EXCEPT ![e] = Idle]
  /\ UNCHANGED <<ledger, boot, interruptions, admin, debits, credits, settled>>

(* PositionRepo.open_position: inserts the row unless the UNIQUE key is    *)
(* taken, in which case the caller gets created=False and gives up.        *)
InsertPosition(e) ==
  LET k == op[e].key IN
  /\ op[e].pc = "bought"
  /\ IF positions[k].status = "NONE"
     THEN positions' = [positions EXCEPT ![k] =
            [status |-> "OPEN", entry |-> op[e].fill, realized |-> 0,
             reason |-> "none"]]
     ELSE UNCHANGED positions
  /\ op' = [op EXCEPT ![e] = Idle]
  /\ UNCHANGED <<ledger, boot, interruptions, admin, debits, credits, settled>>

------------------------------------------------------------------------------
(* Closing: manage_all, close_manually and flatten_all all end in _close   *)

(* The caller reads a live row and a mark, and keeps the row as an object. *)
ReadForClose(e, k, p) ==
  /\ Ready(e)
  /\ Live(k)
  /\ op' = [op EXCEPT ![e] = [pc |-> "closing", key |-> k,
                              fill |-> SellFill(p),
                              basis |-> positions[k].entry]]
  /\ UNCHANGED <<positions, ledger, boot, interruptions, admin,
                 debits, credits, settled>>

(* mutant: CLOSING is taken for a close that has already been paid out.    *)
RequestReadTrusting(e) ==
  LET s == positions[op[e].key].status IN
  /\ op[e].pc = "closing"
  /\ op' = CASE s = "OPEN"   -> [op EXCEPT ![e].pc = "requesting"]
             [] s = "CLOSED" -> [op EXCEPT ![e] = Idle]
             [] OTHER        -> [op EXCEPT ![e].pc = "sold"]
  /\ UNCHANGED <<positions, ledger, boot, interruptions, admin,
                 debits, credits, settled>>

(* PositionRepo.request_close reads the row again: a missing row returns   *)
(* False (which _close does not look at), CLOSING is accepted as it is, and *)
(* _transition rejects CLOSED, which ends _close.                          *)
RequestRead(e) ==
  LET s == positions[op[e].key].status IN
  /\ op[e].pc = "closing"
  /\ op' = CASE s = "OPEN"   -> [op EXCEPT ![e].pc = "requesting"]
             [] s = "CLOSED" -> [op EXCEPT ![e] = Idle]
             [] OTHER        -> [op EXCEPT ![e].pc = "requested"]
  /\ UNCHANGED <<positions, ledger, boot, interruptions, admin,
                 debits, credits, settled>>

(* mutant: the handler waits for a confirmation nobody writes.             *)
RequestWriteAndWait(e) ==
  /\ op[e].pc = "requesting"
  /\ positions' = [positions EXCEPT ![op[e].key].status = "CLOSING"]
  /\ UNCHANGED <<ledger, op, boot, interruptions, admin, debits, credits,
                 settled>>

(* Its transaction was cleared against the status read before BEGIN, and   *)
(* updates by id alone. With the row gone the audit row has nothing to     *)
(* refer to, the foreign key fails, and _close ends.                       *)
RequestWrite(e) ==
  LET k == op[e].key IN
  /\ op[e].pc = "requesting"
  /\ IF positions[k].status = "NONE"
     THEN /\ op' = [op EXCEPT ![e] = Idle]
          /\ UNCHANGED positions
     ELSE /\ op' = [op EXCEPT ![e].pc = "requested"]
          /\ positions' = [positions EXCEPT ![k].status = "CLOSING"]
  /\ UNCHANGED <<ledger, boot, interruptions, admin, debits, credits, settled>>

(* mutant: the fee is left out of the ledger's realized PnL.               *)
SellGross(e) ==
  LET g == op[e].fill
      f == FeeOf[g]
  IN /\ op[e].pc = "requested"
     /\ ledger' = [ledger EXCEPT !.cash = @ + (g - f),
                                 !.realized = @ + (g - op[e].basis),
                                 !.fees = @ + f,
                                 !.closed = @ + 1]
     /\ op' = [op EXCEPT ![e].pc = "sold"]
     /\ credits' = [credits EXCEPT ![op[e].key] = @ + 1]
     /\ UNCHANGED <<positions, boot, interruptions, admin, debits, settled>>

(* PaperBroker.sell: the ledger is credited in a commit of its own, from   *)
(* the row object the caller holds.                                        *)
Sell(e) ==
  LET g == op[e].fill
      f == FeeOf[g]
  IN /\ op[e].pc = "requested"
     /\ ledger' = [ledger EXCEPT !.cash = @ + (g - f),
                                 !.realized = @ + (g - op[e].basis - f),
                                 !.fees = @ + f,
                                 !.closed = @ + 1]
     /\ op' = [op EXCEPT ![e].pc = "sold"]
     /\ credits' = [credits EXCEPT ![op[e].key] = @ + 1]
     /\ UNCHANGED <<positions, boot, interruptions, admin, debits, settled>>

(* PositionRepo.close reads the row: missing or CLOSED, it is returned     *)
(* untouched.                                                              *)
CloseRead(e) ==
  /\ op[e].pc = "sold"
  /\ op' = IF <<positions[op[e].key].status, "CLOSED">> \in LegalTransitions
           THEN [op EXCEPT ![e].pc = "finishing"]
           ELSE [op EXCEPT ![e] = Idle]
  /\ UNCHANGED <<positions, ledger, boot, interruptions, admin,
                 debits, credits, settled>>

(* mutant: the close writes its row whether or not it is still there.      *)
CloseWriteBlind(e) ==
  /\ op[e].pc = "finishing"
  /\ positions' = [positions EXCEPT ![op[e].key] =
        [status |-> "CLOSED", entry |-> op[e].basis, reason |-> "TRADE",
         realized |-> op[e].fill - op[e].basis - FeeOf[op[e].fill]]]
  /\ op' = [op EXCEPT ![e] = Idle]
  /\ UNCHANGED <<ledger, boot, interruptions, admin, debits, credits, settled>>

(* Its transaction, again by id alone and again void if the row is gone.   *)
CloseWrite(e) ==
  LET k == op[e].key
      g == op[e].fill
  IN /\ op[e].pc = "finishing"
     /\ positions' =
          IF positions[k].status = "NONE" THEN positions
          ELSE [positions EXCEPT ![k].status = "CLOSED",
                                 ![k].reason = "TRADE",
                                 ![k].realized = g - op[e].basis - FeeOf[g]]
     /\ op' = [op EXCEPT ![e] = Idle]
     /\ UNCHANGED <<ledger, boot, interruptions, admin, debits, credits,
                    settled>>

(* The handler is abandoned between two commits: the next commit raises    *)
(* (database locked, disk full; _close swallows it, _try_open lets it end  *)
(* the cycle), or the process is killed and restarted by the supervisor.   *)
(* What was committed stays.                                               *)
Interrupt(e) ==
  /\ op[e].pc # "idle"
  /\ interruptions < MaxInterruptions
  /\ interruptions' = interruptions + 1
  /\ op' = [op EXCEPT ![e] = Idle]
  /\ UNCHANGED <<positions, ledger, boot, admin, debits, credits, settled>>

------------------------------------------------------------------------------
(* Administration                                                          *)

(* init_db reads starting_capital and finds it differs from .env.          *)
DetectDrift(p, c) ==
  /\ IF p \in Engines THEN Ready(p) ELSE WebReboots /\ boot[p] = 0
  /\ ledger.starting # c
  /\ admin.boots + admin.resets < MaxAdmin
  /\ admin' = [admin EXCEPT !.boots = @ + 1]
  /\ boot' = [boot EXCEPT ![p] = c]
  /\ UNCHANGED <<positions, ledger, op, interruptions, debits, credits,
                 settled>>

(* LedgerRepo.rebase_capital, one transaction that does not look again.    *)
RebaseCapital(p) ==
  /\ boot[p] # 0
  /\ positions' = [k \in Keys |->
       IF Live(k)
       THEN [positions[k] EXCEPT !.status = "CLOSED", !.realized = 0,
                                 !.reason = "CAPITAL_REBASE"]
       ELSE positions[k]]
  /\ ledger' = [ledger EXCEPT !.starting = boot[p], !.cash = boot[p]]
  /\ boot' = [boot EXCEPT ![p] = 0]
  /\ settled' = {k \in Keys : positions[k].status # "NONE"}
  /\ UNCHANGED <<op, interruptions, admin, debits, credits>>

(* LedgerRepo.reset_book, one transaction.                                 *)
ResetBook(c) ==
  /\ BookResets
  /\ admin.boots + admin.resets < MaxAdmin
  /\ admin' = [admin EXCEPT !.resets = @ + 1]
  /\ positions' = [k \in Keys |-> NoRow]
  /\ ledger' = [starting |-> c, cash |-> c, realized |-> 0, fees |-> 0,
                opened |-> 0, closed |-> 0]
  /\ debits' = [k \in Keys |-> 0]
  /\ credits' = [k \in Keys |-> 0]
  /\ settled' = {}
  /\ UNCHANGED <<op, boot, interruptions>>

------------------------------------------------------------------------------
EngineStep(e) ==
  \/ Buy(e) \/ InsertPosition(e)
  \/ RequestRead(e) \/ RequestWrite(e) \/ Sell(e)
  \/ CloseRead(e) \/ CloseWrite(e)

Next ==
  \/ \E e \in Engines :
       \/ \E k \in Keys, p \in Prices : PassGates(e, k, p)
       \/ \E k \in Keys, p \in Prices : ReadForClose(e, k, p)
       \/ EngineStep(e)
       \/ Interrupt(e)
  \/ \E p \in Procs : RebaseCapital(p) \/ \E c \in Capitals : DetectDrift(p, c)
  \/ \E c \in Capitals : ResetBook(c)

Spec == Init /\ [][Next]_vars

(* A handler once begun runs on: the engine thread waits for nothing.      *)
FairSpec == Spec /\ \A e \in Engines : WF_vars(EngineStep(e))

------------------------------------------------------------------------------
(* Properties                                                              *)

(* Every column and every in-flight handler has the shape the code gives.  *)
TypeOK ==
  /\ positions \in [Keys -> Rows]
  /\ ledger \in Ledgers
  /\ op \in [Engines -> {Idle} \cup Handlers]
  /\ boot \in [Procs -> Nat]
  /\ interruptions \in 0..MaxInterruptions
  /\ admin \in [boots : Nat, resets : Nat]
  /\ admin.boots + admin.resets <= MaxAdmin
  /\ debits \in [Keys -> Nat]
  /\ credits \in [Keys -> Nat]
  /\ settled \subseteq Keys

AllIdle == \A e \in Engines : op[e].pc = "idle"
InHand(k, pcs) == \E e \in Engines : op[e].key = k /\ op[e].pc \in pcs

(* What the promises depend on: that the table was never wiped under a      *)
(* running engine (which engines and dashboards run is a matter of the      *)
(* constants), and that no handler was abandoned.                           *)
Unwiped  == admin.resets = 0
Unfailed == Unwiped /\ interruptions = 0

(* With one engine, and for as long as nothing has failed, the bookings of  *)
(* a trade are as good as one: the ledger was debited for every row there   *)
(* is and for no other key, and credited for every row a trade closed and   *)
(* for no other, once each; only the key in the engine's hands may be one   *)
(* booking ahead of its row.                                                *)
BookedOnce ==
  Unfailed => \A k \in Keys :
    /\ debits[k] = IF positions[k].status # "NONE" \/ InHand(k, {"bought"})
                   THEN 1 ELSE 0
    /\ credits[k] = IF \/ positions[k].reason = "TRADE"
                       \/ InHand(k, {"sold", "finishing"})
                    THEN 1 ELSE 0

(* Whatever fails and wherever, and however many engines trade, the order   *)
(* of the commits keeps the errors on one side: a row has been paid for, a  *)
(* row closed by a trade has been paid out, and nothing was paid out for a  *)
(* row that never left OPEN.                                                *)
BookedAtLeastOnce ==
  Unwiped => \A k \in Keys :
    /\ positions[k].status # "NONE" => debits[k] >= 1
    /\ positions[k].reason = "TRADE" => credits[k] >= 1
    /\ credits[k] >= 1 => positions[k].status \in {"CLOSING", "CLOSED"}

(* What failures cost: with one engine, every booking beyond the one its    *)
(* row accounts for belongs to an abandoned handler or to the one under     *)
(* way, however often a close is retried.                                   *)
ExtraBookings ==
  LET over == [k \in Keys |->
                 debits[k] + credits[k]
                 - (IF positions[k].status # "NONE" THEN 1 ELSE 0)
                 - (IF positions[k].reason = "TRADE" THEN 1 ELSE 0)]
  IN SumFunction(over)
Ahead == {e \in Engines : op[e].pc \in {"bought", "sold", "finishing"}}
ExtraBookingsBounded ==
  Unwiped => ExtraBookings <= interruptions + Cardinality(Ahead)

(* Until something fails, the two records of the account agree whenever the *)
(* engine is between handlers: cash is the capital less what the rows cost  *)
(* plus what they returned, and the ledger's realized PnL is the sum over   *)
(* the closed rows. (Rows a rebase wrote off belong to an earlier account.) *)
CashOf(k) ==
  CASE positions[k].status = "NONE"  -> 0
    [] positions[k].reason = "TRADE" -> positions[k].realized
                                          - FeeOf[positions[k].entry]
    [] OTHER -> 0 - positions[k].entry - FeeOf[positions[k].entry]
BooksAgree ==
  Unfailed /\ AllIdle =>
    /\ ledger.cash = ledger.starting
         + SumFunctionOnSet([k \in Keys |-> CashOf(k)], Keys \ settled)
    /\ ledger.realized = SumFunction([k \in Keys |-> positions[k].realized])
    /\ ledger.opened = Cardinality({k \in Keys : positions[k].status # "NONE"})
    /\ ledger.closed =
         Cardinality({k \in Keys : positions[k].reason = "TRADE"})

(* A CLOSED row is final, with one engine and no dashboard booting beside   *)
(* it: no later step changes it, short of wiping the table.                 *)
ClosedIsFinal ==
  [][\A k \in Keys : positions[k].status = "CLOSED" =>
       positions'[k] \in {positions[k], NoRow}]_vars

(* A row comes only from an insert, as OPEN: a close under way when the    *)
(* table is wiped does not bring its row back.                             *)
RowsComeFromInsert ==
  [][\A k \in Keys :
       positions[k].status = "NONE" =>
         positions'[k].status \in {"NONE", "OPEN"}]_vars

(* The first fill of a key stands: a second engine that opened the same    *)
(* signal does not overwrite it.                                           *)
FirstFillStands ==
  [][Unwiped' => \A k \in Keys :
       positions[k].status # "NONE" => positions'[k].entry = positions[k].entry
     ]_vars

(* Every handler the engine begins comes to an end, so the next tick comes.*)
HandlersEnd == \A e \in Engines : op[e].pc # "idle" ~> op[e].pc = "idle"

(* One engine, and no dashboard booting while it trades.                   *)
OneEngine  == \A d, e \in Engines : d = e
Undisturbed == OneEngine /\ ~WebReboots

(* Inductive strengthenings, one per promise. OrderInv: what a handler has *)
(* behind it at each point, whatever the other processes do.               *)
OrderInv ==
  \A e \in Engines :
    LET k == op[e].key IN
    /\ op[e].pc = "bought" => debits[k] >= 1
    /\ op[e].pc \in Closing => positions[k].status # "NONE"
    /\ op[e].pc \in {"requested", "sold", "finishing"} =>
         positions[k].status \in {"CLOSING", "CLOSED"}
    /\ op[e].pc \in {"sold", "finishing"} => credits[k] >= 1

(* BootInv: an engine rebases before it trades, and nobody else does.      *)
BootInv ==
  /\ boot["web"] = 0
  /\ \A e \in Engines : boot[e] # 0 => op[e].pc = "idle"

(* FreshInv: what request_close and close read is still true when they     *)
(* write.                                                                  *)
FreshInv ==
  \A e \in Engines :
    op[e].pc \in {"requesting", "finishing"} =>
      positions[op[e].key].status # "CLOSED"

(* StepInv: the status of a row names the point its handler has reached.   *)
StepInv ==
  /\ \A e \in Engines :
       LET s == positions[op[e].key].status IN
       /\ op[e].pc \in {"gated", "bought"} => s = "NONE"
       /\ op[e].pc \in {"closing", "requesting"} => s = "OPEN"
       /\ op[e].pc \in {"requested", "sold", "finishing"} => s = "CLOSING"
  /\ \A k \in Keys :
       /\ positions[k].status = "CLOSING" =>
            InHand(k, {"requested", "sold", "finishing"})
       /\ positions[k].status = "CLOSED" <=> positions[k].reason # "none"

(* What ARCHITECTURE.md says and the code does not do when a close fails    *)
(* after the credit and is tried again: "Closing twice is a no-op, not a    *)
(* double-booking".                                                         *)
ClosingTwiceBooksOnce == \A k \in Keys : credits[k] <= 1

------------------------------------------------------------------------------
(* The abstract account. A trade is entered when the ledger is debited and *)
(* left when it is credited; a CLOSING row has not been left yet.          *)
Hand(k) == CHOOSE e \in Engines : op[e].key = k
stageOf(k) ==
  IF InHand(k, {"sold", "finishing"}) \/ positions[k].status = "CLOSED"
  THEN "done"
  ELSE IF InHand(k, {"bought"}) \/ Live(k) THEN "held" ELSE "none"
costOf(k) == IF InHand(k, {"bought"}) THEN op[Hand(k)].fill
             ELSE positions[k].entry

Account == INSTANCE TradeLedger WITH
  Gross <- Fills,
  stage <- [k \in Keys |-> stageOf(k)],
  cost <- [k \in Keys |-> costOf(k)],
  cash <- ledger.cash,
  realized <- ledger.realized

(* One engine implements the account for as long as nothing has failed: a   *)
(* step either is a step of the account, leaves it as it is, or is (or      *)
(* comes after) a failure.                                                  *)
AccountSpec ==
  /\ Account!Init
  /\ [][Unfailed' => Account!Next]_(Account!vars)
==============================================================================
