----------------------------- MODULE ExitPolicy -----------------------------
(***************************************************************************)
(* position_manager.manage_all and exit_rules.evaluate: how the stop of an *)
(* open position moves, and when the position is closed. A pass takes the  *)
(* live positions one by one; for each it raises the stop, records the     *)
(* mark and evaluates the plan, in commits of their own. How a close is    *)
(* booked is module Booking's subject.                                     *)
(***************************************************************************)
EXTENDS Integers

CONSTANTS
  Positions,
  Market,     \* [Positions -> the market the position is in]
  Plans,      \* [markets -> the plan a position there is opened with]
  Feed,       \* [markets -> prices its feed may report, 0 included or not]
  StaleAge,   \* STALE_FLATTEN_S, in steps of the clock
  MaxFaults   \* bound: commits that fail

Markets == {Market[p] : p \in Positions}
NoMark  == -1        \* no entry for the position in `marks`
Nobody  == "nobody"

(* ExitPlan.build and settings.exit_params; `keep` is 100 less the         *)
(* percentage given back, `lock` the lock-in price or 0 where it is off.   *)
PlanFields == [entry : Nat, stop : Nat, target : Nat, arm : Nat,
               keep : 0..100, lock : Nat, scalp : BOOLEAN, equity : BOOLEAN]

ASSUME ExitPolicyAssumption ==
  /\ Nobody \notin Positions
  /\ Plans \in [Markets -> PlanFields]
  /\ Feed \in [Markets -> SUBSET Nat]
  /\ StaleAge \in Nat
  /\ MaxFaults \in Nat

VARIABLES
  row,     \* [Positions -> the columns of `positions` the rules look at]
  pc,      \* what the pass does next
  todo,    \* the positions the pass has still to look at
  cur,     \* the position it is looking at
  marks,   \* the marks of the pass, NoMark where there is none
  flatten, \* _should_flatten, read as the pass begins
  late,    \* [Positions -> BOOLEAN], time_stop_ts has passed
  bell,    \* the equity session is within FLATTEN_WINDOW_S of its close
  peak,    \* history: highest mark recorded for the position
  faults   \* commits that failed so far

vars == <<row, pc, todo, cur, marks, flatten, late, bell, peak, faults>>

PlanOf(p) == Plans[Market[p]]

(* mutant: a row that a failed close left CLOSING is not looked at again. *)
LiveOpenOnly(p) == row[p].status = "OPEN"

Live(p)   == row[p].status \in {"OPEN", "CLOSING"}

Prices == {0} \cup UNION {Feed[k] : k \in Markets}

(* As open_position inserted it; a scalp may have got a VWAP floor, of any  *)
(* height, with its plan.                                                   *)
Init ==
  /\ \E floor \in [Positions -> Prices] :
       /\ \A p \in Positions :
            floor[p] = 0 \/ (PlanOf(p).scalp /\ floor[p] \in Feed[Market[p]])
       /\ row = [p \in Positions |->
            [status |-> "OPEN", stop |-> PlanOf(p).stop, water |-> 0,
             floor |-> floor[p], age |-> 0]]
  /\ pc = "between"
  /\ todo = {}
  /\ cur = Nobody
  /\ marks = [p \in Positions |-> NoMark]
  /\ flatten = FALSE
  /\ late = [p \in Positions |-> FALSE]
  /\ bell = FALSE
  /\ peak = [p \in Positions |-> 0]
  /\ faults = 0

------------------------------------------------------------------------------
(* exit_rules                                                              *)

(* effective_stop: the lock-in price counts as the stop as soon as it was  *)
(* reached, even if it has not been written yet.                           *)
EffectiveStop(p, m) ==
  LET lock == PlanOf(p).lock IN
  IF /\ lock > 0
     /\ m >= lock \/ row[p].water >= lock \/ row[p].stop >= lock
     /\ lock > row[p].stop
  THEN lock
  ELSE row[p].stop

(* The level, times 100, that an armed trailing stop closes at.            *)
TrailLevel(p) == row[p].water * PlanOf(p).keep

(* mutant: the stop of the plan, whatever was locked in since.             *)
VerdictByPlan(p, m) ==
  IF m > 0 /\ m <= PlanOf(p).stop THEN "STOP_LOSS" ELSE "HOLD"

(* evaluate, in its order of precedence.                                   *)
Verdict(p, m) ==
  LET stop == EffectiveStop(p, m)
      plan == PlanOf(p)
  IN IF ~Live(p) \/ m <= 0 THEN "HOLD"
     ELSE IF m <= stop THEN "STOP_LOSS"
     ELSE IF plan.scalp /\ row[p].floor > 0 /\ m < row[p].floor
          THEN "VWAP_BREAK"
     ELSE IF /\ row[p].water > 0 /\ plan.keep < 100
             /\ 100 * m <= TrailLevel(p) /\ TrailLevel(p) > 100 * stop
          THEN "TRAILING_STOP"
     ELSE IF m >= plan.target THEN "TAKE_PROFIT"
     ELSE IF late[p] THEN "TIME_STOP"
     ELSE IF flatten /\ plan.equity THEN "SESSION_FLATTEN"
     ELSE "HOLD"

------------------------------------------------------------------------------
(* manage_all                                                              *)

(* The prices of each market arrive in a batch that may fail as a whole;   *)
(* within a batch a symbol may be missing.                                 *)
Batch(dead) ==
  {m \in [Positions -> {NoMark} \cup UNION {Feed[k] : k \in Markets}] :
     \A p \in Positions :
       \/ m[p] = NoMark
       \/ Live(p) /\ Market[p] \notin dead /\ m[p] \in Feed[Market[p]]}

BeginPass(dead) ==
  /\ pc = "between"
  /\ marks' \in Batch(dead)
  /\ todo' = {p \in Positions : Live(p)}
  /\ flatten' = bell
  /\ pc' = "next"
  /\ UNCHANGED <<row, cur, late, bell, peak, faults>>

(* mutant: a position without a mark goes the way of the others.           *)
TakeNextUnpriced(p) ==
  /\ pc = "next"
  /\ p \in todo
  /\ todo' = todo \ {p}
  /\ cur' = p
  /\ pc' = "raise"
  /\ UNCHANGED <<row, marks, flatten, late, bell, peak, faults>>

(* The next position: without a mark it is passed over until it has been   *)
(* unpriced for too long, and then closed at its last price; with one, the *)
(* VWAP floor of a scalp is refreshed if its bars can be had.              *)
TakeNext(p) ==
  /\ pc = "next"
  /\ p \in todo
  /\ todo' = todo \ {p}
  /\ CASE marks[p] = NoMark /\ row[p].age <= StaleAge ->
            pc' = "next" /\ cur' = Nobody /\ UNCHANGED row
       [] marks[p] = NoMark /\ row[p].age > StaleAge ->
            pc' = "close" /\ cur' = p /\ UNCHANGED row
       [] OTHER ->
            /\ pc' = "raise" /\ cur' = p
            /\ \/ UNCHANGED row
               \/ /\ PlanOf(p).scalp /\ Live(p)
                  /\ \E f \in Feed[Market[p]] \ {0} :
                       row' = [row EXCEPT ![p].floor = f]
  /\ UNCHANGED <<marks, flatten, late, bell, peak, faults>>

(* _maybe_raise_lock_in_stop and PositionRepo.raise_stop, which never      *)
(* lowers. Mutants: the lock-in is not written; it is written at the mark, *)
(* wherever the mark is.                                                   *)
RaiseStopNever ==
  /\ pc = "raise"
  /\ pc' = "mark"
  /\ UNCHANGED <<row, todo, cur, marks, flatten, late, bell, peak, faults>>

RaiseStopToMark ==
  /\ pc = "raise"
  /\ row' = IF PlanOf(cur).lock > 0
            THEN [row EXCEPT ![cur].stop = marks[cur]] ELSE row
  /\ pc' = "mark"
  /\ UNCHANGED <<todo, cur, marks, flatten, late, bell, peak, faults>>

RaiseStop ==
  LET lock == PlanOf(cur).lock IN
  /\ pc = "raise"
  /\ row' = IF /\ lock > 0 /\ marks[cur] >= lock
               /\ Live(cur) /\ row[cur].stop < lock
            THEN [row EXCEPT ![cur].stop = lock] ELSE row
  /\ pc' = "mark"
  /\ UNCHANGED <<todo, cur, marks, flatten, late, bell, peak, faults>>

(* PositionRepo.mark: the mark is fresh, and an armed trail follows it up. *)
RecordMark ==
  LET m == marks[cur] IN
  /\ pc = "mark"
  /\ IF Live(cur)
     THEN /\ row' = [row EXCEPT ![cur].age = 0,
                       ![cur].water = IF m >= PlanOf(cur).arm /\ m > @
                                      THEN m ELSE @]
          /\ peak' = [peak EXCEPT ![cur] = IF m > @ THEN m ELSE @]
     ELSE UNCHANGED <<row, peak>>
  /\ pc' = "evaluate"
  /\ UNCHANGED <<todo, cur, marks, flatten, late, bell, faults>>

Evaluate ==
  /\ pc = "evaluate"
  /\ pc' = IF Verdict(cur, marks[cur]) = "HOLD" THEN "next" ELSE "close"
  /\ UNCHANGED <<row, todo, cur, marks, flatten, late, bell, peak, faults>>

(* _close, or its failure, which it swallows: the row may be left CLOSING. *)
Close ==
  /\ pc = "close"
  /\ row' = [row EXCEPT ![cur].status = "CLOSED"]
  /\ pc' = "next"
  /\ UNCHANGED <<todo, cur, marks, flatten, late, bell, peak, faults>>

CloseFails ==
  /\ pc = "close"
  /\ faults < MaxFaults
  /\ faults' = faults + 1
  /\ Live(cur)
  /\ \E s \in {row[cur].status, "CLOSING"} :
       row' = [row EXCEPT ![cur].status = s]
  /\ pc' = "next"
  /\ UNCHANGED <<todo, cur, marks, flatten, late, bell, peak>>

EndPass ==
  /\ pc = "next"
  /\ todo = {}
  /\ pc' = "between"
  /\ cur' = Nobody
  /\ flatten' = FALSE
  /\ UNCHANGED <<row, todo, marks, late, bell, peak, faults>>

(* A commit of raise_stop or mark raises, or the process dies: the pass is *)
(* over, for the positions still to come as well.                          *)
Abort ==
  /\ pc \notin {"between"}
  /\ faults < MaxFaults
  /\ faults' = faults + 1
  /\ pc' = "between"
  /\ todo' = {}
  /\ cur' = Nobody
  /\ flatten' = FALSE
  /\ UNCHANGED <<row, marks, late, bell, peak>>

(* Another process closes the row (rebase_capital at its start).           *)
ClosedElsewhere(p) ==
  /\ Live(p)
  /\ row' = [row EXCEPT ![p].status = "CLOSED"]
  /\ UNCHANGED <<pc, todo, cur, marks, flatten, late, bell, peak, faults>>

(* Time passes between passes: marks age, time stops pass, the bell nears  *)
(* and, the next day, is far again.                                        *)
Elapse ==
  /\ pc = "between"
  /\ row' = [p \in Positions |->
               [row[p] EXCEPT !.age = IF @ > StaleAge THEN @ ELSE @ + 1]]
  /\ late' \in {l \in [Positions -> BOOLEAN] :
                  \A p \in Positions : late[p] => l[p]}
  /\ bell' \in BOOLEAN
  /\ UNCHANGED <<pc, todo, cur, marks, flatten, peak, faults>>

------------------------------------------------------------------------------
PassStep ==
  \/ \E dead \in SUBSET Markets : BeginPass(dead)
  \/ \E p \in Positions : TakeNext(p)
  \/ RaiseStop \/ RecordMark \/ Evaluate \/ Close \/ EndPass

Next ==
  \/ PassStep \/ CloseFails \/ Abort \/ Elapse
  \/ \E p \in Positions : ClosedElsewhere(p)

Spec == Init /\ [][Next]_vars

(* The engine makes pass after pass (module EngineLoop), and time passes   *)
(* between them however often the next one begins.                         *)
FairSpec ==
  /\ Spec
  /\ WF_vars(PassStep)
  /\ SF_vars(Elapse)

------------------------------------------------------------------------------
(* Properties                                                              *)

RowFields == [status : {"OPEN", "CLOSING", "CLOSED"}, stop : Nat, water : Nat,
              floor : Nat, age : 0..(StaleAge + 1)]

(* Every column has its shape, and the pass is at a point it can be at.    *)
TypeOK ==
  /\ row \in [Positions -> RowFields]
  /\ pc \in {"between", "next", "raise", "mark", "evaluate", "close"}
  /\ todo \subseteq Positions
  /\ cur \in Positions \cup {Nobody}
  /\ pc \in {"raise", "mark", "evaluate"} =>
       cur \in Positions /\ marks[cur] \in Nat
  /\ pc = "close" => cur \in Positions
  /\ marks \in [Positions -> Nat \cup {NoMark}]
  /\ flatten \in BOOLEAN
  /\ late \in [Positions -> BOOLEAN]
  /\ bell \in BOOLEAN
  /\ peak \in [Positions -> Nat]
  /\ faults \in 0..MaxFaults

(* The stop and the trail's high water only ever rise, whatever the marks  *)
(* do and wherever a pass is cut short.                                    *)
OnlyRatchets ==
  [][\A p \in Positions : /\ row'[p].stop >= row[p].stop
                          /\ row'[p].water >= row[p].water]_vars

(* A gain once seen is locked in: a mark at the lock-in price is never     *)
(* recorded before the stop was raised to it, so no failure between the    *)
(* two commits can lose the lock.                                          *)
PeakIsLocked ==
  \A p \in Positions :
    PlanOf(p).lock > 0 /\ peak[p] >= PlanOf(p).lock =>
      row[p].stop >= PlanOf(p).lock

(* A pass never leaves a live position held at a price at or below its     *)
(* stop, nor at or below the lock-in price once it had traded there.       *)
HeldAboveTheFloor ==
  [][/\ pc = "evaluate" /\ pc' = "next"
     /\ Live(cur) /\ marks[cur] > 0
     => /\ marks[cur] > row[cur].stop
        /\ PlanOf(cur).lock > 0 /\ peak[cur] >= PlanOf(cur).lock =>
             marks[cur] > PlanOf(cur).lock]_vars

(* A stop is honoured: a position that is not priced above its stop again  *)
(* and again, but is from some point on broken or unpriced in every pass,  *)
(* is closed, though the other market is dead for good and commits fail.   *)
(* (A price of 0 counts as a price here; see UnusablePriceIsLeft.)         *)
Safe(p) == marks[p] = 0 \/ marks[p] > row[p].stop
StopIsHonoured ==
  \A p \in Positions :
    []<>(pc = "between" /\ Safe(p)) \/ <>(row[p].status = "CLOSED")

(* position_manager.py, "Holding through a dead feed means the stop is not *)
(* real": a position without a price it can be judged by is closed.        *)
UnusablePriceIsLeft ==
  \A p \in Positions : []<>(marks[p] > 0) \/ <>(row[p].status = "CLOSED")
==============================================================================
