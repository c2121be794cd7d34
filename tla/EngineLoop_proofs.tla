-------------------------- MODULE EngineLoop_proofs --------------------------
(* Proofs about EngineLoop, for every number of commands, candidates,       *)
(* exceptions and deaths.                                                   *)
EXTENDS EngineLoop, SequenceTheorems, FiniteSetTheorems, TLAPS

(* What the steps do to the typed pieces of state.                           *)
LEMMA MarkedRow ==
  ASSUME TypeOK, NEW i \in Int, NEW s \in {"QUEUED", "RUNNING", "DONE", "FAILED"}
  PROVE  /\ [commands EXCEPT ![i].status = s] \in Seq(Entries)
         /\ Len([commands EXCEPT ![i].status = s]) = Len(commands)
<1> DEFINE row == [commands[i] EXCEPT !.status = s]
<1>1. commands \in Seq(Entries)
  BY DEF TypeOK
<1>2. CASE i \in 1..Len(commands)
  <2>1. commands[i] \in Entries
    BY <1>1, <1>2
  <2>2. row \in Entries
    BY <2>1 DEF Entries
  <2>3. [commands EXCEPT ![i] = row] \in Seq(Entries)
        /\ Len([commands EXCEPT ![i] = row]) = Len(commands)
    BY <1>1, <1>2, <2>2, ExceptSeq
  <2> QED
    BY <2>3
<1>3. CASE i \notin 1..Len(commands)
  <2>1. [commands EXCEPT ![i].status = s] = commands
    BY <1>1, <1>3
  <2> QED
    BY <1>1, <2>1
<1> QED
  BY <1>2, <1>3

(* A command that takes effect leaves counters of effects. *)
LEMMA Applies ==
  ASSUME TypeOK, TakesEffect
  PROVE  applied' \in [1..MaxCommands -> Nat]
<1> DEFINE D == 1..MaxCommands
<1>1. applied \in [D -> Nat]
  BY DEF TypeOK
<1>2. applied' = [applied EXCEPT ![cmd] = applied[cmd] + 1]
  BY DEF TakesEffect
<1> HIDE DEF D
<1>3. ASSUME cmd \in D PROVE applied[cmd] + 1 \in Nat
  <2>1. applied[cmd] \in Nat
    BY <1>1, <1>3
  <2> QED
    BY <2>1
<1>4. applied' \in [D -> Nat]
  BY <1>1, <1>2, <1>3, Zenon
<1> QED
  BY <1>4 DEF D

(* What a step makes of the tick and the scan has their types. *)
LEMMA TickAndScan ==
  ASSUME TypeOK
  PROVE  /\ NoScan \in Scans
         /\ [tick EXCEPT !.managed = TRUE] \in Ticks
         /\ scan.then \in {"answering", "beat"}
         /\ scan.todo > 0 => [scan EXCEPT !.todo = @ - 1] \in Scans
         /\ \A n \in 0..MaxCandidates, p \in {"answering", "beat"} :
              [todo |-> n, then |-> p] \in Scans
<1>1. NoScan \in Scans
  BY EngineLoopAssumption DEF NoScan, Scans
<1>2. [tick EXCEPT !.managed = TRUE] \in Ticks
  BY DEF TypeOK, Ticks
<1>3. scan \in Scans
  BY DEF TypeOK
<1>4. \A n \in 0..MaxCandidates, p \in {"answering", "beat"} :
        [todo |-> n, then |-> p] \in Scans
  BY DEF Scans
<1>5. ASSUME scan.todo > 0 PROVE [scan EXCEPT !.todo = @ - 1] \in Scans
  <2>1. scan.todo - 1 \in 0..MaxCandidates
    BY <1>3, <1>5, EngineLoopAssumption DEF Scans
  <2> QED
    BY <1>3, <2>1 DEF Scans
<1> QED
  BY <1>1, <1>2, <1>3, <1>4, <1>5 DEF Scans

(* Every row of the queue and every piece of engine state keeps its shape.  *)
THEOREM TypeCorrect == Spec => []TypeOK
<1>1. Init => TypeOK
  <2> SUFFICES ASSUME Init PROVE TypeOK
    OBVIOUS
  <2>1. commands \in Seq(Entries) /\ Len(commands) = 0
    BY DEF Init
  <2>4. applied \in [1..MaxCommands -> Nat]
    BY DEF Init
  <2>5. /\ cmd \in 0..Len(commands) /\ Len(commands) <= MaxCommands
        /\ faults \in 0..MaxFaults /\ crashes \in 0..MaxCrashes
    BY <2>1, EngineLoopAssumption DEF Init
  <2>2. NoScan \in Scans
    BY EngineLoopAssumption DEF NoScan, Scans
  <2>3. tick \in Ticks
    BY EngineLoopAssumption DEF Init, Ticks, Regimes
  <2> QED
    BY <2>1, <2>2, <2>3, <2>4, <2>5, EngineLoopAssumption DEF Init, TypeOK, Points
<1>2. TypeOK /\ [Next]_vars => TypeOK'
  <2> SUFFICES ASSUME TypeOK, [Next]_vars PROVE TypeOK'
    OBVIOUS
  <2> USE EngineLoopAssumption DEF TypeOK, Points, queue, kv, clock, luck
  <2>1. ASSUME NEW kind \in Kinds, Enqueue(kind)
        PROVE  TypeOK'
    BY <2>1 DEF Enqueue, Entries, AllKinds
  <2>2. ASSUME NEW r \in Regimes, BeginTick(r)
        PROVE  TypeOK'
    BY <2>2 DEF BeginTick, Ticks
  <2>3. CASE ClaimNext
    <3>1. CASE Queued = {} /\ pc' = "manage" /\ UNCHANGED <<commands, cmd>>
      BY <2>3, <3>1 DEF ClaimNext
    <3>2. ASSUME NEW i \in Queued, cmd' = i, pc' = "running",
                 commands' = [commands EXCEPT ![i].status = "RUNNING"]
          PROVE  TypeOK'
      <4>1. i \in 1..Len(commands)
        BY DEF Queued
      <4>2. commands' \in Seq(Entries) /\ Len(commands') = Len(commands)
        <5>1. i \in Int
          BY <4>1
        <5> HIDE DEF TypeOK
        <5> QED
          BY <3>2, <5>1, MarkedRow
      <4> QED
        BY <2>3, <3>2, <4>1, <4>2 DEF ClaimNext
    <3> QED
      BY <2>3, <3>1, <3>2 DEF ClaimNext
  <2>4. CASE RunHalt
    BY <2>4, Applies DEF RunHalt, Running
  <2>5. CASE RunResume
    BY <2>5, Applies DEF RunResume, Running
  <2>6. CASE RunClose
    BY <2>6, Applies DEF RunClose, Running
  <2>7. CASE RunFlatten
    BY <2>7, Applies DEF RunFlatten, Running
  <2>8. ASSUME NEW r \in Regimes, RunScanNow(r)
        PROVE  TypeOK'
    BY <2>8, Applies, TickAndScan DEF RunScanNow, Running, Regimes
  <2>9. ASSUME NEW r \in Regimes \cup {Clear}, RunSetRegime(r)
        PROVE  TypeOK'
    BY <2>9, Applies DEF RunSetRegime, Running
  <2>10. CASE RunOther
    BY <2>10, Applies DEF RunOther, Running
  <2>11. CASE RunUnknown
    BY <2>11, Applies DEF RunUnknown, Running
  <2>12. ASSUME NEW at \in {"answering", "refusing"},
              NEW status \in {"DONE", "FAILED"}, Complete(at, status)
        PROVE  TypeOK'
    <3>1. commands' \in Seq(Entries) /\ Len(commands') = Len(commands)
      <4>1. cmd \in Int
        OBVIOUS
      <4> HIDE DEF TypeOK
      <4> QED
        BY <2>12, <4>1, MarkedRow DEF Complete
    <3> QED
      BY <2>12, <3>1 DEF Complete
  <2>13. CASE ManageGate
    BY <2>13, TickAndScan DEF ManageGate
  <2>14. CASE ManageAll
    BY <2>14, TickAndScan DEF ManageAll
  <2>15. CASE ScanGate
    BY <2>15, TickAndScan DEF ScanGate, Regimes
  <2>16. CASE TryOpen
    BY <2>16, TickAndScan DEF TryOpen
  <2>17. CASE Open
    BY <2>17 DEF Open
  <2>18. CASE FinishScan
    BY <2>18, TickAndScan DEF FinishScan
  <2>19. CASE Beat
    BY <2>19 DEF Beat
  <2>20. CASE CommandRaises
    BY SMTT(20), <2>20, TickAndScan DEF CommandRaises
  <2>21. CASE TickRaises
    BY SMTT(20), <2>21, TickAndScan DEF TickRaises
  <2>22. CASE HandleCycleFailure
    BY <2>22 DEF HandleCycleFailure
  <2>23. CASE Crash
    BY <2>23, TickAndScan DEF Crash
  <2>24. CASE Restart
    BY <2>24 DEF Restart
  <2>25. CASE ManageComesDue
    BY <2>25 DEF ManageComesDue
  <2>26. ASSUME NEW r \in Desks, ScanComesDue(r)
        PROVE  TypeOK'
    BY <2>26 DEF ScanComesDue
  <2>27. CASE UNCHANGED vars
    BY <2>27 DEF vars
  <2> QED
    BY <2>1, <2>2, <2>3, <2>4, <2>5, <2>6, <2>7, <2>8, <2>9,
       <2>10, <2>11, <2>12, <2>13, <2>14, <2>15, <2>16, <2>17, <2>18,
       <2>19, <2>20, <2>21, <2>22, <2>23, <2>24, <2>25, <2>26, <2>27
    DEF Next, EngineStep, RunCommand, CompleteDone, CompleteFailed
<1> QED
  BY <1>1, <1>2, PTL DEF Spec

(* The kill switch: risk.check reads it one step before the fill, and only  *)
(* the engine thread ever writes it, so what was read still stands when the *)
(* position opens.                                                          *)
THEOREM KillSwitchHolds == Spec => HaltedOpensNothing
<1> DEFINE Inv == pc = "opening" => ~halted
           Quiet == halted => book' <= book
<1>1. Init => Inv
  BY DEF Init
<1>2. TypeOK /\ Inv /\ [Next]_vars => Inv' /\ [Quiet]_vars
  <2> SUFFICES ASSUME TypeOK, Inv, [Next]_vars PROVE Inv' /\ Quiet
    OBVIOUS
  <2> USE DEF kv
  <2>0. book \in Nat
    BY DEF TypeOK
  <2>1. ASSUME NEW kind \in Kinds, Enqueue(kind)
        PROVE  Inv' /\ Quiet
    BY <2>0, <2>1 DEF Enqueue
  <2>2. ASSUME NEW r \in Regimes, BeginTick(r)
        PROVE  Inv' /\ Quiet
    BY <2>0, <2>2 DEF BeginTick
  <2>3. CASE ClaimNext
    BY <2>0, <2>3 DEF ClaimNext
  <2>4. CASE RunHalt
    BY <2>0, <2>4 DEF RunHalt, Running
  <2>5. CASE RunResume
    BY <2>0, <2>5 DEF RunResume, Running
  <2>6. CASE RunClose
    BY <2>0, <2>6 DEF RunClose, Running
  <2>7. CASE RunFlatten
    BY <2>0, <2>7 DEF RunFlatten, Running
  <2>8. ASSUME NEW r \in Regimes, RunScanNow(r)
        PROVE  Inv' /\ Quiet
    BY <2>0, <2>8 DEF RunScanNow, Running
  <2>9. ASSUME NEW r \in Regimes \cup {Clear}, RunSetRegime(r)
        PROVE  Inv' /\ Quiet
    BY <2>0, <2>9 DEF RunSetRegime, Running
  <2>10. CASE RunOther
    BY <2>0, <2>10 DEF RunOther, Running
  <2>11. CASE RunUnknown
    BY <2>0, <2>11 DEF RunUnknown, Running
  <2>12. ASSUME NEW at \in {"answering", "refusing"},
              NEW status \in {"DONE", "FAILED"}, Complete(at, status)
        PROVE  Inv' /\ Quiet
    BY <2>0, <2>12 DEF Complete
  <2>13. CASE ManageGate
    BY <2>0, <2>13 DEF ManageGate
  <2>14. CASE ManageAll
    BY <2>0, <2>14 DEF ManageAll
  <2>15. CASE ScanGate
    BY <2>0, <2>15 DEF ScanGate
  <2>16. CASE TryOpen
    BY <2>0, <2>16 DEF TryOpen
  <2>17. CASE Open
    BY <2>0, <2>17 DEF Open
  <2>18. CASE FinishScan
    BY TickAndScan, <2>0, <2>18 DEF FinishScan
  <2>19. CASE Beat
    BY <2>0, <2>19 DEF Beat
  <2>20. CASE CommandRaises
    BY <2>0, <2>20 DEF CommandRaises
  <2>21. CASE TickRaises
    BY <2>0, <2>21 DEF TickRaises
  <2>22. CASE HandleCycleFailure
    BY <2>0, <2>22 DEF HandleCycleFailure
  <2>23. CASE Crash
    BY <2>0, <2>23 DEF Crash
  <2>24. CASE Restart
    BY <2>0, <2>24 DEF Restart
  <2>25. CASE ManageComesDue
    BY <2>0, <2>25 DEF ManageComesDue
  <2>26. ASSUME NEW r \in Desks, ScanComesDue(r)
        PROVE  Inv' /\ Quiet
    BY <2>0, <2>26 DEF ScanComesDue
  <2>27. CASE UNCHANGED vars
    BY <2>0, <2>27 DEF vars
  <2> QED
    BY <2>1, <2>2, <2>3, <2>4, <2>5, <2>6, <2>7, <2>8, <2>9,
       <2>10, <2>11, <2>12, <2>13, <2>14, <2>15, <2>16, <2>17, <2>18,
       <2>19, <2>20, <2>21, <2>22, <2>23, <2>24, <2>25, <2>26, <2>27
    DEF Next, EngineStep, RunCommand, CompleteDone, CompleteFailed
<1> QED
  BY <1>1, <1>2, TypeCorrect, PTL DEF Spec, HaltedOpensNothing

(* The limit on open positions: what the scan read of the book before a     *)
(* fill is still so at the fill, because one thread does both.              *)
THEOREM LimitIsKept == Spec => []BookWithinLimit
<1> DEFINE Inv == BookWithinLimit /\ (pc = "opening" => book < MaxOpen)
<1>1. Init => Inv
  BY EngineLoopAssumption DEF Init, BookWithinLimit
<1>2. TypeOK /\ Inv /\ [Next]_vars => Inv'
  <2> SUFFICES ASSUME TypeOK, Inv, [Next]_vars PROVE Inv'
    OBVIOUS
  <2> USE EngineLoopAssumption DEF BookWithinLimit
  <2>0. book \in Nat
    BY DEF TypeOK
  <2>1. ASSUME NEW kind \in Kinds, Enqueue(kind)
        PROVE  Inv'
    BY <2>0, <2>1 DEF Enqueue
  <2>2. ASSUME NEW r \in Regimes, BeginTick(r)
        PROVE  Inv'
    BY <2>0, <2>2 DEF BeginTick
  <2>3. CASE ClaimNext
    BY <2>0, <2>3 DEF ClaimNext
  <2>4. CASE RunHalt
    BY <2>0, <2>4 DEF RunHalt, Running
  <2>5. CASE RunResume
    BY <2>0, <2>5 DEF RunResume, Running
  <2>6. CASE RunClose
    BY <2>0, <2>6 DEF RunClose, Running
  <2>7. CASE RunFlatten
    BY <2>0, <2>7 DEF RunFlatten, Running
  <2>8. ASSUME NEW r \in Regimes, RunScanNow(r)
        PROVE  Inv'
    BY <2>0, <2>8 DEF RunScanNow, Running
  <2>9. ASSUME NEW r \in Regimes \cup {Clear}, RunSetRegime(r)
        PROVE  Inv'
    BY <2>0, <2>9 DEF RunSetRegime, Running
  <2>10. CASE RunOther
    BY <2>0, <2>10 DEF RunOther, Running
  <2>11. CASE RunUnknown
    BY <2>0, <2>11 DEF RunUnknown, Running
  <2>12. ASSUME NEW at \in {"answering", "refusing"},
              NEW status \in {"DONE", "FAILED"}, Complete(at, status)
        PROVE  Inv'
    BY <2>0, <2>12 DEF Complete
  <2>13. CASE ManageGate
    BY <2>0, <2>13 DEF ManageGate
  <2>14. CASE ManageAll
    BY <2>0, <2>14 DEF ManageAll
  <2>15. CASE ScanGate
    BY <2>0, <2>15 DEF ScanGate
  <2>16. CASE TryOpen
    BY <2>0, <2>16 DEF TryOpen
  <2>17. CASE Open
    BY <2>0, <2>17 DEF Open
  <2>18. CASE FinishScan
    BY TickAndScan, <2>0, <2>18 DEF FinishScan
  <2>19. CASE Beat
    BY <2>0, <2>19 DEF Beat
  <2>20. CASE CommandRaises
    BY <2>0, <2>20 DEF CommandRaises
  <2>21. CASE TickRaises
    BY <2>0, <2>21 DEF TickRaises
  <2>22. CASE HandleCycleFailure
    BY <2>0, <2>22 DEF HandleCycleFailure
  <2>23. CASE Crash
    BY <2>0, <2>23 DEF Crash
  <2>24. CASE Restart
    BY <2>0, <2>24 DEF Restart
  <2>25. CASE ManageComesDue
    BY <2>0, <2>25 DEF ManageComesDue
  <2>26. ASSUME NEW r \in Desks, ScanComesDue(r)
        PROVE  Inv'
    BY <2>0, <2>26 DEF ScanComesDue
  <2>27. CASE UNCHANGED vars
    BY <2>0, <2>27 DEF vars
  <2> QED
    BY <2>1, <2>2, <2>3, <2>4, <2>5, <2>6, <2>7, <2>8, <2>9,
       <2>10, <2>11, <2>12, <2>13, <2>14, <2>15, <2>16, <2>17, <2>18,
       <2>19, <2>20, <2>21, <2>22, <2>23, <2>24, <2>25, <2>26, <2>27
    DEF Next, EngineStep, RunCommand, CompleteDone, CompleteFailed
<1> QED
  BY <1>1, <1>2, TypeCorrect, PTL DEF Spec

(* Five failures in a row leave the desk halted, and a RESUME in a tick     *)
(* that fails as well does not undo it.                                     *)
THEOREM FailingDeskIsHalted == Spec => []StreakHalts
<1>1. Init => StreakHalts
  BY EngineLoopAssumption DEF Init, StreakHalts
<1>2. TypeOK /\ StreakHalts /\ [Next]_vars => StreakHalts'
  <2> SUFFICES ASSUME TypeOK, StreakHalts, [Next]_vars PROVE StreakHalts'
    OBVIOUS
  <2> USE EngineLoopAssumption DEF StreakHalts, kv
  <2>0. failures \in Nat
    BY DEF TypeOK
  <2>1. ASSUME NEW kind \in Kinds, Enqueue(kind)
        PROVE  StreakHalts'
    BY <2>0, <2>1 DEF Enqueue
  <2>2. ASSUME NEW r \in Regimes, BeginTick(r)
        PROVE  StreakHalts'
    BY <2>0, <2>2 DEF BeginTick
  <2>3. CASE ClaimNext
    BY <2>0, <2>3 DEF ClaimNext
  <2>4. CASE RunHalt
    BY <2>0, <2>4 DEF RunHalt, Running
  <2>5. CASE RunResume
    BY <2>0, <2>5 DEF RunResume, Running
  <2>6. CASE RunClose
    BY <2>0, <2>6 DEF RunClose, Running
  <2>7. CASE RunFlatten
    BY <2>0, <2>7 DEF RunFlatten, Running
  <2>8. ASSUME NEW r \in Regimes, RunScanNow(r)
        PROVE  StreakHalts'
    BY <2>0, <2>8 DEF RunScanNow, Running
  <2>9. ASSUME NEW r \in Regimes \cup {Clear}, RunSetRegime(r)
        PROVE  StreakHalts'
    BY <2>0, <2>9 DEF RunSetRegime, Running
  <2>10. CASE RunOther
    BY <2>0, <2>10 DEF RunOther, Running
  <2>11. CASE RunUnknown
    BY <2>0, <2>11 DEF RunUnknown, Running
  <2>12. ASSUME NEW at \in {"answering", "refusing"},
              NEW status \in {"DONE", "FAILED"}, Complete(at, status)
        PROVE  StreakHalts'
    BY <2>0, <2>12 DEF Complete
  <2>13. CASE ManageGate
    BY <2>0, <2>13 DEF ManageGate
  <2>14. CASE ManageAll
    BY <2>0, <2>14 DEF ManageAll
  <2>15. CASE ScanGate
    BY <2>0, <2>15 DEF ScanGate
  <2>16. CASE TryOpen
    BY <2>0, <2>16 DEF TryOpen
  <2>17. CASE Open
    BY <2>0, <2>17 DEF Open
  <2>18. CASE FinishScan
    BY TickAndScan, <2>0, <2>18 DEF FinishScan
  <2>19. CASE Beat
    BY <2>0, <2>19 DEF Beat
  <2>20. CASE CommandRaises
    BY <2>0, <2>20 DEF CommandRaises
  <2>21. CASE TickRaises
    BY <2>0, <2>21 DEF TickRaises
  <2>22. CASE HandleCycleFailure
    BY <2>0, <2>22 DEF HandleCycleFailure
  <2>23. CASE Crash
    BY <2>0, <2>23 DEF Crash
  <2>24. CASE Restart
    BY <2>0, <2>24 DEF Restart
  <2>25. CASE ManageComesDue
    BY <2>0, <2>25 DEF ManageComesDue
  <2>26. ASSUME NEW r \in Desks, ScanComesDue(r)
        PROVE  StreakHalts'
    BY <2>0, <2>26 DEF ScanComesDue
  <2>27. CASE UNCHANGED vars
    BY <2>0, <2>27 DEF vars
  <2> QED
    BY <2>1, <2>2, <2>3, <2>4, <2>5, <2>6, <2>7, <2>8, <2>9,
       <2>10, <2>11, <2>12, <2>13, <2>14, <2>15, <2>16, <2>17, <2>18,
       <2>19, <2>20, <2>21, <2>22, <2>23, <2>24, <2>25, <2>26, <2>27
    DEF Next, EngineStep, RunCommand, CompleteDone, CompleteFailed
<1> QED
  BY <1>1, <1>2, TypeCorrect, PTL DEF Spec

(* What each step does to the statuses in the queue.                        *)
LEMMA StatusAfterEnqueue ==
  ASSUME TypeOK, NEW kind \in Kinds, Enqueue(kind)
  PROVE  /\ Len(commands') = Len(commands) + 1
         /\ \A i \in 1..Len(commands) : commands'[i] = commands[i]
BY DEF TypeOK, Enqueue

(* Marking a command changes its own status and no other. *)
LEMMA StatusAfterMark ==
  ASSUME TypeOK, NEW i \in Int, NEW s \in {"RUNNING", "DONE", "FAILED"},
         commands' = [commands EXCEPT ![i].status = s]
  PROVE  /\ Len(commands') = Len(commands)
         /\ \A j \in 1..Len(commands) :
              commands'[j].status = IF j = i THEN s ELSE commands[j].status
<1>1. commands \in Seq(Entries)
  BY DEF TypeOK
<1>2. Len(commands') = Len(commands)
  BY MarkedRow
<1>3. \A j \in 1..Len(commands) : commands[j] \in Entries
  BY <1>1
<1>4. DOMAIN commands = 1..Len(commands)
  BY <1>1
<1>5. \A j \in 1..Len(commands) :
        commands'[j] = IF j = i THEN [commands[j] EXCEPT !.status = s]
                       ELSE commands[j]
  BY <1>4, Zenon
<1>6. \A r \in Entries : [r EXCEPT !.status = s].status = s
  BY DEF Entries
<1> QED
  BY <1>2, <1>3, <1>5, <1>6

(* No command takes effect twice, whatever raises or dies: the claim marks  *)
(* its row in a commit of its own, before anything is done about it, and    *)
(* nothing marks a row QUEUED again.                                        *)
THEOREM NothingIsDoneTwice == Spec => []AppliedAtMostOnce
<1> DEFINE Once == \A i \in 1..MaxCommands :
                     /\ applied[i] <= 1
                     /\ applied[i] > 0 => /\ i <= Len(commands)
                                         /\ commands[i].status # "QUEUED"
           Fresh == pc = "running" =>
                      /\ cmd \in 1..Len(commands)
                      /\ applied[cmd] = 0
                      /\ commands[cmd].status # "QUEUED"
           Inv == Once /\ Fresh
<1>1. Init => Inv
  BY DEF Init
<1>2. TypeOK /\ Inv /\ [Next]_vars => Inv'
  <2> SUFFICES ASSUME TypeOK, Inv, [Next]_vars PROVE Inv'
    OBVIOUS
  <2> USE DEF queue
  <2>0. Len(commands) \in Nat /\ Len(commands) <= MaxCommands /\ cmd \in Int
        /\ MaxCommands \in Nat /\ applied \in [1..MaxCommands -> Nat]
    BY EngineLoopAssumption DEF TypeOK
  <2>1. ASSUME NEW kind \in Kinds, Enqueue(kind)
        PROVE  Inv'
    <3>1. UNCHANGED <<applied, pc, cmd>>
      BY <2>1 DEF Enqueue
    <3> QED
      BY <2>1, <2>0, <3>1, StatusAfterEnqueue
  <2>2. ASSUME NEW r \in Regimes, BeginTick(r)
        PROVE  Inv'
    BY <2>2 DEF BeginTick
  <2>3. CASE ClaimNext
    <3>1. CASE UNCHANGED commands /\ pc' # "running"
      BY <2>3, <3>1 DEF ClaimNext
    <3>2. ASSUME NEW i \in Queued, cmd' = i, pc' = "running",
                 commands' = [commands EXCEPT ![i].status = "RUNNING"]
          PROVE  Inv'
      <4>1. i \in 1..Len(commands) /\ commands[i].status = "QUEUED"
        BY DEF Queued, TypeOK
      <4>2. applied[i] = 0 /\ i \in 1..MaxCommands
        BY <2>0, <4>1
      <4>3. UNCHANGED applied
        BY <2>3 DEF ClaimNext
      <4>4. /\ Len(commands') = Len(commands)
            /\ \A j \in 1..Len(commands) : commands'[j].status =
                 IF j = i THEN "RUNNING" ELSE commands[j].status
        BY <3>2, <4>1, StatusAfterMark
      <4> QED
        BY <2>0, <3>2, <4>1, <4>2, <4>3, <4>4
    <3> QED
      BY <2>3, <3>1, <3>2 DEF ClaimNext
  <2>4. CASE RunHalt
    <3>1. pc = "running" /\ pc' # "running" /\ UNCHANGED commands
      BY <2>4 DEF RunHalt, Running
    <3>2. cmd \in 1..MaxCommands
      BY <2>0, <3>1
    <3>3. applied' = [applied EXCEPT ![cmd] = 1]
      BY <2>4, <2>0, <3>1, <3>2 DEF RunHalt, TakesEffect
    <3>4. \A i \in 1..MaxCommands : applied'[i] = IF i = cmd THEN 1 ELSE applied[i]
      BY <2>0, <3>2, <3>3
    <3> QED
      BY <2>0, <3>1, <3>2, <3>4
  <2>5. CASE RunResume
    <3>1. pc = "running" /\ pc' # "running" /\ UNCHANGED commands
      BY <2>5 DEF RunResume, Running
    <3>2. cmd \in 1..MaxCommands
      BY <2>0, <3>1
    <3>3. applied' = [applied EXCEPT ![cmd] = 1]
      BY <2>5, <2>0, <3>1, <3>2 DEF RunResume, TakesEffect
    <3>4. \A i \in 1..MaxCommands : applied'[i] = IF i = cmd THEN 1 ELSE applied[i]
      BY <2>0, <3>2, <3>3
    <3> QED
      BY <2>0, <3>1, <3>2, <3>4
  <2>6. CASE RunClose
    <3>1. pc = "running" /\ pc' # "running" /\ UNCHANGED commands
      BY <2>6 DEF RunClose, Running
    <3>2. cmd \in 1..MaxCommands
      BY <2>0, <3>1
    <3>3. applied' = [applied EXCEPT ![cmd] = 1]
      BY <2>6, <2>0, <3>1, <3>2 DEF RunClose, TakesEffect
    <3>4. \A i \in 1..MaxCommands : applied'[i] = IF i = cmd THEN 1 ELSE applied[i]
      BY <2>0, <3>2, <3>3
    <3> QED
      BY <2>0, <3>1, <3>2, <3>4
  <2>7. CASE RunFlatten
    <3>1. pc = "running" /\ pc' # "running" /\ UNCHANGED commands
      BY <2>7 DEF RunFlatten, Running
    <3>2. cmd \in 1..MaxCommands
      BY <2>0, <3>1
    <3>3. applied' = [applied EXCEPT ![cmd] = 1]
      BY <2>7, <2>0, <3>1, <3>2 DEF RunFlatten, TakesEffect
    <3>4. \A i \in 1..MaxCommands : applied'[i] = IF i = cmd THEN 1 ELSE applied[i]
      BY <2>0, <3>2, <3>3
    <3> QED
      BY <2>0, <3>1, <3>2, <3>4
  <2>8. ASSUME NEW r \in Regimes, RunScanNow(r)
        PROVE  Inv'
    <3>1. pc = "running" /\ pc' # "running" /\ UNCHANGED commands
      BY <2>8 DEF RunScanNow, Running
    <3>2. cmd \in 1..MaxCommands
      BY <2>0, <3>1
    <3>3. applied' = [applied EXCEPT ![cmd] = 1]
      BY <2>8, <2>0, <3>1, <3>2 DEF RunScanNow, TakesEffect
    <3>4. \A i \in 1..MaxCommands : applied'[i] = IF i = cmd THEN 1 ELSE applied[i]
      BY <2>0, <3>2, <3>3
    <3> QED
      BY <2>0, <3>1, <3>2, <3>4
  <2>9. ASSUME NEW r \in Regimes \cup {Clear}, RunSetRegime(r)
        PROVE  Inv'
    <3>1. pc = "running" /\ pc' # "running" /\ UNCHANGED commands
      BY <2>9 DEF RunSetRegime, Running
    <3>2. cmd \in 1..MaxCommands
      BY <2>0, <3>1
    <3>3. applied' = [applied EXCEPT ![cmd] = 1]
      BY <2>9, <2>0, <3>1, <3>2 DEF RunSetRegime, TakesEffect
    <3>4. \A i \in 1..MaxCommands : applied'[i] = IF i = cmd THEN 1 ELSE applied[i]
      BY <2>0, <3>2, <3>3
    <3> QED
      BY <2>0, <3>1, <3>2, <3>4
  <2>10. CASE RunOther
    <3>1. pc = "running" /\ pc' # "running" /\ UNCHANGED commands
      BY <2>10 DEF RunOther, Running
    <3>2. cmd \in 1..MaxCommands
      BY <2>0, <3>1
    <3>3. applied' = [applied EXCEPT ![cmd] = 1]
      BY <2>10, <2>0, <3>1, <3>2 DEF RunOther, TakesEffect
    <3>4. \A i \in 1..MaxCommands : applied'[i] = IF i = cmd THEN 1 ELSE applied[i]
      BY <2>0, <3>2, <3>3
    <3> QED
      BY <2>0, <3>1, <3>2, <3>4
  <2>11. CASE RunUnknown
    BY <2>11 DEF RunUnknown, Running
  <2>12. ASSUME NEW at \in {"answering", "refusing"},
              NEW status \in {"DONE", "FAILED"}, Complete(at, status)
        PROVE  Inv'
    <3>1. UNCHANGED applied /\ pc' = "commands"
      BY <2>12 DEF Complete
    <3>2. /\ Len(commands') = Len(commands)
          /\ \A j \in 1..Len(commands) : commands'[j].status =
               IF j = cmd THEN status ELSE commands[j].status
      BY <2>12, <2>0, StatusAfterMark DEF Complete
    <3> QED
      BY <2>0, <3>1, <3>2
  <2>13. CASE ManageGate
    BY <2>13 DEF ManageGate
  <2>14. CASE ManageAll
    BY <2>14 DEF ManageAll
  <2>15. CASE ScanGate
    BY <2>15 DEF ScanGate
  <2>16. CASE TryOpen
    BY <2>16 DEF TryOpen
  <2>17. CASE Open
    BY <2>17 DEF Open
  <2>18. CASE FinishScan
    BY TickAndScan, <2>18 DEF FinishScan
  <2>19. CASE Beat
    BY <2>19 DEF Beat
  <2>20. CASE CommandRaises
    BY <2>20 DEF CommandRaises
  <2>21. CASE TickRaises
    BY <2>21 DEF TickRaises
  <2>22. CASE HandleCycleFailure
    BY <2>22 DEF HandleCycleFailure
  <2>23. CASE Crash
    BY <2>23 DEF Crash
  <2>24. CASE Restart
    BY <2>24 DEF Restart
  <2>25. CASE ManageComesDue
    BY <2>25 DEF ManageComesDue
  <2>26. ASSUME NEW r \in Desks, ScanComesDue(r)
        PROVE  Inv'
    BY <2>26 DEF ScanComesDue
  <2>27. CASE UNCHANGED vars
    BY <2>27 DEF vars
  <2> QED
    BY <2>1, <2>2, <2>3, <2>4, <2>5, <2>6, <2>7, <2>8, <2>9,
       <2>10, <2>11, <2>12, <2>13, <2>14, <2>15, <2>16, <2>17, <2>18,
       <2>19, <2>20, <2>21, <2>22, <2>23, <2>24, <2>25, <2>26, <2>27
    DEF Next, EngineStep, RunCommand, CompleteDone, CompleteFailed
<1>3. TypeOK /\ Inv => AppliedAtMostOnce
  BY DEF AppliedAtMostOnce, TypeOK
<1> QED
  BY <1>1, <1>2, <1>3, TypeCorrect, PTL DEF Spec

(* How late a command can be: a tick that is past its commands has left     *)
(* nothing queued that was sent before it began, so a HALT is overtaken by  *)
(* one scan at most.                                                        *)
THEOREM NothingWaitsPastATick == Spec => []CommandsComeFirst
<1> DEFINE Inv == CommandsComeFirst /\ tick.posted <= Len(commands)
<1>1. Init => Inv
  BY DEF Init, CommandsComeFirst, PastCommands
<1>2. TypeOK /\ Inv /\ [Next]_vars => Inv'
  <2> SUFFICES ASSUME TypeOK, Inv, [Next]_vars PROVE Inv'
    OBVIOUS
  <2> USE DEF queue, CommandsComeFirst, PastCommands
  <2>0. /\ Len(commands) \in Nat /\ cmd \in Int
        /\ tick \in Ticks /\ scan \in Scans /\ tick.posted \in Nat
    BY DEF TypeOK, Ticks
  <2>z. [tick EXCEPT !.managed = TRUE].posted = tick.posted
    BY <2>0 DEF Ticks
  <2>1. ASSUME NEW kind \in Kinds, Enqueue(kind)
        PROVE  Inv'
    <3>1. UNCHANGED <<pc, tick, scan>>
      BY <2>1 DEF Enqueue
    <3> QED
      BY <2>1, <2>0, <3>1, StatusAfterEnqueue
  <2>2. ASSUME NEW r \in Regimes, BeginTick(r)
        PROVE  Inv'
    BY <2>0, <2>2 DEF BeginTick
  <2>3. CASE ClaimNext
    <3>1. CASE Queued = {} /\ UNCHANGED commands
      <4>1. \A i \in 1..tick.posted : commands[i].status # "QUEUED"
        BY <2>0, <3>1 DEF Queued, TypeOK
      <4> QED
        BY <2>3, <3>1, <4>1 DEF ClaimNext
    <3>2. ASSUME NEW i \in Queued, pc' = "running",
                 commands' = [commands EXCEPT ![i].status = "RUNNING"]
          PROVE  Inv'
      <4>1. i \in Int
        BY <2>0 DEF Queued, TypeOK
      <4>2. Len(commands') = Len(commands)
        BY <3>2, <4>1, StatusAfterMark
      <4> QED
        BY <2>3, <3>2, <4>2 DEF ClaimNext
    <3> QED
      BY <2>3, <3>1, <3>2 DEF ClaimNext
  <2>4. CASE RunHalt
    BY <2>0, <2>4 DEF RunHalt, Running
  <2>5. CASE RunResume
    BY <2>0, <2>5 DEF RunResume, Running
  <2>6. CASE RunClose
    BY <2>0, <2>6 DEF RunClose, Running
  <2>7. CASE RunFlatten
    BY <2>0, <2>7 DEF RunFlatten, Running
  <2>8. ASSUME NEW r \in Regimes, RunScanNow(r)
        PROVE  Inv'
    BY <2>0, <2>8 DEF RunScanNow, Running
  <2>9. ASSUME NEW r \in Regimes \cup {Clear}, RunSetRegime(r)
        PROVE  Inv'
    BY <2>0, <2>9 DEF RunSetRegime, Running
  <2>10. CASE RunOther
    BY <2>0, <2>10 DEF RunOther, Running
  <2>11. CASE RunUnknown
    BY <2>0, <2>11 DEF RunUnknown, Running
  <2>12. ASSUME NEW at \in {"answering", "refusing"},
              NEW status \in {"DONE", "FAILED"}, Complete(at, status)
        PROVE  Inv'
    <3>1. UNCHANGED tick /\ pc' = "commands"
      BY <2>12 DEF Complete
    <3>2. Len(commands') = Len(commands)
      BY <2>12, <2>0, StatusAfterMark DEF Complete
    <3> QED
      BY <3>1, <3>2
  <2>13. CASE ManageGate
    BY <2>z, <2>0, <2>13 DEF ManageGate
  <2>14. CASE ManageAll
    BY <2>z, <2>0, <2>14 DEF ManageAll
  <2>15. CASE ScanGate
    BY <2>0, <2>15 DEF ScanGate
  <2>16. CASE TryOpen
    <3>1. scan'.then = scan.then /\ pc' \in {"scanning", "opening"}
      BY <2>16, <2>0 DEF TryOpen, Scans
    <3> QED
      BY <2>16, <3>1 DEF TryOpen
  <2>17. CASE Open
    BY <2>0, <2>17 DEF Open
  <2>18. CASE FinishScan
    BY TickAndScan, <2>0, <2>18 DEF FinishScan
  <2>19. CASE Beat
    BY <2>0, <2>19 DEF Beat
  <2>20. CASE CommandRaises
    BY <2>0, <2>20 DEF CommandRaises
  <2>21. CASE TickRaises
    BY <2>0, <2>21 DEF TickRaises
  <2>22. CASE HandleCycleFailure
    BY <2>0, <2>22 DEF HandleCycleFailure
  <2>23. CASE Crash
    BY <2>0, <2>23 DEF Crash
  <2>24. CASE Restart
    BY <2>0, <2>24 DEF Restart
  <2>25. CASE ManageComesDue
    BY <2>0, <2>25 DEF ManageComesDue
  <2>26. ASSUME NEW r \in Desks, ScanComesDue(r)
        PROVE  Inv'
    BY <2>0, <2>26 DEF ScanComesDue
  <2>27. CASE UNCHANGED vars
    BY <2>0, <2>27 DEF vars
  <2> QED
    BY <2>1, <2>2, <2>3, <2>4, <2>5, <2>6, <2>7, <2>8, <2>9,
       <2>10, <2>11, <2>12, <2>13, <2>14, <2>15, <2>16, <2>17, <2>18,
       <2>19, <2>20, <2>21, <2>22, <2>23, <2>24, <2>25, <2>26, <2>27
    DEF Next, EngineStep, RunCommand, CompleteDone, CompleteFailed
<1> QED
  BY <1>1, <1>2, TypeCorrect, PTL DEF Spec

------------------------------------------------------------------------------
(* The fate and the order of the commands, and the forced manage pass.      *)

(* What a step does to the queue, apart from everything else it does.       *)
Sends == \E kind \in Kinds : Enqueue(kind)

Claims ==
  /\ pc = "commands" /\ pc' = "running"
  /\ \E i \in Queued :
       /\ Oldest(i)
       /\ commands' = [commands EXCEPT ![i].status = "RUNNING"]
       /\ cmd' = i
  /\ UNCHANGED <<applied, halted, failures, faults, crashes>>

Runs ==
  /\ pc = "running" /\ pc' \in {"answering", "scanning"}
  /\ TakesEffect
  /\ commands[cmd].kind = "HALT" => halted'
  /\ commands[cmd].kind = "RESUME" => ~halted'
  /\ commands[cmd].kind \notin {"HALT", "RESUME"} => halted' = halted
  /\ UNCHANGED <<commands, cmd, failures, faults, crashes>>

Answers ==
  /\ pc' = "commands" /\ cmd' = 0
  /\ \E s \in {"DONE", "FAILED"} :
       commands' = [commands EXCEPT ![cmd].status = s]
  /\ UNCHANGED <<applied, halted, failures, faults, crashes>>

(* The rest leave the queue alone; the command in hand is dropped only by   *)
(* an exception or a death, and the switch thrown only by a failed tick.    *)
Leaves ==
  /\ UNCHANGED <<commands, applied>>
  /\ pc' = "running" => pc = "running" /\ cmd' = cmd
  /\ \/ cmd' = cmd /\ faults' >= faults /\ crashes' >= crashes
     \/ /\ cmd' = 0
        /\ \/ faults' = faults + 1 /\ crashes' = crashes
           \/ faults' = faults /\ crashes' = crashes + 1
  /\ \/ halted' = halted
     \/ pc = "failing" /\ failures + 1 >= MaxFailures /\ faults' = faults
  /\ \/ faults' = faults /\ pc' # "failing" /\ pc # "failing"
                         /\ failures' \in {0, failures}
     \/ faults' = faults /\ pc' = pc /\ failures' = failures
     \/ faults' = faults /\ pc = "failing" /\ pc' # "failing"
                         /\ failures' \in {failures, failures + 1}
     \/ faults' = faults + 1 /\ pc # "failing" /\ failures' = failures

(* Every step of the system is one of the five.                             *)
LEMMA QueueSteps ==
  ASSUME TypeOK, [Next]_vars
  PROVE  Sends \/ Claims \/ Runs \/ Answers \/ Leaves
<1> USE DEF queue, kv, clock, luck
<1>0. /\ failures \in Nat /\ faults \in Nat /\ crashes \in Nat
      /\ scan.then \in {"answering", "beat"}
  BY TickAndScan, EngineLoopAssumption DEF TypeOK
<1>1. ASSUME NEW kind \in Kinds, Enqueue(kind)
      PROVE  Sends
  BY <1>1 DEF Sends
<1>2. ASSUME NEW r \in Regimes, BeginTick(r)
      PROVE  Leaves
  BY <1>0, <1>2 DEF BeginTick, Leaves
<1>3. CASE ClaimNext
  <2>1. CASE Queued = {} /\ pc' = "manage" /\ UNCHANGED <<commands, cmd>>
    BY <1>0, <1>3, <2>1 DEF ClaimNext, Leaves
  <2>2. CASE ~(Queued = {} /\ pc' = "manage" /\ UNCHANGED <<commands, cmd>>)
    BY <1>3, <2>2 DEF ClaimNext, Claims
  <2> QED
    BY <2>1, <2>2
<1>4. CASE RunHalt
  BY <1>4 DEF RunHalt, Running, Runs
<1>5. CASE RunResume
  BY <1>5 DEF RunResume, Running, Runs
<1>6. CASE RunClose
  BY <1>6 DEF RunClose, Running, Runs
<1>7. CASE RunFlatten
  BY <1>7 DEF RunFlatten, Running, Runs
<1>8. ASSUME NEW r \in Regimes, RunScanNow(r)
      PROVE  Runs
  BY <1>8 DEF RunScanNow, Running, Runs
<1>9. ASSUME NEW r \in Regimes \cup {Clear}, RunSetRegime(r)
      PROVE  Runs
  BY <1>9 DEF RunSetRegime, Running, Runs
<1>10. CASE RunOther
  BY <1>10 DEF RunOther, Running, Runs
<1>11. CASE RunUnknown
  BY <1>0, <1>11 DEF RunUnknown, Running, Leaves
<1>12. CASE CompleteDone
  BY <1>12 DEF CompleteDone, Complete, Answers
<1>13. CASE CompleteFailed
  BY <1>13 DEF CompleteFailed, Complete, Answers
<1>14. CASE ManageGate
  BY <1>0, <1>14 DEF ManageGate, Leaves
<1>15. CASE ManageAll
  BY <1>0, <1>15 DEF ManageAll, Leaves
<1>16. CASE ScanGate
  BY <1>0, <1>16 DEF ScanGate, Leaves
<1>17. CASE TryOpen
  BY <1>0, <1>17 DEF TryOpen, Leaves
<1>18. CASE Open
  BY <1>0, <1>18 DEF Open, Leaves
<1>19. CASE FinishScan
  BY <1>0, <1>19 DEF FinishScan, Leaves
<1>20. CASE Beat
  BY <1>0, <1>20 DEF Beat, Leaves
<1>21. CASE CommandRaises
  BY <1>0, <1>21 DEF CommandRaises, Leaves
<1>22. CASE TickRaises
  BY <1>0, <1>22 DEF TickRaises, Leaves
<1>23. CASE HandleCycleFailure
  BY <1>0, <1>23 DEF HandleCycleFailure, Leaves, TypeOK
<1>24. CASE Crash
  BY <1>0, <1>24 DEF Crash, Leaves
<1>25. CASE Restart
  BY <1>0, <1>25 DEF Restart, Leaves
<1>26. CASE ManageComesDue
  BY <1>0, <1>26 DEF ManageComesDue, Leaves
<1>27. ASSUME NEW r \in Desks, ScanComesDue(r)
      PROVE  Leaves
  BY <1>0, <1>27 DEF ScanComesDue, Leaves
<1>28. CASE UNCHANGED vars
  BY <1>0, <1>28 DEF vars, Leaves
<1> QED
  BY <1>1, <1>2, <1>3, <1>4, <1>5, <1>6, <1>7, <1>8, <1>9, <1>10, <1>11,
     <1>12, <1>13, <1>14, <1>15, <1>16, <1>17, <1>18, <1>19, <1>20, <1>21,
     <1>22, <1>23, <1>24, <1>25, <1>26, <1>27, <1>28
  DEF Next, EngineStep, RunCommand

------------------------------------------------------------------------------
(* Outside the work on a command there is no command in hand.               *)
BetweenCommands ==
  \/ pc \notin {"running", "answering", "refusing", "scanning", "opening"}
  \/ pc \in {"scanning", "opening"} /\ scan.then = "beat"
EmptyHanded == BetweenCommands => cmd = 0

(* The engine picks a command up to work on it and puts it down after.      *)
LEMMA EmptyHands == Spec => []EmptyHanded
<1>1. Init => EmptyHanded
  BY DEF Init, EmptyHanded
<1>2. TypeOK /\ EmptyHanded /\ [Next]_vars => EmptyHanded'
  <2> SUFFICES ASSUME TypeOK, EmptyHanded, [Next]_vars PROVE EmptyHanded'
    OBVIOUS
  <2> USE DEF EmptyHanded, BetweenCommands
  <2>0. /\ scan \in Scans /\ scan.then \in {"answering", "beat"}
        /\ \A n : [scan EXCEPT !.todo = n].then = scan.then
    BY TickAndScan DEF TypeOK, Scans
  <2>1. ASSUME NEW kind \in Kinds, Enqueue(kind)
        PROVE  EmptyHanded'
    BY <2>0, <2>1 DEF Enqueue
  <2>2. ASSUME NEW r \in Regimes, BeginTick(r)
        PROVE  EmptyHanded'
    BY <2>0, <2>2 DEF BeginTick
  <2>3. CASE ClaimNext
    BY <2>0, <2>3 DEF ClaimNext
  <2>4. CASE RunHalt
    BY <2>0, <2>4 DEF RunHalt, Running
  <2>5. CASE RunResume
    BY <2>0, <2>5 DEF RunResume, Running
  <2>6. CASE RunClose
    BY <2>0, <2>6 DEF RunClose, Running
  <2>7. CASE RunFlatten
    BY <2>0, <2>7 DEF RunFlatten, Running
  <2>8. ASSUME NEW r \in Regimes, RunScanNow(r)
        PROVE  EmptyHanded'
    BY <2>0, <2>8 DEF RunScanNow, Running
  <2>9. ASSUME NEW r \in Regimes \cup {Clear}, RunSetRegime(r)
        PROVE  EmptyHanded'
    BY <2>0, <2>9 DEF RunSetRegime, Running
  <2>10. CASE RunOther
    BY <2>0, <2>10 DEF RunOther, Running
  <2>11. CASE RunUnknown
    BY <2>0, <2>11 DEF RunUnknown, Running
  <2>12. CASE CompleteDone
    BY <2>0, <2>12 DEF CompleteDone, Complete
  <2>13. CASE CompleteFailed
    BY <2>0, <2>13 DEF CompleteFailed, Complete
  <2>14. CASE ManageGate
    BY <2>0, <2>14 DEF ManageGate
  <2>15. CASE ManageAll
    BY <2>0, <2>15 DEF ManageAll
  <2>16. CASE ScanGate
    BY <2>0, <2>16 DEF ScanGate
  <2>17. CASE TryOpen
    BY <2>0, <2>17 DEF TryOpen
  <2>18. CASE Open
    BY <2>0, <2>18 DEF Open
  <2>19. CASE FinishScan
    BY <2>0, <2>19 DEF FinishScan
  <2>20. CASE Beat
    BY <2>0, <2>20 DEF Beat
  <2>21. CASE CommandRaises
    BY <2>0, <2>21 DEF CommandRaises
  <2>22. CASE TickRaises
    BY <2>0, <2>22 DEF TickRaises
  <2>23. CASE HandleCycleFailure
    BY <2>0, <2>23 DEF HandleCycleFailure
  <2>24. CASE Crash
    BY <2>0, <2>24 DEF Crash
  <2>25. CASE Restart
    BY <2>0, <2>25 DEF Restart
  <2>26. CASE ManageComesDue
    BY <2>0, <2>26 DEF ManageComesDue
  <2>27. ASSUME NEW r \in Desks, ScanComesDue(r)
        PROVE  EmptyHanded'
    BY <2>0, <2>27 DEF ScanComesDue
  <2>28. CASE UNCHANGED vars
    BY <2>0, <2>28 DEF vars
  <2> QED
    BY <2>1, <2>2, <2>3, <2>4, <2>5, <2>6, <2>7, <2>8, <2>9, <2>10,
       <2>11, <2>12, <2>13, <2>14, <2>15, <2>16, <2>17, <2>18, <2>19,
       <2>20, <2>21, <2>22, <2>23, <2>24, <2>25, <2>26, <2>27, <2>28
    DEF Next, EngineStep, RunCommand
<1> QED
  BY <1>1, <1>2, TypeCorrect, PTL DEF Spec

------------------------------------------------------------------------------
(* A command is forgotten only by an exception or a death, one each: the    *)
(* only command the engine can drop is the one in its hand.                 *)
LEMMA ForgottenAreRows ==
  ASSUME TypeOK
  PROVE  /\ IsFiniteSet(Forgotten)
         /\ Cardinality(Forgotten) \in Nat
         /\ Forgotten \subseteq 1..Len(commands)
         /\ Len(commands) \in Nat
<1>1. commands \in Seq(Entries)
  BY DEF TypeOK
<1>2. Len(commands) \in Nat /\ DOMAIN commands = 1..Len(commands)
  BY <1>1
<1>3. Forgotten \subseteq 1..Len(commands)
  BY <1>2 DEF Forgotten
<1>4. IsFiniteSet(1..Len(commands))
  BY <1>2, FS_Interval
<1> QED
  BY <1>2, <1>3, <1>4, FS_Subset, FS_CardinalityType

(* No more commands are left RUNNING without an answer than there were exceptions
   and deaths: the loop by itself drops none (scheduler._process_commands). *)
THEOREM OnlyFailureForgets == Spec => []ForgottenOnlyByFailure
<1>1. Init => ForgottenOnlyByFailure
  <2> SUFFICES ASSUME Init PROVE ForgottenOnlyByFailure
    OBVIOUS
  <2>1. Forgotten = {}
    BY DEF Init, Forgotten
  <2> QED
    BY <2>1, FS_EmptySet DEF Init, ForgottenOnlyByFailure
<1>2. TypeOK /\ TypeOK' /\ EmptyHanded /\ ForgottenOnlyByFailure /\ [Next]_vars
        => ForgottenOnlyByFailure'
  <2> SUFFICES ASSUME TypeOK, TypeOK', EmptyHanded, ForgottenOnlyByFailure,
                      [Next]_vars
               PROVE  ForgottenOnlyByFailure'
    OBVIOUS
  <2>0. /\ faults \in Nat /\ crashes \in Nat /\ faults' \in Nat /\ crashes' \in Nat
        /\ commands \in Seq(Entries) /\ commands' \in Seq(Entries) /\ cmd \in Int
        /\ DOMAIN commands = 1..Len(commands) /\ DOMAIN commands' = 1..Len(commands')
        /\ IsFiniteSet(Forgotten) /\ Cardinality(Forgotten) \in Nat
    BY SMTT(20), ForgottenAreRows, EngineLoopAssumption DEF TypeOK
  <2>1. ASSUME Forgotten' \subseteq Forgotten, faults' >= faults, crashes' >= crashes
        PROVE  ForgottenOnlyByFailure'
    <3>1. Cardinality(Forgotten') <= Cardinality(Forgotten)
          /\ Cardinality(Forgotten') \in Nat
      BY <2>0, <2>1, FS_Subset, FS_CardinalityType
    <3> QED
      BY <2>0, <2>1, <3>1 DEF ForgottenOnlyByFailure
  <2>2. CASE Sends
    <3>1. PICK kind \in Kinds : Enqueue(kind)
      BY <2>2 DEF Sends
    <3>2. /\ Len(commands') = Len(commands) + 1
          /\ commands'[Len(commands) + 1].status = "QUEUED"
          /\ \A i \in 1..Len(commands) : commands'[i] = commands[i]
      BY <2>0, <3>1 DEF Enqueue
    <3>3. UNCHANGED <<cmd, faults, crashes>>
      BY <3>1 DEF Enqueue, luck
    <3>4. Forgotten' \subseteq Forgotten
      BY <2>0, <3>2, <3>3 DEF Forgotten
    <3> QED
      BY <2>0, <2>1, <3>3, <3>4
  <2>3. CASE Claims
    <3>1. PICK i \in Queued : /\ cmd' = i
                              /\ commands' = [commands EXCEPT ![i].status = "RUNNING"]
      BY <2>3 DEF Claims
    <3>2. i \in Int
      BY <2>0 DEF Queued
    <3>3. /\ Len(commands') = Len(commands)
          /\ \A j \in 1..Len(commands) : commands'[j].status =
               IF j = i THEN "RUNNING" ELSE commands[j].status
      BY <3>1, <3>2, StatusAfterMark
    <3>4. cmd = 0
      BY <2>3 DEF Claims, EmptyHanded, BetweenCommands
    <3>5. Forgotten' \subseteq Forgotten
      BY <2>0, <3>1, <3>3, <3>4 DEF Forgotten
    <3> QED
      BY <2>0, <2>1, <2>3, <3>5 DEF Claims
  <2>4. CASE Runs
    <3>1. Forgotten' = Forgotten
      BY <2>4 DEF Runs, Forgotten
    <3> QED
      BY <2>0, <2>1, <2>4, <3>1 DEF Runs
  <2>5. CASE Answers
    <3>1. PICK s \in {"DONE", "FAILED"} :
            commands' = [commands EXCEPT ![cmd].status = s]
      BY <2>5 DEF Answers
    <3>2. /\ Len(commands') = Len(commands)
          /\ \A j \in 1..Len(commands) : commands'[j].status =
               IF j = cmd THEN s ELSE commands[j].status
      BY <2>0, <3>1, StatusAfterMark
    <3>3. Forgotten' \subseteq Forgotten
      BY <2>0, <3>2 DEF Forgotten
    <3> QED
      BY <2>0, <2>1, <2>5, <3>3 DEF Answers
  <2>6. CASE Leaves
    <3>1. CASE cmd' = cmd /\ faults' >= faults /\ crashes' >= crashes
      <4>1. Forgotten' = Forgotten
        BY <2>6, <3>1 DEF Leaves, Forgotten
      <4> QED
        BY <2>1, <3>1, <4>1
    <3>2. CASE cmd' = 0 /\ \/ faults' = faults + 1 /\ crashes' = crashes
                           \/ faults' = faults /\ crashes' = crashes + 1
      <4>1. Forgotten' \subseteq Forgotten \cup {cmd}
        BY <2>6, <3>2 DEF Leaves, Forgotten
      <4>2. /\ IsFiniteSet(Forgotten \cup {cmd})
            /\ Cardinality(Forgotten \cup {cmd}) \in
                 {Cardinality(Forgotten), Cardinality(Forgotten) + 1}
        BY <2>0, FS_AddElement
      <4>3. /\ Cardinality(Forgotten') <= Cardinality(Forgotten \cup {cmd})
            /\ Cardinality(Forgotten') \in Nat
        BY <4>1, <4>2, FS_Subset, FS_CardinalityType
      <4>4. Cardinality(Forgotten \cup {cmd}) <= Cardinality(Forgotten) + 1
        <5>1. CASE cmd \in Forgotten
          <6>1. Cardinality(Forgotten \cup {cmd}) = Cardinality(Forgotten)
            <7>1. Forgotten \cup {cmd} = Forgotten
              BY <5>1
            <7> QED
              BY <7>1, Zenon
          <6>2. Cardinality(Forgotten) \in Nat
            BY <2>0
          <6> QED
            BY <6>1, <6>2
        <5>2. CASE cmd \notin Forgotten
          <6>1. Cardinality(Forgotten \cup {cmd}) = Cardinality(Forgotten) + 1
            BY <2>0, <5>2, FS_AddElement
          <6> QED
            BY <2>0, <6>1
        <5> QED
          BY <5>1, <5>2
      <4>5. Cardinality(Forgotten \cup {cmd}) \in Nat
        BY <4>2, FS_CardinalityType
      <4>6. Cardinality(Forgotten) <= faults + crashes
        BY DEF ForgottenOnlyByFailure
      <4>7. Cardinality(Forgotten') <= faults' + crashes'
        <5>1. /\ Cardinality(Forgotten) \in Nat /\ faults \in Nat /\ crashes \in Nat
              /\ faults' \in Nat /\ crashes' \in Nat
          BY <2>0
        <5> QED
          BY <3>2, <4>3, <4>4, <4>5, <4>6, <5>1
      <4> QED
        BY <4>7 DEF ForgottenOnlyByFailure
    <3> QED
      BY <2>6, <3>1, <3>2 DEF Leaves
  <2> QED
    BY <2>2, <2>3, <2>4, <2>5, <2>6, QueueSteps
<1> QED
  BY <1>1, <1>2, TypeCorrect, EmptyHands, PTL DEF Spec

------------------------------------------------------------------------------
(* A pass that was forced is made before the tick reaches its scan: nothing *)
(* but a manual close and a start force one, and neither falls between.     *)
THEOREM ForcedPassComesFirst == Spec => []ForcedPassIsMade
<1> DEFINE Inv == ForcedPassIsMade /\ (pc = "managing" => manageAt # "zero")
<1>1. Init => Inv
  BY DEF Init, ForcedPassIsMade
<1>2. TypeOK /\ Inv /\ [Next]_vars => Inv'
  <2> SUFFICES ASSUME TypeOK, Inv, [Next]_vars PROVE Inv'
    OBVIOUS
  <2> USE DEF ForcedPassIsMade, clock
  <2>0. /\ scan \in Scans /\ scan.then \in {"answering", "beat"}
        /\ \A n : [scan EXCEPT !.todo = n].then = scan.then
    BY TickAndScan DEF TypeOK, Scans
  <2>1. ASSUME NEW kind \in Kinds, Enqueue(kind)
        PROVE  Inv'
    BY <2>0, <2>1 DEF Enqueue
  <2>2. ASSUME NEW r \in Regimes, BeginTick(r)
        PROVE  Inv'
    BY <2>0, <2>2 DEF BeginTick
  <2>3. CASE ClaimNext
    BY <2>0, <2>3 DEF ClaimNext
  <2>4. CASE RunHalt
    BY <2>0, <2>4 DEF RunHalt, Running
  <2>5. CASE RunResume
    BY <2>0, <2>5 DEF RunResume, Running
  <2>6. CASE RunClose
    BY <2>0, <2>6 DEF RunClose, Running
  <2>7. CASE RunFlatten
    BY <2>0, <2>7 DEF RunFlatten, Running
  <2>8. ASSUME NEW r \in Regimes, RunScanNow(r)
        PROVE  Inv'
    BY <2>0, <2>8 DEF RunScanNow, Running
  <2>9. ASSUME NEW r \in Regimes \cup {Clear}, RunSetRegime(r)
        PROVE  Inv'
    BY <2>0, <2>9 DEF RunSetRegime, Running
  <2>10. CASE RunOther
    BY <2>0, <2>10 DEF RunOther, Running
  <2>11. CASE RunUnknown
    BY <2>0, <2>11 DEF RunUnknown, Running
  <2>12. CASE CompleteDone
    BY <2>0, <2>12 DEF CompleteDone, Complete
  <2>13. CASE CompleteFailed
    BY <2>0, <2>13 DEF CompleteFailed, Complete
  <2>14. CASE ManageGate
    BY <2>0, <2>14 DEF ManageGate, Recent
  <2>15. CASE ManageAll
    BY <2>0, <2>15 DEF ManageAll
  <2>16. CASE ScanGate
    BY <2>0, <2>16 DEF ScanGate
  <2>17. CASE TryOpen
    BY <2>0, <2>17 DEF TryOpen
  <2>18. CASE Open
    BY <2>0, <2>18 DEF Open
  <2>19. CASE FinishScan
    BY <2>0, <2>19 DEF FinishScan
  <2>20. CASE Beat
    BY <2>0, <2>20 DEF Beat
  <2>21. CASE CommandRaises
    BY <2>0, <2>21 DEF CommandRaises
  <2>22. CASE TickRaises
    BY <2>0, <2>22 DEF TickRaises
  <2>23. CASE HandleCycleFailure
    BY <2>0, <2>23 DEF HandleCycleFailure
  <2>24. CASE Crash
    BY <2>0, <2>24 DEF Crash
  <2>25. CASE Restart
    BY <2>0, <2>25 DEF Restart
  <2>26. CASE ManageComesDue
    BY <2>0, <2>26 DEF ManageComesDue
  <2>27. ASSUME NEW r \in Desks, ScanComesDue(r)
        PROVE  Inv'
    BY <2>0, <2>27 DEF ScanComesDue
  <2>28. CASE UNCHANGED vars
    BY <2>0, <2>28 DEF vars
  <2> QED
    BY <2>1, <2>2, <2>3, <2>4, <2>5, <2>6, <2>7, <2>8, <2>9, <2>10,
       <2>11, <2>12, <2>13, <2>14, <2>15, <2>16, <2>17, <2>18, <2>19,
       <2>20, <2>21, <2>22, <2>23, <2>24, <2>25, <2>26, <2>27, <2>28
    DEF Next, EngineStep, RunCommand
<1> QED
  BY <1>1, <1>2, TypeCorrect, PTL DEF Spec

------------------------------------------------------------------------------
(* The order of the queue: what waits is the end of the list, and the       *)
(* command in hand stands just before it. A failed tick has its exception.  *)
InOrder ==
  \A i, j \in 1..Len(commands) :
    commands[i].status = "QUEUED" /\ i < j => commands[j].status = "QUEUED"
InHand ==
  /\ pc = "running" => cmd # 0
  /\ cmd # 0 => /\ commands[cmd].status # "QUEUED"
                /\ \A j \in 1..Len(commands) :
                     cmd < j => commands[j].status = "QUEUED"
Taken ==
  \A i \in 1..MaxCommands :
    applied[i] > 0 => i <= Len(commands) /\ commands[i].status # "QUEUED"
Counted == IF pc = "failing" THEN failures + 1 <= faults ELSE failures <= faults

(* Marking a row changes no kind.                                           *)
LEMMA KindAfterMark ==
  ASSUME TypeOK, NEW i \in Int, NEW s,
         commands' = [commands EXCEPT ![i].status = s]
  PROVE  \A j \in 1..Len(commands) : commands'[j].kind = commands[j].kind
<1>1. commands \in Seq(Entries)
  BY DEF TypeOK
<1>2. \A j \in 1..Len(commands) : commands[j] \in Entries
  BY <1>1
<1>3. \A j \in 1..Len(commands) :
        [commands[j] EXCEPT !.status = s].kind = commands[j].kind
  BY <1>2 DEF Entries
<1> QED
  BY <1>1, <1>3

(* The kill switch is where the last HALT or RESUME to take effect has put  *)
(* it: commands take effect in the order of the queue, and the engine       *)
(* throws the switch itself only after MaxFailures exceptions.              *)
THEOREM LastWordIsKept == Spec => []LastWordStands
<1> DEFINE Inv == InOrder /\ InHand /\ Taken /\ Counted /\ LastWordStands
<1>1. Init => Inv
  <2> SUFFICES ASSUME Init PROVE Inv
    OBVIOUS
  <2>1. Len(commands) = 0 /\ DOMAIN commands = {} /\ 1..Len(commands) = {}
    BY DEF Init
  <2>2. InOrder /\ InHand /\ Taken /\ Counted
    BY <2>1 DEF Init, InOrder, InHand, Taken, Counted
  <2>3. LastWordStands
    BY <2>1 DEF Init, LastWordStands, Switches
  <2> QED
    BY <2>2, <2>3
<1>2. TypeOK /\ TypeOK' /\ Inv /\ [Next]_vars => Inv'
  <2> SUFFICES ASSUME TypeOK, TypeOK', Inv, [Next]_vars PROVE Inv'
    OBVIOUS
  <2>0. /\ faults \in Nat /\ faults' \in Nat /\ failures \in Nat
        /\ failures' \in Nat /\ MaxFailures \in Nat /\ MaxCommands \in Nat
        /\ Len(commands) \in Nat /\ Len(commands) <= MaxCommands
        /\ Len(commands') \in Nat /\ Len(commands') <= MaxCommands
        /\ cmd \in 0..Len(commands) /\ cmd' \in 0..Len(commands')
        /\ applied \in [1..MaxCommands -> Nat]
        /\ DOMAIN commands = 1..Len(commands)
        /\ DOMAIN commands' = 1..Len(commands')
    BY EngineLoopAssumption DEF TypeOK
  <2>1. CASE Sends
    <3>1. PICK kind \in Kinds : Enqueue(kind)
      BY <2>1 DEF Sends
    <3>2. commands \in Seq(Entries)
      BY DEF TypeOK
    <3>3. /\ Len(commands') = Len(commands) + 1
          /\ commands'[Len(commands) + 1].status = "QUEUED"
          /\ \A i \in 1..Len(commands) : commands'[i] = commands[i]
      BY <3>1, <3>2 DEF Enqueue
    <3>4. UNCHANGED <<applied, halted, pc, cmd, failures, faults>>
      BY <3>1 DEF Enqueue, kv, luck
    <3>5. InOrder' /\ InHand' /\ Taken' /\ Counted'
      <4>1. \A i \in 1..Len(commands') : i \in 1..Len(commands) \/ i = Len(commands) + 1
        BY <2>0, <3>3
      <4>2. InOrder'
        <5> SUFFICES ASSUME NEW i \in 1..Len(commands'), NEW j \in 1..Len(commands'),
                            commands'[i].status = "QUEUED", i < j
                     PROVE  commands'[j].status = "QUEUED"
          BY DEF InOrder
        <5>1. i \in 1..Len(commands)
          BY <2>0, <3>3
        <5>2. CASE j \in 1..Len(commands)
          BY <3>3, <5>1, <5>2 DEF InOrder
        <5>3. CASE j = Len(commands) + 1
          BY <3>3, <5>3
        <5> QED
          BY <4>1, <5>2, <5>3
      <4>3. InHand'
        <5>1. cmd # 0 => cmd \in 1..Len(commands)
          BY <2>0
        <5> QED
          BY <2>0, <3>3, <3>4, <4>1, <5>1 DEF InHand
      <4>4. Taken'
        BY <2>0, <3>3, <3>4 DEF Taken
      <4>5. Counted'
        BY <3>4 DEF Counted
      <4> QED
        BY <4>2, <4>3, <4>4, <4>5
    <3>6. Switches' = Switches
      BY <2>0, <3>3, <3>4 DEF Switches, Taken
    <3>7. \A i \in Switches : commands'[i].kind = commands[i].kind
      BY <2>0, <3>3 DEF Switches
    <3>8. LastWordStands'
      BY <3>4, <3>6, <3>7 DEF LastWordStands
    <3> QED
      BY <3>5, <3>8
  <2>2. CASE Claims
    <3>1. PICK i \in Queued : /\ Oldest(i)
                              /\ cmd' = i
                              /\ commands' = [commands EXCEPT ![i].status = "RUNNING"]
      BY <2>2 DEF Claims
    <3>2. i \in 1..Len(commands) /\ commands[i].status = "QUEUED"
      BY <2>0 DEF Queued
    <3>3. /\ Len(commands') = Len(commands)
          /\ \A j \in 1..Len(commands) : commands'[j].status =
               IF j = i THEN "RUNNING" ELSE commands[j].status
      BY <3>1, <3>2, StatusAfterMark
    <3>4. \A j \in 1..Len(commands) : commands'[j].kind = commands[j].kind
      BY <3>1, <3>2, KindAfterMark
    <3>5. \A j \in 1..Len(commands) : commands[j].status = "QUEUED" => i <= j
      BY <2>0, <3>1 DEF Oldest, Queued
    <3>6. UNCHANGED <<applied, halted, failures, faults>>
          /\ pc' = "running" /\ pc = "commands"
      BY <2>2 DEF Claims
    <3>7. InOrder'
      <4> SUFFICES ASSUME NEW k \in 1..Len(commands'), NEW j \in 1..Len(commands'),
                          commands'[k].status = "QUEUED", k < j
                   PROVE  commands'[j].status = "QUEUED"
        BY DEF InOrder
      <4>1. commands[k].status = "QUEUED" /\ k # i
        BY <3>3
      <4>2. i < k
        BY <2>0, <3>2, <3>3, <3>5, <4>1
      <4>3. commands[j].status = "QUEUED" /\ j # i
        BY <2>0, <3>2, <3>3, <4>1, <4>2 DEF InOrder
      <4> QED
        BY <3>3, <4>3
    <3>8. InHand'
      BY <2>0, <3>1, <3>2, <3>3 DEF InOrder, InHand
    <3>9. Taken' /\ Counted'
      BY <2>0, <3>2, <3>3, <3>6 DEF Taken, Counted
    <3>10. Switches' = Switches
      BY <2>0, <3>3, <3>4, <3>6 DEF Switches
    <3>11. LastWordStands'
      BY <2>0, <3>4, <3>6, <3>10 DEF LastWordStands, Switches
    <3> QED
      BY <3>7, <3>8, <3>9, <3>11
  <2>3. CASE Runs
    <3>1. /\ pc = "running" /\ pc' \in {"answering", "scanning"}
          /\ UNCHANGED <<commands, cmd, failures, faults>>
      BY <2>3 DEF Runs
    <3>2. cmd \in 1..Len(commands) /\ cmd \in 1..MaxCommands
      BY <2>0, <3>1 DEF InHand
    <3>3. applied' = [applied EXCEPT ![cmd] = applied[cmd] + 1]
      BY <2>3 DEF Runs, TakesEffect
    <3>4. /\ applied'[cmd] > 0
          /\ \A i \in 1..MaxCommands : i # cmd => applied'[i] = applied[i]
      BY <2>0, <3>2, <3>3
    <3>5. InOrder' /\ InHand' /\ Counted'
      BY <3>1 DEF InOrder, InHand, Counted
    <3>6. Taken'
      BY <2>0, <3>1, <3>2, <3>4 DEF Taken, InHand
    <3>7. \A i \in Switches : i <= cmd
      BY <2>0, <3>1, <3>2 DEF Switches, Taken, InHand
    <3>8. Switches' = IF commands[cmd].kind \in {"HALT", "RESUME"}
                      THEN Switches \cup {cmd} ELSE Switches
      BY <2>0, <3>1, <3>2, <3>4 DEF Switches
    <3>9. LastWordStands'
      <4>1. CASE commands[cmd].kind = "HALT"
        <5>1. halted' /\ cmd \in Switches' /\ \A j \in Switches' : j <= cmd
          BY <2>0, <2>3, <3>2, <3>7, <3>8, <4>1 DEF Runs
        <5> QED
          BY <3>1, <4>1, <5>1 DEF LastWordStands
      <4>2. CASE commands[cmd].kind = "RESUME"
        <5>1. ~halted' /\ cmd \in Switches' /\ \A j \in Switches' : j <= cmd
          BY <2>0, <2>3, <3>2, <3>7, <3>8, <4>2 DEF Runs
        <5>2. \A i \in Switches' : (\A j \in Switches' : j <= i) => i = cmd
          BY <2>0, <3>1, <3>2, <5>1 DEF Switches
        <5> QED
          BY <3>1, <4>2, <5>1, <5>2 DEF LastWordStands
      <4>3. CASE commands[cmd].kind \notin {"HALT", "RESUME"}
        <5>1. halted' = halted /\ Switches' = Switches
          BY <2>3, <3>8, <4>3 DEF Runs
        <5> QED
          BY <3>1, <5>1 DEF LastWordStands
      <4> QED
        BY <4>1, <4>2, <4>3
    <3> QED
      BY <3>5, <3>6, <3>9
  <2>4. CASE Answers
    <3>1. PICK s \in {"DONE", "FAILED"} :
            commands' = [commands EXCEPT ![cmd].status = s]
      BY <2>4 DEF Answers
    <3>2. /\ Len(commands') = Len(commands)
          /\ \A j \in 1..Len(commands) : commands'[j].status =
               IF j = cmd THEN s ELSE commands[j].status
      BY <2>0, <3>1, StatusAfterMark
    <3>3. \A j \in 1..Len(commands) : commands'[j].kind = commands[j].kind
      BY <2>0, <3>1, KindAfterMark
    <3>4. /\ UNCHANGED <<applied, halted, failures, faults>>
          /\ pc' = "commands" /\ cmd' = 0
      BY <2>4 DEF Answers
    <3>5. InOrder'
      BY <2>0, <3>2 DEF InOrder, InHand
    <3>6. InHand' /\ Taken' /\ Counted'
      BY <2>0, <3>2, <3>4 DEF InHand, Taken, Counted
    <3>7. Switches' = Switches
      BY <2>0, <3>2, <3>3, <3>4 DEF Switches
    <3>8. LastWordStands'
      BY <2>0, <3>3, <3>4, <3>7 DEF LastWordStands, Switches
    <3> QED
      BY <3>5, <3>6, <3>8
  <2>5. CASE Leaves
    <3>1. UNCHANGED <<commands, applied>>
      BY <2>5 DEF Leaves
    <3>2. InOrder' /\ Taken' /\ Switches' = Switches
      BY <3>1 DEF InOrder, Taken, Switches
    <3>3. InHand'
      BY <2>0, <2>5, <3>1 DEF InHand, Leaves
    <3>4. Counted' /\ faults <= faults'
      <4>1. \/ faults' = faults /\ pc' # "failing" /\ pc # "failing"
                              /\ failures' \in {0, failures}
            \/ faults' = faults /\ pc' = pc /\ failures' = failures
            \/ faults' = faults /\ pc = "failing" /\ pc' # "failing"
                              /\ failures' \in {failures, failures + 1}
            \/ faults' = faults + 1 /\ pc # "failing" /\ failures' = failures
        BY <2>5 DEF Leaves
      <4>2. faults <= faults'
        BY <2>0, <4>1
      <4>3. Counted'
        <5> USE <2>0 DEF Counted
        <5>1. CASE faults' = faults /\ pc' # "failing" /\ pc # "failing"
                                   /\ failures' \in {0, failures}
          BY <5>1
        <5>2. CASE faults' = faults /\ pc' = pc /\ failures' = failures
          BY <5>2
        <5>3. CASE faults' = faults /\ pc = "failing" /\ pc' # "failing"
                                   /\ failures' \in {failures, failures + 1}
          BY <5>3
        <5>4. CASE faults' = faults + 1 /\ pc # "failing" /\ failures' = failures
          BY <5>4
        <5> QED
          BY <4>1, <5>1, <5>2, <5>3, <5>4
      <4> QED
        BY <4>2, <4>3
    <3>5. LastWordStands'
      <4>1. CASE halted' = halted
        BY <2>0, <3>1, <3>2, <3>4, <4>1 DEF LastWordStands
      <4>2. CASE pc = "failing" /\ failures + 1 >= MaxFailures /\ faults' = faults
        BY <2>0, <4>2 DEF LastWordStands, Counted
      <4> QED
        BY <2>5, <4>1, <4>2 DEF Leaves
    <3> QED
      BY <3>2, <3>3, <3>4, <3>5
  <2> QED
    BY <2>1, <2>2, <2>3, <2>4, <2>5, QueueSteps
<1> QED
  BY <1>1, <1>2, TypeCorrect, PTL DEF Spec
==============================================================================
