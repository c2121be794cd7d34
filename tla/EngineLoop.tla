----------------------------- MODULE EngineLoop -----------------------------
(***************************************************************************)
(* scheduler.Engine: one thread, one tick after the other, fed by a queue  *)
(* of commands that the dashboard process appends to at any moment. A step *)
(* is what the engine does between two points where the queue may grow, an *)
(* exception may end the tick, or the process may die. What a manage pass  *)
(* and an opening do to the books is module Booking's subject; here they   *)
(* only change how many positions are open.                                *)
(***************************************************************************)
EXTENDS Integers, Sequences, FiniteSets

CONSTANTS
  Kinds,         \* the kinds of command the dashboard sends in this instance
  Desks,         \* regimes with a market to scan (EQUITY, CRYPTO)
  MaxOpen,       \* settings.max_open_positions
  MaxFailures,   \* MAX_CONSECUTIVE_FAILURES
  MaxCandidates, \* bound: EXECUTE verdicts in one scan
  MaxCommands,   \* bound: commands sent
  MaxFaults,     \* bound: exceptions raised
  MaxCrashes     \* bound: deaths of the engine process

AllKinds == {"HALT", "RESUME", "CLOSE_POSITION", "FLATTEN_ALL", "SCAN_NOW",
             "SET_REGIME", "OTHER", "UNKNOWN"}
Regimes == Desks \cup {"IDLE"}   \* PREP is scanned no more than IDLE is
Clear   == "CLEAR"               \* no regime forced: the clock decides

ASSUME EngineLoopAssumption ==
  /\ Kinds \subseteq AllKinds
  /\ Clear \notin Regimes
  /\ MaxOpen \in Nat
  /\ MaxFailures \in Nat \ {0}
  /\ MaxCandidates \in Nat
  /\ MaxCommands \in Nat
  /\ MaxFaults \in Nat
  /\ MaxCrashes \in Nat

VARIABLES
  commands,  \* the table `commands` by id: sequence of [kind, status]
  applied,   \* history: how often each command took effect
  halted,    \* kv `halted`
  force,     \* kv `force_regime`
  book,      \* how many positions are open
  pc,        \* where the engine thread is
  cmd,       \* the command in hand, 0 if none
  tick,      \* the tick's [state; managed: manage gate passed;
             \*  posted: commands there were when it began]
  scan,      \* the scan's [todo: candidates left; then: where it returns]
  manageAt,  \* last_manage_at: "zero" forces a pass, else its age
  scanDue,   \* [Desks -> BOOLEAN], scan interval over since last_scan_at
  failures,  \* consecutive_failures
  faults,    \* exceptions raised so far
  crashes    \* deaths so far

queue == <<commands, applied>>
kv    == <<halted, force>>
clock == <<manageAt, scanDue>>
luck  == <<faults, crashes>>
vars  == <<queue, kv, book, pc, cmd, tick, scan, clock, failures, luck>>

NoScan == [todo |-> 0, then |-> "beat"]

Init ==
  /\ commands = <<>>
  /\ applied = [i \in 1..MaxCommands |-> 0]
  /\ halted = FALSE
  /\ force = Clear
  /\ book = 0
  /\ pc = "sleeping"
  /\ cmd = 0
  /\ tick = [state |-> "IDLE", managed |-> FALSE, posted |-> 0]
  /\ scan = NoScan
  /\ manageAt = "zero"
  /\ scanDue \in [Desks -> BOOLEAN]
  /\ failures = 0
  /\ faults = 0
  /\ crashes = 0

(* clock.resolve: a forced regime, or whatever the wall clock says.        *)
Resolves(r) == IF force = Clear THEN r \in Regimes ELSE r = force

Queued == {i \in DOMAIN commands : commands[i].status = "QUEUED"}
(* mutant: the last command first.                                         *)
Newest(i) == \A j \in Queued : j <= i
Oldest(i) == \A j \in Queued : i <= j

------------------------------------------------------------------------------
(* The dashboard: every endpoint only appends a row.                       *)

(* mutant: the halt endpoint throws the switch itself as well.             *)
EnqueueAndHalt(kind) ==
  /\ Len(commands) < MaxCommands
  /\ commands' = Append(commands, [kind |-> kind, status |-> "QUEUED"])
  /\ halted' = (halted \/ kind = "HALT")
  /\ UNCHANGED <<applied, force, book, pc, cmd, tick, scan, clock, failures,
                 luck>>

Enqueue(kind) ==
  /\ Len(commands) < MaxCommands
  /\ commands' = Append(commands, [kind |-> kind, status |-> "QUEUED"])
  /\ UNCHANGED <<applied, kv, book, pc, cmd, tick, scan, clock, failures,
                 luck>>

------------------------------------------------------------------------------
(* Engine.tick                                                             *)

(* The regime is read once, before the commands are.                       *)
BeginTick(r) ==
  /\ pc = "sleeping"
  /\ Resolves(r)
  /\ tick' = [state |-> r, managed |-> FALSE, posted |-> Len(commands)]
  /\ pc' = "commands"
  /\ UNCHANGED <<queue, kv, book, cmd, scan, clock, failures, luck>>

(* mutant: the row is not marked until the command is complete.            *)
ClaimUnmarked ==
  /\ pc = "commands"
  /\ \/ Queued = {} /\ pc' = "manage" /\ UNCHANGED cmd
     \/ \E i \in Queued : Oldest(i) /\ cmd' = i /\ pc' = "running"
  /\ UNCHANGED <<queue, kv, book, tick, scan, clock, failures, luck>>

(* mutant: the whole queue is marked when its first command is claimed.    *)
ClaimAll ==
  /\ pc = "commands"
  /\ \/ Queued = {} /\ pc' = "manage" /\ UNCHANGED <<commands, cmd>>
     \/ \E i \in Queued :
          /\ Oldest(i)
          /\ commands' = [j \in DOMAIN commands |->
               IF j \in Queued THEN [commands[j] EXCEPT !.status = "RUNNING"]
               ELSE commands[j]]
          /\ cmd' = i
          /\ pc' = "running"
  /\ UNCHANGED <<applied, kv, book, tick, scan, clock, failures, luck>>

(* mutant: a halted desk takes no commands.                                *)
ClaimUnlessHalted ==
  /\ pc = "commands"
  /\ \/ /\ Queued = {} \/ halted
        /\ pc' = "manage" /\ UNCHANGED <<commands, cmd>>
     \/ \E i \in Queued :
          /\ Oldest(i) /\ ~halted
          /\ commands' = [commands EXCEPT ![i].status = "RUNNING"]
          /\ cmd' = i
          /\ pc' = "running"
  /\ UNCHANGED <<applied, kv, book, tick, scan, clock, failures, luck>>

(* _process_commands: claim the oldest QUEUED row until there is none. The *)
(* claim is a transaction of its own.                                      *)
ClaimNext ==
  /\ pc = "commands"
  /\ \/ Queued = {} /\ pc' = "manage" /\ UNCHANGED <<commands, cmd>>
     \/ \E i \in Queued :
          /\ Oldest(i)
          /\ commands' = [commands EXCEPT ![i].status = "RUNNING"]
          /\ cmd' = i
          /\ pc' = "running"
  /\ UNCHANGED <<applied, kv, book, tick, scan, clock, failures, luck>>

(* _run_command, by kind.                                                  *)
Running(kind) == pc = "running" /\ commands[cmd].kind = kind
TakesEffect   == applied' = [applied EXCEPT ![cmd] = @ + 1]

RunHalt ==
  /\ Running("HALT")
  /\ halted' = TRUE
  /\ TakesEffect
  /\ pc' = "answering"
  /\ UNCHANGED <<commands, force, book, cmd, tick, scan, clock, failures,
                 luck>>

RunResume ==
  /\ Running("RESUME")
  /\ halted' = FALSE
  /\ TakesEffect
  /\ pc' = "answering"
  /\ UNCHANGED <<commands, force, book, cmd, tick, scan, clock, failures,
                 luck>>

(* mutant: the status of the position is not looked at.                    *)
RunCloseBlind ==
  /\ Running("CLOSE_POSITION")
  /\ manageAt' = "zero"
  /\ book' = book - 1
  /\ TakesEffect
  /\ pc' = "answering"
  /\ UNCHANGED <<commands, kv, cmd, tick, scan, scanDue, failures, luck>>

(* close_manually: the position may be closed already, or refuse to close. *)
RunClose ==
  /\ Running("CLOSE_POSITION")
  /\ manageAt' = "zero"
  /\ book' \in {book, book - 1} \cap Nat
  /\ TakesEffect
  /\ pc' = "answering"
  /\ UNCHANGED <<commands, kv, cmd, tick, scan, scanDue, failures, luck>>

RunFlatten ==
  /\ Running("FLATTEN_ALL")
  /\ book' \in 0..book
  /\ TakesEffect
  /\ pc' = "answering"
  /\ UNCHANGED <<commands, kv, cmd, tick, scan, clock, failures, luck>>

(* SCAN_NOW asks the clock again and scans at once, out of turn.           *)
RunScanNow(r) ==
  /\ Running("SCAN_NOW")
  /\ Resolves(r)
  /\ TakesEffect
  /\ IF r \in Desks
     THEN /\ scanDue' = [scanDue EXCEPT ![r] = FALSE]
          /\ \E n \in 0..MaxCandidates :
               scan' = [todo |-> n, then |-> "answering"]
          /\ pc' = "scanning"
     ELSE pc' = "answering" /\ UNCHANGED <<scanDue, scan>>
  /\ UNCHANGED <<commands, kv, book, cmd, tick, manageAt, failures, luck>>

RunSetRegime(r) ==
  /\ Running("SET_REGIME")
  /\ r \in Regimes \cup {Clear}
  /\ force' = r
  /\ TakesEffect
  /\ pc' = "answering"
  /\ UNCHANGED <<commands, halted, book, cmd, tick, scan, clock, failures,
                 luck>>

(* SET_WEIGHTS and REFRESH_NEWS touch nothing the loop looks at, nor does  *)
(* a SET_REGIME for a desk that is switched off.                           *)
RunOther ==
  /\ Running("OTHER")
  /\ TakesEffect
  /\ pc' = "answering"
  /\ UNCHANGED <<commands, kv, book, cmd, tick, scan, clock, failures, luck>>

RunUnknown ==
  /\ Running("UNKNOWN")
  /\ pc' = "refusing"
  /\ UNCHANGED <<queue, kv, book, cmd, tick, scan, clock, failures, luck>>

(* mutant: one command a tick.                                             *)
CompleteAndMoveOn(at, status) ==
  /\ pc = at
  /\ commands' = [commands EXCEPT ![cmd].status = status]
  /\ cmd' = 0
  /\ pc' = "manage"
  /\ UNCHANGED <<applied, kv, book, tick, scan, clock, failures, luck>>

(* CommandRepo.complete, with the outcome the engine thinks it had.        *)
Complete(at, status) ==
  /\ pc = at
  /\ commands' = [commands EXCEPT ![cmd].status = status]
  /\ cmd' = 0
  /\ pc' = "commands"
  /\ UNCHANGED <<applied, kv, book, tick, scan, clock, failures, luck>>
CompleteDone   == Complete("answering", "DONE")
CompleteFailed == Complete("refusing", "FAILED")

(* The rate limit on the manage pass. Mutants: zero taken for just now; a  *)
(* halted desk does not manage.                                            *)
RecentOrZero   == manageAt # "old"
RecentOrHalted == manageAt = "recent" \/ halted
Recent         == manageAt = "recent"

(* The manage pass, unless the last one is recent.                         *)
ManageGate ==
  /\ pc = "manage"
  /\ IF Recent
     THEN /\ tick' = [tick EXCEPT !.managed = TRUE]
          /\ pc' = "scan"
          /\ UNCHANGED manageAt
     ELSE /\ manageAt' = "recent"
          /\ pc' = "managing"
          /\ UNCHANGED tick
  /\ UNCHANGED <<queue, kv, book, cmd, scan, scanDue, failures, luck>>

ManageAll ==
  /\ pc = "managing"
  /\ book' \in 0..book
  /\ tick' = [tick EXCEPT !.managed = TRUE]
  /\ pc' = "scan"
  /\ UNCHANGED <<queue, kv, cmd, scan, clock, failures, luck>>

(* The scheduled scan, for the regime the tick began with.                 *)
ScanGate ==
  /\ pc = "scan"
  /\ IF tick.state \in Desks /\ ~halted /\ scanDue[tick.state]
     THEN /\ scanDue' = [scanDue EXCEPT ![tick.state] = FALSE]
          /\ \E n \in 0..MaxCandidates : scan' = [todo |-> n, then |-> "beat"]
          /\ pc' = "scanning"
     ELSE pc' = "beat" /\ UNCHANGED <<scanDue, scan>>
  /\ UNCHANGED <<queue, kv, book, cmd, tick, manageAt, failures, luck>>

(* run_scan, pass 2: for each candidate, best first, the limit is read     *)
(* again and _try_open asks risk.check, which asks the kill switch.        *)
TryOpen ==
  /\ pc = "scanning"
  /\ scan.todo > 0
  /\ scan' = [scan EXCEPT !.todo = @ - 1]
  /\ \/ book < MaxOpen /\ ~halted /\ pc' = "opening"
     \/ UNCHANGED pc    \* refused by one of the gates
  /\ UNCHANGED <<queue, kv, book, cmd, tick, clock, failures, luck>>

Open ==
  /\ pc = "opening"
  /\ book' = book + 1
  /\ pc' = "scanning"
  /\ UNCHANGED <<queue, kv, cmd, tick, scan, clock, failures, luck>>

FinishScan ==
  /\ pc = "scanning"
  /\ scan.todo = 0
  /\ pc' = scan.then
  /\ scan' = NoScan
  /\ UNCHANGED <<queue, kv, book, cmd, tick, clock, failures, luck>>

(* The heartbeat ends a tick that went well.                               *)
Beat ==
  /\ pc = "beat"
  /\ failures' = 0
  /\ pc' = "sleeping"
  /\ UNCHANGED <<queue, kv, book, cmd, tick, scan, clock, luck>>

------------------------------------------------------------------------------
(* Exceptions and deaths                                                   *)

(* A command that raises, in its own work, in the scan it asked for or in  *)
(* recording that it is done, is recorded as FAILED.                       *)
CommandRaises ==
  /\ \/ pc \in {"running", "answering"}
     \/ pc \in {"scanning", "opening"} /\ scan.then = "answering"
  /\ faults < MaxFaults
  /\ faults' = faults + 1
  /\ scan' = NoScan
  /\ pc' = "refusing"
  /\ UNCHANGED <<queue, kv, book, cmd, tick, clock, failures, crashes>>

(* Anything else that raises ends the tick where it is.                    *)
TickRaises ==
  /\ \/ pc \in {"commands", "refusing", "manage", "managing", "scan", "beat"}
     \/ pc \in {"scanning", "opening"} /\ scan.then = "beat"
  /\ faults < MaxFaults
  /\ faults' = faults + 1
  /\ cmd' = 0
  /\ scan' = NoScan
  /\ pc' = "failing"
  /\ UNCHANGED <<queue, kv, book, tick, clock, failures, crashes>>

(* mutant: the limit is compared before the failure is counted.            *)
HandleCycleFailureLate ==
  /\ pc = "failing"
  /\ failures' = failures + 1
  /\ halted' = (halted \/ failures >= MaxFailures)
  /\ pc' = "sleeping"
  /\ UNCHANGED <<queue, force, book, cmd, tick, scan, clock, luck>>

(* _handle_cycle_failure: count, and at the limit pull the kill switch.    *)
HandleCycleFailure ==
  /\ pc = "failing"
  /\ failures' = failures + 1
  /\ halted' = (halted \/ failures + 1 >= MaxFailures)
  /\ pc' = "sleeping"
  /\ UNCHANGED <<queue, force, book, cmd, tick, scan, clock, luck>>

(* The process dies (killed, or an error in _handle_cycle_failure itself)  *)
(* and the supervisor starts another: what was in memory is gone. Whether  *)
(* a scan is due then depends on the host's uptime, time.monotonic().      *)
Crash ==
  /\ pc # "down"
  /\ crashes < MaxCrashes
  /\ crashes' = crashes + 1
  /\ pc' = "down"
  /\ cmd' = 0
  /\ scan' = NoScan
  /\ UNCHANGED <<queue, kv, book, tick, clock, failures, faults>>

Restart ==
  /\ pc = "down"
  /\ pc' = "sleeping"
  /\ failures' = 0
  /\ manageAt' = "zero"
  /\ scanDue' \in [Desks -> BOOLEAN]
  /\ UNCHANGED <<queue, kv, book, cmd, tick, scan, luck>>

(* Time passes.                                                            *)
ManageComesDue ==
  /\ manageAt = "recent"
  /\ manageAt' = "old"
  /\ UNCHANGED <<queue, kv, book, pc, cmd, tick, scan, scanDue, failures,
                 luck>>

ScanComesDue(r) ==
  /\ ~scanDue[r]
  /\ scanDue' = [scanDue EXCEPT ![r] = TRUE]
  /\ UNCHANGED <<queue, kv, book, pc, cmd, tick, scan, manageAt, failures,
                 luck>>

------------------------------------------------------------------------------
RunCommand ==
  \/ RunHalt \/ RunResume \/ RunClose \/ RunFlatten \/ RunOther \/ RunUnknown
  \/ \E r \in Regimes : RunScanNow(r)
  \/ \E r \in Regimes \cup {Clear} : RunSetRegime(r)

EngineStep ==
  \/ \E r \in Regimes : BeginTick(r)
  \/ ClaimNext \/ RunCommand \/ CompleteDone \/ CompleteFailed
  \/ ManageGate \/ ManageAll
  \/ ScanGate \/ TryOpen \/ Open \/ FinishScan
  \/ Beat \/ HandleCycleFailure

Next ==
  \/ \E kind \in Kinds : Enqueue(kind)
  \/ EngineStep
  \/ CommandRaises \/ TickRaises \/ Crash \/ Restart
  \/ ManageComesDue \/ \E r \in Desks : ScanComesDue(r)

Spec == Init /\ [][Next]_vars

(* The engine thread runs, the supervisor restarts it, time passes. Nobody *)
(* is obliged to send a command, and a scan may never come due.            *)
FairSpec ==
  /\ Spec
  /\ WF_vars(EngineStep)
  /\ WF_vars(Restart)
  /\ WF_vars(ManageComesDue)

------------------------------------------------------------------------------
(* Properties                                                              *)

Points == {"sleeping", "commands", "running", "answering", "refusing",
           "manage", "managing", "scan", "scanning", "opening", "beat",
           "failing", "down"}

Entries == [kind : AllKinds, status : {"QUEUED", "RUNNING", "DONE", "FAILED"}]
Ticks == [state : Regimes, managed : BOOLEAN, posted : 0..MaxCommands]
Scans == [todo : 0..MaxCandidates, then : {"answering", "beat"}]

(* Every queue row and every piece of engine state has its shape.          *)
TypeOK ==
  /\ commands \in Seq(Entries)
  /\ Len(commands) <= MaxCommands
  /\ applied \in [1..MaxCommands -> Nat]
  /\ halted \in BOOLEAN
  /\ force \in Regimes \cup {Clear}
  /\ book \in Nat
  /\ pc \in Points
  /\ cmd \in 0..Len(commands)
  /\ tick \in Ticks
  /\ scan \in Scans
  /\ manageAt \in {"zero", "recent", "old"}
  /\ scanDue \in [Desks -> BOOLEAN]
  /\ failures \in Nat
  /\ faults \in 0..MaxFaults
  /\ crashes \in 0..MaxCrashes

(* The kill switch: while the desk is halted, no step opens a position,    *)
(* not even the fill of a candidate whose gates were passed before.        *)
HaltedOpensNothing == [][halted => book' <= book]_vars

(* The limit on open positions is kept by a scan of several candidates and *)
(* by scans out of turn.                                                   *)
BookWithinLimit == book <= MaxOpen

(* No command takes effect twice, whatever raises or dies after the claim. *)
AppliedAtMostOnce == \A i \in DOMAIN applied : applied[i] <= 1

(* A command is left RUNNING, never to be answered, only by an exception   *)
(* while it was being recorded as failed or by a death, one each.          *)
Forgotten ==
  {i \in DOMAIN commands : commands[i].status = "RUNNING" /\ i # cmd}
ForgottenOnlyByFailure == Cardinality(Forgotten) <= faults + crashes

(* As long as the desk has not halted itself, the switch is where the last *)
(* HALT or RESUME to take effect in the order they were sent has put it.   *)
Switches == {i \in DOMAIN commands : applied[i] > 0
               /\ commands[i].kind \in {"HALT", "RESUME"}}
LastWordStands ==
  faults < MaxFailures =>
    (halted <=> \E i \in Switches : /\ commands[i].kind = "HALT"
                                    /\ \A j \in Switches : j <= i)

(* How late a command can be: once a tick is past its commands, nothing    *)
(* sent before that tick began is still queued. A HALT sent during a tick  *)
(* is overtaken by that tick's scan and by no other.                       *)
PastCommands == \/ pc \in {"manage", "managing", "scan", "beat"}
                \/ pc \in {"scanning", "opening"} /\ scan.then = "beat"
CommandsComeFirst ==
  PastCommands => \A i \in 1..tick.posted : commands[i].status # "QUEUED"

(* A desk that failed MaxFailures ticks in a row is halted when it goes to *)
(* sleep, and a RESUME in a tick that fails again does not change that.    *)
StreakHalts == pc = "sleeping" /\ failures >= MaxFailures => halted

(* A pass forced by a manual close or by a fresh start is made before the  *)
(* tick reaches its scan.                                                  *)
ForcedPassIsMade ==
  \/ pc \in {"scan", "beat"}
  \/ pc \in {"scanning", "opening"} /\ scan.then = "beat"
  => manageAt # "zero"

(* Halting entries never means abandoning exits: whatever was halted,      *)
(* raised or died, the positions are managed again and again.              *)
StopsAreHonoured == []<>(pc = "managing")

(* Every command sent is answered eventually, across halts, failures and   *)
(* deaths, unless it is one of the few a failure made the desk forget.     *)
Answered(i) == /\ i \in DOMAIN commands
               /\ commands[i].status \in {"DONE", "FAILED"}
CommandsAnswered ==
  \A i \in 1..MaxCommands : i \in Queued ~> Answered(i) \/ i \in Forgotten
==============================================================================
