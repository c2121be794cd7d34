---------------------------- MODULE RateGovernor ----------------------------
(***************************************************************************)
(* The rolling-window ceiling of src/app/resilience/governor.py.  The      *)
(* window is the sequence of the ages of the reserved slots, oldest first; *)
(* ages are capped at Window + 1, where a slot no longer counts.           *)
(***************************************************************************)
EXTENDS Integers, Sequences

CONSTANTS Limit,  \* slots per window (limit), at least one
          Window  \* length of the window (window_s), at least one

\* The ages from the first one that is at most bound: popleft, as long as the
\* oldest is older.
Recent(ages, bound) ==
    LET first == CHOOSE n \in 1..(Len(ages) + 1) :
                     /\ n <= Len(ages) => ages[n] <= bound
                     /\ \A i \in 1..(n - 1) : ages[i] > bound
    IN  SubSeq(ages, first, Len(ages))

\* A slot exactly as old as the window still counts (strict comparison).
Prune(hits) == Recent(hits, Window)

HasSlot(hits) == Len(Prune(hits)) < Limit

Reserve(hits) == Append(Prune(hits), 0)

\* The time until the oldest slot ages out, at least one unit of the clock.
Wait(hits) ==
    LET left == Window - Head(Prune(hits))
    IN  IF left > 0 THEN left ELSE 1

\* Mutant of Fill: the slots in use are counted twice.
FillTooMany(hits) ==
    Prune(hits) \o [i \in 1..Limit |-> 0]

\* record_429: slots of this instant up to the limit.  The older ones stay.
Fill(hits) ==
    Prune(hits) \o [i \in 1..(Limit - Len(Prune(hits))) |-> 0]

Older(hits) == [i \in DOMAIN hits |-> IF hits[i] > Window THEN hits[i] ELSE hits[i] + 1]
=============================================================================
