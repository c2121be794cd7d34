----------------------------- MODULE MarketFeed -----------------------------
(***************************************************************************)
(* How the desk asks the outside world: the providers of                   *)
(* src/app/data/providers.py and src/app/data/alpaca.py behind the rate    *)
(* governor, the circuit breakers and the call budget of                   *)
(* src/app/resilience/, and the news refresh of src/app/agents/news.py,    *)
(* which runs on a thread of its own and shares the pool of budgeted calls *)
(* with the engine.                                                        *)
(*                                                                         *)
(* Two threads call: the engine's, one call after the other, and the news  *)
(* thread.  A call is handed to a pool of Workers threads and waited for   *)
(* Budget time units; one that overruns is cancelled while it queues and   *)
(* abandoned once it runs.  A venue may never answer.                      *)
(*                                                                         *)
(* Time is discrete.  Ages and remaining times are kept instead of a       *)
(* clock, and time passes only when every thread waits: what the threads   *)
(* compute between two waits takes no time, and neither does pace(), a     *)
(* delay of two seconds at the most before a request.                      *)
(***************************************************************************)
EXTENDS Integers, Sequences, FiniteSets, SequencesExt

CONSTANTS Limit, Window,         \* the governor's ceiling (alpaca_rate_limit_per_min)
          Threshold, Cooldown,   \* the breakers (breaker_threshold, breaker_cooldown_s)
          Workers,               \* threads of the pool (max_workers)
          Budget,                \* data_call_budget_s and llm_call_budget_s
          Interval,              \* news_refresh_interval_s
          TTL,                   \* news_bias_ttl_hours
          EquityProviders        \* the values of market_data_provider explored

Governor == INSTANCE RateGovernor
Breaker == INSTANCE CircuitBreaker

ASSUME FeedAssumption ==
    /\ Limit \in Nat \ {0} /\ Window \in Nat \ {0}
    /\ Threshold \in Nat \ {0} /\ Cooldown \in Nat
    /\ Workers \in Nat \ {0}
    /\ Budget \in Nat /\ Budget < Window
    /\ Interval \in Nat /\ TTL \in Nat /\ Interval < TTL
    /\ EquityProviders \subseteq {"alpaca", "yahoo"}

Callers == {"engine", "news"}

\* The sources behind a breaker; Alpaca and the models have none.
Fenced == {"yahoo", "coinbase", "kraken"}
Venues == Fenced \cup {"alpaca"}

Models == <<"gemini", "deepseek">>

VARIABLES
    equity,    \* the equity provider, chosen at start-up
    hits,      \* the governor's window: ages of the reserved slots
    sent,      \* the ages of the requests Alpaca has received
    breaker,   \* of each fenced source
    engine,    \* the engine's call: where it is, venue, requests left, time left
    news,      \* the news thread: which model it asks (0: no thread), time left
    queue,     \* the callers whose task waits for a worker, oldest first
    running,   \* the callers whose task runs and is waited for
    lost,      \* abandoned tasks that still run: Alpaca's, and the others
    kicked,    \* time since the last news refresh was started (last_news_at)
    bias       \* the newest row of sentiment: tilted or neutral, and its age

vars == <<equity, hits, sent, breaker, engine, news, queue, running, lost,
          kicked, bias>>

sources == <<equity, hits, sent, breaker>>
newsVars == <<news, kicked, bias>>

NoRow == [tilt |-> FALSE, age |-> TTL + 1]
Idle == {"answered", "unavailable", "error"}
Ended(how) == [at |-> how, venue |-> "none", legs |-> 0, left |-> 0]

Busy == Cardinality(running) + lost.alpaca + lost.other

-----------------------------------------------------------------------------
(* The pool. *)

Task(caller, what) == [by |-> caller, what |-> what]

\* A worker takes the oldest task; the request goes out.
TakeTask ==
    /\ queue # <<>> /\ Busy < Workers
    /\ running' = running \cup {Head(queue).by}
    /\ queue' = Tail(queue)
    /\ sent' = IF Head(queue).what = "alpaca" THEN Append(sent, 0) ELSE sent
    /\ UNCHANGED <<equity, hits, breaker, engine, lost, newsVars>>

\* Mutant of Cancelled: a task that overran in the queue stays there.
NotCancelled(caller) == queue

\* The queue after fut.cancel(), which takes back the caller's task if it still
\* waits, and has no effect on one that runs.
Cancelled(caller) ==
    LET mine == {i \in DOMAIN queue : queue[i].by = caller}
    IN  IF mine = {} THEN queue ELSE RemoveAt(queue, CHOOSE i \in mine : TRUE)

\* The budget is spent: a task that runs is abandoned.
Abandon(caller, what) ==
    /\ running' = running \ {caller}
    /\ lost' = CASE caller \notin running -> lost
                 [] caller \in running /\ what = "alpaca" ->
                        [lost EXCEPT !.alpaca = @ + 1]
                 [] OTHER -> [lost EXCEPT !.other = @ + 1]

\* An abandoned task ends after all.  Alpaca may have answered it with a 429.
LateEnd ==
    /\ \/ /\ lost.alpaca > 0
          /\ lost' = [lost EXCEPT !.alpaca = @ - 1]
          /\ hits' \in {hits, Governor!Fill(hits)}
       \/ /\ lost.other > 0
          /\ lost' = [lost EXCEPT !.other = @ - 1]
          /\ hits' = hits
    /\ UNCHANGED <<equity, sent, breaker, engine, queue, running, newsVars>>

-----------------------------------------------------------------------------
(* The engine thread: Alpaca. *)

BeginAlpaca ==
    /\ engine.at \in Idle /\ equity = "alpaca"
    /\ engine' = [at |-> "acquire", venue |-> "alpaca", legs |-> 1, left |-> Budget]
    /\ UNCHANGED <<sources, queue, running, lost, newsVars>>

\* A slot is free: reserve it and hand the request to the pool.
Acquire ==
    /\ engine.at = "acquire" /\ Governor!HasSlot(hits)
    /\ hits' = Governor!Reserve(hits)
    /\ engine' = [engine EXCEPT !.at = "fetch", !.left = Budget]
    /\ queue' = Append(queue, Task("engine", "alpaca"))
    /\ UNCHANGED <<equity, sent, breaker, running, lost, newsVars>>

MustSleep ==
    /\ engine.at = "acquire" /\ ~Governor!HasSlot(hits)
    /\ Governor!Wait(hits) <= engine.left

\* The wait would outlast the deadline: RateLimitExceeded, which _get does
\* not turn into DataUnavailable here.
AcquireRaises ==
    /\ engine.at = "acquire" /\ ~Governor!HasSlot(hits) /\ ~MustSleep
    /\ hits' = Governor!Prune(hits)
    /\ engine' = Ended("error")
    /\ UNCHANGED <<equity, sent, breaker, queue, running, lost, newsVars>>

\* Alpaca answers: data, an error, or a 429.
AlpacaAnswers ==
    /\ engine.venue = "alpaca" /\ "engine" \in running
    /\ running' = running \ {"engine"}
    /\ \/ engine' = Ended("answered") /\ hits' = hits
       \/ engine' = Ended("unavailable") /\ hits' \in {hits, Governor!Fill(hits)}
    /\ UNCHANGED <<equity, sent, breaker, queue, lost, newsVars>>

\* Mutant of AlpacaTimeout: a task that runs is awaited.
AlpacaTimeoutJoins ==
    /\ engine.at = "fetch" /\ engine.venue = "alpaca" /\ engine.left = 0
    /\ "engine" \notin running
    /\ queue' = Cancelled("engine")
    /\ engine' = Ended("unavailable")
    /\ UNCHANGED <<sources, running, lost, newsVars>>

AlpacaTimeout ==
    /\ engine.at = "fetch" /\ engine.venue = "alpaca" /\ engine.left = 0
    /\ Abandon("engine", "alpaca")
    /\ queue' = Cancelled("engine")
    /\ engine' = Ended("unavailable")
    /\ UNCHANGED <<sources, newsVars>>

-----------------------------------------------------------------------------
(* The engine thread: the sources behind a breaker. *)

\* Coinbase needs two requests for a quote, the others one.
Legs(v) == IF v = "coinbase" THEN 2 ELSE 1

\* guard, then submit: ask v for its next request, given the breakers b and
\* the queue q.  An open breaker sends the chain on to Kraken; at the end of
\* the chain, and at Yahoo, which has none, it ends the call.
AskFrom(v, legs, b, q) ==
    LET mine == Breaker!Read(b[v])
        kraken == Breaker!Read(b["kraken"])
        Fetch(u, n) ==
            /\ engine' = [at |-> "fetch", venue |-> u, legs |-> n, left |-> Budget]
            /\ queue' = Append(q, Task("engine", u))
    IN  CASE ~Breaker!IsOpen(mine) ->
               breaker' = [b EXCEPT ![v] = mine] /\ Fetch(v, legs)
          [] Breaker!IsOpen(mine) /\ v = "coinbase" /\ ~Breaker!IsOpen(kraken) ->
               /\ breaker' = [b EXCEPT !["coinbase"] = mine, !["kraken"] = kraken]
               /\ Fetch("kraken", Legs("kraken"))
          [] OTHER ->
               /\ breaker' = [b EXCEPT ![v] = mine]
               /\ engine' = Ended(IF v = "yahoo" THEN "error" ELSE "unavailable")
               /\ queue' = q

BeginCrypto ==
    /\ engine.at \in Idle
    /\ AskFrom("coinbase", Legs("coinbase"), breaker, queue)
    /\ UNCHANGED <<equity, hits, sent, running, lost, newsVars>>

BeginYahoo ==
    /\ engine.at \in Idle /\ equity = "yahoo"
    /\ AskFrom("yahoo", Legs("yahoo"), breaker, queue)
    /\ UNCHANGED <<equity, hits, sent, running, lost, newsVars>>

\* The request succeeds: the next one, or the answer.
FencedAnswers ==
    /\ engine.venue \in Fenced /\ "engine" \in running
    /\ running' = running \ {"engine"}
    /\ LET b == [breaker EXCEPT ![engine.venue] = Breaker!RecordSuccess(@)]
       IN  IF engine.legs > 1
           THEN AskFrom(engine.venue, engine.legs - 1, b, queue)
           ELSE breaker' = b /\ engine' = Ended("answered") /\ queue' = queue
    /\ UNCHANGED <<equity, hits, sent, lost, newsVars>>

\* A failed request counts against its venue; after Coinbase comes Kraken.
FailOver(q) ==
    LET b == [breaker EXCEPT ![engine.venue] = Breaker!RecordFailure(@)]
    IN  IF engine.venue = "coinbase"
        THEN AskFrom("kraken", Legs("kraken"), b, q)
        ELSE breaker' = b /\ engine' = Ended("unavailable") /\ queue' = q

FencedFails ==
    /\ engine.venue \in Fenced /\ "engine" \in running
    /\ running' = running \ {"engine"}
    /\ FailOver(queue)
    /\ UNCHANGED <<equity, hits, sent, lost, newsVars>>

FencedTimeout ==
    /\ engine.at = "fetch" /\ engine.venue \in Fenced /\ engine.left = 0
    /\ Abandon("engine", engine.venue)
    /\ FailOver(Cancelled("engine"))
    /\ UNCHANGED <<equity, hits, sent, newsVars>>

-----------------------------------------------------------------------------
(* The news thread.  Its lock is held exactly while the thread lives. *)

NoThread == [model |-> 0, left |-> 0]

\* Asks the m-th model.
AskModel(m, q) ==
    /\ news' = [model |-> m, left |-> Budget]
    /\ queue' = Append(q, Task("news", Models[m]))

\* The engine kicks a refresh between two of its calls, when one is due or an
\* operator forces it.  A row young enough ends an unforced one at once.
KickNews ==
    /\ engine.at \in Idle /\ news = NoThread
    /\ \E force \in BOOLEAN :
          /\ force \/ kicked >= Interval
          /\ kicked' = 0
          /\ IF ~force /\ bias.age < Interval
             THEN news' = news /\ queue' = queue
             ELSE AskModel(1, queue)
    /\ UNCHANGED <<sources, engine, running, lost, bias>>

\* A model answers with a usable bias, or with text parse_bias rejects, which
\* is recorded as neutral.  A store that fails leaves the old row in force.
\* In each case the thread ends and releases the lock.
ModelAnswers ==
    /\ "news" \in running
    /\ running' = running \ {"news"}
    /\ news' = NoThread
    /\ bias' \in {bias} \cup {[tilt |-> t, age |-> 0] : t \in BOOLEAN}
    /\ UNCHANGED <<sources, engine, queue, lost, kicked>>

\* The chain goes on; when every model failed the row is neutral.
NextModel(q) ==
    IF news.model < Len(Models)
    THEN AskModel(news.model + 1, q) /\ bias' = bias
    ELSE /\ news' = NoThread /\ queue' = q
         /\ bias' = [tilt |-> FALSE, age |-> 0]

ModelFails ==
    /\ "news" \in running
    /\ running' = running \ {"news"}
    /\ NextModel(queue)
    /\ UNCHANGED <<sources, engine, lost, kicked>>

ModelTimeout ==
    /\ news # NoThread /\ news.left = 0
    /\ Abandon("news", Models[news.model])
    /\ NextModel(Cancelled("news"))
    /\ UNCHANGED <<sources, engine, kicked>>

\* Mutant of current_bias: a row is read whatever its age.
current_bias_ageless == bias.tilt

\* What scoring reads: neutral once the row is older than its TTL.
current_bias == bias.tilt /\ bias.age <= TTL

-----------------------------------------------------------------------------
Init ==
    /\ equity \in EquityProviders
    /\ hits = <<>> /\ sent = <<>>
    /\ breaker = [v \in Fenced |-> Breaker!Fresh]
    /\ engine = Ended("answered")
    /\ news = NoThread
    /\ queue = <<>> /\ running = {}
    /\ lost = [alpaca |-> 0, other |-> 0]
    /\ kicked = Interval
    /\ bias = NoRow

\* Time passes while every thread waits.  The venue's record is kept for as
\* long as a window that shrinks by the budget.
Tick ==
    /\ queue = <<>> \/ Busy = Workers
    /\ engine.at = "acquire" => MustSleep
    /\ engine.at = "fetch" => engine.left > 0
    /\ news # NoThread => news.left > 0
    /\ hits' = Governor!Older(hits)
    /\ sent' = Governor!Recent([i \in DOMAIN sent |-> sent[i] + 1], Window - Budget)
    /\ breaker' = [v \in Fenced |-> Breaker!OlderBreaker(breaker[v])]
    /\ engine' = [engine EXCEPT !.left = IF engine.at \in Idle THEN 0 ELSE @ - 1]
    /\ news' = [news EXCEPT !.left = IF news = NoThread THEN 0 ELSE @ - 1]
    /\ kicked' = IF kicked < Interval THEN kicked + 1 ELSE kicked
    /\ bias' = [bias EXCEPT !.age = IF @ > TTL THEN @ ELSE @ + 1]
    /\ UNCHANGED <<equity, queue, running, lost>>

EngineWaits == Acquire \/ AcquireRaises \/ AlpacaTimeout \/ FencedTimeout

Next ==
    \/ TakeTask \/ LateEnd
    \/ BeginAlpaca \/ Acquire \/ AcquireRaises \/ AlpacaAnswers \/ AlpacaTimeout
    \/ BeginCrypto \/ BeginYahoo \/ FencedAnswers \/ FencedFails \/ FencedTimeout
    \/ KickNews \/ ModelAnswers \/ ModelFails \/ ModelTimeout
    \/ Tick

Spec == Init /\ [][Next]_vars

\* Time does not stop for ever, the free workers take tasks, and a thread
\* whose wait is over goes on.  Nothing makes a venue or a model answer, and
\* nothing makes the engine begin a call or kick a refresh.
Fairness ==
    /\ SF_vars(Tick) /\ WF_vars(TakeTask)
    /\ WF_vars(EngineWaits) /\ WF_vars(ModelTimeout)

FairSpec == Spec /\ Fairness

-----------------------------------------------------------------------------
TypeOK ==
    /\ equity \in EquityProviders
    /\ hits \in Seq(0..(Window + 1)) /\ Len(hits) <= Limit
    /\ sent \in Seq(0..(Window - Budget))
    /\ breaker \in [Fenced -> Breaker!Breakers]
    /\ engine \in [at : Idle \cup {"acquire", "fetch"}, venue : Venues \cup {"none"},
                   legs : 0..2, left : 0..Budget]
    /\ news \in [model : 0..2, left : 0..Budget]
    /\ queue \in Seq([by : Callers, what : Venues \cup {"gemini", "deepseek"}])
    /\ running \subseteq Callers
    /\ lost \in [alpaca : Nat, other : Nat] /\ Busy <= Workers
    /\ kicked \in 0..Interval
    /\ bias \in [tilt : BOOLEAN, age : 0..(TTL + 1)]

\* In a window shorter than the governor's by one call budget, Alpaca never
\* receives more requests than the ceiling, though a reserved slot may wait
\* in the pool before its request goes out: that wait is cut at the budget.
VenueWindow == Len(sent) <= Limit

\* Strengthenings of the two above. TaskInv: a thread has one task at a time,
\* in the queue or on a worker, and it is the one its thread waits for.
TaskInv ==
    /\ \A i \in DOMAIN queue :
          /\ queue[i].by \notin running
          /\ \A j \in DOMAIN queue : queue[j].by = queue[i].by => j = i
          /\ queue[i].by = "engine" =>
               engine.at = "fetch" /\ queue[i].what = engine.venue
          /\ queue[i].by = "news" =>
               news # NoThread /\ queue[i].what \notin Venues
    /\ "engine" \in running => engine.at = "fetch"
    /\ "news" \in running => news # NoThread
    /\ engine.at \in Idle => engine.venue = "none"
    /\ engine.at = "acquire" => engine.venue = "alpaca"
    /\ news.model = 0 => news = NoThread

\* SlotInv: every request Alpaca has received lately has a slot of its own in
\* the window, at most a call budget older, and so has the one in the queue.
Pending == IF \E i \in DOMAIN queue : queue[i].what = "alpaca" THEN 1 ELSE 0
Falling(ages) == \A i, j \in DOMAIN ages : i <= j => ages[j] <= ages[i]
SlotInv ==
    LET first == Len(hits) - Len(sent) - Pending
    IN  /\ Falling(hits) /\ Falling(sent)
        /\ first >= 0
        /\ \A i \in DOMAIN sent : hits[first + i] <= sent[i] + Budget
        /\ Pending = 1 => hits[Len(hits)] <= Budget - engine.left

\* No venue, no model and no abandoned task can hold the engine in a call, or
\* the news thread and its single-flight lock, for ever.
CallsEnd ==
    /\ []<>(engine.at \in Idle)
    /\ []<>(news = NoThread)

\* A desk that goes on asking for crypto prices goes on asking the primary
\* venue: a breaker that opened lets a request through after its cooldown.
AskedAgain ==
    []<><<BeginCrypto>>_vars => []<>(engine.venue = "coinbase")

\* Once the models stop answering, the scores become neutral,
\* whether refreshes go on failing, hang, or are not kicked at all.
TiltFades ==
    <>[][~ModelAnswers]_vars => <>[]~current_bias

\* A 429 fills the window so that the next request waits for a full period.
BacksOffAfter429 ==
    [][hits' # hits /\ (AlpacaAnswers \/ LateEnd) => Head(hits') = 0]_vars
=============================================================================
