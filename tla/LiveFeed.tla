------------------------------ MODULE LiveFeed ------------------------------
(***************************************************************************)
(* The weather feed of one process: a short cache, a last good reading for *)
(* when the providers fail, a history for the charts that is saved now and *)
(* then and read back after a restart, and a cache of whole answers, with  *)
(* the charts' histories and without.  Visitors who want the same share    *)
(* the load under way.  The capture of the workers reads the same short    *)
(* cache, and its readings alone become oracle ticks.                      *)
(***************************************************************************)
EXTENDS Integers, Sequences, FiniteSets

CONSTANTS
    Full, Lite, \* visitors who want the histories, and who do not
    Workers,
    Lag,       \* how old a provider's reading may be when it comes
    Life,      \* how long a reading is served from the cache
    StaleMax,  \* how long the last good reading replaces a failing provider
    TickMax,   \* WEATHER_STALE_MS
    Fresh,     \* how long an answer is served again
    MaxTime, MaxRestarts

Visitors == Full \cup Lite

LiveFeedAssumption ==
    /\ {Lag, StaleMax, TickMax, Fresh, MaxTime, MaxRestarts} \subseteq Nat /\ Life \in Nat \ {0}
    /\ Full \cap Lite = {} /\ Visitors \cap Workers = {} /\ "nobody" \notin Visitors \cup Workers

VARIABLES
    now,
    cache,    \* the reading and until when it is served
    good,     \* the last good reading and when it was asked for
    series,   \* times of the readings in the history
    stored,   \* the history in the key-value store
    hydrated, \* kvTicksLoaded
    answered, \* when the answer of a kind was made
    loading,  \* the visitors' load of a kind under way
    call,     \* what every call is doing
    tick,     \* the last oracle tick: time of the reading and of storing it
    restarts

vars == <<now, cache, good, series, stored, hydrated, answered, loading, call, tick, restarts>>

Calls == Visitors \cup Workers
Kinds == {"full", "lite"}
Kind(c) == IF c \in Full THEN "full" ELSE "lite"
Nothing == [at |-> -1, when |-> -1]
Idle == [pc |-> "idle", began |-> 0]
NoOne == "nobody"

Init ==
    /\ now = 0 /\ stored = <<>> /\ tick = Nothing /\ restarts = 0
    /\ cache = Nothing /\ good = Nothing /\ series = <<>> /\ hydrated = FALSE
    /\ answered = [k \in Kinds |-> -1] /\ loading = [k \in Kinds |-> NoOne]
    /\ call = [c \in Calls |-> Idle]

At(c, l) == call[c].pc = l
Goes(c, l) == call' = [call EXCEPT ![c] = [Idle EXCEPT !.pc = l]]

---------------------------------------------------------------------------
(* A call, up to its provider request. *)

\* Mutant of Shares: a visitor loads although another does.
SharesNothing(k) == FALSE

Shares(k) == loading[k] # NoOne

\* A visitor is answered from the last answer, or waits for the load under
\* way, or loads.  The history is read back once, by the first load.
Start(v) ==
    /\ At(v, "idle")
    /\ answered[Kind(v)] < 0 \/ now - answered[Kind(v)] >= Fresh
    /\ IF Shares(Kind(v))
         THEN Goes(v, "wait") /\ UNCHANGED <<loading, hydrated>>
         ELSE /\ loading' = [loading EXCEPT ![Kind(v)] = v]
              /\ hydrated' = TRUE /\ Goes(v, IF hydrated THEN "ask" ELSE "hydrate")
    /\ UNCHANGED <<now, cache, good, series, stored, answered, tick, restarts>>

\* A worker's capture begins, near a boundary of a round.
Capture(w) ==
    /\ At(w, "idle") /\ Goes(w, "ask")
    /\ UNCHANGED <<now, cache, good, series, stored, hydrated, answered, loading, tick, restarts>>

\* A call that came meanwhile may have put a reading in the history.
Hydrate(c) ==
    /\ At(c, "hydrate") /\ Goes(c, "ask")
    /\ series' = IF series = <<>> THEN stored ELSE series
    /\ UNCHANGED <<now, cache, good, stored, hydrated, answered, loading, tick, restarts>>

Ask(c) ==
    /\ At(c, "ask") /\ ~(cache # Nothing /\ cache.when > now)
    /\ call' = [call EXCEPT ![c] = [pc |-> "upstream", began |-> now]]
    /\ UNCHANGED <<now, cache, good, series, stored, hydrated, answered, loading, tick, restarts>>

---------------------------------------------------------------------------
(* A reading arrives, and the call ends. *)

\* Mutant of Pushed: readings are put in the order they come.
AsTheyCome(s, at) == Append(s, at)

\* A reading older than the last is left out, one of the same time replaces it.
Pushed(s, at) == IF s # <<>> /\ at <= s[Len(s)] THEN s ELSE Append(s, at)

\* Mutant of IsOracles: what charts may show, the oracle may use.
AnyReading(at, isStale, seen) == seen - at <= TickMax

\* A stale reading, or one that was too old when the capture began, is none.
IsOracles(at, isStale, seen) == ~isStale /\ seen - at <= TickMax

\* A visitor's load puts its reading in the history, which is saved at most
\* every so often; whether it is time is left open.  Who waited has the answer.
Answers(v, at) ==
    /\ v \in Visitors
    /\ series' = IF at < 0 THEN series ELSE Pushed(series, at)
    /\ stored' \in {stored} \cup (IF series' = <<>> THEN {} ELSE {series'})
    /\ loading' = [loading EXCEPT ![Kind(v)] = NoOne] /\ answered' = [answered EXCEPT ![Kind(v)] = now]
    /\ call' = [d \in Calls |-> IF d = v \/ (d \in Visitors /\ Kind(d) = Kind(v) /\ At(d, "wait")) THEN Idle
                               ELSE call[d]]
    /\ UNCHANGED tick

\* The capture stores its reading as a tick.
Stores(w, at, isStale, seen) ==
    /\ w \in Workers /\ Goes(w, "idle")
    /\ tick' = IF at >= 0 /\ IsOracles(at, isStale, seen) THEN [at |-> at, when |-> now] ELSE tick
    /\ UNCHANGED <<series, stored, loading, answered>>

Ends(c, at, isStale, seen) ==
    /\ Answers(c, at) \/ Stores(c, at, isStale, seen)
    /\ UNCHANGED <<now, hydrated, restarts>>

FromCache(c) ==
    /\ At(c, "ask") /\ cache # Nothing /\ cache.when > now
    /\ Ends(c, cache.at, FALSE, now) /\ UNCHANGED <<cache, good>>

\* One of the providers answers; they print on grids of their own.  The
\* reading is good for Life from when it was asked for.
Land(c) ==
    /\ At(c, "upstream")
    /\ \E at \in 0..now :
         /\ now - at <= Lag
         /\ cache' = [at |-> at, when |-> call[c].began + Life]
         /\ good' = [at |-> at, when |-> call[c].began]
         /\ Ends(c, at, FALSE, call[c].began)

\* All providers fail: the last good reading, marked as stale, or none.
Fail(c) ==
    /\ At(c, "upstream")
    /\ Ends(c, IF good # Nothing /\ call[c].began - good.when < StaleMax THEN good.at ELSE -1, TRUE,
            call[c].began)
    /\ UNCHANGED <<cache, good>>

Tick ==
    /\ now < MaxTime /\ now' = now + 1
    /\ UNCHANGED <<cache, good, series, stored, hydrated, answered, loading, call, tick, restarts>>

Restart ==
    /\ restarts < MaxRestarts /\ restarts' = restarts + 1
    /\ cache' = Nothing /\ good' = Nothing /\ series' = <<>> /\ hydrated' = FALSE
    /\ answered' = [k \in Kinds |-> -1] /\ loading' = [k \in Kinds |-> NoOne]
    /\ call' = [c \in Calls |-> Idle]
    /\ UNCHANGED <<now, stored, tick>>

---------------------------------------------------------------------------
Next ==
    \/ \E v \in Visitors : Start(v)
    \/ \E w \in Workers : Capture(w)
    \/ \E c \in Calls : Hydrate(c) \/ Ask(c) \/ FromCache(c) \/ Land(c) \/ Fail(c)
    \/ Tick \/ Restart

Spec == Init /\ [][Next]_vars

---------------------------------------------------------------------------
(* Properties. *)

Readings == [at : -1..now, when : -1..now + Life]

TypeOK ==
    /\ now \in 0..MaxTime /\ cache \in Readings /\ good \in Readings
    /\ \A s \in {series, stored} : \A i \in DOMAIN s : s[i] \in 0..now
    /\ hydrated \in BOOLEAN /\ answered \in [Kinds -> -1..now]
    /\ loading \in [Kinds -> Visitors \cup {NoOne}]
    /\ call \in [Calls -> [pc : {"idle", "wait", "hydrate", "ask", "upstream"}, began : 0..now]]
    /\ tick \in Readings /\ restarts \in 0..MaxRestarts

\* However the answers of the providers overtake each other, the history of a
\* chart goes forward in time, the one read back after a restart too.
HistoryAscends ==
    \A s \in {series, stored} : \A i, j \in DOMAIN s : i < j => s[i] < s[j]

\* "Oracle must not treat it as a fresh print": no tick is older, when it is
\* stored, than a provider's reading may get in the short cache.
TicksAreFresh == tick.when - tick.at < Life + Lag

\* Visitors of a kind cause one load at a time, and one that waits has a load
\* to wait for.
OneLoadAtATime ==
    \A k \in Kinds :
        LET ofKind == {v \in Visitors : Kind(v) = k}
        IN  /\ Cardinality({v \in ofKind : call[v].pc \in {"hydrate", "ask", "upstream"}}) <= 1
            /\ (\E v \in ofKind : At(v, "wait")) => loading[k] # NoOne

=============================================================================
