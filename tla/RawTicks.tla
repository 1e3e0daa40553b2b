------------------------------ MODULE RawTicks ------------------------------
(***************************************************************************)
(* The weather ticks a round is decided from, in minutes.  The provider    *)
(* prints on a grid; a worker polls near the two boundaries of the round's *)
(* observation and stores the print it finds; the store drops ticks by     *)
(* age.  Until the grace after the end is over, a resolver may read the    *)
(* nearest tick to the start and the first one after the end.              *)
(***************************************************************************)
EXTENDS Integers, FiniteSetsExt

CONSTANTS
    Interval, \* WEATHER_PROVIDER_INTERVAL_MS
    Slack,    \* what the retention adds to window and grace
    Stale,    \* WEATHER_STALE_MS
    Lead      \* polling begins that long before a boundary

RawTicksAssumption ==
    /\ {Interval, Slack, Stale, Lead} \subseteq Nat \ {0} /\ Lead < Interval

Window == 2 * Interval
Grace == Interval + 1
MaxDist == Interval + 1

Retention == Window + Grace + Slack

VARIABLES
    now,
    start, \* the start of the observation, anywhere on the provider's grid
    value, \* what the provider printed: a correction makes it a second print
    ticks, \* the stored ticks
    polled

vars == <<now, start, value, ticks, polled>>

End == start + Window
Horizon == End + Grace
Near(b) == now >= b - Lead /\ now <= b + MaxDist

Init ==
    /\ now = Interval /\ start \in (Interval + Lead)..(2 * Interval + Lead - 1)
    /\ value = 1 /\ ticks = {} /\ polled = FALSE

Latest == (now \div Interval) * Interval

Tick ==
    /\ now < Horizon /\ now' = now + 1 /\ polled' = FALSE
    /\ value' = IF now' % Interval = 0 THEN 1 ELSE value
    /\ UNCHANGED <<start, ticks>>

\* The provider corrects its print of the start: same time, another value.
Correct ==
    /\ value = 1 /\ Latest <= start /\ start < Latest + Interval /\ ~polled
    /\ value' = 2 /\ UNCHANGED <<now, start, ticks, polled>>

\* Mutant of Pruned: the oldest go when there are more than three.
ByRank(s) ==
    {t \in s : Cardinality({u.at : u \in {v \in s : v.at > t.at}}) < 3}

\* Storing drops what is as old as the retention; reading would still take it.
Pruned(s) == {t \in s : t.at > now - Retention}

\* One run of the capture, while the round is near a boundary; a print that is
\* too old is not taken.  The same print stored again is the same tick.
Poll ==
    /\ Near(start) \/ Near(End)
    /\ ~polled /\ polled' = TRUE
    /\ now - Latest <= Stale
    /\ ticks' = Pruned(ticks \cup {[at |-> Latest, value |-> value]})
    /\ UNCHANGED <<now, start, value>>

Next == Tick \/ Correct \/ Poll
Spec == Init /\ [][Next]_vars

---------------------------------------------------------------------------
(* What a resolver reads. *)

Dist(t, b) == IF t.at >= b THEN t.at - b ELSE b - t.at
Readable == {t \in ticks : t.at >= now - Retention}

\* Mutant of Before: the later tick of a tie wins.
LaterFirst(t, u, b) == Dist(t, b) < Dist(u, b) \/ (Dist(t, b) = Dist(u, b) /\ t.at > u.at)

\* Nearer, and among equally near ones the smaller identity.
Before(t, u, b) ==
    \/ Dist(t, b) < Dist(u, b)
    \/ Dist(t, b) = Dist(u, b) /\ (t.at < u.at \/ (t.at = u.at /\ t.value < u.value))

\* The nearest readable tick to the start of the observation.
nearestRawTick(c) == {t \in c : Dist(t, start) <= MaxDist /\ \A u \in c \ {t} : Before(t, u, start)}

\* The first readable tick at or after its end.
firstTickAtOrAfter(c) ==
    {t \in c : /\ t.at >= End /\ t.at - End <= MaxDist
               /\ \A u \in c \ {t} : u.at >= End => Before(t, u, End)}

---------------------------------------------------------------------------
(* Properties. *)

TypeOK ==
    /\ now \in Nat /\ value \in {1, 2} /\ polled \in BOOLEAN
    /\ ticks \subseteq [at : 0..now, value : {1, 2}]
    /\ \A t \in ticks : t.at % Interval = 0

\* Whatever was printed twice at one time, a resolver finds at most one tick
\* for each boundary, and one whenever a tick is near enough.
SelectionIsUnique ==
    /\ Cardinality(nearestRawTick(Readable)) = IF \E t \in Readable : Dist(t, start) <= MaxDist THEN 1 ELSE 0
    /\ Cardinality(firstTickAtOrAfter(Readable)) =
         IF \E t \in Readable : t.at >= End /\ t.at - End <= MaxDist THEN 1 ELSE 0

Improves ==
    \A t \in nearestRawTick(Readable) :
        /\ nearestRawTick(Readable)' # {}
        /\ \A u \in nearestRawTick(Readable)' : u = t \/ Before(u, t, start)

\* A tick that decides the start of a round, printed less than Slack before it,
\* goes on deciding it until the grace is over: only a nearer one, or a
\* correction that sorts before it, takes its place.
StartPrintStays == [][(\E t \in nearestRawTick(Readable) : t.at > start - Slack) => Improves]_vars

=============================================================================
