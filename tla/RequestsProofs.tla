---------------------------- MODULE RequestsProofs ----------------------------
(***************************************************************************)
(* Proofs about the machines in which requests of users meet one another,  *)
(* for every value of their constants.  The machines share no variable, so *)
(* each has an inductive invariant of its own, and what the runs check of  *)
(* it follows from that:                                                   *)
(*                                                                         *)
(* OpeningInv, what may be stored as the price a ticket opened at;         *)
(* PrintsInv, the prints, of which an order of (distance, time, value)     *)
(* leaves at most one to decide; LoginInv, which code and which session a  *)
(* call has used, and what it sent; KeysInv, which key the tokens of an    *)
(* email name; FeedInv, what a history, a cached reading and a load of     *)
(* each worker know of time; OwnedInv, the blocks an entry covers and the  *)
(* tickets that a shared map holds of them; CycleInv, what every list says *)
(* of the rounds, who holds the lock of the creation, and, as long as      *)
(* nothing failed, which round takes bets.                                 *)
(*                                                                         *)
(* A machine's part has a lemma for each operation.  At the end, the       *)
(* machines side by side.                                                  *)
(***************************************************************************)
EXTENDS MCRequests, TotalsProofs, TLAPS

---------------------------------------------------------------------------
(* The price a ticket was opened at (TicketOpening). *)

\* What may be stored: no price, or the price of a moment with a mark that is
\* true: a purchase's is of a moment near it, and an approximate one is from
\* before the first tick, or from when a tick could have expired.
OpeningRecord(r) ==
    /\ r \in [at : -Reach..MaxAge, note : {"none", "missing", "purchase", "approximate", "live"}]
    /\ r.note = "purchase" => r.at \in -Reach..Reach
    /\ r.note = "approximate" => r.at <= age /\ (r.at <= first \/ r.at > Retained - Reach)

\* The ticks near the purchase, none of the future and none before the first.
OpeningFeed ==
    /\ age \in 0..MaxAge /\ first \in 0..(MaxAge + 1)
    /\ prints \subseteq -Reach..Reach /\ \A n \in prints : n <= age
    /\ prints = {} => first = MaxAge + 1

OpeningInv ==
    /\ OpeningFeed /\ OpeningRecord(saved)
    /\ call \in [Opening!Calls -> Opening!Records]
    /\ \A c \in Opening!Calls : OpeningRecord(call[c])

\* The constants of the opening.
LEMMA OpeningConstants == MaxAge \in Nat /\ Retained \in Nat /\ Reach \in Nat /\ ReadingAge \in Nat
BY RequestsAssumption DEF Opening!TicketOpeningAssumption

\* Nothing is stored at first.
LEMMA OpeningInvInit == Opening!Init => OpeningInv
BY OpeningConstants DEF Opening!Init, OpeningInv, OpeningFeed, OpeningRecord, Opening!Records, Opening!Never,
   Opening!None

\* Where time passes and ticks are stored, what was a record stays one.
LEMMA RecordsStay ==
    ASSUME OpeningFeed, age' >= age, age' \in 0..MaxAge,
           first' = first \/ (first = MaxAge + 1 /\ first' = age),
           NEW r, OpeningRecord(r)
    PROVE  OpeningRecord(r)'
BY OpeningConstants DEF OpeningFeed, OpeningRecord

\* A call that asks is about to store a record.
LEMMA OpeningAsks ==
    ASSUME OpeningInv, NEW c \in Opening!Calls, NEW r, OpeningRecord(r),
           call' = [call EXCEPT ![c] = r], UNCHANGED <<age, prints, first, saved>>
    PROVE  OpeningInv'
<1>1. r \in Opening!Records
  BY DEF OpeningRecord, Opening!Records
<1>2. call' \in [Opening!Calls -> Opening!Records]
  BY <1>1 DEF OpeningInv
<1>3. ASSUME NEW d \in Opening!Calls PROVE OpeningRecord(call'[d])
  BY <1>3 DEF OpeningInv
<1>4. OpeningFeed' /\ OpeningRecord(saved)' /\ \A d \in Opening!Calls : OpeningRecord(call'[d]) <=> OpeningRecord(call[d])'
  BY DEF OpeningInv, OpeningFeed, OpeningRecord
<1> QED
  BY <1>2, <1>3, <1>4 DEF OpeningInv

\* What the route decides on is a record.
LEMMA RouteDecides ==
    ASSUME OpeningFeed, NEW c \in Opening!Calls, Opening!AskRoute(c)
    PROVE  /\ UNCHANGED <<age, prints, first, saved>>
           /\ \E r : OpeningRecord(r) /\ call' = [call EXCEPT ![c] = r]
<1>1. UNCHANGED <<age, prints, first, saved>>
  BY DEF Opening!AskRoute, Opening!feed
<1>2. PICK r : /\ call' = [call EXCEPT ![c] = r]
               /\ \/ r \in {Opening!PurchasePrice(n) : n \in Opening!Nearest}
                  \/ r \in {Opening!Price(age, "live"), Opening!Missing}
                  \/ Opening!Readable = {} /\ r = Opening!Price(age, "approximate")
  BY DEF Opening!AskRoute
<1>3. ASSUME NEW n \in Opening!Nearest, r = Opening!PurchasePrice(n) PROVE OpeningRecord(r)
  <2>1. n \in prints
    BY <1>3 DEF Opening!Nearest, Opening!Readable
  <2>2. n \in -Reach..Reach /\ n \in -Reach..MaxAge
    BY <2>1, OpeningConstants DEF OpeningFeed
  <2>3. r = [at |-> n, note |-> "purchase"]
    BY <1>3 DEF Opening!PurchasePrice, Opening!Price
  <2> QED
    BY <2>2, <2>3 DEF OpeningRecord
<1>4. ASSUME r = Opening!Price(age, "live") \/ r = Opening!Missing PROVE OpeningRecord(r)
  BY <1>4, OpeningConstants DEF Opening!Price, Opening!Missing, OpeningFeed, OpeningRecord
<1>5. ASSUME Opening!Readable = {}, r = Opening!Price(age, "approximate") PROVE OpeningRecord(r)
  <2>1. age <= first \/ age > Retained - Reach
    <3>1. CASE prints = {}
      BY <3>1, OpeningConstants DEF OpeningFeed
    <3>2. ASSUME NEW n \in prints PROVE age > Retained - Reach
      <4>1. ~(n >= age - Retained)
        BY <1>5 DEF Opening!Readable
      <4> QED
        BY <4>1, OpeningConstants DEF OpeningFeed
    <3> QED
      BY <3>1, <3>2
  <2>2. r = [at |-> age, note |-> "approximate"]
    BY <1>5 DEF Opening!Price
  <2> QED
    BY <2>1, <2>2, OpeningConstants DEF OpeningFeed, OpeningRecord
<1> QED
  BY <1>1, <1>2, <1>3, <1>4, <1>5

\* Every operation keeps the invariant.
LEMMA OpeningInvStep == OpeningInv /\ [Opening!Next]_openingVars => OpeningInv'
<1> SUFFICES ASSUME OpeningInv, [Opening!Next]_openingVars PROVE OpeningInv'
  OBVIOUS
<1>0. OpeningFeed /\ OpeningRecord(saved) /\ \A c \in Opening!Calls : OpeningRecord(call[c])
  BY DEF OpeningInv
<1>1. CASE Opening!Tick \/ \E n \in Opening!Near : Opening!Poll(n)
  <2>1. /\ age' >= age /\ age' \in 0..MaxAge
        /\ first' = first \/ (first = MaxAge + 1 /\ first' = age)
        /\ UNCHANGED <<saved, call>> /\ OpeningFeed'
    <3>1. CASE Opening!Tick
      BY <1>0, <3>1, OpeningConstants DEF Opening!Tick, Opening!feed, OpeningFeed
    <3>2. ASSUME NEW n \in Opening!Near, Opening!Poll(n)
          PROVE  /\ age' = age /\ UNCHANGED <<saved, call>> /\ OpeningFeed'
                 /\ first' = first \/ (first = MaxAge + 1 /\ first' = age)
      <4>1. /\ age' = age /\ UNCHANGED <<saved, call>> /\ prints' = prints \cup {n} /\ n <= age
            /\ first' = IF first = MaxAge + 1 THEN age ELSE first
        BY <3>2 DEF Opening!Poll, Opening!Never
      <4>2. n \in -Reach..Reach
        BY <3>2 DEF Opening!Near
      <4>3. first' \in 0..(MaxAge + 1)
        BY <1>0, <4>1, OpeningConstants DEF OpeningFeed
      <4> QED
        BY <1>0, <4>1, <4>2, <4>3 DEF OpeningFeed
    <3> QED
      BY <1>0, <1>1, <3>1, <3>2, OpeningConstants DEF OpeningFeed
  <2>2. OpeningRecord(saved)' /\ \A c \in Opening!Calls : OpeningRecord(call[c])'
    BY <1>0, <2>1, RecordsStay
  <2>3. call' \in [Opening!Calls -> Opening!Records]
    BY <2>1 DEF OpeningInv
  <2> QED
    BY <2>1, <2>2, <2>3 DEF OpeningInv
<1>2. ASSUME NEW c \in Opening!Calls, Opening!AskList(c) PROVE OpeningInv'
  <2>1. OpeningRecord(Opening!Price(age, "live"))
    BY <1>0, OpeningConstants DEF OpeningFeed, OpeningRecord, Opening!Price
  <2> QED
    BY <1>2, <2>1, OpeningAsks DEF Opening!AskList, Opening!feed
<1>3. ASSUME NEW c \in Opening!Calls, Opening!AskRoute(c) PROVE OpeningInv'
  BY <1>0, <1>3, RouteDecides, OpeningAsks
<1>4. ASSUME NEW c \in Opening!Calls, Opening!Store(c) PROVE OpeningInv'
  <2>1. UNCHANGED <<age, prints, first>> /\ call' = [call EXCEPT ![c] = Opening!None]
        /\ saved' \in {saved, call[c]}
    BY <1>4 DEF Opening!Store, Opening!feed, Opening!Kept
  <2>2. OpeningRecord(Opening!None)
    BY OpeningConstants DEF OpeningRecord, Opening!None
  <2>3. call' \in [Opening!Calls -> Opening!Records]
    BY <2>1, <2>2 DEF OpeningInv, OpeningRecord, Opening!Records
  <2>4. OpeningRecord(saved') /\ \A d \in Opening!Calls : OpeningRecord(call'[d])
    BY <1>0, <2>1, <2>2 DEF OpeningInv
  <2> QED
    BY <1>0, <2>1, <2>3, <2>4 DEF OpeningInv, OpeningFeed, OpeningRecord
<1>5. CASE UNCHANGED openingVars
  BY <1>5 DEF openingVars, OpeningInv, OpeningFeed, OpeningRecord
<1> QED
  BY <1>1, <1>2, <1>3, <1>4, <1>5 DEF Opening!Next

\* A stored record is not replaced.
LEMMA OpeningKept == [Opening!Next]_openingVars => [saved # Opening!None => saved' = saved]_openingVars
BY DEF Opening!Next, Opening!Tick, Opening!Poll, Opening!AskList, Opening!AskRoute, Opening!Store, Opening!Kept,
   openingVars

\* The invariant is what is said of the types and marks.
LEMMA OpeningInvIsSafe == OpeningInv => Opening!TypeOK /\ Opening!MarksAreTrue
BY DEF OpeningInv, OpeningFeed, OpeningRecord, Opening!TypeOK, Opening!MarksAreTrue, Opening!Records,
   Opening!Near, Opening!Never

---------------------------------------------------------------------------
(* The prints a round is decided from (RawTicks). *)

PrintTicks == [at : Nat, value : {1, 2}]

PrintsInv ==
    /\ now \in Nat /\ start \in Nat /\ now <= Prints!Horizon
    /\ value \in {1, 2} /\ polled \in BOOLEAN
    /\ ticks \subseteq [at : 0..now, value : {1, 2}]
    /\ \A t \in ticks : t.at % Interval = 0

\* The constants of the prints.
LEMMA PrintConstants ==
    /\ Interval \in Nat \ {0} /\ Slack \in Nat \ {0} /\ Stale \in Nat \ {0} /\ Lead \in Nat \ {0}
    /\ Lead < Interval
BY RequestsAssumption DEF Prints!RawTicksAssumption

\* The print a poll finds is on the provider's grid and not after now.
LEMMA LatestType ==
    ASSUME now \in Nat
    PROVE  Prints!Latest \in 0..now /\ Prints!Latest % Interval = 0
<1>1. PICK q \in Nat : q = now \div Interval /\ Interval * q <= now
  BY PrintConstants
<1>2. Interval * q \in Nat /\ (q * Interval) % Interval = 0 /\ q * Interval = Interval * q
  BY PrintConstants
<1> QED
  BY <1>1, <1>2 DEF Prints!Latest

\* The round begins without a print.
LEMMA PrintsInvInit == Prints!Init => PrintsInv
<1> SUFFICES ASSUME Prints!Init PROVE PrintsInv
  OBVIOUS
<1>1. now = Interval /\ start \in Int /\ Interval + Lead <= start
  BY PrintConstants DEF Prints!Init
<1>2. now \in Nat /\ start \in Nat /\ now <= Prints!Horizon
  BY <1>1, PrintConstants DEF Prints!Horizon, Prints!End, Prints!Window, Prints!Grace
<1>3. polled \in BOOLEAN
  BY Zenon DEF Prints!Init
<1> QED
  BY <1>2, <1>3 DEF Prints!Init, PrintsInv

\* Every operation keeps the invariant.
LEMMA PrintsInvStep == PrintsInv /\ [Prints!Next]_printVars => PrintsInv'
<1> SUFFICES ASSUME PrintsInv, [Prints!Next]_printVars PROVE PrintsInv'
  OBVIOUS
<1> USE PrintConstants DEF PrintsInv, Prints!Horizon, Prints!End, Prints!Window, Prints!Grace
<1>1. CASE Prints!Tick
  <2>1. now' = now + 1 /\ now' <= Prints!Horizon /\ Prints!Horizon' = Prints!Horizon /\ start' = start
        /\ ticks' = ticks
    BY <1>1 DEF Prints!Tick
  <2>2. value' \in {1, 2}
    BY <1>1 DEF Prints!Tick
  <2>3. polled' \in BOOLEAN
    BY <1>1, Zenon DEF Prints!Tick
  <2>4. [at : 0..now, value : {1, 2}] \subseteq [at : 0..now', value : {1, 2}]
    BY <2>1
  <2> QED
    BY <2>1, <2>2, <2>3, <2>4
<1>2. CASE Prints!Correct
  BY <1>2 DEF Prints!Correct
<1>3. CASE Prints!Poll
  BY <1>3, LatestType DEF Prints!Poll, Prints!Pruned
<1>4. CASE UNCHANGED printVars
  BY <1>4 DEF printVars
<1> QED
  BY <1>1, <1>2, <1>3, <1>4 DEF Prints!Next

\* A number that orders the prints by their distance from a moment, then by
\* their time, then by their value.
Rank(t, b) == 4 * Prints!Dist(t, b) + (IF t.at >= b THEN 2 ELSE 0) + (t.value - 1)

\* The order of the prints is the order of these numbers.
LEMMA RankOrders ==
    ASSUME NEW t \in PrintTicks, NEW u \in PrintTicks, NEW b \in Nat
    PROVE  /\ Prints!Dist(t, b) \in Nat /\ Rank(t, b) \in Nat
           /\ Prints!Before(t, u, b) <=> Rank(t, b) < Rank(u, b)
           /\ Rank(t, b) = Rank(u, b) => t = u
BY DEF PrintTicks, Rank, Prints!Dist, Prints!Before

\* Of any prints one comes before all others.
LEMMA FirstPrint ==
    ASSUME NEW S, S \subseteq PrintTicks, S # {}, NEW b \in Nat
    PROVE  \E t \in S : \A u \in S \ {t} : Prints!Before(t, u, b)
<1> DEFINE R == {Rank(t, b) : t \in S}
<1>1. R \subseteq Nat /\ R # {}
  BY RankOrders
<1> HIDE DEF R
<1>2. PICK x \in R : \A y \in R : <<y, x>> \notin OpToRel(<, Nat)
  BY <1>1, NatLessThanWellFounded, WFMin
<1>3. \A y \in R : ~(y < x)
  BY <1>1, <1>2 DEF OpToRel
<1>4. PICK t \in S : x = Rank(t, b)
  BY DEF R
<1>5. \A u \in S : Rank(u, b) \in R
  BY DEF R
<1>6. \A u \in S : Rank(u, b) \in Nat /\ ~(Rank(u, b) < Rank(t, b))
  BY <1>3, <1>4, <1>5, RankOrders
<1>7. ASSUME NEW u \in S \ {t} PROVE Prints!Before(t, u, b)
  <2>1. Rank(u, b) # Rank(t, b) /\ Rank(t, b) \in Nat /\ Rank(u, b) \in Nat
    BY <1>7, RankOrders
  <2> QED
    BY <1>6, <1>7, <2>1, RankOrders
<1> QED
  BY <1>7

\* Which print is nearest is settled, for each of the two choices.
LEMMA NearestIsOne ==
    ASSUME NEW c, c \subseteq PrintTicks, start \in Nat, Prints!MaxDist \in Nat
    PROVE  /\ \A t, u \in Prints!nearestRawTick(c) : t = u
           /\ (\E t \in c : Prints!Dist(t, start) <= Prints!MaxDist) <=> Prints!nearestRawTick(c) # {}
<1>1. ASSUME NEW t \in Prints!nearestRawTick(c), NEW u \in Prints!nearestRawTick(c) PROVE t = u
  BY RankOrders DEF Prints!nearestRawTick
<1>2. ASSUME NEW t \in c, Prints!Dist(t, start) <= Prints!MaxDist PROVE Prints!nearestRawTick(c) # {}
  <2>1. PICK s \in c : \A u \in c \ {s} : Prints!Before(s, u, start)
    BY FirstPrint
  <2>2. s = t \/ Prints!Before(s, t, start)
    BY <2>1
  <2>3. Prints!Dist(s, start) <= Prints!Dist(t, start)
    BY <2>2 DEF Prints!Before, Prints!Dist, PrintTicks
  <2>4. Prints!Dist(s, start) <= Prints!MaxDist
    BY <1>2, <2>3, RankOrders
  <2> QED
    BY <2>1, <2>4 DEF Prints!nearestRawTick
<1> QED
  BY <1>1, <1>2 DEF Prints!nearestRawTick

\* So is which is the first one after the end.
LEMMA FirstIsOne ==
    ASSUME NEW c, c \subseteq PrintTicks, Prints!End \in Nat, Prints!MaxDist \in Nat
    PROVE  /\ \A t, u \in Prints!firstTickAtOrAfter(c) : t = u
           /\ (\E t \in c : t.at >= Prints!End /\ t.at - Prints!End <= Prints!MaxDist)
                <=> Prints!firstTickAtOrAfter(c) # {}
<1> DEFINE after == {t \in c : t.at >= Prints!End}
<1>1. ASSUME NEW t \in Prints!firstTickAtOrAfter(c), NEW u \in Prints!firstTickAtOrAfter(c) PROVE t = u
  BY RankOrders DEF Prints!firstTickAtOrAfter
<1>2. ASSUME NEW t \in c, t.at >= Prints!End, t.at - Prints!End <= Prints!MaxDist
      PROVE  Prints!firstTickAtOrAfter(c) # {}
  <2>1. PICK s \in after : \A u \in after \ {s} : Prints!Before(s, u, Prints!End)
    BY <1>2, FirstPrint
  <2>2. s = t \/ Prints!Before(s, t, Prints!End)
    BY <1>2, <2>1
  <2>3. s \in c /\ s.at >= Prints!End /\ s.at - Prints!End <= t.at - Prints!End
    BY <1>2, <2>1, <2>2 DEF Prints!Before, Prints!Dist, PrintTicks
  <2>4. s.at - Prints!End <= Prints!MaxDist
    BY <1>2, <2>3 DEF PrintTicks
  <2> QED
    BY <2>1, <2>3, <2>4 DEF Prints!firstTickAtOrAfter
<1> QED
  BY <1>1, <1>2 DEF Prints!firstTickAtOrAfter

\* A set in which all are the same has one element or none.
LEMMA OneOrNone ==
    ASSUME NEW S, \A t, u \in S : t = u
    PROVE  Prints!Cardinality(S) = IF S # {} THEN 1 ELSE 0
<1>1. Prints!Cardinality(S) = Cardinality(S)
  BY DEF Prints!Cardinality, Cardinality
<1>2. CASE S = {}
  BY <1>1, <1>2, FS_EmptySet
<1>3. ASSUME NEW t \in S PROVE Cardinality(S) = 1
  <2>1. S = {t}
    BY <1>3
  <2> QED
    BY <2>1, FS_Singleton
<1> QED
  BY <1>1, <1>2, <1>3

\* A resolver finds one print for a boundary, or none.
LEMMA PrintsAreOne == PrintsInv => Prints!SelectionIsUnique
<1> SUFFICES ASSUME PrintsInv PROVE Prints!SelectionIsUnique
  OBVIOUS
<1>1. Prints!Readable \subseteq PrintTicks
  BY DEF PrintsInv, PrintTicks, Prints!Readable
<1>2. start \in Nat /\ Prints!MaxDist \in Nat /\ Prints!End \in Nat
  BY PrintConstants DEF PrintsInv, Prints!MaxDist, Prints!End, Prints!Window
<1> QED
  BY <1>1, <1>2, NearestIsOne, FirstIsOne, OneOrNone DEF Prints!SelectionIsUnique

StartGoesOn == (\E t \in Prints!nearestRawTick(Prints!Readable) : t.at > start - Slack) => Prints!Improves

\* The print that decides the start stays, or gives way to a nearer one.
LEMMA StartStays == PrintsInv /\ PrintsInv' /\ [Prints!Next]_printVars => [StartGoesOn]_printVars
<1> SUFFICES ASSUME PrintsInv, PrintsInv', Prints!Next,
                    NEW s \in Prints!nearestRawTick(Prints!Readable), s.at > start - Slack,
                    NEW t \in Prints!nearestRawTick(Prints!Readable)
             PROVE  /\ Prints!nearestRawTick(Prints!Readable)' # {}
                    /\ \A u \in Prints!nearestRawTick(Prints!Readable)' : u = t \/ Prints!Before(u, t, start)
  BY DEF StartGoesOn, Prints!Improves
<1> USE PrintConstants
<1>1. start' = start /\ start \in Nat /\ Prints!MaxDist \in Nat /\ now' <= Prints!Horizon'
      /\ now' \in Nat
  <2>1. start' = start
    BY DEF Prints!Next, Prints!Tick, Prints!Correct, Prints!Poll
  <2> QED
    BY <2>1 DEF PrintsInv, Prints!MaxDist
<1>2. PICK c : c = Prints!Readable'
  OBVIOUS
<1>3. Prints!Readable \subseteq PrintTicks /\ c \subseteq PrintTicks
  BY <1>2 DEF PrintsInv, PrintTicks, Prints!Readable
<1>4. s = t /\ t \in Prints!Readable
  <2>1. s = t
    BY <1>1, <1>3, NearestIsOne
  <2> QED
    BY <2>1 DEF Prints!nearestRawTick
<1>5. t.at > now' - Prints!Retention /\ t.at >= now' - Prints!Retention
  BY <1>1, <1>3, <1>4
     DEF Prints!Horizon, Prints!End, Prints!Retention, Prints!Window, Prints!Grace, PrintTicks
<1>6. t \in ticks'
  BY <1>4, <1>5 DEF Prints!Next, Prints!Tick, Prints!Correct, Prints!Poll, Prints!Pruned, Prints!Readable
<1>7. t \in c /\ Prints!Dist(t, start) <= Prints!MaxDist
  BY <1>2, <1>5, <1>6 DEF Prints!Readable, Prints!nearestRawTick
<1>8. Prints!nearestRawTick(Prints!Readable)' = Prints!nearestRawTick(c)
  BY <1>1, <1>2 DEF Prints!nearestRawTick, Prints!Dist, Prints!Before
<1>9. Prints!nearestRawTick(c) # {}
  BY <1>1, <1>3, <1>7, NearestIsOne
<1>10. \A u \in Prints!nearestRawTick(c) : u = t \/ Prints!Before(u, t, start)
  BY <1>7 DEF Prints!nearestRawTick
<1> QED
  BY <1>8, <1>9, <1>10

\* The invariant is what is said of the types.
LEMMA PrintsInvIsSafe == PrintsInv => Prints!TypeOK
BY DEF PrintsInv, Prints!TypeOK

---------------------------------------------------------------------------
(* Codes, wallets and sessions of an email (EmailLogin). *)

\* What the variables hold, but for the calls; a code was issued before it lives
\* or is in the file.
LoginShape ==
    /\ issued \in 0..Codes /\ live \subseteq 1..issued /\ asked \in 0..(MaxRequests + 1)
    /\ guesses \in 0..(MaxAttempts + 1) /\ used \subseteq 1..Codes
    /\ file \in 0..issued /\ tries \in 0..MaxAttempts
    /\ map \in 0..Logins /\ wallets \subseteq Login!Calls /\ session \in [Login!Calls -> 0..Logins]
    /\ revoked \subseteq Login!Calls /\ expired \subseteq Login!Calls
    /\ compared \in Nat /\ resets \in Nat /\ loginFaults \in 0..LoginFaults

LoginFlags == blind \in BOOLEAN

LoginRun == [pc : Login!Labels, code : 0..Codes, with : 0..Logins, way : 1..(Strategies + 1),
             dead : BOOLEAN, seen : SUBSET Login!Calls]

\* Who looked before a wallet was created saw none.
RunFits(r) ==
    /\ r \in LoginRun /\ r.seen = {}
    /\ r.pc = "consume" => r.code \in 1..issued
    /\ r.pc = "save" => r.with \in wallets
    /\ r.pc \in {"check", "bind", "send", "revoke"} => r.with \in Login!Calls

RunsShape ==
    /\ login = [c \in Login!Calls |-> login[c]]
    /\ \A c \in Login!Calls : RunFits(login[c])

\* A call that goes on sending has had no answer to what it sent.
SentShape ==
    /\ sent \in [Login!Calls -> 0..Strategies] /\ lost \in [Login!Calls -> 0..Strategies]
    /\ \A c \in Login!Calls :
         /\ lost[c] <= sent[c] /\ sent[c] <= 1 + lost[c]
         /\ login[c].pc \notin {"send", "done"} => sent[c] = 0 /\ lost[c] = 0 /\ login[c].way = 1
         /\ login[c].pc = "send" => sent[c] = lost[c] /\ sent[c] < login[c].way /\ login[c].way <= Strategies

\* A code that logged in is used, or has left the file for good.
CodesOnce ==
    /\ logins \in [1..Codes -> [token : 0..1, file : 0..1]]
    /\ \A i \in 1..Codes : /\ logins[i].token = 1 => i \in used
                           /\ logins[i].file = 1 => i <= issued /\ i # file

\* The guesses compared since the last reset are those of the counter.
GuessesCounted ==
    \E n \in Nat : /\ n = MaxAttempts * resets
                   /\ compared <= n + guesses /\ compared <= n + MaxAttempts

\* The map and the sessions name wallets that exist.
OneWallet ==
    /\ map # 0 => map \in wallets
    /\ \A c \in Login!Calls : session[c] # 0 => session[c] \in wallets
    /\ ~blind => \A v, w \in wallets : v = w

\* A call that began without a valid session does not come as far as sending.
DeadFits(r) ==
    r.dead => /\ r.pc \in {"check", "bind", "revoke"}
              /\ r.pc = "check" => r.with \in revoked \cup expired
              /\ r.pc = "bind" => r.with \in expired

DeadIsDead == \A c \in Login!Calls : DeadFits(login[c])

LoginInv ==
    LoginShape /\ LoginFlags /\ RunsShape /\ SentShape /\ CodesOnce /\ GuessesCounted /\ OneWallet /\ DeadIsDead

\* The constants of the login.
LEMMA LoginConstants ==
    /\ Codes \in Nat /\ Logins \in Nat /\ Busy \in Nat /\ MaxAttempts \in Nat /\ MaxRequests \in Nat
    /\ Strategies \in Nat \ {0} /\ MaxWindows \in Nat /\ LoginFaults \in Nat
BY RequestsAssumption DEF Login!EmailLoginAssumption

\* The calls are numbered from one.
LEMMA LoginCalls == Login!Calls \subseteq Nat /\ 0 \notin Login!Calls /\ \A c \in Login!Calls : c \in 0..Logins
BY LoginConstants DEF Login!Calls

LoginDone == [Login!Idle EXCEPT !.pc = "done"]
Moves(c, r) == login' = [login EXCEPT ![c] = r]

\* A call that only goes on to another place.
LEMMA LoginGoto ==
    ASSUME NEW r \in LoginRun, NEW l \in Login!Labels, NEW q, q = [r EXCEPT !.pc = l]
    PROVE  /\ q \in LoginRun /\ q.pc = l /\ q.code = r.code /\ q.with = r.with /\ q.way = r.way
           /\ q.dead = r.dead /\ q.seen = r.seen
BY DEF LoginRun

\* A call that has not begun.
LEMMA LoginIdle ==
    /\ Login!Idle \in LoginRun /\ Login!Idle.seen = {} /\ Login!Idle.dead = FALSE /\ Login!Idle.way = 1
BY LoginConstants DEF LoginRun, Login!Idle, Login!Labels, Login!Nothing

\* A call that ends.
LEMMA LoginDoneRun ==
    /\ LoginDone \in LoginRun /\ LoginDone.pc = "done" /\ LoginDone.seen = {} /\ LoginDone.dead = FALSE
    /\ LoginDone.way = 1
BY LoginIdle, LoginGoto DEF LoginDone, Login!Labels

\* What a call's move to r does to what is said of the calls.
LEMMA MoveEffect ==
    ASSUME RunsShape, NEW c \in Login!Calls, NEW r, Moves(c, r)
    PROVE  /\ login' = [d \in Login!Calls |-> login'[d]] /\ login'[c] = r
           /\ \A d \in Login!Calls : d # c => login'[d] = login[d]
BY DEF RunsShape, Moves

\* A call that moves keeps the calls' shape if what it becomes fits.
LEMMA RunsMove ==
    ASSUME RunsShape, NEW c \in Login!Calls, NEW r, Moves(c, r), RunFits(r)',
           issued \in Nat, issued' \in Nat, issued <= issued', wallets \subseteq wallets'
    PROVE  RunsShape'
<1>1. ASSUME NEW d \in Login!Calls PROVE RunFits(login[d])'
  <2>1. CASE d = c
    BY <2>1, MoveEffect DEF RunFits
  <2>2. CASE d # c
    BY <2>2, MoveEffect DEF RunFits, RunsShape
  <2> QED
    BY <2>1, <2>2
<1> QED
  BY <1>1, MoveEffect DEF RunsShape

\* A call that has sent nothing yet keeps the accounts of what was sent.
LEMMA SentMove ==
    ASSUME RunsShape, SentShape, NEW c \in Login!Calls, NEW r, Moves(c, r), UNCHANGED <<sent, lost>>,
           login[c].pc \notin {"send", "done"}, r.way = 1
    PROVE  SentShape'
BY MoveEffect, LoginConstants DEF SentShape

\* Sessions only end, so a dead call stays where it was known to be.
LEMMA DeadMove ==
    ASSUME RunsShape, DeadIsDead, NEW c \in Login!Calls, NEW r, Moves(c, r), DeadFits(r)',
           revoked \cup expired \subseteq revoked' \cup expired', expired \subseteq expired'
    PROVE  DeadIsDead'
<1>1. ASSUME NEW d \in Login!Calls PROVE DeadFits(login[d])'
  <2>1. CASE d = c
    BY <2>1, MoveEffect DEF DeadFits
  <2>2. CASE d # c
    BY <2>2, MoveEffect DEF DeadFits, DeadIsDead
  <2> QED
    BY <2>1, <2>2
<1> QED
  BY <1>1 DEF DeadIsDead

\* A call moves on, without having sent anything, and what the machine shares
\* of codes and money stays.
LEMMA LoginBegins ==
    ASSUME LoginInv, NEW c \in Login!Calls, NEW r, Moves(c, r), RunFits(r)', DeadFits(r)', r.way = 1,
           login[c].pc \notin {"send", "done"}, UNCHANGED <<sent, lost>>, issued \in Nat,
           UNCHANGED issued, wallets \subseteq wallets',
           revoked \cup expired \subseteq revoked' \cup expired', expired \subseteq expired'
    PROVE  RunsShape' /\ SentShape' /\ DeadIsDead'
BY RunsMove, SentMove, DeadMove DEF LoginInv

\* What a call is at a place.
LEMMA LoginAt ==
    ASSUME LoginInv, NEW c \in Login!Calls
    PROVE  /\ login[c] \in LoginRun /\ login[c].seen = {} /\ login[c].code \in 0..Codes
           /\ login[c].with \in 0..Logins /\ issued \in Nat
           /\ login[c].pc \notin {"send", "done"} => login[c].way = 1
           /\ login[c].pc \notin {"check", "bind", "revoke"} => login[c].dead = FALSE
<1>1. login[c] \in LoginRun /\ login[c].seen = {}
  BY DEF LoginInv, RunsShape, RunFits
<1>2. login[c].code \in 0..Codes /\ login[c].with \in 0..Logins /\ login[c].dead \in BOOLEAN
  BY <1>1 DEF LoginRun
<1>3. DeadFits(login[c])
  BY DEF LoginInv, DeadIsDead
<1>4. login[c].pc \notin {"check", "bind", "revoke"} => login[c].dead = FALSE
  BY <1>2, <1>3, Zenon DEF DeadFits
<1> QED
  BY <1>1, <1>2, <1>4 DEF LoginInv, SentShape, LoginShape

\* The parts that speak of the calls, for a call that ends.
LEMMA LoginEnds ==
    ASSUME LoginInv, NEW c \in Login!Calls, Moves(c, LoginDone), login[c].pc \notin {"send", "done"},
           UNCHANGED <<sent, lost, issued>>, wallets \subseteq wallets',
           revoked \cup expired \subseteq revoked' \cup expired', expired \subseteq expired'
    PROVE  RunsShape' /\ SentShape' /\ DeadIsDead'
<1>1. RunFits(LoginDone)' /\ DeadFits(LoginDone)' /\ LoginDone.way = 1
  BY LoginDoneRun DEF RunFits, DeadFits
<1> QED
  BY <1>1, LoginAt, LoginBegins

\* The same for a call that goes on to another place.
LEMMA LoginGoes ==
    ASSUME LoginInv, NEW c \in Login!Calls,
           NEW l \in Login!Labels \ {"consume", "save", "check", "bind", "send", "revoke"},
           Login!Goto(c, l), login[c].pc \notin {"send", "done", "check", "bind", "revoke"},
           UNCHANGED <<sent, lost, issued>>, wallets \subseteq wallets',
           revoked \cup expired \subseteq revoked' \cup expired', expired \subseteq expired'
    PROVE  RunsShape' /\ SentShape' /\ DeadIsDead'
<1>1. PICK r : r = [login[c] EXCEPT !.pc = l]
  OBVIOUS
<1>2. r \in LoginRun /\ r.pc = l /\ r.seen = {} /\ r.way = 1 /\ r.dead = FALSE
  <2>1. r \in LoginRun /\ r.pc = l /\ r.seen = login[c].seen /\ r.way = login[c].way
        /\ r.dead = login[c].dead
    <3>1. login[c] \in LoginRun /\ l \in Login!Labels
      BY LoginAt
    <3>2. PICK s \in LoginRun : s = login[c]
      BY <3>1
    <3>3. r = [s EXCEPT !.pc = l]
      BY <1>1, <3>2
    <3>4. r \in LoginRun /\ r.pc = l /\ r.seen = s.seen /\ r.way = s.way
      BY <3>1, <3>3, LoginGoto
    <3>5. r.dead = s.dead
      BY <3>1, <3>3, LoginGoto
    <3> QED
      BY <3>2, <3>4, <3>5, Zenon
  <2>2. login[c].dead = FALSE /\ login[c].seen = {} /\ login[c].way = 1
    BY LoginAt
  <2> QED
    BY <2>1, <2>2, Zenon
<1>3. RunFits(r)' /\ DeadFits(r)'
  BY <1>2 DEF RunFits, DeadFits
<1>4. Moves(c, r)
  BY <1>1 DEF Moves, Login!Goto, LoginInv, RunsShape
<1> QED
  BY <1>2, <1>3, <1>4, LoginAt, LoginBegins

\* No step of the machine but a reset and a comparison counts guesses.
LEMMA GuessesStay ==
    ASSUME GuessesCounted, UNCHANGED <<guesses, resets, compared>>
    PROVE  GuessesCounted'
BY DEF GuessesCounted

\* A code's token logs in once.
LEMMA ConsumeKeeps ==
    ASSUME LoginInv, NEW c \in Login!Calls, Login!Consume(c) PROVE LoginInv'
<1> USE DEF Login!Consume, Login!mail, Login!wallet, Login!tokens, Login!money, Login!At
<1>1. login[c].pc = "consume" /\ login[c].code \in 1..issued /\ issued \in 0..Codes
  BY DEF LoginInv, LoginShape, RunsShape, RunFits
<1> DEFINE i == login[c].code
<1>2. i \in 1..Codes
  BY <1>1, LoginConstants
<1>3. LoginShape' /\ LoginFlags' /\ OneWallet'
  <2>1. LoginFlags'
    BY Zenon DEF LoginInv, LoginFlags
  <2>2. LoginShape'
    BY <1>2 DEF LoginInv, LoginShape
  <2> QED
    BY <2>1, <2>2 DEF LoginInv, OneWallet
<1>4. GuessesCounted'
  BY GuessesStay DEF LoginInv
<1>5. CodesOnce'
  <2>1. logins' \in [1..Codes -> [token : 0..1, file : 0..1]]
    BY <1>2 DEF LoginInv, CodesOnce, Login!FirstUse
  <2>2. ASSUME NEW j \in 1..Codes
        PROVE  (logins'[j].token = 1 => j \in used') /\ logins'[j].file = logins[j].file
    <3>1. logins[j] \in [token : 0..1, file : 0..1]
          /\ logins \in [1..Codes -> [token : 0..1, file : 0..1]]
      BY DEF LoginInv, CodesOnce
    <3>2. CASE j = i
      BY <1>2, <3>1, <3>2, ZenonT(60)
    <3>3. CASE j # i
      BY <1>2, <3>1, <3>3 DEF LoginInv, CodesOnce
    <3> QED
      BY <3>2, <3>3
  <2> QED
    BY <2>1, <2>2 DEF LoginInv, CodesOnce
<1>6. RunsShape' /\ SentShape' /\ DeadIsDead'
  <2>1. CASE Login!FirstUse(i)
    BY <1>1, <2>1, LoginGoes DEF Login!Labels
  <2>2. CASE ~Login!FirstUse(i)
    BY <1>1, <2>2, LoginEnds DEF Login!Leave, Moves, LoginDone
  <2> QED
    BY <2>1, <2>2
<1> QED
  BY <1>3, <1>4, <1>5, <1>6 DEF LoginInv

\* The machine's variables of which the invariant's parts speak without the calls.
LEMMA RequestKeeps == LoginInv /\ Login!Request => LoginInv'
<1> SUFFICES ASSUME LoginInv, Login!Request PROVE LoginInv'
  OBVIOUS
<1> USE LoginConstants DEF Login!Request, Login!wallet, Login!tokens, Login!money
<1>1. issued \in Nat /\ issued' \in Nat /\ issued <= issued' /\ issued' <= Codes /\ file \in 0..issued
  BY DEF LoginInv, LoginShape
<1>2. LoginShape'
  <2>1. 1..issued \subseteq 1..issued'
    BY <1>1
  <2>2. live' \subseteq 1..issued' /\ asked' \in 0..(MaxRequests + 1) /\ file' \in 0..issued'
        /\ tries' \in 0..MaxAttempts
    <3>1. live \subseteq 1..issued /\ asked \in 0..(MaxRequests + 1) /\ tries \in 0..MaxAttempts
      BY DEF LoginInv, LoginShape
    <3>2. live' \subseteq 1..issued'
      <4>1. CASE asked < MaxRequests
        <5>1. issued' = issued + 1 /\ live' = live \cup {issued + 1}
          BY <4>1, <3>1
        <5>2. issued' \in 1..issued'
          BY <1>1, <5>1
        <5>3. live' = live \cup {issued'}
          BY <5>1, Zenon
        <5> QED
          BY <2>1, <3>1, <5>2, <5>3, Zenon
      <4>2. CASE asked >= MaxRequests
        <5>1. ~(asked < MaxRequests)
          BY <3>1, <4>2
        <5>2. issued' = issued /\ live' = live
          BY <5>1
        <5> QED
          BY <3>1, <5>2
      <4> QED
        BY <3>1, <4>1, <4>2
    <3> QED
      BY <1>1, <3>1, <3>2
  <2> QED
    BY <1>1, <2>2 DEF LoginInv, LoginShape
<1>3. LoginFlags' /\ OneWallet' /\ DeadIsDead' /\ SentShape'
  <2>1. LoginFlags'
    BY Zenon DEF LoginInv, LoginFlags
  <2> QED
    BY <2>1 DEF LoginInv, OneWallet, DeadIsDead, DeadFits, SentShape
<1>4. RunsShape'
  BY <1>1 DEF LoginInv, RunsShape, RunFits
<1>5. CodesOnce'
  BY <1>1 DEF LoginInv, CodesOnce
<1>6. GuessesCounted'
  BY GuessesStay DEF LoginInv
<1> QED
  BY <1>2, <1>3, <1>4, <1>5, <1>6 DEF LoginInv

\* Codes expire, sessions do, and the map may be lost.
LEMMA LosesKeep ==
    ASSUME LoginInv,
           Login!LoseMap \/ (\E i \in 1..Codes : Login!ExpireCode(i)) \/ \E c \in Login!Calls : Login!ExpireSession(c)
    PROVE  LoginInv'
<1> USE LoginConstants DEF Login!LoseMap, Login!ExpireCode, Login!ExpireSession, Login!Fault, Login!mail, Login!code,
        Login!wallet, Login!tokens, Login!money, Login!Nothing
<1>1. LoginFlags'
  BY Zenon DEF LoginInv, LoginFlags
<1>2. LoginShape'
  <2>1. CASE Login!LoseMap
    BY <2>1 DEF LoginInv, LoginShape
  <2>2. ASSUME NEW i \in 1..Codes, Login!ExpireCode(i) PROVE LoginShape'
    BY <2>2 DEF LoginInv, LoginShape
  <2>3. ASSUME NEW c \in Login!Calls, Login!ExpireSession(c) PROVE LoginShape'
    BY <2>3 DEF LoginInv, LoginShape
  <2> QED
    BY <2>1, <2>2, <2>3
<1>3. login' = login /\ issued' = issued /\ wallets' = wallets /\ expired \subseteq expired'
      /\ revoked' = revoked
  OBVIOUS
<1>4. RunsShape' /\ DeadIsDead'
  BY <1>3 DEF LoginInv, RunsShape, RunFits, DeadIsDead, DeadFits
<1>5. SentShape' /\ CodesOnce'
  BY <1>3 DEF LoginInv, SentShape, CodesOnce
<1>6. OneWallet'
  BY DEF LoginInv, OneWallet
<1>7. GuessesCounted'
  BY GuessesStay DEF LoginInv
<1> QED
  BY <1>1, <1>2, <1>4, <1>5, <1>6, <1>7 DEF LoginInv

\* A reset gives as many guesses as there may be between two.
LEMMA GuessesReset ==
    ASSUME GuessesCounted, LoginShape, guesses' = 0, resets' = resets + 1, compared' = compared
    PROVE  GuessesCounted'
<1>1. PICK n \in Nat : n = MaxAttempts * resets /\ compared <= n + MaxAttempts
  BY DEF GuessesCounted
<1>2. PICK m : m = n + MaxAttempts
  OBVIOUS
<1>3. MaxAttempts * (resets + 1) = n + MaxAttempts
  BY <1>1, LoginConstants DEF LoginShape
<1>4. m \in Nat /\ m = MaxAttempts * resets' /\ compared' <= m + guesses' /\ compared' <= m + MaxAttempts
  BY <1>1, <1>2, <1>3, LoginConstants DEF LoginShape
<1> QED
  BY <1>4 DEF GuessesCounted

\* The counters run out.
LEMMA WindowEndsKeeps == LoginInv /\ Login!WindowEnds => LoginInv'
<1> SUFFICES ASSUME LoginInv, Login!WindowEnds PROVE LoginInv'
  OBVIOUS
<1> USE LoginConstants DEF Login!WindowEnds, Login!wallet, Login!tokens, Login!money
<1>1. LoginFlags'
  BY Zenon DEF LoginInv, LoginFlags
<1>2. LoginShape'
  BY DEF LoginInv, LoginShape
<1>3. RunsShape' /\ DeadIsDead'
  BY DEF LoginInv, RunsShape, RunFits, DeadIsDead, DeadFits
<1>4. SentShape' /\ CodesOnce' /\ OneWallet'
  BY DEF LoginInv, SentShape, CodesOnce, OneWallet
<1>5. GuessesCounted'
  <2>1. CASE guesses' = 0 /\ resets' = resets + 1
    BY <2>1, GuessesReset DEF LoginInv
  <2>2. CASE UNCHANGED <<guesses, resets>>
    BY <2>2, GuessesStay DEF LoginInv
  <2> QED
    BY <2>1, <2>2
<1> QED
  BY <1>1, <1>2, <1>3, <1>4, <1>5 DEF LoginInv

\* A guess is compared only when it was counted before.
LEMMA VerifyTokenKeeps ==
    ASSUME LoginInv, NEW c \in Login!Calls, NEW i \in 1..issued, NEW right \in BOOLEAN,
           Login!VerifyToken(c, i, right)
    PROVE  LoginInv'
<1> USE LoginConstants DEF Login!VerifyToken, Login!CanBegin, Login!At, Login!mail, Login!wallet, Login!tokens, Login!money
<1>1. LoginFlags'
  BY Zenon DEF LoginInv, LoginFlags
<1>2. LoginShape'
  BY DEF LoginInv, LoginShape, Login!Permits
<1>3. CodesOnce' /\ OneWallet'
  BY DEF LoginInv, CodesOnce, OneWallet
<1>4. GuessesCounted'
  <2>1. PICK n \in Nat : n = MaxAttempts * resets /\ compared <= n + guesses /\ compared <= n + MaxAttempts
    BY DEF LoginInv, GuessesCounted
  <2>2. compared' <= n + guesses' /\ compared' <= n + MaxAttempts
    BY <2>1 DEF LoginInv, LoginShape, Login!Permits
  <2> QED
    BY <2>1, <2>2 DEF GuessesCounted
<1>5. RunsShape' /\ SentShape' /\ DeadIsDead'
  <2>1. login[c].pc = "none" /\ issued \in Nat /\ i \in 0..Codes
    BY DEF LoginInv, LoginShape
  <2>2. CASE Login!Permits /\ right
    <3>1. PICK r : r = [Login!Idle EXCEPT !.pc = "consume", !.code = i]
      OBVIOUS
    <3>2. r \in LoginRun /\ r.pc = "consume" /\ r.code = i /\ r.way = 1 /\ r.seen = {}
      BY <3>1, <2>1, LoginIdle DEF LoginRun, Login!Labels
    <3>3. r.dead = FALSE
      BY <3>1, <2>1, LoginIdle DEF LoginRun
    <3>4. RunFits(r)' /\ DeadFits(r)'
      BY <3>2, <3>3 DEF RunFits, DeadFits
    <3>5. Moves(c, r)
      BY <2>2, <3>1 DEF Moves
    <3> QED
      BY <2>1, <3>2, <3>4, <3>5, LoginBegins
  <2>3. CASE ~(Login!Permits /\ right)
    BY <2>1, <2>3, LoginEnds DEF Login!Leave, Moves, LoginDone
  <2> QED
    BY <2>2, <2>3
<1> QED
  BY <1>1, <1>2, <1>3, <1>4, <1>5 DEF LoginInv

\* The file's record logs in once: it is dropped, and its code does not return.
LEMMA VerifyFileKeeps ==
    ASSUME LoginInv, NEW c \in Login!Calls, NEW right \in BOOLEAN, Login!VerifyFile(c, right)
    PROVE  LoginInv'
<1> USE LoginConstants DEF Login!VerifyFile, Login!CanBegin, Login!At, Login!mail, Login!wallet, Login!tokens, Login!money,
        Login!Nothing
<1> DEFINE well == file \in live /\ Login!TriesLeft /\ right
<1>1. LoginFlags'
  BY Zenon DEF LoginInv, LoginFlags
<1>2. LoginShape'
  BY DEF LoginInv, LoginShape, Login!TriesLeft
<1>3. OneWallet'
  BY DEF LoginInv, OneWallet
<1>4. GuessesCounted'
  BY GuessesStay DEF LoginInv
<1>5. login[c].pc = "none" /\ issued \in Nat /\ file \in 1..issued /\ file \in 1..Codes
  BY DEF LoginInv, LoginShape
<1>6. CodesOnce'
  <2>1. CASE well
    <3>1. logins' = [logins EXCEPT ![file].file = @ + 1] /\ file' = 0 /\ issued' = issued /\ used' = used
      BY <2>1
    <3>2. logins \in [1..Codes -> [token : 0..1, file : 0..1]] /\ logins[file].file = 0
      BY <1>5 DEF LoginInv, CodesOnce
    <3>3. logins' \in [1..Codes -> [token : 0..1, file : 0..1]]
          /\ logins'[file].token = logins[file].token
      BY <3>1, <3>2, <1>5, SMTT(40)
    <3>4. \A j \in 1..Codes : j # file => logins'[j] = logins[j]
      BY <3>1, <3>2
    <3> QED
      BY <3>1, <3>3, <3>4, <1>5 DEF LoginInv, CodesOnce
  <2>2. CASE ~well
    BY <2>2 DEF LoginInv, CodesOnce
  <2> QED
    BY <2>1, <2>2
<1>7. RunsShape' /\ SentShape' /\ DeadIsDead'
  <2>1. CASE well
    <3>1. PICK r : r = [Login!Idle EXCEPT !.pc = "map"]
      OBVIOUS
    <3>2. r \in LoginRun /\ r.pc = "map" /\ r.way = 1 /\ r.seen = {}
      BY <3>1, LoginIdle DEF LoginRun, Login!Labels
    <3>3. r.dead = FALSE
      BY <3>1, LoginIdle DEF LoginRun
    <3>4. RunFits(r)' /\ DeadFits(r)'
      BY <3>2, <3>3 DEF RunFits, DeadFits
    <3>5. Moves(c, r)
      BY <2>1, <3>1 DEF Moves
    <3> QED
      BY <1>5, <3>2, <3>4, <3>5, LoginBegins
  <2>2. CASE ~well
    BY <1>5, <2>2, LoginEnds DEF Login!Leave, Moves, LoginDone
  <2> QED
    BY <2>1, <2>2
<1> QED
  BY <1>1, <1>2, <1>3, <1>4, <1>6, <1>7 DEF LoginInv

\* A call begins to use a session, which may be over.
LEMMA UseKeeps ==
    ASSUME LoginInv, NEW c \in Login!Calls, NEW s \in Login!Calls,
           NEW l \in {"check", "revoke"}, Login!Use(c, s, l)
    PROVE  LoginInv'
<1> USE LoginConstants DEF Login!Use, Login!CanBegin, Login!At, Login!mail, Login!code, Login!wallet, Login!tokens,
        Login!money
<1>1. LoginFlags'
  BY Zenon DEF LoginInv, LoginFlags
<1>2. LoginShape' /\ OneWallet' /\ CodesOnce' /\ GuessesCounted'
  BY GuessesStay DEF LoginInv, LoginShape, OneWallet, CodesOnce
<1>3. PICK r : r = [Login!Idle EXCEPT !.pc = l, !.with = s, !.dead = s \in revoked \cup expired]
  OBVIOUS
<1>4. r.pc = l /\ r.with = s /\ r.way = 1 /\ r.seen = {} /\ (r.dead => s \in revoked \cup expired)
  BY <1>3 DEF Login!Idle
<1>5. r \in LoginRun
  <2>1. (s \in revoked \cup expired) \in BOOLEAN
    OBVIOUS
  <2>2. PICK b \in BOOLEAN : r = [Login!Idle EXCEPT !.pc = l, !.with = s, !.dead = b]
    BY <1>3, <2>1
  <2>3. l \in Login!Labels /\ s \in 0..Logins
    BY LoginCalls DEF Login!Labels
  <2> QED
    BY <2>2, <2>3, LoginIdle DEF LoginRun
<1>6. RunFits(r)' /\ DeadFits(r)'
  BY <1>4, <1>5 DEF RunFits, DeadFits
<1>7. Moves(c, r) /\ login[c].pc = "none" /\ issued \in Nat
  BY <1>3 DEF Moves, LoginInv, LoginShape
<1>8. RunsShape' /\ SentShape' /\ DeadIsDead'
  BY <1>4, <1>6, <1>7, LoginBegins
<1> QED
  BY <1>1, <1>2, <1>8 DEF LoginInv

\* A login clears the counter.
LEMMA ClearKeeps == ASSUME LoginInv, NEW c \in Login!Calls, Login!Clear(c) PROVE LoginInv'
<1> USE LoginConstants DEF Login!Clear, Login!At, Login!mail, Login!wallet, Login!tokens, Login!money, Login!Nothing
<1>1. LoginFlags'
  BY Zenon DEF LoginInv, LoginFlags
<1>2. LoginShape' /\ OneWallet'
  BY DEF LoginInv, LoginShape, OneWallet
<1>3. CodesOnce'
  BY DEF LoginInv, CodesOnce
<1>4. GuessesCounted'
  BY GuessesReset DEF LoginInv
<1>5. RunsShape' /\ SentShape' /\ DeadIsDead'
  <2>1. "map" \in Login!Labels
    BY DEF Login!Labels
  <2> QED
    BY <2>1, LoginGoes
<1> QED
  BY <1>1, <1>2, <1>3, <1>4, <1>5 DEF LoginInv

\* A login takes the wallet of the map.
LEMMA ReadMapKeeps == ASSUME LoginInv, NEW c \in Login!Calls, Login!ReadMap(c) PROVE LoginInv'
<1> USE LoginConstants DEF Login!ReadMap, Login!At, Login!mail, Login!code, Login!tokens, Login!money, Login!Nothing,
        Login!Session
<1>1. LoginFlags'
  BY Zenon DEF LoginInv, LoginFlags
<1>2. session \in [Login!Calls -> 0..Logins] /\ map \in 0..Logins /\ (map # 0 => map \in wallets)
  BY DEF LoginInv, LoginShape, OneWallet
<1>3. session' \in [Login!Calls -> 0..Logins]
  BY <1>2
<1>4. LoginShape' /\ CodesOnce' /\ GuessesCounted'
  BY <1>3, GuessesStay DEF LoginInv, LoginShape, CodesOnce
<1>5. OneWallet'
  BY <1>2 DEF LoginInv, OneWallet
<1>6. RunsShape' /\ SentShape' /\ DeadIsDead'
  <2>1. "list" \in Login!Labels
    BY DEF Login!Labels
  <2>2. CASE map # 0
    BY <2>2, LoginEnds DEF Login!Leave, Moves, LoginDone
  <2>3. CASE map = 0
    BY <2>1, <2>3, LoginGoes
  <2> QED
    BY <2>2, <2>3
<1> QED
  BY <1>1, <1>4, <1>5, <1>6 DEF LoginInv

\* A login looks for the wallets of the email.
LEMMA ListWalletsKeeps == ASSUME LoginInv, NEW c \in Login!Calls, Login!ListWallets(c) PROVE LoginInv'
<1> USE LoginConstants DEF Login!ListWallets, Login!At, Login!mail, Login!code, Login!tokens, Login!money, Login!Nothing,
        Login!Recovered, Login!Fault
<1>1. LoginFlags'
  BY Zenon DEF LoginInv, LoginFlags
<1>2. LoginShape' /\ CodesOnce' /\ GuessesCounted'
  <2>1. loginFaults' \in 0..LoginFaults
    BY DEF LoginInv, LoginShape
  <2>2. LoginShape'
    BY <2>1 DEF LoginInv, LoginShape
  <2> QED
    BY <2>2, GuessesStay DEF LoginInv, CodesOnce
<1>3. OneWallet'
  <2>1. blind => blind'
    OBVIOUS
  <2> QED
    BY <2>1 DEF LoginInv, OneWallet
<1>4. RunsShape' /\ SentShape' /\ DeadIsDead'
  <2>0. "create" \in Login!Labels /\ "save" \in Login!Labels /\ login[c].pc = "list" /\ issued \in Nat
        /\ wallets \subseteq 0..Logins /\ login[c] \in LoginRun /\ login[c].seen = {} /\ login[c].way = 1
    BY LoginCalls, LoginAt DEF Login!Labels, LoginInv, LoginShape
  <2>1. CASE Login!Goto(c, "create")
    BY <2>0, <2>1, LoginGoes
  <2>2. CASE wallets = {} /\ login' = [login EXCEPT ![c].pc = "create", ![c].seen = wallets]
    <3>1. PICK r : r = [login[c] EXCEPT !.pc = "create", !.seen = {}]
      OBVIOUS
    <3>2. r \in LoginRun /\ r.pc = "create" /\ r.seen = {} /\ r.way = 1
      BY <2>0, <3>1 DEF LoginRun
    <3>3. r.dead = FALSE
      <4>1. r.dead = login[c].dead
        BY <2>0, <3>1 DEF LoginRun
      <4> QED
        BY <2>0, <4>1, LoginAt, Zenon
    <3>4. RunFits(r)' /\ DeadFits(r)'
      BY <3>2, <3>3 DEF RunFits, DeadFits
    <3>5. Moves(c, r)
      BY <2>2, <3>1 DEF Moves, LoginInv, RunsShape
    <3> QED
      BY <2>0, <3>2, <3>4, <3>5, LoginBegins
  <2>3. ASSUME NEW w \in wallets, login' = [login EXCEPT ![c].pc = "save", ![c].with = w]
        PROVE  RunsShape' /\ SentShape' /\ DeadIsDead'
    <3>1. PICK r : r = [login[c] EXCEPT !.pc = "save", !.with = w]
      OBVIOUS
    <3>2. r \in LoginRun /\ r.pc = "save" /\ r.with = w /\ r.seen = {} /\ r.way = 1
      BY <2>0, <3>1 DEF LoginRun
    <3>3. r.dead = FALSE
      <4>1. r.dead = login[c].dead
        BY <2>0, <3>1 DEF LoginRun
      <4> QED
        BY <2>0, <4>1, LoginAt, Zenon
    <3>4. RunFits(r)' /\ DeadFits(r)'
      BY <3>2, <3>3, <2>3 DEF RunFits, DeadFits
    <3>5. Moves(c, r)
      BY <2>3, <3>1 DEF Moves, LoginInv, RunsShape
    <3> QED
      BY <2>0, <3>2, <3>4, <3>5, LoginBegins
  <2> QED
    BY <2>1, <2>2, <2>3
<1> QED
  BY <1>1, <1>2, <1>3, <1>4 DEF LoginInv

\* Unless another login may have made one, a wallet that is made is the first.
LEMMA CreateWalletKeeps == ASSUME LoginInv, NEW c \in Login!Calls, Login!CreateWallet(c) PROVE LoginInv'
<1> USE LoginConstants DEF Login!CreateWallet, Login!At, Login!mail, Login!code, Login!tokens, Login!money, Login!Fault
<1>1. LoginFlags'
  BY Zenon DEF LoginInv, LoginFlags
<1>2. LoginShape' /\ CodesOnce' /\ GuessesCounted'
  <2>1. loginFaults' \in 0..LoginFaults /\ wallets' \subseteq Login!Calls
    BY DEF LoginInv, LoginShape
  <2>2. LoginShape'
    BY <2>1 DEF LoginInv, LoginShape
  <2> QED
    BY <2>2, GuessesStay DEF LoginInv, CodesOnce
<1>3. OneWallet'
  <2>1. ~blind' => ~blind /\ \A d \in Login!Calls \ {c} : d \notin wallets \ login[c].seen
    OBVIOUS
  <2>2. login[c].seen = {} /\ wallets \subseteq Login!Calls
    BY LoginAt DEF LoginInv, LoginShape
  <2>3. ~blind' => wallets' = {c}
    BY <2>1, <2>2
  <2> QED
    BY <2>3 DEF LoginInv, OneWallet
<1>4. RunsShape' /\ SentShape' /\ DeadIsDead'
  <2>0. "save" \in Login!Labels /\ login[c].pc = "create" /\ issued \in Nat /\ c \in 0..Logins
        /\ login[c] \in LoginRun /\ login[c].seen = {} /\ login[c].way = 1
    BY LoginCalls, LoginAt DEF Login!Labels, LoginInv, LoginShape
  <2>1. CASE Login!Leave(c)
    BY <2>0, <2>1, LoginEnds DEF Login!Leave, Moves, LoginDone
  <2>2. CASE login' = [login EXCEPT ![c].pc = "save", ![c].with = c]
    <3>1. PICK r : r = [login[c] EXCEPT !.pc = "save", !.with = c]
      OBVIOUS
    <3>2. r \in LoginRun /\ r.pc = "save" /\ r.with = c /\ r.seen = {} /\ r.way = 1
      BY <2>0, <3>1 DEF LoginRun
    <3>3. r.dead = FALSE
      <4>1. r.dead = login[c].dead
        BY <2>0, <3>1 DEF LoginRun
      <4> QED
        BY <2>0, <4>1, LoginAt, Zenon
    <3>4. RunFits(r)' /\ DeadFits(r)'
      BY <3>2, <3>3 DEF RunFits, DeadFits
    <3>5. Moves(c, r)
      BY <2>2, <3>1 DEF Moves, LoginInv, RunsShape
    <3> QED
      BY <2>0, <3>2, <3>4, <3>5, LoginBegins
  <2> QED
    BY <2>1, <2>2
<1> QED
  BY <1>1, <1>2, <1>3, <1>4 DEF LoginInv

\* A login stores its wallet and its session.
LEMMA SaveMapKeeps == ASSUME LoginInv, NEW c \in Login!Calls, Login!SaveMap(c) PROVE LoginInv'
<1> USE LoginConstants DEF Login!SaveMap, Login!At, Login!mail, Login!code, Login!tokens, Login!money, Login!Session
<1>1. LoginFlags'
  BY Zenon DEF LoginInv, LoginFlags
<1>2. login[c].with \in wallets /\ login[c].with \in 0..Logins
  BY LoginAt DEF LoginInv, RunsShape, RunFits
<1>3. PICK w : w = login[c].with
  OBVIOUS
<1>4. session \in [Login!Calls -> 0..Logins] /\ session' = [session EXCEPT ![c] = w] /\ map' = w
  BY <1>3 DEF LoginInv, LoginShape
<1>5. session' \in [Login!Calls -> 0..Logins]
      /\ \A d \in Login!Calls : session'[d] = session[d] \/ session'[d] = w
  BY <1>2, <1>3, <1>4
<1>6. LoginShape' /\ CodesOnce' /\ GuessesCounted'
  <2>1. LoginShape'
    BY <1>2, <1>3, <1>4, <1>5 DEF LoginInv, LoginShape
  <2> QED
    BY <2>1, GuessesStay DEF LoginInv, CodesOnce
<1>7. OneWallet'
  BY <1>2, <1>3, <1>4, <1>5 DEF LoginInv, OneWallet
<1>8. RunsShape' /\ SentShape' /\ DeadIsDead'
  BY LoginEnds DEF Login!Leave, Moves, LoginDone
<1> QED
  BY <1>1, <1>6, <1>7, <1>8 DEF LoginInv

\* The same for a call that asks for a session and stays dead if it was.
LEMMA LoginActs ==
    ASSUME LoginInv, NEW c \in Login!Calls, NEW l \in {"bind", "send"}, Login!Goto(c, l),
           login[c].pc \in {"check", "bind"}, l = "send" => login[c].dead = FALSE,
           l = "bind" => (login[c].dead => login[c].with \in expired'),
           UNCHANGED <<sent, lost, issued>>, wallets \subseteq wallets',
           revoked \cup expired \subseteq revoked' \cup expired', expired \subseteq expired'
    PROVE  RunsShape' /\ SentShape' /\ DeadIsDead'
<1>1. PICK s \in LoginRun : s = login[c]
  BY LoginAt
<1>2. PICK r : r = [s EXCEPT !.pc = l]
  OBVIOUS
<1>3. r \in LoginRun /\ r.pc = l /\ r.seen = s.seen /\ r.way = s.way /\ r.with = s.with
  <2>1. l \in Login!Labels
    BY DEF Login!Labels
  <2> QED
    BY <1>2, <2>1, LoginGoto
<1>4. r.dead = s.dead /\ s.dead \in BOOLEAN
  <2>1. l \in Login!Labels
    BY DEF Login!Labels
  <2> QED
    BY <1>2, <2>1, LoginGoto DEF LoginRun
<1>5. s.seen = {} /\ s.way = 1 /\ issued \in Nat
  BY <1>1, LoginAt
<1>6. Moves(c, r)
  BY <1>1, <1>2 DEF Moves, Login!Goto, LoginInv, RunsShape
<1>7. RunFits(r)'
  <2>1. s.with \in Login!Calls
    BY <1>1 DEF LoginInv, RunsShape, RunFits
  <2> QED
    BY <1>3, <1>5, <2>1 DEF RunFits
<1>8. DeadFits(r)'
  <2>1. CASE l = "send"
    <3>1. ~r.dead
      BY <1>1, <1>4, <2>1, Zenon
    <3> QED
      BY <3>1 DEF DeadFits
  <2>2. CASE l = "bind"
    <3>1. r.dead => r.with \in expired'
      BY <1>1, <1>3, <1>4, <2>2, Zenon
    <3> QED
      BY <1>3, <2>2, <3>1 DEF DeadFits
  <2> QED
    BY <2>1, <2>2
<1>9. RunsShape' /\ DeadIsDead'
  BY <1>5, <1>6, <1>7, <1>8, RunsMove, DeadMove DEF LoginInv
<1>10. SentShape'
  <2>1. sent[c] = 0 /\ lost[c] = 0 /\ login[c].way = 1
    BY DEF LoginInv, SentShape
  <2>2. login'[c] = r /\ \A d \in Login!Calls : d # c => login'[d] = login[d]
    BY <1>6, MoveEffect DEF LoginInv
  <2> QED
    BY <1>3, <1>5, <2>1, <2>2, LoginConstants DEF LoginInv, SentShape
<1> QED
  BY <1>9, <1>10

\* A session is revoked by whoever holds its token.
LEMMA RevokeKeeps == ASSUME LoginInv, NEW c \in Login!Calls, Login!Revoke(c) PROVE LoginInv'
<1> USE LoginConstants DEF Login!Revoke, Login!At, Login!mail, Login!code, Login!wallet, Login!money
<1>1. LoginFlags'
  BY Zenon DEF LoginInv, LoginFlags
<1>2. login[c].with \in 0..Logins
  BY LoginAt
<1>3. LoginShape' /\ CodesOnce' /\ OneWallet' /\ GuessesCounted'
  <2>1. login[c].with \in Login!Calls
    BY DEF LoginInv, RunsShape, RunFits
  <2>2. LoginShape'
    BY <1>2, <2>1 DEF LoginInv, LoginShape
  <2> QED
    BY <2>2, GuessesStay DEF LoginInv, CodesOnce, OneWallet
<1>4. RunsShape' /\ SentShape' /\ DeadIsDead'
  BY LoginEnds DEF Login!Leave, Moves, LoginDone
<1> QED
  BY <1>1, <1>3, <1>4 DEF LoginInv

\* The row of an expired session may go: its date refuses it.
LEMMA CheckSessionKeeps == ASSUME LoginInv, NEW c \in Login!Calls, Login!CheckSession(c) PROVE LoginInv'
<1> USE LoginConstants DEF Login!CheckSession, Login!At, Login!mail, Login!code, Login!wallet, Login!money
<1>1. LoginFlags'
  BY Zenon DEF LoginInv, LoginFlags
<1>2. revoked' \subseteq revoked /\ revoked \cup expired \subseteq revoked' \cup expired'
  OBVIOUS
<1>3. LoginShape' /\ CodesOnce' /\ OneWallet' /\ GuessesCounted'
  <2>1. LoginShape'
    BY <1>2 DEF LoginInv, LoginShape
  <2> QED
    BY <2>1, GuessesStay DEF LoginInv, CodesOnce, OneWallet
<1>4. RunsShape' /\ SentShape' /\ DeadIsDead'
  <2>1. CASE login[c].with \in revoked \ expired
    BY <1>2, <2>1, LoginEnds DEF Login!Leave, Moves, LoginDone
  <2>2. CASE login[c].with \notin revoked \ expired
    <3>1. login[c].dead => login[c].with \in expired'
      BY <2>2 DEF LoginInv, DeadIsDead, DeadFits
    <3> QED
      BY <1>2, <2>2, <3>1, LoginActs
  <2> QED
    BY <2>1, <2>2
<1> QED
  BY <1>1, <1>3, <1>4 DEF LoginInv

\* A session that has not run out binds the map to its wallet.
LEMMA BindWalletKeeps == ASSUME LoginInv, NEW c \in Login!Calls, Login!BindWallet(c) PROVE LoginInv'
<1> USE LoginConstants DEF Login!BindWallet, Login!At, Login!mail, Login!code, Login!tokens, Login!money, Login!Current
<1>1. LoginFlags'
  BY Zenon DEF LoginInv, LoginFlags
<1>2. map' \in 0..Logins /\ (map' # 0 => map' \in wallets)
  <2>1. login[c].with \in Login!Calls
    BY DEF LoginInv, RunsShape, RunFits
  <2>2. session[login[c].with] \in 0..Logins
    BY <2>1 DEF LoginInv, LoginShape
  <2> QED
    BY <2>1, <2>2 DEF LoginInv, LoginShape, OneWallet
<1>3. LoginShape' /\ CodesOnce' /\ OneWallet' /\ GuessesCounted'
  <2>1. LoginShape'
    BY <1>2 DEF LoginInv, LoginShape
  <2> QED
    BY <1>2, <2>1, GuessesStay DEF LoginInv, CodesOnce, OneWallet
<1>4. RunsShape' /\ SentShape' /\ DeadIsDead'
  <2>1. CASE login[c].with \in expired
    BY <2>1, LoginEnds DEF Login!Leave, Moves, LoginDone
  <2>2. CASE login[c].with \notin expired
    <3>1. ~login[c].dead
      BY <2>2 DEF LoginInv, DeadIsDead, DeadFits
    <3>2. login[c].dead = FALSE
      <4>1. PICK s \in LoginRun : s = login[c]
        BY LoginAt
      <4>2. s.dead \in BOOLEAN
        BY <4>1 DEF LoginRun
      <4> QED
        BY <3>1, <4>1, <4>2, Zenon
    <3> QED
      BY <2>2, <3>2, LoginActs
  <2> QED
    BY <2>1, <2>2
<1> QED
  BY <1>1, <1>3, <1>4 DEF LoginInv

\* A transfer is sent once more only when its answer was lost.
LEMMA SendKeeps == ASSUME LoginInv, NEW c \in Login!Calls, Login!Send(c) PROVE LoginInv'
<1> USE LoginConstants DEF Login!Send, Login!At, Login!mail, Login!code, Login!wallet, Login!tokens
<1>1. LoginFlags'
  BY Zenon DEF LoginInv, LoginFlags
<1>2. LoginShape' /\ CodesOnce' /\ OneWallet' /\ GuessesCounted'
  <2>1. loginFaults' = loginFaults \/ (loginFaults < LoginFaults /\ loginFaults' = loginFaults + 1)
    BY Zenon DEF Login!Fault
  <2>2. loginFaults' \in 0..LoginFaults
    BY <2>1 DEF LoginInv, LoginShape
  <2>3. LoginShape'
    BY <2>2 DEF LoginInv, LoginShape
  <2> QED
    BY <2>3, GuessesStay DEF LoginInv, CodesOnce, OneWallet
<1>3. PICK accepted \in BOOLEAN, replied \in BOOLEAN :
        Login!Sends(c, accepted, replied) /\ (replied => accepted)
  BY Zenon
<1>4. PICK s \in LoginRun : s = login[c]
  BY LoginAt
<1>5. s.pc = "send" /\ s.seen = {} /\ s.way \in 1..Strategies /\ s.with \in Login!Calls /\ issued \in Nat
  <2>1. s.pc = "send" /\ s.seen = {} /\ issued \in Nat
    BY <1>4, LoginAt
  <2>2. s.with \in Login!Calls
    BY <1>4, <2>1 DEF LoginInv, RunsShape, RunFits
  <2>3. s.way \in 1..(Strategies + 1) /\ s.way <= Strategies
    BY <1>4, <2>1 DEF LoginInv, SentShape, LoginRun
  <2> QED
    BY <2>1, <2>2, <2>3
<1>6. s.dead = FALSE
  BY <1>4, <1>5, LoginAt
<1>7. PICK r : r = IF Login!NextWay(c, replied) THEN [s EXCEPT !.way = @ + 1] ELSE [s EXCEPT !.pc = "done", !.seen = {}]
  OBVIOUS
<1>8. Moves(c, r)
  BY <1>3, <1>4, <1>7 DEF Login!Sends, Moves, LoginInv, RunsShape
<1>9. r \in LoginRun /\ r.seen = {} /\ r.with = s.with
  <2>1. "done" \in Login!Labels
    BY DEF Login!Labels
  <2>2. CASE Login!NextWay(c, replied)
    <3>1. s.way + 1 \in 1..(Strategies + 1) /\ r = [s EXCEPT !.way = s.way + 1]
      BY <1>5, <1>7, <2>2
    <3> QED
      BY <1>5, <3>1 DEF LoginRun
  <2>3. CASE ~Login!NextWay(c, replied)
    <3>1. r = [s EXCEPT !.pc = "done", !.seen = {}]
      BY <1>7, <2>3
    <3> QED
      BY <1>5, <2>1, <3>1 DEF LoginRun
  <2> QED
    BY <2>2, <2>3
<1>10. r.dead = FALSE
  <2>1. r.dead = s.dead
    BY <1>7 DEF LoginRun
  <2> QED
    BY <1>6, <2>1, Zenon
<1>11. CASE Login!NextWay(c, replied)
  <2>1. r.pc = "send" /\ r.way = s.way + 1 /\ r.way <= Strategies /\ ~replied
    BY <1>4, <1>5, <1>7, <1>11 DEF Login!NextWay, LoginRun
  <2>2. sent[c] = lost[c] /\ sent[c] < s.way /\ sent[c] \in 0..Strategies
    BY <1>4, <1>5 DEF LoginInv, SentShape
  <2> DEFINE n == IF accepted THEN sent[c] + 1 ELSE sent[c]
  <2>3. sent' = [sent EXCEPT ![c] = n] /\ lost' = [lost EXCEPT ![c] = n]
    <3>1. sent = [sent EXCEPT ![c] = sent[c]] /\ lost = [lost EXCEPT ![c] = sent[c]]
      BY <2>2 DEF LoginInv, SentShape
    <3>2. CASE accepted
      BY <1>3, <2>1, <2>2, <3>2 DEF Login!Sends, LoginInv, SentShape
    <3>3. CASE ~accepted
      BY <1>3, <2>1, <3>1, <3>3 DEF Login!Sends
    <3> QED
      BY <3>2, <3>3
  <2>4. n \in 0..Strategies /\ n < r.way
    BY <1>5, <2>1, <2>2
  <2>5. SentShape'
    <3>1. sent' \in [Login!Calls -> 0..Strategies] /\ lost' \in [Login!Calls -> 0..Strategies]
      BY <2>3, <2>4 DEF LoginInv, SentShape
    <3>2. login'[c] = r /\ sent'[c] = n /\ lost'[c] = n
      BY <1>8, <2>3, MoveEffect DEF LoginInv, SentShape
    <3>3. \A d \in Login!Calls : d # c => login'[d] = login[d] /\ sent'[d] = sent[d] /\ lost'[d] = lost[d]
      BY <1>8, <2>3, MoveEffect DEF LoginInv, SentShape
    <3> HIDE DEF n
    <3> QED
      BY <2>1, <2>4, <3>1, <3>2, <3>3 DEF LoginInv, SentShape
  <2>6. RunFits(r)' /\ DeadFits(r)'
    BY <1>5, <1>9, <1>10, <2>1 DEF RunFits, DeadFits
  <2>7. RunsShape' /\ DeadIsDead'
    BY <1>5, <1>8, <2>6, RunsMove, DeadMove DEF LoginInv
  <2> QED
    BY <1>1, <1>2, <2>5, <2>7 DEF LoginInv
<1>12. CASE ~Login!NextWay(c, replied)
  <2>1. r.pc = "done"
    BY <1>7, <1>12 DEF LoginRun
  <2>2. sent[c] = lost[c] /\ sent[c] < s.way /\ sent[c] \in 0..Strategies
    BY <1>4, <1>5 DEF LoginInv, SentShape
  <2> DEFINE n == IF accepted THEN sent[c] + 1 ELSE sent[c]
             m == IF accepted /\ ~replied THEN sent[c] + 1 ELSE sent[c]
  <2>3. sent' = [sent EXCEPT ![c] = n] /\ lost' = [lost EXCEPT ![c] = m]
    <3>1. sent = [sent EXCEPT ![c] = sent[c]] /\ lost = [lost EXCEPT ![c] = sent[c]]
      BY <2>2 DEF LoginInv, SentShape
    <3>2. sent' = [sent EXCEPT ![c] = n]
      BY <1>3, <2>2, <3>1 DEF Login!Sends, LoginInv, SentShape
    <3>3. lost' = [lost EXCEPT ![c] = m]
      BY <1>3, <2>2, <3>1 DEF Login!Sends, LoginInv, SentShape
    <3> QED
      BY <3>2, <3>3
  <2>4. n \in 0..Strategies /\ m \in 0..Strategies /\ m <= n /\ n <= m + 1
    BY <1>5, <2>2
  <2>5. SentShape'
    <3>1. sent' \in [Login!Calls -> 0..Strategies] /\ lost' \in [Login!Calls -> 0..Strategies]
      BY <2>3, <2>4 DEF LoginInv, SentShape
    <3>2. login'[c] = r /\ sent'[c] = n /\ lost'[c] = m
      BY <1>8, <2>3, MoveEffect DEF LoginInv, SentShape
    <3>3. \A d \in Login!Calls : d # c => login'[d] = login[d] /\ sent'[d] = sent[d] /\ lost'[d] = lost[d]
      BY <1>8, <2>3, MoveEffect DEF LoginInv, SentShape
    <3> HIDE DEF n, m
    <3> QED
      BY <2>1, <2>4, <3>1, <3>2, <3>3 DEF LoginInv, SentShape
  <2>6. RunFits(r)' /\ DeadFits(r)'
    BY <1>5, <1>9, <1>10, <2>1 DEF RunFits, DeadFits
  <2>7. RunsShape' /\ DeadIsDead'
    BY <1>5, <1>8, <2>6, RunsMove, DeadMove DEF LoginInv
  <2> QED
    BY <1>1, <1>2, <2>5, <2>7 DEF LoginInv
<1> QED
  BY <1>11, <1>12

\* The machine starts in the invariant.
LEMMA LoginInvInit == Login!Init => LoginInv
<1> SUFFICES ASSUME Login!Init PROVE LoginInv
  OBVIOUS
<1> USE LoginConstants DEF Login!Init, Login!Nothing
<1>1. LoginFlags
  BY DEF LoginFlags
<1>2. LoginShape /\ CodesOnce /\ OneWallet
  BY LoginCalls DEF LoginShape, CodesOnce, OneWallet
<1>3. GuessesCounted
  <2>1. 0 \in Nat /\ 0 = MaxAttempts * resets
    OBVIOUS
  <2> QED
    BY <2>1 DEF GuessesCounted
<1>4. RunsShape
  <2>1. \A c \in Login!Calls : login[c] = Login!Idle
    OBVIOUS
  <2>2. Login!Idle.pc = "none"
    BY DEF Login!Idle
  <2> QED
    BY <2>1, <2>2, LoginIdle DEF RunsShape, RunFits
<1>5. SentShape /\ DeadIsDead
  <2>1. \A c \in Login!Calls : login[c] = Login!Idle
    OBVIOUS
  <2>2. Login!Idle.pc = "none" /\ Login!Idle.dead = FALSE /\ Login!Idle.way = 1
    BY DEF Login!Idle
  <2>3. DeadFits(Login!Idle)
    BY <2>2 DEF DeadFits
  <2> QED
    BY <2>1, <2>2, <2>3 DEF SentShape, DeadIsDead
<1> QED
  BY <1>1, <1>2, <1>3, <1>4, <1>5 DEF LoginInv

\* Every step of the machine keeps it.
LEMMA LoginInvStep == LoginInv /\ [Login!Next]_loginVars => LoginInv'
<1> SUFFICES ASSUME LoginInv, [Login!Next]_loginVars PROVE LoginInv'
  OBVIOUS
<1>1. CASE UNCHANGED loginVars
  <2>1. LoginFlags'
    BY <1>1, Zenon DEF loginVars, LoginInv, LoginFlags
  <2>2. LoginShape' /\ CodesOnce' /\ OneWallet'
    BY <1>1 DEF loginVars, LoginInv, LoginShape, CodesOnce, OneWallet
  <2>3. RunsShape' /\ SentShape' /\ DeadIsDead'
    BY <1>1 DEF loginVars, LoginInv, RunsShape, RunFits, SentShape, DeadIsDead, DeadFits
  <2>4. GuessesCounted'
    BY <1>1, GuessesStay DEF loginVars, LoginInv
  <2> QED
    BY <2>1, <2>2, <2>3, <2>4 DEF LoginInv
<1>2. CASE Login!Request \/ Login!WindowEnds
  BY <1>2, RequestKeeps, WindowEndsKeeps
<1>3. CASE Login!LoseMap \/ (\E i \in 1..Codes : Login!ExpireCode(i)) \/ \E c \in Login!Calls : Login!ExpireSession(c)
  BY <1>3, LosesKeep
<1>4. ASSUME NEW c \in Login!Calls, Login!Begin(c) PROVE LoginInv'
  BY <1>4, VerifyTokenKeeps, VerifyFileKeeps, UseKeeps DEF Login!Begin
<1>5. ASSUME NEW c \in Login!Calls, Login!Step(c) PROVE LoginInv'
  BY <1>5, ConsumeKeeps, ClearKeeps, ReadMapKeeps, ListWalletsKeeps, CreateWalletKeeps, SaveMapKeeps,
     RevokeKeeps,
     CheckSessionKeeps, BindWalletKeeps, SendKeeps DEF Login!Step
<1> QED
  BY <1>1, <1>2, <1>3, <1>4, <1>5 DEF Login!Next

\* A set whose members are equal has one at most.
LEMMA AtMostOne ==
    ASSUME NEW S, \A v, w \in S : v = w PROVE Login!Cardinality(S) <= 1
<1>1. S = {} => Cardinality(S) = 0
  BY FS_EmptySet
<1>2. ASSUME NEW w \in S PROVE Cardinality(S) = 1
  <2>1. S = {w}
    OBVIOUS
  <2> QED
    BY <2>1, FS_Singleton
<1>3. Login!Cardinality(S) = Cardinality(S)
  BY DEF Login!Cardinality, Cardinality
<1>4. Cardinality(S) \in {0, 1}
  BY <1>1, <1>2
<1> QED
  BY <1>3, <1>4

\* The invariant gives what the machine promises.
LEMMA LoginInvIsSafe ==
    LoginInv => /\ Login!TypeOK /\ Login!CodeWorksOnce /\ Login!GuessesAreBounded
                /\ Login!OneWalletPerEmail /\ Login!LoggedOutActsNoMore /\ Login!OneTransferPerRequest
<1> SUFFICES ASSUME LoginInv
             PROVE  /\ Login!TypeOK /\ Login!CodeWorksOnce /\ Login!GuessesAreBounded
                    /\ Login!OneWalletPerEmail /\ Login!LoggedOutActsNoMore /\ Login!OneTransferPerRequest
  OBVIOUS
<1> USE LoginConstants
<1>1. Login!TypeOK
  <2>1. issued \in Nat /\ issued <= Codes /\ live \subseteq 1..Codes /\ file \in 0..Codes
    BY DEF LoginInv, LoginShape
  <2>2. login \in [Login!Calls -> LoginRun]
    BY DEF LoginInv, RunsShape, RunFits
  <2>3. LoginRun \subseteq [pc : Login!Labels, code : 0..Codes, with : 0..Logins, way : 1..(Strategies + 1),
                            dead : BOOLEAN, seen : SUBSET Login!Calls]
    BY DEF LoginRun
  <2>4. login \in [Login!Calls -> [pc : Login!Labels, code : 0..Codes, with : 0..Logins, way : 1..(Strategies + 1),
                            dead : BOOLEAN, seen : SUBSET Login!Calls]]
    BY <2>2 DEF LoginRun
  <2>5. \A c \in Login!Calls : sent[c] \in 0..Strategies /\ lost[c] \in 0..sent[c]
    BY DEF LoginInv, SentShape
  <2>6. logins \in [1..Codes -> [token : Nat, file : Nat]]
    BY DEF LoginInv, CodesOnce
  <2>7. blind \in BOOLEAN
    BY DEF LoginInv, LoginFlags
  <2>8. asked \in 0..(MaxRequests + 1) /\ issued \in 0..Codes /\ guesses \in 0..(MaxAttempts + 1) /\ used \subseteq 1..Codes
        /\ tries \in 0..MaxAttempts /\ map \in 0..Logins /\ wallets \subseteq Login!Calls
        /\ session \in [Login!Calls -> 0..Logins] /\ revoked \subseteq Login!Calls /\ expired \subseteq Login!Calls
        /\ compared \in Nat /\ resets \in Nat /\ loginFaults \in 0..LoginFaults
    BY DEF LoginInv, LoginShape
  <2> QED
    BY <2>1, <2>4, <2>5, <2>6, <2>7, <2>8, Zenon DEF Login!TypeOK
<1>2. Login!CodeWorksOnce
  BY DEF LoginInv, CodesOnce, Login!CodeWorksOnce
<1>3. Login!GuessesAreBounded
  <2>1. PICK n \in Nat : n = MaxAttempts * resets /\ compared <= n + MaxAttempts
    BY DEF LoginInv, GuessesCounted
  <2>2. MaxAttempts * (resets + 1) = n + MaxAttempts
    BY <2>1 DEF LoginInv, LoginShape
  <2> QED
    BY <2>1, <2>2 DEF Login!GuessesAreBounded
<1>4. Login!OneWalletPerEmail
  <2>1. ASSUME ~blind PROVE Login!Cardinality(wallets) <= 1
    BY <2>1, AtMostOne DEF LoginInv, OneWallet
  <2>2. ASSUME ~blind, NEW w \in wallets PROVE wallets = {w}
    BY <2>2 DEF LoginInv, OneWallet
  <2> QED
    BY <2>1, <2>2 DEF LoginInv, OneWallet, Login!OneWalletPerEmail, Login!Nothing
<1>5. Login!LoggedOutActsNoMore
  BY DEF LoginInv, DeadIsDead, DeadFits, SentShape, Login!LoggedOutActsNoMore
<1>6. Login!OneTransferPerRequest
  BY DEF LoginInv, SentShape, Login!OneTransferPerRequest
<1> QED
  BY <1>1, <1>2, <1>3, <1>4, <1>5, <1>6

---------------------------------------------------------------------------
(* The wallets with keys of the API's own (ServerWallet). *)

KeyRecord == [n : 0..MaxKeys, readable : BOOLEAN, opaque : BOOLEAN]
KeyToken == [email : Emails, key : 0..MaxKeys, provider : {"circle", "local", "opaque"}]
KeyLabels == {"none", "circle", "execute", "session", "key", "kit", "node", "done"}
KeyCall == [pc : KeyLabels, kind : Keys!Kinds, token : Keys!Tokens, email : Emails \cup {"none"}, dead : BOOLEAN]

KeyFlags == circle \in BOOLEAN /\ strict \in BOOLEAN /\ wiped \in BOOLEAN

\* A token of Circle names no key of the file; those not signed name the first.
TokenFits(t) ==
    /\ t \in KeyToken /\ (t.provider = "circle" => t.key = 0) /\ (t.provider = "opaque" => t.key = 1)

KeyShape ==
    /\ custody \subseteq Emails /\ keyFile \in [Emails -> KeyRecord] /\ made \in [Emails -> 0..MaxKeys]
    /\ (\A t \in tokens : TokenFits(t)) /\ ended \subseteq tokens /\ keyFaults \in 0..KeyFaults

\* A record without a signed token is of the first key.
OpaqueFits(f) == f.opaque => f.n = 1
OpaqueFirst == \A e \in Emails : OpaqueFits(keyFile[e])

FirstKey == \A e \in Emails : made[e] <= 1 /\ keyFile[e].n = made[e]
KeptFirst == ~wiped => FirstKey

\* A request that is about to sign found the wallet its token names.
RequestFits(r) ==
    /\ r \in KeyCall
    /\ r.pc # "none" => r.token \in tokens /\ r.email \in Emails
    /\ r.pc = "execute" => r.kind = "write" /\ r.token.provider = "circle" /\ r.token.email = r.email
    /\ r.pc = "kit" => r.kind = "transfer"
    /\ r.pc \in {"kit", "node"} =>
         r.token.email = r.email /\ r.token.key # 0 /\ r.token.key = keyFile[r.email].n

\* A request that is sent once at most.
Once(r) == r.kind = "write" \/ strict

\* What the requests sent: one that goes on has had no answer.
OutShape ==
    /\ out \in [Keys!Calls -> 0..2] /\ unanswered \in [Keys!Calls -> 0..2]
    /\ from = [c \in Keys!Calls |-> from[c]]

OutFits(c, r) ==
    /\ unanswered[c] <= out[c] /\ out[c] <= 1 + unanswered[c]
    /\ from[c] \subseteq {<<r.token.email, r.token.key>>}
    /\ r.pc = "none" => from[c] = {}
    /\ r.pc \notin {"node", "done"} => out[c] = 0 /\ unanswered[c] = 0
    /\ r.pc = "node" => out[c] = unanswered[c] /\ out[c] <= 1 /\ (Once(r) => out[c] = 0)
    /\ Once(r) => out[c] <= 1

\* A request whose token was revoked before it does not come to a wallet.
EndedFits(c, r) ==
    r.dead => r.token \in ended /\ r.pc \notin {"execute", "key", "kit", "node"} /\ out[c] = 0

RequestsShape ==
    /\ keyCall = [c \in Keys!Calls |-> keyCall[c]]
    /\ \A c \in Keys!Calls : RequestFits(keyCall[c]) /\ OutFits(c, keyCall[c])

EndedSend == \A c \in Keys!Calls : EndedFits(c, keyCall[c])

KeysInv == KeyFlags /\ KeyShape /\ OpaqueFirst /\ KeptFirst /\ OutShape /\ RequestsShape /\ EndedSend

\* The constants of the wallets.
LEMMA KeyConstants ==
    /\ Old \subseteq Emails /\ MaxKeys \in Nat \ {0} /\ Orders \in Nat /\ MaxLogouts \in Nat /\ KeyFaults \in Nat
BY RequestsAssumption DEF Keys!ServerWalletAssumption

\* A request that only goes on to another place.
LEMMA KeyGoto ==
    ASSUME NEW r \in KeyCall, NEW l \in KeyLabels, NEW q, q = [r EXCEPT !.pc = l]
    PROVE  /\ q \in KeyCall /\ q.pc = l /\ q.kind = r.kind /\ q.token = r.token /\ q.email = r.email
           /\ q.dead = r.dead
BY DEF KeyCall

\* What a request is.
LEMMA KeyAt ==
    ASSUME KeysInv, NEW c \in Keys!Calls
    PROVE  /\ keyCall[c] \in KeyCall /\ RequestFits(keyCall[c]) /\ OutFits(c, keyCall[c])
           /\ EndedFits(c, keyCall[c]) /\ out[c] \in 0..2 /\ unanswered[c] \in 0..2
BY DEF KeysInv, RequestsShape, RequestFits, EndedSend, OutShape

\* A request moves to r, and nothing of the others changes.
LEMMA KeyMove ==
    ASSUME KeysInv, NEW c \in Keys!Calls, NEW r, keyCall' = [keyCall EXCEPT ![c] = r],
           RequestFits(r)', OutFits(c, r)', EndedFits(c, r)',
           \A d \in Keys!Calls : d # c => out'[d] = out[d] /\ unanswered'[d] = unanswered[d] /\ from'[d] = from[d],
           UNCHANGED <<keyFile, tokens, ended, strict>>
    PROVE  RequestsShape' /\ EndedSend'
<1>1. keyCall' = [d \in Keys!Calls |-> keyCall'[d]] /\ keyCall'[c] = r
      /\ \A d \in Keys!Calls : d # c => keyCall'[d] = keyCall[d]
  BY DEF KeysInv, RequestsShape
<1>2. ASSUME NEW d \in Keys!Calls
      PROVE  RequestFits(keyCall[d])' /\ OutFits(d, keyCall[d])' /\ EndedFits(d, keyCall[d])'
  <2>1. CASE d = c
    BY <1>1, <2>1 DEF RequestFits, OutFits, EndedFits
  <2>2. CASE d # c
    <3>1. keyCall'[d] = keyCall[d] /\ out'[d] = out[d] /\ unanswered'[d] = unanswered[d]
          /\ from'[d] = from[d]
      BY <1>1, <2>2
    <3>2. RequestFits(keyCall[d])'
      BY <3>1, KeyAt DEF RequestFits
    <3>3. OutFits(d, keyCall[d])'
      BY <3>1, KeyAt DEF OutFits, Once
    <3>4. EndedFits(d, keyCall[d])'
      BY <3>1, KeyAt DEF EndedFits
    <3> QED
      BY <3>2, <3>3, <3>4
  <2> QED
    BY <2>1, <2>2
<1> QED
  BY <1>1, <1>2 DEF RequestsShape, EndedSend

\* A request goes on without having sent anything.
LEMMA KeyGoes ==
    ASSUME KeysInv, NEW c \in Keys!Calls, NEW l \in KeyLabels \ {"none", "circle"}, Keys!Goto(c, l),
           keyCall[c].pc \notin {"none", "node", "done"},
           UNCHANGED <<out, unanswered, from, keyFile, tokens, ended, strict>>,
           l = "execute" => keyCall[c].kind = "write" /\ keyCall[c].token.provider = "circle"
                            /\ keyCall[c].token.email = keyCall[c].email,
           l = "kit" => keyCall[c].kind = "transfer",
           l \in {"kit", "node"} => keyCall[c].token.email = keyCall[c].email /\ keyCall[c].token.key # 0
                                    /\ keyCall[c].token.key = keyFile[keyCall[c].email].n,
           l \in {"execute", "key", "kit", "node"} =>
             keyCall[c].token \notin ended \/ keyCall[c].pc \in {"execute", "key", "kit", "node"}
    PROVE  RequestsShape' /\ EndedSend'
<1>1. PICK r \in KeyCall : r = keyCall[c]
  BY KeyAt
<1>2. PICK q : q = [r EXCEPT !.pc = l]
  OBVIOUS
<1>3. q \in KeyCall /\ q.pc = l /\ q.kind = r.kind /\ q.token = r.token /\ q.email = r.email
  BY <1>2, KeyGoto
<1>4. q.dead = r.dead
  BY <1>2, KeyGoto
<1>5. keyCall' = [keyCall EXCEPT ![c] = q]
  BY <1>1, <1>2 DEF Keys!Goto, KeysInv, RequestsShape
<1>6. RequestFits(q)'
  BY <1>1, <1>3, KeyAt DEF RequestFits
<1>7. OutFits(c, q)'
  <2>1. out[c] = 0 /\ unanswered[c] = 0 /\ from[c] \subseteq {<<r.token.email, r.token.key>>}
    BY <1>1, KeyAt DEF OutFits
  <2> QED
    BY <1>3, <2>1 DEF OutFits
<1>8. EndedFits(c, q)'
  <2>1. r.dead => r.token \in ended /\ r.pc \notin {"execute", "key", "kit", "node"} /\ out[c] = 0
    BY <1>1, KeyAt DEF EndedFits
  <2>2. r.dead => l \notin {"execute", "key", "kit", "node"} /\ out'[c] = 0 /\ r.token \in ended'
    BY <1>1, <2>1
  <2>3. q.dead => q.pc \notin {"execute", "key", "kit", "node"} /\ out'[c] = 0 /\ q.token \in ended'
    BY <1>3, <1>4, <2>2, Zenon
  <2> QED
    BY <2>3 DEF EndedFits
<1> QED
  BY <1>5, <1>6, <1>7, <1>8, KeyMove

\* A message of a request reaches the chain or not, and is answered or not.
LEMMA SendEffect ==
    ASSUME OutShape, NEW c \in Keys!Calls, NEW w, NEW accepted \in BOOLEAN, NEW replied \in BOOLEAN,
           Keys!Send(c, w, accepted, replied), replied => accepted
    PROVE  /\ \A d \in Keys!Calls : d # c => out'[d] = out[d] /\ unanswered'[d] = unanswered[d] /\ from'[d] = from[d]
           /\ out' = [d \in Keys!Calls |-> out'[d]] /\ unanswered' = [d \in Keys!Calls |-> unanswered'[d]]
           /\ from' = [d \in Keys!Calls |-> from'[d]] /\ from'[c] \subseteq from[c] \cup {w}
           /\ \/ out'[c] = out[c] /\ unanswered'[c] = unanswered[c] /\ ~replied
              \/ out'[c] = out[c] + 1 /\ unanswered'[c] = unanswered[c] /\ replied
              \/ out'[c] = out[c] + 1 /\ unanswered'[c] = unanswered[c] + 1 /\ ~replied
<1> USE DEF OutShape, Keys!Send, Keys!effects
<1>1. CASE accepted /\ replied
  BY <1>1
<1>2. CASE accepted /\ ~replied
  BY <1>2
<1>3. CASE ~accepted
  BY <1>3
<1> QED
  BY <1>1, <1>2, <1>3

\* The same for a message that ends the request, or lets it try the next way.
LEMMA KeySends ==
    ASSUME KeysInv, NEW c \in Keys!Calls, NEW w, NEW l \in {"done", "node"}, Keys!Sends(c, w, "done", l),
           keyCall[c].pc \in {"execute", "kit", "node"}, w = <<keyCall[c].token.email, keyCall[c].token.key>>,
           l = "node" => keyCall[c].pc = "kit" /\ ~Once(keyCall[c]),
           UNCHANGED <<keyFile, tokens, ended, strict>>
    PROVE  OutShape' /\ RequestsShape' /\ EndedSend' /\ keyFaults' \in 0..KeyFaults
<1>1. PICK k \in {"done", "node"}, accepted \in BOOLEAN, replied \in BOOLEAN :
        /\ Keys!Send(c, w, accepted, replied) /\ (replied => accepted) /\ Keys!Goto(c, k)
        /\ k = "node" => ~replied /\ l = "node"
  <2>1. CASE Keys!Send(c, w, TRUE, TRUE) /\ Keys!Goto(c, "done")
    BY <2>1
  <2>2. ASSUME NEW accepted \in BOOLEAN, Keys!Send(c, w, accepted, FALSE), Keys!Goto(c, l)
        PROVE \E k \in {"done", "node"}, a \in BOOLEAN, replied \in BOOLEAN :
                /\ Keys!Send(c, w, a, replied) /\ (replied => a) /\ Keys!Goto(c, k)
                /\ k = "node" => ~replied /\ l = "node"
    BY <2>2
  <2> QED
    BY <2>1, <2>2 DEF Keys!Sends
<1>2. keyFaults' \in 0..KeyFaults
  <2>1. keyFaults' = keyFaults \/ (keyFaults < KeyFaults /\ keyFaults' = keyFaults + 1)
    BY Zenon DEF Keys!Sends, Keys!Fault
  <2> QED
    BY <2>1, KeyConstants DEF KeysInv, KeyShape
<1>3. PICK r \in KeyCall : r = keyCall[c]
  BY KeyAt
<1>4. PICK q : q = [r EXCEPT !.pc = k]
  OBVIOUS
<1>5. q \in KeyCall /\ q.pc = k /\ q.kind = r.kind /\ q.token = r.token /\ q.email = r.email
  BY <1>4, KeyGoto DEF KeyLabels
<1>6. q.dead = FALSE
  <2>1. q.dead = r.dead
    BY <1>4, KeyGoto DEF KeyLabels
  <2>2. ~r.dead /\ r.dead \in BOOLEAN
    BY <1>3, KeyAt DEF EndedFits, KeyCall
  <2> QED
    BY <2>1, <2>2, Zenon
<1>7. keyCall' = [keyCall EXCEPT ![c] = q]
  BY <1>1, <1>3, <1>4 DEF Keys!Goto, KeysInv, RequestsShape
<1>8. RequestFits(q)'
  BY <1>1, <1>3, <1>5, KeyAt DEF RequestFits
<1>9. /\ \A d \in Keys!Calls : d # c => out'[d] = out[d] /\ unanswered'[d] = unanswered[d] /\ from'[d] = from[d]
      /\ out' = [d \in Keys!Calls |-> out'[d]] /\ unanswered' = [d \in Keys!Calls |-> unanswered'[d]]
      /\ from' = [d \in Keys!Calls |-> from'[d]] /\ from'[c] \subseteq from[c] \cup {w}
      /\ \/ out'[c] = out[c] /\ unanswered'[c] = unanswered[c] /\ ~replied
         \/ out'[c] = out[c] + 1 /\ unanswered'[c] = unanswered[c] /\ replied
         \/ out'[c] = out[c] + 1 /\ unanswered'[c] = unanswered[c] + 1 /\ ~replied
  BY <1>1, SendEffect DEF KeysInv
<1>10. OutFits(c, r) /\ RequestFits(r) /\ out[c] \in 0..2 /\ unanswered[c] \in 0..2
  BY <1>3, KeyAt
<1>11. (Once(q)' <=> Once(r)) /\ (k = "node" => ~Once(r) /\ r.pc = "kit")
  BY <1>1, <1>3, <1>5 DEF Once
<1>12. out[c] = unanswered[c] /\ out[c] <= 1 /\ (Once(r) => out[c] = 0) /\ (r.pc = "kit" => out[c] = 0)
  BY <1>3, <1>10 DEF OutFits
<1>13. OutFits(c, q)' /\ out'[c] \in 0..2 /\ unanswered'[c] \in 0..2
  <2>1. out'[c] \in 0..2 /\ unanswered'[c] \in 0..2 /\ unanswered'[c] <= out'[c] /\ out'[c] <= 1 + unanswered'[c]
        /\ (k = "node" => out'[c] = unanswered'[c] /\ out'[c] <= 1) /\ (Once(r) => out'[c] <= 1)
    BY <1>1, <1>9, <1>10, <1>11, <1>12
  <2>2. from'[c] \subseteq {<<q.token.email, q.token.key>>}
    BY <1>3, <1>5, <1>9, <1>10 DEF OutFits
  <2> QED
    BY <1>5, <1>11, <2>1, <2>2 DEF OutFits
<1>14. EndedFits(c, q)'
  BY <1>6 DEF EndedFits
<1>15. OutShape'
  BY <1>9, <1>13 DEF KeysInv, OutShape
<1> QED
  BY <1>2, <1>7, <1>8, <1>9, <1>13, <1>14, <1>15, KeyMove

\* What stands for the requests stays where the file, the tokens and what was
\* sent stay.
LEMMA RestStays ==
    ASSUME KeysInv, UNCHANGED <<circle, strict, wiped, custody, keyFile, made, tokens, ended>>
    PROVE  KeyFlags' /\ OpaqueFirst' /\ KeptFirst' /\ (keyFaults' \in 0..KeyFaults => KeyShape')
<1>1. KeyFlags'
  BY Zenon DEF KeysInv, KeyFlags
<1> QED
  BY <1>1 DEF KeysInv, OpaqueFirst, KeptFirst, FirstKey, KeyShape

\* The steps of a request, but for those that send.
LEMMA RequestStepKeeps ==
    ASSUME KeysInv, NEW c \in Keys!Calls,
           Keys!CircleSession(c) \/ Keys!RecoveryFails(c) \/ Keys!Session(c) \/ Keys!UseKey(c)
    PROVE  KeysInv'
<1> USE DEF Keys!deploy, Keys!keys, Keys!effects, Keys!At, Keys!Loaded
<1>1. UNCHANGED <<circle, strict, wiped, custody, keyFile, made, tokens, ended, out, unanswered, from>>
  BY DEF Keys!CircleSession, Keys!RecoveryFails, Keys!Session, Keys!UseKey
<1>2. keyFaults' \in 0..KeyFaults
  <2>1. keyFaults' = keyFaults \/ (keyFaults < KeyFaults /\ keyFaults' = keyFaults + 1)
    BY DEF Keys!CircleSession, Keys!RecoveryFails, Keys!Session, Keys!UseKey, Keys!Fault
  <2> QED
    BY <2>1, KeyConstants DEF KeysInv, KeyShape
<1>3. KeyFlags' /\ OpaqueFirst' /\ KeptFirst' /\ KeyShape'
  BY <1>1, <1>2, RestStays
<1>4. OutShape'
  BY <1>1 DEF KeysInv, OutShape
<1>5. RequestFits(keyCall[c]) /\ keyCall[c].kind \in Keys!Kinds
  BY KeyAt DEF KeyCall
<1>6. RequestsShape' /\ EndedSend'
  <2>1. CASE Keys!CircleSession(c)
    <3> USE <2>1 DEF Keys!CircleSession
    <3>1. CASE Keys!CircleAccepts(c) /\ keyCall[c].kind = "write"
      BY <1>1, <3>1, KeyGoes DEF Keys!CircleAccepts, KeyLabels
    <3>2. CASE Keys!CircleAccepts(c) /\ keyCall[c].kind # "write"
      BY <1>1, <3>2, KeyGoes DEF KeyLabels
    <3>3. CASE ~Keys!CircleAccepts(c)
      <4>1. PICK l \in {"session", "done"} : Keys!Goto(c, l)
        BY <3>3
      <4> QED
        BY <1>1, <4>1, KeyGoes DEF KeyLabels
    <3> QED
      BY <3>1, <3>2, <3>3
  <2>2. CASE Keys!RecoveryFails(c)
    BY <1>1, <2>2, KeyGoes DEF Keys!RecoveryFails, KeyLabels
  <2>3. CASE Keys!Session(c)
    <3> USE <2>3 DEF Keys!Session
    <3>1. CASE keyCall[c].token \in ended
      BY <1>1, <3>1, KeyGoes DEF KeyLabels
    <3>2. CASE keyCall[c].token \notin ended
      BY <1>1, <3>2, KeyGoes DEF KeyLabels
    <3> QED
      BY <3>1, <3>2
  <2>4. CASE Keys!UseKey(c)
    <3> USE <2>4 DEF Keys!UseKey
    <3>1. CASE Keys!KeyFits(c)
      <4>1. keyCall[c].token \in tokens /\ keyCall[c].email \in Emails
        BY <1>5 DEF RequestFits
      <4>2. keyCall[c].token.provider = "opaque" => keyCall[c].token.key = 1
        BY <4>1 DEF KeysInv, KeyShape, TokenFits
      <4>3. keyFile[keyCall[c].email].opaque => keyFile[keyCall[c].email].n = 1
        BY <4>1 DEF KeysInv, OpaqueFirst, OpaqueFits
      <4>4. keyCall[c].token.email = keyCall[c].email /\ keyFile[keyCall[c].email].n # 0
            /\ keyCall[c].token.key = keyFile[keyCall[c].email].n
        BY <3>1, <4>2, <4>3, Zenon DEF Keys!KeyFits, Keys!Names
      <4>5. PICK l \in {"node", "kit", "done"} :
              Keys!Goto(c, l) /\ (l = "kit" => keyCall[c].kind # "write")
        BY Zenon
      <4>6. l = "kit" => keyCall[c].kind = "transfer"
        BY <1>5, <4>5 DEF Keys!Kinds
      <4> QED
        BY <1>1, <4>4, <4>5, <4>6, KeyGoes DEF KeyLabels
    <3>2. CASE ~Keys!KeyFits(c)
      BY <1>1, <3>2, KeyGoes DEF KeyLabels
    <3> QED
      BY <3>1, <3>2
  <2> QED
    BY <2>1, <2>2, <2>3, <2>4
<1> QED
  BY <1>3, <1>4, <1>6 DEF KeysInv

\* The steps of a request that send.
LEMMA RequestSendKeeps ==
    ASSUME KeysInv, NEW c \in Keys!Calls, Keys!Execute(c) \/ Keys!Kit(c) \/ Keys!Node(c)
    PROVE  KeysInv'
<1> USE DEF Keys!deploy, Keys!keys, Keys!At
<1>1. UNCHANGED <<circle, strict, wiped, custody, keyFile, made, tokens, ended>>
  BY Zenon DEF Keys!Execute, Keys!Kit, Keys!Node
<1>2. RequestFits(keyCall[c])
  BY KeyAt
<1>3. OutShape' /\ RequestsShape' /\ EndedSend' /\ keyFaults' \in 0..KeyFaults
  <2>1. CASE Keys!Execute(c)
    <3> USE <2>1 DEF Keys!Execute
    <3>1. keyCall[c].pc = "execute" /\ keyCall[c].token.provider = "circle" /\ keyCall[c].token.email = keyCall[c].email
          /\ keyCall[c].token \in tokens
      BY <1>2 DEF RequestFits
    <3>2. keyCall[c].token.key = 0
      BY <3>1 DEF KeysInv, KeyShape, TokenFits
    <3>3. Keys!Sends(c, <<keyCall[c].email, 0>>, "done", "done")
      BY <3>1 DEF Keys!NotFound, Keys!AtCircle
    <3> QED
      BY <1>1, <3>1, <3>2, <3>3, KeySends
  <2>2. CASE Keys!Kit(c)
    <3> USE <2>2 DEF Keys!Kit
    <3>1. keyCall[c].pc = "kit" /\ keyCall[c].kind = "transfer" /\ keyCall[c].token.email = keyCall[c].email
          /\ keyCall[c].token.key = keyFile[keyCall[c].email].n
      BY <1>2 DEF RequestFits
    <3>2. PICK l \in {"done", "node"} : l = Keys!FallsBack /\ (l = "node" => ~strict)
      BY Zenon DEF Keys!FallsBack
    <3>3. l = "node" => ~Once(keyCall[c])
      BY <3>1, <3>2 DEF Once
    <3>4. Keys!Sends(c, <<keyCall[c].token.email, keyCall[c].token.key>>, "done", l)
      BY <3>1, <3>2 DEF Keys!Signer
    <3> QED
      BY <1>1, <3>1, <3>3, <3>4, KeySends
  <2>3. CASE Keys!Node(c)
    <3> USE <2>3 DEF Keys!Node
    <3>1. keyCall[c].pc = "node" /\ keyCall[c].token.email = keyCall[c].email
          /\ keyCall[c].token.key = keyFile[keyCall[c].email].n
      BY <1>2 DEF RequestFits
    <3>2. Keys!Sends(c, <<keyCall[c].token.email, keyCall[c].token.key>>, "done", "done")
      BY <3>1 DEF Keys!Signer
    <3> QED
      BY <1>1, <3>1, <3>2, KeySends
  <2> QED
    BY <2>1, <2>2, <2>3
<1>4. KeyFlags' /\ OpaqueFirst' /\ KeptFirst' /\ KeyShape'
  BY <1>1, <1>3, RestStays
<1> QED
  BY <1>3, <1>4 DEF KeysInv

\* A request begins, and knows whether its token was revoked before.
LEMMA RequestBeginKeeps ==
    ASSUME KeysInv, NEW c \in Keys!Calls, NEW k \in Keys!Kinds, NEW t \in tokens,
           NEW e \in Emails, Keys!Begin(c, k, t, e)
    PROVE  KeysInv'
<1> USE DEF Keys!deploy, Keys!keys, Keys!At, Keys!effects, Keys!Begin
<1>1. UNCHANGED <<circle, strict, wiped, custody, keyFile, made, tokens, ended, out, unanswered, from>>
  OBVIOUS
<1>2. keyFaults' \in 0..KeyFaults
  BY DEF KeysInv, KeyShape
<1>3. KeyFlags' /\ OpaqueFirst' /\ KeptFirst' /\ KeyShape'
  BY <1>1, <1>2, RestStays
<1>4. OutShape'
  BY <1>1 DEF KeysInv, OutShape
<1>5. PICK l \in {"done", "circle", "session"} :
        keyCall' = [keyCall EXCEPT ![c] = [pc |-> l, kind |-> k, token |-> t, email |-> e, dead |-> t \in ended]]
  BY Zenon
<1>6. PICK b \in BOOLEAN : b = (t \in ended)
  <2>1. (t \in ended) \in BOOLEAN
    OBVIOUS
  <2> QED
    BY <2>1, Zenon
<1>7. PICK r : r = [pc |-> l, kind |-> k, token |-> t, email |-> e, dead |-> b]
  OBVIOUS
<1>8. r \in KeyCall /\ r.pc = l /\ r.kind = k /\ r.token = t /\ r.email = e
  <2>1. t \in Keys!Tokens
    BY DEF KeysInv, KeyShape, TokenFits, KeyToken, Keys!Tokens
  <2> QED
    BY <1>7, <2>1 DEF KeyCall, KeyLabels
<1>9. r.dead = b
  BY <1>7
<1>10. keyCall' = [keyCall EXCEPT ![c] = r]
  BY <1>5, <1>6, <1>7
<1>11. RequestFits(r)'
  BY <1>1, <1>8 DEF RequestFits
<1>12. out[c] = 0 /\ unanswered[c] = 0 /\ from[c] = {}
  BY KeyAt DEF OutFits
<1>13. OutFits(c, r)'
  BY <1>1, <1>8, <1>12 DEF OutFits
<1>14. EndedFits(c, r)'
  <2>1. r.dead => t \in ended'
    BY <1>1, <1>6, <1>9
  <2> QED
    BY <1>1, <1>8, <1>12, <2>1 DEF EndedFits
<1>15. RequestsShape' /\ EndedSend'
  BY <1>1, <1>10, <1>11, <1>13, <1>14, KeyMove
<1> QED
  BY <1>3, <1>4, <1>15 DEF KeysInv

\* A deployment ends the requests under way.
LEMMA KilledFits ==
    ASSUME KeysInv, keyCall' = Keys!Killed, UNCHANGED <<out, unanswered, from, tokens, ended, strict>>
    PROVE  RequestsShape' /\ EndedSend'
<1>1. keyCall' = [c \in Keys!Calls |-> keyCall'[c]]
  BY DEF Keys!Killed
<1>2. ASSUME NEW c \in Keys!Calls
      PROVE  RequestFits(keyCall[c])' /\ OutFits(c, keyCall[c])' /\ EndedFits(c, keyCall[c])'
  <2>1. PICK r \in KeyCall : r = keyCall[c]
    BY KeyAt
  <2>2. PICK q : q = IF r.pc = "none" THEN r ELSE [r EXCEPT !.pc = "done"]
    OBVIOUS
  <2>3. keyCall'[c] = q
    BY <2>1, <2>2 DEF Keys!Killed
  <2>4. q \in KeyCall /\ q.pc \in {"none", "done"} /\ q.kind = r.kind /\ q.token = r.token /\ q.email = r.email
        /\ (q.pc = "none" <=> r.pc = "none")
    BY <2>2, KeyGoto DEF KeyLabels
  <2>5. q.dead = r.dead
    BY <2>2, KeyGoto DEF KeyLabels
  <2>6. RequestFits(r) /\ OutFits(c, r) /\ EndedFits(c, r) /\ out[c] \in 0..2 /\ unanswered[c] \in 0..2
    BY <2>1, KeyAt
  <2>7. RequestFits(q)'
    BY <2>4, <2>6 DEF RequestFits
  <2>8. OutFits(c, q)'
    BY <2>4, <2>6 DEF OutFits, Once
  <2>9. EndedFits(c, q)'
    <3>1. q.dead => r.token \in ended' /\ out'[c] = 0
      BY <2>5, <2>6 DEF EndedFits
    <3> QED
      BY <2>4, <3>1 DEF EndedFits
  <2> QED
    BY <2>3, <2>7, <2>8, <2>9
<1> QED
  BY <1>1, <1>2 DEF RequestsShape, EndedSend

\* Circle is configured, the encryption key is rotated, or the disk is lost.
LEMMA DeployKeeps ==
    ASSUME KeysInv, Keys!ConfigureCircle \/ Keys!RotateKey \/ Keys!LoseDisk PROVE KeysInv'
<1> USE DEF Keys!deploy, Keys!keys, Keys!effects, Keys!ConfigureCircle, Keys!RotateKey, Keys!LoseDisk
<1>1. KeyFlags'
  <2>1. CASE Keys!ConfigureCircle
    BY <2>1, Zenon DEF KeysInv, KeyFlags
  <2>2. CASE Keys!RotateKey
    BY <2>2, Zenon DEF KeysInv, KeyFlags
  <2>3. CASE Keys!LoseDisk
    BY <2>3, Zenon DEF KeysInv, KeyFlags
  <2> QED
    BY <2>1, <2>2, <2>3
<1>2. UNCHANGED <<custody, made, tokens, ended, out, unanswered, from, strict>> /\ keyCall' = Keys!Killed
  BY Zenon
<1>3. keyFaults' \in 0..KeyFaults
  <2>1. keyFaults' = keyFaults \/ (keyFaults < KeyFaults /\ keyFaults' = keyFaults + 1)
    BY Zenon DEF Keys!Fault
  <2> QED
    BY <2>1, KeyConstants DEF KeysInv, KeyShape
<1>4. RequestsShape' /\ EndedSend'
  BY <1>2, KilledFits
<1>5. OutShape'
  BY <1>2 DEF KeysInv, OutShape
<1>6. /\ keyFile' \in [Emails -> KeyRecord] /\ OpaqueFirst'
      /\ wiped' \/ (wiped' = wiped /\ \A e \in Emails : keyFile'[e].n = keyFile[e].n)
  <2>1. CASE Keys!ConfigureCircle
    BY <2>1, Zenon DEF KeysInv, KeyShape, OpaqueFirst
  <2>2. CASE Keys!RotateKey
    <3>1. ASSUME NEW e \in Emails
          PROVE  keyFile'[e] \in KeyRecord /\ OpaqueFits(keyFile'[e]) /\ keyFile'[e].n = keyFile[e].n
      <4>1. PICK f \in KeyRecord : f = keyFile[e] /\ OpaqueFits(f)
        BY DEF KeysInv, KeyShape, OpaqueFirst
      <4>2. PICK g : g = IF f.n = 0 THEN f ELSE [f EXCEPT !.readable = FALSE]
        OBVIOUS
      <4>3. keyFile'[e] = g
        BY <2>2, <4>1, <4>2
      <4>4. g \in KeyRecord /\ g.n = f.n
        BY <4>2 DEF KeyRecord
      <4>5. g.opaque = f.opaque
        BY <4>2 DEF KeyRecord
      <4>6. OpaqueFits(g)
        BY <4>1, <4>4, <4>5, Zenon DEF OpaqueFits
      <4> QED
        BY <4>1, <4>3, <4>4, <4>6
    <3>2. keyFile' = [e \in Emails |-> keyFile'[e]] /\ wiped' = wiped
      BY <2>2
    <3> QED
      BY <3>1, <3>2 DEF OpaqueFirst
  <2>3. CASE Keys!LoseDisk
    <3>1. Keys!NoKey \in KeyRecord /\ Keys!NoKey.opaque = FALSE
      BY KeyConstants DEF Keys!NoKey, KeyRecord
    <3>2. OpaqueFits(Keys!NoKey)
      BY <3>1 DEF OpaqueFits
    <3>3. wiped'
      BY <2>3, Zenon
    <3>4. keyFile' = [e \in Emails |-> Keys!NoKey]
      BY <2>3
    <3> QED
      BY <3>1, <3>2, <3>3, <3>4 DEF OpaqueFirst
  <2> QED
    BY <2>1, <2>2, <2>3
<1>7. KeyShape'
  BY <1>2, <1>3, <1>6 DEF KeysInv, KeyShape
<1>8. KeptFirst'
  BY <1>2, <1>6 DEF KeysInv, KeptFirst, FirstKey
<1> QED
  BY <1>1, <1>4, <1>5, <1>6, <1>7, <1>8 DEF KeysInv

\* A login makes a key only where the file has none.
LEMMA KeyLoginKeeps == ASSUME KeysInv, NEW e \in Emails, Keys!Login(e) PROVE KeysInv'
<1> USE DEF Keys!deploy, Keys!effects, Keys!Login, Keys!Loaded
<1>1. KeyFlags'
  BY Zenon DEF KeysInv, KeyFlags
<1>2. UNCHANGED <<ended, out, unanswered, from, strict, keyCall, keyFaults, wiped>>
  OBVIOUS
<1>3. keyFile \in [Emails -> KeyRecord] /\ made \in [Emails -> 0..MaxKeys] /\ keyFile[e].n \in 0..MaxKeys
      /\ custody \subseteq Emails /\ \A t \in tokens : TokenFits(t)
  BY DEF KeysInv, KeyShape, KeyRecord
<1>4. /\ keyFile' \in [Emails -> KeyRecord] /\ made' \in [Emails -> 0..MaxKeys]
      /\ custody' \subseteq Emails
      /\ (\A t \in tokens' : TokenFits(t)) /\ tokens \subseteq tokens' /\ OpaqueFirst' /\ (FirstKey => FirstKey')
      /\ \A d \in Emails : keyFile[d].n # 0 => keyFile'[d].n = keyFile[d].n
  <2>1. CASE circle
    <3>1. custody' = custody \cup {e} /\ tokens' = tokens \cup {Keys!Token(e, 0, "circle")}
          /\ keyFile' = keyFile /\ made' = made
      BY <2>1, Zenon DEF Keys!AtCircle
    <3>2. TokenFits(Keys!Token(e, 0, "circle"))
      BY KeyConstants DEF TokenFits, Keys!Token, KeyToken
    <3> QED
      BY <1>3, <3>1, <3>2 DEF KeysInv, OpaqueFirst, FirstKey
  <2>2. CASE ~circle /\ keyFile[e].n # 0
    <3>1. custody' = custody /\ tokens' = tokens \cup {Keys!Token(e, keyFile[e].n, "local")}
          /\ keyFile' = keyFile /\ made' = made
      BY <2>2
    <3>2. TokenFits(Keys!Token(e, keyFile[e].n, "local"))
      BY <1>3 DEF TokenFits, Keys!Token, KeyToken
    <3> QED
      BY <1>3, <3>1, <3>2 DEF KeysInv, OpaqueFirst, FirstKey
  <2>3. CASE ~circle /\ keyFile[e].n = 0
    <3>1. custody' = custody /\ made[e] < MaxKeys /\ made' = [made EXCEPT ![e] = made[e] + 1]
          /\ tokens' = tokens \cup {Keys!Token(e, keyFile'[e].n, "local")}
          /\ keyFile' = [keyFile EXCEPT ![e] = [Keys!NoKey EXCEPT !.n = made[e] + 1]]
      BY <2>3, <1>3
    <3>2. PICK f : f = [Keys!NoKey EXCEPT !.n = made[e] + 1]
      OBVIOUS
    <3>3. made[e] \in 0..MaxKeys /\ made[e] + 1 \in 0..MaxKeys
      BY <1>3, <3>1, KeyConstants
    <3>4. f \in KeyRecord /\ f.n = made[e] + 1
      BY <3>2, <3>3 DEF KeyRecord, Keys!NoKey
    <3>5. f.opaque = FALSE
      BY <3>2 DEF Keys!NoKey
    <3>6. OpaqueFits(f)
      BY <3>5, Zenon DEF OpaqueFits
    <3>7. keyFile'[e] = f /\ \A d \in Emails : d # e => keyFile'[d] = keyFile[d]
      BY <1>3, <3>1, <3>2
    <3>8. keyFile' \in [Emails -> KeyRecord] /\ made' \in [Emails -> 0..MaxKeys]
      BY <1>3, <3>1, <3>2, <3>3, <3>4
    <3>9. TokenFits(Keys!Token(e, keyFile'[e].n, "local"))
      BY <3>3, <3>4, <3>7 DEF TokenFits, Keys!Token, KeyToken
    <3>10. OpaqueFirst'
      BY <3>6, <3>7 DEF KeysInv, OpaqueFirst
    <3>11. FirstKey => FirstKey'
      <4>1. SUFFICES ASSUME FirstKey, NEW d \in Emails PROVE made'[d] <= 1 /\ keyFile'[d].n = made'[d]
        BY Zenon DEF FirstKey
      <4>2. CASE d = e
        BY <2>3, <1>3, <3>1, <3>3, <3>4, <3>7, <4>1, <4>2 DEF FirstKey
      <4>3. CASE d # e
        BY <1>3, <3>1, <3>7, <4>1, <4>3 DEF FirstKey
      <4> QED
        BY <4>2, <4>3
    <3> QED
      BY <1>3, <2>3, <3>1, <3>7, <3>8, <3>9, <3>10, <3>11
  <2> QED
    BY <2>1, <2>2, <2>3
<1>5. KeyShape'
  BY <1>2, <1>4 DEF KeysInv, KeyShape
<1>6. KeptFirst'
  BY <1>2, <1>4 DEF KeysInv, KeptFirst
<1>7. OutShape'
  BY <1>2 DEF KeysInv, OutShape
<1>8. RequestsShape'
  <2>1. ASSUME NEW c \in Keys!Calls PROVE RequestFits(keyCall[c])' /\ OutFits(c, keyCall[c])'
    <3>1. RequestFits(keyCall[c])'
      BY <1>2, <1>4, KeyAt DEF RequestFits
    <3>2. OutFits(c, keyCall[c])'
      BY <1>2, KeyAt DEF OutFits, Once
    <3> QED
      BY <3>1, <3>2
  <2> QED
    BY <1>2, <2>1 DEF KeysInv, RequestsShape
<1>9. EndedSend'
  BY <1>2 DEF KeysInv, EndedSend, EndedFits
<1> QED
  BY <1>1, <1>4, <1>5, <1>6, <1>7, <1>8, <1>9 DEF KeysInv

\* A token is revoked.
LEMMA KeyLogoutKeeps == ASSUME KeysInv, NEW t \in tokens, Keys!Logout(t) PROVE KeysInv'
<1> USE DEF Keys!deploy, Keys!effects, Keys!Logout
<1>1. UNCHANGED <<circle, custody, keyFile, made, tokens, out, unanswered, from, strict, keyCall, keyFaults, wiped>>
      /\ ended' = ended \cup {t}
  OBVIOUS
<1>2. KeyFlags'
  BY Zenon DEF KeysInv, KeyFlags
<1>3. KeyShape' /\ OpaqueFirst' /\ KeptFirst' /\ OutShape'
  BY <1>1 DEF KeysInv, KeyShape, OpaqueFirst, KeptFirst, FirstKey, OutShape
<1>4. RequestsShape' /\ EndedSend'
  BY <1>1 DEF KeysInv, RequestsShape, RequestFits, OutFits, Once, EndedSend, EndedFits
<1> QED
  BY <1>2, <1>3, <1>4 DEF KeysInv

\* The wallets start in the invariant.
LEMMA KeysInvInit == Keys!Init => KeysInv
<1> SUFFICES ASSUME Keys!Init PROVE KeysInv
  OBVIOUS
<1> USE KeyConstants DEF Keys!Init
<1>1. KeyFlags
  BY Zenon DEF KeyFlags
<1>2. PICK f : f = [Keys!NoKey EXCEPT !.n = 1, !.opaque = TRUE]
  OBVIOUS
<1>3. f \in KeyRecord /\ f.n = 1 /\ Keys!NoKey \in KeyRecord /\ Keys!NoKey.n = 0
  <2>1. Keys!NoKey \in KeyRecord /\ Keys!NoKey.n = 0
    BY DEF Keys!NoKey, KeyRecord
  <2>2. PICK g \in KeyRecord : g = Keys!NoKey
    BY <2>1
  <2>3. f = [g EXCEPT !.n = 1, !.opaque = TRUE] /\ 1 \in 0..MaxKeys
    BY <1>2, <2>2
  <2>4. f \in KeyRecord /\ f.n = 1
    BY <2>3 DEF KeyRecord
  <2> QED
    BY <2>1, <2>4
<1>4. Keys!NoKey.opaque = FALSE
  BY DEF Keys!NoKey
<1>5. keyFile = [e \in Emails |-> IF e \in Old THEN f ELSE Keys!NoKey]
  BY <1>2
<1>6. keyFile \in [Emails -> KeyRecord]
  BY <1>3, <1>5
<1>7. OpaqueFirst
  <2>1. OpaqueFits(f) /\ OpaqueFits(Keys!NoKey)
    BY <1>3, <1>4 DEF OpaqueFits
  <2> QED
    BY <1>5, <2>1 DEF OpaqueFirst
<1>8. KeyShape
  <2>1. \A t \in tokens : TokenFits(t)
    <3>1. ASSUME NEW e \in Old PROVE TokenFits(Keys!Token(e, 1, "opaque"))
      BY DEF TokenFits, Keys!Token, KeyToken
    <3> QED
      BY <3>1
  <2> QED
    BY <1>6, <2>1 DEF KeyShape
<1>9. KeptFirst
  <2>1. FirstKey
    BY <1>3, <1>5 DEF FirstKey
  <2> QED
    BY <2>1 DEF KeptFirst
<1>10. OutShape
  BY DEF OutShape
<1>11. RequestsShape /\ EndedSend
  <2>1. PICK r : r = Keys!Idle
    OBVIOUS
  <2>2. r \in KeyCall /\ r.pc = "none"
    BY <2>1 DEF Keys!Idle, KeyCall, KeyLabels, Keys!Kinds, Keys!Tokens
  <2>3. r.dead = FALSE
    BY <2>1 DEF Keys!Idle
  <2>4. ASSUME NEW c \in Keys!Calls
        PROVE  keyCall[c] = r /\ out[c] = 0 /\ unanswered[c] = 0 /\ from[c] = {}
    BY <2>1
  <2>5. ASSUME NEW c \in Keys!Calls PROVE RequestFits(r) /\ OutFits(c, r) /\ EndedFits(c, r)
    BY <2>2, <2>3, <2>4 DEF RequestFits, OutFits, EndedFits
  <2> QED
    BY <2>4, <2>5 DEF RequestsShape, EndedSend
<1> QED
  BY <1>1, <1>7, <1>8, <1>9, <1>10, <1>11 DEF KeysInv

\* Every step of the wallets keeps it.
LEMMA KeysInvStep == KeysInv /\ [Keys!Next]_keyVars => KeysInv'
<1> SUFFICES ASSUME KeysInv, [Keys!Next]_keyVars PROVE KeysInv'
  OBVIOUS
<1>1. CASE UNCHANGED keyVars
  <2>1. KeyFlags'
    BY <1>1, Zenon DEF keyVars, KeysInv, KeyFlags
  <2>2. KeyShape' /\ OpaqueFirst' /\ KeptFirst' /\ OutShape'
    BY <1>1 DEF keyVars, KeysInv, KeyShape, OpaqueFirst, KeptFirst, FirstKey, OutShape
  <2>3. RequestsShape' /\ EndedSend'
    BY <1>1 DEF keyVars, KeysInv, RequestsShape, RequestFits, OutFits, Once, EndedSend, EndedFits
  <2> QED
    BY <2>1, <2>2, <2>3 DEF KeysInv
<1>2. ASSUME NEW c \in Keys!Calls, Keys!Step(c) PROVE KeysInv'
  BY <1>2, RequestStepKeeps, RequestSendKeeps DEF Keys!Step
<1> QED
  BY <1>1, <1>2, KeyLoginKeeps, KeyLogoutKeeps, DeployKeeps, RequestBeginKeeps
     DEF Keys!Next, Keys!Requested

\* The invariant gives what the wallets promise.
LEMMA KeysInvIsSafe ==
    KeysInv => /\ Keys!TypeOK /\ Keys!TokenNamesTheSigner /\ Keys!LoggedOutSendsNothing
               /\ Keys!FirstKeyIsKept /\ Keys!OneSendPerRequest
<1> SUFFICES ASSUME KeysInv
             PROVE  /\ Keys!TypeOK /\ Keys!TokenNamesTheSigner /\ Keys!LoggedOutSendsNothing
                    /\ Keys!FirstKeyIsKept /\ Keys!OneSendPerRequest
  OBVIOUS
<1> USE KeyConstants
<1>1. Keys!TypeOK
  <2>1. {circle, strict, wiped} \subseteq BOOLEAN
    BY Zenon DEF KeysInv, KeyFlags
  <2>2. custody \subseteq Emails /\ made \in [Emails -> 0..MaxKeys] /\ ended \subseteq tokens /\ keyFaults \in 0..KeyFaults
        /\ keyFile \in [Emails -> [n : 0..MaxKeys, readable : BOOLEAN, opaque : BOOLEAN]]
    BY DEF KeysInv, KeyShape, KeyRecord
  <2>3. tokens \subseteq Keys!Tokens
    BY DEF KeysInv, KeyShape, TokenFits, KeyToken, Keys!Tokens
  <2>4. ASSUME NEW c \in Keys!Calls
        PROVE  /\ keyCall[c].pc \in {"none", "circle", "execute", "session", "key", "kit", "node", "done"}
               /\ keyCall[c].kind \in Keys!Kinds /\ keyCall[c].token \in Keys!Tokens
               /\ out[c] \in 0..3 /\ unanswered[c] \in 0..out[c] /\ from[c] \subseteq Emails \X (0..MaxKeys)
    <3>1. /\ keyCall[c].pc \in {"none", "circle", "execute", "session", "key", "kit", "node", "done"}
          /\ keyCall[c].kind \in Keys!Kinds /\ keyCall[c].token \in Keys!Tokens
      BY KeyAt DEF KeyCall, KeyLabels
    <3>2. out[c] \in 0..2 /\ unanswered[c] \in 0..2 /\ unanswered[c] <= out[c]
      BY KeyAt DEF OutFits
    <3>3. from[c] \subseteq Emails \X (0..MaxKeys)
      <4>1. CASE keyCall[c].pc = "none"
        BY <4>1, KeyAt DEF OutFits
      <4>2. CASE keyCall[c].pc # "none"
        <5>1. keyCall[c].token \in KeyToken
          BY <4>2, KeyAt DEF RequestFits, KeysInv, KeyShape, TokenFits
        <5>2. from[c] \subseteq {<<keyCall[c].token.email, keyCall[c].token.key>>}
          BY KeyAt DEF OutFits
        <5> QED
          BY <5>1, <5>2 DEF KeyToken
      <4> QED
        BY <4>1, <4>2
    <3> QED
      BY <3>1, <3>2, <3>3
  <2> QED
    BY <2>1, <2>2, <2>3, <2>4, Zenon DEF Keys!TypeOK
<1>2. Keys!TokenNamesTheSigner
  BY KeyAt DEF OutFits, Keys!TokenNamesTheSigner
<1>3. Keys!LoggedOutSendsNothing
  BY KeyAt DEF EndedFits, Keys!LoggedOutSendsNothing
<1>4. Keys!FirstKeyIsKept
  BY Zenon DEF KeysInv, KeptFirst, FirstKey, Keys!FirstKeyIsKept
<1>5. Keys!OneSendPerRequest
  BY KeyAt DEF OutFits, Once, Keys!OneSendPerRequest
<1> QED
  BY <1>1, <1>2, <1>3, <1>4, <1>5

---------------------------------------------------------------------------
(* The live feed (LiveFeed). *)

\* A history goes forward in time and has nothing of the future.
Ascends(s) ==
    /\ s \in Seq(Nat) /\ \A i \in 1..Len(s) : s[i] <= feedTime
    /\ \A i, j \in 1..Len(s) : i < j => s[i] < s[j]

\* A reading was at most Lag old when it came, which was no sooner than it was
\* asked for.
CacheFits(r) == r \in [at : 0..feedTime, when : 0..(feedTime + Life)] /\ r.when <= r.at + Lag + Life
GoodFits(r) == r \in [at : 0..feedTime, when : 0..feedTime]
TickFits(t) == t \in [at : 0..feedTime, when : 0..feedTime] /\ t.when - t.at < Life + Lag

FeedShape ==
    /\ feedTime \in 0..MaxTime /\ answered \in [Feed!Kinds -> -1..feedTime]
    /\ restarts \in 0..MaxRestarts
    /\ feedCache = Feed!Nothing \/ CacheFits(feedCache)
    /\ good = Feed!Nothing \/ GoodFits(good)
    /\ feedTick = Feed!Nothing \/ TickFits(feedTick)

FeedFlags == hydrated \in BOOLEAN

Histories == Ascends(series) /\ Ascends(stored)

FeedLabels == {"idle", "wait", "hydrate", "ask", "upstream"}
Loads(r) == r.pc \in {"hydrate", "ask", "upstream"}

\* The load under way of a kind is the one visitor's of that kind that loads;
\* who waits waits for it.
FeedCalls ==
    /\ feedCall \in [Feed!Calls -> [pc : FeedLabels, began : 0..feedTime]]
    /\ loading \in [Feed!Kinds -> Feed!Visitors \cup {"nobody"}]
    /\ \A v \in Feed!Visitors : Loads(feedCall[v]) <=> loading[Feed!Kind(v)] = v
    /\ \A v \in Feed!Visitors : feedCall[v].pc = "wait" => loading[Feed!Kind(v)] # "nobody"
    /\ \A k \in Feed!Kinds : loading[k] # "nobody" => Feed!Kind(loading[k]) = k

FeedInv == FeedShape /\ FeedFlags /\ Histories /\ FeedCalls

\* The constants of the feed.
LEMMA FeedConstants ==
    /\ Lag \in Nat /\ Life \in Nat \ {0} /\ StaleMax \in Nat /\ TickMax \in Nat /\ Fresh \in Nat
    /\ MaxTime \in Nat /\ MaxRestarts \in Nat
    /\ Feed!Visitors \cap FeedWorkers = {} /\ "nobody" \notin Feed!Visitors \cup FeedWorkers
    /\ Feed!Calls = Feed!Visitors \cup FeedWorkers
    /\ \A c : Feed!Kind(c) \in Feed!Kinds
BY RequestsAssumption DEF Feed!LiveFeedAssumption, Feed!Calls, Feed!Kind, Feed!Kinds

\* A later reading at the end of a history keeps it in order.
LEMMA PushAscends ==
    ASSUME NEW s, Ascends(s), NEW at \in 0..feedTime, feedTime \in Nat PROVE Ascends(Feed!Pushed(s, at))
<1>1. CASE s # <<>> /\ at <= s[Len(s)]
  BY <1>1 DEF Feed!Pushed
<1>2. CASE s = <<>> \/ at > s[Len(s)]
  <2>1. PICK z : z = Append(s, at)
    OBVIOUS
  <2>2. Feed!Pushed(s, at) = z
    <3>1. CASE s = <<>>
      BY <2>1, <3>1 DEF Feed!Pushed
    <3>2. CASE s # <<>>
      <4>1. s[Len(s)] \in Nat
        BY <3>2 DEF Ascends
      <4> QED
        BY <1>2, <2>1, <3>2, <4>1 DEF Feed!Pushed
    <3> QED
      BY <3>1, <3>2
  <2>3. z \in Seq(Nat) /\ Len(z) = Len(s) + 1 /\ z[Len(s) + 1] = at /\ \A i \in 1..Len(s) : z[i] = s[i]
    BY <2>1 DEF Ascends
  <2>4. \A i \in 1..Len(s) : s[i] \in Nat /\ s[i] <= feedTime /\ s[i] < at
    <3>1. SUFFICES ASSUME NEW i \in 1..Len(s) PROVE s[i] \in Nat /\ s[i] <= feedTime /\ s[i] < at
      OBVIOUS
    <3>2. s # <<>> /\ Len(s) \in 1..Len(s)
      BY DEF Ascends
    <3>3. s[i] \in Nat /\ s[Len(s)] \in Nat /\ s[i] <= feedTime /\ at > s[Len(s)]
      BY <1>2, <3>2 DEF Ascends
    <3>4. i = Len(s) \/ s[i] < s[Len(s)]
      BY <3>2 DEF Ascends
    <3> QED
      BY <3>3, <3>4, SMTT(40)
  <2>5. \A i \in 1..Len(z) : z[i] <= feedTime
    BY <2>3, <2>4 DEF Ascends
  <2>6. ASSUME NEW i \in 1..Len(z), NEW j \in 1..Len(z), i < j PROVE z[i] < z[j]
    <3>1. i \in 1..Len(s) /\ Len(s) \in Nat
      BY <2>3, <2>6 DEF Ascends
    <3>2. CASE j \in 1..Len(s)
      BY <2>3, <2>6, <3>1, <3>2 DEF Ascends
    <3>3. CASE j = Len(s) + 1
      BY <2>3, <2>4, <3>1, <3>3
    <3> QED
      BY <2>3, <3>1, <3>2, <3>3
  <2> QED
    BY <2>2, <2>3, <2>5, <2>6 DEF Ascends
<1> QED
  <2>1. s # <<>> => s[Len(s)] \in Nat
    BY DEF Ascends
  <2> QED
    BY <1>1, <1>2, <2>1

\* A call that goes on, in a place where it loads if it did.
LEMMA FeedMoves ==
    ASSUME FeedCalls, NEW c \in Feed!Calls, NEW r \in [pc : FeedLabels, began : 0..feedTime],
           feedCall' = [feedCall EXCEPT ![c] = r], UNCHANGED <<feedTime, loading>>,
           c \in Feed!Visitors => (Loads(r) <=> Loads(feedCall[c])),
           c \in Feed!Visitors /\ r.pc = "wait" => loading[Feed!Kind(c)] # "nobody"
    PROVE  FeedCalls'
<1>1. feedCall' \in [Feed!Calls -> [pc : FeedLabels, began : 0..feedTime']] /\ feedCall'[c] = r
      /\ \A d \in Feed!Calls : d # c => feedCall'[d] = feedCall[d]
  BY DEF FeedCalls
<1>2. \A v \in Feed!Visitors : v \in Feed!Calls
  BY FeedConstants
<1>3. \A v \in Feed!Visitors : Loads(feedCall'[v]) <=> loading'[Feed!Kind(v)] = v
  BY <1>1, <1>2 DEF FeedCalls
<1>4. \A v \in Feed!Visitors : feedCall'[v].pc = "wait" => loading'[Feed!Kind(v)] # "nobody"
  BY <1>1, <1>2 DEF FeedCalls
<1> QED
  BY <1>1, <1>3, <1>4 DEF FeedCalls

\* The same, to a place that only has a name.
LEMMA FeedGoes ==
    ASSUME FeedCalls, FeedShape, NEW c \in Feed!Calls, NEW l \in FeedLabels, Feed!Goes(c, l),
           UNCHANGED <<feedTime, loading>>,
           c \in Feed!Visitors => (l \in {"hydrate", "ask", "upstream"} <=> Loads(feedCall[c])),
           c \in Feed!Visitors /\ l = "wait" => loading[Feed!Kind(c)] # "nobody"
    PROVE  FeedCalls'
<1>1. PICK r : r = [Feed!Idle EXCEPT !.pc = l]
  OBVIOUS
<1>2. r \in [pc : FeedLabels, began : 0..feedTime] /\ r.pc = l
  BY <1>1, FeedConstants DEF FeedShape, Feed!Idle
<1>3. feedCall' = [feedCall EXCEPT ![c] = r]
  BY <1>1 DEF Feed!Goes
<1>4. Loads(r) <=> l \in {"hydrate", "ask", "upstream"}
  BY <1>2 DEF Loads
<1> QED
  BY <1>2, <1>3, <1>4, FeedMoves

\* A visitor's load ends with a reading, or with none.
LEMMA FeedAnswers ==
    ASSUME FeedInv, NEW v \in Feed!Calls, NEW at \in -1..feedTime, Feed!Answers(v, at), Loads(feedCall[v]),
           UNCHANGED <<feedTime, hydrated, restarts>>
    PROVE  Histories' /\ FeedCalls' /\ feedTick' = feedTick /\ answered' \in [Feed!Kinds -> -1..feedTime']
<1> USE FeedConstants
<1>0. feedTime \in Nat /\ v \in Feed!Visitors /\ feedTick' = feedTick
  BY DEF FeedInv, FeedShape, Feed!Answers
<1>1. PICK k \in Feed!Kinds : k = Feed!Kind(v)
  OBVIOUS
<1>2. loading' = [loading EXCEPT ![k] = "nobody"] /\ answered' = [answered EXCEPT ![k] = feedTime]
  BY <1>1 DEF Feed!Answers, Feed!NoOne
<1>3. answered' \in [Feed!Kinds -> -1..feedTime']
  BY <1>0, <1>2 DEF FeedInv, FeedShape
<1>4. Ascends(series') /\ Ascends(stored')
  <2>1. Ascends(series')
    <3>1. CASE at < 0
      BY <3>1 DEF FeedInv, Histories, Feed!Answers
    <3>2. CASE ~(at < 0)
      <4>1. at \in 0..feedTime /\ series' = Feed!Pushed(series, at)
        BY <1>0, <3>2 DEF Feed!Answers
      <4> QED
        BY <1>0, <4>1, PushAscends DEF FeedInv, Histories
    <3> QED
      BY <3>1, <3>2
  <2>2. stored' = stored \/ stored' = series'
    BY DEF Feed!Answers
  <2> QED
    BY <2>1, <2>2 DEF FeedInv, Histories
<1>5. Histories'
  BY <1>4 DEF Histories, Ascends
<1>6. FeedCalls'
  <2>1. Feed!Idle \in [pc : FeedLabels, began : 0..feedTime] /\ Feed!Idle.pc = "idle"
    BY <1>0 DEF Feed!Idle, FeedLabels
  <2>2. feedCall' = [d \in Feed!Calls |->
            IF d = v \/ (d \in Feed!Visitors /\ Feed!Kind(d) = k /\ feedCall[d].pc = "wait") THEN Feed!Idle
            ELSE feedCall[d]]
    BY <1>1 DEF Feed!Answers, Feed!At
  <2>3. feedCall' \in [Feed!Calls -> [pc : FeedLabels, began : 0..feedTime']]
    BY <2>1, <2>2 DEF FeedInv, FeedCalls
  <2>4. loading' \in [Feed!Kinds -> Feed!Visitors \cup {"nobody"}] /\ loading'[k] = "nobody"
        /\ \A h \in Feed!Kinds : h # k => loading'[h] = loading[h]
    BY <1>2 DEF FeedInv, FeedCalls
  <2>5. ASSUME NEW u \in Feed!Visitors
        PROVE  /\ Loads(feedCall'[u]) <=> loading'[Feed!Kind(u)] = u
               /\ feedCall'[u].pc = "wait" => loading'[Feed!Kind(u)] # "nobody"
    <3>1. u \in Feed!Calls /\ u # "nobody" /\ Feed!Kind(u) \in Feed!Kinds
      OBVIOUS
    <3>2. CASE Feed!Kind(u) = k
      <4>1. loading[k] = v
        BY <1>0, <1>1 DEF FeedInv, FeedCalls
      <4>2. u # v => ~Loads(feedCall[u])
        BY <3>2, <4>1 DEF FeedInv, FeedCalls
      <4>3. feedCall'[u] = Feed!Idle \/ (u # v /\ feedCall'[u] = feedCall[u] /\ feedCall[u].pc # "wait")
        BY <2>2, <3>1, <3>2
      <4>4. ~Loads(feedCall'[u]) /\ feedCall'[u].pc # "wait"
        BY <2>1, <4>2, <4>3 DEF Loads
      <4> QED
        BY <2>4, <3>1, <3>2, <4>4
    <3>3. CASE Feed!Kind(u) # k
      <4>1. feedCall'[u] = feedCall[u] /\ loading'[Feed!Kind(u)] = loading[Feed!Kind(u)]
        BY <1>1, <2>2, <2>4, <3>1, <3>3
      <4> QED
        BY <4>1 DEF FeedInv, FeedCalls
    <3> QED
      BY <3>2, <3>3
  <2>6. \A h \in Feed!Kinds : loading'[h] # "nobody" => Feed!Kind(loading'[h]) = h
    BY <2>4 DEF FeedInv, FeedCalls
  <2> QED
    BY <2>3, <2>4, <2>5, <2>6 DEF FeedCalls
<1> QED
  BY <1>0, <1>3, <1>5, <1>6

\* A capture ends, with a tick or without.
LEMMA FeedStores ==
    ASSUME FeedInv, NEW w \in Feed!Calls, NEW at \in -1..feedTime, NEW b, NEW m, Feed!Stores(w, at, b, m),
           UNCHANGED <<feedTime, hydrated, restarts>>,
           at >= 0 /\ Feed!IsOracles(at, b, m) => feedTime - at < Life + Lag
    PROVE  /\ Histories' /\ FeedCalls' /\ (feedTick' = feedTick \/ TickFits(feedTick'))
           /\ answered' = answered
<1> USE FeedConstants
<1>1. feedTime \in Nat /\ w \in FeedWorkers /\ UNCHANGED <<series, stored, loading, answered>>
  BY DEF FeedInv, FeedShape, Feed!Stores
<1>2. Histories'
  BY <1>1 DEF FeedInv, Histories, Ascends
<1>3. FeedCalls'
  BY <1>1, FeedGoes DEF FeedInv, FeedLabels, Feed!Stores
<1>4. feedTick' = feedTick \/ TickFits(feedTick')
  <2>1. CASE feedTick' = feedTick
    BY <2>1
  <2>2. CASE at >= 0 /\ Feed!IsOracles(at, b, m) /\ feedTick' = [at |-> at, when |-> feedTime]
    BY <1>1, <2>2 DEF TickFits
  <2> QED
    BY <2>1, <2>2 DEF Feed!Stores
<1> QED
  BY <1>1, <1>2, <1>3, <1>4

\* A call ends.
LEMMA FeedEnds ==
    ASSUME FeedInv, NEW c \in Feed!Calls, NEW at \in -1..feedTime, NEW b, NEW m, Feed!Ends(c, at, b, m),
           Loads(feedCall[c]), at >= 0 /\ Feed!IsOracles(at, b, m) => feedTime - at < Life + Lag
    PROVE  /\ Histories' /\ FeedCalls' /\ FeedFlags' /\ (feedTick' = Feed!Nothing \/ TickFits(feedTick)')
           /\ feedTime' = feedTime /\ answered' \in [Feed!Kinds -> -1..feedTime'] /\ restarts' = restarts
<1>1. feedTime' = feedTime /\ restarts' = restarts /\ hydrated' = hydrated
  BY DEF Feed!Ends
<1>2. FeedFlags'
  BY <1>1, Zenon DEF FeedInv, FeedFlags
<1>3. Histories' /\ FeedCalls' /\ answered' \in [Feed!Kinds -> -1..feedTime']
      /\ (feedTick' = feedTick \/ TickFits(feedTick'))
  <2>1. CASE Feed!Answers(c, at)
    BY <1>1, <2>1, FeedAnswers
  <2>2. CASE Feed!Stores(c, at, b, m)
    BY <1>1, <2>2, FeedStores DEF FeedInv, FeedShape
  <2> QED
    BY <2>1, <2>2 DEF Feed!Ends
<1>4. feedTick' = Feed!Nothing \/ TickFits(feedTick)'
  BY <1>1, <1>3 DEF FeedInv, FeedShape, TickFits
<1> QED
  BY <1>1, <1>2, <1>3, <1>4

\* The calls that start, go on, and ask a provider.
LEMMA FeedStartKeeps ==
    ASSUME FeedInv, NEW c \in Feed!Calls,
           \/ c \in Feed!Visitors /\ Feed!Start(c)
           \/ c \in FeedWorkers /\ Feed!Capture(c)
           \/ Feed!Hydrate(c) \/ Feed!Ask(c)
    PROVE  FeedInv'
<1> USE FeedConstants DEF Feed!Start, Feed!Capture, Feed!Hydrate, Feed!Ask, Feed!At
<1>1. UNCHANGED <<feedTime, feedCache, good, stored, answered, feedTick, restarts>> /\ feedTime \in Nat
  BY DEF FeedInv, FeedShape
<1>2. FeedShape'
  BY <1>1 DEF FeedInv, FeedShape, CacheFits, GoodFits, TickFits
<1>3. FeedFlags'
  <2>1. hydrated' = hydrated \/ hydrated' = TRUE
    BY Zenon
  <2> QED
    BY <2>1, Zenon DEF FeedInv, FeedFlags
<1>4. Histories'
  <2>1. series' = series \/ series' = stored
    OBVIOUS
  <2> QED
    BY <1>1, <2>1 DEF FeedInv, Histories, Ascends
<1>5. FeedCalls'
  <2>1. CASE Feed!Hydrate(c)
    BY <1>1, <2>1, FeedGoes DEF FeedInv, FeedLabels, Loads
  <2>2. CASE Feed!Ask(c)
    <3>1. PICK r : r = [pc |-> "upstream", began |-> feedTime]
      OBVIOUS
    <3>2. r \in [pc : FeedLabels, began : 0..feedTime] /\ r.pc = "upstream"
      BY <1>1, <3>1 DEF FeedLabels
    <3> QED
      BY <1>1, <2>2, <3>1, <3>2, FeedMoves DEF FeedInv, Loads
  <2>3. CASE c \in FeedWorkers /\ Feed!Capture(c)
    BY <1>1, <2>3, FeedGoes DEF FeedInv, FeedLabels
  <2>4. CASE c \in Feed!Visitors /\ Feed!Start(c) /\ Feed!Shares(Feed!Kind(c))
    <3>1. Feed!Goes(c, "wait") /\ loading' = loading /\ loading[Feed!Kind(c)] # "nobody" /\ ~Loads(feedCall[c])
      BY <2>4 DEF Feed!Shares, Feed!NoOne, Loads
    <3> QED
      BY <1>1, <3>1, FeedGoes DEF FeedInv, FeedLabels
  <2>5. CASE c \in Feed!Visitors /\ Feed!Start(c) /\ ~Feed!Shares(Feed!Kind(c))
    <3>0. PICK k \in Feed!Kinds : k = Feed!Kind(c)
      OBVIOUS
    <3>1. loading[k] = "nobody" /\ loading' = [loading EXCEPT ![k] = c]
      BY <2>5, <3>0 DEF Feed!Shares, Feed!NoOne
    <3>2. PICK l \in {"ask", "hydrate"} : Feed!Goes(c, l)
      BY <2>5, Zenon
    <3>3. PICK r : r = [Feed!Idle EXCEPT !.pc = l]
      OBVIOUS
    <3>4. r \in [pc : FeedLabels, began : 0..feedTime] /\ r.pc = l
      BY <1>1, <3>3 DEF FeedLabels, Feed!Idle
    <3>5. feedCall' = [feedCall EXCEPT ![c] = r]
      BY <3>2, <3>3 DEF Feed!Goes
    <3>6. feedCall' \in [Feed!Calls -> [pc : FeedLabels, began : 0..feedTime']] /\ feedCall'[c] = r
          /\ \A d \in Feed!Calls : d # c => feedCall'[d] = feedCall[d]
      BY <1>1, <3>4, <3>5 DEF FeedInv, FeedCalls
    <3>7. loading' \in [Feed!Kinds -> Feed!Visitors \cup {"nobody"}] /\ loading'[k] = c
          /\ \A h \in Feed!Kinds : h # k => loading'[h] = loading[h]
      BY <2>5, <3>1 DEF FeedInv, FeedCalls
    <3>8. ASSUME NEW v \in Feed!Visitors
          PROVE  /\ Loads(feedCall'[v]) <=> loading'[Feed!Kind(v)] = v
                 /\ feedCall'[v].pc = "wait" => loading'[Feed!Kind(v)] # "nobody"
      <4>1. v \in Feed!Calls /\ v # "nobody" /\ c # "nobody" /\ Loads(r) /\ r.pc # "wait"
        BY <2>5, <3>4 DEF Loads
      <4>2. CASE v = c
        BY <3>0, <3>6, <3>7, <4>1, <4>2
      <4>3. CASE v # c /\ Feed!Kind(v) = k
        <5>1. ~Loads(feedCall[v]) /\ feedCall'[v] = feedCall[v]
          BY <3>1, <3>6, <4>1, <4>3 DEF FeedInv, FeedCalls
        <5> QED
          BY <3>7, <4>1, <4>3, <5>1
      <4>4. CASE v # c /\ Feed!Kind(v) # k
        <5>1. feedCall'[v] = feedCall[v] /\ loading'[Feed!Kind(v)] = loading[Feed!Kind(v)]
          BY <3>6, <3>7, <4>1, <4>4
        <5> QED
          BY <5>1 DEF FeedInv, FeedCalls
      <4> QED
        BY <4>2, <4>3, <4>4
    <3>9. \A h \in Feed!Kinds : loading'[h] # "nobody" => Feed!Kind(loading'[h]) = h
      BY <3>0, <3>7 DEF FeedInv, FeedCalls
    <3> QED
      BY <3>6, <3>7, <3>8, <3>9 DEF FeedCalls
  <2> QED
    BY <2>1, <2>2, <2>3, <2>4, <2>5
<1> QED
  BY <1>2, <1>3, <1>4, <1>5 DEF FeedInv

\* A reading comes from the cache, from a provider, or not at all.
LEMMA FeedArrivesKeeps ==
    ASSUME FeedInv,
           NEW c \in Feed!Calls, Feed!FromCache(c) \/ Feed!Land(c) \/ Feed!Fail(c) PROVE FeedInv'
<1> USE FeedConstants DEF Feed!At
<1>1. feedTime \in Nat /\ feedCall[c].began \in 0..feedTime
  BY DEF FeedInv, FeedShape, FeedCalls
<1>2. CASE Feed!FromCache(c)
  <2> USE <1>2 DEF Feed!FromCache
  <2>1. CacheFits(feedCache)
    BY DEF FeedInv, FeedShape
  <2>2. feedCache.at \in -1..feedTime /\ feedTime - feedCache.at < Life + Lag
    BY <1>1, <2>1 DEF CacheFits
  <2>3. Loads(feedCall[c])
    BY DEF Loads
  <2>4. /\ Histories' /\ FeedCalls' /\ FeedFlags' /\ (feedTick' = Feed!Nothing \/ TickFits(feedTick)')
        /\ feedTime' = feedTime /\ answered' \in [Feed!Kinds -> -1..feedTime'] /\ restarts' = restarts
    BY <2>2, <2>3, FeedEnds
  <2> QED
    BY <2>4 DEF FeedInv, FeedShape, CacheFits, GoodFits
<1>3. CASE Feed!Land(c)
  <2> USE <1>3 DEF Feed!Land
  <2>1. PICK at \in 0..feedTime :
          /\ feedTime - at <= Lag
          /\ feedCache' = [at |-> at, when |-> feedCall[c].began + Life]
          /\ good' = [at |-> at, when |-> feedCall[c].began]
          /\ Feed!Ends(c, at, FALSE, feedCall[c].began)
    BY Zenon
  <2>2. at \in -1..feedTime /\ feedTime - at < Life + Lag
    BY <1>1, <2>1
  <2>3. Loads(feedCall[c])
    BY DEF Loads
  <2>4. /\ Histories' /\ FeedCalls' /\ FeedFlags' /\ (feedTick' = Feed!Nothing \/ TickFits(feedTick)')
        /\ feedTime' = feedTime /\ answered' \in [Feed!Kinds -> -1..feedTime'] /\ restarts' = restarts
    BY <2>1, <2>2, <2>3, FeedEnds
  <2>5. CacheFits(feedCache)'
    BY <1>1, <2>1, <2>4 DEF CacheFits
  <2>6. GoodFits(good)'
    BY <1>1, <2>1, <2>4 DEF GoodFits
  <2> QED
    BY <2>4, <2>5, <2>6 DEF FeedInv, FeedShape
<1>4. CASE Feed!Fail(c)
  <2> USE <1>4 DEF Feed!Fail
  <2>1. PICK at : /\ at = IF good # Feed!Nothing /\ feedCall[c].began - good.when < StaleMax THEN good.at ELSE -1
                  /\ Feed!Ends(c, at, TRUE, feedCall[c].began)
    OBVIOUS
  <2>2. at \in -1..feedTime
    <3>1. good # Feed!Nothing => good.at \in 0..feedTime
      BY DEF FeedInv, FeedShape, GoodFits
    <3> QED
      BY <1>1, <2>1, <3>1
  <2>3. ~Feed!IsOracles(at, TRUE, feedCall[c].began)
    BY DEF Feed!IsOracles
  <2>4. Loads(feedCall[c])
    BY DEF Loads
  <2>5. /\ Histories' /\ FeedCalls' /\ FeedFlags' /\ (feedTick' = Feed!Nothing \/ TickFits(feedTick)')
        /\ feedTime' = feedTime /\ answered' \in [Feed!Kinds -> -1..feedTime'] /\ restarts' = restarts
    BY <2>1, <2>2, <2>3, <2>4, FeedEnds
  <2> QED
    BY <2>5 DEF FeedInv, FeedShape, CacheFits, GoodFits
<1> QED
  BY <1>2, <1>3, <1>4

\* Time passes.
LEMMA FeedTickKeeps == FeedInv /\ Feed!Tick => FeedInv'
<1> SUFFICES ASSUME FeedInv, Feed!Tick PROVE FeedInv'
  OBVIOUS
<1> USE FeedConstants DEF Feed!Tick
<1>1. feedTime \in Nat /\ feedTime' = feedTime + 1 /\ feedTime' \in 0..MaxTime /\ feedTime' \in Nat
  BY DEF FeedInv, FeedShape
<1>2. FeedFlags'
  BY Zenon DEF FeedInv, FeedFlags
<1>3. Histories'
  <2>1. ASSUME NEW s, Ascends(s) PROVE Ascends(s)'
    <3>1. \A i \in 1..Len(s) : s[i] \in Nat /\ s[i] <= feedTime
      BY <2>1 DEF Ascends
    <3>2. \A i \in 1..Len(s) : s[i] <= feedTime'
      BY <1>1, <3>1
    <3> QED
      BY <2>1, <3>2 DEF Ascends
  <2> QED
    BY <2>1 DEF FeedInv, Histories
<1>4. FeedShape'
  <2>1. feedCache' = Feed!Nothing \/ CacheFits(feedCache)'
    BY <1>1 DEF FeedInv, FeedShape, CacheFits
  <2>2. good' = Feed!Nothing \/ GoodFits(good)'
    BY <1>1 DEF FeedInv, FeedShape, GoodFits
  <2>3. feedTick' = Feed!Nothing \/ TickFits(feedTick)'
    BY <1>1 DEF FeedInv, FeedShape, TickFits
  <2>4. answered' \in [Feed!Kinds -> -1..feedTime']
    BY <1>1 DEF FeedInv, FeedShape
  <2> QED
    BY <1>1, <2>1, <2>2, <2>3, <2>4 DEF FeedInv, FeedShape
<1>5. FeedCalls'
  <2>1. [pc : FeedLabels, began : 0..feedTime] \subseteq [pc : FeedLabels, began : 0..feedTime']
    BY <1>1
  <2>2. feedCall' \in [Feed!Calls -> [pc : FeedLabels, began : 0..feedTime']]
    BY <2>1 DEF FeedInv, FeedCalls
  <2> QED
    BY <2>2 DEF FeedInv, FeedCalls
<1> QED
  BY <1>2, <1>3, <1>4, <1>5 DEF FeedInv

\* A restart leaves the store and the ticks.
LEMMA FeedRestartKeeps == FeedInv /\ Feed!Restart => FeedInv'
<1> SUFFICES ASSUME FeedInv, Feed!Restart PROVE FeedInv'
  OBVIOUS
<1> USE FeedConstants DEF Feed!Restart
<1>1. feedTime \in Nat /\ feedTime' = feedTime
  BY DEF FeedInv, FeedShape
<1>2. FeedFlags'
  BY DEF FeedFlags
<1>3. Histories'
  BY <1>1 DEF FeedInv, Histories, Ascends
<1>4. FeedShape'
  BY <1>1 DEF FeedInv, FeedShape, TickFits
<1>5. FeedCalls'
  <2>1. Feed!Idle \in [pc : FeedLabels, began : 0..feedTime] /\ Feed!Idle.pc = "idle"
    BY <1>1 DEF Feed!Idle, FeedLabels
  <2>2. \A v \in Feed!Visitors : feedCall'[v] = Feed!Idle /\ v # "nobody"
    OBVIOUS
  <2> QED
    BY <1>1, <2>1, <2>2 DEF FeedCalls, Loads, Feed!NoOne
<1> QED
  BY <1>2, <1>3, <1>4, <1>5 DEF FeedInv

\* The feed starts in the invariant.
LEMMA FeedInvInit == Feed!Init => FeedInv
<1> SUFFICES ASSUME Feed!Init PROVE FeedInv
  OBVIOUS
<1> USE FeedConstants DEF Feed!Init
<1>1. FeedFlags
  BY DEF FeedFlags
<1>2. Histories
  BY DEF Histories, Ascends
<1>3. FeedShape
  BY DEF FeedShape
<1>4. FeedCalls
  <2>1. Feed!Idle \in [pc : FeedLabels, began : 0..feedTime] /\ Feed!Idle.pc = "idle"
    BY DEF Feed!Idle, FeedLabels
  <2>2. \A v \in Feed!Visitors : feedCall[v] = Feed!Idle /\ v # "nobody"
    OBVIOUS
  <2> QED
    BY <2>1, <2>2 DEF FeedCalls, Loads, Feed!NoOne
<1> QED
  BY <1>1, <1>2, <1>3, <1>4 DEF FeedInv

\* Every step of the feed keeps it.
LEMMA FeedInvStep == FeedInv /\ [Feed!Next]_feedVars => FeedInv'
<1> SUFFICES ASSUME FeedInv, [Feed!Next]_feedVars PROVE FeedInv'
  OBVIOUS
<1>1. CASE UNCHANGED feedVars
  <2>1. FeedFlags'
    BY <1>1, Zenon DEF feedVars, FeedInv, FeedFlags
  <2>2. FeedShape' /\ Histories' /\ FeedCalls'
    BY <1>1
       DEF feedVars, FeedInv, FeedShape, CacheFits, GoodFits, TickFits, Histories, Ascends, FeedCalls
  <2> QED
    BY <2>1, <2>2 DEF FeedInv
<1> QED
  BY <1>1, FeedConstants, FeedStartKeeps, FeedArrivesKeeps, FeedTickKeeps, FeedRestartKeeps DEF Feed!Next

\* The invariant gives what the feed promises.
LEMMA FeedInvIsSafe ==
    FeedInv => Feed!TypeOK /\ Feed!HistoryAscends /\ Feed!TicksAreFresh /\ Feed!OneLoadAtATime
<1> SUFFICES ASSUME FeedInv
             PROVE  Feed!TypeOK /\ Feed!HistoryAscends /\ Feed!TicksAreFresh /\ Feed!OneLoadAtATime
  OBVIOUS
<1> USE FeedConstants
<1>1. feedTime \in Nat
  BY DEF FeedInv, FeedShape
<1>2. Feed!TypeOK
  <2>1. feedCache \in Feed!Readings /\ good \in Feed!Readings
    BY <1>1 DEF FeedInv, FeedShape, CacheFits, GoodFits, Feed!Readings, Feed!Nothing
  <2>2. feedTick \in Feed!Readings
    BY <1>1 DEF FeedInv, FeedShape, TickFits, Feed!Readings, Feed!Nothing
  <2>3. \A s \in {series, stored} : \A i \in DOMAIN s : s[i] \in 0..feedTime
    <3>1. ASSUME NEW s, Ascends(s) PROVE \A i \in DOMAIN s : s[i] \in 0..feedTime
      BY <1>1, <3>1 DEF Ascends
    <3> QED
      BY <3>1 DEF FeedInv, Histories
  <2>4. hydrated \in BOOLEAN
    BY DEF FeedInv, FeedFlags
  <2>5. feedTime \in 0..MaxTime /\ answered \in [Feed!Kinds -> -1..feedTime] /\ restarts \in 0..MaxRestarts
        /\ loading \in [Feed!Kinds -> Feed!Visitors \cup {Feed!NoOne}]
    BY DEF FeedInv, FeedShape, FeedCalls, Feed!NoOne
  <2>6. feedCall \in [Feed!Calls -> [pc : {"idle", "wait", "hydrate", "ask", "upstream"}, began : 0..feedTime]]
    BY DEF FeedInv, FeedCalls, FeedLabels
  <2> QED
    BY <2>1, <2>2, <2>3, <2>4, <2>5, <2>6, Zenon DEF Feed!TypeOK
<1>3. Feed!HistoryAscends
  <2>1. ASSUME NEW s, Ascends(s) PROVE \A i, j \in DOMAIN s : i < j => s[i] < s[j]
    BY <2>1 DEF Ascends
  <2> QED
    BY <2>1 DEF FeedInv, Histories, Feed!HistoryAscends
<1>4. Feed!TicksAreFresh
  BY <1>1 DEF FeedInv, FeedShape, TickFits, Feed!TicksAreFresh, Feed!Nothing
<1>5. Feed!OneLoadAtATime
  <2> SUFFICES ASSUME NEW k \in Feed!Kinds, NEW ofKind, ofKind = {v \in Feed!Visitors : Feed!Kind(v) = k}
               PROVE  /\ Feed!Cardinality({v \in ofKind : feedCall[v].pc \in {"hydrate", "ask", "upstream"}}) <= 1
                      /\ (\E v \in ofKind : feedCall[v].pc = "wait") => loading[k] # "nobody"
    BY DEF Feed!OneLoadAtATime, Feed!At, Feed!NoOne
  <2>1. PICK S : S = {v \in ofKind : feedCall[v].pc \in {"hydrate", "ask", "upstream"}}
    OBVIOUS
  <2>2. \A v, w \in S : v = w
    BY <2>1 DEF FeedInv, FeedCalls, Loads
  <2>3. Feed!Cardinality(S) <= 1
    <3>1. Login!Cardinality(S) <= 1
      BY <2>2, AtMostOne
    <3>2. Login!Cardinality(S) = Feed!Cardinality(S)
      BY DEF Login!Cardinality, Feed!Cardinality
    <3> QED
      BY <3>1, <3>2
  <2> QED
    BY <2>1, <2>3 DEF FeedInv, FeedCalls
<1> QED
  BY <1>2, <1>3, <1>4, <1>5

---------------------------------------------------------------------------
(* The portfolio (Portfolio). *)

ActiveSnap == [status |-> "ACTIVE", winner |-> "none"]
ReaderRun == [pc : {"idle", "logs", "refresh"}, map : Readers \cup {"none"}, upTo : 0..Blocks,
              todo : SUBSET Owned!Tickets, snap : Owned!Snaps]

\* The market is over once, and a ticket is settled as the market ended.
OwnedWorld ==
    /\ head \in 0..Blocks
    /\ \/ market = ActiveSnap
       \/ market.status = "RESOLVED" /\ market.winner \in Winners
       \/ market.status = "CANCELLED" /\ market.winner = "none"
    /\ market \in Owned!Snaps
    /\ bought \in [Owned!Tickets -> {"none", "OPEN", "SETTLED", "CANCELLED"}]
    /\ \A t \in Owned!Tickets :
         /\ t <= head => bought[t] # "none"
         /\ bought[t] = "CANCELLED" => market.status = "CANCELLED"
    /\ missed \subseteq Owned!Tickets /\ readFaults \in 0..ReadFaults

OwnedFlags == active \in BOOLEAN

\* A result that is shown is that of the market when it was over.
ResultFits(t, s) ==
    \/ s.result = "none"
    \/ s.result = "REFUND" /\ market.status = "CANCELLED"
    \/ market.status = "RESOLVED" /\ s.result = IF Owned!Outcome(t) = market.winner THEN "WIN" ELSE "LOSS"

CellFits(t, s) == (s.status # "absent" => t <= head) /\ ResultFits(t, s)

MapsShape ==
    /\ maps \in [Readers -> [Owned!Tickets -> Owned!Shown]]
    /\ \A r \in Readers, t \in Owned!Tickets : CellFits(t, maps[r][t])

\* The map m has every ticket up to block n, but for those that are still to
\* be read and those that were lost.
Covered(m, n, S) == \A t \in 1..n : t \in missed \/ t \in S \/ maps[m][t].status # "absent"

EntryFits ==
    /\ entry \in [map : Readers \cup {"none"}, upTo : 0..Blocks] /\ entry.upTo <= head
    /\ entry.map # "none" => Covered(entry.map, entry.upTo, {})

ReaderFits(r) ==
    /\ r \in ReaderRun /\ r.todo \subseteq 1..head /\ r.upTo <= head
    /\ r.snap \in {Owned!NoSnap, ActiveSnap, market} /\ (r.pc = "idle" => r.todo = {})
    /\ r.pc # "idle" => r.map \in Readers /\ Covered(r.map, r.upTo, IF r.pc = "logs" THEN r.todo ELSE {})

ReadersShape ==
    /\ request = [r \in Readers |-> request[r]]
    /\ \A r \in Readers : ReaderFits(request[r])

OwnedInv == OwnedWorld /\ OwnedFlags /\ MapsShape /\ EntryFits /\ ReadersShape

\* The constants of the portfolio.
LEMMA OwnedConstants ==
    /\ Blocks \in Nat /\ Recent \in Nat /\ ReadFaults \in Nat /\ Winners \subseteq {"YES", "NO"}
    /\ "none" \notin Readers /\ Owned!Tickets = 1..Blocks
BY RequestsAssumption DEF Owned!PortfolioAssumption, Owned!Tickets

\* Nothing that a map has, or that was lost, is forgotten by a step.
LEMMA CoveredStays ==
    ASSUME NEW m, NEW n \in 0..Blocks, NEW S, Covered(m, n, S), missed \subseteq missed',
           \A t \in Owned!Tickets : maps[m][t].status # "absent" => maps'[m][t].status # "absent"
    PROVE  Covered(m, n, S)'
<1>1. 1..n \subseteq Owned!Tickets
  BY OwnedConstants
<1> QED
  BY <1>1 DEF Covered

\* The entry and the requests but r stay as they were.
LEMMA OthersStay ==
    ASSUME OwnedInv, NEW R \in SUBSET Readers, head' \in Nat, head <= head',
           ActiveSnap = market \/ market' = market, missed \subseteq missed',
           \A q \in R : request'[q] = request[q],
           \A q \in R, t \in Owned!Tickets : request[q].pc # "idle" =>
             (maps[request[q].map][t].status # "absent" => maps'[request[q].map][t].status # "absent")
    PROVE  \A q \in R : ReaderFits(request[q])'
<1>1. SUFFICES ASSUME NEW q \in R PROVE ReaderFits(request[q])'
  OBVIOUS
<1>2. PICK r \in ReaderRun : r = request[q] /\ ReaderFits(r)
  BY DEF OwnedInv, ReadersShape, ReaderFits
<1>3. request'[q] = r
  BY <1>2
<1>4. r.todo \subseteq 1..head' /\ r.upTo <= head' /\ r.upTo \in 0..Blocks
  BY <1>2, OwnedConstants DEF ReaderFits, OwnedInv, OwnedWorld, ReaderRun
<1>5. r.snap \in {Owned!NoSnap, ActiveSnap, market'}
  BY <1>2 DEF ReaderFits
<1>6. PICK S : S = IF r.pc = "logs" THEN r.todo ELSE {}
  OBVIOUS
<1>7. r.pc # "idle" => r.map \in Readers /\ Covered(r.map, r.upTo, S)'
  BY <1>2, <1>4, <1>6, CoveredStays DEF ReaderFits
<1> QED
  BY <1>2, <1>3, <1>4, <1>5, <1>6, <1>7 DEF ReaderFits

\* The same where the requests do not move and their maps do not change.
LEMMA ReadersStay ==
    ASSUME OwnedInv, UNCHANGED <<request, maps>>, head' \in 0..Blocks, head <= head',
           ActiveSnap = market \/ market' = market, UNCHANGED <<entry, missed>>
    PROVE  ReadersShape' /\ EntryFits'
<1>1. head' \in Nat /\ head \in Nat
  BY DEF OwnedInv, OwnedWorld
<1>2. \A r \in Readers : ReaderFits(request[r])'
  BY <1>1, OthersStay
<1>3. EntryFits'
  <2>1. entry.upTo \in 0..Blocks /\ entry.upTo <= head'
    BY <1>1, OwnedConstants DEF OwnedInv, EntryFits
  <2> QED
    BY <2>1 DEF OwnedInv, EntryFits, Covered
<1> QED
  BY <1>2, <1>3 DEF OwnedInv, ReadersShape

\* A ticket is bought, one is settled, or the list is refreshed.
LEMMA ChainMovesKeep ==
    ASSUME OwnedInv, Owned!Buy \/ Owned!RefreshList \/ \E t \in Owned!Tickets : Owned!SettleTicket(t)
    PROVE  OwnedInv'
<1> USE OwnedConstants DEF Owned!Buy, Owned!RefreshList, Owned!SettleTicket
<1>1. UNCHANGED <<market, entry, maps, request, missed, readFaults>>
  OBVIOUS
<1>2. OwnedFlags'
  <2>1. active' = active \/ active' = (market.status = Owned!Active)
    OBVIOUS
  <2> QED
    BY <2>1 DEF OwnedInv, OwnedFlags
<1>3. head' \in 0..Blocks /\ head <= head' /\ head \in Nat
  BY DEF OwnedInv, OwnedWorld
<1>4. OwnedWorld'
  <2>1. CASE Owned!Buy
    <3>1. head' = head + 1 /\ bought' = [bought EXCEPT ![head + 1] = "OPEN"] /\ head' \in Owned!Tickets
      BY <1>3, <2>1
    <3>2. bought' \in [Owned!Tickets -> {"none", "OPEN", "SETTLED", "CANCELLED"}]
      BY <3>1 DEF OwnedInv, OwnedWorld
    <3>3. ASSUME NEW t \in Owned!Tickets
          PROVE  (t <= head' => bought'[t] # "none") /\ (bought'[t] = "CANCELLED" => market.status = "CANCELLED")
      <4>1. CASE t = head + 1
        BY <3>1, <4>1 DEF OwnedInv, OwnedWorld
      <4>2. CASE t # head + 1
        <5>1. t <= head' => t <= head
          BY <1>3, <3>1, <4>2
        <5> QED
          BY <3>1, <4>2, <5>1 DEF OwnedInv, OwnedWorld
      <4> QED
        BY <4>1, <4>2
    <3> QED
      BY <1>1, <1>3, <3>2, <3>3 DEF OwnedInv, OwnedWorld
  <2>2. CASE Owned!RefreshList
    BY <1>1, <2>2 DEF OwnedInv, OwnedWorld
  <2>3. ASSUME NEW t \in Owned!Tickets, Owned!SettleTicket(t) PROVE OwnedWorld'
    <3>1. bought' = [bought EXCEPT ![t] = IF market.status = "RESOLVED" THEN "SETTLED" ELSE "CANCELLED"]
          /\ market.status \in {"RESOLVED", "CANCELLED"} /\ head' = head
      BY <2>3
    <3> QED
      BY <1>1, <3>1 DEF OwnedInv, OwnedWorld
  <2> QED
    BY <2>1, <2>2, <2>3
<1>5. MapsShape'
  <2>1. ASSUME NEW t \in Owned!Tickets, NEW s, CellFits(t, s) PROVE CellFits(t, s)'
    BY <1>1, <1>3, <2>1 DEF CellFits, ResultFits
  <2> QED
    BY <1>1, <2>1 DEF OwnedInv, MapsShape
<1>6. ReadersShape' /\ EntryFits'
  BY <1>1, <1>3, ReadersStay
<1> QED
  BY <1>2, <1>4, <1>5, <1>6 DEF OwnedInv

\* The market ends: no result was shown before.
LEMMA FinishKeeps == OwnedInv /\ Owned!Finish => OwnedInv'
<1> SUFFICES ASSUME OwnedInv, Owned!Finish PROVE OwnedInv'
  OBVIOUS
<1> USE OwnedConstants DEF Owned!Finish, Owned!Active
<1>1. market = ActiveSnap /\ UNCHANGED <<head, bought, active, entry, maps, request, missed, readFaults>>
  BY DEF OwnedInv, OwnedWorld, ActiveSnap
<1>2. OwnedFlags'
  BY <1>1 DEF OwnedInv, OwnedFlags
<1>3. OwnedWorld'
  <2>1. \/ market'.status = "RESOLVED" /\ market'.winner \in Winners
        \/ market'.status = "CANCELLED" /\ market'.winner = "none"
    OBVIOUS
  <2>2. market' \in Owned!Snaps
    BY DEF Owned!Snaps
  <2>3. \A t \in Owned!Tickets : bought[t] # "CANCELLED"
    BY <1>1 DEF OwnedInv, OwnedWorld, ActiveSnap
  <2> QED
    BY <1>1, <2>1, <2>2, <2>3 DEF OwnedInv, OwnedWorld
<1>4. MapsShape'
  <2>1. ASSUME NEW t \in Owned!Tickets, NEW s, CellFits(t, s) PROVE CellFits(t, s)'
    BY <1>1, <2>1 DEF CellFits, ResultFits, ActiveSnap
  <2> QED
    BY <1>1, <2>1 DEF OwnedInv, MapsShape
<1>5. ReadersShape' /\ EntryFits'
  <2>1. head' \in 0..Blocks /\ head <= head'
    BY <1>1 DEF OwnedInv, OwnedWorld
  <2> QED
    BY <1>1, <2>1, ReadersStay
<1> QED
  BY <1>2, <1>3, <1>4, <1>5 DEF OwnedInv

\* A scan begins after what the entry covers, or at the window's first block.
LEMMA ScanFits ==
    ASSUME OwnedInv
    PROVE  /\ Owned!ScanFrom \in Nat \ {0}
           /\ entry.map = "none" => Owned!ScanFrom - 1 <= Blocks
           /\ entry.map # "none" => Owned!ScanFrom = entry.upTo + 1
<1> USE OwnedConstants
<1>1. head \in 0..Blocks /\ entry.upTo \in 0..Blocks
  BY DEF OwnedInv, OwnedWorld, EntryFits
<1>2. CASE entry.map = "none"
  <2>1. PICK n \in Int : n = head - Recent + 1 /\ n <= Blocks + 1
    BY <1>1
  <2>2. PICK S : S = {1, n}
    OBVIOUS
  <2>3. \E x \in S : \A y \in S : x >= y
    BY <2>1, <2>2
  <2>4. Owned!Max(S) \in S /\ \A y \in S : Owned!Max(S) >= y
    BY <2>3 DEF Owned!Max
  <2>5. Owned!ScanFrom = Owned!Max(S)
    BY <1>2, <2>1, <2>2 DEF Owned!ScanFrom
  <2> QED
    BY <1>1, <1>2, <2>1, <2>2, <2>4, <2>5
<1>3. CASE entry.map # "none"
  BY <1>1, <1>3 DEF Owned!ScanFrom
<1> QED
  BY <1>2, <1>3

\* The faults stay in their bound.
LEMMA OwnedFaults ==
    ASSUME OwnedInv, readFaults' = readFaults \/ Owned!Fails PROVE readFaults' \in 0..ReadFaults
BY OwnedConstants DEF OwnedInv, OwnedWorld, Owned!Fails

\* The requests keep their shape when one becomes q.
LEMMA ReaderMoves ==
    ASSUME OwnedInv, NEW r \in Readers, NEW q, request' = [request EXCEPT ![r] = q], ReaderFits(q)',
           UNCHANGED <<head, market>>, missed \subseteq missed',
           \A p \in Readers \ {r}, t \in Owned!Tickets : request[p].pc # "idle" =>
             (maps[request[p].map][t].status # "absent" => maps'[request[p].map][t].status # "absent")
    PROVE  ReadersShape'
<1>1. request' = [p \in Readers |-> request'[p]] /\ request'[r] = q
      /\ \A p \in Readers \ {r} : request'[p] = request[p]
  BY DEF OwnedInv, ReadersShape
<1>2. Readers \ {r} \in SUBSET Readers /\ head' \in Nat /\ head <= head'
  BY DEF OwnedInv, OwnedWorld
<1>3. \A p \in Readers \ {r} : ReaderFits(request[p])'
  <2>1. PICK R \in SUBSET Readers : R = Readers \ {r}
    BY <1>2
  <2> QED
    BY <1>1, <1>2, <2>1, OthersStay
<1>4. ReaderFits(request[r])'
  BY <1>1 DEF ReaderFits
<1> QED
  BY <1>1, <1>3, <1>4 DEF ReadersShape

\* A request takes on what the entry does not cover.
LEMMA OwnedBeginKeeps == ASSUME OwnedInv, NEW r \in Readers, Owned!Begin(r) PROVE OwnedInv'
<1> USE OwnedConstants
<1> DEFINE from1 == Owned!ScanFrom
<1>1. PICK dropped \in SUBSET (from1..head) :
        /\ (IF dropped = {} THEN UNCHANGED readFaults ELSE Owned!Fails)
        /\ missed' = missed \cup dropped \cup (IF entry.map = "none" THEN 1..from1 - 1 ELSE {})
        /\ request' = [request EXCEPT ![r] =
             [Owned!Idle EXCEPT !.pc = "logs", !.upTo = head, !.todo = (from1..head) \ dropped,
                                !.map = IF entry.map = "none" THEN r ELSE entry.map]]
  BY DEF Owned!Begin
<1>2. UNCHANGED <<head, market, bought, active, entry, maps>>
  BY DEF Owned!Begin
<1>3. from1 \in Nat \ {0}
      /\ (entry.map = "none" => from1 - 1 <= Blocks) /\ (entry.map # "none" => from1 = entry.upTo + 1)
  BY ScanFits
<1>4. head \in 0..Blocks /\ entry.map \in Readers \cup {"none"} /\ entry.upTo \in 0..Blocks
      /\ missed \subseteq 1..Blocks
  BY DEF OwnedInv, OwnedWorld, EntryFits
<1> HIDE DEF from1
<1>5. OwnedFlags' /\ MapsShape'
  BY <1>2 DEF OwnedInv, OwnedFlags, MapsShape, CellFits, ResultFits
<1>6. missed' \subseteq Owned!Tickets /\ missed \subseteq missed'
  BY <1>1, <1>3, <1>4
<1>7. OwnedWorld'
  <2>1. readFaults' \in 0..ReadFaults
    BY <1>1, OwnedFaults
  <2> QED
    BY <1>2, <1>6, <2>1 DEF OwnedInv, OwnedWorld
<1>8. EntryFits'
  <2>1. CASE entry.map = "none"
    BY <1>2, <2>1 DEF OwnedInv, EntryFits
  <2>2. CASE entry.map # "none"
    BY <1>2, <1>4, <1>6, <2>2, CoveredStays DEF OwnedInv, EntryFits
  <2> QED
    BY <2>1, <2>2
<1>9. PICK m : m = IF entry.map = "none" THEN r ELSE entry.map
  OBVIOUS
<1>10. PICK S : S = (from1..head) \ dropped
  OBVIOUS
<1>11. PICK q : q = [Owned!Idle EXCEPT !.pc = "logs", !.upTo = head, !.todo = S, !.map = m]
  OBVIOUS
<1>12. q.pc = "logs" /\ q.upTo = head /\ q.todo = S /\ q.map = m /\ q.snap = Owned!NoSnap
       /\ q \in ReaderRun
  <2>1. S \subseteq Owned!Tickets /\ m \in Readers \cup {"none"}
    BY <1>3, <1>4, <1>9, <1>10
  <2> QED
    BY <1>4, <1>11, <2>1 DEF Owned!Idle, ReaderRun, Owned!Snaps, Owned!NoSnap, Owned!Active
<1>13. Covered(m, head, S)'
  <2>1. ASSUME NEW t \in 1..head PROVE t \in missed' \/ t \in S \/ maps[m][t].status # "absent"
    <3>1. CASE t >= from1
      BY <1>1, <1>3, <1>4, <1>10, <3>1
    <3>2. CASE ~(t >= from1) /\ entry.map = "none"
      BY <1>1, <1>3, <1>4, <3>2
    <3>3. CASE ~(t >= from1) /\ entry.map # "none"
      <4>1. t \in 1..entry.upTo /\ m = entry.map
        BY <1>3, <1>4, <1>9, <3>3
      <4>2. t \in missed \/ maps[m][t].status # "absent"
        BY <3>3, <4>1 DEF OwnedInv, EntryFits, Covered
      <4> QED
        BY <1>6, <4>2
    <3> QED
      BY <3>1, <3>2, <3>3
  <2> QED
    BY <1>2, <2>1 DEF Covered
<1>14. ReaderFits(q)'
  <2>1. S \subseteq 1..head /\ m \in Readers
    BY <1>3, <1>4, <1>9, <1>10
  <2> QED
    BY <1>2, <1>4, <1>12, <1>13, <2>1 DEF ReaderFits
<1>15. request' = [request EXCEPT ![r] = q]
  BY <1>1, <1>9, <1>10, <1>11
<1>16. ReadersShape'
  BY <1>2, <1>6, <1>14, <1>15, ReaderMoves
<1> QED
  BY <1>5, <1>7, <1>8, <1>16 DEF OwnedInv

\* A result is what the market's end makes of the ticket.
LEMMA ResultIsFit ==
    ASSUME OwnedInv, NEW t \in Owned!Tickets, NEW v, v \in {ActiveSnap, market},
           NEW s, s = [status |-> bought[t], result |-> Owned!Result(t, bought[t], v)]
    PROVE  ResultFits(t, s) /\ s.result \in {"none", "WIN", "LOSS", "REFUND"} /\ s.status = bought[t]
<1> USE OwnedConstants
<1>1. bought[t] = "CANCELLED" => market.status = "CANCELLED"
  BY DEF OwnedInv, OwnedWorld
<1>2. s.result = Owned!Result(t, bought[t], v) /\ s.status = bought[t]
  OBVIOUS
<1>3. v.status = "CANCELLED" => market.status = "CANCELLED"
  BY DEF ActiveSnap
<1>4. v.status = "RESOLVED" => v = market
  BY DEF ActiveSnap
<1> QED
  BY <1>1, <1>2, <1>3, <1>4 DEF Owned!Result, ResultFits

\* What a request takes the market for.
LEMMA SnapshotFits ==
    ASSUME OwnedInv, NEW r \in Readers PROVE Owned!Snapshot(r) \in {ActiveSnap, market}
<1>1. request[r].snap \in {Owned!NoSnap, ActiveSnap, market}
  BY DEF OwnedInv, ReadersShape, ReaderFits
<1> QED
  BY <1>1, Zenon DEF Owned!Snapshot, ActiveSnap, Owned!Active

\* A read puts a ticket in the map, and takes none out.
LEMMA ReadKeeps ==
    ASSUME OwnedInv, NEW r \in Readers, NEW t \in Owned!Tickets, Owned!Read(r, t) PROVE OwnedInv'
<1> USE OwnedConstants
<1>1. PICK x \in ReaderRun : x = request[r] /\ ReaderFits(x)
  BY DEF OwnedInv, ReadersShape, ReaderFits
<1>2. t \in x.todo /\ UNCHANGED <<head, market, bought, active, entry, missed, readFaults>>
  BY <1>1 DEF Owned!Read, Owned!Wanted
<1>3. x.pc # "idle" /\ x.map \in Readers /\ t <= head /\ bought[t] # "none"
  <2>1. t \in 1..head
    BY <1>1, <1>2 DEF ReaderFits
  <2>2. bought[t] # "none" /\ head \in Nat
    BY <2>1 DEF OwnedInv, OwnedWorld
  <2>3. x.pc # "idle"
    BY <1>1, <1>2 DEF OwnedInv, ReadersShape, ReaderFits
  <2> QED
    BY <1>1, <2>1, <2>2, <2>3 DEF ReaderFits
<1>4. PICK v \in {ActiveSnap, market} : v = Owned!Snapshot(r)
  BY SnapshotFits
<1>5. PICK s : s = [status |-> bought[t], result |-> Owned!Result(t, bought[t], v)]
  OBVIOUS
<1>6. ResultFits(t, s) /\ s.status = bought[t] /\ s \in Owned!Shown
  <2>1. bought[t] \in {"OPEN", "SETTLED", "CANCELLED"}
    BY <1>3 DEF OwnedInv, OwnedWorld
  <2> QED
    BY <1>5, <2>1, ResultIsFit DEF Owned!Shown
<1>7. maps' = [maps EXCEPT ![x.map][t] = s]
  BY <1>1, <1>4, <1>5 DEF Owned!Read
<1>8. /\ maps' \in [Readers -> [Owned!Tickets -> Owned!Shown]] /\ maps'[x.map][t] = s
      /\ \A m \in Readers, u \in Owned!Tickets : (m = x.map /\ u = t) \/ maps'[m][u] = maps[m][u]
  BY <1>3, <1>6, <1>7 DEF OwnedInv, MapsShape
<1>9. s.status # "absent"
  BY <1>6 DEF OwnedInv, OwnedWorld
<1>10. \A m \in Readers, u \in Owned!Tickets : maps[m][u].status # "absent" => maps'[m][u].status # "absent"
  BY <1>8, <1>9
<1>11. MapsShape'
  <2>1. ASSUME NEW m \in Readers, NEW u \in Owned!Tickets PROVE CellFits(u, maps[m][u])'
    <3>0. PICK z : z = maps'[m][u]
      OBVIOUS
    <3>1. CellFits(u, z)
      <4>1. CASE m = x.map /\ u = t
        BY <1>3, <1>6, <1>8, <3>0, <4>1 DEF CellFits
      <4>2. CASE ~(m = x.map /\ u = t)
        BY <1>8, <3>0, <4>2 DEF OwnedInv, MapsShape
      <4> QED
        BY <4>1, <4>2
    <3> QED
      BY <1>2, <3>0, <3>1 DEF CellFits, ResultFits
  <2> QED
    BY <1>8, <2>1 DEF MapsShape
<1>12. OwnedFlags' /\ OwnedWorld'
  BY <1>2 DEF OwnedInv, OwnedFlags, OwnedWorld
<1>13. EntryFits'
  <2>1. CASE entry.map = "none"
    BY <1>2, <2>1 DEF OwnedInv, EntryFits
  <2>2. CASE entry.map # "none"
    <3>1. entry.map \in Readers /\ entry.upTo \in 0..Blocks
      BY <2>2 DEF OwnedInv, EntryFits
    <3>2. Covered(entry.map, entry.upTo, {})'
      BY <1>2, <1>10, <2>2, <3>1, CoveredStays DEF OwnedInv, EntryFits
    <3> QED
      BY <1>2, <3>1, <3>2 DEF OwnedInv, EntryFits
  <2> QED
    BY <2>1, <2>2
<1>14. PICK w : w = IF x.pc = "refresh" THEN v ELSE x.snap
  OBVIOUS
<1>15. PICK q : q = [x EXCEPT !.todo = x.todo \ {t}, !.snap = w]
  OBVIOUS
<1>16. request' = [request EXCEPT ![r] = q]
  BY <1>1, <1>4, <1>14, <1>15 DEF Owned!Read, OwnedInv, ReadersShape
<1>17. w \in {Owned!NoSnap, ActiveSnap, market} /\ w \in Owned!Snaps
  <2>1. w \in {Owned!NoSnap, ActiveSnap, market}
    BY <1>1, <1>14 DEF ReaderFits
  <2> QED
    BY <2>1 DEF Owned!NoSnap, ActiveSnap, Owned!Snaps, Owned!Active, OwnedInv, OwnedWorld
<1>18. q \in ReaderRun /\ q.pc = x.pc /\ q.map = x.map /\ q.upTo = x.upTo /\ q.todo = x.todo \ {t}
       /\ q.snap = w
  BY <1>15, <1>17 DEF ReaderRun
<1>19. Covered(x.map, x.upTo, IF x.pc = "logs" THEN x.todo \ {t} ELSE {})'
  <2>1. ASSUME NEW u \in 1..x.upTo
        PROVE  u \in missed \/ u \in (IF x.pc = "logs" THEN x.todo \ {t} ELSE {}) \/ maps'[x.map][u].status # "absent"
    <3>1. u \in Owned!Tickets
      BY <1>1, <2>1 DEF ReaderRun
    <3>2. u \in missed \/ u \in (IF x.pc = "logs" THEN x.todo ELSE {}) \/ maps[x.map][u].status # "absent"
      BY <1>1, <1>3, <2>1 DEF ReaderFits, Covered
    <3> QED
      BY <1>3, <1>8, <1>9, <1>10, <3>1, <3>2
  <2> QED
    BY <1>2, <2>1 DEF Covered
<1>20. ReaderFits(q)'
  BY <1>1, <1>2, <1>3, <1>17, <1>18, <1>19 DEF ReaderFits
<1>21. ReadersShape'
  <2>1. \A p \in Readers \ {r}, u \in Owned!Tickets : request[p].pc # "idle" =>
             (maps[request[p].map][u].status # "absent" => maps'[request[p].map][u].status # "absent")
    BY <1>10 DEF OwnedInv, ReadersShape, ReaderFits
  <2> QED
    BY <1>2, <1>16, <1>20, <2>1, ReaderMoves
<1> QED
  BY <1>11, <1>12, <1>13, <1>21 DEF OwnedInv

\* A read that fails is remembered, for a ticket that is new.
LEMMA SkipKeeps ==
    ASSUME OwnedInv, NEW r \in Readers, NEW t \in Owned!Tickets, Owned!Skip(r, t) PROVE OwnedInv'
<1> USE OwnedConstants
<1>1. PICK x \in ReaderRun : x = request[r] /\ ReaderFits(x)
  BY DEF OwnedInv, ReadersShape, ReaderFits
<1>2. t \in x.todo /\ UNCHANGED <<head, market, bought, active, entry, maps>>
      /\ missed' = IF x.pc = "logs" THEN missed \cup {t} ELSE missed
  BY <1>1 DEF Owned!Skip, Owned!Wanted
<1>3. missed \subseteq missed' /\ missed' \subseteq Owned!Tickets
  BY <1>2 DEF OwnedInv, OwnedWorld
<1>4. OwnedFlags' /\ MapsShape'
  BY <1>2 DEF OwnedInv, OwnedFlags, MapsShape, CellFits, ResultFits
<1>5. OwnedWorld'
  <2>1. readFaults' \in 0..ReadFaults
    BY OwnedFaults DEF Owned!Skip
  <2> QED
    BY <1>2, <1>3, <2>1 DEF OwnedInv, OwnedWorld
<1>6. EntryFits'
  <2>1. CASE entry.map = "none"
    BY <1>2, <2>1 DEF OwnedInv, EntryFits
  <2>2. CASE entry.map # "none"
    <3>1. entry.upTo \in 0..Blocks
      BY DEF OwnedInv, EntryFits
    <3>2. Covered(entry.map, entry.upTo, {})'
      BY <1>2, <1>3, <2>2, <3>1, CoveredStays DEF OwnedInv, EntryFits
    <3> QED
      BY <1>2, <3>1, <3>2 DEF OwnedInv, EntryFits
  <2> QED
    BY <2>1, <2>2
<1>7. PICK q : q = [x EXCEPT !.todo = x.todo \ {t}]
  OBVIOUS
<1>8. request' = [request EXCEPT ![r] = q]
  BY <1>1, <1>7 DEF Owned!Skip, OwnedInv, ReadersShape
<1>9. q \in ReaderRun /\ q.pc = x.pc /\ q.map = x.map /\ q.upTo = x.upTo /\ q.todo = x.todo \ {t}
      /\ q.snap = x.snap
  BY <1>7 DEF ReaderRun
<1>10. x.pc # "idle" => Covered(x.map, x.upTo, IF x.pc = "logs" THEN x.todo \ {t} ELSE {})'
  <2>1. SUFFICES ASSUME x.pc # "idle"
                 PROVE  Covered(x.map, x.upTo, IF x.pc = "logs" THEN x.todo \ {t} ELSE {})'
    OBVIOUS
  <2>2. ASSUME NEW u \in 1..x.upTo
        PROVE  u \in missed' \/ u \in (IF x.pc = "logs" THEN x.todo \ {t} ELSE {}) \/ maps[x.map][u].status # "absent"
    <3>1. u \in missed \/ u \in (IF x.pc = "logs" THEN x.todo ELSE {}) \/ maps[x.map][u].status # "absent"
      BY <1>1, <2>1, <2>2 DEF ReaderFits, Covered
    <3> QED
      BY <1>2, <3>1
  <2> QED
    BY <1>2, <2>2 DEF Covered
<1>11. ReaderFits(q)'
  BY <1>1, <1>2, <1>9, <1>10 DEF ReaderFits
<1>12. ReadersShape'
  BY <1>2, <1>3, <1>8, <1>11, ReaderMoves
<1> QED
  BY <1>4, <1>5, <1>6, <1>12 DEF OwnedInv

\* What was found is read, and the open tickets are read again.
LEMMA RefreshKeeps == ASSUME OwnedInv, NEW r \in Readers, Owned!Refresh(r) PROVE OwnedInv'
<1> USE OwnedConstants
<1>1. PICK x \in ReaderRun : x = request[r] /\ ReaderFits(x)
  BY DEF OwnedInv, ReadersShape, ReaderFits
<1>2. x.pc = "logs" /\ x.todo = {}
      /\ UNCHANGED <<head, market, bought, active, entry, maps, missed, readFaults>>
  BY <1>1 DEF Owned!Refresh
<1>3. OwnedFlags' /\ MapsShape' /\ OwnedWorld' /\ EntryFits'
  BY <1>2 DEF OwnedInv, OwnedFlags, MapsShape, CellFits, ResultFits, OwnedWorld, EntryFits, Covered
<1>4. PICK S : S = {t \in Owned!Tickets : Owned!NeedsRefresh(r, t)}
  OBVIOUS
<1>5. S \subseteq Owned!Tickets /\ \A t \in S : maps[x.map][t].status = "OPEN"
  BY <1>1, <1>4 DEF Owned!NeedsRefresh
<1>6. PICK q : q = [Owned!Idle EXCEPT !.pc = "refresh", !.map = x.map, !.upTo = x.upTo, !.todo = S]
  OBVIOUS
<1>7. request' = [request EXCEPT ![r] = q]
  BY <1>1, <1>4, <1>6 DEF Owned!Refresh
<1>8. q \in ReaderRun /\ q.pc = "refresh" /\ q.map = x.map /\ q.upTo = x.upTo /\ q.todo = S
      /\ q.snap = Owned!NoSnap
  BY <1>5, <1>6 DEF ReaderRun, Owned!Idle, Owned!NoSnap, Owned!Snaps
<1>9. S \subseteq 1..head
  <2>1. ASSUME NEW t \in S PROVE t \in 1..head
    <3>1. x.map \in Readers /\ maps[x.map][t].status = "OPEN" /\ t \in Owned!Tickets
      BY <1>1, <1>2, <1>5, <2>1 DEF ReaderFits
    <3>2. t <= head
      BY <3>1 DEF OwnedInv, MapsShape, CellFits
    <3> QED
      BY <3>1, <3>2 DEF OwnedInv, OwnedWorld
  <2> QED
    BY <2>1
<1>10. ReaderFits(q)'
  BY <1>1, <1>2, <1>8, <1>9 DEF ReaderFits, Covered
<1>11. ReadersShape'
  BY <1>2, <1>7, <1>10, ReaderMoves
<1> QED
  BY <1>3, <1>11 DEF OwnedInv

\* A request that is done replaces the entry, and what no one holds is gone.
LEMMA StoreKeeps == ASSUME OwnedInv, NEW r \in Readers, Owned!Store(r) PROVE OwnedInv'
<1> USE OwnedConstants
<1>1. PICK x \in ReaderRun : x = request[r] /\ ReaderFits(x)
  BY DEF OwnedInv, ReadersShape, ReaderFits
<1>2. x.pc = "refresh" /\ x.todo = {} /\ UNCHANGED <<head, market, bought, active, missed, readFaults>>
      /\ entry' = [map |-> x.map, upTo |-> x.upTo] /\ request' = [request EXCEPT ![r] = Owned!Idle]
  BY <1>1 DEF Owned!Store, Owned!CursorAfter
<1>3. PICK none : none = [t \in Owned!Tickets |-> Owned!Absent]
  OBVIOUS
<1>4. /\ maps' = [m \in Readers |-> maps'[m]] /\ maps'[x.map] = maps[x.map] /\ x.map \in Readers
      /\ \A m \in Readers : maps'[m] = maps[m] \/ maps'[m] = none
      /\ \A p \in Readers \ {r} : request[p].map \in Readers => maps'[request[p].map] = maps[request[p].map]
  <2>1. x.map \in Readers
    BY <1>1, <1>2 DEF ReaderFits
  <2> QED
    BY <1>1, <1>3, <2>1 DEF Owned!Store
<1>5. OwnedFlags' /\ OwnedWorld'
  BY <1>2 DEF OwnedInv, OwnedFlags, OwnedWorld
<1>6. MapsShape'
  <2>1. ASSUME NEW t \in Owned!Tickets PROVE none[t] \in Owned!Shown /\ CellFits(t, none[t])
    BY <1>3 DEF Owned!Absent, Owned!Shown, CellFits, ResultFits
  <2>2. none \in [Owned!Tickets -> Owned!Shown]
    BY <1>3, <2>1
  <2>3. ASSUME NEW t \in Owned!Tickets, NEW s, CellFits(t, s) PROVE CellFits(t, s)'
    BY <1>2, <2>3 DEF CellFits, ResultFits
  <2>4. maps' \in [Readers -> [Owned!Tickets -> Owned!Shown]]
    BY <1>4, <2>2 DEF OwnedInv, MapsShape
  <2> QED
    BY <1>4, <2>1, <2>3, <2>4 DEF OwnedInv, MapsShape
<1>7. EntryFits'
  <2>1. Covered(x.map, x.upTo, {}) /\ x.upTo \in 0..Blocks /\ x.upTo <= head
    BY <1>1, <1>2 DEF ReaderFits, ReaderRun
  <2>2. Covered(x.map, x.upTo, {})'
    BY <1>2, <1>4, <2>1, CoveredStays
  <2>3. entry' \in [map : Readers \cup {"none"}, upTo : 0..Blocks] /\ entry'.map = x.map
        /\ entry'.upTo = x.upTo
    BY <1>2, <1>4, <2>1
  <2> QED
    BY <1>2, <2>1, <2>2, <2>3 DEF EntryFits
<1>8. ReaderFits(Owned!Idle)'
  <2>1. Owned!Idle \in ReaderRun /\ Owned!Idle.pc = "idle" /\ Owned!Idle.todo = {} /\ Owned!Idle.upTo = 0
        /\ Owned!Idle.snap = Owned!NoSnap
    BY DEF Owned!Idle, ReaderRun, Owned!Snaps, Owned!NoSnap
  <2> QED
    BY <1>2, <2>1 DEF ReaderFits, OwnedInv, OwnedWorld
<1>9. ReadersShape'
  <2>1. \A p \in Readers \ {r}, u \in Owned!Tickets : request[p].pc # "idle" =>
             (maps[request[p].map][u].status # "absent" => maps'[request[p].map][u].status # "absent")
    BY <1>4 DEF OwnedInv, ReadersShape, ReaderFits
  <2>2. PICK q : q = Owned!Idle
    OBVIOUS
  <2> QED
    BY <1>2, <1>8, <2>1, <2>2, ReaderMoves
<1> QED
  BY <1>5, <1>6, <1>7, <1>9 DEF OwnedInv

\* A restart forgets all but the chain.
LEMMA OwnedRestartKeeps == OwnedInv /\ Owned!Restart => OwnedInv'
<1> SUFFICES ASSUME OwnedInv, Owned!Restart PROVE OwnedInv'
  OBVIOUS
<1> USE OwnedConstants DEF Owned!Restart
<1>1. UNCHANGED <<head, market, bought>> /\ missed' = {} /\ active' = FALSE /\ entry' = Owned!NoEntry
  OBVIOUS
<1>2. OwnedFlags'
  BY DEF OwnedFlags
<1>3. OwnedWorld'
  <2>1. readFaults' \in 0..ReadFaults
    BY OwnedFaults
  <2> QED
    BY <1>1, <2>1 DEF OwnedInv, OwnedWorld
<1>4. MapsShape'
  <2>1. ASSUME NEW t \in Owned!Tickets PROVE Owned!Absent \in Owned!Shown /\ CellFits(t, Owned!Absent)'
    BY DEF Owned!Absent, Owned!Shown, CellFits, ResultFits
  <2>2. PICK none : none = [t \in Owned!Tickets |-> Owned!Absent]
    OBVIOUS
  <2>3. none \in [Owned!Tickets -> Owned!Shown]
    BY <2>1, <2>2
  <2>4. maps' = [r \in Readers |-> none]
    BY <2>2
  <2> QED
    BY <2>1, <2>2, <2>3, <2>4 DEF MapsShape
<1>5. EntryFits'
  BY <1>1 DEF OwnedInv, OwnedWorld, EntryFits, Owned!NoEntry
<1>6. ReadersShape'
  <2>1. Owned!Idle \in ReaderRun /\ Owned!Idle.pc = "idle" /\ Owned!Idle.todo = {} /\ Owned!Idle.upTo = 0
        /\ Owned!Idle.snap = Owned!NoSnap
    BY DEF Owned!Idle, ReaderRun, Owned!Snaps, Owned!NoSnap
  <2>2. ReaderFits(Owned!Idle)'
    BY <1>1, <2>1 DEF ReaderFits, OwnedInv, OwnedWorld
  <2>3. request' = [r \in Readers |-> Owned!Idle]
    OBVIOUS
  <2>4. ASSUME NEW r \in Readers PROVE ReaderFits(request[r])'
    <3>1. request'[r] = Owned!Idle
      BY <2>3
    <3> QED
      BY <2>2, <3>1 DEF ReaderFits
  <2> QED
    BY <2>3, <2>4 DEF ReadersShape
<1> QED
  BY <1>2, <1>3, <1>4, <1>5, <1>6 DEF OwnedInv

\* The portfolio starts in the invariant.
LEMMA OwnedInvInit == Owned!Init => OwnedInv
<1> SUFFICES ASSUME Owned!Init PROVE OwnedInv
  OBVIOUS
<1> USE OwnedConstants DEF Owned!Init
<1>1. OwnedFlags
  BY DEF OwnedFlags
<1>2. OwnedWorld
  BY DEF OwnedWorld, ActiveSnap, Owned!Active, Owned!Snaps
<1>3. MapsShape
  <2>1. Owned!Absent \in Owned!Shown /\ Owned!Absent.status = "absent" /\ Owned!Absent.result = "none"
    BY DEF Owned!Absent, Owned!Shown
  <2> QED
    BY <2>1 DEF MapsShape, CellFits, ResultFits
<1>4. EntryFits
  BY DEF EntryFits, Owned!NoEntry
<1>5. ReadersShape
  <2>1. Owned!Idle \in ReaderRun /\ Owned!Idle.pc = "idle" /\ Owned!Idle.todo = {} /\ Owned!Idle.upTo = 0
        /\ Owned!Idle.snap = Owned!NoSnap
    BY DEF Owned!Idle, ReaderRun, Owned!Snaps, Owned!NoSnap
  <2>2. ReaderFits(Owned!Idle)
    BY <2>1 DEF ReaderFits
  <2> QED
    BY <2>2 DEF ReadersShape
<1> QED
  BY <1>1, <1>2, <1>3, <1>4, <1>5 DEF OwnedInv

\* Every step of the portfolio keeps it.
LEMMA OwnedInvStep == OwnedInv /\ [Owned!Next]_ownedVars => OwnedInv'
<1> SUFFICES ASSUME OwnedInv, [Owned!Next]_ownedVars PROVE OwnedInv'
  OBVIOUS
<1>1. CASE UNCHANGED ownedVars
  BY <1>1
     DEF ownedVars, OwnedInv, OwnedFlags, OwnedWorld, MapsShape, CellFits, ResultFits, EntryFits,
         Covered,
              ReadersShape, ReaderFits
<1> QED
  BY <1>1, ChainMovesKeep, FinishKeeps, OwnedRestartKeeps, OwnedBeginKeeps, SkipKeeps, ReadKeeps,
     RefreshKeeps, StoreKeeps
     DEF Owned!Next, Owned!Step

\* The invariant gives what the portfolio promises.
LEMMA OwnedInvIsSafe == OwnedInv => Owned!TypeOK /\ Owned!NoTicketIsPassed /\ Owned!ResultsAreTrue
<1> SUFFICES ASSUME OwnedInv PROVE Owned!TypeOK /\ Owned!NoTicketIsPassed /\ Owned!ResultsAreTrue
  OBVIOUS
<1> USE OwnedConstants
<1>1. Owned!TypeOK
  <2>1. head \in 0..Blocks /\ market \in Owned!Snaps /\ missed \subseteq Owned!Tickets /\ readFaults \in 0..ReadFaults
        /\ bought \in [Owned!Tickets -> {"none", "OPEN", "SETTLED", "CANCELLED"}]
    BY DEF OwnedInv, OwnedWorld
  <2>2. entry \in [map : Readers \cup {"none"}, upTo : 0..head]
    BY <2>1 DEF OwnedInv, EntryFits
  <2>3. maps \in [Readers -> [Owned!Tickets -> Owned!Shown]]
    BY DEF OwnedInv, MapsShape
  <2>4. active \in BOOLEAN
    BY DEF OwnedInv, OwnedFlags
  <2>5. ASSUME NEW r \in Readers
        PROVE  /\ request[r].pc \in {"idle", "logs", "refresh"} /\ request[r].map \in Readers \cup {"none"}
               /\ request[r].todo \subseteq 1..head /\ request[r].upTo \in 0..head /\ request[r].snap \in Owned!Snaps
    BY <2>1 DEF OwnedInv, ReadersShape, ReaderFits, ReaderRun
  <2> QED
    BY <2>1, <2>2, <2>3, <2>4, <2>5, Zenon DEF Owned!TypeOK
<1>2. Owned!NoTicketIsPassed
  BY DEF OwnedInv, EntryFits, Covered, Owned!NoTicketIsPassed, Owned!Cached
<1>3. Owned!ResultsAreTrue
  <2>1. SUFFICES ASSUME NEW r \in Readers, NEW t \in Owned!Tickets, maps[r][t].result # "none"
                 PROVE  maps[r][t].result = CASE market.winner = Owned!Outcome(t) -> "WIN"
                          [] market.winner = "none" /\ market.status # Owned!Active -> "REFUND"
                          [] OTHER -> IF market.winner # "none" THEN "LOSS" ELSE "none"
    BY Zenon DEF Owned!ResultsAreTrue
  <2>2. ResultFits(t, maps[r][t]) /\ Owned!Outcome(t) # "none"
    BY DEF OwnedInv, MapsShape, CellFits, Owned!Outcome
  <2>3. CASE market.status = "RESOLVED"
    <3>1. market.winner # "none"
          /\ maps[r][t].result = IF Owned!Outcome(t) = market.winner THEN "WIN" ELSE "LOSS"
      BY <2>1, <2>2, <2>3 DEF OwnedInv, OwnedWorld, ActiveSnap, ResultFits
    <3> QED
      BY <3>1
  <2>4. CASE market.status = "CANCELLED"
    <3>1. market.winner = "none" /\ maps[r][t].result = "REFUND"
      BY <2>1, <2>2, <2>4 DEF OwnedInv, OwnedWorld, ActiveSnap, ResultFits
    <3> QED
      BY <2>2, <2>4, <3>1 DEF Owned!Active
  <2> QED
    BY <2>1, <2>2, <2>3, <2>4 DEF ResultFits
<1> QED
  BY <1>1, <1>2, <1>3

---------------------------------------------------------------------------
(* The market cycle and the product tours (MarketCycle). *)

Rounds == Cycle!Rounds
CycleWorkers == Cycle!Workers
CacheRecord == [at : {"cold", "stale", "fresh"}, all : [Rounds -> Cycle!Statuses]]
LoadRecord == [under : BOOLEAN, seen : [Rounds -> Cycle!Statuses]]
WorkRecord == [pc : Cycle!Labels, now : [Rounds -> Cycle!Ages], list : [Rounds -> Cycle!Shown], mine : {0} \cup Rounds]

CycleWorld ==
    /\ status \in [Rounds -> Cycle!Statuses] /\ roundAge \in [Rounds -> Cycle!Ages]
    /\ settled \subseteq Rounds /\ (\A m \in settled : status[m] \in Cycle!Final)
    /\ incidents \in 0..MaxIncidents

CycleFlags == calm \in BOOLEAN

\* A round that once was seen exists, and one that was seen final is final.
Follows(seen, is) == (seen \in Cycle!Final => is \in Cycle!Final) /\ (seen # "none" => is # "none")

CycleViews ==
    /\ cache \in [Procs -> CacheRecord] /\ load \in [Procs -> LoadRecord]
    /\ desk \in [Procs -> {"unknown", "open", "empty"}] /\ hidden \in [Procs -> SUBSET Rounds]
    /\ \A p \in Procs, m \in Rounds :
         Follows(cache[p].all[m], status[m]) /\ Follows(load[p].seen[m], status[m])

WorkFits(r) ==
    /\ r \in WorkRecord /\ \A m \in Rounds : Follows(r.list[m], status[m])
    /\ r.pc = "opening" => r.mine \in Rounds

CycleRuns ==
    /\ run = [w \in CycleWorkers |-> run[w]]
    /\ \A w \in CycleWorkers : WorkFits(run[w])

LeaseFits(w, r) ==
    /\ lease["market-create"] = w => r.pc \in Cycle!CreateLabels
    /\ lease["market-cycle"] = w => Cycle!IsCycle(w) /\ r.pc \in Cycle!CreateLabels \cup Cycle!CycleLabels

CycleLeases ==
    /\ lease \in [Cycle!Locks -> CycleWorkers \cup {Nobody, Crashed}]
    /\ \A w \in CycleWorkers : LeaseFits(w, run[w])

\* A round that takes bets.
Bets(m) == status[m] \in {"Created", "Open"} /\ roundAge[m] = "entry"
Unopened(m) == status[m] = "Created" /\ roundAge[m] = "entry"

\* While no list lagged behind and nothing failed, there is one process from the
\* first round on; its list has every round but one that is being created; and
\* who creates holds the lock and has seen that no round takes bets.
CalmFits ==
    /\ (\E m \in Rounds : status[m] # "none") => \A p, q \in Procs : p = q
    /\ \A p \in Procs, m \in Rounds :
         cache[p].all[m] = status[m] \/ (status[m] = "Created" /\ cache[p].all[m] = "none")
    /\ \A p \in Procs, m \in Rounds : m \in hidden[p] => status[m] \in Cycle!Final
    /\ \A w \in CycleWorkers : run[w].pc \in Cycle!CreateLabels => lease["market-create"] = w
    /\ \A m \in Rounds : Unopened(m) => \E w \in CycleWorkers : run[w].pc = "opening" /\ run[w].mine = m
    /\ (\E w \in CycleWorkers : run[w].pc = "creating") => \A m \in Rounds : ~Bets(m)
    /\ \A m, n \in Rounds : Bets(m) /\ Bets(n) => m = n

CalmKept == calm => CalmFits

CycleInv == CycleWorld /\ CycleFlags /\ CycleViews /\ CycleRuns /\ CycleLeases /\ CalmKept

\* The constants of the cycle.
LEMMA CycleConstants ==
    /\ MaxRounds \in Nat \ {0} /\ MaxIncidents \in Nat /\ Tours \subseteq Procs
    /\ Nobody \notin CycleWorkers /\ Crashed \notin CycleWorkers /\ Nobody # Crashed
    /\ Rounds = 1..MaxRounds
BY RequestsAssumption DEF Cycle!CycleAssumption, CycleWorkers, Rounds, Cycle!Rounds

\* A worker is one of a process.
LEMMA WorkerProc ==
    ASSUME NEW w \in CycleWorkers PROVE Cycle!Proc(w) \in Procs /\ w \in {Cycle!Proc(w)} \X {"cycle", "tour"}
BY CycleConstants DEF CycleWorkers, Cycle!Workers, Cycle!Proc

\* The labels are few.
LEMMA WorkLabels ==
    /\ Cycle!CreateLabels = {"lookingAgain", "creating", "opening", "leaving"}
    /\ Cycle!CycleLabels = {"listing", "resolving", "paying", "settling", "clearing", "locking", "hiding", "ending"}
    /\ Cycle!Labels = {"idle", "stuck"} \cup Cycle!CreateLabels \cup Cycle!CycleLabels
    /\ Cycle!Final = {"Resolved", "Cancelled"} /\ Cycle!Locks = {"market-cycle", "market-create"}
BY DEF Cycle!CreateLabels, Cycle!CycleLabels, Cycle!Labels, Cycle!Final, Cycle!Locks

\* The workers and the leases when one worker becomes r.
LEMMA WorkMoves ==
    ASSUME CycleRuns, CycleLeases, NEW w \in CycleWorkers,
           NEW r, Cycle!Becomes(w, r), WorkFits(r)', LeaseFits(w, r)',
           \A m \in Rounds : Follows(status[m], status'[m]),
           lease' \in [Cycle!Locks -> CycleWorkers \cup {Nobody, Crashed}],
           \A v \in CycleWorkers, k \in Cycle!Locks : v # w /\ lease'[k] = v => lease[k] = v
    PROVE  /\ CycleRuns' /\ CycleLeases' /\ run'[w] = r
           /\ \A v \in CycleWorkers : v # w => run'[v] = run[v]
<1>1. run' = [v \in CycleWorkers |-> run'[v]] /\ run'[w] = r
      /\ \A v \in CycleWorkers : v # w => run'[v] = run[v]
  BY DEF CycleRuns, Cycle!Becomes
<1>2. ASSUME NEW v \in CycleWorkers PROVE WorkFits(run[v])' /\ LeaseFits(v, run[v])'
  <2>1. CASE v = w
    BY <1>1, <2>1 DEF WorkFits, LeaseFits
  <2>2. CASE v # w
    <3>1. WorkFits(run[v])'
      BY <1>1, <2>2 DEF CycleRuns, WorkFits, Follows
    <3>2. LeaseFits(v, run[v])'
      <4>1. lease'["market-create"] = v => lease["market-create"] = v
        BY <2>2, WorkLabels
      <4>2. lease'["market-cycle"] = v => lease["market-cycle"] = v
        BY <2>2, WorkLabels
      <4> QED
        BY <1>1, <2>2, <4>1, <4>2 DEF CycleLeases, LeaseFits
    <3> QED
      BY <3>1, <3>2
  <2> QED
    BY <2>1, <2>2
<1> QED
  BY <1>1, <1>2 DEF CycleRuns, CycleLeases

\* What is not broken stays: the calm of a step that makes no round take bets.
LEMMA CalmStays ==
    ASSUME CalmFits,
           \A n \in Rounds : Bets(n)' => Bets(n),
           \A n \in Rounds : Unopened(n)' => Unopened(n),
           \A n \in Rounds : status[n] = "none" => status'[n] = "none",
           \A p \in Procs, m \in Rounds :
             cache'[p].all[m] = status'[m] \/ (status'[m] = "Created" /\ cache'[p].all[m] = "none"),
           \A p \in Procs, m \in Rounds : m \in hidden'[p] => status'[m] \in Cycle!Final,
           \A v \in CycleWorkers : run'[v].pc \in Cycle!CreateLabels => lease'["market-create"] = v,
           \A v \in CycleWorkers, n \in Rounds : run[v].pc = "opening" /\ run[v].mine = n /\ Unopened(n)'
             => run'[v].pc = "opening" /\ run'[v].mine = n,
           \A v \in CycleWorkers : run'[v].pc = "creating" => run[v].pc = "creating" \/ \A n \in Rounds : ~Bets(n)
    PROVE  CalmFits'
<1>1. (\E m \in Rounds : status'[m] # "none") => \A p, q \in Procs : p = q
  BY DEF CalmFits
<1>2. \A m \in Rounds : Unopened(m)' => \E w \in CycleWorkers : run'[w].pc = "opening" /\ run'[w].mine = m
  BY DEF CalmFits
<1>3. ASSUME NEW w \in CycleWorkers, run'[w].pc = "creating", NEW m \in Rounds PROVE ~Bets(m)'
  BY <1>3 DEF CalmFits
<1>4. \A m, n \in Rounds : Bets(m)' /\ Bets(n)' => m = n
  BY DEF CalmFits
<1> QED
  BY <1>1, <1>2, <1>3, <1>4 DEF CalmFits

\* Without an incident the calm of before was the calm of now.
LEMMA CalmBefore ==
    ASSUME CycleInv, calm' => calm PROVE calm' => CalmFits
BY DEF CycleInv, CalmKept

\* What a process's list shows.
LEMMA ListFits ==
    ASSUME CycleWorld, CycleViews, NEW p \in Procs
    PROVE  /\ Cycle!List(p) \in [Rounds -> Cycle!Shown]
           /\ \A m \in Rounds : /\ Follows(Cycle!List(p)[m], status[m])
                                /\ Cycle!List(p)[m] = Cycle!Displayed(cache[p].all[m], m)
<1>1. Cycle!List(p) = [m \in Rounds |-> Cycle!Displayed(cache[p].all[m], m)]
  BY DEF Cycle!List, Rounds
<1>2. ASSUME NEW m \in Rounds
      PROVE  /\ Cycle!Displayed(cache[p].all[m], m) \in Cycle!Shown
             /\ Follows(Cycle!Displayed(cache[p].all[m], m), status[m])
  <2>1. cache[p].all[m] \in Cycle!Statuses /\ Follows(cache[p].all[m], status[m])
    BY DEF CycleViews, CacheRecord
  <2> QED
    BY <2>1 DEF Cycle!Displayed, Cycle!Shown, Cycle!Final, Follows
<1> QED
  BY <1>1, <1>2

\* What a worker holds when it goes on to a label.
LEMMA GoesFits ==
    ASSUME CycleRuns, NEW w \in CycleWorkers, NEW label \in Cycle!Labels \ {"opening"}
    PROVE  /\ [run[w] EXCEPT !.pc = label] \in WorkRecord /\ WorkFits([run[w] EXCEPT !.pc = label])
           /\ [run[w] EXCEPT !.pc = label].pc = label
<1>1. PICK s \in WorkRecord : s = run[w] /\ WorkFits(s)
  BY DEF CycleRuns, WorkFits
<1> QED
  BY <1>1 DEF WorkFits, WorkRecord

\* What it holds when it is done with a round of its list.
LEMMA PastFits ==
    ASSUME CycleRuns, NEW w \in CycleWorkers, NEW m \in Rounds, NEW label \in Cycle!Labels
    PROVE  /\ Cycle!Past(w, m, label) \in WorkRecord /\ Cycle!Past(w, m, label).pc = label
           /\ Cycle!Past(w, m, label).mine = run[w].mine
           /\ \A n \in Rounds : Cycle!Past(w, m, label).list[n] \in {"none", run[w].list[n]}
<1>1. PICK s \in WorkRecord : s = run[w]
  BY DEF CycleRuns, WorkFits
<1>2. "none" \in Cycle!Shown
  BY DEF Cycle!Shown, Cycle!Statuses
<1>3. PICK f \in [Rounds -> Cycle!Shown] : f = s.list
  BY <1>1 DEF WorkRecord
<1>4. [f EXCEPT ![m] = "none"] \in [Rounds -> Cycle!Shown]
      /\ \A n \in Rounds : [f EXCEPT ![m] = "none"][n] \in {"none", f[n]}
  BY <1>2, <1>3
<1>5. Cycle!Past(w, m, label) = [s EXCEPT !.pc = label, !.list = [f EXCEPT ![m] = "none"]]
  BY <1>1, <1>3 DEF Cycle!Past, WorkRecord
<1> QED
  BY <1>1, <1>3, <1>4, <1>5 DEF WorkRecord

\* A worker at rest.
LEMMA IdleFits ==
    /\ Cycle!Idle.pc = "idle" /\ WorkFits(Cycle!Idle)
    /\ \A label \in Cycle!Labels \ {"opening"} :
         WorkFits([Cycle!Idle EXCEPT !.pc = label]) /\ [Cycle!Idle EXCEPT !.pc = label].pc = label
<1>1. Cycle!Idle = [pc |-> "idle", now |-> [m \in Rounds |-> "entry"], list |-> [m \in Rounds |-> "none"], mine |-> 0]
  BY DEF Cycle!Idle, Cycle!NothingListed, Rounds
<1>2. "none" \in Cycle!Shown /\ "entry" \in Cycle!Ages /\ "idle" \in Cycle!Labels
      /\ "none" \notin Cycle!Final
  BY DEF Cycle!Shown, Cycle!Statuses, Cycle!Ages, Cycle!Labels, Cycle!Final
<1> QED
  BY <1>1, <1>2 DEF WorkFits, WorkRecord, Follows

\* What happens to the calm.
LEMMA EventFits ==
    ASSUME CycleInv, Cycle!Uneventful \/ Cycle!Incident
    PROVE  incidents' \in 0..MaxIncidents /\ calm' \in BOOLEAN /\ (calm' => calm)
<1>1. incidents \in 0..MaxIncidents /\ calm \in BOOLEAN /\ MaxIncidents \in Nat
  BY CycleConstants, Zenon DEF CycleInv, CycleWorld, CycleFlags
<1>2. CASE Cycle!Uneventful
  <2>1. incidents' = incidents /\ calm' = calm
    BY <1>2, Zenon DEF Cycle!Uneventful
  <2> QED
    BY <1>1, <2>1, Zenon
<1>3. CASE Cycle!Incident
  <2>1. incidents < MaxIncidents /\ incidents' = incidents + 1
    BY <1>3, Zenon DEF Cycle!Incident
  <2>2. incidents' \in 0..MaxIncidents
    BY <1>1, <2>1
  <2>3. calm' = FALSE
    BY <1>3, Zenon DEF Cycle!Incident
  <2> QED
    BY <2>2, <2>3, Zenon
<1> QED
  BY <1>2, <1>3

\* After an incident nothing is promised.
LEMMA IncidentFits ==
    ASSUME CycleInv, Cycle!Incident PROVE CalmKept' /\ ~calm'
BY Zenon DEF Cycle!Incident, CalmKept

\* A step of one worker that leaves the chain and the lists as they are.
LEMMA WorkKeeps ==
    ASSUME CycleInv, NEW w \in CycleWorkers, NEW r, Cycle!Becomes(w, r),
           UNCHANGED <<status, roundAge, cache, load, desk>>,
           settled' \subseteq Rounds, \A m \in settled' : status[m] \in Cycle!Final,
           hidden' \in [Procs -> SUBSET Rounds],
           \A p \in Procs, m \in Rounds : m \in hidden'[p] => m \in hidden[p] \/ status[m] \in Cycle!Final,
           incidents' \in 0..MaxIncidents, calm' \in BOOLEAN, calm' => calm,
           WorkFits(r), LeaseFits(w, r)',
           lease' \in [Cycle!Locks -> CycleWorkers \cup {Nobody, Crashed}],
           \A v \in CycleWorkers, k \in Cycle!Locks : v # w => (lease'[k] = v <=> lease[k] = v),
           run[w].pc = "opening" => ~Unopened(run[w].mine),
           calm' /\ CalmFits => /\ r.pc \in Cycle!CreateLabels => lease'["market-create"] = w
                                /\ r.pc = "creating" => \A n \in Rounds : ~Bets(n)
    PROVE  CycleInv'
<1>1. CycleWorld /\ CycleViews /\ CycleRuns /\ CycleLeases
  BY DEF CycleInv
<1>2. CycleWorld'
  BY <1>1 DEF CycleWorld
<1>3. CycleFlags'
  BY Zenon DEF CycleFlags
<1>4. CycleViews'
  BY <1>1 DEF CycleViews
<1>5. WorkFits(r)' /\ \A m \in Rounds : Follows(status[m], status'[m])
  BY DEF WorkFits, Follows
<1>6. CycleRuns' /\ CycleLeases' /\ run'[w] = r /\ \A v \in CycleWorkers : v # w => run'[v] = run[v]
  BY <1>1, <1>5, WorkMoves
<1>7. CalmKept'
  <2>1. SUFFICES ASSUME calm' PROVE CalmFits'
    BY DEF CalmKept
  <2>2. CalmFits
    BY <2>1, CalmBefore
  <2>3. \A n \in Rounds : (Bets(n)' <=> Bets(n)) /\ (Unopened(n)' <=> Unopened(n))
    BY DEF Bets, Unopened
  <2>4. \A p \in Procs, m \in Rounds :
          /\ cache'[p].all[m] = status'[m] \/ (status'[m] = "Created" /\ cache'[p].all[m] = "none")
          /\ m \in hidden'[p] => status'[m] \in Cycle!Final
    BY <2>2 DEF CalmFits
  <2>5. ASSUME NEW v \in CycleWorkers, run'[v].pc \in Cycle!CreateLabels PROVE lease'["market-create"] = v
    BY <1>6, <2>1, <2>2, <2>5, WorkLabels DEF CalmFits
  <2>6. ASSUME NEW v \in CycleWorkers, NEW n \in Rounds, run[v].pc = "opening" /\ run[v].mine = n /\ Unopened(n)'
        PROVE  run'[v].pc = "opening" /\ run'[v].mine = n
    BY <1>6, <2>3, <2>6
  <2>7. ASSUME NEW v \in CycleWorkers, run'[v].pc = "creating" PROVE run[v].pc = "creating" \/ \A n \in Rounds : ~Bets(n)
    BY <1>6, <2>1, <2>2, <2>7
  <2> QED
    BY <2>2, <2>3, <2>4, <2>5, <2>6, <2>7, CalmStays
<1> QED
  BY <1>2, <1>3, <1>4, <1>6, <1>7 DEF CycleInv

\* Such a step that leaves the locks, what is settled and what is hidden.
LEMMA PlainWork ==
    ASSUME CycleInv, NEW w \in CycleWorkers, NEW r, Cycle!Becomes(w, r),
           UNCHANGED <<status, roundAge, settled, cache, load, desk, hidden, lease>>,
           incidents' \in 0..MaxIncidents, calm' \in BOOLEAN, calm' => calm,
           WorkFits(r), LeaseFits(w, r), run[w].pc = "opening" => ~Unopened(run[w].mine),
           calm' /\ CalmFits => /\ r.pc \in Cycle!CreateLabels => lease["market-create"] = w
                                /\ r.pc = "creating" => \A n \in Rounds : ~Bets(n)
    PROVE  CycleInv'
<1>1. /\ settled' \subseteq Rounds /\ \A m \in settled' : status[m] \in Cycle!Final
      /\ hidden' \in [Procs -> SUBSET Rounds] /\ lease' \in [Cycle!Locks -> CycleWorkers \cup {Nobody, Crashed}]
  BY DEF CycleInv, CycleWorld, CycleViews, CycleLeases
<1>2. LeaseFits(w, r)'
  BY DEF LeaseFits
<1> QED
  BY <1>1, <1>2, WorkKeeps

\* The locks of a worker that goes from one label of the cycle, or of the
\* creation, to another.
LEMMA SameLocks ==
    ASSUME CycleInv, NEW w \in CycleWorkers, NEW r,
           \/ r.pc \in Cycle!CreateLabels /\ run[w].pc \in Cycle!CreateLabels
           \/ r.pc \in Cycle!CycleLabels /\ run[w].pc \in Cycle!CycleLabels
    PROVE  LeaseFits(w, r)
BY WorkLabels DEF CycleInv, CycleLeases, LeaseFits

\* The cycle looks at the list and starts on it.
LEMMA FirstListKeeps ==
    ASSUME CycleInv, NEW w \in CycleWorkers, Cycle!FirstList(w) PROVE CycleInv'
<1> DEFINE r == [run[w] EXCEPT !.pc = "resolving", !.now = roundAge, !.list = Cycle!List(Cycle!Proc(w))]
<1>1. Cycle!Becomes(w, r) /\ UNCHANGED <<status, roundAge, settled, cache, load, desk, hidden, lease>>
      /\ run[w].pc = "listing"
  BY DEF Cycle!FirstList, Cycle!chain, Cycle!views, Cycle!Is
<1>2. incidents' \in 0..MaxIncidents /\ calm' \in BOOLEAN /\ (calm' => calm)
  BY EventFits, Zenon DEF Cycle!FirstList, Cycle!Listing
<1>3. /\ Cycle!List(Cycle!Proc(w)) \in [Rounds -> Cycle!Shown]
      /\ \A m \in Rounds : Follows(Cycle!List(Cycle!Proc(w))[m], status[m])
  BY ListFits, WorkerProc DEF CycleInv
<1>4. PICK s \in WorkRecord : s = run[w]
  BY DEF CycleInv, CycleRuns, WorkFits
<1>5. r \in WorkRecord /\ r.pc = "resolving" /\ r.list = Cycle!List(Cycle!Proc(w))
  BY <1>3, <1>4, WorkLabels DEF WorkRecord, CycleInv, CycleWorld
<1>6. WorkFits(r)
  BY <1>3, <1>5 DEF WorkFits
<1> HIDE DEF r
<1>7. LeaseFits(w, r)
  BY <1>1, <1>5, SameLocks, WorkLabels
<1> QED
  BY <1>1, <1>2, <1>5, <1>6, <1>7, PlainWork, WorkLabels

\* It looks again when all is resolved and settled.
LEMMA SecondListKeeps ==
    ASSUME CycleInv, NEW w \in CycleWorkers, Cycle!SecondList(w) PROVE CycleInv'
<1> DEFINE r == [run[w] EXCEPT !.pc = "clearing", !.list = Cycle!List(Cycle!Proc(w))]
<1>1. Cycle!Becomes(w, r) /\ UNCHANGED <<status, roundAge, settled, cache, load, desk, hidden, lease>>
      /\ run[w].pc \in {"resolving", "settling"}
  BY DEF Cycle!SecondList, Cycle!chain, Cycle!views, Cycle!Is
<1>2. incidents' \in 0..MaxIncidents /\ calm' \in BOOLEAN /\ (calm' => calm)
  BY EventFits, Zenon DEF Cycle!SecondList, Cycle!Listing
<1>3. /\ Cycle!List(Cycle!Proc(w)) \in [Rounds -> Cycle!Shown]
      /\ \A m \in Rounds : Follows(Cycle!List(Cycle!Proc(w))[m], status[m])
  BY ListFits, WorkerProc DEF CycleInv
<1>4. PICK s \in WorkRecord : s = run[w]
  BY DEF CycleInv, CycleRuns, WorkFits
<1>5. r \in WorkRecord /\ r.pc = "clearing" /\ r.list = Cycle!List(Cycle!Proc(w))
  BY <1>3, <1>4, WorkLabels DEF WorkRecord
<1>6. WorkFits(r)
  BY <1>3, <1>5 DEF WorkFits
<1> HIDE DEF r
<1>7. LeaseFits(w, r)
  BY <1>1, <1>5, SameLocks, WorkLabels
<1> QED
  BY <1>1, <1>2, <1>5, <1>6, <1>7, PlainWork, WorkLabels

\* It decides whether a round is wanted.
LEMMA DecideKeeps ==
    ASSUME CycleInv, NEW w \in CycleWorkers, Cycle!Decide(w) PROVE CycleInv'
<1>1. PICK label \in {"hiding", "locking"} : Cycle!Becomes(w, [Cycle!Idle EXCEPT !.pc = label])
  BY DEF Cycle!Decide
<1> DEFINE r == [Cycle!Idle EXCEPT !.pc = label]
<1>2. Cycle!Becomes(w, r) /\ UNCHANGED <<status, roundAge, settled, cache, load, desk, hidden, lease>>
      /\ run[w].pc = "clearing"
  BY <1>1 DEF Cycle!Decide, Cycle!chain, Cycle!views, Cycle!Is
<1>3. incidents' \in 0..MaxIncidents /\ calm' \in BOOLEAN /\ (calm' => calm)
  BY EventFits, Zenon DEF Cycle!Decide, Cycle!Uneventful
<1>4. WorkFits(r) /\ r.pc = label
  BY IdleFits, WorkLabels DEF CycleInv
<1> HIDE DEF r
<1>5. LeaseFits(w, r)
  BY <1>2, <1>4, SameLocks, WorkLabels
<1> QED
  BY <1>2, <1>3, <1>4, <1>5, PlainWork, WorkLabels

\* Where a round that takes bets is on the list, none is created.
LEMMA BetsAreListed ==
    ASSUME CycleInv, CalmFits, NEW w \in CycleWorkers, run[w].pc = "lookingAgain",
           NEW m \in Rounds, Bets(m)
    PROVE  LET p == Cycle!Proc(w) IN Cycle!List(p)[m] = "Open" /\ m \notin hidden[p]
<1> DEFINE p == Cycle!Proc(w)
<1>1. p \in Procs
  BY WorkerProc
<1>2. status[m] = "Open" /\ roundAge[m] = "entry"
  <2>1. SUFFICES ASSUME Unopened(m) PROVE FALSE
    BY DEF Bets, Unopened
  <2>2. PICK v \in CycleWorkers : run[v].pc = "opening"
    BY <2>1 DEF CalmFits
  <2>3. lease["market-create"] = v /\ lease["market-create"] = w
    BY <2>2, WorkLabels DEF CalmFits
  <2> QED
    BY <2>2, <2>3
<1>3. cache[p].all[m] = "Open" /\ m \notin hidden[p]
  BY <1>1, <1>2, WorkLabels DEF CalmFits
<1>4. Cycle!List(p)[m] = Cycle!Displayed("Open", m)
  BY <1>1, <1>3, ListFits DEF CycleInv
<1> QED
  BY <1>2, <1>3, <1>4 DEF Cycle!Displayed

\* With the lock, a cycle looks once more before it creates.
LEMMA LookAgainKeeps ==
    ASSUME CycleInv, NEW w \in CycleWorkers, Cycle!LookAgain(w) PROVE CycleInv'
<1> DEFINE p == Cycle!Proc(w)
<1>1. PICK label \in {"creating", "leaving"} :
        /\ Cycle!Becomes(w, [run[w] EXCEPT !.pc = label])
        /\ label = "creating" => Cycle!MayCreate(p)
  BY DEF Cycle!LookAgain, Cycle!Creates, Cycle!Goes
<1> DEFINE r == [run[w] EXCEPT !.pc = label]
<1>2. Cycle!Becomes(w, r) /\ UNCHANGED <<status, roundAge, settled, cache, load, desk, hidden, lease>>
      /\ run[w].pc = "lookingAgain"
  BY <1>1 DEF Cycle!LookAgain, Cycle!chain, Cycle!views, Cycle!Is
<1>3. incidents' \in 0..MaxIncidents /\ calm' \in BOOLEAN /\ (calm' => calm)
  BY EventFits, Zenon DEF Cycle!LookAgain, Cycle!Listing
<1>4. WorkFits(r) /\ r.pc = label
  BY GoesFits, WorkLabels DEF CycleInv
<1> HIDE DEF r
<1>5. LeaseFits(w, r)
  BY <1>2, <1>4, SameLocks, WorkLabels
<1>6. ASSUME CalmFits PROVE lease["market-create"] = w /\ (r.pc = "creating" => \A n \in Rounds : ~Bets(n))
  <2>1. lease["market-create"] = w
    BY <1>2, <1>6, WorkLabels DEF CalmFits
  <2>2. ASSUME r.pc = "creating", NEW n \in Rounds, Bets(n) PROVE FALSE
    <3>1. Cycle!List(p)[n] = "Open" /\ n \notin hidden[p]
      BY <1>2, <1>6, <2>2, BetsAreListed
    <3>2. Cycle!HasActive(p, Cycle!List(p), roundAge)
      BY <3>1 DEF Cycle!HasActive, Cycle!IsHidden, Cycle!IsActiveRoundStatus, Rounds
    <3>3. Cycle!MayCreate(p)
      BY <1>1, <1>4, <2>2
    <3> QED
      BY <3>2, <3>3 DEF Cycle!MayCreate
  <2> QED
    BY <2>1, <2>2
<1> QED
  BY <1>2, <1>3, <1>4, <1>5, <1>6, PlainWork

\* With the lock, a tour looks at what the desk shows.
LEMMA TourLooksKeeps ==
    ASSUME CycleInv, NEW w \in CycleWorkers, Cycle!TourLooks(w) PROVE CycleInv'
<1> DEFINE p == Cycle!Proc(w)
<1>1. PICK label \in {"creating", "leaving"} :
        /\ Cycle!Becomes(w, [run[w] EXCEPT !.pc = label])
        /\ label = "creating" => desk[p] = "empty"
  BY DEF Cycle!TourLooks, Cycle!Creates, Cycle!Goes
<1> DEFINE r == [run[w] EXCEPT !.pc = label]
<1>2. Cycle!Becomes(w, r) /\ UNCHANGED <<status, roundAge, settled, cache, load, desk, hidden, lease>>
      /\ run[w].pc = "lookingAgain"
  BY <1>1 DEF Cycle!TourLooks, Cycle!chain, Cycle!views, Cycle!Is
<1>3. incidents' \in 0..MaxIncidents /\ calm' \in BOOLEAN /\ (calm' => calm)
  <2>1. incidents' \in 0..MaxIncidents
    BY DEF Cycle!TourLooks, CycleInv, CycleWorld
  <2>2. calm' = (calm /\ (desk[p] = "open") = Cycle!ShowsOpen(p))
    BY Zenon DEF Cycle!TourLooks
  <2>3. calm' \in BOOLEAN /\ (calm' => calm)
    BY <2>2, Zenon DEF CycleInv, CycleFlags
  <2> QED
    BY <2>1, <2>3
<1>4. WorkFits(r) /\ r.pc = label
  BY GoesFits, WorkLabels DEF CycleInv
<1> HIDE DEF r
<1>5. LeaseFits(w, r)
  BY <1>2, <1>4, SameLocks, WorkLabels
<1>6. ASSUME calm', CalmFits PROVE lease["market-create"] = w /\ (r.pc = "creating" => \A n \in Rounds : ~Bets(n))
  <2>1. lease["market-create"] = w
    BY <1>2, <1>6, WorkLabels DEF CalmFits
  <2>2. ASSUME r.pc = "creating", NEW n \in Rounds, Bets(n) PROVE FALSE
    <3>1. Cycle!List(p)[n] = "Open" /\ n \notin hidden[p]
      BY <1>2, <1>6, <2>2, BetsAreListed
    <3>2. Cycle!ShowsOpen(p)
      BY <3>1 DEF Cycle!ShowsOpen, Cycle!IsHidden, Rounds
    <3>3. desk[p] # "open"
      BY <1>1, <1>4, <2>2
    <3>4. (desk[p] = "open") = Cycle!ShowsOpen(p)
      BY <1>6, Zenon DEF Cycle!TourLooks
    <3> QED
      BY <3>2, <3>3, <3>4
  <2> QED
    BY <2>1, <2>2
<1> QED
  BY <1>2, <1>3, <1>4, <1>5, <1>6, PlainWork

\* The round it made can no longer be opened.
LEMMA OpenTooLateKeeps ==
    ASSUME CycleInv, NEW w \in CycleWorkers, Cycle!OpenTooLate(w) PROVE CycleInv'
<1> DEFINE r == [run[w] EXCEPT !.pc = "leaving", !.mine = 0]
<1>1. Cycle!Becomes(w, r) /\ UNCHANGED <<status, roundAge, settled, cache, load, desk, hidden, lease>>
      /\ run[w].pc = "opening" /\ ~Unopened(run[w].mine)
  BY DEF Cycle!OpenTooLate, Cycle!chain, Cycle!views, Cycle!Is, Cycle!CanOpen, Unopened
<1>2. incidents' \in 0..MaxIncidents /\ calm' \in BOOLEAN /\ (calm' => calm)
  BY EventFits, Zenon DEF Cycle!OpenTooLate, Cycle!Uneventful
<1>3. PICK s \in WorkRecord : s = run[w] /\ WorkFits(s)
  BY DEF CycleInv, CycleRuns, WorkFits
<1>4. WorkFits(r) /\ r.pc = "leaving"
  BY <1>3, WorkLabels DEF WorkFits, WorkRecord
<1> HIDE DEF r
<1>5. LeaseFits(w, r)
  BY <1>1, <1>4, SameLocks, WorkLabels
<1>6. CalmFits => lease["market-create"] = w
  BY <1>1, WorkLabels DEF CalmFits
<1> QED
  BY <1>1, <1>2, <1>4, <1>5, <1>6, PlainWork

\* A call fails, and the locks are given back.
LEMMA ThrowKeeps ==
    ASSUME CycleInv, NEW w \in CycleWorkers, Cycle!Throw(w) PROVE CycleInv'
<1>1. PICK label \in {"ending", "leaving"} :
        /\ Cycle!Becomes(w, [Cycle!Idle EXCEPT !.pc = label])
        /\ label = IF run[w].pc \in Cycle!CreateLabels THEN "leaving" ELSE "ending"
  BY DEF Cycle!Throw
<1> DEFINE r == [Cycle!Idle EXCEPT !.pc = label]
<1>2. Cycle!Becomes(w, r) /\ UNCHANGED <<status, roundAge, settled, cache, load, desk, hidden, lease>>
      /\ run[w].pc \in {"listing", "resolving", "settling", "lookingAgain", "creating", "hiding"}
  BY <1>1 DEF Cycle!Throw, Cycle!chain, Cycle!views
<1>3. incidents' \in 0..MaxIncidents /\ calm' \in BOOLEAN /\ (calm' => calm) /\ ~calm'
  BY EventFits, IncidentFits, Zenon DEF Cycle!Throw
<1>4. WorkFits(r) /\ r.pc = label
  BY IdleFits, WorkLabels DEF CycleInv
<1> HIDE DEF r
<1>5. LeaseFits(w, r)
  BY <1>1, <1>2, <1>4, SameLocks, WorkLabels
<1> QED
  BY <1>2, <1>3, <1>4, <1>5, PlainWork

\* The store fails when the lease is asked for.
LEMMA StoreFailsKeeps ==
    ASSUME CycleInv, NEW w \in CycleWorkers, Cycle!StoreFails(w) PROVE CycleInv'
<1> DEFINE r == [run[w] EXCEPT !.pc = "stuck"]
<1>1. Cycle!Becomes(w, r) /\ UNCHANGED <<status, roundAge, settled, cache, load, desk, hidden, lease>>
      /\ run[w].pc = "idle"
  BY DEF Cycle!StoreFails, Cycle!Goes, Cycle!chain, Cycle!views, Cycle!Is
<1>2. incidents' \in 0..MaxIncidents /\ calm' \in BOOLEAN /\ (calm' => calm)
  BY EventFits, Zenon DEF Cycle!StoreFails, Cycle!Uneventful
<1>3. WorkFits(r) /\ r.pc = "stuck"
  BY GoesFits, WorkLabels DEF CycleInv
<1> HIDE DEF r
<1>4. LeaseFits(w, r)
  BY <1>1, <1>3, WorkLabels DEF CycleInv, CycleLeases, LeaseFits
<1> QED
  BY <1>1, <1>2, <1>3, <1>4, PlainWork, WorkLabels

\* The leases are the two locks.
LEMMA LeaseSet ==
    ASSUME CycleInv, NEW k \in Cycle!Locks, NEW h \in CycleWorkers \cup {Nobody, Crashed}
    PROVE  /\ [lease EXCEPT ![k] = h] \in [Cycle!Locks -> CycleWorkers \cup {Nobody, Crashed}]
           /\ [lease EXCEPT ![k] = h][k] = h
           /\ \A j \in Cycle!Locks : j # k => [lease EXCEPT ![k] = h][j] = lease[j]
BY DEF CycleInv, CycleLeases

\* What the steps on the locks leave alone.
LEMMA OthersFit ==
    ASSUME CycleInv, UNCHANGED <<settled, hidden>>
    PROVE  /\ settled' \subseteq Rounds /\ \A m \in settled' : status[m] \in Cycle!Final
           /\ hidden' \in [Procs -> SUBSET Rounds]
           /\ \A p \in Procs, m \in Rounds : m \in hidden'[p] => m \in hidden[p] \/ status[m] \in Cycle!Final
BY DEF CycleInv, CycleWorld, CycleViews

\* A cycle starts.
LEMMA StartCycleKeeps ==
    ASSUME CycleInv, NEW w \in CycleWorkers, Cycle!StartCycle(w) PROVE CycleInv'
<1>0. PICK r : r = [run[w] EXCEPT !.pc = "listing"]
  OBVIOUS
<1>1. /\ Cycle!Becomes(w, r) /\ UNCHANGED <<status, roundAge, settled, cache, load, desk, hidden>>
      /\ run[w].pc = "idle" /\ Cycle!IsCycle(w) /\ lease["market-cycle"] = Nobody
      /\ lease' = [lease EXCEPT !["market-cycle"] = w]
  BY <1>0 DEF Cycle!StartCycle, Cycle!Goes, Cycle!chain, Cycle!views, Cycle!Is
<1>2. incidents' \in 0..MaxIncidents /\ calm' \in BOOLEAN /\ (calm' => calm)
  BY EventFits, Zenon DEF Cycle!StartCycle, Cycle!Uneventful
<1>3. WorkFits(r) /\ r.pc = "listing"
  BY <1>0, GoesFits, WorkLabels DEF CycleInv
<1>4. /\ lease' \in [Cycle!Locks -> CycleWorkers \cup {Nobody, Crashed}]
      /\ lease'["market-cycle"] = w /\ lease'["market-create"] = lease["market-create"]
  BY <1>1, LeaseSet, WorkLabels
<1>5. LeaseFits(w, r)'
  BY <1>1, <1>3, <1>4, WorkLabels DEF CycleInv, CycleLeases, LeaseFits, Cycle!IsCycle
<1>6. \A v \in CycleWorkers, k \in Cycle!Locks : v # w => (lease'[k] = v <=> lease[k] = v)
  BY <1>1, <1>4, CycleConstants, WorkLabels
<1> QED
  BY <1>1, <1>2, <1>3, <1>4, <1>5, <1>6, OthersFit, WorkKeeps, WorkLabels

\* A worker asks for the lock of the creation.
LEMMA LockCreateKeeps ==
    ASSUME CycleInv, NEW w \in CycleWorkers, Cycle!LockCreate(w) PROVE CycleInv'
<1>1. /\ UNCHANGED <<status, roundAge, settled, cache, load, desk, hidden>>
      /\ run[w].pc = "locking" \/ (~Cycle!IsCycle(w) /\ run[w].pc = "idle")
  BY DEF Cycle!LockCreate, Cycle!chain, Cycle!views, Cycle!Is
<1>2. incidents' \in 0..MaxIncidents /\ calm' \in BOOLEAN /\ (calm' => calm)
  BY EventFits, Zenon DEF Cycle!LockCreate, Cycle!Uneventful
<1>3. CASE lease["market-create"] = Nobody
  <2>0. PICK r : r = [run[w] EXCEPT !.pc = "lookingAgain"]
    OBVIOUS
  <2>1. Cycle!Becomes(w, r) /\ lease' = [lease EXCEPT !["market-create"] = w]
    BY <2>0, <1>3 DEF Cycle!LockCreate, Cycle!Goes
  <2>2. WorkFits(r) /\ r.pc = "lookingAgain"
    BY <2>0, GoesFits, WorkLabels DEF CycleInv
  <2>3. /\ lease' \in [Cycle!Locks -> CycleWorkers \cup {Nobody, Crashed}]
        /\ lease'["market-create"] = w /\ lease'["market-cycle"] = lease["market-cycle"]
    BY <2>1, LeaseSet, WorkLabels
  <2>4. LeaseFits(w, r)'
    <3>1. lease["market-cycle"] = w => Cycle!IsCycle(w)
      BY DEF CycleInv, CycleLeases, LeaseFits
    <3> QED
      BY <2>2, <2>3, <3>1, WorkLabels DEF LeaseFits, Cycle!IsCycle
  <2>5. \A v \in CycleWorkers, k \in Cycle!Locks : v # w => (lease'[k] = v <=> lease[k] = v)
    BY <1>3, <2>3, CycleConstants, WorkLabels
  <2> QED
    BY <1>1, <1>2, <2>1, <2>2, <2>3, <2>4, <2>5, OthersFit, WorkKeeps
<1>4. CASE lease["market-create"] # Nobody
  <2>0. PICK r : r = [run[w] EXCEPT !.pc = "hiding"]
    OBVIOUS
  <2>1. Cycle!Becomes(w, r) /\ UNCHANGED lease /\ Cycle!IsCycle(w)
    BY <2>0, <1>4 DEF Cycle!LockCreate, Cycle!Goes
  <2>2. WorkFits(r) /\ r.pc = "hiding"
    BY <2>0, GoesFits, WorkLabels DEF CycleInv
  <2>3. LeaseFits(w, r)
    BY <1>1, <2>1, <2>2, SameLocks, WorkLabels
  <2> QED
    BY <1>1, <1>2, <2>1, <2>2, <2>3, PlainWork, WorkLabels
<1> QED
  BY <1>3, <1>4

\* A worker gives a lock back.
LEMMA Releases ==
    ASSUME CycleInv, NEW w \in CycleWorkers, NEW k \in Cycle!Locks,
           lease' = [lease EXCEPT ![k] = Cycle!Released(k, w)]
    PROVE  /\ lease' \in [Cycle!Locks -> CycleWorkers \cup {Nobody, Crashed}]
           /\ lease'[k] # w /\ \A j \in Cycle!Locks : j # k => lease'[j] = lease[j]
           /\ \A v \in CycleWorkers, j \in Cycle!Locks : v # w => (lease'[j] = v <=> lease[j] = v)
<1>1. Cycle!Released(k, w) \in CycleWorkers \cup {Nobody, Crashed}
  BY DEF Cycle!Released, CycleInv, CycleLeases
<1>2. lease' \in [Cycle!Locks -> CycleWorkers \cup {Nobody, Crashed}] /\ lease'[k] = Cycle!Released(k, w)
      /\ \A j \in Cycle!Locks : j # k => lease'[j] = lease[j]
  BY <1>1, LeaseSet
<1>3. lease'[k] # w
  BY <1>2, CycleConstants DEF Cycle!Released
<1>4. \A v \in CycleWorkers : v # w => (lease'[k] = v <=> lease[k] = v)
  BY <1>2, CycleConstants DEF Cycle!Released
<1> QED
  BY <1>2, <1>3, <1>4

\* A worker is done with the creation.
LEMMA LeaveCreateKeeps ==
    ASSUME CycleInv, NEW w \in CycleWorkers, Cycle!LeaveCreate(w) PROVE CycleInv'
<1>1. PICK r : /\ Cycle!Becomes(w, r)
               /\ r = IF Cycle!IsCycle(w) THEN [run[w] EXCEPT !.pc = "hiding"] ELSE Cycle!Idle
  BY DEF Cycle!LeaveCreate, Cycle!Goes
<1>2. /\ UNCHANGED <<status, roundAge, settled, cache, load, desk, hidden>> /\ run[w].pc = "leaving"
      /\ lease' = [lease EXCEPT !["market-create"] = Cycle!Released("market-create", w)]
  BY DEF Cycle!LeaveCreate, Cycle!chain, Cycle!views, Cycle!Is
<1>3. incidents' \in 0..MaxIncidents /\ calm' \in BOOLEAN /\ (calm' => calm)
  BY EventFits, Zenon DEF Cycle!LeaveCreate, Cycle!Uneventful
<1>4. WorkFits(r) /\ r.pc = IF Cycle!IsCycle(w) THEN "hiding" ELSE "idle"
  BY <1>1, GoesFits, IdleFits, WorkLabels DEF CycleInv
<1>5. /\ lease' \in [Cycle!Locks -> CycleWorkers \cup {Nobody, Crashed}]
      /\ lease'["market-create"] # w /\ lease'["market-cycle"] = lease["market-cycle"]
      /\ \A v \in CycleWorkers, j \in Cycle!Locks : v # w => (lease'[j] = v <=> lease[j] = v)
  BY <1>2, Releases, WorkLabels
<1>6. LeaseFits(w, r)'
  <2>1. lease["market-cycle"] = w => Cycle!IsCycle(w)
    BY DEF CycleInv, CycleLeases, LeaseFits
  <2> QED
    BY <1>4, <1>5, <2>1, WorkLabels DEF LeaseFits, Cycle!IsCycle
<1>7. r.pc \notin Cycle!CreateLabels /\ r.pc # "creating"
  BY <1>4, WorkLabels
<1> QED
  BY <1>1, <1>2, <1>3, <1>4, <1>5, <1>6, <1>7, OthersFit, WorkKeeps, ZenonT(60)

\* A cycle ends.
LEMMA EndCycleKeeps ==
    ASSUME CycleInv, NEW w \in CycleWorkers, Cycle!EndCycle(w) PROVE CycleInv'
<1>1. /\ Cycle!Becomes(w, Cycle!Idle)
      /\ UNCHANGED <<status, roundAge, settled, cache, load, desk, hidden>> /\ run[w].pc = "ending"
      /\ lease' = [lease EXCEPT !["market-cycle"] = Cycle!Released("market-cycle", w)]
  BY DEF Cycle!EndCycle, Cycle!chain, Cycle!views, Cycle!Is
<1>2. incidents' \in 0..MaxIncidents /\ calm' \in BOOLEAN /\ (calm' => calm)
  BY EventFits, Zenon DEF Cycle!EndCycle, Cycle!Uneventful
<1>3. WorkFits(Cycle!Idle) /\ Cycle!Idle.pc = "idle"
  BY IdleFits, WorkLabels DEF CycleInv
<1>4. /\ lease' \in [Cycle!Locks -> CycleWorkers \cup {Nobody, Crashed}]
      /\ lease'["market-cycle"] # w /\ lease'["market-create"] = lease["market-create"]
      /\ \A v \in CycleWorkers, j \in Cycle!Locks : v # w => (lease'[j] = v <=> lease[j] = v)
  BY <1>1, Releases, WorkLabels
<1>5. lease["market-create"] # w
  BY <1>1, WorkLabels DEF CycleInv, CycleLeases, LeaseFits
<1>6. LeaseFits(w, Cycle!Idle)'
  BY <1>4, <1>5 DEF LeaseFits
<1>7. Cycle!Idle.pc \notin Cycle!CreateLabels /\ Cycle!Idle.pc # "creating"
  BY <1>3, WorkLabels
<1> QED
  BY <1>1, <1>2, <1>3, <1>4, <1>6, <1>7, OthersFit, WorkKeeps

\* What the last list shows as finished leaves the public one.
LEMMA ThirdListKeeps ==
    ASSUME CycleInv, NEW w \in CycleWorkers, Cycle!ThirdList(w) PROVE CycleInv'
<1>0. PICK r : r = [run[w] EXCEPT !.pc = "ending"]
  OBVIOUS
<1> DEFINE p == Cycle!Proc(w)  over == {m \in Rounds : Cycle!List(p)[m] \in Cycle!Final}
<1>1. /\ Cycle!Becomes(w, r) /\ UNCHANGED <<status, roundAge, settled, cache, load, desk, lease>>
      /\ run[w].pc = "hiding"
      /\ hidden' = [hidden EXCEPT ![p] = @ \cup over]
  BY <1>0 DEF Cycle!ThirdList, Cycle!Goes, Cycle!chain, Cycle!Is, Rounds
<1>2. incidents' \in 0..MaxIncidents /\ calm' \in BOOLEAN /\ (calm' => calm)
  BY EventFits, Zenon DEF Cycle!ThirdList, Cycle!Listing
<1>3. WorkFits(r) /\ r.pc = "ending"
  BY <1>0, GoesFits, WorkLabels DEF CycleInv
<1>4. \A m \in over : status[m] \in Cycle!Final
  BY ListFits, WorkerProc DEF CycleInv, Follows
<1>5. LeaseFits(w, r)'
  BY <1>1, <1>3, SameLocks, WorkLabels DEF LeaseFits
<1>6. over \subseteq Rounds
  OBVIOUS
<1> HIDE DEF over
<1>7. /\ hidden' \in [Procs -> SUBSET Rounds]
      /\ \A q \in Procs, m \in Rounds : m \in hidden'[q] => m \in hidden[q] \/ status[m] \in Cycle!Final
  BY <1>1, <1>4, <1>6 DEF CycleInv, CycleViews
<1>8. /\ settled' \subseteq Rounds /\ \A m \in settled' : status[m] \in Cycle!Final
      /\ lease' \in [Cycle!Locks -> CycleWorkers \cup {Nobody, Crashed}]
  BY <1>1 DEF CycleInv, CycleWorld, CycleLeases
<1> QED
  BY <1>1, <1>2, <1>3, <1>5, <1>7, <1>8, WorkKeeps, WorkLabels

\* A round's tickets are paid: only a finished round is settled.
LEMMA PayKeeps ==
    ASSUME CycleInv, NEW w \in CycleWorkers, Cycle!Pay(w) PROVE CycleInv'
<1>0. PICK r : r = [run[w] EXCEPT !.pc = "resolving", !.mine = 0]
  OBVIOUS
<1>1. /\ Cycle!Becomes(w, r) /\ UNCHANGED <<status, roundAge, cache, load, desk, hidden, lease>>
      /\ run[w].pc = "paying"
      /\ settled' = settled \/ settled' = settled \cup ({run[w].mine} \cap {m \in Rounds : status[m] \in Cycle!Final})
  BY <1>0 DEF Cycle!Pay, Cycle!views, Cycle!Is, Rounds
<1>2. incidents' \in 0..MaxIncidents /\ calm' \in BOOLEAN /\ (calm' => calm)
  BY EventFits, Zenon DEF Cycle!Pay
<1>3. PICK s \in WorkRecord : s = run[w] /\ WorkFits(s)
  BY DEF CycleInv, CycleRuns, WorkFits
<1>4. WorkFits(r) /\ r.pc = "resolving"
  BY <1>0, <1>3, WorkLabels DEF WorkFits, WorkRecord
<1>5. LeaseFits(w, r)'
  BY <1>1, <1>4, SameLocks, WorkLabels DEF LeaseFits
<1>6. settled' \subseteq Rounds /\ \A m \in settled' : status[m] \in Cycle!Final
  BY <1>1 DEF CycleInv, CycleWorld
<1>7. /\ hidden' \in [Procs -> SUBSET Rounds]
      /\ lease' \in [Cycle!Locks -> CycleWorkers \cup {Nobody, Crashed}]
      /\ \A p \in Procs, m \in Rounds : m \in hidden'[p] => m \in hidden[p] \/ status[m] \in Cycle!Final
  BY <1>1 DEF CycleInv, CycleViews, CycleLeases
<1> QED
  BY <1>1, <1>2, <1>4, <1>5, <1>6, <1>7, WorkKeeps, WorkLabels

\* What the list shows as finished is settled.
LEMMA SettleKeeps ==
    ASSUME CycleInv, NEW w \in CycleWorkers, NEW m \in Rounds, Cycle!Settle(w, m) PROVE CycleInv'
<1>0. PICK r : r = Cycle!Past(w, m, "settling")
  OBVIOUS
<1>1. /\ Cycle!Becomes(w, r) /\ UNCHANGED <<status, roundAge, cache, load, desk, hidden, lease>>
      /\ run[w].pc \in {"settling", "resolving"}
      /\ settled' = settled \/ settled' = settled \cup {m}
  BY <1>0 DEF Cycle!Settle, Cycle!views, Cycle!Is
<1>2. incidents' \in 0..MaxIncidents /\ calm' \in BOOLEAN /\ (calm' => calm)
  BY EventFits, Zenon DEF Cycle!Settle
<1>3. WorkFits(run[w]) /\ run[w].list[m] \in Cycle!Final
  BY DEF CycleInv, CycleRuns, Cycle!Settle, Cycle!Unpaid
<1>4. r \in WorkRecord /\ r.pc = "settling" /\ \A n \in Rounds : r.list[n] \in {"none", run[w].list[n]}
  BY <1>0, PastFits, WorkLabels DEF CycleInv
<1>5. WorkFits(r)
  BY <1>3, <1>4, WorkLabels DEF WorkFits, Follows
<1>6. LeaseFits(w, r)'
  BY <1>1, <1>4, SameLocks, WorkLabels DEF LeaseFits
<1>7. status[m] \in Cycle!Final
  BY <1>3 DEF WorkFits, Follows
<1>8. settled' \subseteq Rounds /\ \A n \in settled' : status[n] \in Cycle!Final
  BY <1>1, <1>7 DEF CycleInv, CycleWorld
<1>9. /\ hidden' \in [Procs -> SUBSET Rounds]
      /\ lease' \in [Cycle!Locks -> CycleWorkers \cup {Nobody, Crashed}]
      /\ \A p \in Procs, n \in Rounds : n \in hidden'[p] => n \in hidden[p] \/ status[n] \in Cycle!Final
  BY <1>1 DEF CycleInv, CycleViews, CycleLeases
<1> QED
  BY <1>1, <1>2, <1>4, <1>5, <1>6, <1>8, <1>9, WorkKeeps, WorkLabels

\* What the chain, the lists and what the processes hide may become.
LEMMA WorldKeeps ==
    ASSUME CycleInv, status' \in [Rounds -> Cycle!Statuses],
           roundAge' \in [Rounds -> Cycle!Ages], UNCHANGED settled,
           \A m \in Rounds : Follows(status[m], status'[m]),
           cache' \in [Procs -> CacheRecord], load' \in [Procs -> LoadRecord],
           \A p \in Procs, m \in Rounds : cache'[p].all[m] \in {cache[p].all[m], load[p].seen[m], status'[m], "none"},
           \A p \in Procs, m \in Rounds : load'[p].seen[m] \in {load[p].seen[m], status[m], "none"},
           desk' \in [Procs -> {"unknown", "open", "empty"}], hidden' \in [Procs -> SUBSET Rounds],
           incidents' \in 0..MaxIncidents, calm' \in BOOLEAN
    PROVE  CycleWorld' /\ CycleFlags' /\ CycleViews'
<1>1. CycleWorld'
  BY DEF CycleInv, CycleWorld, Follows
<1>2. CycleFlags'
  BY Zenon DEF CycleFlags
<1>3. ASSUME NEW p \in Procs, NEW m \in Rounds
      PROVE  Follows(cache'[p].all[m], status'[m]) /\ Follows(load'[p].seen[m], status'[m])
  <2>1. Follows(cache[p].all[m], status[m]) /\ Follows(load[p].seen[m], status[m])
    BY DEF CycleInv, CycleViews
  <2> QED
    BY <2>1, WorkLabels DEF Follows
<1>4. CycleViews'
  BY <1>3 DEF CycleViews
<1> QED
  BY <1>1, <1>2, <1>4

\* What holds of the parts that a step leaves alone.
LEMMA PartsFit ==
    ASSUME CycleInv
    PROVE  /\ status \in [Rounds -> Cycle!Statuses] /\ roundAge \in [Rounds -> Cycle!Ages]
           /\ cache \in [Procs -> CacheRecord] /\ load \in [Procs -> LoadRecord]
           /\ desk \in [Procs -> {"unknown", "open", "empty"}] /\ hidden \in [Procs -> SUBSET Rounds]
           /\ lease \in [Cycle!Locks -> CycleWorkers \cup {Nobody, Crashed}] /\ CycleRuns /\ CycleLeases
           /\ \A m \in Rounds : Follows(status[m], status[m])
BY DEF CycleInv, CycleWorld, CycleViews, CycleLeases, Follows

\* The workers and the leases of a step that is none of theirs.
LEMMA RunsStay ==
    ASSUME CycleInv, UNCHANGED run, \A m \in Rounds : Follows(status[m], status'[m]),
           lease' \in [Cycle!Locks -> CycleWorkers \cup {Nobody, Crashed}],
           \A v \in CycleWorkers, k \in Cycle!Locks : lease'[k] = v => lease[k] = v
    PROVE  CycleRuns' /\ CycleLeases'
<1>1. ASSUME NEW w \in CycleWorkers PROVE WorkFits(run[w])'
  BY DEF CycleInv, CycleRuns, WorkFits, Follows
<1>2. ASSUME NEW w \in CycleWorkers PROVE LeaseFits(w, run[w])'
  BY WorkLabels DEF CycleInv, CycleLeases, LeaseFits
<1> QED
  BY <1>1, <1>2 DEF CycleInv, CycleRuns, CycleLeases

\* The calm of a step that is no worker's and leaves the chain, the leases and
\* what is hidden.
LEMMA CalmWaits ==
    ASSUME CycleInv, calm' => calm, UNCHANGED <<status, run, lease, hidden>>,
           \A n \in Rounds : roundAge'[n] = "entry" => roundAge[n] = "entry",
           calm' => \A p \in Procs, m \in Rounds : cache'[p].all[m] \in {cache[p].all[m], status[m]}
    PROVE  CalmKept'
<1>1. SUFFICES ASSUME calm' PROVE CalmFits'
  BY DEF CalmKept
<1>2. CalmFits
  BY <1>1, CalmBefore
<1>3. \A n \in Rounds : (Bets(n)' => Bets(n)) /\ (Unopened(n)' => Unopened(n))
  BY DEF Bets, Unopened
<1>4. \A p \in Procs, m \in Rounds :
        /\ cache'[p].all[m] = status'[m] \/ (status'[m] = "Created" /\ cache'[p].all[m] = "none")
        /\ m \in hidden'[p] => status'[m] \in Cycle!Final
  BY <1>1, <1>2 DEF CalmFits
<1>5. \A v \in CycleWorkers : run'[v].pc \in Cycle!CreateLabels => lease'["market-create"] = v
  BY <1>2 DEF CalmFits
<1> QED
  BY <1>2, <1>3, <1>4, <1>5, CalmStays

\* A process patches its list with a round it read.
LEMMA RememberFits ==
    ASSUME CycleInv, NEW p \in Procs, NEW m \in Rounds,
           status' \in [Rounds -> Cycle!Statuses], Cycle!Remember(p, m)
    PROVE  /\ cache' \in [Procs -> CacheRecord] /\ cache'[p].all[m] = status'[m]
           /\ \A q \in Procs, n \in Rounds : q # p \/ n # m => cache'[q].all[n] = cache[q].all[n]
<1>1. PICK z \in Cycle!Statuses : z = status'[m]
  OBVIOUS
<1>2. PICK c \in CacheRecord : c = cache[p]
  BY DEF CycleInv, CycleViews
<1>3. PICK f \in [Rounds -> Cycle!Statuses] : f = c.all
  BY <1>2 DEF CacheRecord
<1>4. PICK g \in [Rounds -> Cycle!Statuses] : g = [f EXCEPT ![m] = z]
  BY <1>1, <1>3
<1>5. PICK d \in CacheRecord : d.all = g /\ d = Cycle!Remembered(c, m, z)
  <2>1. PICK a \in {"cold", "stale", "fresh"} : a = IF c.at = "cold" THEN "fresh" ELSE c.at
    BY <1>2 DEF CacheRecord
  <2>2. [at |-> a, all |-> g] \in CacheRecord
    BY DEF CacheRecord
  <2>3. Cycle!Remembered(c, m, z) = [at |-> a, all |-> g]
    BY <1>3, <1>4, <2>1 DEF Cycle!Remembered
  <2> QED
    BY <2>2, <2>3
<1>6. cache' = [cache EXCEPT ![p] = d]
  BY <1>1, <1>2, <1>5 DEF Cycle!Remember
<1> QED
  BY <1>1, <1>2, <1>3, <1>4, <1>5, <1>6 DEF CycleInv, CycleViews

\* A list runs out.
LEMMA ExpireKeeps ==
    ASSUME CycleInv, NEW p \in Procs, Cycle!Expire(p) PROVE CycleInv'
<1>1. UNCHANGED <<status, roundAge, settled, load, desk, hidden, lease, run, calm, incidents>>
      /\ cache' = [cache EXCEPT ![p].at = "stale"]
  BY DEF Cycle!Expire, Cycle!chain
<1>2. incidents' \in 0..MaxIncidents /\ calm' \in BOOLEAN /\ (calm' => calm)
  BY <1>1, EventFits, Zenon DEF Cycle!Uneventful
<1>3. PICK c \in CacheRecord : c = cache[p]
  BY DEF CycleInv, CycleViews
<1>4. PICK d \in CacheRecord : d = [c EXCEPT !.at = "stale"] /\ d.all = c.all
  <2>1. [c EXCEPT !.at = "stale"] \in CacheRecord /\ [c EXCEPT !.at = "stale"].all = c.all
    BY <1>3 DEF CacheRecord
  <2> QED
    BY <2>1
<1>5. cache' = [cache EXCEPT ![p] = d]
  BY <1>1, <1>3, <1>4
<1>6. cache' \in [Procs -> CacheRecord]
      /\ \A q \in Procs, m \in Rounds : cache'[q].all[m] = cache[q].all[m]
  BY <1>3, <1>4, <1>5 DEF CycleInv, CycleViews
<1>7. CycleWorld' /\ CycleFlags' /\ CycleViews'
  BY <1>1, <1>2, <1>6, PartsFit, WorldKeeps
<1>8. CycleRuns' /\ CycleLeases'
  BY <1>1, PartsFit, RunsStay
<1>9. CalmKept'
  BY <1>1, <1>2, <1>6, CalmWaits
<1> QED
  BY <1>7, <1>8, <1>9 DEF CycleInv

\* A refresh reads the chain.
LEMMA BeginLoadKeeps ==
    ASSUME CycleInv, NEW p \in Procs, Cycle!BeginLoad(p) PROVE CycleInv'
<1>1. UNCHANGED <<status, roundAge, settled, cache, desk, hidden, lease, run, calm, incidents>>
      /\ load' = [load EXCEPT ![p] = [under |-> TRUE, seen |-> status]]
  BY DEF Cycle!BeginLoad, Cycle!chain
<1>2. incidents' \in 0..MaxIncidents /\ calm' \in BOOLEAN /\ (calm' => calm)
  BY <1>1, EventFits, Zenon DEF Cycle!Uneventful
<1>3. [under |-> TRUE, seen |-> status] \in LoadRecord
  BY PartsFit, Zenon DEF LoadRecord
<1>4. PICK d \in LoadRecord : d = [under |-> TRUE, seen |-> status] /\ d.seen = status
  BY <1>3
<1>5. load' = [load EXCEPT ![p] = d]
  BY <1>1, <1>4
<1>6. load' \in [Procs -> LoadRecord]
      /\ \A q \in Procs, m \in Rounds : load'[q].seen[m] \in {load[q].seen[m], status[m]}
  BY <1>4, <1>5 DEF CycleInv, CycleViews
<1>7. CycleWorld' /\ CycleFlags' /\ CycleViews'
  BY <1>1, <1>2, <1>6, PartsFit, WorldKeeps
<1>8. CycleRuns' /\ CycleLeases'
  BY <1>1, PartsFit, RunsStay
<1>9. CalmKept'
  BY <1>1, <1>2, CalmWaits
<1> QED
  BY <1>7, <1>8, <1>9 DEF CycleInv

\* No refresh under way, and an empty list.
LEMMA EmptyFits ==
    /\ Cycle!NoLoad \in LoadRecord /\ Cycle!Cold \in CacheRecord
    /\ \A m \in Rounds : Cycle!NoLoad.seen[m] = "none" /\ Cycle!Cold.all[m] = "none"
<1>1. "none" \in Cycle!Statuses
  BY DEF Cycle!Statuses
<1>2. PICK f \in [Rounds -> Cycle!Statuses] : f = Cycle!NothingListed /\ \A m \in Rounds : f[m] = "none"
  <2>1. Cycle!NothingListed = [m \in Rounds |-> "none"]
    BY DEF Cycle!NothingListed, Rounds
  <2>2. [m \in Rounds |-> "none"] \in [Rounds -> Cycle!Statuses]
    BY <1>1
  <2> QED
    BY <2>1, <2>2
<1>3. [under |-> FALSE, seen |-> f] \in LoadRecord
  BY Zenon DEF LoadRecord
<1>4. Cycle!NoLoad = [under |-> FALSE, seen |-> f]
  BY <1>2 DEF Cycle!NoLoad
<1>5. Cycle!NoLoad.seen = f
  BY <1>4
<1> QED
  BY <1>2, <1>3, <1>4, <1>5 DEF Cycle!Cold, CacheRecord

\* The refresh becomes the list.
LEMMA InstallLoadKeeps ==
    ASSUME CycleInv, NEW p \in Procs, Cycle!InstallLoad(p) PROVE CycleInv'
<1>1. UNCHANGED <<status, roundAge, settled, desk, hidden, lease, run, incidents>>
      /\ cache' = [cache EXCEPT ![p] = [at |-> "fresh", all |-> load[p].seen]]
      /\ load' = [load EXCEPT ![p] = Cycle!NoLoad]
  BY DEF Cycle!InstallLoad, Cycle!chain
<1>2. calm' = (calm /\ load[p].seen = status)
  BY Zenon DEF Cycle!InstallLoad
<1>3. incidents' \in 0..MaxIncidents /\ calm' \in BOOLEAN /\ (calm' => calm /\ load[p].seen = status)
  <2>1. calm' \in BOOLEAN /\ (calm' => calm /\ load[p].seen = status)
    BY <1>2, Zenon DEF CycleInv, CycleFlags
  <2> QED
    BY <1>1, <2>1 DEF CycleInv, CycleWorld
<1>4. PICK f \in [Rounds -> Cycle!Statuses] : f = load[p].seen
  BY DEF CycleInv, CycleViews, LoadRecord
<1>5. cache' \in [Procs -> CacheRecord]
      /\ \A q \in Procs, m \in Rounds : cache'[q].all[m] = IF q = p THEN f[m] ELSE cache[q].all[m]
  BY <1>1, <1>4 DEF CycleInv, CycleViews, CacheRecord
<1>6. load' \in [Procs -> LoadRecord]
      /\ \A q \in Procs, m \in Rounds : load'[q].seen[m] \in {load[q].seen[m], "none"}
  <2>1. PICK d \in LoadRecord : d = Cycle!NoLoad /\ \A m \in Rounds : d.seen[m] = "none"
    BY EmptyFits
  <2> QED
    BY <1>1, <2>1 DEF CycleInv, CycleViews
<1>7. CycleWorld' /\ CycleFlags' /\ CycleViews'
  BY <1>1, <1>3, <1>4, <1>5, <1>6, PartsFit, WorldKeeps
<1>8. CycleRuns' /\ CycleLeases'
  BY <1>1, PartsFit, RunsStay
<1>9. CalmKept'
  <2>1. calm' => \A q \in Procs, m \in Rounds : cache'[q].all[m] \in {cache[q].all[m], status[m]}
    BY <1>3, <1>4, <1>5
  <2> QED
    BY <1>1, <1>3, <2>1, CalmWaits
<1> QED
  BY <1>7, <1>8, <1>9 DEF CycleInv

\* A request for a round puts it on the list.
LEMMA LookupKeeps ==
    ASSUME CycleInv, NEW p \in Procs, NEW m \in Rounds, Cycle!Lookup(p, m) PROVE CycleInv'
<1>1. UNCHANGED <<status, roundAge, settled, load, desk, hidden, lease, run, incidents>>
      /\ Cycle!Remember(p, m)
  BY DEF Cycle!Lookup
<1>2. incidents' \in 0..MaxIncidents /\ calm' \in BOOLEAN /\ (calm' => calm)
  <2>1. calm' = (calm /\ cache[p].at # "cold")
    BY Zenon DEF Cycle!Lookup
  <2>2. calm' \in BOOLEAN /\ (calm' => calm)
    BY <2>1, Zenon DEF CycleInv, CycleFlags
  <2> QED
    BY <1>1, <2>2 DEF CycleInv, CycleWorld
<1>3. status' \in [Rounds -> Cycle!Statuses]
  BY <1>1, PartsFit
<1>4. /\ cache' \in [Procs -> CacheRecord]
      /\ \A q \in Procs, n \in Rounds : cache'[q].all[n] \in {cache[q].all[n], status[n]}
  BY <1>1, <1>3, RememberFits
<1>5. CycleWorld' /\ CycleFlags' /\ CycleViews'
  BY <1>1, <1>2, <1>4, PartsFit, WorldKeeps
<1>6. CycleRuns' /\ CycleLeases'
  BY <1>1, PartsFit, RunsStay
<1>7. CalmKept'
  BY <1>1, <1>2, <1>4, CalmWaits
<1> QED
  BY <1>5, <1>6, <1>7 DEF CycleInv

\* The desk learns and forgets.
LEMMA DeskKeeps ==
    ASSUME CycleInv, NEW p \in Procs, Cycle!ServeDesk(p) \/ Cycle!ForgetDesk(p) PROVE CycleInv'
<1>1. /\ UNCHANGED <<status, roundAge, settled, cache, load, hidden, lease, run>>
      /\ \E d \in {"unknown", "open", "empty"} : desk' = [desk EXCEPT ![p] = d]
  BY DEF Cycle!ServeDesk, Cycle!ForgetDesk, Cycle!chain
<1>2. incidents' \in 0..MaxIncidents /\ calm' \in BOOLEAN /\ (calm' => calm)
  <2>1. Cycle!Uneventful \/ Cycle!Incident
    BY Zenon DEF Cycle!ServeDesk, Cycle!ForgetDesk, Cycle!Listing, Cycle!Uneventful
  <2> QED
    BY <2>1, EventFits, Zenon
<1>3. desk' \in [Procs -> {"unknown", "open", "empty"}]
  BY <1>1, PartsFit
<1>4. CycleWorld' /\ CycleFlags' /\ CycleViews'
  BY <1>1, <1>2, <1>3, PartsFit, WorldKeeps
<1>5. CycleRuns' /\ CycleLeases'
  BY <1>1, PartsFit, RunsStay
<1>6. CalmKept'
  BY <1>1, <1>2, CalmWaits
<1> QED
  BY <1>4, <1>5, <1>6 DEF CycleInv

\* A round grows older.
LEMMA GrowKeeps ==
    ASSUME CycleInv, NEW m \in Rounds, Cycle!Grow(m) PROVE CycleInv'
<1>1. /\ UNCHANGED <<status, settled, cache, load, desk, hidden, lease, run, calm, incidents>>
      /\ roundAge[m] # "over" /\ roundAge' = [roundAge EXCEPT ![m] = IF @ = "entry" THEN "locked" ELSE "over"]
  BY DEF Cycle!Grow, Cycle!views
<1>2. incidents' \in 0..MaxIncidents /\ calm' \in BOOLEAN /\ (calm' => calm)
  BY <1>1, EventFits, Zenon DEF Cycle!Uneventful
<1>3. roundAge' \in [Rounds -> Cycle!Ages]
      /\ \A n \in Rounds : roundAge'[n] = "entry" => roundAge[n] = "entry"
  BY <1>1, PartsFit DEF Cycle!Ages
<1>4. CycleWorld' /\ CycleFlags' /\ CycleViews'
  BY <1>1, <1>2, <1>3, PartsFit, WorldKeeps
<1>5. CycleRuns' /\ CycleLeases'
  BY <1>1, PartsFit, RunsStay
<1>6. CalmKept'
  BY <1>1, <1>2, <1>3, CalmWaits
<1> QED
  BY <1>4, <1>5, <1>6 DEF CycleInv

\* A process restarts.
LEMMA RestartKeeps ==
    ASSUME CycleInv, NEW p \in Procs, Cycle!Restart(p) PROVE CycleInv'
<1>1. PICK kept \in {hidden[p], {}} :
        /\ UNCHANGED <<status, roundAge, settled>>
        /\ run' = [w \in CycleWorkers |-> IF Cycle!Proc(w) = p THEN Cycle!Idle ELSE run[w]]
        /\ lease' = [k \in Cycle!Locks |-> IF lease[k] \in {p} \X {"cycle", "tour"} THEN Crashed ELSE lease[k]]
        /\ cache' = [cache EXCEPT ![p] = Cycle!Cold] /\ load' = [load EXCEPT ![p] = Cycle!NoLoad]
        /\ desk' = [desk EXCEPT ![p] = "unknown"] /\ hidden' = [hidden EXCEPT ![p] = kept]
  BY DEF Cycle!Restart, Cycle!chain, CycleWorkers
<1>2. incidents' \in 0..MaxIncidents /\ calm' \in BOOLEAN /\ CalmKept'
  BY EventFits, IncidentFits, Zenon DEF Cycle!Restart
<1>3. PICK c \in CacheRecord, d \in LoadRecord :
        c = Cycle!Cold /\ d = Cycle!NoLoad /\ \A m \in Rounds : c.all[m] = "none" /\ d.seen[m] = "none"
  BY EmptyFits
<1>4. /\ cache' \in [Procs -> CacheRecord] /\ load' \in [Procs -> LoadRecord]
      /\ \A q \in Procs, m \in Rounds : /\ cache'[q].all[m] \in {cache[q].all[m], "none"}
                                        /\ load'[q].seen[m] \in {load[q].seen[m], "none"}
  BY <1>1, <1>3, PartsFit
<1>5. desk' \in [Procs -> {"unknown", "open", "empty"}] /\ hidden' \in [Procs -> SUBSET Rounds]
  BY <1>1, PartsFit
<1>6. CycleWorld' /\ CycleFlags' /\ CycleViews'
  BY <1>1, <1>2, <1>4, <1>5, PartsFit, WorldKeeps
<1>7. lease' \in [Cycle!Locks -> CycleWorkers \cup {Nobody, Crashed}]
  BY <1>1, PartsFit
<1>8. ASSUME NEW w \in CycleWorkers PROVE WorkFits(run[w])' /\ LeaseFits(w, run[w])'
  <2>1. CASE Cycle!Proc(w) = p
    <3>1. WorkFits(run[w])'
      BY <1>1, <2>1, IdleFits DEF WorkFits
    <3>2. w \in {p} \X {"cycle", "tour"}
      BY <2>1, WorkerProc
    <3>3. \A k \in Cycle!Locks : lease'[k] # w
      BY <1>1, <3>2, CycleConstants
    <3> QED
      BY <3>1, <3>3, WorkLabels DEF LeaseFits
  <2>2. CASE Cycle!Proc(w) # p
    <3>1. run'[w] = run[w]
      BY <1>1, <2>2
    <3>2. \A k \in Cycle!Locks : lease'[k] = w => lease[k] = w
      BY <1>1, CycleConstants
    <3>3. lease'["market-create"] = w => lease["market-create"] = w
      BY <3>2, WorkLabels
    <3>4. lease'["market-cycle"] = w => lease["market-cycle"] = w
      BY <3>2, WorkLabels
    <3>5. WorkFits(run[w])'
      BY <1>1, <3>1 DEF CycleInv, CycleRuns, WorkFits
    <3> QED
      BY <3>1, <3>3, <3>4, <3>5 DEF CycleInv, CycleLeases, LeaseFits
  <2> QED
    BY <2>1, <2>2
<1>9. CycleRuns' /\ CycleLeases'
  BY <1>1, <1>7, <1>8 DEF CycleRuns, CycleLeases
<1> QED
  BY <1>2, <1>6, <1>9 DEF CycleInv

\* A lease runs out.
LEMMA LapseKeeps ==
    ASSUME CycleInv, NEW k \in Cycle!Locks, Cycle!Lapse(k) PROVE CycleInv'
<1>1. UNCHANGED <<status, roundAge, settled, cache, load, desk, hidden, run>>
      /\ lease' = [lease EXCEPT ![k] = Nobody]
  BY DEF Cycle!Lapse, Cycle!chain, Cycle!views
<1>2. incidents' \in 0..MaxIncidents /\ calm' \in BOOLEAN /\ (calm' => calm)
  BY EventFits, Zenon DEF Cycle!Lapse
<1>3. /\ lease' \in [Cycle!Locks -> CycleWorkers \cup {Nobody, Crashed}] /\ lease'[k] = Nobody
      /\ \A j \in Cycle!Locks : j # k => lease'[j] = lease[j]
  BY <1>1, LeaseSet
<1>4. \A v \in CycleWorkers, j \in Cycle!Locks : lease'[j] = v => lease[j] = v
  BY <1>3, CycleConstants
<1>5. CycleWorld' /\ CycleFlags' /\ CycleViews'
  BY <1>1, <1>2, PartsFit, WorldKeeps
<1>6. CycleRuns' /\ CycleLeases'
  BY <1>1, <1>3, <1>4, PartsFit, RunsStay
<1>7. CalmKept'
  <2>1. CASE lease[k] # Crashed
    BY <2>1, IncidentFits, Zenon DEF Cycle!Lapse
  <2>2. CASE lease[k] = Crashed
    <3>1. SUFFICES ASSUME calm' PROVE CalmFits'
      BY DEF CalmKept
    <3>2. CalmFits
      BY <1>2, <3>1, CalmBefore
    <3>3. \A v \in CycleWorkers : run'[v].pc \in Cycle!CreateLabels => lease'["market-create"] = v
      BY <1>1, <1>3, <2>2, <3>2, CycleConstants, WorkLabels DEF CalmFits
    <3>4. \A n \in Rounds : (Bets(n)' => Bets(n)) /\ (Unopened(n)' => Unopened(n))
      BY <1>1 DEF Bets, Unopened
    <3>5. \A p \in Procs, m \in Rounds :
            /\ cache'[p].all[m] = status'[m] \/ (status'[m] = "Created" /\ cache'[p].all[m] = "none")
            /\ m \in hidden'[p] => status'[m] \in Cycle!Final
      BY <1>1, <3>2 DEF CalmFits
    <3> QED
      BY <1>1, <3>2, <3>3, <3>4, <3>5, CalmStays
  <2> QED
    BY <2>1, <2>2
<1> QED
  BY <1>5, <1>6, <1>7 DEF CycleInv

\* One round moves on.
LEMMA RoundMoves ==
    ASSUME CycleInv, NEW m \in Rounds, NEW s \in Cycle!Statuses, status' = [status EXCEPT ![m] = s],
           Follows(status[m], s)
    PROVE  /\ status' \in [Rounds -> Cycle!Statuses] /\ status'[m] = s
           /\ \A n \in Rounds : (n # m => status'[n] = status[n]) /\ Follows(status[n], status'[n])
<1>1. status' \in [Rounds -> Cycle!Statuses] /\ status'[m] = s
      /\ \A n \in Rounds : n # m => status'[n] = status[n]
  BY PartsFit
<1> QED
  BY <1>1, PartsFit

\* Somebody else finalises a round.
LEMMA FinalisedByOthersKeeps ==
    ASSUME CycleInv, NEW p \in Procs, NEW m \in Rounds, Cycle!FinalisedByOthers(p, m) PROVE CycleInv'
<1>1. PICK s \in Cycle!Final :
        /\ status' = [status EXCEPT ![m] = s] /\ Cycle!Remember(p, m)
        /\ UNCHANGED <<roundAge, settled, load, desk, hidden, lease, run>>
  BY DEF Cycle!FinalisedByOthers
<1>2. s \in Cycle!Statuses /\ Follows(status[m], s)
  BY WorkLabels DEF Cycle!Statuses, Follows
<1>3. /\ status' \in [Rounds -> Cycle!Statuses]
      /\ \A n \in Rounds : Follows(status[n], status'[n])
  BY <1>1, <1>2, RoundMoves
<1>4. incidents' \in 0..MaxIncidents /\ calm' \in BOOLEAN /\ CalmKept'
  BY EventFits, IncidentFits, Zenon DEF Cycle!FinalisedByOthers
<1>5. cache' \in [Procs -> CacheRecord]
      /\ \A q \in Procs, n \in Rounds : cache'[q].all[n] \in {cache[q].all[n], status'[n]}
  BY <1>1, <1>3, RememberFits
<1>6. CycleWorld' /\ CycleFlags' /\ CycleViews'
  BY <1>1, <1>3, <1>4, <1>5, PartsFit, WorldKeeps
<1>7. CycleRuns' /\ CycleLeases'
  BY <1>1, <1>3, PartsFit, RunsStay
<1> QED
  BY <1>4, <1>6, <1>7 DEF CycleInv

\* Somebody hides a round.
LEMMA HideRoundKeeps ==
    ASSUME CycleInv, NEW p \in Procs, NEW m \in Rounds, Cycle!HideRound(p, m) PROVE CycleInv'
<1>1. /\ UNCHANGED <<status, roundAge, settled, cache, load, desk, lease, run>>
      /\ hidden' = [hidden EXCEPT ![p] = @ \cup {m}]
  BY DEF Cycle!HideRound, Cycle!chain
<1>2. incidents' \in 0..MaxIncidents /\ calm' \in BOOLEAN /\ CalmKept'
  BY EventFits, IncidentFits, Zenon DEF Cycle!HideRound
<1>3. hidden' \in [Procs -> SUBSET Rounds]
  BY <1>1, PartsFit
<1>4. CycleWorld' /\ CycleFlags' /\ CycleViews'
  BY <1>1, <1>2, <1>3, PartsFit, WorldKeeps
<1>5. CycleRuns' /\ CycleLeases'
  BY <1>1, PartsFit, RunsStay
<1> QED
  BY <1>2, <1>4, <1>5 DEF CycleInv

\* A worker's step that writes one round of the chain, but for the calm.
LEMMA WriteKeeps ==
    ASSUME CycleInv, NEW w \in CycleWorkers, NEW r, NEW m \in Rounds, NEW s \in Cycle!Statuses,
           Cycle!Becomes(w, r), status' = [status EXCEPT ![m] = s], Follows(status[m], s),
           UNCHANGED <<roundAge, settled, load, desk, lease>>,
           cache' \in [Procs -> CacheRecord],
           \A q \in Procs, n \in Rounds : cache'[q].all[n] \in {cache[q].all[n], status'[n]},
           hidden' \in [Procs -> SUBSET Rounds],
           incidents' \in 0..MaxIncidents, calm' \in BOOLEAN,
           WorkFits(r)', LeaseFits(w, r)
    PROVE  /\ CycleWorld' /\ CycleFlags' /\ CycleViews' /\ CycleRuns' /\ CycleLeases'
           /\ run'[w] = r /\ \A v \in CycleWorkers : v # w => run'[v] = run[v]
<1>1. /\ status' \in [Rounds -> Cycle!Statuses]
      /\ \A n \in Rounds : Follows(status[n], status'[n])
  BY RoundMoves
<1>2. CycleWorld' /\ CycleFlags' /\ CycleViews'
  BY <1>1, PartsFit, WorldKeeps
<1>3. LeaseFits(w, r)'
  BY DEF LeaseFits
<1>4. lease' \in [Cycle!Locks -> CycleWorkers \cup {Nobody, Crashed}] /\ CycleRuns /\ CycleLeases
  BY PartsFit
<1> QED
  BY <1>1, <1>2, <1>3, <1>4, WorkMoves

\* What a worker holds after a round of its list moved on, and it is done with it.
LEMMA PastMoves ==
    ASSUME CycleInv, NEW w \in CycleWorkers, NEW m \in Rounds, NEW label \in Cycle!CycleLabels,
           run[w].pc \in Cycle!CycleLabels,
           NEW r, r = Cycle!Past(w, m, label) \/ \E mine \in {0} \cup Rounds : r = [Cycle!Past(w, m, label) EXCEPT !.mine = mine],
           \A n \in Rounds : Follows(status[n], status'[n])
    PROVE  WorkFits(r)' /\ LeaseFits(w, r) /\ r.pc = label
<1>1. /\ Cycle!Past(w, m, label) \in WorkRecord /\ Cycle!Past(w, m, label).pc = label
      /\ \A n \in Rounds : Cycle!Past(w, m, label).list[n] \in {"none", run[w].list[n]}
  BY PastFits, WorkLabels, PartsFit
<1>2. PICK s \in WorkRecord : /\ s = Cycle!Past(w, m, label) /\ s.pc = label
                              /\ \A n \in Rounds : s.list[n] \in {"none", run[w].list[n]}
  BY <1>1
<1>3. r \in WorkRecord /\ r.pc = label /\ r.list = s.list
  BY <1>2 DEF WorkRecord
<1>4. \A n \in Rounds : Follows(run[w].list[n], status[n])
  BY DEF CycleInv, CycleRuns, WorkFits
<1>5. \A n \in Rounds : Follows(r.list[n], status'[n])
  BY <1>2, <1>3, <1>4, WorkLabels DEF Follows
<1>6. WorkFits(r)'
  BY <1>3, <1>5, WorkLabels DEF WorkFits
<1>7. LeaseFits(w, r)
  BY <1>3, SameLocks
<1> QED
  BY <1>3, <1>6, <1>7

\* The calm of a step of a cycle's worker that finishes a round.
LEMMA CalmFinishes ==
    ASSUME CycleInv, CalmFits, NEW w \in CycleWorkers, NEW r, NEW m \in Rounds, NEW s,
           status' = [status EXCEPT ![m] = s], s = status[m] \/ (s \in Cycle!Final /\ status[m] # "none"),
           UNCHANGED <<roundAge, hidden, lease>>,
           run'[w] = r, \A v \in CycleWorkers : v # w => run'[v] = run[v],
           run[w].pc \notin Cycle!CreateLabels, r.pc \notin Cycle!CreateLabels,
           \/ UNCHANGED cache /\ s = status[m]
           \/ /\ \A q \in Procs, n \in Rounds : n # m => cache'[q].all[n] = cache[q].all[n]
              /\ cache'[Cycle!Proc(w)].all[m] = s /\ status[m] # "none"
    PROVE  CalmFits'
<1>1. status'[m] = s /\ (\A n \in Rounds : n # m => status'[n] = status[n])
  BY PartsFit
<1>2. \A n \in Rounds : (Bets(n)' => Bets(n)) /\ (Unopened(n)' => Unopened(n)) /\ (status[n] = "none" => status'[n] = "none")
  BY <1>1, WorkLabels DEF Bets, Unopened
<1>3. ASSUME NEW p \in Procs, NEW n \in Rounds
      PROVE  cache'[p].all[n] = status'[n] \/ (status'[n] = "Created" /\ cache'[p].all[n] = "none")
  <2>1. cache[p].all[n] = status[n] \/ (status[n] = "Created" /\ cache[p].all[n] = "none")
    BY DEF CalmFits
  <2>2. status[m] # "none" => p = Cycle!Proc(w)
    BY WorkerProc DEF CalmFits
  <2> QED
    BY <1>1, <2>1, <2>2
<1>4. \A p \in Procs, n \in Rounds : n \in hidden'[p] => status'[n] \in Cycle!Final
  BY <1>1 DEF CalmFits
<1>5. \A v \in CycleWorkers : run'[v].pc \in Cycle!CreateLabels => lease'["market-create"] = v
  BY DEF CalmFits
<1>6. \A v \in CycleWorkers, n \in Rounds : run[v].pc = "opening" /\ run[v].mine = n /\ Unopened(n)'
        => run'[v].pc = "opening" /\ run'[v].mine = n
  BY WorkLabels
<1>7. \A v \in CycleWorkers : run'[v].pc = "creating" => run[v].pc = "creating"
  BY WorkLabels
<1> QED
  BY <1>2, <1>3, <1>4, <1>5, <1>6, <1>7, CalmStays

\* A round gets its verdict, or is found to have one.
LEMMA ResolveKeeps ==
    ASSUME CycleInv, NEW w \in CycleWorkers, NEW m \in Rounds, Cycle!Resolve(w, m) PROVE CycleInv'
<1>1. PICK s \in IF status[m] = "Open" THEN Cycle!Final ELSE {status[m]} : status' = [status EXCEPT ![m] = s]
  BY DEF Cycle!Resolve
<1>0. PICK label \in {"paying", "resolving"} :
        Cycle!Becomes(w, [Cycle!Past(w, m, label) EXCEPT !.mine = IF label = "paying" THEN m ELSE 0])
  BY DEF Cycle!Resolve
<1>2. PICK r :
        /\ Cycle!Becomes(w, r)
        /\ r = [Cycle!Past(w, m, label) EXCEPT !.mine = IF label = "paying" THEN m ELSE 0]
  BY <1>0
<1>3. /\ UNCHANGED <<roundAge, settled, load, desk, hidden, lease>> /\ Cycle!Remember(Cycle!Proc(w), m)
      /\ run[w].pc = "resolving" /\ run[w].list[m] \in {"Open", "Locked"}
  BY DEF Cycle!Resolve, Cycle!Is, Cycle!Due
<1>4. incidents' \in 0..MaxIncidents /\ calm' \in BOOLEAN /\ (calm' => calm)
  BY EventFits, Zenon DEF Cycle!Resolve, Cycle!Uneventful
<1>5. status[m] # "none"
  <2>1. Follows(run[w].list[m], status[m])
    BY DEF CycleInv, CycleRuns, WorkFits
  <2> QED
    BY <1>3, <2>1 DEF Follows
<1>6. s \in Cycle!Statuses /\ Follows(status[m], s)
  BY <1>1, PartsFit, WorkLabels DEF Cycle!Statuses, Follows
<1>7. status' \in [Rounds -> Cycle!Statuses] /\ status'[m] = s
      /\ \A n \in Rounds : Follows(status[n], status'[n])
  BY <1>1, <1>6, RoundMoves
<1>8. /\ cache' \in [Procs -> CacheRecord] /\ cache'[Cycle!Proc(w)].all[m] = status'[m]
      /\ \A q \in Procs, n \in Rounds : q # Cycle!Proc(w) \/ n # m => cache'[q].all[n] = cache[q].all[n]
  BY <1>3, <1>7, RememberFits, WorkerProc
<1>9. WorkFits(r)' /\ LeaseFits(w, r) /\ r.pc = label
  <2>1. PICK mine \in {0} \cup Rounds : mine = IF label = "paying" THEN m ELSE 0
    OBVIOUS
  <2>2. r = [Cycle!Past(w, m, label) EXCEPT !.mine = mine]
    BY <1>2, <2>1
  <2>3. label \in Cycle!CycleLabels /\ run[w].pc \in Cycle!CycleLabels
    BY <1>3, WorkLabels
  <2> QED
    BY <1>7, <2>2, <2>3, PastMoves
<1>10. hidden' \in [Procs -> SUBSET Rounds]
       /\ \A q \in Procs, n \in Rounds : cache'[q].all[n] \in {cache[q].all[n], status'[n]}
  BY <1>3, <1>8, PartsFit
<1>11. /\ CycleWorld' /\ CycleFlags' /\ CycleViews' /\ CycleRuns' /\ CycleLeases'
       /\ run'[w] = r /\ \A v \in CycleWorkers : v # w => run'[v] = run[v]
  BY <1>1, <1>2, <1>3, <1>4, <1>6, <1>8, <1>9, <1>10, WriteKeeps
<1>12. CalmKept'
  <2>1. SUFFICES ASSUME calm' PROVE CalmFits'
    BY DEF CalmKept
  <2>2. CalmFits
    BY <1>4, <2>1, CalmBefore
  <2> QED
    BY <1>1, <1>3, <1>5, <1>7, <1>8, <1>9, <1>11, <2>2, WorkLabels, CalmFinishes
<1> QED
  BY <1>11, <1>12 DEF CycleInv

\* The verdict's receipt is lost.
LEMMA LoseVerdictKeeps ==
    ASSUME CycleInv, NEW w \in CycleWorkers, NEW m \in Rounds, Cycle!LoseVerdict(w, m) PROVE CycleInv'
<1>1. PICK s \in IF status[m] = "Open" THEN Cycle!Final \cup {"Open"} ELSE {status[m]} : status' = [status EXCEPT ![m] = s]
  BY DEF Cycle!LoseVerdict
<1>2. PICK r : Cycle!Becomes(w, r) /\ r = Cycle!Past(w, m, "resolving")
  BY DEF Cycle!LoseVerdict
<1>3. UNCHANGED <<roundAge, settled, cache, load, desk, hidden, lease>> /\ run[w].pc = "resolving"
  BY DEF Cycle!LoseVerdict, Cycle!Is, Cycle!views
<1>4. incidents' \in 0..MaxIncidents /\ calm' \in BOOLEAN /\ CalmKept'
  BY EventFits, IncidentFits, Zenon DEF Cycle!LoseVerdict
<1>5. s \in Cycle!Statuses /\ Follows(status[m], s)
  BY <1>1, PartsFit, WorkLabels DEF Cycle!Statuses, Follows
<1>6. status' \in [Rounds -> Cycle!Statuses] /\ \A n \in Rounds : Follows(status[n], status'[n])
  BY <1>1, <1>5, RoundMoves
<1>7. WorkFits(r)' /\ LeaseFits(w, r)
  <2>1. "resolving" \in Cycle!CycleLabels /\ run[w].pc \in Cycle!CycleLabels
    BY <1>3, WorkLabels
  <2> QED
    BY <1>2, <1>6, <2>1, PastMoves
<1>8. /\ hidden' \in [Procs -> SUBSET Rounds] /\ cache' \in [Procs -> CacheRecord]
      /\ \A q \in Procs, n \in Rounds : cache'[q].all[n] \in {cache[q].all[n], status'[n]}
  BY <1>3, PartsFit
<1>9. CycleWorld' /\ CycleFlags' /\ CycleViews' /\ CycleRuns' /\ CycleLeases'
  BY <1>1, <1>2, <1>3, <1>4, <1>5, <1>7, <1>8, WriteKeeps
<1> QED
  BY <1>4, <1>9 DEF CycleInv

\* A round that was never opened is cancelled.
LEMMA CancelStrandedKeeps ==
    ASSUME CycleInv, NEW w \in CycleWorkers, NEW m \in Rounds, Cycle!CancelStranded(w, m) PROVE CycleInv'
<1>1. PICK r : Cycle!Becomes(w, r) /\ r = Cycle!Past(w, m, "clearing")
  BY DEF Cycle!CancelStranded
<1>2. /\ UNCHANGED <<roundAge, settled, load, desk, hidden, lease>> /\ run[w].pc = "clearing"
      /\ run[w].list[m] = "Created"
  BY DEF Cycle!CancelStranded, Cycle!Is, Cycle!Stranded
<1>3. incidents' \in 0..MaxIncidents /\ calm' \in BOOLEAN /\ (calm' => calm)
  BY EventFits, Zenon DEF Cycle!CancelStranded
<1>4. status[m] # "none"
  <2>1. Follows(run[w].list[m], status[m])
    BY DEF CycleInv, CycleRuns, WorkFits
  <2> QED
    BY <1>2, <2>1 DEF Follows
<1>5. PICK s \in {status[m], "Cancelled"} :
        /\ status' = [status EXCEPT ![m] = s]
        /\ \/ s = status[m] /\ UNCHANGED cache
           \/ s = "Cancelled" /\ status[m] \notin Cycle!Final /\ Cycle!Remember(Cycle!Proc(w), m)
  <2>1. CASE UNCHANGED <<status, cache>>
    <3>1. status' = [status EXCEPT ![m] = status[m]]
      BY <2>1, PartsFit
    <3> QED
      BY <2>1, <3>1
  <2>2. CASE status' = [status EXCEPT ![m] = IF @ \in Cycle!Final THEN @ ELSE "Cancelled"] /\ status[m] \in Cycle!Final /\ UNCHANGED cache
    BY <2>2
  <2>3. CASE /\ status' = [status EXCEPT ![m] = IF @ \in Cycle!Final THEN @ ELSE "Cancelled"]
             /\ status[m] \notin Cycle!Final /\ Cycle!Remember(Cycle!Proc(w), m)
    BY <2>3
  <2> QED
    BY <2>1, <2>2, <2>3 DEF Cycle!CancelStranded
<1>6. s \in Cycle!Statuses /\ Follows(status[m], s)
  BY <1>4, <1>5, PartsFit, WorkLabels DEF Cycle!Statuses, Follows
<1>7. status' \in [Rounds -> Cycle!Statuses] /\ status'[m] = s
      /\ \A n \in Rounds : Follows(status[n], status'[n])
  BY <1>5, <1>6, RoundMoves
<1>8. \/ UNCHANGED cache /\ s = status[m]
      \/ /\ cache' \in [Procs -> CacheRecord] /\ cache'[Cycle!Proc(w)].all[m] = s /\ s = "Cancelled"
         /\ \A q \in Procs, n \in Rounds : q # Cycle!Proc(w) \/ n # m => cache'[q].all[n] = cache[q].all[n]
  BY <1>5, <1>7, RememberFits, WorkerProc
<1>9. WorkFits(r)' /\ LeaseFits(w, r) /\ r.pc = "clearing"
  <2>1. "clearing" \in Cycle!CycleLabels /\ run[w].pc \in Cycle!CycleLabels
    BY <1>2, WorkLabels
  <2> QED
    BY <1>1, <1>7, <2>1, PastMoves
<1>10. /\ hidden' \in [Procs -> SUBSET Rounds] /\ cache' \in [Procs -> CacheRecord]
       /\ \A q \in Procs, n \in Rounds : cache'[q].all[n] \in {cache[q].all[n], status'[n]}
  BY <1>2, <1>7, <1>8, PartsFit
<1>11. /\ CycleWorld' /\ CycleFlags' /\ CycleViews' /\ CycleRuns' /\ CycleLeases'
       /\ run'[w] = r /\ \A v \in CycleWorkers : v # w => run'[v] = run[v]
  BY <1>1, <1>2, <1>3, <1>5, <1>6, <1>9, <1>10, WriteKeeps
<1>12. CalmKept'
  <2>1. SUFFICES ASSUME calm' PROVE CalmFits'
    BY DEF CalmKept
  <2>2. CalmFits
    BY <1>3, <2>1, CalmBefore
  <2> QED
    BY <1>2, <1>4, <1>5, <1>8, <1>9, <1>11, <2>2, WorkLabels, CalmFinishes
<1> QED
  BY <1>11, <1>12 DEF CycleInv

\* The next round is one that does not exist yet.
LEMMA NewRoundFits ==
    ASSUME Cycle!RoundsLeft PROVE Cycle!NewRound \in Rounds /\ status[Cycle!NewRound] = "none"
<1> DEFINE free == {m \in Rounds : status[m] = "none"}
<1>1. free \subseteq Nat /\ free # {}
  BY CycleConstants DEF Cycle!RoundsLeft, Rounds
<1>2. PICK m \in free : \A n \in free : ~(<<n, m>> \in OpToRel(<, Nat))
  BY <1>1, NatLessThanWellFounded, WFMin
<1>3. \A n \in Rounds : n < m => status[n] # "none"
  BY <1>1, <1>2 DEF OpToRel
<1>4. \E k \in Rounds : status[k] = "none" /\ \A n \in Rounds : n < k => status[n] # "none"
  BY <1>2, <1>3
<1> QED
  BY <1>4 DEF Cycle!NewRound, Rounds

\* A round is created.
LEMMA CreateRoundKeeps ==
    ASSUME CycleInv, NEW w \in CycleWorkers, Cycle!CreateRound(w) PROVE CycleInv'
<1>1. PICK m \in Rounds : m = Cycle!NewRound /\ status[m] = "none"
  BY NewRoundFits DEF Cycle!CreateRound
<1>2. /\ run[w].pc = "creating" /\ status' = [status EXCEPT ![m] = "Created"]
      /\ UNCHANGED <<roundAge, settled, cache, load, desk, hidden, lease>>
  BY <1>1 DEF Cycle!CreateRound, Cycle!Is, Cycle!views
<1>3. PICK r : /\ Cycle!Becomes(w, r)
               /\ \/ /\ r = [run[w] EXCEPT !.pc = "opening", !.mine = m]
                     /\ calm' = (calm /\ Procs = {Cycle!Proc(w)}) /\ UNCHANGED incidents
                  \/ r = [run[w] EXCEPT !.pc = "leaving"] /\ Cycle!Incident
  BY <1>1 DEF Cycle!CreateRound, Cycle!Goes
<1>4. incidents' \in 0..MaxIncidents /\ calm' \in BOOLEAN /\ (calm' => calm)
  <2>1. CASE calm' = (calm /\ Procs = {Cycle!Proc(w)}) /\ UNCHANGED incidents
    <3>1. calm' \in BOOLEAN /\ (calm' => calm)
      BY <2>1, Zenon DEF CycleInv, CycleFlags
    <3> QED
      BY <2>1, <3>1 DEF CycleInv, CycleWorld
  <2>2. CASE Cycle!Incident
    BY <2>2, EventFits
  <2> QED
    BY <1>3, <2>1, <2>2
<1>5. "Created" \in Cycle!Statuses /\ Follows(status[m], "Created")
  BY <1>1, WorkLabels DEF Cycle!Statuses, Follows
<1>6. status'[m] = "Created"
      /\ (\A n \in Rounds : (n # m => status'[n] = status[n]) /\ Follows(status[n], status'[n]))
  BY <1>2, <1>5, RoundMoves
<1>7. PICK s \in WorkRecord : s = run[w] /\ WorkFits(s)
  BY DEF CycleInv, CycleRuns, WorkFits
<1>8. r \in WorkRecord /\ r.pc \in {"opening", "leaving"} /\ r.list = s.list
      /\ (r.pc = "opening" => r.mine = m)
  BY <1>3, <1>7, WorkLabels DEF WorkRecord
<1>9. WorkFits(r)' /\ LeaseFits(w, r)
  <2>1. \A n \in Rounds : Follows(r.list[n], status'[n])
    BY <1>6, <1>7, <1>8, WorkLabels DEF WorkFits, Follows
  <2>2. LeaseFits(w, r)
    BY <1>2, <1>8, SameLocks, WorkLabels
  <2> QED
    BY <1>8, <2>1, <2>2 DEF WorkFits
<1>10. /\ hidden' \in [Procs -> SUBSET Rounds] /\ cache' \in [Procs -> CacheRecord]
       /\ \A q \in Procs, n \in Rounds : cache'[q].all[n] \in {cache[q].all[n], status'[n]}
  BY <1>2, PartsFit
<1>11. /\ CycleWorld' /\ CycleFlags' /\ CycleViews' /\ CycleRuns' /\ CycleLeases'
       /\ run'[w] = r /\ \A v \in CycleWorkers : v # w => run'[v] = run[v]
  BY <1>2, <1>3, <1>4, <1>5, <1>9, <1>10, WriteKeeps
<1>12. CalmKept'
  <2>1. CASE Cycle!Incident
    BY <2>1, IncidentFits
  <2>2. ASSUME r = [run[w] EXCEPT !.pc = "opening", !.mine = m], calm' = (calm /\ Procs = {Cycle!Proc(w)}) PROVE CalmKept'
    <3>1. SUFFICES ASSUME calm' PROVE CalmFits'
      BY DEF CalmKept
    <3>2. CalmFits
      BY <1>4, <3>1, CalmBefore
    <3>3. \A p, q \in Procs : p = q
      BY <2>2, <3>1, Zenon
    <3>4. run'[w].pc = "opening" /\ run'[w].mine = m
      BY <1>7, <1>8, <1>11, <2>2 DEF WorkRecord
    <3>5. lease["market-create"] = w /\ \A n \in Rounds : ~Bets(n)
      BY <1>2, <3>2, WorkLabels DEF CalmFits
    <3>6. \A n \in Rounds : (Bets(n)' => n = m) /\ (Unopened(n)' => n = m)
      BY <1>2, <1>6, <3>5 DEF Bets, Unopened
    <3>7. ASSUME NEW p \in Procs, NEW n \in Rounds
          PROVE  /\ cache'[p].all[n] = status'[n] \/ (status'[n] = "Created" /\ cache'[p].all[n] = "none")
                 /\ n \in hidden'[p] => status'[n] \in Cycle!Final
      <4>1. /\ cache[p].all[n] = status[n] \/ (status[n] = "Created" /\ cache[p].all[n] = "none")
            /\ n \in hidden[p] => status[n] \in Cycle!Final
        BY <3>2 DEF CalmFits
      <4> QED
        BY <1>1, <1>2, <1>6, <4>1, WorkLabels
    <3>8. ASSUME NEW v \in CycleWorkers PROVE /\ run'[v].pc \in Cycle!CreateLabels => lease'["market-create"] = v
                                          /\ run'[v].pc # "creating"
      <4>1. run[v].pc \in Cycle!CreateLabels => v = w
        BY <3>2, <3>5 DEF CalmFits
      <4> QED
        BY <1>2, <1>11, <3>4, <3>5, <4>1, WorkLabels
    <3>9. \A n \in Rounds : Unopened(n)' => run'[w].pc = "opening" /\ run'[w].mine = n
      BY <3>4, <3>6
    <3> QED
      BY <3>3, <3>6, <3>7, <3>8, <3>9 DEF CalmFits
  <2> QED
    BY <1>3, <2>1, <2>2
<1> QED
  BY <1>11, <1>12 DEF CycleInv

\* What a worker holds when it leaves the round it opened.
LEMMA OpensFits ==
    ASSUME CycleInv, NEW w \in CycleWorkers, run[w].pc = "opening", NEW r,
           r = [run[w] EXCEPT !.pc = "leaving", !.mine = 0],
           \A n \in Rounds : Follows(status[n], status'[n])
    PROVE  WorkFits(r)' /\ LeaseFits(w, r) /\ r.pc = "leaving" /\ run[w].mine \in Rounds
<1>1. PICK s \in WorkRecord : s = run[w] /\ WorkFits(s)
  BY DEF CycleInv, CycleRuns, WorkFits
<1>2. r \in WorkRecord /\ r.pc = "leaving" /\ r.list = s.list
  BY <1>1, WorkLabels DEF WorkRecord
<1>3. \A n \in Rounds : Follows(r.list[n], status'[n])
  BY <1>1, <1>2, WorkLabels DEF WorkFits, Follows
<1>4. LeaseFits(w, r)
  <2>1. r.pc \in Cycle!CreateLabels /\ run[w].pc \in Cycle!CreateLabels
    BY <1>2, WorkLabels
  <2> QED
    BY <2>1, SameLocks
<1> QED
  BY <1>1, <1>2, <1>3, <1>4 DEF WorkFits

\* A round is opened.
LEMMA OpenRoundKeeps ==
    ASSUME CycleInv, NEW w \in CycleWorkers, Cycle!OpenRound(w) PROVE CycleInv'
<1> DEFINE p == Cycle!Proc(w)
<1>1. PICK m \in Rounds : m = run[w].mine
  BY DEF CycleInv, CycleRuns, WorkFits, Cycle!OpenRound, Cycle!Is
<1>2. PICK r : Cycle!Becomes(w, r) /\ r = [run[w] EXCEPT !.pc = "leaving", !.mine = 0]
  BY DEF Cycle!OpenRound
<1>3. /\ run[w].pc = "opening" /\ Unopened(m) /\ status' = [status EXCEPT ![m] = "Open"]
      /\ Cycle!Remember(p, m)
      /\ hidden' = [hidden EXCEPT ![p] = @ \ {m}] /\ UNCHANGED <<roundAge, settled, load, desk, lease>>
  BY <1>1 DEF Cycle!OpenRound, Cycle!Is, Cycle!CanOpen, Unopened
<1>4. incidents' \in 0..MaxIncidents /\ calm' \in BOOLEAN /\ (calm' => calm)
  BY EventFits, Zenon DEF Cycle!OpenRound, Cycle!Uneventful
<1>5. "Open" \in Cycle!Statuses /\ Follows(status[m], "Open")
  BY <1>3, WorkLabels DEF Cycle!Statuses, Follows, Unopened
<1>6. /\ status' \in [Rounds -> Cycle!Statuses] /\ status'[m] = "Open"
      /\ \A n \in Rounds : (n # m => status'[n] = status[n]) /\ Follows(status[n], status'[n])
  BY <1>3, <1>5, RoundMoves
<1>7. p \in Procs
  BY WorkerProc
<1>8. /\ cache' \in [Procs -> CacheRecord] /\ cache'[p].all[m] = "Open"
      /\ \A q \in Procs, n \in Rounds : q # p \/ n # m => cache'[q].all[n] = cache[q].all[n]
  BY <1>3, <1>6, <1>7, RememberFits
<1>9. WorkFits(r)' /\ LeaseFits(w, r) /\ r.pc = "leaving"
  BY <1>2, <1>3, <1>6, OpensFits
<1>10. /\ hidden' \in [Procs -> SUBSET Rounds] /\ m \notin hidden'[p]
       /\ \A q \in Procs, n \in Rounds : n \in hidden'[q] => n \in hidden[q]
  BY <1>3, <1>7, PartsFit
<1>11. \A q \in Procs, n \in Rounds : cache'[q].all[n] \in {cache[q].all[n], status'[n]}
  BY <1>6, <1>8
<1> HIDE DEF p
<1>12. /\ CycleWorld' /\ CycleFlags' /\ CycleViews' /\ CycleRuns' /\ CycleLeases'
       /\ run'[w] = r /\ \A v \in CycleWorkers : v # w => run'[v] = run[v]
  BY <1>2, <1>3, <1>4, <1>5, <1>8, <1>9, <1>10, <1>11, WriteKeeps
<1>13. CalmKept'
  <2>1. SUFFICES ASSUME calm' PROVE CalmFits'
    BY DEF CalmKept
  <2>2. CalmFits
    BY <1>4, <2>1, CalmBefore
  <2>3. \A q \in Procs : q = p
    BY <1>3, <1>7, <2>2 DEF CalmFits, Unopened
  <2>4. lease["market-create"] = w /\ \A n \in Rounds : Bets(n) => n = m
    BY <1>3, <2>2, WorkLabels DEF CalmFits, Bets, Unopened
  <2>5. \A n \in Rounds : (Bets(n)' => Bets(n)) /\ ~Unopened(n)' /\ (status[n] = "none" => status'[n] = "none")
    BY <1>3, <1>6, <2>4 DEF Bets, Unopened
  <2>6. ASSUME NEW q \in Procs, NEW n \in Rounds
        PROVE  /\ cache'[q].all[n] = status'[n] \/ (status'[n] = "Created" /\ cache'[q].all[n] = "none")
               /\ n \in hidden'[q] => status'[n] \in Cycle!Final
    <3>1. /\ cache[q].all[n] = status[n] \/ (status[n] = "Created" /\ cache[q].all[n] = "none")
          /\ n \in hidden[q] => status[n] \in Cycle!Final
      BY <2>2 DEF CalmFits
    <3> QED
      BY <1>6, <1>8, <1>10, <2>3, <3>1
  <2>7. ASSUME NEW v \in CycleWorkers PROVE /\ run'[v].pc \in Cycle!CreateLabels => lease'["market-create"] = v
                                        /\ run'[v].pc # "creating"
    <3>1. run[v].pc \in Cycle!CreateLabels => v = w
      BY <2>2, <2>4 DEF CalmFits
    <3> QED
      BY <1>3, <1>9, <1>12, <2>4, <3>1, WorkLabels
  <2> QED
    BY <2>2, <2>5, <2>6, <2>7, CalmStays
<1> QED
  BY <1>12, <1>13 DEF CycleInv

\* The opening's receipt is lost.
LEMMA LoseOpeningKeeps ==
    ASSUME CycleInv, NEW w \in CycleWorkers, Cycle!LoseOpening(w) PROVE CycleInv'
<1>1. PICK m \in Rounds : m = run[w].mine
  BY DEF CycleInv, CycleRuns, WorkFits, Cycle!LoseOpening, Cycle!Is
<1>2. PICK r : Cycle!Becomes(w, r) /\ r = [run[w] EXCEPT !.pc = "leaving", !.mine = 0]
  BY DEF Cycle!LoseOpening
<1>3. PICK s \in {"Created", "Open"} : status' = [status EXCEPT ![m] = s]
  BY <1>1 DEF Cycle!LoseOpening
<1>4. /\ run[w].pc = "opening" /\ status[m] = "Created"
      /\ UNCHANGED <<roundAge, settled, cache, load, desk, hidden, lease>>
  BY <1>1 DEF Cycle!LoseOpening, Cycle!Is, Cycle!CanOpen, Cycle!views
<1>5. incidents' \in 0..MaxIncidents /\ calm' \in BOOLEAN /\ CalmKept'
  BY EventFits, IncidentFits, Zenon DEF Cycle!LoseOpening
<1>6. s \in Cycle!Statuses /\ Follows(status[m], s)
  BY <1>4, WorkLabels DEF Cycle!Statuses, Follows
<1>7. \A n \in Rounds : Follows(status[n], status'[n])
  BY <1>3, <1>6, RoundMoves
<1>8. WorkFits(r)' /\ LeaseFits(w, r)
  BY <1>2, <1>4, <1>7, OpensFits
<1>9. /\ hidden' \in [Procs -> SUBSET Rounds] /\ cache' \in [Procs -> CacheRecord]
      /\ \A q \in Procs, n \in Rounds : cache'[q].all[n] \in {cache[q].all[n], status'[n]}
  BY <1>4, PartsFit
<1>10. CycleWorld' /\ CycleFlags' /\ CycleViews' /\ CycleRuns' /\ CycleLeases'
  BY <1>2, <1>3, <1>4, <1>5, <1>6, <1>8, <1>9, WriteKeeps
<1> QED
  BY <1>5, <1>10 DEF CycleInv

\* It holds before anything has happened.
LEMMA CycleInvInit ==
    Cycle!Init => CycleInv
<1>1. SUFFICES ASSUME Cycle!Init PROVE CycleInv
  OBVIOUS
<1>2. /\ status = [m \in Rounds |-> "none"] /\ roundAge = [m \in Rounds |-> "entry"] /\ settled = {}
      /\ incidents = 0
      /\ cache = [p \in Procs |-> Cycle!Cold] /\ load = [p \in Procs |-> Cycle!NoLoad]
      /\ desk = [p \in Procs |-> "unknown"] /\ hidden = [p \in Procs |-> {}]
      /\ lease = [k \in Cycle!Locks |-> Nobody] /\ run = [w \in CycleWorkers |-> Cycle!Idle]
  BY <1>1 DEF Cycle!Init, Cycle!NothingListed, Rounds, CycleWorkers
<1>3. calm = TRUE
  BY <1>1, Zenon DEF Cycle!Init
<1>4. "none" \in Cycle!Statuses /\ "entry" \in Cycle!Ages
  BY DEF Cycle!Statuses, Cycle!Ages
<1>5. CycleWorld
  BY <1>2, <1>4, CycleConstants DEF CycleWorld
<1>6. CycleFlags
  BY <1>3, Zenon DEF CycleFlags
<1>7. PICK c \in CacheRecord, d \in LoadRecord :
        c = Cycle!Cold /\ d = Cycle!NoLoad /\ \A m \in Rounds : c.all[m] = "none" /\ d.seen[m] = "none"
  BY EmptyFits
<1>8. CycleViews
  BY <1>2, <1>7, WorkLabels DEF CycleViews, Follows
<1>9. WorkFits(Cycle!Idle) /\ Cycle!Idle.pc = "idle"
  BY <1>5, IdleFits
<1>10. CycleRuns
  BY <1>2, <1>9 DEF CycleRuns
<1>11. CycleLeases
  BY <1>2, CycleConstants, WorkLabels DEF CycleLeases, LeaseFits
<1>12. CalmFits
  BY <1>2, <1>7, <1>9, WorkLabels DEF CalmFits, Bets, Unopened
<1> QED
  BY <1>5, <1>6, <1>8, <1>10, <1>11, <1>12 DEF CycleInv, CalmKept

\* Whether a step stutters.
LEMMA CycleIdles ==
    ASSUME CycleInv, UNCHANGED cycleVars PROVE CycleInv'
<1>1. UNCHANGED <<status, roundAge, settled, cache, load, desk, hidden, lease, run, calm, incidents>>
  BY DEF cycleVars
<1>2. incidents' \in 0..MaxIncidents /\ calm' \in BOOLEAN /\ (calm' => calm)
  BY <1>1, EventFits, Zenon DEF Cycle!Uneventful
<1>3. CycleWorld' /\ CycleFlags' /\ CycleViews'
  BY <1>1, <1>2, PartsFit, WorldKeeps
<1>4. CycleRuns' /\ CycleLeases'
  BY <1>1, PartsFit, RunsStay
<1>5. CalmKept'
  BY <1>1, <1>2, CalmWaits
<1> QED
  BY <1>3, <1>4, <1>5 DEF CycleInv

\* Every step of a worker keeps it.
LEMMA WorkersKeep ==
    ASSUME CycleInv, NEW w \in CycleWorkers,
           Cycle!Work(w) \/ Cycle!Throw(w) \/ Cycle!Touring(w) \/ Cycle!StoreFails(w)
    PROVE  CycleInv'
<1>1. ASSUME Cycle!Creating(w) PROVE CycleInv'
  BY <1>1, LookAgainKeeps, CreateRoundKeeps, OpenRoundKeeps, OpenTooLateKeeps, LoseOpeningKeeps,
     LeaveCreateKeeps
     DEF Cycle!Creating
<1>2. ASSUME Cycle!Cycling(w) PROVE CycleInv'
  BY <1>2, StartCycleKeeps, FirstListKeeps, PayKeeps, SecondListKeeps, DecideKeeps, LockCreateKeeps,
     ThirdListKeeps,
     EndCycleKeeps, ResolveKeeps, LoseVerdictKeeps, SettleKeeps, CancelStrandedKeeps
     DEF Cycle!Cycling, Rounds
<1> QED
  BY <1>1, <1>2, ThrowKeeps, LockCreateKeeps, TourLooksKeeps, StoreFailsKeeps
     DEF Cycle!Work, Cycle!Touring

\* And every other step.
LEMMA CycleInvStep ==
    CycleInv /\ [Cycle!Next]_cycleVars => CycleInv'
<1>1. SUFFICES ASSUME CycleInv, [Cycle!Next]_cycleVars PROVE CycleInv'
  OBVIOUS
<1>2. ASSUME NEW p \in Procs, Cycle!Around(p) \/ Cycle!DeskTurns(p) PROVE CycleInv'
  BY <1>1, <1>2, ExpireKeeps, BeginLoadKeeps, InstallLoadKeeps, RestartKeeps, LookupKeeps,
     FinalisedByOthersKeeps,
     HideRoundKeeps, DeskKeeps
     DEF Cycle!Around, Cycle!DeskTurns, Cycle!Refresh, Rounds
<1>3. ASSUME Cycle!Next PROVE CycleInv'
  BY <1>1, <1>2, <1>3, WorkersKeep, LapseKeeps, GrowKeeps
     DEF Cycle!Next, Cycle!CycleNext, CycleWorkers, Rounds
<1> QED
  BY <1>1, <1>3, CycleIdles

\* The invariant says what the runs check of the cycle.
LEMMA CycleInvIsSafe ==
    CycleInv => Cycle!TypeOK /\ Cycle!OneRoundAtATime
<1>1. SUFFICES ASSUME CycleInv PROVE Cycle!TypeOK /\ Cycle!OneRoundAtATime
  OBVIOUS
<1>2. calm \in BOOLEAN
  BY <1>1, Zenon DEF CycleInv, CycleFlags
<1>3. ASSUME NEW k \in Cycle!Locks, lease[k] \in CycleWorkers PROVE run[lease[k]].pc \in Cycle!HeldAt(k)
  BY <1>1, <1>3, WorkLabels DEF CycleInv, CycleLeases, LeaseFits, Cycle!HeldAt
<1>4. run \in [CycleWorkers -> WorkRecord]
  BY <1>1 DEF CycleInv, CycleRuns, WorkFits
<1>5. load \in [Procs -> LoadRecord] /\ cache \in [Procs -> CacheRecord]
      /\ desk \in [Procs -> {"unknown", "open", "empty"}]
  BY <1>1, PartsFit
<1>6. /\ status \in [Rounds -> Cycle!Statuses] /\ roundAge \in [Rounds -> Cycle!Ages]
      /\ settled \subseteq {m \in Rounds : status[m] \in Cycle!Final} /\ incidents \in 0..MaxIncidents
      /\ hidden \in [Procs -> SUBSET Rounds] /\ lease \in [Cycle!Locks -> CycleWorkers \cup {Nobody, Crashed}]
  BY <1>1, PartsFit DEF CycleInv, CycleWorld
<1>7. Cycle!TypeOK
  BY <1>2, <1>3, <1>4, <1>5, <1>6, Zenon
     DEF Cycle!TypeOK, Rounds, CycleWorkers, CacheRecord, LoadRecord, WorkRecord
<1>8. Cycle!OneRoundAtATime
  BY <1>1
     DEF CycleInv, CalmKept, CalmFits, Cycle!OneRoundAtATime, Cycle!RoundsNeverDouble, Cycle!TakesBets,
         Bets, Rounds
<1> QED
  BY <1>7, <1>8

---------------------------------------------------------------------------
(* The machines side by side. *)

RequestsInv ==
    OpeningInv /\ PrintsInv /\ LoginInv /\ KeysInv /\ FeedInv /\ OwnedInv /\ CycleInv

\* A step is one of one machine, and leaves the others as they are.
LEMMA StepsOfOne ==
    [Next]_vars => /\ [Opening!Next]_openingVars /\ [Prints!Next]_printVars /\ [Login!Next]_loginVars
                   /\ [Keys!Next]_keyVars /\ [Feed!Next]_feedVars /\ [Owned!Next]_ownedVars
                   /\ [Cycle!Next]_cycleVars
<1>1. CASE Next
  BY <1>1, Zenon DEF Next
<1>2. CASE UNCHANGED vars
  BY <1>2, Zenon DEF vars
<1> QED
  BY <1>1, <1>2

\* The invariants of the seven machines hold in every reachable state.
THEOREM RequestsInvariant == Spec => []RequestsInv
<1>1. Init => RequestsInv
  BY OpeningInvInit, PrintsInvInit, LoginInvInit, KeysInvInit, FeedInvInit, OwnedInvInit, CycleInvInit
     DEF Init, RequestsInv
<1>2. RequestsInv /\ [Next]_vars => RequestsInv'
  BY StepsOfOne, OpeningInvStep, PrintsInvStep, LoginInvStep, KeysInvStep, FeedInvStep, OwnedInvStep,
     CycleInvStep
     DEF RequestsInv
<1> QED
  BY <1>1, <1>2, PTL DEF Spec

\* The variables of the seven machines hold what they may.
THEOREM RequestTypes == Spec => []TypeOK
<1>1. RequestsInv => TypeOK
  BY OpeningInvIsSafe, PrintsInvIsSafe, LoginInvIsSafe, KeysInvIsSafe, FeedInvIsSafe, OwnedInvIsSafe,
     CycleInvIsSafe
     DEF RequestsInv, TypeOK
<1> QED
  BY <1>1, RequestsInvariant, PTL

\* A mailed code logs in once, and between two resets of the counter only so
\* many guesses are compared, whatever calls overlap and whatever the store
\* loses (emailOtpService.ts).
THEOREM CodesStaySafe == Spec => []CodesAreSafe
<1>1. RequestsInv => CodesAreSafe
  BY LoginInvIsSafe DEF RequestsInv, CodesAreSafe
<1> QED
  BY <1>1, RequestsInvariant, PTL

\* One email keeps one wallet, one request to send is one transfer, and a
\* session that is revoked or expired sends nothing; with the API's own keys,
\* the wallet a token names signs, and the first key of an email is kept
\* (circleWalletService.ts, signedSession.ts, sessionWalletService.ts).
THEOREM WalletsStaySafe == Spec => []WalletsAreSafe
<1>1. RequestsInv => WalletsAreSafe
  BY LoginInvIsSafe, KeysInvIsSafe DEF RequestsInv, WalletsAreSafe
<1> QED
  BY <1>1, RequestsInvariant, PTL

\* No scan passes a ticket, however many requests fill one map at once, and a
\* result that is shown is the market's (onchainService.ts).
THEOREM PortfolioStaysComplete == Spec => []PortfolioIsComplete
<1>1. RequestsInv => PortfolioIsComplete
  BY OwnedInvIsSafe DEF RequestsInv, PortfolioIsComplete
<1> QED
  BY <1>1, RequestsInvariant, PTL

\* A history stays in the order of time, no tick is older than a provider's
\* reading may get in the short cache, and visitors who want the same share one
\* load (onchainService.ts).
THEOREM FeedStaysSound == Spec => []FeedIsSound
<1>1. RequestsInv => FeedIsSound
  BY FeedInvIsSafe DEF RequestsInv, FeedIsSound
<1> QED
  BY <1>1, RequestsInvariant, PTL

\* Tour and cycles, of any number of processes, do not both make a round, as
\* long as no list lagged behind the chain and nothing failed
\* (marketCreateLock.ts).
THEOREM RoundsComeOneByOne == Spec => []OneRoundAtATime
<1>1. RequestsInv => OneRoundAtATime
  BY CycleInvIsSafe DEF RequestsInv, OneRoundAtATime
<1> QED
  BY <1>1, RequestsInvariant, PTL

\* What a ticket opened at does not change once it is stored and its mark is
\* true, one print at most decides the start of a round, and it goes on
\* deciding it (ticketOpenings.ts, rawTicks.ts).
THEOREM PricesStay == Spec => PricesAreKept
<1> DEFINE Same == saved # Opening!None => saved' = saved
<1>1. RequestsInv => (part = "opening" => Opening!MarksAreTrue) /\ (part = "prints" => Prints!SelectionIsUnique)
  BY OpeningInvIsSafe, PrintsAreOne DEF RequestsInv
<1>2. RequestsInv /\ RequestsInv' /\ [Next]_vars => [Same]_openingVars /\ [StartGoesOn]_printVars
  BY StepsOfOne, OpeningKept, StartStays DEF RequestsInv
<1>3. Opening!OpeningStays <=> [][Same]_openingVars
  BY DEF Opening!OpeningStays, Opening!vars, openingVars
<1>4. Prints!StartPrintStays <=> [][StartGoesOn]_printVars
  BY DEF Prints!StartPrintStays, Prints!vars, printVars, StartGoesOn
<1> QED
  BY <1>1, <1>2, <1>3, <1>4, RequestsInvariant, PTL DEF Spec, PricesAreKept

=============================================================================
