----------------------------- MODULE MarketCycle -----------------------------
(***************************************************************************)
(* The loop that keeps one role (BTC or London weather) supplied with      *)
(* rounds: the cycle of every process resolves and settles what is over,   *)
(* cancels what was never opened, creates the next round and hides what is *)
(* finished, while the product tour may create rounds too.  Both see the   *)
(* chain through the list their process caches for minutes and patches     *)
(* after its own writes; leases in the store keep two cycles, and two      *)
(* creators, apart.  A step is the code between two awaits, or one call to *)
(* the store or to the chain with what follows it.                         *)
(***************************************************************************)
EXTENDS Integers, FiniteSets

CONSTANTS
    Procs,              \* processes, each with a cycle timer
    Tours,              \* the processes that are asked for a tour
    MaxRounds,          \* how many rounds are created
    Nobody,
    Crashed,            \* the holder of a lease that died with its process
    StoreMayFail,       \* whether asking for the cycle's lease may throw
    MaxIncidents        \* how often something fails or somebody interferes

Rounds == 1..MaxRounds
Workers == (Procs \X {"cycle"}) \cup (Tours \X {"tour"})
Proc(w) == w[1]
IsCycle(w) == w[2] = "cycle"
Locks == {"market-cycle", "market-create"}

ASSUME CycleAssumption ==
    /\ MaxRounds \in Nat \ {0} /\ MaxIncidents \in Nat /\ StoreMayFail \in BOOLEAN
    /\ Tours \subseteq Procs
    /\ Nobody \notin Workers /\ Crashed \notin Workers /\ Nobody # Crashed

VARIABLES
    status,     \* each round on the chain, "none" before it is created
    age,        \* "entry" until lockTime, "over" once it can be resolved
    settled,    \* rounds whose tickets have all been settled
    cache,      \* each process's list of rounds, and whether it is fresh
    load,       \* the refresh of it under way
    desk,       \* what the routes remember of the public list, for ten seconds
    hidden,     \* rounds each process keeps off the public list
    lease,      \* who holds each lock of the store
    run,        \* what each worker is doing
    calm,       \* no list has lagged behind the chain, and there was no incident
    incidents   \* failed calls, restarts, lapsed leases, interventions so far

chain == <<status, age, settled>>
views == <<cache, load, desk, hidden>>
vars == <<chain, views, lease, run, calm, incidents>>

Final == {"Resolved", "Cancelled"}
Statuses == {"none", "Created", "Open"} \cup Final
Shown == Statuses \cup {"Locked"}
Ages == {"entry", "locked", "over"}
CreateLabels == {"lookingAgain", "creating", "opening", "leaving"}
CycleLabels ==
    {"listing", "resolving", "paying", "settling", "clearing", "locking", "hiding", "ending"}
Labels == {"idle", "stuck"} \cup CreateLabels \cup CycleLabels

NothingListed == [m \in Rounds |-> "none"]
NoLoad == [under |-> FALSE, seen |-> NothingListed]
Cold == [at |-> "cold", all |-> NothingListed]

\* now is the clock the cycle reads once, list what it holds of the list, mine
\* the round it resolved or created.
Idle == [pc |-> "idle", now |-> [m \in Rounds |-> "entry"], list |-> NothingListed, mine |-> 0]

Init ==
    /\ status = NothingListed
    /\ age = [m \in Rounds |-> "entry"]
    /\ settled = {}
    /\ cache = [p \in Procs |-> Cold]
    /\ load = [p \in Procs |-> NoLoad]
    /\ desk = [p \in Procs |-> "unknown"]
    /\ hidden = [p \in Procs |-> {}]
    /\ lease = [k \in Locks |-> Nobody]
    /\ run = [w \in Workers |-> Idle]
    /\ calm = TRUE /\ incidents = 0

Is(w, label) == run[w].pc = label
Becomes(w, r) == run' = [run EXCEPT ![w] = r]
Goes(w, label) == Becomes(w, [run[w] EXCEPT !.pc = label])
Incident == incidents < MaxIncidents /\ incidents' = incidents + 1 /\ calm' = FALSE
Uneventful == UNCHANGED <<calm, incidents>>

---------------------------------------------------------------------------
(* The list of a process. *)

\* Past its lockTime an open round is shown as locked.
Displayed(s, m) == IF s = "Open" /\ age[m] # "entry" THEN "Locked" ELSE s

List(p) == [m \in Rounds |-> Displayed(cache[p].all[m], m)]

\* What a worker that asks for the list is given: a fresh one, or, when the
\* refresh fails, a stale one.
Listing(p) ==
    \/ cache[p].at = "fresh" /\ Uneventful
    \/ cache[p].at = "stale" /\ Incident

\* Mutant of Remembered: a local patch renews the list.
Renewed(c, m, s) == [at |-> "fresh", all |-> [c.all EXCEPT ![m] = s]]

\* A round read from the chain replaces its entry; the first entry of an empty
\* cache makes a fresh list of one.
Remembered(c, m, s) ==
    [at |-> IF c.at = "cold" THEN "fresh" ELSE c.at, all |-> [c.all EXCEPT ![m] = s]]

Remember(p, m) == cache' = [cache EXCEPT ![p] = Remembered(@, m, status'[m])]

Expire(p) ==
    /\ cache[p].at = "fresh"
    /\ cache' = [cache EXCEPT ![p].at = "stale"]
    /\ UNCHANGED <<chain, load, desk, hidden, lease, run, calm, incidents>>

\* Anybody who asks for the list starts the refresh, and all wait for it.
BeginLoad(p) ==
    /\ cache[p].at # "fresh" /\ ~load[p].under
    /\ load' = [load EXCEPT ![p] = [under |-> TRUE, seen |-> status]]
    /\ UNCHANGED <<chain, cache, desk, hidden, lease, run, calm, incidents>>

\* What was written since the chain was read is lost from the list.
InstallLoad(p) ==
    /\ load[p].under
    /\ cache' = [cache EXCEPT ![p] = [at |-> "fresh", all |-> load[p].seen]]
    /\ load' = [load EXCEPT ![p] = NoLoad]
    /\ calm' = (calm /\ load[p].seen = status)
    /\ UNCHANGED <<chain, desk, hidden, lease, run, incidents>>

\* A request for one round, or the refresh of the cards on the desk.
Lookup(p, m) ==
    /\ status[m] # "none" /\ UNCHANGED status
    /\ Remember(p, m)
    /\ calm' = (calm /\ cache[p].at # "cold")
    /\ UNCHANGED <<age, settled, load, desk, hidden, lease, run, incidents>>

IsHidden(p, m) == m \in hidden[p]

ShowsOpen(p) == \E m \in Rounds : ~IsHidden(p, m) /\ List(p)[m] = "Open"

\* The public list, as a visitor or a tour makes the routes remember it.
ServeDesk(p) ==
    /\ p \in Tours /\ desk[p] = "unknown" /\ Listing(p)
    /\ desk' = [desk EXCEPT ![p] = IF ShowsOpen(p) THEN "open" ELSE "empty"]
    /\ UNCHANGED <<chain, cache, load, hidden, lease, run>>

ForgetDesk(p) ==
    /\ desk[p] # "unknown"
    /\ desk' = [desk EXCEPT ![p] = "unknown"]
    /\ UNCHANGED <<chain, cache, load, hidden, lease, run, calm, incidents>>

---------------------------------------------------------------------------
(* The cycle: what is over is resolved and settled. *)

\* A run that finds the lease taken ends at once.
StartCycle(w) ==
    /\ IsCycle(w) /\ Is(w, "idle") /\ lease["market-cycle"] = Nobody
    /\ lease' = [lease EXCEPT !["market-cycle"] = w]
    /\ Goes(w, "listing")
    /\ UNCHANGED <<chain, views, calm, incidents>>

\* The flag of the process is set before the lease is asked for, and the error
\* passes the block that would clear it.
StoreFails(w) ==
    /\ StoreMayFail /\ IsCycle(w) /\ Is(w, "idle")
    /\ Goes(w, "stuck")
    /\ UNCHANGED <<chain, views, lease, calm, incidents>>

FirstList(w) ==
    /\ Is(w, "listing") /\ Listing(Proc(w))
    /\ Becomes(w, [run[w] EXCEPT !.pc = "resolving", !.now = age, !.list = List(Proc(w))])
    /\ UNCHANGED <<chain, views, lease>>

\* Mutant of Due: a round that is shown as locked is not resolved.
OnlyOpenIsDue(w, m) == run[w].list[m] = "Open" /\ run[w].now[m] = "over"

Due(w, m) == run[w].list[m] \in {"Open", "Locked"} /\ run[w].now[m] = "over"

\* What a loop of the cycle does with a round is done with it.
Past(w, m, label) == [run[w] EXCEPT !.pc = label, !.list[m] = "none"]

\* resolveReferenceMarketOnchain, once it no longer defers: the round gets its
\* verdict or is cancelled, unless somebody was faster.
Resolve(w, m) ==
    /\ Is(w, "resolving") /\ Due(w, m)
    /\ \E s \in IF status[m] = "Open" THEN Final ELSE {status[m]} :
          status' = [status EXCEPT ![m] = s]
    /\ Remember(Proc(w), m)
    /\ \E label \in IF status[m] = "Open" THEN {"paying"} ELSE {"paying", "resolving"} :
          Becomes(w, [Past(w, m, label) EXCEPT !.mine = IF label = "paying" THEN m ELSE 0])
    /\ UNCHANGED <<age, settled, load, desk, hidden, lease, calm, incidents>>

\* The receipt is lost: the round may have its verdict, the list does not.
LoseVerdict(w, m) ==
    /\ Is(w, "resolving") /\ Due(w, m) /\ Incident
    /\ \E s \in IF status[m] = "Open" THEN Final \cup {"Open"} ELSE {status[m]} :
          status' = [status EXCEPT ![m] = s]
    /\ Becomes(w, Past(w, m, "resolving"))
    /\ UNCHANGED <<age, settled, views, lease>>

Pay(w) ==
    /\ Is(w, "paying")
    /\ \/ settled' = settled \cup ({run[w].mine} \cap {m \in Rounds : status[m] \in Final})
          /\ Uneventful
       \/ UNCHANGED settled /\ Incident
    /\ Becomes(w, [run[w] EXCEPT !.pc = "resolving", !.mine = 0])
    /\ UNCHANGED <<status, age, views, lease>>

Unpaid(w, m) == run[w].list[m] \in Final

Settle(w, m) ==
    /\ \/ Is(w, "settling")
       \/ Is(w, "resolving") /\ \A n \in Rounds : ~Due(w, n)
    /\ Unpaid(w, m)
    /\ \/ settled' = settled \cup {m} /\ Uneventful
       \/ UNCHANGED settled /\ Incident
    /\ Becomes(w, Past(w, m, "settling"))
    /\ UNCHANGED <<status, age, views, lease>>

SecondList(w) ==
    /\ Is(w, "resolving") \/ Is(w, "settling")
    /\ \A m \in Rounds : ~Unpaid(w, m) /\ (Is(w, "resolving") => ~Due(w, m))
    /\ Listing(Proc(w))
    /\ Becomes(w, [run[w] EXCEPT !.pc = "clearing", !.list = List(Proc(w))])
    /\ UNCHANGED <<chain, views, lease>>

---------------------------------------------------------------------------
(* The next round. *)

\* create() landed, open() did not, and now it cannot.
Stranded(s, a) == s = "Created" /\ a # "entry"

IsActiveRoundStatus(s, a) == s \in {"Open", "Locked"} \/ (s = "Created" /\ a = "entry")

CancelStranded(w, m) ==
    /\ Is(w, "clearing") /\ Stranded(run[w].list[m], run[w].now[m])
    /\ \/ /\ status' = [status EXCEPT ![m] = IF @ \in Final THEN @ ELSE "Cancelled"]
          /\ \/ status[m] \in Final /\ UNCHANGED cache
             \/ status[m] \notin Final /\ Remember(Proc(w), m)
          /\ Uneventful
       \/ UNCHANGED <<status, cache>> /\ Incident
    /\ Becomes(w, Past(w, m, "clearing"))
    /\ UNCHANGED <<age, settled, load, desk, hidden, lease>>

RoundsLeft == \E m \in Rounds : status[m] = "none"

HasActive(p, list, now) ==
    \E m \in Rounds : ~IsHidden(p, m) /\ IsActiveRoundStatus(list[m], now[m])

\* The bound on the rounds acts as an active one would.
Decide(w) ==
    /\ Is(w, "clearing")
    /\ \A m \in Rounds : ~Stranded(run[w].list[m], run[w].now[m])
    /\ Becomes(w, [Idle EXCEPT !.pc =
           IF HasActive(Proc(w), run[w].list, run[w].now) \/ ~RoundsLeft THEN "hiding" ELSE "locking"])
    /\ UNCHANGED <<chain, views, lease, calm, incidents>>

\* withMarketCreateLock: who finds the lock taken goes on without a round.
LockCreate(w) ==
    /\ Is(w, "locking") \/ (~IsCycle(w) /\ Is(w, "idle"))
    /\ IF lease["market-create"] = Nobody
          THEN /\ lease' = [lease EXCEPT !["market-create"] = w]
               /\ Goes(w, "lookingAgain")
          ELSE /\ IsCycle(w) /\ Goes(w, "hiding")
               /\ UNCHANGED lease
    /\ UNCHANGED <<chain, views, calm, incidents>>

\* Mutant of MayCreate: the list is not looked at again.
WithoutLooking(p) == TRUE

MayCreate(p) == ~HasActive(p, List(p), age)

Creates(w, may) == Goes(w, IF may /\ RoundsLeft THEN "creating" ELSE "leaving")

LookAgain(w) ==
    /\ IsCycle(w) /\ Is(w, "lookingAgain") /\ Listing(Proc(w))
    /\ Creates(w, MayCreate(Proc(w)))
    /\ UNCHANGED <<chain, views, lease>>

\* The tour reuses an open round, and only that.
TourLooks(w) ==
    LET p == Proc(w) IN
    /\ ~IsCycle(w) /\ Is(w, "lookingAgain") /\ desk[p] # "unknown"
    /\ Creates(w, desk[p] = "empty")
    /\ calm' = (calm /\ (desk[p] = "open") = ShowsOpen(p))
    /\ UNCHANGED <<chain, views, lease, incidents>>

NewRound == CHOOSE m \in Rounds : status[m] = "none" /\ \A n \in Rounds : n < m => status[n] # "none"

CreateRound(w) ==
    /\ Is(w, "creating") /\ RoundsLeft
    /\ status' = [status EXCEPT ![NewRound] = "Created"]
    /\ \/ Becomes(w, [run[w] EXCEPT !.pc = "opening", !.mine = NewRound])
          /\ calm' = (calm /\ Procs = {Proc(w)}) /\ UNCHANGED incidents
       \/ Goes(w, "leaving") /\ Incident
    /\ UNCHANGED <<age, settled, views, lease>>

\* MicroMarket.open takes a created round, not later than its lockTime.
CanOpen(m) == status[m] = "Created" /\ age[m] = "entry"

OpenRound(w) ==
    LET m == run[w].mine  p == Proc(w) IN
    /\ Is(w, "opening") /\ CanOpen(m)
    /\ status' = [status EXCEPT ![m] = "Open"]
    /\ Remember(p, m)
    /\ hidden' = [hidden EXCEPT ![p] = @ \ {m}]
    /\ Becomes(w, [run[w] EXCEPT !.pc = "leaving", !.mine = 0])
    /\ UNCHANGED <<age, settled, load, desk, lease, calm, incidents>>

\* The transaction reverts.
OpenTooLate(w) ==
    /\ Is(w, "opening") /\ ~CanOpen(run[w].mine)
    /\ Becomes(w, [run[w] EXCEPT !.pc = "leaving", !.mine = 0])
    /\ UNCHANGED <<chain, views, lease, calm, incidents>>

\* Whether or not it was opened, the round is not remembered.
LoseOpening(w) ==
    /\ Is(w, "opening") /\ CanOpen(run[w].mine) /\ Incident
    /\ \E s \in {"Created", "Open"} : status' = [status EXCEPT ![run[w].mine] = s]
    /\ Becomes(w, [run[w] EXCEPT !.pc = "leaving", !.mine = 0])
    /\ UNCHANGED <<age, settled, views, lease>>

\* Mutant of Released: whoever gave the round up keeps the lock.
Kept(k, w) == lease[k]

\* Only its holder deletes a lock.
Released(k, w) == IF lease[k] = w THEN Nobody ELSE lease[k]

LeaveCreate(w) ==
    /\ Is(w, "leaving")
    /\ lease' = [lease EXCEPT !["market-create"] = Released("market-create", w)]
    /\ IF IsCycle(w) THEN Goes(w, "hiding") ELSE Becomes(w, Idle)
    /\ UNCHANGED <<chain, views, calm, incidents>>

\* What the last list shows as finished leaves the public one.
ThirdList(w) ==
    LET p == Proc(w) IN
    /\ Is(w, "hiding") /\ Listing(p)
    /\ hidden' = [hidden EXCEPT ![p] = @ \cup {m \in Rounds : List(p)[m] \in Final}]
    /\ Goes(w, "ending")
    /\ UNCHANGED <<chain, cache, load, desk, lease>>

EndCycle(w) ==
    /\ Is(w, "ending")
    /\ lease' = [lease EXCEPT !["market-cycle"] = Released("market-cycle", w)]
    /\ Becomes(w, Idle)
    /\ UNCHANGED <<chain, views, calm, incidents>>

---------------------------------------------------------------------------
(* What happens around the workers. *)

\* A call fails that no loop guards; the finally blocks give the locks back.
Throw(w) ==
    /\ run[w].pc \in {"listing", "resolving", "settling", "lookingAgain", "creating", "hiding"}
    /\ Incident
    /\ Becomes(w, [Idle EXCEPT !.pc = IF run[w].pc \in CreateLabels THEN "leaving" ELSE "ending"])
    /\ UNCHANGED <<chain, views, lease>>

\* The process starts again with what the store and, unless the disk went with
\* it, the file of hidden rounds hold.
Restart(p) ==
    /\ Incident
    /\ run' = [w \in Workers |-> IF Proc(w) = p THEN Idle ELSE run[w]]
    /\ lease' = [k \in Locks |-> IF lease[k] \in {p} \X {"cycle", "tour"} THEN Crashed ELSE lease[k]]
    /\ cache' = [cache EXCEPT ![p] = Cold]
    /\ load' = [load EXCEPT ![p] = NoLoad]
    /\ desk' = [desk EXCEPT ![p] = "unknown"]
    /\ \E kept \in {hidden[p], {}} : hidden' = [hidden EXCEPT ![p] = kept]
    /\ UNCHANGED chain

\* A lease is not renewed: it outlives its holder, or its holder it.
Lapse(k) ==
    /\ lease[k] # Nobody
    /\ IF lease[k] = Crashed THEN Uneventful ELSE Incident
    /\ lease' = [lease EXCEPT ![k] = Nobody]
    /\ UNCHANGED <<chain, views, run>>

Grow(m) ==
    /\ status[m] # "none" /\ age[m] # "over"
    /\ age' = [age EXCEPT ![m] = IF @ = "entry" THEN "locked" ELSE "over"]
    /\ UNCHANGED <<status, settled, views, lease, run, calm, incidents>>

\* An administrator, or the resolver of a process that runs one.
FinalisedByOthers(p, m) ==
    /\ status[m] = "Open" /\ age[m] = "over"
    /\ \E s \in Final : status' = [status EXCEPT ![m] = s]
    /\ Remember(p, m)
    /\ Incident
    /\ UNCHANGED <<age, settled, load, desk, hidden, lease, run>>

\* hideDemoMarket: the next round need not wait for a hidden one.
HideRound(p, m) ==
    /\ status[m] # "none" /\ ~IsHidden(p, m)
    /\ hidden' = [hidden EXCEPT ![p] = @ \cup {m}]
    /\ Incident
    /\ UNCHANGED <<chain, cache, load, desk, lease, run>>

Creating(w) ==
    \/ LookAgain(w) \/ CreateRound(w)
    \/ OpenRound(w) \/ OpenTooLate(w) \/ LoseOpening(w) \/ LeaveCreate(w)

Cycling(w) ==
    \/ StartCycle(w) \/ FirstList(w) \/ Pay(w) \/ SecondList(w) \/ Decide(w)
    \/ (IsCycle(w) /\ LockCreate(w)) \/ ThirdList(w) \/ EndCycle(w)
    \/ \E m \in Rounds : Resolve(w, m) \/ LoseVerdict(w, m) \/ Settle(w, m) \/ CancelStranded(w, m)

Work(w) == Creating(w) \/ Cycling(w)

Refresh(p) == Expire(p) \/ BeginLoad(p) \/ InstallLoad(p)

Around(p) ==
    \/ Refresh(p) \/ Restart(p)
    \/ \E m \in Rounds : Lookup(p, m) \/ FinalisedByOthers(p, m) \/ HideRound(p, m)

\* The cycles by themselves: no tour comes and the store answers.
CycleNext ==
    \/ \E w \in Workers : Work(w) \/ Throw(w)
    \/ \E p \in Procs : Around(p)
    \/ \E k \in Locks : Lapse(k)
    \/ \E m \in Rounds : Grow(m)

DeskTurns(p) == ServeDesk(p) \/ ForgetDesk(p)

Touring(w) == ~IsCycle(w) /\ (LockCreate(w) \/ TourLooks(w))

Next ==
    \/ CycleNext
    \/ \E w \in Workers : Touring(w) \/ StoreFails(w)
    \/ \E p \in Procs : DeskTurns(p)

Spec == Init /\ [][Next]_vars

\* Timers start cycles, calls return, lists and leases run out and rounds grow
\* older; who waits for a list gets it, though it may run out again.  Tours come
\* or not, but one that holds the lock goes on.
Fairness ==
    /\ \A w \in Workers : SF_vars(Work(w) \/ TourLooks(w))
    /\ \A p \in Procs : WF_vars(Refresh(p)) /\ WF_vars(DeskTurns(p))
    /\ WF_vars(\E k \in Locks : lease[k] = Crashed /\ Lapse(k))
    /\ WF_vars(\E m \in Rounds : Grow(m))

FairSpec == Spec /\ Fairness

\* The same where there are no tours and the store does not fail.
CycleSpec == Init /\ [][CycleNext]_vars /\ Fairness

---------------------------------------------------------------------------
(* Properties. *)

\* Where a worker may hold each lock.
HeldAt(k) == IF k = "market-create" THEN CreateLabels ELSE CreateLabels \cup CycleLabels

TypeOK ==
    /\ status \in [Rounds -> Statuses] /\ age \in [Rounds -> Ages]
    /\ settled \subseteq {m \in Rounds : status[m] \in Final}
    /\ cache \in [Procs -> [at : {"cold", "stale", "fresh"}, all : [Rounds -> Statuses]]]
    /\ load \in [Procs -> [under : BOOLEAN, seen : [Rounds -> Statuses]]]
    /\ desk \in [Procs -> {"unknown", "open", "empty"}]
    /\ hidden \in [Procs -> SUBSET Rounds]
    /\ lease \in [Locks -> Workers \cup {Nobody, Crashed}]
    /\ \A k \in Locks : lease[k] \in Workers => run[lease[k]].pc \in HeldAt(k)
    /\ run \in [Workers -> [pc : Labels, now : [Rounds -> Ages], list : [Rounds -> Shown],
                            mine : {0} \cup Rounds]]
    /\ calm \in BOOLEAN /\ incidents \in 0..MaxIncidents

TakesBets(m) == status[m] \in {"Created", "Open"} /\ age[m] = "entry"

\* "Tour + market-cycle MUST share these lock keys so they cannot
\* double-create" (marketCreateLock.ts:3).
RoundsNeverDouble == \A m, n \in Rounds : TakesBets(m) /\ TakesBets(n) => m = n

\* The tour and the cycle share the creation lock so that they do not both
\* create: as long as no list lagged behind the chain and nothing failed, two
\* rounds never take bets at once, however the two interleave.
OneRoundAtATime == calm => RoundsNeverDouble

\* Whatever is lost, crashes or is hidden before its time, and however stale
\* the lists, every round ends with all its tickets settled (and stays there:
\* no round goes back).
EveryRoundSettles == <>[](\A m \in Rounds : status[m] # "none" => m \in settled)

\* The role never stalls: no round, dead, hidden or forgotten, keeps the next
\* one from being created.
RoundsKeepComing == <>[]~RoundsLeft

=============================================================================
