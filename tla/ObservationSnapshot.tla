------------------------ MODULE ObservationSnapshot ------------------------
(***************************************************************************)
(* The evidence for one market's verdict.  Workers of several processes    *)
(* sample a price feed around the two boundaries of the observation        *)
(* window, keep the best print of each in a stored record, and one of them *)
(* resolves the market from that record and freezes it.  Every step below  *)
(* is one call to the store or to the chain: between two steps of a worker *)
(* any step of another may happen.  Locks are leases on keys of the store. *)
(***************************************************************************)
EXTENDS Integers, Sequences, FiniteSets

CONSTANTS
    Workers, Nobody,
    Feed,                        \* the prints the feed may give
    ObsStart, ObsEnd,            \* the boundaries
    MaxDist,                     \* how far from a boundary a print may be
    Grace,                       \* how long after ObsEnd resolution waits
    StartLead, EndLead,          \* how long before a boundary sampling begins
    Lag,                         \* how old a fetched print may be
    Retention,                   \* how long the store keeps a tick
    DirectSamples,               \* BTC records its print besides the ticks
    LeasesMayLapse,              \* a worker may outlive a lease it holds
    MaxTime, MaxFaults

Times == 0..MaxTime
NoPrint == [at |-> -1, value |-> 0]

ASSUME ObservationAssumption ==
    /\ Nobody \notin Workers
    /\ IsFiniteSet(Feed) /\ Feed \subseteq [at : Times, value : Int]
    /\ {ObsStart, ObsEnd, MaxDist, Grace, StartLead, EndLead, Lag, Retention} \subseteq Nat
    /\ {MaxTime, MaxFaults} \subseteq Nat
    /\ ObsStart + MaxDist < ObsEnd /\ MaxDist <= Grace
    /\ DirectSamples \in BOOLEAN /\ LeasesMayLapse \in BOOLEAN

VARIABLES
    now,
    verdict,      \* the market on chain: "Live", "YES", "NO" or "Cancelled"
    mempool,      \* transactions of the resolver key, in nonce order
    listed,       \* the verdict every process's cached list shows
    ticks,        \* the feed's prints in the store
    snapshot,     \* the market's record in the store
    lock,         \* who holds the lease on each key
    faults,       \* store errors, timeouts and crashes so far
    pc, phase,    \* of each worker: its next call, and what it is part of
    fetched,      \* the print a worker got from the feed
    todo,         \* updates it has still to apply
    copy,         \* the record as it last read it
    evidence      \* the prints it decided from

chain == <<verdict, mempool>>
kv == <<ticks, snapshot, lock>>
locals == <<phase, fetched, todo, copy, evidence>>
vars == <<now, chain, listed, kv, faults, pc, locals>>

---------------------------------------------------------------------------
(* Prints and records. *)

Dist(a, b) == IF a >= b THEN a - b ELSE b - a

IsOpen(p) == Dist(p.at, ObsStart) <= MaxDist
IsClose(p) == p.at >= ObsEnd /\ p.at - ObsEnd <= MaxDist

\* Ties between equally near prints go to the smaller identity.
Precedes(p, q, t) ==
    \/ Dist(p.at, t) < Dist(q.at, t)
    \/ /\ Dist(p.at, t) = Dist(q.at, t)
       /\ p.at < q.at \/ (p.at = q.at /\ p.value < q.value)

Nearest(S, t) ==
    IF S = {} THEN NoPrint ELSE CHOOSE p \in S : \A q \in S \ {p} : Precedes(p, q, t)

\* nearestRawTick and firstTickAtOrAfter over the ticks read.
BestOpen(S) == Nearest({p \in S : IsOpen(p)}, ObsStart)
BestClose(S) == Nearest({p \in S : IsClose(p)}, ObsEnd)

Boundaries(S) == [open |-> BestOpen(S), close |-> BestClose(S)]

\* A stored print gives way only to one strictly nearer to the boundary.
Better(new, old, t) ==
    IF new # NoPrint /\ (old = NoPrint \/ Dist(new.at, t) < Dist(old.at, t)) THEN new ELSE old

Merged(rec, update) ==
    [start |-> Better(update.open, rec.start, ObsStart),
     end |-> Better(update.close, rec.end, ObsEnd),
     outcome |-> rec.outcome]

\* A record is frozen when it carries its outcome.
NoSnapshot == [start |-> NoPrint, end |-> NoPrint, outcome |-> "none"]
Frozen(rec) == rec.outcome # "none"

Ready(rec) == rec.start # NoPrint /\ IsOpen(rec.start) /\ rec.end # NoPrint /\ IsClose(rec.end)

\* Mutant of OutcomeFromPrints: a flat pair decides nothing.
FlatIsUndecided(start, end) ==
    IF end.value > start.value THEN "YES" ELSE IF end.value < start.value THEN "NO" ELSE "none"

OutcomeFromPrints(start, end) == IF end.value > start.value THEN "YES" ELSE "NO"

---------------------------------------------------------------------------
(* Steps of a worker. *)

Goto(w, label) == pc' = [pc EXCEPT ![w] = label]

Holds(w, key) == lock[key] = w

\* Mutant of Acquired: the key is set without NX.
TakenOver(w, key) == lock' = [lock EXCEPT ![key] = w]

Acquired(w, key) == lock[key] = Nobody /\ lock' = [lock EXCEPT ![key] = w]

\* Release deletes the key only while it still holds the worker's token.
Released(w, keys) ==
    lock' = [key \in DOMAIN lock |-> IF key \in keys /\ Holds(w, key) THEN Nobody ELSE lock[key]]

Idle(w) == pc[w] = "idle"

\* Back to idle; a resolver gives its lock back.
Finish(w, keys) ==
    /\ Goto(w, "idle")
    /\ Released(w, keys \cup {"resolve"})
    /\ phase' = [phase EXCEPT ![w] = "none"]
    /\ fetched' = [fetched EXCEPT ![w] = NoPrint]
    /\ todo' = [todo EXCEPT ![w] = <<>>]
    /\ copy' = [copy EXCEPT ![w] = NoSnapshot]
    /\ evidence' = [evidence EXCEPT ![w] = NoSnapshot]

\* Sampling goes on near a boundary, while the list shows the market live.
NearBoundary ==
    /\ listed = "Live"
    /\ \/ ObsStart - StartLead <= now /\ now <= ObsStart + MaxDist
       \/ ObsEnd - EndLead <= now /\ now <= ObsEnd + MaxDist

StartCapture(w) ==
    /\ Idle(w) /\ NearBoundary
    /\ Goto(w, "fetching")
    /\ phase' = [phase EXCEPT ![w] = "sampling"]
    /\ UNCHANGED <<now, chain, listed, kv, faults, fetched, todo, copy, evidence>>

\* A resolver samples first, as any sampler; away from a boundary it goes
\* straight to the ticks.
StartResolve(w) ==
    /\ Idle(w) /\ Acquired(w, "resolve")
    /\ Goto(w, IF NearBoundary THEN "fetching" ELSE "choosing")
    /\ phase' = [phase EXCEPT ![w] = IF NearBoundary THEN "gathering" ELSE "deciding"]
    /\ UNCHANGED <<now, chain, listed, ticks, snapshot, faults, fetched, todo, copy, evidence>>

\* The feed answers with a print, at most Lag old, which goes to the ticks,
\* or does not answer.
FetchPrint(w) ==
    /\ pc[w] = "fetching" /\ Goto(w, "choosing")
    /\ \/ \E p \in Feed :
             /\ p.at <= now /\ now - p.at <= Lag
             /\ ticks' = {q \in ticks \cup {p} : q.at > now - Retention}
             /\ fetched' = [fetched EXCEPT ![w] = p]
       \/ UNCHANGED <<ticks, fetched>>
    /\ UNCHANGED <<now, chain, listed, snapshot, lock, faults, phase, todo, copy, evidence>>

\* Mutant of SampleOf: the end, too, takes prints from either side.
SampleOfEitherSide(p) ==
    [open |-> IF IsOpen(p) THEN p ELSE NoPrint,
     close |-> IF Dist(p.at, ObsEnd) <= MaxDist THEN p ELSE NoPrint]

\* The update recordObservationSample makes of one print.
SampleOf(p) ==
    [open |-> IF IsOpen(p) THEN p ELSE NoPrint, close |-> IF IsClose(p) THEN p ELSE NoPrint]

Readable == {p \in ticks : p.at >= now - Retention}

\* The ticks are read and the best of them chosen; a sampler of BTC has its
\* own print to apply after them.
ChooseBoundaries(w) ==
    /\ pc[w] = "choosing" /\ Goto(w, "locking")
    /\ todo' = [todo EXCEPT ![w] =
          IF DirectSamples /\ phase[w] # "deciding" /\ fetched[w] # NoPrint
          THEN <<Boundaries(Readable), SampleOf(fetched[w])>>
          ELSE <<Boundaries(Readable)>>]
    /\ UNCHANGED <<now, chain, listed, kv, faults, phase, fetched, copy, evidence>>

\* After an update: the next one, or what the updates were for.
NextUpdate(w) ==
    IF Len(todo[w]) > 1
    THEN /\ todo' = [todo EXCEPT ![w] = Tail(@)]
         /\ Goto(w, "locking")
         /\ UNCHANGED <<phase, fetched, evidence>>
    ELSE CASE phase[w] = "gathering" ->
                /\ phase' = [phase EXCEPT ![w] = "deciding"]
                /\ todo' = [todo EXCEPT ![w] = <<>>]
                /\ Goto(w, "choosing")
                /\ UNCHANGED <<fetched, evidence>>
           [] phase[w] = "deciding" ->
                /\ todo' = [todo EXCEPT ![w] = <<>>]
                /\ Goto(w, "judging")
                /\ UNCHANGED <<phase, fetched, evidence>>
           [] OTHER ->
                /\ todo' = [todo EXCEPT ![w] = <<>>]
                /\ phase' = [phase EXCEPT ![w] = "none"]
                /\ fetched' = [fetched EXCEPT ![w] = NoPrint]
                /\ Goto(w, "idle")
                /\ UNCHANGED evidence

TakeSnapLock(w) ==
    /\ pc[w] = "locking" /\ Acquired(w, "snap")
    /\ Goto(w, "reading")
    /\ UNCHANGED <<now, chain, listed, ticks, snapshot, faults, locals>>

\* Both attempts found the lock taken: the update is dropped.
DropUpdate(w) ==
    /\ pc[w] = "locking" /\ lock["snap"] # Nobody
    /\ NextUpdate(w)
    /\ UNCHANGED <<now, chain, listed, kv, faults, copy>>

ReadSnapshot(w) ==
    /\ pc[w] = "reading"
    /\ copy' = [copy EXCEPT ![w] = snapshot]
    /\ Goto(w, IF Frozen(snapshot) THEN "unlocking" ELSE "writing")
    /\ UNCHANGED <<now, chain, listed, kv, faults, phase, fetched, todo, evidence>>

WriteSnapshot(w) ==
    /\ pc[w] = "writing" /\ Goto(w, "unlocking")
    /\ snapshot' = Merged(copy[w], Head(todo[w]))
    /\ UNCHANGED <<now, chain, listed, ticks, lock, faults, locals>>

ReleaseSnapLock(w) ==
    /\ pc[w] = "unlocking" /\ Released(w, {"snap"})
    /\ copy' = [copy EXCEPT ![w] = NoSnapshot]
    /\ NextUpdate(w)
    /\ UNCHANGED <<now, chain, listed, ticks, snapshot, faults>>

---------------------------------------------------------------------------
(* Resolution. *)

\* Mutant of GraceOver: a market without evidence is deferred every time.
GraceIsEndless == FALSE

GraceOver == now >= ObsEnd + Grace

\* The record decides: frozen already, ready, still within the grace, or
\* never to be ready.
Judge(w) ==
    /\ pc[w] = "judging"
    /\ \/ /\ Frozen(snapshot) \/ (~Ready(snapshot) /\ ~GraceOver)
          /\ Finish(w, {})
       \/ /\ ~Frozen(snapshot) /\ Ready(snapshot)
          /\ evidence' = [evidence EXCEPT ![w] =
                [start |-> snapshot.start, end |-> snapshot.end,
                 outcome |-> OutcomeFromPrints(snapshot.start, snapshot.end)]]
          /\ Goto(w, "sending")
          /\ UNCHANGED <<lock, phase, fetched, todo, copy>>
       \/ /\ ~Frozen(snapshot) /\ ~Ready(snapshot) /\ GraceOver
          /\ Goto(w, "cancelling")
          /\ UNCHANGED <<lock, locals>>
    /\ UNCHANGED <<now, chain, listed, ticks, snapshot, faults>>

Sent(w, v) == mempool' = Append(mempool, [by |-> w, verdict |-> v])

\* resolve() is sent after a look at the status; a final market is left.
SendVerdict(w) ==
    /\ pc[w] = "sending"
    /\ \/ /\ verdict = "Live"
          /\ Sent(w, evidence[w].outcome)
          /\ Goto(w, "awaiting")
          /\ UNCHANGED <<lock, locals>>
       \/ verdict # "Live" /\ Finish(w, {}) /\ UNCHANGED mempool
    /\ UNCHANGED <<now, verdict, listed, ticks, snapshot, faults>>

\* cancel() may be sent again for a cancelled market.
SendCancel(w) ==
    /\ pc[w] = "cancelling"
    /\ \/ /\ verdict \in {"Live", "Cancelled"}
          /\ Sent(w, "Cancelled")
          /\ Goto(w, "awaiting")
          /\ UNCHANGED <<lock, locals>>
       \/ verdict \in {"YES", "NO"} /\ Finish(w, {}) /\ UNCHANGED mempool
    /\ UNCHANGED <<now, verdict, listed, ticks, snapshot, faults>>

\* The contract executes the next transaction, or reverts it; its sender, if
\* it still waits, learns which.
Mine ==
    /\ mempool # <<>>
    /\ LET tx == Head(mempool)
           ok == \/ verdict = "Live" /\ (tx.verdict = "Cancelled" \/ now >= ObsEnd)
                 \/ verdict = "Cancelled" /\ tx.verdict = "Cancelled"
       IN  /\ verdict' = IF ok THEN tx.verdict ELSE verdict
           /\ pc' = [w \in Workers |->
                 IF w # tx.by THEN pc[w]
                 ELSE IF ok /\ tx.verdict # "Cancelled" THEN "checking" ELSE "done"]
    /\ mempool' = Tail(mempool)
    /\ UNCHANGED <<now, listed, kv, faults, locals>>

\* A cancelled or reverted resolution ends.
EndResolve(w) ==
    /\ pc[w] = "done" /\ Finish(w, {})
    /\ UNCHANGED <<now, chain, listed, ticks, snapshot, faults>>

\* The receipt is not trusted alone: status and outcome are read back.
CheckChain(w) ==
    /\ pc[w] = "checking"
    /\ \/ /\ verdict = evidence[w].outcome
          /\ Goto(w, "freezing")
          /\ UNCHANGED <<lock, locals>>
       \/ verdict # evidence[w].outcome /\ Finish(w, {})
    /\ UNCHANGED <<now, chain, listed, ticks, snapshot, faults>>

TakeFreezeLock(w) ==
    /\ pc[w] = "freezing"
    /\ \/ Acquired(w, "freeze") /\ Goto(w, "freezeReading") /\ UNCHANGED locals
       \/ lock["freeze"] # Nobody /\ Finish(w, {})
    /\ UNCHANGED <<now, chain, listed, ticks, snapshot, faults>>

ReadForFreeze(w) ==
    /\ pc[w] = "freezeReading"
    /\ Goto(w, IF Frozen(snapshot) THEN "thawed" ELSE "freezeWriting")
    /\ UNCHANGED <<now, chain, listed, kv, faults, locals>>

\* Mutant of WriteFrozen: the record is frozen with the prints it holds now.
WriteFrozenAsStored(w) ==
    /\ pc[w] = "freezeWriting" /\ Goto(w, "thawed")
    /\ snapshot' = [snapshot EXCEPT !.outcome = evidence[w].outcome]
    /\ UNCHANGED <<now, chain, listed, ticks, lock, faults, locals>>

\* The record becomes the evidence the resolver judged, whatever it holds now.
WriteFrozen(w) ==
    /\ pc[w] = "freezeWriting" /\ Goto(w, "thawed")
    /\ snapshot' = evidence[w]
    /\ UNCHANGED <<now, chain, listed, ticks, lock, faults, locals>>

ReleaseFreezeLock(w) ==
    /\ pc[w] = "thawed" /\ Finish(w, {"freeze"})
    /\ UNCHANGED <<now, chain, listed, ticks, snapshot, faults>>

---------------------------------------------------------------------------
(* What can go wrong, and the environment. *)

\* Nobody waits any more for the receipts of what these workers sent.
Abandoned(gone) ==
    mempool' = [i \in DOMAIN mempool |->
                  IF mempool[i].by \in gone THEN [mempool[i] EXCEPT !.by = Nobody] ELSE mempool[i]]

\* A call of the store, the feed or the chain fails, or a receipt does not
\* come in time: the worker gives up, and its locks are released.
Throw(w) ==
    /\ ~Idle(w) /\ faults < MaxFaults
    /\ faults' = faults + 1
    /\ Abandoned({w})
    /\ Finish(w, {"snap", "freeze"})
    /\ UNCHANGED <<now, verdict, listed, ticks, snapshot>>

\* A process dies, with all the workers it runs, and is started again; its
\* leases stay.
Crash(dead) ==
    /\ \E w \in dead : ~Idle(w)
    /\ faults < MaxFaults
    /\ faults' = faults + 1
    /\ Abandoned(dead)
    /\ pc' = [w \in Workers |-> IF w \in dead THEN "idle" ELSE pc[w]]
    /\ phase' = [w \in Workers |-> IF w \in dead THEN "none" ELSE phase[w]]
    /\ fetched' = [w \in Workers |-> IF w \in dead THEN NoPrint ELSE fetched[w]]
    /\ todo' = [w \in Workers |-> IF w \in dead THEN <<>> ELSE todo[w]]
    /\ copy' = [w \in Workers |-> IF w \in dead THEN NoSnapshot ELSE copy[w]]
    /\ evidence' = [w \in Workers |-> IF w \in dead THEN NoSnapshot ELSE evidence[w]]
    /\ UNCHANGED <<now, verdict, listed, kv>>

\* The worker is between acquiring and releasing the lease.
InUse(key) ==
    /\ lock[key] \in Workers
    /\ LET w == lock[key]
       IN  CASE key = "snap" -> pc[w] \in {"reading", "writing", "unlocking"}
             [] key = "freeze" -> pc[w] \in {"freezeReading", "freezeWriting", "thawed"}
             [] key = "resolve" -> phase[w] \in {"gathering", "deciding"}

\* A lease runs out: one left behind by a crash, or one held for too long.
Lapse(key) ==
    /\ lock[key] # Nobody
    /\ LeasesMayLapse \/ ~InUse(key)
    /\ lock' = [lock EXCEPT ![key] = Nobody]
    /\ UNCHANGED <<now, chain, listed, ticks, snapshot, faults, pc, locals>>

\* The market list is read again from the chain.
RefreshList ==
    /\ listed # verdict
    /\ listed' = verdict
    /\ UNCHANGED <<now, chain, kv, faults, pc, locals>>

Tick ==
    /\ now < MaxTime
    /\ now' = now + 1
    /\ UNCHANGED <<chain, listed, kv, faults, pc, locals>>

---------------------------------------------------------------------------

Init ==
    /\ now = 0 /\ verdict = "Live" /\ mempool = <<>> /\ listed = "Live"
    /\ ticks = {} /\ snapshot = NoSnapshot
    /\ lock = [key \in {"snap", "freeze", "resolve"} |-> Nobody]
    /\ faults = 0
    /\ pc = [w \in Workers |-> "idle"]
    /\ phase = [w \in Workers |-> "none"]
    /\ fetched = [w \in Workers |-> NoPrint]
    /\ todo = [w \in Workers |-> <<>>]
    /\ copy = [w \in Workers |-> NoSnapshot]
    /\ evidence = [w \in Workers |-> NoSnapshot]

Sample(w) ==
    \/ FetchPrint(w) \/ ChooseBoundaries(w) \/ TakeSnapLock(w) \/ DropUpdate(w)
    \/ ReadSnapshot(w) \/ WriteSnapshot(w) \/ ReleaseSnapLock(w)

Resolve(w) ==
    \/ Judge(w) \/ SendVerdict(w) \/ SendCancel(w) \/ EndResolve(w) \/ CheckChain(w)
    \/ TakeFreezeLock(w) \/ ReadForFreeze(w) \/ WriteFrozen(w) \/ ReleaseFreezeLock(w)

Next ==
    \/ Tick \/ Mine \/ RefreshList
    \/ \E key \in DOMAIN lock : Lapse(key)
    \/ \E w \in Workers :
          \/ StartCapture(w) \/ StartResolve(w)
          \/ Sample(w) \/ Resolve(w)
          \/ Throw(w)
    \/ \E dead \in SUBSET Workers : Crash(dead)

Spec == Init /\ [][Next]_vars

---------------------------------------------------------------------------
(* Properties. *)

Outcomes == {"YES", "NO"}

Records == [start : Feed \cup {NoPrint}, end : Feed \cup {NoPrint},
            outcome : Outcomes \cup {"none"}]
Updates == [open : Feed \cup {NoPrint}, close : Feed \cup {NoPrint}]

Labels == {"idle", "fetching", "choosing", "locking", "reading", "writing", "unlocking",
           "judging", "sending", "cancelling", "awaiting", "done", "checking",
           "freezing", "freezeReading", "freezeWriting", "thawed"}

TypeOK ==
    /\ now \in Times
    /\ verdict \in Outcomes \cup {"Live", "Cancelled"}
    /\ listed \in Outcomes \cup {"Live", "Cancelled"}
    /\ mempool \in Seq([by : Workers \cup {Nobody}, verdict : Outcomes \cup {"Cancelled"}])
    /\ ticks \subseteq Feed
    /\ snapshot \in Records
    /\ lock \in [{"snap", "freeze", "resolve"} -> Workers \cup {Nobody}]
    /\ faults \in 0..MaxFaults
    /\ pc \in [Workers -> Labels]
    /\ phase \in [Workers -> {"none", "sampling", "gathering", "deciding"}]
    /\ fetched \in [Workers -> Feed \cup {NoPrint}]
    /\ todo \in [Workers -> Seq(Updates)]
    /\ copy \in [Workers -> Records]
    /\ evidence \in [Workers -> Records]

\* Frozen evidence proves the verdict: whatever samplers, other resolvers,
\* crashes and late receipts did, a frozen record holds admissible prints
\* whose rule gives the outcome that stands on chain.
FrozenProvesVerdict ==
    Frozen(snapshot) =>
        /\ snapshot.outcome = verdict
        /\ Ready(snapshot)
        /\ verdict = OutcomeFromPrints(snapshot.start, snapshot.end)

\* No print from before the end of observation ever stands as the close, nor
\* one too far from its boundary as open or close, frozen or not.
StoredPrintsAreAdmissible ==
    /\ snapshot.start # NoPrint => IsOpen(snapshot.start)
    /\ snapshot.end # NoPrint => IsClose(snapshot.end)

\* What is stored is admissible, and what is frozen proves the verdict.
EvidenceIsSound == StoredPrintsAreAdmissible /\ FrozenProvesVerdict

\* Samplers never lose evidence to each other: until the record is frozen, a
\* boundary that has a print keeps one, and only nearer prints replace it.
NoFarther(old, new, t) == old # NoPrint => new # NoPrint /\ Dist(new.at, t) <= Dist(old.at, t)

SamplingOnlyImproves ==
    [][~Frozen(snapshot) /\ ~Frozen(snapshot') =>
          /\ NoFarther(snapshot.start, snapshot'.start, ObsStart)
          /\ NoFarther(snapshot.end, snapshot'.end, ObsEnd)]_vars

Fairness ==
    /\ WF_vars(Tick) /\ WF_vars(Mine) /\ WF_vars(RefreshList)
    /\ \A key \in {"snap", "freeze", "resolve"} : WF_vars(~InUse(key) /\ Lapse(key))
    /\ \A w \in Workers : WF_vars(Sample(w)) /\ WF_vars(Resolve(w))
    /\ WF_vars(\E w \in Workers : StartResolve(w))

FairSpec == Spec /\ Fairness

\* Every round comes to a verdict or is cancelled.
EveryRoundEnds == <>(verdict # "Live")

=============================================================================
