--------------------- MODULE ObservationSnapshotProofs ---------------------
(***************************************************************************)
(* Proofs about the evidence of a market, for any workers, any finite      *)
(* feed, any boundaries, leads, distances and retention, any number of     *)
(* faults, and with leases that may lapse under their holders unless a     *)
(* theorem says otherwise.                                                 *)
(***************************************************************************)
EXTENDS ObservationSnapshot, FiniteSetTheorems, SequenceTheorems, TLAPS

---------------------------------------------------------------------------
(* The invariant. *)

Prints == Feed \cup {NoPrint}
Txs == [by : Workers \cup {Nobody}, verdict : Outcomes \cup {"Cancelled"}]

GoodUpdates ==
    {u \in Updates : /\ u.open # NoPrint => IsOpen(u.open)
                     /\ u.close # NoPrint => IsClose(u.close)}

GoodRecords ==
    {r \in Records : /\ r.start # NoPrint => IsOpen(r.start)
                     /\ r.end # NoPrint => IsClose(r.end)}

\* Whatever is stored, read or about to be applied lies near its boundary.
OnlyGoodPrints ==
    /\ snapshot \in GoodRecords
    /\ copy \in [Workers -> GoodRecords]
    /\ todo \in [Workers -> Seq(GoodUpdates)]

\* The types of everything else.
OtherTypes ==
    /\ now \in Times
    /\ verdict \in Outcomes \cup {"Live", "Cancelled"}
    /\ listed \in Outcomes \cup {"Live", "Cancelled"}
    /\ mempool \in Seq(Txs)
    /\ ticks \subseteq Feed
    /\ lock \in [{"snap", "freeze", "resolve"} -> Workers \cup {Nobody}]
    /\ faults \in 0..MaxFaults
    /\ pc \in [Workers -> Labels]
    /\ phase \in [Workers -> {"none", "sampling", "gathering", "deciding"}]
    /\ fetched \in [Workers -> Prints]
    /\ evidence \in [Workers -> Records]

\* A worker among its updates has one to apply, to a record not frozen.
UpdatesPending(w) ==
    /\ pc[w] \in {"locking", "reading", "writing", "unlocking"} => todo[w] # <<>>
    /\ pc[w] = "writing" => ~Frozen(copy[w])

Proven(e) == Ready(e) /\ e.outcome = OutcomeFromPrints(e.start, e.end)

\* A resolver past its judgement has evidence whose rule gives its outcome.
DecidedFromEvidence(w) ==
    pc[w] \in {"sending", "checking", "freezing", "freezeReading", "freezeWriting"} =>
        Proven(evidence[w])

\* Whoever is about to freeze has seen his outcome on chain, where it stays.
FreezerAgrees(w) ==
    pc[w] \in {"freezing", "freezeReading", "freezeWriting"} => verdict = evidence[w].outcome

WorkersSound ==
    \A w \in Workers : UpdatesPending(w) /\ DecidedFromEvidence(w) /\ FreezerAgrees(w)

\* A transaction somebody waits for carries what his evidence says...
Backed(tx) ==
    /\ pc[tx.by] = "awaiting"
    /\ tx.verdict # "Cancelled" =>
          /\ Proven(evidence[tx.by])
          /\ tx.verdict = evidence[tx.by].outcome

\* ... and is the only one he sent.
SendersWait ==
    /\ \A i \in 1..Len(mempool) : mempool[i].by # Nobody => Backed(mempool[i])
    /\ \A i, j \in 1..Len(mempool) : mempool[i].by = mempool[j].by /\ i # j => mempool[i].by = Nobody

EvidenceInv ==
    /\ OtherTypes
    /\ OnlyGoodPrints
    /\ WorkersSound
    /\ SendersWait
    /\ FrozenProvesVerdict

\* While leases outlive their holders' work, only the holder of the snapshot
\* lease is among reading and writing, and what it read is still there,
\* unless it was frozen meanwhile.
HoldsSnap(w) ==
    /\ pc[w] \in {"reading", "writing", "unlocking"} => lock["snap"] = w
    /\ pc[w] = "writing" => snapshot = copy[w] \/ Frozen(snapshot)

SnapHeld == \A w \in Workers : HoldsSnap(w)

---------------------------------------------------------------------------
(* Prints and records. *)

\* The sentinel is no print of the feed.
LEMMA NoPrintIsNoPrint == /\ NoPrint \notin Feed
                          /\ Prints \subseteq [at : Int, value : Int]
BY ObservationAssumption DEF NoPrint, Prints, Times

\* Of two prints one precedes the other, and only one.
LEMMA PrecedesIsAnOrder ==
    ASSUME NEW t \in Int, NEW p \in Feed, NEW q \in Feed
    PROVE  /\ p # q => Precedes(p, q, t) \/ Precedes(q, p, t)
           /\ ~Precedes(p, p, t)
           /\ \A r \in Feed : Precedes(r, q, t) /\ Precedes(q, p, t) => Precedes(r, p, t)
<1> DEFINE Points == [at : Int, value : Int]
<1>1. Feed \subseteq Points
  BY ObservationAssumption DEF Times
<1>2. \A r \in Points : r.at \in Int /\ r.value \in Int /\ Dist(r.at, t) \in Int
  BY DEF Dist
<1>3. p # q => p.at # q.at \/ p.value # q.value
  BY <1>1
<1>4. ~Precedes(p, p, t)
  BY <1>1, <1>2 DEF Precedes
<1>5. p # q => Precedes(p, q, t) \/ Precedes(q, p, t)
  BY <1>1, <1>2, <1>3 DEF Precedes
<1>6. ASSUME NEW r \in Feed, Precedes(r, q, t), Precedes(q, p, t)
      PROVE  Precedes(r, p, t)
  <2>1. /\ r.at \in Int /\ r.value \in Int /\ Dist(r.at, t) \in Int
        /\ q.at \in Int /\ q.value \in Int /\ Dist(q.at, t) \in Int
        /\ p.at \in Int /\ p.value \in Int /\ Dist(p.at, t) \in Int
    BY <1>1, <1>2
  <2> QED
    BY <1>6, <2>1 DEF Precedes
<1> QED
  BY <1>4, <1>5, <1>6

\* A nonempty set of prints has a nearest one.
LEMMA NearestExists ==
    ASSUME NEW t \in Int, NEW S \in SUBSET Feed, S # {}
    PROVE  Nearest(S, t) \in S
<1> DEFINE Before(p) == {q \in Feed : Precedes(q, p, t)}
           Befores == {Before(p) : p \in S}
<1>1. Befores \subseteq FiniteSubsetsOf(Feed) /\ Befores # {}
  <2>1. FiniteSubsetsOf(Feed) = SUBSET Feed
    BY ObservationAssumption, FS_FiniteSubsetsOfFinite
  <2>2. Befores \subseteq SUBSET Feed
    BY Zenon
  <2>3. Befores # {}
    BY Zenon
  <2> QED
    BY <2>1, <2>2, <2>3, Zenon
<1>2. PICK x \in Befores : \A y \in Befores : <<y, x>> \notin StrictSubsetOrdering(Feed)
  <2> HIDE DEF Befores
  <2> QED
    BY <1>1, FS_StrictSubsetOrderingWellFounded, WFMin
<1>3. PICK p \in S : x = Before(p)
  BY <1>2
<1>4. ASSUME NEW q \in S \ {p}
      PROVE  Precedes(p, q, t)
  <2>1. SUFFICES ASSUME Precedes(q, p, t) PROVE FALSE
    BY <1>4, PrecedesIsAnOrder
  <2>2. Before(q) \subseteq Before(p)
    BY <1>4, <2>1, PrecedesIsAnOrder
  <2>3. q \in Before(p) /\ q \notin Before(q)
    BY <1>4, <2>1, PrecedesIsAnOrder
  <2>4. <<Before(q), Before(p)>> \in StrictSubsetOrdering(Feed)
    BY <2>2, <2>3 DEF StrictSubsetOrdering
  <2> QED
    BY <1>2, <1>3, <1>4, <2>4
<1>5. \E s \in S : \A q \in S \ {s} : Precedes(s, q, t)
  BY <1>4
<1> QED
  BY <1>5 DEF Nearest

\* What is chosen from the ticks lies near its boundary, if anything is.
LEMMA BoundariesAreGood ==
    ASSUME NEW S \in SUBSET Feed
    PROVE  Boundaries(S) \in GoodUpdates
<1> DEFINE Opens == {p \in S : IsOpen(p)}
           Closes == {p \in S : IsClose(p)}
<1>1. BestOpen(S) = NoPrint \/ BestOpen(S) \in Opens
  <2>1. Opens = {} => BestOpen(S) = NoPrint
    BY DEF BestOpen, Nearest
  <2>2. Opens # {} => Nearest(Opens, ObsStart) \in Opens
    BY ObservationAssumption, NearestExists
  <2> QED
    BY <2>1, <2>2 DEF BestOpen
<1>2. BestClose(S) = NoPrint \/ BestClose(S) \in Closes
  <2>1. Closes = {} => BestClose(S) = NoPrint
    BY DEF BestClose, Nearest
  <2>2. Closes # {} => Nearest(Closes, ObsEnd) \in Closes
    BY ObservationAssumption, NearestExists
  <2> QED
    BY <2>1, <2>2 DEF BestClose
<1> QED
  BY <1>1, <1>2 DEF Boundaries, GoodUpdates, Updates

\* So does a direct sample.
LEMMA SamplesAreGood ==
    ASSUME NEW p \in Feed
    PROVE  SampleOf(p) \in GoodUpdates
BY DEF SampleOf, GoodUpdates, Updates

\* Updating a record keeps its prints near their boundaries, and thaws nothing.
LEMMA MergedIsGood ==
    ASSUME NEW r \in GoodRecords, NEW u \in GoodUpdates
    PROVE  Merged(r, u) \in GoodRecords /\ Merged(r, u).outcome = r.outcome
BY DEF Merged, Better, GoodRecords, GoodUpdates, Records, Updates

\* A print is only replaced by a nearer one.
LEMMA MergedIsNearer ==
    ASSUME NEW r \in GoodRecords, NEW u \in GoodUpdates
    PROVE  /\ NoFarther(r.start, Merged(r, u).start, ObsStart)
           /\ NoFarther(r.end, Merged(r, u).end, ObsEnd)
<1>1. /\ r.start \in [at : Int, value : Int] /\ u.open \in [at : Int, value : Int]
      /\ r.end \in [at : Int, value : Int] /\ u.close \in [at : Int, value : Int]
  BY NoPrintIsNoPrint DEF GoodRecords, GoodUpdates, Records, Updates, Prints
<1>2. ObsStart \in Int /\ ObsEnd \in Int
  BY ObservationAssumption
<1>3. /\ Dist(r.start.at, ObsStart) \in Int /\ Dist(u.open.at, ObsStart) \in Int
      /\ Dist(r.end.at, ObsEnd) \in Int /\ Dist(u.close.at, ObsEnd) \in Int
  BY <1>1, <1>2 DEF Dist
<1>4. NoFarther(r.start, Better(u.open, r.start, ObsStart), ObsStart)
  BY <1>3 DEF NoFarther, Better
<1>5. NoFarther(r.end, Better(u.close, r.end, ObsEnd), ObsEnd)
  BY <1>3 DEF NoFarther, Better
<1> QED
  BY <1>4, <1>5 DEF Merged

\* A proven record has a verdict for outcome.
LEMMA ProvenIsDecided ==
    ASSUME NEW e, Proven(e)
    PROVE  e.outcome \in Outcomes
BY DEF Proven, OutcomeFromPrints, Outcomes

---------------------------------------------------------------------------
(* The invariant holds at first, and implies the types. *)

\* The invariant's first two parts give the type invariant.
LEMMA InvImpliesTypes == OtherTypes /\ OnlyGoodPrints => TypeOK
<1> SUFFICES ASSUME OtherTypes, OnlyGoodPrints PROVE TypeOK
  OBVIOUS
<1>1. snapshot \in Records /\ copy \in [Workers -> Records]
  BY DEF OnlyGoodPrints, GoodRecords
<1>2. todo \in [Workers -> Seq(Updates)]
  <2>1. \A u \in Seq(GoodUpdates) : u \in Seq(Updates)
    BY SeqMonotonic DEF GoodUpdates
  <2> QED
    BY <2>1 DEF OnlyGoodPrints
<1> QED
  BY <1>1, <1>2 DEF OtherTypes, TypeOK, Txs, Prints

\* The empty record and the empty list of updates are good ones.
LEMMA EmptyIsGood == NoSnapshot \in GoodRecords /\ <<>> \in Seq(GoodUpdates)
BY EmptySeq DEF NoSnapshot, GoodRecords, Records

\* Nothing is stored, sent or locked at first.
LEMMA EvidenceInit == Init => EvidenceInv
<1> SUFFICES ASSUME Init PROVE EvidenceInv
  OBVIOUS
<1>1. Len(mempool) = 0 /\ mempool \in Seq(Txs)
  BY EmptySeq DEF Init
<1>2. OtherTypes
  BY <1>1, ObservationAssumption DEF Init, OtherTypes, Times, Labels, Prints, NoSnapshot, Records
<1>3. OnlyGoodPrints
  BY EmptyIsGood DEF Init, OnlyGoodPrints
<1>4. WorkersSound
  BY DEF Init, WorkersSound, UpdatesPending, DecidedFromEvidence, FreezerAgrees
<1>5. SendersWait
  BY <1>1 DEF SendersWait
<1>6. FrozenProvesVerdict
  BY DEF Init, FrozenProvesVerdict, Frozen, NoSnapshot
<1> QED
  BY <1>2, <1>3, <1>4, <1>5, <1>6 DEF EvidenceInv

---------------------------------------------------------------------------
(* The steps of one worker leave the others alone. *)

\* What a worker that sends nothing must take care of.
OwnStep(w) ==
    /\ UNCHANGED <<verdict, mempool>>
    /\ UNCHANGED snapshot \/ FrozenProvesVerdict'
    /\ pc[w] # "awaiting"
    /\ \A v \in Workers \ {w} : /\ pc'[v] = pc[v] /\ evidence'[v] = evidence[v]
                                /\ todo'[v] = todo[v] /\ copy'[v] = copy[v]
    /\ UpdatesPending(w)' /\ DecidedFromEvidence(w)' /\ FreezerAgrees(w)'

\* A step that touches one worker's variables, or a lease, need only be
\* looked at for that worker.
LEMMA OwnStepKeepsInv ==
    ASSUME EvidenceInv, NEW w \in Workers, OwnStep(w), OtherTypes', OnlyGoodPrints'
    PROVE  EvidenceInv'
<1>1. WorkersSound'
  <2> SUFFICES ASSUME NEW v \in Workers \ {w}
               PROVE  UpdatesPending(v)' /\ DecidedFromEvidence(v)' /\ FreezerAgrees(v)'
    BY DEF OwnStep, WorkersSound
  <2>1. UpdatesPending(v) /\ DecidedFromEvidence(v) /\ FreezerAgrees(v)
    BY DEF EvidenceInv, WorkersSound
  <2> QED
    BY <2>1 DEF OwnStep, UpdatesPending, DecidedFromEvidence, FreezerAgrees
<1>2. SendersWait'
  <2>1. ASSUME NEW i \in 1..Len(mempool), mempool[i].by # Nobody
        PROVE  Backed(mempool[i])'
    <3>1. Backed(mempool[i]) /\ mempool[i].by \in Workers
      <4>1. mempool[i] \in Txs
        BY <2>1, ElementOfSeq DEF EvidenceInv, OtherTypes
      <4> QED
        BY <2>1, <4>1 DEF EvidenceInv, SendersWait, Txs
    <3>2. mempool[i].by # w
      BY <3>1 DEF OwnStep, Backed
    <3>3. /\ mempool' = mempool
          /\ pc'[mempool[i].by] = pc[mempool[i].by]
          /\ evidence'[mempool[i].by] = evidence[mempool[i].by]
      BY <3>1, <3>2 DEF OwnStep
    <3> QED
      BY <3>1, <3>3 DEF Backed, Proven, Ready
  <2>2. UNCHANGED mempool
    BY DEF OwnStep
  <2> QED
    BY <2>1, <2>2 DEF EvidenceInv, SendersWait
<1>3. FrozenProvesVerdict'
  BY DEF EvidenceInv, FrozenProvesVerdict, OwnStep
<1> QED
  BY <1>1, <1>2, <1>3 DEF EvidenceInv

\* A worker that ends what it did.
LEMMA FinishKeepsTypes ==
    ASSUME OtherTypes, OnlyGoodPrints, NEW w \in Workers, NEW keys, Finish(w, keys)
    PROVE  /\ pc' \in [Workers -> Labels]
           /\ lock' \in [{"snap", "freeze", "resolve"} -> Workers \cup {Nobody}]
           /\ phase' \in [Workers -> {"none", "sampling", "gathering", "deciding"}]
           /\ fetched' \in [Workers -> Prints]
           /\ evidence' \in [Workers -> Records]
           /\ copy' \in [Workers -> GoodRecords]
           /\ todo' \in [Workers -> Seq(GoodUpdates)]
           /\ UpdatesPending(w)' /\ DecidedFromEvidence(w)' /\ FreezerAgrees(w)'
           /\ pc'[w] = "idle"
           /\ \A v \in Workers \ {w} : /\ pc'[v] = pc[v] /\ evidence'[v] = evidence[v]
                                       /\ todo'[v] = todo[v] /\ copy'[v] = copy[v]
<1>1. /\ pc' \in [Workers -> Labels] /\ pc'[w] = "idle"
      /\ phase' \in [Workers -> {"none", "sampling", "gathering", "deciding"}]
      /\ fetched' \in [Workers -> Prints]
  BY DEF OtherTypes, Finish, Goto, Labels, Prints
<1>2. lock' \in [{"snap", "freeze", "resolve"} -> Workers \cup {Nobody}]
  BY DEF OtherTypes, Finish, Released
<1>3. /\ evidence' \in [Workers -> Records]
      /\ copy' \in [Workers -> GoodRecords]
      /\ todo' \in [Workers -> Seq(GoodUpdates)]
  BY EmptyIsGood DEF OtherTypes, OnlyGoodPrints, Finish, GoodRecords
<1>4. UpdatesPending(w)' /\ DecidedFromEvidence(w)' /\ FreezerAgrees(w)'
  BY <1>1 DEF UpdatesPending, DecidedFromEvidence, FreezerAgrees
<1>5. \A v \in Workers \ {w} : /\ pc'[v] = pc[v] /\ evidence'[v] = evidence[v]
                               /\ todo'[v] = todo[v] /\ copy'[v] = copy[v]
  BY DEF OtherTypes, OnlyGoodPrints, Finish, Goto
<1> QED
  BY <1>1, <1>2, <1>3, <1>4, <1>5

\* Ending is an own step of a worker that does not await a receipt.
LEMMA FinishKeepsInv ==
    ASSUME EvidenceInv, NEW w \in Workers, NEW keys, Finish(w, keys), pc[w] # "awaiting",
           UNCHANGED <<now, chain, listed, ticks, snapshot, faults>>
    PROVE  EvidenceInv'
<1>1. OtherTypes' /\ OnlyGoodPrints'
  BY FinishKeepsTypes DEF EvidenceInv, OtherTypes, OnlyGoodPrints, chain
<1>2. OwnStep(w)
  BY FinishKeepsTypes DEF EvidenceInv, OwnStep, chain
<1> QED
  BY <1>1, <1>2, OwnStepKeepsInv

---------------------------------------------------------------------------
(* Sampling. *)

\* A sampler begins with nothing to apply.
LEMMA StartCaptureStep ==
    ASSUME EvidenceInv, NEW w \in Workers, StartCapture(w)
    PROVE  EvidenceInv'
<1>1. OtherTypes'
  BY DEF EvidenceInv, OtherTypes, Labels, Goto, chain, kv, locals, StartCapture
<1>2. OnlyGoodPrints'
  BY DEF EvidenceInv, OnlyGoodPrints, Goto, chain, kv, locals, StartCapture
<1>3. OwnStep(w)
  BY DEF EvidenceInv, OtherTypes, OnlyGoodPrints, WorkersSound, OwnStep, UpdatesPending, DecidedFromEvidence, FreezerAgrees, Goto, Idle, chain, kv, locals, StartCapture
<1> QED
  BY <1>1, <1>2, <1>3, OwnStepKeepsInv

\* So does a resolver.
LEMMA StartResolveStep ==
    ASSUME EvidenceInv, NEW w \in Workers, StartResolve(w)
    PROVE  EvidenceInv'
<1>1. OtherTypes'
  BY DEF EvidenceInv, OtherTypes, Labels, Goto, chain, kv, locals, StartResolve, Acquired
<1>2. OnlyGoodPrints'
  BY DEF EvidenceInv, OnlyGoodPrints, Goto, chain, kv, locals, StartResolve
<1>3. OwnStep(w)
  BY DEF EvidenceInv, OtherTypes, OnlyGoodPrints, WorkersSound, OwnStep, UpdatesPending, DecidedFromEvidence, FreezerAgrees, Goto, Idle, chain, kv, locals, StartResolve
<1> QED
  BY <1>1, <1>2, <1>3, OwnStepKeepsInv

\* What is fetched is a print of the feed or none.
LEMMA FetchPrintStep ==
    ASSUME EvidenceInv, NEW w \in Workers, FetchPrint(w)
    PROVE  EvidenceInv'
<1>1. OtherTypes'
  BY DEF EvidenceInv, OtherTypes, Labels, Goto, chain, kv, locals, FetchPrint, Prints
<1>2. OnlyGoodPrints'
  BY DEF EvidenceInv, OnlyGoodPrints, Goto, chain, kv, locals, FetchPrint
<1>3. OwnStep(w)
  BY DEF EvidenceInv, OtherTypes, OnlyGoodPrints, WorkersSound, OwnStep, UpdatesPending, DecidedFromEvidence, FreezerAgrees, Goto, Idle, chain, kv, locals, FetchPrint
<1> QED
  BY <1>1, <1>2, <1>3, OwnStepKeepsInv

\* Taking the lease changes no record.
LEMMA TakeSnapLockStep ==
    ASSUME EvidenceInv, NEW w \in Workers, TakeSnapLock(w)
    PROVE  EvidenceInv'
<1>1. OtherTypes'
  BY DEF EvidenceInv, OtherTypes, Labels, Goto, chain, kv, locals, TakeSnapLock, Acquired
<1>2. OnlyGoodPrints'
  BY DEF EvidenceInv, OnlyGoodPrints, Goto, chain, kv, locals, TakeSnapLock
<1>3. OwnStep(w)
  BY DEF EvidenceInv, OtherTypes, OnlyGoodPrints, WorkersSound, OwnStep, UpdatesPending, DecidedFromEvidence, FreezerAgrees, Goto, Idle, chain, kv, locals, TakeSnapLock
<1> QED
  BY <1>1, <1>2, <1>3, OwnStepKeepsInv

\* A record that was read is as good as the one stored, and not frozen
\* if it is going to be written.
LEMMA ReadSnapshotStep ==
    ASSUME EvidenceInv, NEW w \in Workers, ReadSnapshot(w)
    PROVE  EvidenceInv'
<1>1. OtherTypes'
  BY DEF EvidenceInv, OtherTypes, Labels, Goto, chain, kv, locals, ReadSnapshot
<1>2. OnlyGoodPrints'
  BY DEF EvidenceInv, OnlyGoodPrints, Goto, chain, kv, locals, ReadSnapshot
<1>3. OwnStep(w)
  BY DEF EvidenceInv, OtherTypes, OnlyGoodPrints, WorkersSound, OwnStep, UpdatesPending, DecidedFromEvidence, FreezerAgrees, Goto, Idle, chain, kv, locals, ReadSnapshot
<1> QED
  BY <1>1, <1>2, <1>3, OwnStepKeepsInv

\* Only prints near a boundary become updates, and there is at least one.
LEMMA ChooseBoundariesStep ==
    ASSUME EvidenceInv, NEW w \in Workers, ChooseBoundaries(w)
    PROVE  EvidenceInv'
<1>1. OtherTypes'
  BY DEF EvidenceInv, OtherTypes, Labels, Goto, chain, kv, locals, ChooseBoundaries
<1>2. todo'[w] \in Seq(GoodUpdates) /\ todo'[w] # <<>>
  <2>1. Boundaries(Readable) \in GoodUpdates
    BY BoundariesAreGood DEF EvidenceInv, OtherTypes, Readable
  <2>2. fetched[w] # NoPrint => SampleOf(fetched[w]) \in GoodUpdates
    BY SamplesAreGood DEF EvidenceInv, OtherTypes, Prints
  <2> QED
    BY <2>1, <2>2 DEF ChooseBoundaries, EvidenceInv, OnlyGoodPrints
<1>3. OnlyGoodPrints'
  BY <1>2 DEF EvidenceInv, OnlyGoodPrints, Goto, chain, kv, locals, ChooseBoundaries
<1>4. OwnStep(w)
  BY <1>2 DEF EvidenceInv, OtherTypes, OnlyGoodPrints, WorkersSound, OwnStep, UpdatesPending, DecidedFromEvidence, FreezerAgrees, Goto, Idle, chain, kv, locals, ChooseBoundaries
<1> QED
  BY <1>1, <1>3, <1>4, OwnStepKeepsInv

\* After an update comes the next, if there is one.
LEMMA NextUpdateFrame ==
    ASSUME EvidenceInv, NEW w \in Workers, NextUpdate(w)
    PROVE  /\ pc' \in [Workers -> Labels]
           /\ phase' \in [Workers -> {"none", "sampling", "gathering", "deciding"}]
           /\ fetched' \in [Workers -> Prints]
           /\ evidence' = evidence
           /\ todo' \in [Workers -> Seq(GoodUpdates)]
           /\ pc'[w] \in {"locking", "choosing", "judging", "idle"}
           /\ pc'[w] = "locking" => todo'[w] # <<>>
           /\ \A v \in Workers \ {w} : pc'[v] = pc[v] /\ todo'[v] = todo[v]
<1>1. CASE Len(todo[w]) > 1
  <2>1. /\ todo' = [todo EXCEPT ![w] = Tail(todo[w])]
        /\ pc' = [pc EXCEPT ![w] = "locking"]
        /\ UNCHANGED <<phase, fetched, evidence>>
    BY <1>1 DEF NextUpdate, Goto
  <2>2. todo[w] \in Seq(GoodUpdates) /\ todo[w] # <<>>
    BY <1>1, EmptySeq DEF EvidenceInv, OnlyGoodPrints
  <2>3. Tail(todo[w]) \in Seq(GoodUpdates) /\ Len(Tail(todo[w])) = Len(todo[w]) - 1
    BY <2>2, HeadTailProperties
  <2>4. Tail(todo[w]) # <<>>
    <3>1. Len(Tail(todo[w])) # 0
      <4> DEFINE n == Len(todo[w])
                 m == Len(Tail(todo[w]))
      <4>1. n \in Nat
        BY <2>2, LenProperties
      <4>2. n > 1 /\ m = n - 1
        BY <1>1, <2>3
      <4> HIDE DEF n, m
      <4>3. m # 0
        BY <4>1, <4>2
      <4> QED
        BY <4>3 DEF m
    <3>2. Len(<<>>) = 0
      BY EmptySeq
    <3> QED
      BY <3>1, <3>2, Zenon
  <2> QED
    BY <2>1, <2>3, <2>4 DEF EvidenceInv, OtherTypes, OnlyGoodPrints, Labels
<1>2. CASE ~(Len(todo[w]) > 1)
  <2>1. /\ todo' = [todo EXCEPT ![w] = <<>>]
        /\ \E label \in {"choosing", "judging", "idle"} : pc' = [pc EXCEPT ![w] = label]
        /\ phase' \in [Workers -> {"none", "sampling", "gathering", "deciding"}]
        /\ fetched' \in [Workers -> Prints]
        /\ evidence' = evidence
    <3>1. CASE phase[w] = "gathering"
      BY <1>2, <3>1 DEF NextUpdate, Goto, EvidenceInv, OtherTypes, Prints
    <3>2. CASE phase[w] = "deciding"
      BY <1>2, <3>2 DEF NextUpdate, Goto, EvidenceInv, OtherTypes, Prints
    <3>3. CASE phase[w] \notin {"gathering", "deciding"}
      BY <1>2, <3>3 DEF NextUpdate, Goto, EvidenceInv, OtherTypes, Prints
    <3> QED
      BY <3>1, <3>2, <3>3
  <2> QED
    BY <2>1, EmptyIsGood DEF EvidenceInv, OtherTypes, OnlyGoodPrints, Labels
<1> QED
  BY <1>1, <1>2

\* An update whose lease is taken is dropped.
LEMMA DropUpdateStep ==
    ASSUME EvidenceInv, NEW w \in Workers, DropUpdate(w)
    PROVE  EvidenceInv'
<1>1. NextUpdate(w) /\ UNCHANGED <<now, chain, listed, kv, faults, copy>> /\ pc[w] = "locking"
  BY DEF DropUpdate
<1>2. OtherTypes' /\ OnlyGoodPrints'
  BY <1>1, NextUpdateFrame DEF EvidenceInv, OtherTypes, OnlyGoodPrints, chain, kv
<1>3. OwnStep(w)
  BY <1>1, NextUpdateFrame DEF OwnStep, UpdatesPending, DecidedFromEvidence, FreezerAgrees, chain, kv
<1> QED
  BY <1>2, <1>3, OwnStepKeepsInv

\* An update that was applied is done with.
LEMMA ReleaseSnapLockStep ==
    ASSUME EvidenceInv, NEW w \in Workers, ReleaseSnapLock(w)
    PROVE  EvidenceInv'
<1>1. /\ NextUpdate(w) /\ Released(w, {"snap"}) /\ pc[w] = "unlocking"
      /\ copy' = [copy EXCEPT ![w] = NoSnapshot]
      /\ UNCHANGED <<now, chain, listed, ticks, snapshot, faults>>
  BY DEF ReleaseSnapLock
<1>2. lock' \in [{"snap", "freeze", "resolve"} -> Workers \cup {Nobody}]
  BY <1>1 DEF EvidenceInv, OtherTypes, Released
<1>3. copy' \in [Workers -> GoodRecords] /\ \A v \in Workers \ {w} : copy'[v] = copy[v]
  BY <1>1, EmptyIsGood DEF EvidenceInv, OnlyGoodPrints
<1>4. OtherTypes' /\ OnlyGoodPrints'
  BY <1>1, <1>2, <1>3, NextUpdateFrame DEF EvidenceInv, OtherTypes, OnlyGoodPrints, chain
<1>5. OwnStep(w)
  BY <1>1, <1>3, NextUpdateFrame DEF OwnStep, UpdatesPending, DecidedFromEvidence, FreezerAgrees, chain
<1> QED
  BY <1>4, <1>5, OwnStepKeepsInv

\* Merging good prints into a good record, not frozen, leaves it good.
LEMMA WriteSnapshotStep ==
    ASSUME EvidenceInv, NEW w \in Workers, WriteSnapshot(w)
    PROVE  EvidenceInv'
<1>1. snapshot' \in GoodRecords /\ ~Frozen(snapshot')
  <2>1. /\ todo[w] \in Seq(GoodUpdates) /\ todo[w] # <<>>
        /\ copy[w] \in GoodRecords /\ ~Frozen(copy[w])
    BY DEF EvidenceInv, OnlyGoodPrints, WorkersSound, UpdatesPending, WriteSnapshot
  <2>2. Head(todo[w]) \in GoodUpdates
    BY <2>1, HeadTailProperties
  <2> QED
    BY <2>1, <2>2, MergedIsGood DEF WriteSnapshot, Frozen
<1>2. OtherTypes'
  BY DEF EvidenceInv, OtherTypes, Labels, Goto, chain, kv, locals, WriteSnapshot
<1>3. OnlyGoodPrints'
  BY <1>1 DEF EvidenceInv, OnlyGoodPrints, Goto, chain, kv, locals, WriteSnapshot
<1>4. FrozenProvesVerdict'
  BY <1>1 DEF FrozenProvesVerdict
<1>5. OwnStep(w)
  BY <1>4 DEF EvidenceInv, OtherTypes, OnlyGoodPrints, WorkersSound, OwnStep, UpdatesPending, DecidedFromEvidence, FreezerAgrees, Goto, Idle, chain, kv, locals, WriteSnapshot
<1> QED
  BY <1>2, <1>3, <1>5, OwnStepKeepsInv

---------------------------------------------------------------------------
(* Resolving. *)

\* A resolver goes on to send only with evidence whose rule decides.
LEMMA JudgeStep ==
    ASSUME EvidenceInv, NEW w \in Workers, Judge(w)
    PROVE  EvidenceInv'
<1>0. /\ UNCHANGED <<now, chain, listed, ticks, snapshot, faults>>
      /\ pc[w] = "judging" /\ pc[w] # "awaiting"
  BY DEF Judge
<1>1. CASE Finish(w, {})
  BY <1>0, <1>1, FinishKeepsInv
<1>2. CASE /\ Ready(snapshot)
           /\ evidence' = [evidence EXCEPT ![w] =
                [start |-> snapshot.start, end |-> snapshot.end,
                 outcome |-> OutcomeFromPrints(snapshot.start, snapshot.end)]]
           /\ Goto(w, "sending")
           /\ UNCHANGED <<lock, phase, fetched, todo, copy>>
  <2> DEFINE e == [start |-> snapshot.start, end |-> snapshot.end,
                   outcome |-> OutcomeFromPrints(snapshot.start, snapshot.end)]
  <2>1. e \in Records /\ Proven(e)
    BY <1>2 DEF EvidenceInv, OnlyGoodPrints, GoodRecords, Records, Proven, Ready, OutcomeFromPrints, Outcomes
  <2> HIDE DEF e
  <2>2. evidence' \in [Workers -> Records] /\ Proven(evidence'[w])
    BY <1>2, <2>1 DEF EvidenceInv, OtherTypes, e
  <2>3. OtherTypes'
    BY <1>0, <1>2, <2>2 DEF EvidenceInv, OtherTypes, Labels, Goto, chain, kv, locals
  <2>4. OnlyGoodPrints'
    BY <1>0, <1>2 DEF EvidenceInv, OnlyGoodPrints, Goto, chain, kv, locals
  <2>5. OwnStep(w)
    BY <1>0, <1>2, <2>2 DEF EvidenceInv, OtherTypes, OnlyGoodPrints, WorkersSound, OwnStep, UpdatesPending, DecidedFromEvidence, FreezerAgrees, Goto, Idle, chain, kv, locals
  <2> QED
    BY <2>3, <2>4, <2>5, OwnStepKeepsInv
<1>3. CASE Goto(w, "cancelling") /\ UNCHANGED <<lock, locals>>
  <2>1. OtherTypes'
    BY <1>0, <1>3 DEF EvidenceInv, OtherTypes, Labels, Goto, chain, kv, locals
  <2>2. OnlyGoodPrints'
    BY <1>0, <1>3 DEF EvidenceInv, OnlyGoodPrints, Goto, chain, kv, locals
  <2>3. OwnStep(w)
    BY <1>0, <1>3 DEF EvidenceInv, OtherTypes, OnlyGoodPrints, WorkersSound, OwnStep, UpdatesPending, DecidedFromEvidence, FreezerAgrees, Goto, Idle, chain, kv, locals
  <2> QED
    BY <2>1, <2>2, <2>3, OwnStepKeepsInv
<1> QED
  BY <1>1, <1>2, <1>3 DEF Judge

\* A worker that does not wait yet sends what its evidence says, and waits.
LEMMA SendingKeepsInv ==
    ASSUME EvidenceInv, NEW w \in Workers, pc[w] # "awaiting",
           NEW v \in Outcomes \cup {"Cancelled"},
           v # "Cancelled" => Proven(evidence[w]) /\ v = evidence[w].outcome,
           Sent(w, v), Goto(w, "awaiting"), UNCHANGED <<lock, locals>>,
           UNCHANGED <<now, verdict, listed, ticks, snapshot, faults>>
    PROVE  EvidenceInv'
<1> DEFINE tx == [by |-> w, verdict |-> v]
<1>1. /\ pc' = [pc EXCEPT ![w] = "awaiting"] /\ evidence' = evidence
      /\ pc \in [Workers -> Labels]
  BY DEF Goto, locals, EvidenceInv, OtherTypes
<1>2. mempool \in Seq(Txs) /\ mempool' = Append(mempool, tx) /\ tx \in Txs
  BY DEF Sent, EvidenceInv, OtherTypes, Txs
<1>3. /\ mempool' \in Seq(Txs) /\ Len(mempool') = Len(mempool) + 1
      /\ \A i \in 1..Len(mempool) : mempool'[i] = mempool[i]
      /\ mempool'[Len(mempool) + 1] = tx
      /\ Len(mempool) \in Nat
  BY <1>2, AppendProperties, LenProperties
<1>4. OtherTypes'
  BY <1>1, <1>3 DEF EvidenceInv, OtherTypes, Labels, locals
<1>5. OnlyGoodPrints'
  BY DEF EvidenceInv, OnlyGoodPrints, Goto, chain, kv, locals
<1>6. WorkersSound'
  BY <1>1 DEF EvidenceInv, WorkersSound, UpdatesPending, DecidedFromEvidence, FreezerAgrees, locals
<1>7. \A i \in 1..Len(mempool) : mempool[i].by # w
  <2> SUFFICES ASSUME NEW i \in 1..Len(mempool), mempool[i].by = w PROVE FALSE
    OBVIOUS
  <2>1. w # Nobody
    BY ObservationAssumption
  <2> QED
    BY <2>1 DEF EvidenceInv, SendersWait, Backed
<1>8. \A i \in 1..Len(mempool') : mempool'[i].by # Nobody => Backed(mempool[i])'
  <2> SUFFICES ASSUME NEW i \in 1..Len(mempool'), mempool'[i].by # Nobody
               PROVE  Backed(mempool[i])'
    OBVIOUS
  <2>1. CASE i \in 1..Len(mempool)
    <3>1. mempool'[i] = mempool[i] /\ mempool[i] \in Txs /\ Backed(mempool[i])
      BY <1>2, <1>3, <2>1, ElementOfSeq DEF EvidenceInv, SendersWait
    <3>2. mempool[i].by \in Workers \ {w}
      BY <1>7, <2>1, <3>1 DEF Txs
    <3>3. /\ mempool'[i].by = mempool[i].by
          /\ pc'[mempool[i].by] = pc[mempool[i].by]
      BY <1>1, <3>1, <3>2
    <3> QED
      BY <1>1, <3>1, <3>3 DEF Backed, Proven, Ready
  <2>2. CASE i = Len(mempool) + 1
    <3>1. mempool'[i].by = w /\ mempool'[i].verdict = v /\ pc'[w] = "awaiting"
      BY <1>1, <1>3, <2>2
    <3> QED
      BY <1>1, <3>1 DEF Backed, Proven, Ready
  <2> QED
    BY <1>3, <2>1, <2>2
<1>9. \A i, j \in 1..Len(mempool') :
          mempool'[i].by = mempool'[j].by /\ i # j => mempool'[i].by = Nobody
  <2>1. \A i \in 1..Len(mempool') : i \in 1..Len(mempool) \/ i = Len(mempool) + 1
    BY <1>3
  <2> QED
    BY <1>3, <1>7, <2>1 DEF EvidenceInv, SendersWait
<1>10. SendersWait'
  BY <1>8, <1>9 DEF SendersWait
<1>11. FrozenProvesVerdict'
  BY DEF EvidenceInv, FrozenProvesVerdict
<1> QED
  BY <1>4, <1>5, <1>6, <1>10, <1>11 DEF EvidenceInv

\* The verdict sent is what the evidence says.
LEMMA SendVerdictStep ==
    ASSUME EvidenceInv, NEW w \in Workers, SendVerdict(w)
    PROVE  EvidenceInv'
<1>0. /\ UNCHANGED <<now, verdict, listed, ticks, snapshot, faults>>
      /\ pc[w] = "sending" /\ pc[w] # "awaiting"
  BY DEF SendVerdict
<1>1. CASE Sent(w, evidence[w].outcome) /\ Goto(w, "awaiting") /\ UNCHANGED <<lock, locals>>
  <2>1. Proven(evidence[w]) /\ evidence[w].outcome \in Outcomes
    BY <1>0, ProvenIsDecided DEF EvidenceInv, WorkersSound, DecidedFromEvidence
  <2> QED
    BY <1>0, <1>1, <2>1, SendingKeepsInv
<1>2. CASE Finish(w, {}) /\ UNCHANGED mempool
  BY <1>0, <1>2, FinishKeepsInv DEF chain
<1> QED
  BY <1>1, <1>2 DEF SendVerdict

\* A cancellation needs no evidence.
LEMMA SendCancelStep ==
    ASSUME EvidenceInv, NEW w \in Workers, SendCancel(w)
    PROVE  EvidenceInv'
<1>0. /\ UNCHANGED <<now, verdict, listed, ticks, snapshot, faults>>
      /\ pc[w] # "awaiting"
  BY DEF SendCancel
<1>1. CASE Sent(w, "Cancelled") /\ Goto(w, "awaiting") /\ UNCHANGED <<lock, locals>>
  BY <1>0, <1>1, SendingKeepsInv
<1>2. CASE Finish(w, {}) /\ UNCHANGED mempool
  BY <1>0, <1>2, FinishKeepsInv DEF chain
<1> QED
  BY <1>1, <1>2 DEF SendCancel

\* A resolver that is done leaves nothing behind.
LEMMA EndResolveStep ==
    ASSUME EvidenceInv, NEW w \in Workers, EndResolve(w)
    PROVE  EvidenceInv'
BY FinishKeepsInv DEF EndResolve

\* A resolver goes on to freeze only if the chain agrees with it.
LEMMA CheckChainStep ==
    ASSUME EvidenceInv, NEW w \in Workers, CheckChain(w)
    PROVE  EvidenceInv'
<1>0. UNCHANGED <<now, chain, listed, ticks, snapshot, faults>> /\ pc[w] = "checking"
  BY DEF CheckChain
<1>1. CASE verdict = evidence[w].outcome /\ Goto(w, "freezing") /\ UNCHANGED <<lock, locals>>
  <2>1. OtherTypes'
    BY <1>0, <1>1 DEF EvidenceInv, OtherTypes, Labels, Goto, chain, kv, locals
  <2>2. OnlyGoodPrints'
    BY <1>0, <1>1 DEF EvidenceInv, OnlyGoodPrints, Goto, chain, kv, locals
  <2>3. OwnStep(w)
    BY <1>0, <1>1 DEF EvidenceInv, OtherTypes, OnlyGoodPrints, WorkersSound, OwnStep, UpdatesPending, DecidedFromEvidence, FreezerAgrees, Goto, Idle, chain, kv, locals
  <2> QED
    BY <2>1, <2>2, <2>3, OwnStepKeepsInv
<1>2. CASE Finish(w, {})
  BY <1>0, <1>2, FinishKeepsInv
<1> QED
  BY <1>1, <1>2 DEF CheckChain

\* Waiting to freeze does not unsettle the verdict.
LEMMA TakeFreezeLockStep ==
    ASSUME EvidenceInv, NEW w \in Workers, TakeFreezeLock(w)
    PROVE  EvidenceInv'
<1>0. UNCHANGED <<now, chain, listed, ticks, snapshot, faults>> /\ pc[w] = "freezing"
  BY DEF TakeFreezeLock
<1>1. CASE Acquired(w, "freeze") /\ Goto(w, "freezeReading") /\ UNCHANGED locals
  <2>1. OtherTypes'
    BY <1>0, <1>1 DEF EvidenceInv, OtherTypes, Labels, Goto, chain, kv, locals, Acquired
  <2>2. OnlyGoodPrints'
    BY <1>0, <1>1 DEF EvidenceInv, OnlyGoodPrints, Goto, chain, kv, locals
  <2>3. OwnStep(w)
    BY <1>0, <1>1 DEF EvidenceInv, OtherTypes, OnlyGoodPrints, WorkersSound, OwnStep, UpdatesPending, DecidedFromEvidence, FreezerAgrees, Goto, Idle, chain, kv, locals
  <2> QED
    BY <2>1, <2>2, <2>3, OwnStepKeepsInv
<1>2. CASE Finish(w, {})
  BY <1>0, <1>2, FinishKeepsInv
<1> QED
  BY <1>1, <1>2 DEF TakeFreezeLock

\* Neither does looking at the record.
LEMMA ReadForFreezeStep ==
    ASSUME EvidenceInv, NEW w \in Workers, ReadForFreeze(w)
    PROVE  EvidenceInv'
<1>1. OtherTypes'
  BY DEF EvidenceInv, OtherTypes, Labels, Goto, chain, kv, locals, ReadForFreeze
<1>2. OnlyGoodPrints'
  BY DEF EvidenceInv, OnlyGoodPrints, Goto, chain, kv, locals, ReadForFreeze
<1>3. OwnStep(w)
  BY DEF EvidenceInv, OtherTypes, OnlyGoodPrints, WorkersSound, OwnStep, UpdatesPending, DecidedFromEvidence, FreezerAgrees, Goto, Idle, chain, kv, locals, ReadForFreeze
<1> QED
  BY <1>1, <1>2, <1>3, OwnStepKeepsInv

\* What is frozen is the evidence judged, whose outcome stands on chain.
LEMMA WriteFrozenStep ==
    ASSUME EvidenceInv, NEW w \in Workers, WriteFrozen(w)
    PROVE  EvidenceInv'
<1>1. /\ pc[w] = "freezeWriting" /\ snapshot' = evidence[w]
      /\ evidence[w] \in Records /\ Proven(evidence[w]) /\ verdict = evidence[w].outcome
  BY DEF WriteFrozen, EvidenceInv, OtherTypes, WorkersSound, DecidedFromEvidence, FreezerAgrees
<1>2. snapshot' \in GoodRecords
  BY <1>1 DEF Proven, Ready, GoodRecords
<1>3. FrozenProvesVerdict'
  <2>1. UNCHANGED verdict
    BY DEF WriteFrozen, chain
  <2> QED
    BY <1>1, <2>1 DEF FrozenProvesVerdict, Proven, Ready
<1>4. OtherTypes'
  BY DEF EvidenceInv, OtherTypes, Labels, Goto, chain, kv, locals, WriteFrozen
<1>5. OnlyGoodPrints'
  BY <1>2 DEF EvidenceInv, OnlyGoodPrints, Goto, chain, kv, locals, WriteFrozen
<1>6. OwnStep(w)
  BY <1>3 DEF EvidenceInv, OtherTypes, OnlyGoodPrints, WorkersSound, OwnStep, UpdatesPending, DecidedFromEvidence, FreezerAgrees, Goto, Idle, chain, kv, locals, WriteFrozen
<1> QED
  BY <1>4, <1>5, <1>6, OwnStepKeepsInv

\* A freezer that is done leaves nothing behind.
LEMMA ReleaseFreezeLockStep ==
    ASSUME EvidenceInv, NEW w \in Workers, ReleaseFreezeLock(w)
    PROVE  EvidenceInv'
BY FinishKeepsInv DEF ReleaseFreezeLock

---------------------------------------------------------------------------
(* The chain, failures, and the environment. *)

\* A verdict once given stands: the contract reverts whatever comes later.
LEMMA VerdictStands ==
    ASSUME Mine, verdict \in Outcomes
    PROVE  verdict' = verdict
BY DEF Mine, Outcomes

\* What is mined first decides; it is backed by its sender's evidence.
LEMMA MineStep ==
    ASSUME EvidenceInv, Mine
    PROVE  EvidenceInv'
<1> DEFINE tx == Head(mempool)
           sender == tx.by
<1>1. /\ mempool \in Seq(Txs) /\ mempool # <<>> /\ mempool' = Tail(mempool)
      /\ UNCHANGED <<now, listed, kv, faults, locals>>
  BY DEF Mine, EvidenceInv, OtherTypes
<1>2. /\ Len(mempool) \in Nat /\ Len(mempool) >= 1
      /\ tx \in Txs /\ tx = mempool[1]
      /\ mempool' \in Seq(Txs) /\ Len(mempool') = Len(mempool) - 1
      /\ \A i \in 1..Len(mempool') : mempool'[i] = mempool[i + 1]
  BY <1>1, HeadTailProperties, LenProperties, EmptySeq
<1>3. /\ pc' \in [Workers -> Labels]
      /\ \A w \in Workers : w # sender => pc'[w] = pc[w]
      /\ sender # Nobody =>
            /\ sender \in Workers /\ pc[sender] = "awaiting"
            /\ pc'[sender] \in {"checking", "done"}
            /\ pc'[sender] = "checking" => Proven(evidence[sender])
  <2>1. sender # Nobody => sender \in Workers /\ Backed(tx)
    BY <1>2 DEF EvidenceInv, SendersWait, Txs
  <2>2. /\ pc' \in [Workers -> Labels]
        /\ \A w \in Workers : w # sender => pc'[w] = pc[w]
        /\ \A w \in Workers : w = sender =>
              /\ pc'[w] \in {"checking", "done"}
              /\ pc'[w] = "checking" => tx.verdict # "Cancelled"
    BY DEF Mine, EvidenceInv, OtherTypes, Labels
  <2> QED
    BY <2>1, <2>2 DEF Backed
<1>4. verdict' \in Outcomes \cup {"Live", "Cancelled"}
  BY <1>2 DEF Mine, EvidenceInv, OtherTypes, Txs
<1>5. OtherTypes'
  BY <1>1, <1>2, <1>3, <1>4 DEF EvidenceInv, OtherTypes, kv, locals
<1>6. OnlyGoodPrints'
  BY <1>1 DEF EvidenceInv, OnlyGoodPrints, kv, locals
<1>7. WorkersSound'
  <2> SUFFICES ASSUME NEW w \in Workers
               PROVE  UpdatesPending(w)' /\ DecidedFromEvidence(w)' /\ FreezerAgrees(w)'
    BY DEF WorkersSound
  <2>1. UpdatesPending(w) /\ DecidedFromEvidence(w) /\ FreezerAgrees(w)
    BY DEF EvidenceInv, WorkersSound
  <2>2. CASE w = sender
    <3>1. /\ pc'[w] \in {"checking", "done"}
          /\ pc'[w] = "checking" => Proven(evidence'[w])
      <4>1. w # Nobody
        BY ObservationAssumption
      <4> QED
        BY <1>1, <1>3, <2>2, <4>1 DEF locals
    <3> QED
      BY <3>1 DEF UpdatesPending, DecidedFromEvidence, FreezerAgrees
  <2>3. CASE w # sender
    <3>1. pc'[w] = pc[w] /\ UNCHANGED <<todo, copy, evidence>>
      BY <1>1, <1>3, <2>3 DEF locals
    <3>2. FreezerAgrees(w)'
      <4>1. SUFFICES ASSUME pc[w] \in {"freezing", "freezeReading", "freezeWriting"}
                     PROVE  verdict' = evidence[w].outcome
        BY <3>1 DEF FreezerAgrees
      <4>2. verdict = evidence[w].outcome /\ Proven(evidence[w])
        BY <2>1, <4>1 DEF FreezerAgrees, DecidedFromEvidence
      <4> QED
        BY <4>2, ProvenIsDecided, VerdictStands
    <3> QED
      BY <2>1, <3>1, <3>2 DEF UpdatesPending, DecidedFromEvidence
  <2> QED
    BY <2>2, <2>3
<1>8. SendersWait'
  <2>1. ASSUME NEW i \in 1..Len(mempool'), mempool'[i].by # Nobody
        PROVE  Backed(mempool[i])'
    <3>1. i + 1 \in 1..Len(mempool) /\ i + 1 # 1 /\ mempool'[i] = mempool[i + 1]
      BY <1>2, <2>1
    <3>2. mempool[i + 1] \in Txs /\ Backed(mempool[i + 1])
      BY <1>1, <2>1, <3>1, ElementOfSeq DEF EvidenceInv, SendersWait
    <3>3. mempool[i + 1].by \in Workers /\ mempool[i + 1].by # sender
      BY <1>2, <2>1, <3>1, <3>2 DEF EvidenceInv, SendersWait, Txs
    <3>4. pc'[mempool[i + 1].by] = pc[mempool[i + 1].by] /\ evidence' = evidence
      BY <1>1, <1>3, <3>3 DEF locals
    <3> QED
      BY <3>1, <3>2, <3>4 DEF Backed, Proven, Ready
  <2>2. ASSUME NEW i \in 1..Len(mempool'), NEW j \in 1..Len(mempool'),
               mempool'[i].by = mempool'[j].by, i # j
        PROVE  mempool'[i].by = Nobody
    <3>1. /\ i + 1 \in 1..Len(mempool) /\ j + 1 \in 1..Len(mempool) /\ i + 1 # j + 1
          /\ mempool'[i] = mempool[i + 1] /\ mempool'[j] = mempool[j + 1]
      BY <1>2, <2>2
    <3> QED
      BY <2>2, <3>1 DEF EvidenceInv, SendersWait
  <2> QED
    BY <2>1, <2>2 DEF SendersWait
<1>9. FrozenProvesVerdict'
  <2>1. SUFFICES ASSUME Frozen(snapshot)
                 PROVE  verdict' = verdict
    BY <1>1 DEF EvidenceInv, FrozenProvesVerdict, Ready, kv
  <2>2. verdict = OutcomeFromPrints(snapshot.start, snapshot.end)
    BY <2>1 DEF EvidenceInv, FrozenProvesVerdict
  <2> QED
    BY <2>2, VerdictStands DEF OutcomeFromPrints, Outcomes
<1> QED
  BY <1>5, <1>6, <1>7, <1>8, <1>9 DEF EvidenceInv

\* Whoever stops waiting is no more the sender of what is in the mempool.
LEMMA AbandonedKeepsSenders ==
    ASSUME EvidenceInv, NEW gone \in SUBSET Workers, Abandoned(gone),
           \A v \in Workers \ gone : pc'[v] = pc[v] /\ evidence'[v] = evidence[v]
    PROVE  mempool' \in Seq(Txs) /\ SendersWait'
<1>1. /\ mempool \in Seq(Txs) /\ Len(mempool) \in Nat /\ DOMAIN mempool = 1..Len(mempool)
      /\ \A i \in 1..Len(mempool) : mempool[i] \in Txs
  BY LenProperties, ElementOfSeq DEF EvidenceInv, OtherTypes
<1>2. \A i \in 1..Len(mempool) :
          /\ mempool'[i] = IF mempool[i].by \in gone THEN [mempool[i] EXCEPT !.by = Nobody] ELSE mempool[i]
          /\ mempool'[i] \in Txs
          /\ mempool'[i].by = IF mempool[i].by \in gone THEN Nobody ELSE mempool[i].by
  BY <1>1 DEF Abandoned, Txs
<1>3. mempool' \in [1..Len(mempool) -> Txs]
  BY <1>1, <1>2 DEF Abandoned
<1>4. mempool' \in Seq(Txs) /\ Len(mempool') = Len(mempool)
  BY <1>1, <1>3
<1>5. ASSUME NEW i \in 1..Len(mempool'), mempool'[i].by # Nobody
      PROVE  Backed(mempool[i])'
  <2>1. /\ i \in 1..Len(mempool) /\ mempool[i].by \notin gone
        /\ mempool[i].by # Nobody /\ mempool'[i] = mempool[i]
    BY <1>2, <1>4, <1>5
  <2>2. Backed(mempool[i]) /\ mempool[i].by \in Workers
    BY <1>1, <2>1 DEF EvidenceInv, SendersWait, Txs
  <2>3. pc'[mempool[i].by] = pc[mempool[i].by] /\ evidence'[mempool[i].by] = evidence[mempool[i].by]
    BY <2>1, <2>2
  <2> QED
    BY <2>1, <2>2, <2>3 DEF Backed, Proven, Ready
<1>6. ASSUME NEW i \in 1..Len(mempool'), NEW j \in 1..Len(mempool'),
             mempool'[i].by = mempool'[j].by, i # j
      PROVE  mempool'[i].by = Nobody
  BY <1>1, <1>2, <1>4, <1>6 DEF EvidenceInv, SendersWait
<1> QED
  BY <1>4, <1>5, <1>6 DEF SendersWait

\* A failing call ends its worker; a transaction already sent stays.
LEMMA ThrowStep ==
    ASSUME EvidenceInv, NEW w \in Workers, Throw(w)
    PROVE  EvidenceInv'
<1>1. /\ Abandoned({w}) /\ Finish(w, {"snap", "freeze"})
      /\ faults' = faults + 1 /\ faults < MaxFaults
      /\ UNCHANGED <<now, verdict, listed, ticks, snapshot>>
  BY DEF Throw
<1>2. mempool' \in Seq(Txs) /\ SendersWait'
  BY <1>1, FinishKeepsTypes, AbandonedKeepsSenders DEF EvidenceInv
<1>3. faults' \in 0..MaxFaults
  BY <1>1, ObservationAssumption DEF EvidenceInv, OtherTypes
<1>4. OtherTypes' /\ OnlyGoodPrints'
  BY <1>1, <1>2, <1>3, FinishKeepsTypes DEF EvidenceInv, OtherTypes, OnlyGoodPrints
<1>5. WorkersSound'
  <2> SUFFICES ASSUME NEW v \in Workers \ {w}
               PROVE  UpdatesPending(v)' /\ DecidedFromEvidence(v)' /\ FreezerAgrees(v)'
    BY <1>1, FinishKeepsTypes DEF EvidenceInv, WorkersSound
  <2>1. UpdatesPending(v) /\ DecidedFromEvidence(v) /\ FreezerAgrees(v)
    BY DEF EvidenceInv, WorkersSound
  <2>2. /\ pc'[v] = pc[v] /\ evidence'[v] = evidence[v] /\ todo'[v] = todo[v] /\ copy'[v] = copy[v]
        /\ UNCHANGED verdict
    BY <1>1, FinishKeepsTypes DEF EvidenceInv
  <2> QED
    BY <2>1, <2>2 DEF UpdatesPending, DecidedFromEvidence, FreezerAgrees
<1>6. FrozenProvesVerdict'
  BY <1>1 DEF EvidenceInv, FrozenProvesVerdict
<1> QED
  BY <1>2, <1>4, <1>5, <1>6 DEF EvidenceInv

\* So does the death of any number of workers.
LEMMA CrashStep ==
    ASSUME EvidenceInv, NEW dead \in SUBSET Workers, Crash(dead)
    PROVE  EvidenceInv'
<1>1. /\ Abandoned(dead) /\ faults' = faults + 1 /\ faults < MaxFaults
      /\ UNCHANGED <<now, verdict, listed, ticks, snapshot, lock>>
  BY DEF Crash, kv
<1>2. \A v \in Workers \ dead : /\ pc'[v] = pc[v] /\ evidence'[v] = evidence[v]
                                /\ todo'[v] = todo[v] /\ copy'[v] = copy[v]
  BY DEF Crash
<1>3. \A v \in dead : pc'[v] = "idle"
  BY DEF Crash
<1>4. mempool' \in Seq(Txs) /\ SendersWait'
  BY <1>1, <1>2, AbandonedKeepsSenders
<1>5. faults' \in 0..MaxFaults
  BY <1>1, ObservationAssumption DEF EvidenceInv, OtherTypes
<1>6. NoSnapshot \in Records
  BY EmptyIsGood DEF GoodRecords
<1>7. OtherTypes'
  BY <1>1, <1>4, <1>5, <1>6 DEF EvidenceInv, OtherTypes, Crash, Labels, Prints
<1>8. OnlyGoodPrints'
  BY <1>1, EmptyIsGood DEF EvidenceInv, OnlyGoodPrints, Crash
<1>9. WorkersSound'
  <2> SUFFICES ASSUME NEW v \in Workers
               PROVE  UpdatesPending(v)' /\ DecidedFromEvidence(v)' /\ FreezerAgrees(v)'
    BY DEF WorkersSound
  <2>1. CASE v \in dead
    BY <1>3, <2>1 DEF UpdatesPending, DecidedFromEvidence, FreezerAgrees
  <2>2. CASE v \notin dead
    BY <1>1, <1>2, <2>2 DEF EvidenceInv, WorkersSound, UpdatesPending, DecidedFromEvidence, FreezerAgrees
  <2> QED
    BY <2>1, <2>2
<1>10. FrozenProvesVerdict'
  BY <1>1 DEF EvidenceInv, FrozenProvesVerdict
<1> QED
  BY <1>4, <1>7, <1>8, <1>9, <1>10 DEF EvidenceInv

\* The clock, the market list and the expiry of leases touch no evidence.
LEMMA QuietStep ==
    ASSUME EvidenceInv,
           UNCHANGED <<chain, ticks, snapshot, faults, pc, locals>>,
           now' \in Times, listed' \in Outcomes \cup {"Live", "Cancelled"},
           lock' \in [{"snap", "freeze", "resolve"} -> Workers \cup {Nobody}]
    PROVE  EvidenceInv'
<1>1. OtherTypes' /\ OnlyGoodPrints'
  BY DEF EvidenceInv, OtherTypes, OnlyGoodPrints, chain, locals
<1>2. WorkersSound' /\ SendersWait' /\ FrozenProvesVerdict'
  BY DEF EvidenceInv, WorkersSound, UpdatesPending, DecidedFromEvidence, FreezerAgrees, SendersWait,
         Backed, FrozenProvesVerdict, chain, locals
<1> QED
  BY <1>1, <1>2 DEF EvidenceInv

---------------------------------------------------------------------------
(* The theorems. *)

\* The invariant is inductive.
LEMMA EvidenceStep == EvidenceInv /\ [Next]_vars => EvidenceInv'
<1> SUFFICES ASSUME EvidenceInv, [Next]_vars PROVE EvidenceInv'
  OBVIOUS
<1>1. /\ now \in Times /\ listed \in Outcomes \cup {"Live", "Cancelled"}
      /\ verdict \in Outcomes \cup {"Live", "Cancelled"}
      /\ lock \in [{"snap", "freeze", "resolve"} -> Workers \cup {Nobody}]
  BY DEF EvidenceInv, OtherTypes
<1>2. CASE Tick
  <2>1. now' \in Times
    BY <1>1, <1>2, ObservationAssumption DEF Tick, Times
  <2> QED
    BY <1>1, <1>2, <2>1, QuietStep DEF Tick, kv
<1>3. CASE RefreshList
  BY <1>1, <1>3, QuietStep DEF RefreshList, kv
<1>4. CASE \E key \in DOMAIN lock : Lapse(key)
  <2>1. lock' \in [{"snap", "freeze", "resolve"} -> Workers \cup {Nobody}]
    BY <1>1, <1>4 DEF Lapse
  <2> QED
    BY <1>1, <1>4, <2>1, QuietStep DEF Lapse
<1>5. CASE Mine
  BY <1>5, MineStep
<1>6. ASSUME NEW w \in Workers, StartCapture(w) \/ StartResolve(w)
      PROVE  EvidenceInv'
  BY <1>6, StartCaptureStep, StartResolveStep
<1>7. ASSUME NEW w \in Workers, Sample(w)
      PROVE  EvidenceInv'
  BY <1>7, FetchPrintStep, ChooseBoundariesStep, TakeSnapLockStep, DropUpdateStep, ReadSnapshotStep,
     WriteSnapshotStep, ReleaseSnapLockStep DEF Sample
<1>8. ASSUME NEW w \in Workers, Resolve(w)
      PROVE  EvidenceInv'
  BY <1>8, JudgeStep, SendVerdictStep, SendCancelStep, EndResolveStep, CheckChainStep,
     TakeFreezeLockStep, ReadForFreezeStep, WriteFrozenStep, ReleaseFreezeLockStep DEF Resolve
<1>9. ASSUME NEW w \in Workers, Throw(w)
      PROVE  EvidenceInv'
  BY <1>9, ThrowStep
<1>10. ASSUME NEW dead \in SUBSET Workers, Crash(dead)
       PROVE  EvidenceInv'
  BY <1>10, CrashStep
<1>11. CASE UNCHANGED vars
  BY <1>1, <1>11, QuietStep DEF vars, kv
<1> QED
  BY <1>2, <1>3, <1>4, <1>5, <1>6, <1>7, <1>8, <1>9, <1>10, <1>11 DEF Next

\* The invariant of all that follows.
THEOREM EvidenceInvariant == Spec => []EvidenceInv
<1>1. Init => EvidenceInv
  BY EvidenceInit
<1>2. EvidenceInv /\ [Next]_vars => EvidenceInv'
  BY EvidenceStep
<1> QED
  BY <1>1, <1>2, PTL DEF Spec

\* Every record, update, label and transaction is one the code knows.
THEOREM EvidenceTypeCorrect == Spec => []TypeOK
<1>1. EvidenceInv => TypeOK
  BY InvImpliesTypes DEF EvidenceInv
<1> QED
  BY <1>1, EvidenceInvariant, PTL

\* A frozen record proves the verdict on chain, for any number of samplers and
\* resolvers, failures, lost receipts and crashes, and even when leases lapse
\* under their holders.
THEOREM FrozenEvidenceProvesVerdict == Spec => []FrozenProvesVerdict
<1>1. EvidenceInv => FrozenProvesVerdict
  BY DEF EvidenceInv
<1> QED
  BY <1>1, EvidenceInvariant, PTL

\* Whatever the order of prints and workers, no print too far from its
\* boundary is stored, and none from before the end as the close.
THEOREM OnlyAdmissiblePrintsAreStored == Spec => []StoredPrintsAreAdmissible
<1>1. EvidenceInv => StoredPrintsAreAdmissible
  BY DEF EvidenceInv, OnlyGoodPrints, GoodRecords, StoredPrintsAreAdmissible
<1> QED
  BY <1>1, EvidenceInvariant, PTL

\* Both together: no print that does not belong there is stored, and a frozen
\* record proves the verdict.
THEOREM EvidenceAlwaysSound == Spec => []EvidenceIsSound
<1>1. StoredPrintsAreAdmissible /\ FrozenProvesVerdict => EvidenceIsSound
  BY DEF EvidenceIsSound
<1> QED
  BY <1>1, OnlyAdmissiblePrintsAreStored, FrozenEvidenceProvesVerdict, PTL

---------------------------------------------------------------------------
(* Samplers do not undo each other's updates. *)

\* What a step of w must take care of for the snapshot lease.
LeaseStep(w) ==
    /\ lock'["snap"] = lock["snap"] \/ lock["snap"] \in {Nobody, w}
    /\ UNCHANGED snapshot \/ Frozen(snapshot') \/ lock["snap"] = w
    /\ \A v \in Workers \ {w} : pc'[v] = pc[v] /\ copy'[v] = copy[v]
    /\ HoldsSnap(w)'

\* Such a step leaves the lease to whoever held it.
LEMMA LeaseStepKeepsHeld ==
    ASSUME SnapHeld, NEW w \in Workers, LeaseStep(w)
    PROVE  SnapHeld'
<1> SUFFICES ASSUME NEW v \in Workers \ {w} PROVE HoldsSnap(v)'
  BY DEF SnapHeld, LeaseStep
<1>1. HoldsSnap(v) /\ v # Nobody
  BY ObservationAssumption DEF SnapHeld
<1> QED
  BY <1>1 DEF HoldsSnap, LeaseStep, Frozen

\* A worker that ends gives up no lease but its own.
LEMMA FinishKeepsHeld ==
    ASSUME EvidenceInv, SnapHeld, NEW w \in Workers, NEW keys, Finish(w, keys), UNCHANGED snapshot
    PROVE  SnapHeld'
<1>1. lock'["snap"] = lock["snap"] \/ lock["snap"] = w
  BY DEF Finish, Released, Holds, EvidenceInv, OtherTypes
<1>2. /\ pc'[w] = "idle"
      /\ \A v \in Workers \ {w} : pc'[v] = pc[v] /\ copy'[v] = copy[v]
  BY FinishKeepsTypes DEF EvidenceInv
<1> QED
  BY <1>1, <1>2, LeaseStepKeepsHeld DEF LeaseStep, HoldsSnap

\* Neither does one that is not among reading and writing the record.
LEMMA ElsewhereKeepsHeld ==
    ASSUME SnapHeld, NEW w \in Workers,
           lock'["snap"] = lock["snap"], UNCHANGED snapshot \/ Frozen(snapshot'),
           \A v \in Workers \ {w} : pc'[v] = pc[v] /\ copy'[v] = copy[v],
           pc'[w] \notin {"reading", "writing", "unlocking"}
    PROVE  SnapHeld'
BY LeaseStepKeepsHeld DEF LeaseStep, HoldsSnap

\* Sampling keeps to the lease.
LEMMA SampleKeepsHeld ==
    ASSUME EvidenceInv, SnapHeld, NEW w \in Workers, Sample(w)
    PROVE  SnapHeld'
<1> USE DEF EvidenceInv, OtherTypes, OnlyGoodPrints, Goto, chain, kv, locals
<1>1. CASE FetchPrint(w)
  BY <1>1, ElsewhereKeepsHeld DEF FetchPrint
<1>2. CASE ChooseBoundaries(w)
  BY <1>2, ElsewhereKeepsHeld DEF ChooseBoundaries
<1>3. CASE TakeSnapLock(w)
  BY <1>3, LeaseStepKeepsHeld DEF TakeSnapLock, Acquired, LeaseStep, HoldsSnap
<1>4. CASE DropUpdate(w)
  BY <1>4, NextUpdateFrame, ElsewhereKeepsHeld DEF DropUpdate
<1>5. CASE ReadSnapshot(w)
  BY <1>5, LeaseStepKeepsHeld DEF ReadSnapshot, LeaseStep, SnapHeld, HoldsSnap
<1>6. CASE WriteSnapshot(w)
  BY <1>6, LeaseStepKeepsHeld DEF WriteSnapshot, LeaseStep, SnapHeld, HoldsSnap
<1>7. CASE ReleaseSnapLock(w)
  <2>1. /\ lock'["snap"] = lock["snap"] \/ lock["snap"] = w
        /\ \A v \in Workers \ {w} : copy'[v] = copy[v]
        /\ NextUpdate(w) /\ UNCHANGED snapshot
    BY <1>7 DEF ReleaseSnapLock, Released, Holds
  <2> QED
    BY <2>1, NextUpdateFrame, LeaseStepKeepsHeld DEF LeaseStep, HoldsSnap
<1> QED
  BY <1>1, <1>2, <1>3, <1>4, <1>5, <1>6, <1>7 DEF Sample

\* Resolving does not touch it, and writes frozen records only.
LEMMA ResolveKeepsHeld ==
    ASSUME EvidenceInv, SnapHeld, NEW w \in Workers, Resolve(w)
    PROVE  SnapHeld'
<1> USE DEF Goto, chain, locals
<1>1. CASE \E keys : Finish(w, keys) /\ UNCHANGED snapshot
  BY <1>1, FinishKeepsHeld
<1>2. CASE /\ ~\E keys : Finish(w, keys) /\ UNCHANGED snapshot
           /\ ~WriteFrozen(w)
  <2>1. /\ lock'["snap"] = lock["snap"] /\ UNCHANGED <<snapshot, copy>>
        /\ \E label \in Labels \ {"reading", "writing", "unlocking"} : pc' = [pc EXCEPT ![w] = label]
    <3>1. CASE Judge(w)
      BY <1>2, <3>1 DEF Judge, Labels
    <3>2. CASE SendVerdict(w)
      BY <1>2, <3>2 DEF SendVerdict, Labels
    <3>3. CASE SendCancel(w)
      BY <1>2, <3>3 DEF SendCancel, Labels
    <3>4. CASE CheckChain(w)
      BY <1>2, <3>4 DEF CheckChain, Labels
    <3>5. CASE TakeFreezeLock(w)
      BY <1>2, <3>5 DEF TakeFreezeLock, Acquired, Labels, EvidenceInv, OtherTypes
    <3>6. CASE ReadForFreeze(w)
      BY <1>2, <3>6 DEF ReadForFreeze, Labels, kv
    <3> QED
      BY <1>2, <3>1, <3>2, <3>3, <3>4, <3>5, <3>6 DEF Resolve, EndResolve, ReleaseFreezeLock
  <2> QED
    BY <2>1, ElsewhereKeepsHeld DEF EvidenceInv, OtherTypes
<1>3. CASE WriteFrozen(w)
  <2>1. snapshot' = evidence[w] /\ Proven(evidence[w])
    BY <1>3 DEF WriteFrozen, EvidenceInv, WorkersSound, DecidedFromEvidence
  <2>2. Frozen(snapshot')
    BY <2>1, ProvenIsDecided DEF Frozen, Outcomes
  <2> QED
    BY <1>3, <2>2, ElsewhereKeepsHeld DEF WriteFrozen, EvidenceInv, OtherTypes
<1> QED
  BY <1>1, <1>2, <1>3

\* At first nobody is among reading and writing.
LEMMA HeldInit == Init => SnapHeld
BY DEF Init, SnapHeld, HoldsSnap

\* Without lapses, nobody else takes the lease from its holder.
LEMMA HeldStep ==
    ASSUME ~LeasesMayLapse, EvidenceInv, SnapHeld, [Next]_vars
    PROVE  SnapHeld'
<1>1. CASE UNCHANGED <<snapshot, lock, pc, copy>>
  BY <1>1 DEF SnapHeld, HoldsSnap
<1>2. CASE Tick \/ RefreshList \/ UNCHANGED vars
  BY <1>1, <1>2 DEF Tick, RefreshList, vars, kv, locals
<1>3. CASE Mine
  <2>1. UNCHANGED <<snapshot, lock, copy>>
    BY <1>3 DEF Mine, kv, locals
  <2>2. \A w \in Workers : pc'[w] = pc[w] \/ pc'[w] \in {"checking", "done"}
    BY <1>3 DEF Mine
  <2> QED
    BY <2>1, <2>2 DEF SnapHeld, HoldsSnap
<1>4. ASSUME NEW key \in DOMAIN lock, Lapse(key)
      PROVE  SnapHeld'
  <2>1. UNCHANGED <<snapshot, pc, copy>> /\ key \in {"snap", "freeze", "resolve"}
    BY <1>4 DEF Lapse, locals, EvidenceInv, OtherTypes
  <2>2. CASE key = "snap"
    <3>1. \A w \in Workers : pc[w] \notin {"reading", "writing", "unlocking"}
      BY <1>4, <2>2 DEF Lapse, InUse, SnapHeld, HoldsSnap
    <3> QED
      BY <2>1, <3>1 DEF SnapHeld, HoldsSnap
  <2>3. CASE key # "snap"
    BY <1>4, <2>1, <2>3 DEF Lapse, SnapHeld, HoldsSnap, EvidenceInv, OtherTypes
  <2> QED
    BY <2>2, <2>3
<1>5. ASSUME NEW w \in Workers, StartCapture(w) \/ StartResolve(w)
      PROVE  SnapHeld'
  BY <1>5, ElsewhereKeepsHeld
     DEF StartCapture, StartResolve, Acquired, Goto, kv, EvidenceInv, OtherTypes
<1>6. ASSUME NEW w \in Workers, Throw(w)
      PROVE  SnapHeld'
  BY <1>6, FinishKeepsHeld DEF Throw
<1>7. ASSUME NEW dead \in SUBSET Workers, Crash(dead)
      PROVE  SnapHeld'
  <2>1. UNCHANGED <<snapshot, lock>>
    BY <1>7 DEF Crash, kv
  <2>2. \A w \in Workers : pc'[w] = "idle" \/ (pc'[w] = pc[w] /\ copy'[w] = copy[w])
    BY <1>7 DEF Crash
  <2> QED
    BY <2>1, <2>2 DEF SnapHeld, HoldsSnap
<1> QED
  BY <1>2, <1>3, <1>4, <1>5, <1>6, <1>7, SampleKeepsHeld, ResolveKeepsHeld DEF Next

\* What a step makes of a record that was not frozen and is not.
LEMMA UpdatesOnlyImprove ==
    ASSUME EvidenceInv, SnapHeld, [Next]_vars, ~Frozen(snapshot), ~Frozen(snapshot')
    PROVE  /\ NoFarther(snapshot.start, snapshot'.start, ObsStart)
           /\ NoFarther(snapshot.end, snapshot'.end, ObsEnd)
<1>1. CASE \E w \in Workers : WriteSnapshot(w)
  <2>1. PICK w \in Workers : WriteSnapshot(w)
    BY <1>1
  <2>2. /\ snapshot = copy[w] /\ snapshot \in GoodRecords
        /\ todo[w] \in Seq(GoodUpdates) /\ todo[w] # <<>>
    BY <2>1 DEF WriteSnapshot, SnapHeld, HoldsSnap, EvidenceInv, OnlyGoodPrints, WorkersSound, UpdatesPending
  <2>3. snapshot' = Merged(snapshot, Head(todo[w])) /\ Head(todo[w]) \in GoodUpdates
    BY <2>1, <2>2, HeadTailProperties DEF WriteSnapshot
  <2> QED
    BY <2>2, <2>3, MergedIsNearer
<1>2. CASE UNCHANGED snapshot
  <2>1. \A p \in Prints, t \in Nat : Dist(p.at, t) <= Dist(p.at, t)
    BY NoPrintIsNoPrint DEF Dist
  <2>2. snapshot.start \in Prints /\ snapshot.end \in Prints
    BY DEF EvidenceInv, OnlyGoodPrints, GoodRecords, Records, Prints
  <2> QED
    BY <1>2, <2>1, <2>2, ObservationAssumption DEF NoFarther
<1>3. ~\E w \in Workers : WriteFrozen(w)
  <2> SUFFICES ASSUME NEW w \in Workers, WriteFrozen(w) PROVE FALSE
    OBVIOUS
  <2>1. snapshot' = evidence[w] /\ Proven(evidence[w])
    BY DEF WriteFrozen, EvidenceInv, WorkersSound, DecidedFromEvidence
  <2> QED
    BY <2>1, ProvenIsDecided DEF Frozen, Outcomes
<1>4. UNCHANGED snapshot \/ \E w \in Workers : WriteSnapshot(w) \/ WriteFrozen(w)
  <2>1. \A w \in Workers : Sample(w) => UNCHANGED snapshot \/ WriteSnapshot(w)
    BY DEF Sample, FetchPrint, ChooseBoundaries, TakeSnapLock, DropUpdate, ReadSnapshot, ReleaseSnapLock, kv
  <2>2. \A w \in Workers : Resolve(w) => UNCHANGED snapshot \/ WriteFrozen(w)
    BY DEF Resolve, Judge, SendVerdict, SendCancel, EndResolve, CheckChain, TakeFreezeLock,
           ReadForFreeze, ReleaseFreezeLock, kv
  <2> QED
    BY <2>1, <2>2 DEF Next, Tick, Mine, RefreshList, Lapse, StartCapture, StartResolve, Throw, Crash, vars, kv
<1> QED
  BY <1>1, <1>2, <1>3, <1>4

\* As long as leases outlive the work of their holders, no sampler undoes
\* what another stored, in any order of reads and writes: a boundary that has
\* a print keeps one, and only nearer ones replace it.
THEOREM SamplersOnlyImprove == ~LeasesMayLapse => (Spec => SamplingOnlyImproves)
<1> SUFFICES ASSUME ~LeasesMayLapse PROVE Spec => SamplingOnlyImproves
  OBVIOUS
<1>1. Init => SnapHeld
  BY HeldInit
<1>2. EvidenceInv /\ SnapHeld /\ [Next]_vars => SnapHeld'
  BY HeldStep
<1>3. EvidenceInv /\ SnapHeld /\ [Next]_vars =>
          [~Frozen(snapshot) /\ ~Frozen(snapshot') =>
              /\ NoFarther(snapshot.start, snapshot'.start, ObsStart)
              /\ NoFarther(snapshot.end, snapshot'.end, ObsEnd)]_vars
  BY UpdatesOnlyImprove
<1> QED
  BY <1>1, <1>2, <1>3, EvidenceInvariant, PTL DEF Spec, SamplingOnlyImproves

=============================================================================
