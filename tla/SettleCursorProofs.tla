------------------------- MODULE SettleCursorProofs -------------------------
(***************************************************************************)
(* Proofs about chunked settlement, for any number of tickets, any limits, *)
(* any processes and callers whose passes overlap, and any faults.         *)
(***************************************************************************)
EXTENDS SettleCursor, TLAPS

Runs == [pc : Labels, from : Places, at : Places, sent : 0..Limit,
         failedAt : Places, chunk : 0..MaxChunks, saves : Records]

\* A worker among its tickets is at one of them.
AtATicket(r) ==
    /\ r.pc \in {"sending", "waiting"} => r.at < Count
    /\ r.pc = "sending" => r.sent < Limit

\* A transaction somebody waits for is about the ticket he is at.
Awaited ==
    \A tx \in mempool : tx.by # Nobody =>
        Is(tx.by, "waiting") /\ tx.ticket = run[tx.by].at

WalkInv == TypeOK /\ Awaited /\ \A w \in Workers : AtATicket(run[w])

\* Whoever is about to write the marker saw no ticket open.
DoneInv == DoneMeansSettled /\ \A w \in Workers : run[w].saves.done => open = {}

\* No ticket before a place is open, unless its settlement was replaced.
SettledBefore(place) == \A t \in Tickets : t < place => t \notin open \/ t \in replaced

\* What a worker passed, and what it is about to write, is settled.
PassedBy(r) ==
    /\ SettledBefore(ResumeAt(r))
    /\ r.failedAt < Count => r.failedAt <= r.at
    /\ SettledBefore(r.saves.cursor)

PassedInv == CursorNeverSkips /\ \A w \in Workers : PassedBy(run[w])

---------------------------------------------------------------------------
\* The runs a walk begins and ends with are runs.
LEMMA RunsExist ==
    /\ Idle \in Runs /\ AtATicket(Idle)
    /\ \A from \in Places, n \in 0..MaxChunks : Chunk(from, n) \in Runs /\ AtATicket(Chunk(from, n))
    /\ \A place \in Places : At(place) \in Records
    /\ Done \in Records
<1>1. \A place \in Places : At(place) \in Records
  BY DEF At, Records
<1>2. 0 \in Places /\ Count \in Places /\ 0 \in 0..Limit /\ 0 \in 0..MaxChunks
  BY SettleAssumption DEF Places
<1>3. Idle \in Runs /\ AtATicket(Idle)
  BY <1>1, <1>2 DEF Idle, Runs, Labels, AtATicket
<1>4. Done \in Records
  BY <1>2 DEF Done, Records
<1>5. ASSUME NEW from \in Places, NEW n \in 0..MaxChunks
      PROVE  Chunk(from, n) \in Runs /\ AtATicket(Chunk(from, n))
  BY <1>1, <1>2 DEF Chunk, Idle, Runs, Labels, AtATicket
<1> QED
  BY <1>1, <1>3, <1>4, <1>5

\* A step that changes what one worker does, and no transaction, need only be
\* looked at for that worker.
LEMMA OwnStepKeepsWalk ==
    ASSUME WalkInv, NEW w \in Workers, NEW r \in Runs, Becomes(w, r), AtATicket(r),
           ~Is(w, "waiting"), open' \subseteq open, UNCHANGED mempool,
           store' \in Records, replaced' \subseteq Tickets, faults' \in 0..MaxFaults
    PROVE  WalkInv'
<1>1. run' \in [Workers -> Runs] /\ run'[w] = r /\ \A v \in Workers \ {w} : run'[v] = run[v]
  BY DEF WalkInv, TypeOK, Becomes, Runs
<1>2. TypeOK'
  BY <1>1 DEF WalkInv, TypeOK, Runs
<1>3. Awaited'
  BY <1>1 DEF WalkInv, TypeOK, Awaited, Is
<1> QED
  BY <1>1, <1>2, <1>3 DEF WalkInv

\* Starting, reading and the end of a chunk.
LEMMA WalkSteps ==
    ASSUME WalkInv, NEW w \in Workers,
           \/ StartPass(w) \/ StartCall(w) \/ LoadPlace(w) \/ ReadTicket(w)
           \/ EndChunk(w) \/ CheckExposure(w) \/ SavePlace(w)
    PROVE  WalkInv'
<1> USE SettleAssumption, RunsExist DEF WalkInv, TypeOK, Fault
<1>0. run[w] \in Runs /\ run[w].at \in Int /\ Count \in Int /\ Limit \in Int
  BY DEF Runs, Places
<1>1. CASE StartPass(w)
  BY <1>1, OwnStepKeepsWalk DEF StartPass, Is, Runs, Idle, Labels, AtATicket
<1>2. CASE StartCall(w)
  BY <1>2, OwnStepKeepsWalk DEF StartCall, Is, Places
<1>3. CASE LoadPlace(w)
  BY <1>3, OwnStepKeepsWalk DEF LoadPlace, Is, Records
<1>4. CASE ReadTicket(w)
  <2>1. [run[w] EXCEPT !.pc = "sending"] \in Runs /\ AtATicket([run[w] EXCEPT !.pc = "sending"])
    BY <1>0, <1>4 DEF ReadTicket, InChunk, Runs, Labels, AtATicket
  <2>2. [run[w] EXCEPT !.at = @ + 1] \in Runs /\ AtATicket([run[w] EXCEPT !.at = @ + 1])
    BY <1>0, <1>4 DEF ReadTicket, InChunk, Is, Runs, Places, AtATicket
  <2> QED
    BY <2>1, <2>2, <1>4, OwnStepKeepsWalk DEF ReadTicket, Is
<1>5. CASE EndChunk(w)
  <2>1. ResumeAt(run[w]) \in Places
    BY <1>0 DEF ResumeAt, Runs
  <2>2. /\ [run[w] EXCEPT !.pc = "checking"] \in Runs
        /\ AtATicket([run[w] EXCEPT !.pc = "checking"])
    BY <1>0 DEF Runs, Labels, AtATicket
  <2>3. /\ [run[w] EXCEPT !.pc = "saving", !.saves = At(ResumeAt(run[w]))] \in Runs
        /\ AtATicket([run[w] EXCEPT !.pc = "saving", !.saves = At(ResumeAt(run[w]))])
    BY <1>0, <2>1 DEF Runs, Labels, AtATicket
  <2> QED
    BY <2>2, <2>3, <1>5, OwnStepKeepsWalk DEF EndChunk, Is
<1>6. CASE CheckExposure(w)
  <2>1. \A s \in Records :
          /\ [run[w] EXCEPT !.pc = "saving", !.saves = s] \in Runs
          /\ AtATicket([run[w] EXCEPT !.pc = "saving", !.saves = s])
    BY <1>0 DEF Runs, Labels, AtATicket
  <2>2. Unconfirmed \in Records
    BY DEF Unconfirmed, Places
  <2>3. PICK s \in Records : Becomes(w, [run[w] EXCEPT !.pc = "saving", !.saves = s])
    BY <2>2, <1>6 DEF CheckExposure
  <2>4. UNCHANGED <<open, mempool, store, replaced>> /\ faults' \in 0..MaxFaults /\ ~Is(w, "waiting")
    BY <1>6 DEF CheckExposure, Is
  <2> QED
    BY <2>1, <2>3, <2>4, OwnStepKeepsWalk
<1>7. CASE SavePlace(w)
  <2>1. ResumeAt(run[w]) \in Places /\ run[w].saves \in Records
    BY <1>0 DEF ResumeAt, Runs
  <2>2. GoesOn(run[w]) => run[w].chunk + 1 \in 0..MaxChunks
    <3>1. run[w].chunk \in 0..MaxChunks /\ MaxChunks \in Nat
      BY <1>0 DEF Runs
    <3> QED
      BY <3>1 DEF GoesOn
  <2>3. CASE GoesOn(run[w])
    <3>1. Becomes(w, Chunk(ResumeAt(run[w]), run[w].chunk + 1))
      BY <1>7, <2>3 DEF SavePlace
    <3> QED
      BY <2>1, <2>2, <2>3, <3>1, <1>7, OwnStepKeepsWalk DEF SavePlace, Is
  <2>4. CASE ~GoesOn(run[w])
    BY <2>1, <2>4, <1>7, OwnStepKeepsWalk DEF SavePlace, Is
  <2> QED
    BY <2>3, <2>4
<1> QED
  BY <1>1, <1>2, <1>3, <1>4, <1>5, <1>6, <1>7

\* A settlement that is sent is awaited by its sender.
LEMMA SendKeepsWalk ==
    ASSUME WalkInv, NEW w \in Workers, SendSettlement(w)
    PROVE  WalkInv'
<1> USE SettleAssumption, RunsExist DEF WalkInv, TypeOK
<1>0. run[w] \in Runs
  BY DEF Runs
<1>1. CASE run[w].at \notin open
  BY <1>1, OwnStepKeepsWalk DEF SendSettlement, Is
<1>2. CASE run[w].at \in open
  <2> DEFINE r == [run[w] EXCEPT !.pc = "waiting", !.sent = @ + 1]
  <2>0. run[w].sent + 1 \in 0..Limit /\ run[w].at < Count
    BY <1>0 DEF SendSettlement, Is, Runs, AtATicket
  <2>1. r \in Runs /\ AtATicket(r)
    BY <1>0, <2>0 DEF Runs, Labels, AtATicket
  <2>2. run' = [run EXCEPT ![w] = r] /\ mempool' = mempool \cup {SettlementOf(w)} /\ UNCHANGED <<open, store, replaced, faults>>
    BY <1>2 DEF SendSettlement, Becomes
  <2>3. TypeOK'
    BY <1>2, <2>1, <2>2 DEF SettlementOf, Runs
  <2>4. Awaited'
    BY <2>1, <2>2, <1>0 DEF SendSettlement, Awaited, Is, SettlementOf, Runs
  <2> QED
    BY <2>1, <2>2, <2>3, <2>4
<1> QED
  BY <1>1, <1>2

\* Whoever waits for a receipt and gets one, or none, goes on.
LEMMA GoOnIsARun ==
    ASSUME WalkInv, NEW w \in Workers, Is(w, "waiting")
    PROVE  /\ Passed(w) \in Runs /\ AtATicket(Passed(w))
           /\ Failed(w) \in Runs /\ AtATicket(Failed(w))
<1>1. run[w] \in Runs /\ run[w].at + 1 \in Places /\ run[w].at \in Places
  BY SettleAssumption DEF WalkInv, TypeOK, Runs, Is, AtATicket, Places
<1>2. Passed(w) \in Runs /\ AtATicket(Passed(w))
  BY <1>1 DEF Passed, Runs, Labels, AtATicket
<1>3. Failed(w) \in Runs /\ AtATicket(Failed(w))
  BY <1>1, <1>2 DEF Passed, Failed, Runs, Labels, AtATicket
<1> QED
  BY <1>2, <1>3

\* Nobody waits for a settlement whose receipt was lost or mistaken.
LEMMA ReceiptKeepsWalk ==
    ASSUME WalkInv, NEW w \in Workers, LoseReceipt(w) \/ Replace(w)
    PROVE  WalkInv'
<1> USE SettleAssumption DEF WalkInv, TypeOK
<1>1. PICK r \in Runs : Becomes(w, r) /\ AtATicket(r) /\ r.pc = "walking"
  <2>1. Passed(w).pc = "walking" /\ Failed(w).pc = "walking"
    BY DEF Passed, Failed
  <2> QED
    BY <2>1, GoOnIsARun DEF LoseReceipt, Replace
<1>2. run' \in [Workers -> Runs] /\ run'[w] = r /\ \A v \in Workers \ {w} : run'[v] = run[v]
  BY <1>1 DEF Becomes, Runs
<1>3. SettlementOf(w) \in [by : Workers \cup {Nobody}, ticket : Tickets] /\ run[w].at \in Tickets
  BY DEF SettlementOf, Tickets, LoseReceipt, Replace, Is, AtATicket, Places
<1>4. TypeOK'
  BY <1>2, <1>3 DEF LoseReceipt, Replace, Fault, Runs
<1>5. \A tx \in mempool' : tx.by # Nobody => tx \in mempool \ {SettlementOf(w)}
  BY DEF LoseReceipt, Replace, SettlementOf
<1>6. \A tx \in mempool \ {SettlementOf(w)} : tx.by # w
  BY DEF Awaited, SettlementOf
<1>7. Awaited'
  BY <1>2, <1>5, <1>6 DEF Awaited, Is
<1> QED
  BY <1>1, <1>2, <1>4, <1>7

\* A mined settlement moves whoever waits for it.
LEMMA MineKeepsWalk ==
    ASSUME WalkInv, NEW tx \in mempool, Mine(tx)
    PROVE  WalkInv'
<1> USE SettleAssumption DEF WalkInv, TypeOK
<1>1. /\ mempool' = mempool \ {tx} /\ open' \subseteq open
      /\ UNCHANGED <<store, replaced, faults>>
  BY DEF Mine
<1>2. CASE tx.by = Nobody
  <2>1. UNCHANGED run
    BY <1>2 DEF Mine
  <2> QED
    BY <1>1, <2>1 DEF Awaited, Is
<1>3. CASE tx.by # Nobody
  <2>1. tx.by \in Workers /\ Is(tx.by, "waiting") /\ tx.ticket = run[tx.by].at
    BY <1>3 DEF Awaited
  <2>2. PICK r \in Runs : Becomes(tx.by, r) /\ AtATicket(r)
    BY <1>3, <2>1, GoOnIsARun DEF Mine
  <2>3. /\ run' \in [Workers -> Runs] /\ run'[tx.by] = r
        /\ \A v \in Workers \ {tx.by} : run'[v] = run[v]
    BY <2>1, <2>2 DEF Becomes, Runs
  <2>4. TypeOK'
    BY <1>1, <2>3 DEF Runs
  <2>5. \A other \in mempool' : other.by # tx.by
    BY <1>1, <1>3, <2>1 DEF Awaited
  <2>6. Awaited'
    BY <1>1, <2>3, <2>5 DEF Awaited, Is
  <2> QED
    BY <2>2, <2>3, <2>4, <2>6
<1> QED
  BY <1>2, <1>3

\* Whoever aborts waits for nothing.
LEMMA AbortKeepsWalk ==
    ASSUME WalkInv, NEW w \in Workers, Abort(w)
    PROVE  WalkInv'
<1> USE SettleAssumption DEF WalkInv, TypeOK
<1>1. /\ run' \in [Workers -> Runs] /\ run'[w] = Idle
      /\ \A v \in Workers \ {w} : run'[v] = run[v]
  BY RunsExist DEF Abort, Becomes, Runs
<1>2. /\ mempool' \subseteq [by : Workers \cup {Nobody}, ticket : Tickets]
      /\ \A tx \in mempool' : tx.by # Nobody => tx \in mempool /\ tx.by # w
  BY DEF Abort
<1>3. TypeOK'
  BY <1>1, <1>2 DEF Abort, Fault, Runs
<1>4. Awaited'
  BY <1>1, <1>2 DEF Awaited, Is
<1> QED
  BY <1>1, <1>3, <1>4, RunsExist

\* The walk's part of the invariant is inductive.
LEMMA WalkStep == WalkInv /\ [Next]_vars => WalkInv'
<1> SUFFICES ASSUME WalkInv, [Next]_vars PROVE WalkInv'
  OBVIOUS
<1>1. CASE UNCHANGED vars
  BY <1>1 DEF WalkInv, TypeOK, Awaited, Is, vars
<1>2. ASSUME NEW w \in Workers, StartPass(w) \/ StartCall(w) \/ Walk(w)
      PROVE  WalkInv'
  BY <1>2, WalkSteps, SendKeepsWalk DEF Walk
<1> QED
  BY <1>1, <1>2, ReceiptKeepsWalk, AbortKeepsWalk, MineKeepsWalk DEF Next

\* It holds at first.
LEMMA WalkInit == Init => WalkInv
BY RunsExist, SettleAssumption DEF Init, WalkInv, TypeOK, Awaited, Tickets, Runs, Places, Idle

---------------------------------------------------------------------------
(* The marker. *)

\* What a step may make of what a worker is to write.
SavesStep(w) ==
    \/ run'[w].saves \in {run[w].saves, At(0)}
    \/ run'[w].saves = At(ResumeAt(run[w]))
    \/ run'[w].saves = Done /\ open = {}

\* Nobody comes to write the marker but who sees that no ticket is open, and
\* no ticket is opened again.
LEMMA WritesAreSeen ==
    ASSUME WalkInv, [Next]_vars
    PROVE  /\ open' \subseteq open
           /\ \A w \in Workers : SavesStep(w)
           /\ store' = store \/ \E w \in Workers : store' = run[w].saves
<1> USE DEF WalkInv, TypeOK
<1>1. CASE UNCHANGED vars
  BY <1>1 DEF vars, SavesStep
<1>2. ASSUME NEW v \in Workers, NEW r, Becomes(v, r), r.saves \in {run[v].saves, At(0)}
      PROVE  \A w \in Workers : SavesStep(w)
  BY <1>2 DEF Becomes, SavesStep
<1>3. /\ Idle.saves = At(0)
      /\ \A from, n : Chunk(from, n).saves = At(0)
      /\ \A w \in Workers : Passed(w).saves = run[w].saves /\ Failed(w).saves = run[w].saves
  BY DEF Idle, Chunk, Passed, Failed
<1>4. ASSUME NEW v \in Workers, StartPass(v) \/ StartCall(v) \/ LoadPlace(v)
      PROVE  /\ UNCHANGED <<open, store>>
             /\ \A w \in Workers : SavesStep(w)
  <2>1. PICK r : Becomes(v, r) /\ r.saves = At(0)
    BY <1>3, <1>4 DEF StartPass, StartCall, LoadPlace, Idle
  <2> QED
    BY <1>2, <1>4, <2>1 DEF StartPass, StartCall, LoadPlace
<1>5. ASSUME NEW v \in Workers, ReadTicket(v) \/ SendSettlement(v)
      PROVE  /\ UNCHANGED <<open, store>>
             /\ \A w \in Workers : SavesStep(w)
  <2>1. PICK r : Becomes(v, r) /\ r.saves \in {run[v].saves, At(0)}
    <3>1. run[v] \in Runs
      BY DEF Runs
    <3>2. \A x, y : /\ [run[v] EXCEPT !.pc = x].saves = run[v].saves
                    /\ [run[v] EXCEPT !.at = y].saves = run[v].saves
      BY <3>1 DEF Runs
    <3>3. CASE ReadTicket(v)
      <4>1. CASE run[v].at \in open
        <5>1. Becomes(v, [run[v] EXCEPT !.pc = "sending"])
          BY <3>3, <4>1 DEF ReadTicket
        <5> QED
          BY <3>2, <5>1
      <4>2. CASE run[v].at \notin open
        <5>1. Becomes(v, [run[v] EXCEPT !.at = @ + 1])
          BY <3>3, <4>2 DEF ReadTicket
        <5> QED
          BY <3>2, <5>1
      <4> QED
        BY <4>1, <4>2
    <3>4. CASE SendSettlement(v) /\ run[v].at \in open
      <4> DEFINE r == [run[v] EXCEPT !.pc = "waiting", !.sent = @ + 1]
      <4>1. Becomes(v, r)
        BY <3>4 DEF SendSettlement
      <4>2. r.saves = run[v].saves
        BY <3>1 DEF Runs
      <4> HIDE DEF r
      <4> QED
        BY <4>1, <4>2
    <3>5. CASE SendSettlement(v) /\ run[v].at \notin open
      BY <1>3, <3>5 DEF SendSettlement
    <3> QED
      BY <1>5, <3>3, <3>4, <3>5
  <2> QED
    BY <1>2, <1>5, <2>1 DEF ReadTicket, SendSettlement
<1>6. ASSUME NEW v \in Workers, EndChunk(v)
      PROVE  /\ UNCHANGED <<open, store>>
             /\ \A w \in Workers : SavesStep(w)
  <2>1. run'[v].saves \in {run[v].saves, At(0), At(ResumeAt(run[v]))}
    BY <1>3, <1>6 DEF EndChunk, Becomes
  <2> QED
    BY <1>6, <2>1 DEF EndChunk, Becomes, SavesStep
<1>7. ASSUME NEW v \in Workers, CheckExposure(v)
      PROVE  /\ UNCHANGED <<open, store>>
             /\ \A w \in Workers : SavesStep(w)
  <2> DEFINE r(s) == [run[v] EXCEPT !.pc = "saving", !.saves = s]
  <2>0. \A s : r(s).saves = s
    OBVIOUS
  <2>1. run'[v].saves = At(0) \/ (run'[v].saves = Done /\ open = {})
    <3>1. PICK s : Becomes(v, r(s)) /\ (s = Unconfirmed \/ (s = Done /\ open = {}))
      BY <1>7 DEF CheckExposure, Complete, Unconfirmed
    <3>2. run'[v] = r(s)
      BY <3>1 DEF Becomes
    <3> QED
      BY <2>0, <3>1, <3>2 DEF Unconfirmed
  <2> QED
    BY <1>7, <2>1 DEF CheckExposure, Becomes, SavesStep
<1>8. ASSUME NEW v \in Workers, SavePlace(v)
      PROVE  /\ UNCHANGED open /\ store' = run[v].saves
             /\ \A w \in Workers : SavesStep(w)
  <2>1. PICK r : Becomes(v, r) /\ r.saves = At(0)
    BY <1>3, <1>8 DEF SavePlace
  <2> QED
    BY <1>2, <1>8, <2>1 DEF SavePlace
<1>9. ASSUME NEW v \in Workers, LoseReceipt(v) \/ Replace(v) \/ Abort(v)
      PROVE  /\ UNCHANGED <<open, store>>
             /\ \A w \in Workers : SavesStep(w)
  <2>1. PICK r : Becomes(v, r) /\ r.saves \in {run[v].saves, At(0)}
    BY <1>3, <1>9 DEF LoseReceipt, Replace, Abort
  <2> QED
    BY <1>2, <1>9, <2>1 DEF LoseReceipt, Replace, Abort
<1>10. ASSUME NEW tx \in mempool, Mine(tx)
       PROVE  /\ open' \subseteq open /\ UNCHANGED store
              /\ \A w \in Workers : SavesStep(w)
  <2>1. CASE tx.by = Nobody
    BY <1>10, <2>1 DEF Mine, SavesStep
  <2>2. CASE tx.by # Nobody
    <3>1. tx.by \in Workers
      BY <2>2
    <3>2. PICK r : Becomes(tx.by, r) /\ r.saves = run[tx.by].saves
      BY <1>3, <1>10, <2>2, <3>1 DEF Mine
    <3> QED
      BY <1>2, <1>10, <3>1, <3>2 DEF Mine
  <2> QED
    BY <2>1, <2>2
<1> QED
  BY <1>1, <1>4, <1>5, <1>6, <1>7, <1>8, <1>9, <1>10 DEF Next, Walk

\* The types of what the store and the workers keep, for any instance.
THEOREM SettlementTypeCorrect == Spec => []TypeOK
<1>1. WalkInv => TypeOK
  BY DEF WalkInv
<1> QED
  BY <1>1, WalkInit, WalkStep, PTL DEF Spec

\* The terminal marker says what it means, in any number of overlapping
\* passes, with receipts lost or taken for those of other transactions, and
\* crashes anywhere.
THEOREM MarkerIsTrue == Spec => []DoneMeansSettled
<1>1. Init => DoneInv
  BY DEF Init, DoneInv, DoneMeansSettled, At, Idle
<1>2. WalkInv /\ DoneInv /\ [Next]_vars => DoneInv'
  <2> SUFFICES ASSUME WalkInv, DoneInv, [Next]_vars PROVE DoneInv'
    OBVIOUS
  <2>1. ASSUME NEW w \in Workers, run'[w].saves.done
        PROVE  open' = {}
    <3>1. SavesStep(w) /\ open' \subseteq open
      BY WritesAreSeen
    <3>2. \A place : ~At(place).done
      BY DEF At
    <3> QED
      BY <2>1, <3>1, <3>2 DEF DoneInv, SavesStep
  <2>2. DoneMeansSettled'
    BY WritesAreSeen DEF DoneInv, DoneMeansSettled
  <2> QED
    BY <2>1, <2>2 DEF DoneInv
<1>3. DoneInv => DoneMeansSettled
  BY DEF DoneInv
<1> QED
  BY <1>1, <1>2, <1>3, WalkInit, WalkStep, PTL DEF Spec

---------------------------------------------------------------------------
(* The cursor. *)

\* A place that nothing open lies before stays one, and passing a ticket that
\* is not open moves it.
LEMMA PlacesStaySettled ==
    ASSUME open' \subseteq open, replaced \subseteq replaced', NEW place, SettledBefore(place)
    PROVE  SettledBefore(place)'
BY DEF SettledBefore

\* Nothing lies before the place of a run that just began.
LEMMA FreshIsPassed ==
    /\ PassedBy(Idle)
    /\ \A n : \A from \in Places : SettledBefore(from) => PassedBy(Chunk(from, n))
BY SettleAssumption DEF PassedBy, Idle, Chunk, At, SettledBefore, ResumeAt, Tickets, Places

\* Going on after a ticket that is settled, or after a failure.
LEMMA GoOnIsPassed ==
    ASSUME WalkInv, NEW w \in Workers, PassedBy(run[w]), run[w].at \in Tickets
    PROVE  /\ run[w].at \notin open =>
                PassedBy([run[w] EXCEPT !.at = @ + 1]) /\ PassedBy(Passed(w))
           /\ PassedBy(Failed(w))
<1>1. /\ run[w] \in Runs
      /\ run[w].at \in Int /\ run[w].failedAt \in 0..Count /\ Count \in Int
  BY SettleAssumption DEF WalkInv, TypeOK, Runs, Places
<1>2. Passed(w) \in [pc : {"walking"}, from : {run[w].from}, at : {run[w].at + 1}, sent : {run[w].sent},
                     failedAt : {run[w].failedAt}, chunk : {run[w].chunk}, saves : {run[w].saves}]
  BY <1>1 DEF Passed, Runs
<1> QED
  BY <1>1, <1>2, SettleAssumption DEF PassedBy, Passed, Failed, ResumeAt, SettledBefore, Tickets, Runs

\* A step of one worker, which keeps his place and what he is to write settled,
\* keeps everybody's, and the store's if it is left alone.
LEMMA OwnStepKeepsPlaces ==
    ASSUME WalkInv, PassedInv, NEW w \in Workers, NEW r, Becomes(w, r), PassedBy(r),
           open' \subseteq open, replaced \subseteq replaced', store' \in {store, run[w].saves}
    PROVE  PassedInv'
<1>1. run'[w] = r /\ \A v \in Workers \ {w} : run'[v] = run[v]
  BY DEF WalkInv, TypeOK, Becomes
<1>2. ASSUME NEW v \in Workers
      PROVE  PassedBy(run[v])
  BY DEF PassedInv, PassedBy
<1>3. ASSUME NEW v \in Workers
      PROVE  PassedBy(run'[v])
  BY <1>1, <1>2
<1>4. \A v \in Workers : PassedBy(run[v])'
  BY <1>3, PlacesStaySettled DEF PassedBy
<1>5. SettledBefore(store'.cursor)
  BY <1>2 DEF PassedInv, PassedBy, CursorNeverSkips, SettledBefore
<1>6. CursorNeverSkips'
  BY <1>5 DEF CursorNeverSkips, SettledBefore
<1> QED
  BY <1>4, <1>6 DEF PassedInv, PassedBy

\* Passing a ticket that is settled, or whose settlement was replaced.
LEMMA PassingKeepsPlaces ==
    ASSUME WalkInv, PassedInv, NEW w \in Workers, Becomes(w, Passed(w)),
           run[w].at \in Tickets, run[w].at \in open' => run[w].at \in replaced',
           open' \subseteq open, replaced \subseteq replaced', UNCHANGED store
    PROVE  PassedInv'
<1>1. /\ run'[w] = Passed(w)
      /\ \A v \in Workers \ {w} : run'[v] = run[v]
  BY DEF Becomes, WalkInv, TypeOK
<1>2. ASSUME NEW v \in Workers
      PROVE  PassedBy(run[v]) /\ run[v] \in Runs
  BY DEF PassedInv, WalkInv, TypeOK, Runs
<1> DEFINE r == Passed(w)
           Settled(place) == \A t \in Tickets : t < place => t \notin open' \/ t \in replaced'
<1>3. Settled(ResumeAt(r)) /\ Settled(r.saves.cursor) /\ (r.failedAt < Count => r.failedAt <= r.at)
  <2>1. /\ run[w] \in Runs /\ run[w].at \in Int
        /\ run[w].failedAt \in 0..Count /\ Count \in Int
    BY <1>2, SettleAssumption DEF Runs, Places
  <2>2. /\ r.at = run[w].at + 1
        /\ r.failedAt = run[w].failedAt
        /\ r.saves = run[w].saves
    BY <2>1 DEF Passed, Runs
  <2>3. \A t \in Tickets : t < run[w].at + 1 => t < run[w].at \/ t = run[w].at
    BY <2>1 DEF Tickets
  <2>4. /\ SettledBefore(ResumeAt(run[w]))
        /\ SettledBefore(run[w].saves.cursor)
        /\ run[w].failedAt < Count => run[w].failedAt <= run[w].at
    BY <1>2 DEF PassedBy
  <2> HIDE DEF r
  <2>5. Settled(r.saves.cursor)
    BY <2>2, <2>4 DEF SettledBefore
  <2>6. ASSUME r.failedAt < Count PROVE Settled(ResumeAt(r))
    BY <2>2, <2>4, <2>6 DEF SettledBefore, ResumeAt
  <2>7. ASSUME ~(r.failedAt < Count) PROVE Settled(ResumeAt(r))
    <3>1. ResumeAt(r) = run[w].at + 1 /\ SettledBefore(run[w].at)
      BY <2>2, <2>4, <2>7 DEF ResumeAt
    <3> QED
      BY <2>3, <2>7, <3>1 DEF SettledBefore
  <2>8. r.failedAt < Count => r.failedAt <= r.at
    BY <2>1, <2>2, <2>4
  <2> QED
    BY <2>5, <2>6, <2>7, <2>8
<1>4. ASSUME NEW v \in Workers \ {w}
      PROVE  PassedBy(run[v])'
  BY <1>1, <1>2, PlacesStaySettled DEF PassedBy, ResumeAt
<1>5. CursorNeverSkips'
  BY DEF PassedInv, CursorNeverSkips
<1>6. PassedBy(run[w])'
  BY <1>1, <1>3 DEF PassedBy, SettledBefore, ResumeAt
<1> QED
  BY <1>4, <1>5, <1>6 DEF PassedInv, PassedBy

\* No place is passed before its ticket is settled.
LEMMA PlacesStep ==
    ASSUME WalkInv, PassedInv, [Next]_vars
    PROVE  PassedInv'
<1>1. CASE UNCHANGED vars
  BY <1>1 DEF vars, PassedInv, PassedBy, CursorNeverSkips, SettledBefore, ResumeAt
<1>2. ASSUME NEW w \in Workers
      PROVE  PassedBy(run[w]) /\ run[w] \in Runs /\ (run[w].at < Count => run[w].at \in Tickets)
  BY SettleAssumption DEF PassedInv, PassedBy, WalkInv, TypeOK, Runs, Places, Tickets
<1>3. 0 \in Places /\ SettledBefore(0)
  BY SettleAssumption DEF Places, SettledBefore, Tickets
<1>4. ASSUME NEW w \in Workers, StartPass(w) \/ StartCall(w) \/ LoadPlace(w)
      PROVE  PassedInv'
  <2>1. UNCHANGED <<open, store, replaced>>
    BY <1>4 DEF StartPass, StartCall, LoadPlace
  <2>2. store.cursor \in Places /\ SettledBefore(store.cursor)
    BY DEF WalkInv, TypeOK, Records, PassedInv, CursorNeverSkips, SettledBefore
  <2>3. PassedBy([Idle EXCEPT !.pc = "loading"])
    BY FreshIsPassed DEF PassedBy, Idle, ResumeAt
  <2>4. PICK r : Becomes(w, r) /\ PassedBy(r)
    BY <1>3, <1>4, <2>2, <2>3, FreshIsPassed DEF StartPass, StartCall, LoadPlace
  <2> QED
    BY <2>1, <2>4, OwnStepKeepsPlaces
<1>5. ASSUME NEW w \in Workers, ReadTicket(w)
      PROVE  PassedInv'
  <2>1. UNCHANGED <<open, store, replaced>>
    BY <1>5 DEF ReadTicket
  <2>2. CASE run[w].at \in open
    <3> DEFINE r == [run[w] EXCEPT !.pc = "sending"]
    <3>1. Becomes(w, r)
      BY <1>5, <2>2 DEF ReadTicket
    <3>2. PassedBy(r)
      BY <1>2 DEF PassedBy, ResumeAt, Runs
    <3> QED
      BY <2>1, <3>1, <3>2, OwnStepKeepsPlaces
  <2>3. CASE run[w].at \notin open
    <3> DEFINE r == [run[w] EXCEPT !.at = @ + 1]
    <3>1. Becomes(w, r)
      BY <1>5, <2>3 DEF ReadTicket
    <3>2. PassedBy(r)
      BY <1>2, <1>5, <2>3, GoOnIsPassed DEF ReadTicket, InChunk
    <3> QED
      BY <2>1, <3>1, <3>2, OwnStepKeepsPlaces
  <2> QED
    BY <2>2, <2>3
<1>6. ASSUME NEW w \in Workers, SendSettlement(w)
      PROVE  PassedInv'
  <2>1. UNCHANGED <<open, store, replaced>>
    BY <1>6 DEF SendSettlement
  <2>2. CASE run[w].at \in open
    <3> DEFINE r == [run[w] EXCEPT !.pc = "waiting", !.sent = @ + 1]
    <3>1. Becomes(w, r)
      BY <1>6, <2>2 DEF SendSettlement
    <3>2. PassedBy(r)
      BY <1>2 DEF PassedBy, ResumeAt, Runs
    <3> QED
      BY <2>1, <3>1, <3>2, OwnStepKeepsPlaces
  <2>3. CASE run[w].at \notin open
    BY <1>6, <2>1, <2>3, FreshIsPassed, OwnStepKeepsPlaces DEF SendSettlement
  <2> QED
    BY <2>2, <2>3
<1>7. ASSUME NEW w \in Workers, EndChunk(w)
      PROVE  PassedInv'
  <2>1. UNCHANGED <<open, store, replaced>>
    BY <1>7 DEF EndChunk
  <2>2. CASE w \in Callers
    BY <1>7, <2>1, <2>2, FreshIsPassed, OwnStepKeepsPlaces DEF EndChunk
  <2>3. CASE w \notin Callers /\ ReachedEnd(run[w])
    <3> DEFINE r == [run[w] EXCEPT !.pc = "checking"]
    <3>1. Becomes(w, r)
      BY <1>7, <2>3 DEF EndChunk
    <3>2. PassedBy(r)
      BY <1>2 DEF PassedBy, ResumeAt, Runs
    <3> QED
      BY <2>1, <3>1, <3>2, OwnStepKeepsPlaces
  <2>4. CASE w \notin Callers /\ ~ReachedEnd(run[w])
    <3> DEFINE r == [run[w] EXCEPT !.pc = "saving", !.saves = At(ResumeAt(run[w]))]
    <3>1. Becomes(w, r)
      BY <1>7, <2>4 DEF EndChunk
    <3>2. PassedBy(r)
      BY <1>2 DEF PassedBy, ResumeAt, Runs, At
    <3> QED
      BY <2>1, <3>1, <3>2, OwnStepKeepsPlaces
  <2> QED
    BY <2>2, <2>3, <2>4
<1>8. ASSUME NEW w \in Workers, CheckExposure(w)
      PROVE  PassedInv'
  <2>1. UNCHANGED <<open, store, replaced>>
    BY <1>8 DEF CheckExposure
  <2>2. PICK s \in {Done, Unconfirmed} : Becomes(w, [run[w] EXCEPT !.pc = "saving", !.saves = s])
    BY <1>8 DEF CheckExposure
  <2> DEFINE r == [run[w] EXCEPT !.pc = "saving", !.saves = s]
  <2>3. s.cursor = 0
    BY DEF Done, Unconfirmed, At
  <2>4. PassedBy(r)
    BY <1>2, <1>3, <2>3 DEF PassedBy, ResumeAt, Runs
  <2> QED
    BY <2>1, <2>2, <2>4, OwnStepKeepsPlaces
<1>9. ASSUME NEW w \in Workers, SavePlace(w)
      PROVE  PassedInv'
  <2>1. UNCHANGED <<open, replaced>> /\ store' = run[w].saves
    BY <1>9 DEF SavePlace
  <2>2. ResumeAt(run[w]) \in Places
    BY <1>2 DEF ResumeAt, Runs
  <2>3. PassedBy(Chunk(ResumeAt(run[w]), run[w].chunk + 1))
    BY <1>2, <2>2, FreshIsPassed DEF PassedBy
  <2> QED
    BY <1>9, <2>1, <2>3, FreshIsPassed, OwnStepKeepsPlaces DEF SavePlace
<1>10. ASSUME NEW w \in Workers, LoseReceipt(w) \/ Replace(w)
       PROVE  PassedInv'
  <2>1. UNCHANGED <<open, store>> /\ run[w].pc = "waiting"
    BY <1>10 DEF LoseReceipt, Replace, Is
  <2>2. run[w].at \in Tickets
    BY <1>2, <2>1 DEF WalkInv, AtATicket
  <2>3. CASE LoseReceipt(w)
    BY <1>2, <2>1, <2>2, <2>3, GoOnIsPassed, OwnStepKeepsPlaces DEF LoseReceipt
  <2>4. CASE Replace(w)
    BY <2>1, <2>2, <2>4, PassingKeepsPlaces DEF Replace
  <2> QED
    BY <1>10, <2>3, <2>4
<1>11. ASSUME NEW w \in Workers, Abort(w)
       PROVE  PassedInv'
  BY <1>11, FreshIsPassed, OwnStepKeepsPlaces DEF Abort
<1>12. ASSUME NEW tx \in mempool, Mine(tx)
       PROVE  PassedInv'
  <2>1. open' = open \ {tx.ticket} /\ UNCHANGED <<store, replaced>>
    BY <1>12 DEF Mine
  <2>2. CASE tx.by = Nobody
    <3>1. UNCHANGED run
      BY <1>12, <2>2 DEF Mine
    <3> QED
      BY <2>1, <3>1 DEF PassedInv, PassedBy, CursorNeverSkips, SettledBefore, ResumeAt
  <2>3. CASE tx.by # Nobody
    <3>1. tx.by \in Workers /\ Is(tx.by, "waiting") /\ tx.ticket = run[tx.by].at
      BY <2>3 DEF WalkInv, TypeOK, Awaited
    <3>2. run[tx.by].at \in Tickets
      BY <1>2, <3>1 DEF WalkInv, AtATicket, Is
    <3>3. CASE tx.ticket \notin open
      BY <1>2, <1>12, <2>1, <2>3, <3>1, <3>2, <3>3, GoOnIsPassed, OwnStepKeepsPlaces DEF Mine
    <3>4. CASE tx.ticket \in open
      <4>1. Becomes(tx.by, Passed(tx.by))
        BY <1>12, <2>3, <3>4 DEF Mine
      <4> QED
        BY <2>1, <3>1, <3>2, <4>1, PassingKeepsPlaces
    <3> QED
      BY <3>3, <3>4
  <2> QED
    BY <2>2, <2>3
<1> QED
  BY <1>1, <1>4, <1>5, <1>6, <1>7, <1>8, <1>9, <1>10, <1>11, <1>12 DEF Next, Walk

\* Overlapping passes, lost receipts and crashes never move the cursor behind an
\* open ticket, unless its settlement gave way to another transaction.
THEOREM CursorSkipsNothing == Spec => []CursorNeverSkips
<1>1. Init => PassedInv
  <2> SUFFICES ASSUME Init PROVE PassedInv
    OBVIOUS
  <2>1. PassedBy(Idle)
    BY FreshIsPassed
  <2> QED
    BY <2>1, SettleAssumption DEF Init, PassedInv, PassedBy, CursorNeverSkips, At, Tickets
<1>2. WalkInv /\ PassedInv /\ [Next]_vars => PassedInv'
  BY PlacesStep
<1>3. PassedInv => CursorNeverSkips
  BY DEF PassedInv
<1> QED
  BY <1>1, <1>2, <1>3, WalkInit, WalkStep, PTL DEF Spec

\* Neither the cursor nor the marker ever passes an open ticket, but for one
\* whose settlement gave way to another transaction.
THEOREM NothingIsForgotten == Spec => []NoTicketIsForgotten
<1>1. CursorNeverSkips /\ DoneMeansSettled => NoTicketIsForgotten
  BY DEF NoTicketIsForgotten
<1> QED
  BY <1>1, CursorSkipsNothing, MarkerIsTrue, PTL

=============================================================================
