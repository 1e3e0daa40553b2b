---------------------------- MODULE SettleCursor ----------------------------
(***************************************************************************)
(* Settling the tickets of one final market in chunks.  The market cycle   *)
(* of every process walks the tickets in order of purchase and keeps its   *)
(* place in the store, so that a long walk goes on in the next pass; an    *)
(* administrator or the auto-resolver walks them from the first, without   *)
(* the store.  A step is one call to the store or to the chain, and passes *)
(* of several processes may overlap: the cycle's lease is not renewed.     *)
(***************************************************************************)
EXTENDS Integers, FiniteSets

CONSTANTS
    Count,              \* how many tickets the market sold
    Limit,              \* how many settlements a chunk sends
    MaxChunks,          \* how many chunks a pass of the cycle walks
    Cycles,             \* processes with a cycle timer
    Callers,            \* everyone else who settles: no place is kept
    Nobody,
    MaxFaults

Workers == Cycles \cup Callers
Tickets == 0..(Count - 1)
Places == 0..Count

ASSUME SettleAssumption ==
    /\ Count \in Nat /\ Limit \in Nat \ {0} /\ MaxChunks \in Nat \ {0}
    /\ Cycles \cap Callers = {} /\ Nobody \notin Workers
    /\ MaxFaults \in Nat

VARIABLES
    open,       \* tickets the engine has not settled
    mempool,    \* settlements sent and not yet mined
    store,      \* the market's record among the settle cursors
    run,        \* what each worker is doing
    replaced,   \* tickets of which a settlement gave way to another transaction
    faults      \* failed calls, lost receipts and crashes so far

vars == <<open, mempool, store, run, replaced, faults>>

Records == [cursor : Places, done : BOOLEAN]
Labels == {"idle", "loading", "walking", "sending", "waiting", "checking", "saving"}

At(cursor) == [cursor |-> cursor, done |-> FALSE]
Done == [cursor |-> 0, done |-> TRUE]

\* failedAt = Count stands for no failure, as does the end of the list.
Idle ==
    [pc |-> "idle", from |-> 0, at |-> 0, sent |-> 0, failedAt |-> Count, chunk |-> 0, saves |-> At(0)]

\* A chunk that starts at a place of the list.
Chunk(from, n) == [Idle EXCEPT !.pc = "walking", !.from = from, !.at = from, !.chunk = n]

Init ==
    /\ open = Tickets
    /\ mempool = {}
    /\ store = At(0)
    /\ run = [w \in Workers |-> Idle]
    /\ replaced = {} /\ faults = 0

---------------------------------------------------------------------------
(* A walk through the tickets. *)

Becomes(w, r) == run' = [run EXCEPT ![w] = r]

Is(w, label) == run[w].pc = label

Fault == faults < MaxFaults /\ faults' = faults + 1

\* The cycle looks its place up first.
StartPass(w) ==
    /\ w \in Cycles /\ Is(w, "idle")
    /\ Becomes(w, [Idle EXCEPT !.pc = "loading"])
    /\ UNCHANGED <<open, mempool, store, replaced, faults>>

StartCall(w) ==
    /\ w \in Callers /\ Is(w, "idle")
    /\ Becomes(w, Chunk(0, 1))
    /\ UNCHANGED <<open, mempool, store, replaced, faults>>

LoadPlace(w) ==
    /\ Is(w, "loading")
    /\ Becomes(w, IF store.done THEN Idle ELSE Chunk(store.cursor, 1))
    /\ UNCHANGED <<open, mempool, store, replaced, faults>>

\* Mutant of InChunk: the index may reach the length of the list.
InChunkOrBehind(r) == r.at <= Count /\ r.sent < Limit

\* Tickets already settled do not count towards the limit.
InChunk(r) == r.at < Count /\ r.sent < Limit

ReadTicket(w) ==
    /\ Is(w, "walking") /\ InChunk(run[w])
    /\ Becomes(w, IF run[w].at \in open
                     THEN [run[w] EXCEPT !.pc = "sending"]
                     ELSE [run[w] EXCEPT !.at = @ + 1])
    /\ UNCHANGED <<open, mempool, store, replaced, faults>>

SettlementOf(w) == [by |-> w, ticket |-> run[w].at]

\* A settlement whose estimate already reverts is not sent: the walk ends.
SendSettlement(w) ==
    /\ Is(w, "sending")
    /\ IF run[w].at \in open
          THEN /\ mempool' = mempool \cup {SettlementOf(w)}
               /\ Becomes(w, [run[w] EXCEPT !.pc = "waiting", !.sent = @ + 1])
          ELSE Becomes(w, Idle) /\ UNCHANGED mempool
    /\ UNCHANGED <<open, store, replaced, faults>>

Passed(w) == [run[w] EXCEPT !.pc = "walking", !.at = @ + 1]

\* The first failure of a chunk is where the next one resumes.
Failed(w) ==
    [Passed(w) EXCEPT !.failedAt = IF @ = Count THEN run[w].at ELSE @]

\* Its sender learns whether the engine found the ticket open.
Mine(tx) ==
    /\ mempool' = mempool \ {tx}
    /\ open' = open \ {tx.ticket}
    /\ IF tx.by = Nobody
          THEN UNCHANGED run
          ELSE Becomes(tx.by, IF tx.ticket \in open THEN Passed(tx.by) ELSE Failed(tx.by))
    /\ UNCHANGED <<store, replaced, faults>>

\* The receipt does not come in time, but the transaction may still be mined.
LoseReceipt(w) ==
    /\ Is(w, "waiting") /\ Fault
    /\ mempool' = (mempool \ {SettlementOf(w)}) \cup {[SettlementOf(w) EXCEPT !.by = Nobody]}
    /\ Becomes(w, Failed(w))
    /\ UNCHANGED <<open, store, replaced>>

\* The same nonce was used for another transaction, whose receipt, a success,
\* is what the sender is given.
Replace(w) ==
    /\ Is(w, "waiting") /\ Fault
    /\ mempool' = mempool \ {SettlementOf(w)}
    /\ replaced' = replaced \cup {run[w].at}
    /\ Becomes(w, Passed(w))
    /\ UNCHANGED <<open, store>>

---------------------------------------------------------------------------
(* The end of a chunk. *)

\* Mutant of ResumeAt: the walk goes on from where it stopped.
WhereItStopped(r) == r.at

ResumeAt(r) == IF r.failedAt < Count THEN r.failedAt ELSE r.at

ReachedEnd(r) == ResumeAt(r) = Count

\* Only the cycle keeps its place.
EndChunk(w) ==
    LET r == run[w] IN
    /\ Is(w, "walking") /\ ~InChunk(r)
    /\ Becomes(w, IF w \in Callers THEN Idle
                  ELSE IF ReachedEnd(r) THEN [r EXCEPT !.pc = "checking"]
                  ELSE [r EXCEPT !.pc = "saving", !.saves = At(ResumeAt(r))])
    /\ UNCHANGED <<open, mempool, store, replaced, faults>>

\* Mutant of Complete: a walk that reached the end is complete.
EndIsComplete(exposed) == TRUE

\* settleRunIsComplete, of a walk that reached the end.
Complete(exposed) == ~exposed

\* Mutant of Unconfirmed: the cursor stays where the walk ended.
StayAtEnd == At(Count)

\* With tickets left, or none that the engine would confirm, the next pass
\* starts again.
Unconfirmed == At(0)

CheckExposure(w) ==
    /\ Is(w, "checking")
    /\ \/ /\ Becomes(w, [run[w] EXCEPT !.pc = "saving",
                                       !.saves = IF Complete(open # {}) THEN Done ELSE Unconfirmed])
          /\ UNCHANGED faults
       \/ /\ Fault
          /\ Becomes(w, [run[w] EXCEPT !.pc = "saving", !.saves = Unconfirmed])
    /\ UNCHANGED <<open, mempool, store, replaced>>

\* A pass ends when its walk did, when it did not advance, and after so many
\* chunks.
GoesOn(r) == ~ReachedEnd(r) /\ ResumeAt(r) # r.from /\ r.chunk < MaxChunks

SavePlace(w) ==
    LET r == run[w] IN
    /\ Is(w, "saving")
    /\ store' = r.saves
    /\ Becomes(w, IF GoesOn(r) THEN Chunk(ResumeAt(r), r.chunk + 1) ELSE Idle)
    /\ UNCHANGED <<open, mempool, replaced, faults>>

\* A call fails, which ends the walk, or the process dies; either way a
\* settlement that was sent stays sent.
Abort(w) ==
    /\ ~Is(w, "idle") /\ Fault
    /\ Becomes(w, Idle)
    /\ mempool' = {[tx EXCEPT !.by = IF @ = w THEN Nobody ELSE @] : tx \in mempool}
    /\ UNCHANGED <<open, store, replaced>>

---------------------------------------------------------------------------
Walk(w) ==
    \/ LoadPlace(w) \/ ReadTicket(w) \/ SendSettlement(w)
    \/ EndChunk(w) \/ CheckExposure(w) \/ SavePlace(w)

Next ==
    \/ \E w \in Workers :
          StartPass(w) \/ StartCall(w) \/ Walk(w) \/ LoseReceipt(w) \/ Replace(w) \/ Abort(w)
    \/ \E tx \in mempool : Mine(tx)

Spec == Init /\ [][Next]_vars

\* Timers start passes, calls return, and a transaction somebody still waits
\* for is mined, unless a fault strikes.
Fairness ==
    \A w \in Workers :
        /\ WF_vars(StartPass(w))
        /\ WF_vars(Walk(w))
        /\ WF_vars(\E tx \in mempool : tx.by = w /\ Mine(tx))

FairSpec == Spec /\ Fairness

---------------------------------------------------------------------------
(* Properties. *)

TypeOK ==
    /\ open \subseteq Tickets
    /\ mempool \subseteq [by : Workers \cup {Nobody}, ticket : Tickets]
    /\ store \in Records
    /\ run \in [Workers -> [pc : Labels, from : Places, at : Places, sent : 0..Limit,
                            failedAt : Places, chunk : 0..MaxChunks, saves : Records]]
    /\ replaced \subseteq Tickets
    /\ faults \in 0..MaxFaults

\* The terminal marker is written only for a market without an open ticket,
\* whatever receipts, crashes and overlapping passes made of the cursor: a
\* marker on a market with tickets left would lock the vault's reserve for good.
DoneMeansSettled == store.done => open = {}

\* No pass is made to start behind a ticket that is still open, with passes
\* overlapping and receipts lost: none but those whose settlement was replaced.
CursorNeverSkips ==
    \A t \in Tickets : t < store.cursor => t \notin open \/ t \in replaced

\* No ticket is forgotten: neither the cursor nor the marker passes an open one.
NoTicketIsForgotten == CursorNeverSkips /\ DoneMeansSettled

\* After the last fault every ticket is settled and the marker stays.
SettlementCompletes == <>[](store.done /\ open = {})

=============================================================================
