---------------------------- MODULE FundingProofs ----------------------------
(***************************************************************************)
(* Proofs about the machines that move a user's USDC, for every value of   *)
(* their constants.  One inductive invariant per machine:                  *)
(*                                                                         *)
(* The demo funding (DemoFund).  What the service promises of its burns    *)
(* follows from FundInv, which relates what the calls, the records, the    *)
(* leases, the reservations and the chain know of a burn.  Its first part, *)
(* FundShape, holds come what may; the others, of leases, reservations,    *)
(* records, nonces and the quota, hold until a lease lapses, as far as the *)
(* model says: each says so itself.  Every part has a lemma that says that *)
(* the operations keep it, and before it the lemmas that say which of them *)
(* may change what it speaks of, and how.                                  *)
(*                                                                         *)
(* The panel (FundFlow), PanelInv: the fallback burns only after App Kit's *)
(* burn was lost sight of.  The vault's page (VaultForm), VaultInv: an     *)
(* account of what moved since the click, heard of and not.  The ticket's  *)
(* form (TicketForm), ShopInv, and the desk (DemoDesk), DeskInv: what is   *)
(* kept agrees with what was sold.  At the end, the machines side by side. *)
(***************************************************************************)
EXTENDS MCFunding, TotalsProofs, TLAPS

---------------------------------------------------------------------------
(* The inductive invariant of the demo funding, part by part. *)

\* Where a call holds the lease of its key, and where it has signed a burn.
Inside == {"recheck", "stale", "staleRow", "create", "reserve"} \cup Reserved \cup Signed \cup Releasing
Burning == Signed \cup {"revertBack", "revertRow"}
Preparing == {"stale", "staleRow", "create", "reserve", "persist"} \cup Reserved

\* The copy a call works with fits the place where it is.
CopiesFit ==
    \A c \in Calls :
        /\ pc[c] \in {"idle", "lock", "contend", "recheck", "done"} => op[c] = NoOp
        /\ pc[c] \in {"stale", "staleRow"} => op[c].by = Nobody /\ op[c].res # Nobody
        /\ pc[c] \in {"reserve"} \cup Reserved => op[c].by = Nobody
        /\ pc[c] \in Burning => op[c].by = c /\ op[c].status \in {"signed", "broadcast"}
        /\ pc[c] \in Outside => op[c].by # Nobody /\ op[c].status = "signed"

\* Copies and records name calls of their own key.
KeysFit ==
    /\ \A c \in Calls : /\ op[c].by # Nobody => key[op[c].by] = key[c]
                        /\ op[c].res # Nobody => key[op[c].res] = key[c]
    /\ \A k \in Keys : /\ rec[k].by # Nobody => key[rec[k].by] = k
                       /\ rec[k].res # Nobody => key[rec[k].res] = k

\* The burn of call c is known to somebody besides c: it was sent, or a record
\* or the copy of one names it.
Named(c) ==
    \/ \E d \in Calls : d # c /\ op[d].by = c
    \/ rec[key[c]].by = c
    \/ Sent(Tx("burn", c))

\* A burn is known only once its call has persisted it.
NamesFit ==
    \A c \in Calls :
        /\ op[c].by = c => pc[c] \in Burning \cup {"unlock"}
        /\ Named(c) => pc[c] \in (Burning \ {"persist"}) \cup {"unlock", "done"}
        /\ Named(c) /\ pc[c] # "done" => op[c].by = c

\* A reservation of an operation without a burn belongs to a call whose burn
\* nobody knows.
RecordsFit ==
    \A k \in Keys : rec[k].res # Nobody /\ rec[k].by = Nobody =>
        ~Named(rec[k].res) /\ pc[rec[k].res] # "broadcast"

RevertsFit ==
    /\ \A c \in reverted : Sent(Tx("burn", c))
    /\ \A c \in Calls : pc[c] \in {"revert", "revertBack", "revertRow"} => c \in reverted

\* Whoever came as far as a reservation made one.
RowsFit ==
    \A c \in Calls :
        pc[c] \in Reserved \cup Signed \cup Releasing \/ Named(c) => rows[c] # "none"

\* A reservation that a copy or a record names was made.
ResFit ==
    /\ \A c \in Calls : op[c].res # Nobody => rows[op[c].res] # "none"
    /\ \A k \in Keys : rec[k].res # Nobody => rows[rec[k].res] # "none"

FundShape ==
    TypeOK /\ CopiesFit /\ KeysFit /\ NamesFit /\ RecordsFit /\ RevertsFit /\ RowsFit /\ ResFit

\* A nonce lets one call in, in all, and is consumed then.
Entered(c) == rows[c] # "none" \/ pc[c] = "reserve"

NoncesFit ==
    \A c \in Calls : Entered(c) /\ claimNonce[c] # Session =>
        /\ claimNonce[c] \in consumed
        /\ \A d \in Calls : Entered(d) /\ claimNonce[d] = claimNonce[c] => c = d

\* Unless a lease lapsed, a call holds the leases of the sections it is in.
LeasesHeld ==
    ~lapsed => \A c \in Calls :
        /\ pc[c] \in Inside => opLock[key[c]] = c
        /\ pc[c] \in {"approve", "approving", "sign"} \/ op[c].by = c => treasury = c

\* Nobody gives back the reservation of a burn that is known.
ReservesHeld ==
    ~lapsed => \A c \in Calls :
        /\ pc[c] \in Reserved \cup Signed \cup Releasing => rows[c] = "held"
        /\ Named(c) => rows[c] \in {"held", "finalized"} \/ c \in reverted
        /\ pc[c] \in {"stale", "staleRow"} => ~Named(op[c].res)

Live(c) == Sent(Tx("burn", c)) /\ c \notin reverted

\* The record of a key knows the burn of the key that lives, and a call that
\* prepares another finds none that does.
BurnsOnRecord ==
    ~lapsed => \A c \in Calls : key[c] \notin disturbed =>
        /\ Live(c) => rec[key[c]].by = c /\ HasBurn(rec[key[c]])
        /\ pc[c] \in Preparing => (HasBurn(rec[key[c]]) => rec[key[c]].by \in reverted)
        /\ pc[c] \in {"broadcast", "mark", "receipt", "confirm", "revert"} =>
               rec[key[c]].by = c /\ HasBurn(rec[key[c]])
        /\ pc[c] \in Outside =>
               \/ rec[key[c]].by = op[c].by /\ HasBurn(rec[key[c]])
               \/ op[c].by \in reverted

\* The nonce of a signed burn is free, its own, or that of a burn whose call
\* is gone.
NoncesHeld ==
    ~lapsed => \A c \in Calls : pc[c] \in {"persist", "broadcast"} =>
        /\ op[c].nonce <= Len(chain)
        /\ \/ op[c].nonce = Len(chain)
           \/ Sent(Tx("burn", c))
           \/ /\ op[c].nonce < Len(chain)
              /\ chain[op[c].nonce + 1].kind = "burn"
              /\ pc[chain[op[c].nonce + 1].by] = "done"

\* The reservations the counter still counts.
Counts(c) ==
    /\ rows[c] \in {"held", "finalized"}
    /\ pc[c] \notin {"giveBackRow", "revertRow"}
    /\ \A d \in Calls : pc[d] = "staleRow" => op[d].res # c

Counted == {c \in Calls : Counts(c)}

QuotaKept == ~halfReleased /\ ~lapsed => Cardinality(Counted) <= used

FundInv ==
    FundShape /\ NoncesFit /\ LeasesHeld /\ ReservesHeld /\ BurnsOnRecord /\ NoncesHeld /\ QuotaKept

---------------------------------------------------------------------------
(* The demo funding (DemoFund): calls, labels and records. *)

\* "Nobody" is the number of no call.
LEMMA NobodyCalls == Nobody \notin Calls /\ Calls \subseteq Nat /\ IsFiniteSet(Calls)
BY DemoFundAssumption, FS_Interval DEF Nobody, Calls

\* The operations a copy begins and ends with.
LEMMA NoOpType == NoOp \in Ops /\ Failed \in Ops
BY DEF NoOp, Failed, Ops, Statuses

\* Where a call may be, place by place.
LEMMA LabelNames ==
    {"idle", "lock", "contend", "recheck", "stale", "staleRow", "create", "reserve", "record",
     "treasury", "approve", "approving", "sign", "persist", "broadcast", "mark", "receipt",
     "confirm", "revert", "settle", "giveBack", "giveBackRow", "revertBack", "revertRow",
     "resend", "rewrite", "markFailed", "unlock", "done"} = Labels
BY DEF Labels, Before, Reserved, Signed, Releasing, Outside

\* Where the catch goes on.
LEMMA ErrorType == \A l \in Labels : AfterError(l) \in {"markFailed", "giveBack", "settle", "unlock"}
BY DEF AfterError, Labels, Before, Reserved, Signed, Releasing, Outside

\* The states of an operation.
LEMMA StatusNames ==
    {"none", "created", "approving", "signed", "broadcast", "confirmed", "failed"} = Statuses
BY DEF Statuses

\* The catch gives a quota back only where one was reserved and no hash
\* computed, and keeps it only where a hash was.
LEMMA ErrorPlaces ==
    \A l \in Labels :
        /\ AfterError(l) = "markFailed" <=> l \in Before \cup {"giveBack", "giveBackRow"}
        /\ AfterError(l) = "giveBack" <=> l \in Reserved
        /\ AfterError(l) = "settle" <=> l \in {"persist", "broadcast", "mark", "confirm", "revert"}
BY DEF AfterError, Labels, Before, Reserved, Signed, Releasing, Outside

Txs == [kind : {"approve", "burn"}, by : Calls]

\* A call sends transactions of its own.
LEMMA TxType == \A c \in Calls : Tx("approve", c) \in Txs /\ Tx("burn", c) \in Txs
BY DEF Tx, Txs

\* Moving a call on touches no other call.
LEMMA GotoEffect ==
    ASSUME TypeOK, NEW c \in Calls, NEW l \in Labels, Goto(c, l)
    PROVE  /\ pc' \in [Calls -> Labels] /\ pc'[c] = l
           /\ \A d \in Calls : d # c => pc'[d] = pc[d]
BY DEF TypeOK, Goto

\* A call that changes its copy changes no other.
LEMMA KeepEffect ==
    ASSUME TypeOK, NEW c \in Calls, NEW o \in Ops, Keep(c, o)
    PROVE  /\ op' \in [Calls -> Ops] /\ op'[c] = o
           /\ \A d \in Calls : d # c => op'[d] = op[d]
BY DEF TypeOK, Keep

\* A call that ends forgets its copy.
LEMMA LeaveEffect ==
    ASSUME TypeOK, NEW c \in Calls, Leave(c)
    PROVE  /\ pc' \in [Calls -> Labels] /\ pc'[c] = "done"
           /\ \A d \in Calls : d # c => pc'[d] = pc[d]
           /\ op' \in [Calls -> Ops] /\ op'[c] = NoOp
           /\ \A d \in Calls : d # c => op'[d] = op[d]
           /\ lost' \subseteq Calls
<1>1. "done" \in Labels
  BY LabelNames
<1> QED
  BY <1>1, NoOpType, GotoEffect, KeepEffect DEF Leave, TypeOK

\* A transaction that joins the chain leaves the others where they are.
LEMMA AppendEffect ==
    ASSUME TypeOK, NEW tx \in Txs, chain' = Append(chain, tx)
    PROVE  /\ chain' \in Seq(Txs) /\ Len(chain') = Len(chain) + 1
           /\ \A i \in 1..Len(chain) : chain'[i] = chain[i]
           /\ chain'[Len(chain) + 1] = tx
           /\ \A t : Sent(t)' <=> (Sent(t) \/ t = tx)
<1>1. chain \in Seq(Txs)
  BY DEF TypeOK, Txs
<1>2. /\ chain' \in Seq(Txs) /\ Len(chain') = Len(chain) + 1
      /\ \A i \in 1..Len(chain) : chain'[i] = chain[i]
      /\ chain'[Len(chain) + 1] = tx
  BY <1>1
<1>3. DOMAIN chain = 1..Len(chain) /\ DOMAIN chain' = 1..(Len(chain) + 1) /\ Len(chain) \in Nat
  BY <1>1, <1>2
<1>4. ASSUME NEW t PROVE Sent(t)' <=> (Sent(t) \/ t = tx)
  BY <1>2, <1>3 DEF Sent
<1> QED
  BY <1>2, <1>4

\* A transaction that is sent, or was already, is on the chain after.
LEMMA SendEffect ==
    ASSUME TypeOK, NEW tx \in Txs, Send(tx)
    PROVE  /\ chain' \in Seq(Txs) /\ Len(chain') >= Len(chain)
           /\ \A i \in 1..Len(chain) : chain'[i] = chain[i]
           /\ \A t : Sent(t)' <=> (Sent(t) \/ t = tx)
<1>1. chain \in Seq(Txs) /\ Len(chain) \in Nat
  BY DEF TypeOK, Txs
<1>2. CASE Sent(tx)
  <2>1. chain' = chain
    BY <1>2 DEF Send
  <2>2. ASSUME NEW t PROVE Sent(t)' <=> Sent(t)
    BY <2>1 DEF Sent
  <2> QED
    BY <1>1, <1>2, <2>1, <2>2
<1>3. CASE ~Sent(tx)
  <2>1. chain' = Append(chain, tx)
    BY <1>3 DEF Send
  <2> QED
    BY <1>1, <2>1, AppendEffect
<1> QED
  BY <1>2, <1>3

\* What the chain consists of.
LEMMA ChainType ==
    ASSUME TypeOK
    PROVE  /\ chain \in Seq(Txs) /\ Len(chain) \in Nat /\ DOMAIN chain = 1..Len(chain)
           /\ \A i \in 1..Len(chain) :
                  chain[i].by \in Calls /\ chain[i].kind \in {"approve", "burn"}
<1>1. chain \in Seq(Txs)
  BY DEF TypeOK, Txs
<1>2. \A i \in 1..Len(chain) : chain[i] \in Txs
  BY <1>1
<1> QED
  BY <1>1, <1>2 DEF Txs

\* What a signature leaves in the copy of its call.
LEMMA SignEffect ==
    ASSUME TypeOK, NEW c \in Calls, Sign(c)
    PROVE  /\ pc' \in [Calls -> Labels] /\ op' \in [Calls -> Ops]
           /\ pc[c] = "sign" /\ pc'[c] \in {"persist", "giveBack"}
           /\ \A d \in Calls : d # c => pc'[d] = pc[d] /\ op'[d] = op[d]
           /\ pc'[c] = "persist" => /\ op'[c].by = c /\ op'[c].status = "signed"
                                    /\ op'[c].nonce = Len(chain) /\ op'[c].res = op[c].res
                                    /\ Holds(c)
           /\ pc'[c] = "giveBack" => op'[c] = op[c]
<1> DEFINE o == [op[c] EXCEPT !.status = "signed", !.by = c, !.nonce = Len(chain)]
<1>1. op[c] \in Ops /\ pc \in [Calls -> Labels] /\ op \in [Calls -> Ops] /\ pc[c] = "sign"
  BY DEF TypeOK, Sign, At
<1>2. o \in Ops /\ o.by = c /\ o.status = "signed" /\ o.nonce = Len(chain) /\ o.res = op[c].res
  <2>1. Len(chain) \in Nat /\ "signed" \in Statuses
    BY ChainType, StatusNames
  <2>2. o \in Ops
    BY <1>1, <2>1 DEF Ops
  <2> QED
    BY <1>1, <2>2 DEF Ops
<1> HIDE DEF o
<1>3. CASE Holds(c)
  <2>1. Goto(c, "persist") /\ Keep(c, o)
    BY <1>3 DEF Sign, o
  <2> QED
    BY <1>1, <1>2, <1>3, <2>1, GotoEffect, KeepEffect, LabelNames
<1>4. CASE ~Holds(c)
  <2>1. Goto(c, "giveBack") /\ op' = op
    BY <1>4 DEF Sign
  <2> QED
    BY <1>1, <2>1, GotoEffect, LabelNames
<1> QED
  BY <1>3, <1>4

\* A call that raises an error leaves, or goes on in its catch.
LEMMA RaiseEffect ==
    ASSUME TypeOK, NEW c \in Calls, Raise(c)
    PROVE  /\ pc' \in [Calls -> Labels] /\ op' \in [Calls -> Ops]
           /\ pc[c] \notin {"idle", "unlock", "staleRow", "receipt", "done"}
           /\ \A d \in Calls : d # c => pc'[d] = pc[d] /\ op'[d] = op[d]
           /\ \/ pc[c] \in Outside /\ pc'[c] = "done" /\ op'[c] = NoOp
              \/ /\ pc[c] \notin Outside /\ pc'[c] = AfterError(pc[c]) /\ op'[c] = op[c]
                 /\ pc'[c] \in {"markFailed", "giveBack", "settle", "unlock"}
                 /\ pc'[c] = "markFailed" <=> pc[c] \in Before \cup {"giveBack", "giveBackRow"}
                 /\ pc'[c] = "giveBack" <=> pc[c] \in Reserved
                 /\ pc'[c] = "settle" <=> pc[c] \in {"persist", "broadcast", "mark", "confirm", "revert"}
<1>1. pc[c] \in Labels /\ op \in [Calls -> Ops]
  BY DEF TypeOK
<1>2. CASE pc[c] \in Outside
  <2>1. Leave(c)
    BY <1>2 DEF Raise
  <2> QED
    BY <1>1, <1>2, <2>1, LeaveEffect DEF Raise
<1>3. CASE pc[c] \notin Outside
  <2>1. Goto(c, AfterError(pc[c])) /\ op' = op
    BY <1>3 DEF Raise
  <2>2. AfterError(pc[c]) \in Labels
    BY <1>1, ErrorType, LabelNames
  <2> QED
    BY <1>1, <1>3, <2>1, <2>2, GotoEffect, ErrorType, ErrorPlaces DEF Raise
<1> QED
  BY <1>2, <1>3

\* Every operation keeps the types.
LEMMA TypeStep == TypeOK /\ CopiesFit /\ [Next]_vars => TypeOK'
<1> SUFFICES ASSUME TypeOK, CopiesFit, [Next]_vars PROVE TypeOK'
  OBVIOUS
<1> USE DEF TypeOK
<1>1. ASSUME NEW c \in Calls, Begin(c) PROVE TypeOK'
  <2>1. pc' \in [Calls -> Labels]
    BY <1>1, GotoEffect, LeaveEffect, LabelNames, ErrorType DEF Begin
  <2> QED
    BY <1>1, <2>1, NoOpType, DemoFundAssumption DEF Begin, Keep, Put, Leave, Fault, Disturb, store, leases, ledger, noFault, history
<1>2. ASSUME NEW c \in Calls, Resend(c) PROVE TypeOK'
  <2>1. pc' \in [Calls -> Labels] /\ op' \in [Calls -> Ops] /\ lost' \subseteq Calls
    BY <1>2, LabelNames, GotoEffect, LeaveEffect DEF Resend
  <2>2. op[c].by \in Calls
    BY <1>2 DEF Resend, CopiesFit, Outside, Ops, At
  <2>3. chain' \in Seq(Txs) /\ Len(chain') >= Len(chain)
    <3>1. CASE chain' = chain
      BY <3>1 DEF Txs
    <3>2. CASE Send(Tx("burn", op[c].by))
      BY <2>2, <3>2, SendEffect, TxType
    <3> QED
      BY <1>2, <3>1, <3>2 DEF Resend
  <2>4. Len(chain') \in Nat /\ mined' \in 0..Len(chain')
    BY <1>2, <2>3 DEF Resend
  <2> QED
    BY <1>2, <2>1, <2>3, <2>4 DEF Resend, store, history, Txs
<1>3. ASSUME NEW c \in Calls, Rewrite(c) PROVE TypeOK'
  <2>1. pc' \in [Calls -> Labels]
    BY <1>3, GotoEffect, LeaveEffect, LabelNames, ErrorType DEF Rewrite
  <2> QED
    BY <1>3, <2>1, NoOpType, DemoFundAssumption, ZenonT(60) DEF Rewrite, Keep, Put, Leave, Fault, Disturb, store, leases, ledger, noFault, history, Ops, Statuses, Forgets
<1>4. ASSUME NEW c \in Calls, AcquireOp(c) PROVE TypeOK'
  <2>1. pc' \in [Calls -> Labels]
    BY <1>4, GotoEffect, LeaveEffect, LabelNames, ErrorType DEF AcquireOp
  <2> QED
    BY <1>4, <2>1, NoOpType, DemoFundAssumption DEF AcquireOp, Keep, Put, Leave, Fault, Disturb, store, leases, ledger, noFault, history
<1>5. ASSUME NEW c \in Calls, Contend(c) PROVE TypeOK'
  <2>1. pc' \in [Calls -> Labels]
    BY <1>5, GotoEffect, LeaveEffect, LabelNames, ErrorType DEF Contend
  <2> QED
    BY <1>5, <2>1, NoOpType, DemoFundAssumption DEF Contend, Keep, Put, Leave, Fault, Disturb, store, leases, ledger, noFault, history
<1>6. ASSUME NEW c \in Calls, Recheck(c) PROVE TypeOK'
  <2>1. pc' \in [Calls -> Labels]
    BY <1>6, GotoEffect, LeaveEffect, LabelNames, ErrorType DEF Recheck
  <2> QED
    BY <1>6, <2>1, NoOpType, DemoFundAssumption DEF Recheck, Keep, Put, Leave, Fault, Disturb, store, leases, ledger, noFault, history
<1>7. ASSUME NEW c \in Calls, ReleaseStale(c) PROVE TypeOK'
  <2>1. pc' \in [Calls -> Labels]
    BY <1>7, GotoEffect, LeaveEffect, LabelNames, ErrorType DEF ReleaseStale
  <2> QED
    BY <1>7, <2>1, NoOpType, DemoFundAssumption DEF ReleaseStale, Keep, Put, Leave, Fault, Disturb, store, leases, ledger, noFault, history, Decrease
<1>8. ASSUME NEW c \in Calls, ReleaseStaleRow(c) PROVE TypeOK'
  <2>1. pc' \in [Calls -> Labels]
    BY <1>8, GotoEffect, LabelNames DEF ReleaseStaleRow
  <2>2. rows' \in [Calls -> {"none", "held", "released", "finalized"}]
    BY <1>8 DEF ReleaseStaleRow
  <2>3. faults' \in 0..MaxFaults
    BY <1>8, DemoFundAssumption DEF ReleaseStaleRow, Fault
  <2>4. halfReleased' \in BOOLEAN
    BY <1>8, Zenon DEF ReleaseStaleRow
  <2> QED
    BY <1>8, <2>1, <2>2, <2>3, <2>4 DEF ReleaseStaleRow, leases, ledger
<1>9. ASSUME NEW c \in Calls, Create(c) PROVE TypeOK'
  <2>1. pc' \in [Calls -> Labels]
    BY <1>9, GotoEffect, LabelNames DEF Create
  <2>2. [NoOp EXCEPT !.status = "created"] \in Ops
    BY DEF NoOp, Ops, Statuses
  <2>3. op' \in [Calls -> Ops] /\ rec' \in [Keys -> Ops]
    <3>1. CASE UNCHANGED <<op, rec>>
      BY <3>1 DEF TypeOK
    <3>2. CASE Keep(c, [NoOp EXCEPT !.status = "created"]) /\ Put(key[c], [NoOp EXCEPT !.status = "created"])
      <4>1. op' \in [Calls -> Ops]
        BY <2>2, <3>2, KeepEffect
      <4>2. rec' \in [Keys -> Ops]
        BY <2>2, <3>2 DEF TypeOK, Put
      <4> QED
        BY <4>1, <4>2
    <3> QED
      BY <1>9, <3>1, <3>2 DEF Create
  <2>4. consumed' \subseteq Nonces
    BY <1>9 DEF Create, TypeOK
  <2> QED
    BY <1>9, <2>1, <2>3, <2>4 DEF Create, leases, ledger, history
<1>10. ASSUME NEW c \in Calls, Reserve(c) PROVE TypeOK'
  <2>1. pc' \in [Calls -> Labels]
    BY <1>10, GotoEffect, LeaveEffect, LabelNames, ErrorType DEF Reserve
  <2> QED
    BY <1>10, <2>1, NoOpType, DemoFundAssumption DEF Reserve, Keep, Put, Leave, Fault, Disturb, store, leases, ledger, noFault, history, WithinCap
<1>11. ASSUME NEW c \in Calls, Record(c) PROVE TypeOK'
  <2>1. pc' \in [Calls -> Labels]
    BY <1>11, GotoEffect, LeaveEffect, LabelNames, ErrorType DEF Record
  <2> QED
    BY <1>11, <2>1, NoOpType, DemoFundAssumption, ZenonT(60) DEF Record, Keep, Put, Leave, Fault, Disturb, store, leases, ledger, noFault, history, Ops, Statuses
<1>12. ASSUME NEW c \in Calls, AcquireTreasury(c) PROVE TypeOK'
  <2>1. pc' \in [Calls -> Labels]
    BY <1>12, GotoEffect, LeaveEffect, LabelNames, ErrorType DEF AcquireTreasury
  <2> QED
    BY <1>12, <2>1, NoOpType, DemoFundAssumption DEF AcquireTreasury, Keep, Put, Leave, Fault, Disturb, store, leases, ledger, noFault, history
<1>13. ASSUME NEW c \in Calls, Approve(c) PROVE TypeOK'
  <2>1. pc' \in [Calls -> Labels]
    BY <1>13, GotoEffect, LabelNames DEF Approve
  <2>2. chain' \in Seq(Txs) /\ Len(chain') >= Len(chain)
    <3>1. CASE chain' = chain
      BY <3>1 DEF Txs
    <3>2. CASE chain' = Append(chain, Tx("approve", c))
      BY <3>2, AppendEffect, TxType
    <3> QED
      BY <1>13, <3>1, <3>2 DEF Approve
  <2>3. Len(chain') \in Nat /\ mined' \in 0..Len(chain')
    BY <1>13, <2>2 DEF Approve
  <2> QED
    BY <1>13, <2>1, <2>2, <2>3 DEF Approve, store, leases, history, Txs
<1>14. ASSUME NEW c \in Calls, Approved(c) PROVE TypeOK'
  <2>1. pc' \in [Calls -> Labels]
    BY <1>14, GotoEffect, LeaveEffect, LabelNames, ErrorType DEF Approved
  <2> QED
    BY <1>14, <2>1, NoOpType, DemoFundAssumption DEF Approved, Keep, Put, Leave, Fault, Disturb, store, leases, ledger, noFault, history
<1>15. ASSUME NEW c \in Calls, Sign(c) PROVE TypeOK'
  BY <1>15, SignEffect DEF Sign, store, leases, ledger, history
<1>16. ASSUME NEW c \in Calls, Persist(c) PROVE TypeOK'
  <2>1. pc' \in [Calls -> Labels]
    BY <1>16, GotoEffect, LeaveEffect, LabelNames, ErrorType DEF Persist
  <2> QED
    BY <1>16, <2>1, NoOpType, DemoFundAssumption DEF Persist, Keep, Put, Leave, Fault, Disturb, store, leases, ledger, noFault, history
<1>17. ASSUME NEW c \in Calls, Broadcast(c) PROVE TypeOK'
  <2>1. pc' \in [Calls -> Labels]
    BY <1>17, GotoEffect, LabelNames DEF Broadcast
  <2>2. chain' \in Seq(Txs) /\ Len(chain') >= Len(chain)
    <3>1. CASE chain' = chain
      BY <3>1 DEF Txs
    <3>2. CASE Send(Tx("burn", c))
      BY <3>2, SendEffect, TxType
    <3> QED
      BY <1>17, <3>1, <3>2 DEF Broadcast
  <2>3. Len(chain') \in Nat /\ mined' \in 0..Len(chain')
    BY <1>17, <2>2 DEF Broadcast
  <2> QED
    BY <1>17, <2>1, <2>2, <2>3 DEF Broadcast, store, leases, history, Txs
<1>18. ASSUME NEW c \in Calls, Mark(c) PROVE TypeOK'
  <2>1. pc' \in [Calls -> Labels]
    BY <1>18, GotoEffect, LeaveEffect, LabelNames, ErrorType DEF Mark
  <2> QED
    BY <1>18, <2>1, NoOpType, DemoFundAssumption, ZenonT(60) DEF Mark, Keep, Put, Leave, Fault, Disturb, store, leases, ledger, noFault, history, Ops, Statuses
<1>19. ASSUME NEW c \in Calls, Receipt(c) PROVE TypeOK'
  <2>1. pc' \in [Calls -> Labels]
    BY <1>19, GotoEffect, LeaveEffect, LabelNames, ErrorType DEF Receipt
  <2> QED
    BY <1>19, <2>1, NoOpType, DemoFundAssumption DEF Receipt, Keep, Put, Leave, Fault, Disturb, store, leases, ledger, noFault, history
<1>20. ASSUME NEW c \in Calls, Confirm(c) PROVE TypeOK'
  <2>1. pc' \in [Calls -> Labels]
    BY <1>20, GotoEffect, LeaveEffect, LabelNames, ErrorType DEF Confirm
  <2> QED
    BY <1>20, <2>1, NoOpType, DemoFundAssumption, ZenonT(60) DEF Confirm, Keep, Put, Leave, Fault, Disturb, store, leases, ledger, noFault, history, Ops, Statuses
<1>21. ASSUME NEW c \in Calls, Settle(c) PROVE TypeOK'
  <2>1. pc' \in [Calls -> Labels]
    BY <1>21, GotoEffect, LeaveEffect, LabelNames, ErrorType DEF Settle
  <2> QED
    BY <1>21, <2>1, NoOpType, DemoFundAssumption DEF Settle, Keep, Put, Leave, Fault, Disturb, store, leases, ledger, noFault, history
<1>22. ASSUME NEW c \in Calls, Revert(c) PROVE TypeOK'
  <2>1. pc' \in [Calls -> Labels]
    BY <1>22, GotoEffect, LeaveEffect, LabelNames, ErrorType DEF Revert
  <2> QED
    BY <1>22, <2>1, NoOpType, DemoFundAssumption, ZenonT(60) DEF Revert, Keep, Put, Leave, Fault, Disturb, store, leases, ledger, noFault, history, Ops, Statuses
<1>23. ASSUME NEW c \in Calls, GiveBack(c) PROVE TypeOK'
  <2>1. pc' \in [Calls -> Labels]
    BY <1>23, GotoEffect, LeaveEffect, LabelNames, ErrorType DEF GiveBack
  <2> QED
    BY <1>23, <2>1, NoOpType, DemoFundAssumption DEF GiveBack, Keep, Put, Leave, Fault, Disturb, store, leases, ledger, noFault, history, Decrease
<1>24. ASSUME NEW c \in Calls, GiveBackRow(c) PROVE TypeOK'
  <2>1. pc' \in [Calls -> Labels]
    BY <1>24, GotoEffect, LeaveEffect, LabelNames, ErrorType DEF GiveBackRow
  <2> QED
    BY <1>24, <2>1, NoOpType, DemoFundAssumption DEF GiveBackRow, Keep, Put, Leave, Fault, Disturb, store, leases, ledger, noFault, history
<1>25. ASSUME NEW c \in Calls, MarkFailed(c) PROVE TypeOK'
  <2>1. pc' \in [Calls -> Labels]
    BY <1>25, GotoEffect, LeaveEffect, LabelNames, ErrorType DEF MarkFailed
  <2> QED
    BY <1>25, <2>1, NoOpType, DemoFundAssumption DEF MarkFailed, Keep, Put, Leave, Fault, Disturb, store, leases, ledger, noFault, history
<1>26. ASSUME NEW c \in Calls, Unlock(c) PROVE TypeOK'
  <2>1. pc' \in [Calls -> Labels]
    BY <1>26, GotoEffect, LeaveEffect, LabelNames, ErrorType DEF Unlock
  <2> QED
    BY <1>26, <2>1, NoOpType, DemoFundAssumption DEF Unlock, Keep, Put, Leave, Fault, Disturb, store, leases, ledger, noFault, history, Freed
<1>27. ASSUME NEW c \in Calls, Raise(c) PROVE TypeOK'
  <2>1. pc' \in [Calls -> Labels]
    BY <1>27, GotoEffect, LeaveEffect, LabelNames, ErrorType DEF Raise
  <2> QED
    BY <1>27, <2>1, NoOpType, DemoFundAssumption DEF Raise, Keep, Put, Leave, Fault, Disturb, store, leases, ledger, noFault, history, Halves, Outside
<1>28. ASSUME NEW c \in Calls, Crash(c) PROVE TypeOK'
  <2>1. /\ pc' \in [Calls -> Labels] /\ op' \in [Calls -> Ops] /\ lost' \subseteq Calls
    BY <1>28, LeaveEffect DEF Crash
  <2>2. faults' \in 0..MaxFaults /\ halfReleased' \in BOOLEAN
    BY <1>28, DemoFundAssumption DEF Crash, Fault, Halves
  <2> QED
    BY <1>28, <2>1, <2>2 DEF Crash, store, ledger
<1>29. ASSUME NEW c \in Calls, Lapse(c) PROVE TypeOK'
  <2> QED
    BY <1>29, NoOpType, DemoFundAssumption DEF Lapse, Keep, Put, Leave, Fault, Disturb, store, leases, ledger, noFault, history, Freed
<1>30. ASSUME NEW c \in Calls, NoticeLapse(c) PROVE TypeOK'
  <2> QED
    BY <1>30, NoOpType, DemoFundAssumption DEF NoticeLapse, Keep, Put, Leave, Fault, Disturb, store, leases, ledger, noFault, history
<1>31. ASSUME Expire PROVE TypeOK'
  BY <1>31 DEF Expire, store, ledger, history
<1>32. ASSUME Mine PROVE TypeOK'
  <2>1. mined + 1 \in 1..Len(chain)
    <3>1. Len(chain) \in Nat /\ mined \in Nat /\ mined < Len(chain)
      BY <1>32 DEF Mine
    <3> QED
      BY <3>1
  <2>2. mined' \in 0..Len(chain')
    <3>1. Len(chain') = Len(chain) /\ mined' = mined + 1
      BY <1>32 DEF Mine, ledger
    <3>2. Len(chain) \in Nat /\ mined \in Nat
      OBVIOUS
    <3> QED
      BY <2>1, <3>1, <3>2
  <2>3. chain[mined + 1].by \in Calls
    BY <2>1, ChainType
  <2>4. allowance' \in 0..1
    BY <1>32 DEF Mine
  <2>5. reverted' \subseteq Calls
    BY <1>32, <2>3 DEF Mine
  <2> QED
    BY <1>32, <2>2, <2>4, <2>5 DEF Mine, store, leases, history
<1>33. CASE UNCHANGED vars
  BY <1>33 DEF vars
<1> QED
  BY <1>1, <1>2, <1>3, <1>4, <1>5, <1>6, <1>7, <1>8, <1>9, <1>10, <1>11, <1>12, <1>13, <1>14, <1>15, <1>16, <1>17, <1>18, <1>19, <1>20, <1>21, <1>22, <1>23, <1>24, <1>25, <1>26, <1>27, <1>28, <1>29, <1>30, <1>31, <1>32, <1>33 DEF Next, Progress, Step

\* A copy fits its place after every operation.
LEMMA CopiesStep == TypeOK /\ CopiesFit /\ [Next]_vars => CopiesFit'
<1> SUFFICES ASSUME TypeOK, CopiesFit, [Next]_vars PROVE CopiesFit'
  OBVIOUS
<1>0. pc \in [Calls -> Labels] /\ op \in [Calls -> Ops] /\ key \in [Calls -> Keys] /\ rec \in [Keys -> Ops]
  BY DEF TypeOK
<1> USE DEF CopiesFit, Burning, Reserved, Signed, Outside
<1>1. ASSUME NEW c \in Calls, Begin(c) PROVE CopiesFit'
  BY <1>1, <1>0 DEF Begin, At, Goto, Keep, HasBurn
<1>2. ASSUME NEW c \in Calls, Resend(c) PROVE CopiesFit'
  BY <1>2, <1>0 DEF Resend, At, Goto, Leave, Keep
<1>3. ASSUME NEW c \in Calls, Rewrite(c) PROVE CopiesFit'
  BY <1>3, <1>0 DEF Rewrite, At, Leave, Goto, Keep, Put
<1>4. ASSUME NEW c \in Calls, AcquireOp(c) PROVE CopiesFit'
  BY <1>4, <1>0 DEF AcquireOp, At, Goto
<1>5. ASSUME NEW c \in Calls, Contend(c) PROVE CopiesFit'
  BY <1>5, <1>0 DEF Contend, At, Goto
<1>6. ASSUME NEW c \in Calls, Recheck(c) PROVE CopiesFit'
  BY <1>6, <1>0 DEF Recheck, At, Goto, Keep, HasBurn, NoOp
<1>7. ASSUME NEW c \in Calls, ReleaseStale(c) PROVE CopiesFit'
  BY <1>7, <1>0 DEF ReleaseStale, At, Goto
<1>8. ASSUME NEW c \in Calls, ReleaseStaleRow(c) PROVE CopiesFit'
  BY <1>8, <1>0 DEF ReleaseStaleRow, At, Goto
<1>9. ASSUME NEW c \in Calls, Create(c) PROVE CopiesFit'
  BY <1>9, <1>0 DEF Create, At, Goto, Keep, Put, NoOp
<1>10. ASSUME NEW c \in Calls, Reserve(c) PROVE CopiesFit'
  BY <1>10, <1>0 DEF Reserve, At, Goto
<1>11. ASSUME NEW c \in Calls, Record(c) PROVE CopiesFit'
  BY <1>11, <1>0 DEF Record, At, Goto, Keep, Put, Ops
<1>12. ASSUME NEW c \in Calls, AcquireTreasury(c) PROVE CopiesFit'
  BY <1>12, <1>0 DEF AcquireTreasury, At, Goto
<1>13. ASSUME NEW c \in Calls, Approve(c) PROVE CopiesFit'
  BY <1>13, <1>0 DEF Approve, At, Goto
<1>14. ASSUME NEW c \in Calls, Approved(c) PROVE CopiesFit'
  BY <1>14, <1>0 DEF Approved, At, Goto
<1>15. ASSUME NEW c \in Calls, Sign(c) PROVE CopiesFit'
  BY <1>15, <1>0, SignEffect
<1>16. ASSUME NEW c \in Calls, Persist(c) PROVE CopiesFit'
  BY <1>16, <1>0 DEF Persist, At, Goto, Put
<1>17. ASSUME NEW c \in Calls, Broadcast(c) PROVE CopiesFit'
  BY <1>17, <1>0 DEF Broadcast, At, Goto
<1>18. ASSUME NEW c \in Calls, Mark(c) PROVE CopiesFit'
  BY <1>18, <1>0 DEF Mark, At, Goto, Keep, Put, Ops
<1>19. ASSUME NEW c \in Calls, Receipt(c) PROVE CopiesFit'
  BY <1>19, <1>0 DEF Receipt, At, Goto
<1>20. ASSUME NEW c \in Calls, Confirm(c) PROVE CopiesFit'
  BY <1>20, <1>0 DEF Confirm, At, Goto, Put
<1>21. ASSUME NEW c \in Calls, Settle(c) PROVE CopiesFit'
  BY <1>21, <1>0 DEF Settle, At, Goto
<1>22. ASSUME NEW c \in Calls, Revert(c) PROVE CopiesFit'
  BY <1>22, <1>0 DEF Revert, At, Goto, Put
<1>23. ASSUME NEW c \in Calls, GiveBack(c) PROVE CopiesFit'
  BY <1>23, <1>0 DEF GiveBack, At, Goto
<1>24. ASSUME NEW c \in Calls, GiveBackRow(c) PROVE CopiesFit'
  BY <1>24, <1>0 DEF GiveBackRow, At, Goto
<1>25. ASSUME NEW c \in Calls, MarkFailed(c) PROVE CopiesFit'
  BY <1>25, <1>0 DEF MarkFailed, At, Goto, Put
<1>26. ASSUME NEW c \in Calls, Unlock(c) PROVE CopiesFit'
  BY <1>26, <1>0 DEF Unlock, At, Leave, Goto, Keep
<1>27. ASSUME NEW c \in Calls, Raise(c) PROVE CopiesFit'
  BY <1>27, <1>0, RaiseEffect
<1>28. ASSUME NEW c \in Calls, Crash(c) PROVE CopiesFit'
  BY <1>28, <1>0 DEF Crash, Leave, Goto, Keep
<1>29. ASSUME NEW c \in Calls, Lapse(c) PROVE CopiesFit'
  BY <1>29, <1>0 DEF Lapse
<1>30. ASSUME NEW c \in Calls, NoticeLapse(c) PROVE CopiesFit'
  BY <1>30, <1>0 DEF NoticeLapse
<1>31. ASSUME Expire PROVE CopiesFit'
  BY <1>31, <1>0 DEF Expire
<1>32. ASSUME Mine PROVE CopiesFit'
  BY <1>32, <1>0 DEF Mine
<1>33. ASSUME UNCHANGED vars PROVE CopiesFit'
  BY <1>33, <1>0 DEF vars
<1> QED
  BY <1>1, <1>2, <1>3, <1>4, <1>5, <1>6, <1>7, <1>8, <1>9, <1>10, <1>11, <1>12, <1>13, <1>14, <1>15, <1>16, <1>17, <1>18, <1>19, <1>20, <1>21, <1>22, <1>23, <1>24, <1>25, <1>26, <1>27, <1>28, <1>29, <1>30, <1>31, <1>32, <1>33 DEF Next, Progress, Step

\* Copies and records go on naming calls of their own key.
LEMMA KeysStep == TypeOK /\ CopiesFit /\ KeysFit /\ [Next]_vars => KeysFit'
<1> SUFFICES ASSUME TypeOK, CopiesFit, KeysFit, [Next]_vars PROVE KeysFit'
  OBVIOUS
<1>0. op \in [Calls -> Ops] /\ key \in [Calls -> Keys] /\ rec \in [Keys -> Ops]
  BY DEF TypeOK
<1>a. Nobody \notin Calls /\ NoOp.by = Nobody /\ NoOp.res = Nobody
  BY NobodyCalls DEF NoOp
<1> USE DEF KeysFit, Ops
<1>1. ASSUME NEW c \in Calls, Begin(c) PROVE KeysFit'
  BY <1>1, <1>0, <1>a DEF Begin, Keep, store
<1>2. ASSUME NEW c \in Calls, Resend(c) PROVE KeysFit'
  BY <1>2, <1>0, <1>a DEF Resend, At, Leave, Keep, store, CopiesFit, Burning, Signed, Reserved, Outside
<1>3. ASSUME NEW c \in Calls, Rewrite(c) PROVE KeysFit'
  BY <1>3, <1>0, <1>a DEF Rewrite, At, Leave, Goto, Keep, Put, CopiesFit, Burning, Signed, Reserved, Outside
<1>4. ASSUME NEW c \in Calls, AcquireOp(c) PROVE KeysFit'
  BY <1>4, <1>0, <1>a DEF AcquireOp, store
<1>5. ASSUME NEW c \in Calls, Contend(c) PROVE KeysFit'
  BY <1>5, <1>0, <1>a DEF Contend, store
<1>6. ASSUME NEW c \in Calls, Recheck(c) PROVE KeysFit'
  BY <1>6, <1>0, <1>a DEF Recheck, Keep, store, NoOp
<1>7. ASSUME NEW c \in Calls, ReleaseStale(c) PROVE KeysFit'
  BY <1>7, <1>0, <1>a DEF ReleaseStale, Goto
<1>8. ASSUME NEW c \in Calls, ReleaseStaleRow(c) PROVE KeysFit'
  BY <1>8, <1>0, <1>a DEF ReleaseStaleRow, Goto
<1>9. ASSUME NEW c \in Calls, Create(c) PROVE KeysFit'
  <2>1. [NoOp EXCEPT !.status = "created"].by = Nobody /\ [NoOp EXCEPT !.status = "created"].res = Nobody
    BY DEF NoOp
  <2>2. /\ op'[c].by \in {Nobody, op[c].by} /\ op'[c].res \in {Nobody, op[c].res}
        /\ \A d \in Calls : d # c => op'[d] = op[d]
    BY <1>9, <1>0, <2>1 DEF Create, Keep
  <2>3. /\ rec'[key[c]].by \in {Nobody, rec[key[c]].by} /\ rec'[key[c]].res \in {Nobody, rec[key[c]].res}
        /\ \A k \in Keys : k # key[c] => rec'[k] = rec[k]
    BY <1>9, <1>0, <2>1 DEF Create, Put
  <2>4. key' = key
    BY <1>9 DEF Create
  <2> QED
    BY <1>0, <2>2, <2>3, <2>4
<1>10. ASSUME NEW c \in Calls, Reserve(c) PROVE KeysFit'
  BY <1>10, <1>0, <1>a DEF Reserve, Goto
<1>11. ASSUME NEW c \in Calls, Record(c) PROVE KeysFit'
  BY <1>11, <1>0, <1>a DEF Record, At, Keep, Put, CopiesFit, Burning, Signed, Reserved, Outside
<1>12. ASSUME NEW c \in Calls, AcquireTreasury(c) PROVE KeysFit'
  BY <1>12, <1>0, <1>a DEF AcquireTreasury, store
<1>13. ASSUME NEW c \in Calls, Approve(c) PROVE KeysFit'
  BY <1>13, <1>0, <1>a DEF Approve, store
<1>14. ASSUME NEW c \in Calls, Approved(c) PROVE KeysFit'
  BY <1>14, <1>0, <1>a DEF Approved, store
<1>15. ASSUME NEW c \in Calls, Sign(c) PROVE KeysFit'
  <2>1. key' = key /\ rec' = rec
    BY <1>15 DEF Sign, store
  <2>2. /\ op'[c].by \in {c, op[c].by} /\ op'[c].res = op[c].res
        /\ \A d \in Calls : d # c => op'[d] = op[d]
    BY <1>15, SignEffect
  <2> QED
    BY <1>0, <2>1, <2>2
<1>16. ASSUME NEW c \in Calls, Persist(c) PROVE KeysFit'
  BY <1>16, <1>0, <1>a DEF Persist, At, Put, CopiesFit, Burning, Signed, Reserved, Outside
<1>17. ASSUME NEW c \in Calls, Broadcast(c) PROVE KeysFit'
  BY <1>17, <1>0, <1>a DEF Broadcast, store
<1>18. ASSUME NEW c \in Calls, Mark(c) PROVE KeysFit'
  BY <1>18, <1>0, <1>a DEF Mark, At, Keep, Put, CopiesFit, Burning, Signed, Reserved, Outside
<1>19. ASSUME NEW c \in Calls, Receipt(c) PROVE KeysFit'
  BY <1>19, <1>0, <1>a DEF Receipt, store
<1>20. ASSUME NEW c \in Calls, Confirm(c) PROVE KeysFit'
  BY <1>20, <1>0, <1>a DEF Confirm, At, Put, CopiesFit, Burning, Signed, Reserved, Outside
<1>21. ASSUME NEW c \in Calls, Settle(c) PROVE KeysFit'
  BY <1>21, <1>0, <1>a DEF Settle, Goto
<1>22. ASSUME NEW c \in Calls, Revert(c) PROVE KeysFit'
  BY <1>22, <1>0, <1>a DEF Revert, At, Put, CopiesFit, Burning, Signed, Reserved, Outside
<1>23. ASSUME NEW c \in Calls, GiveBack(c) PROVE KeysFit'
  BY <1>23, <1>0, <1>a DEF GiveBack, Goto
<1>24. ASSUME NEW c \in Calls, GiveBackRow(c) PROVE KeysFit'
  BY <1>24, <1>0, <1>a DEF GiveBackRow, Goto
<1>25. ASSUME NEW c \in Calls, MarkFailed(c) PROVE KeysFit'
  BY <1>25, <1>0, <1>a DEF MarkFailed, Put, Failed
<1>26. ASSUME NEW c \in Calls, Unlock(c) PROVE KeysFit'
  BY <1>26, <1>0, <1>a DEF Unlock, Leave, Goto, Keep, store
<1>27. ASSUME NEW c \in Calls, Raise(c) PROVE KeysFit'
  <2>1. key' = key /\ rec' = rec
    BY <1>27 DEF Raise, store
  <2> QED
    BY <1>27, <1>0, <1>a, <2>1, RaiseEffect
<1>28. ASSUME NEW c \in Calls, Crash(c) PROVE KeysFit'
  BY <1>28, <1>0, <1>a DEF Crash, Leave, Goto, Keep, store
<1>29. ASSUME NEW c \in Calls, Lapse(c) PROVE KeysFit'
  BY <1>29, <1>0, <1>a DEF Lapse, store
<1>30. ASSUME NEW c \in Calls, NoticeLapse(c) PROVE KeysFit'
  BY <1>30, <1>0, <1>a DEF NoticeLapse, store
<1>31. ASSUME Expire PROVE KeysFit'
  BY <1>31, <1>0, <1>a DEF Expire, store
<1>32. ASSUME Mine PROVE KeysFit'
  BY <1>32, <1>0, <1>a DEF Mine, store
<1>33. ASSUME UNCHANGED vars PROVE KeysFit'
  BY <1>33, <1>0, <1>a DEF vars
<1> QED
  BY <1>1, <1>2, <1>3, <1>4, <1>5, <1>6, <1>7, <1>8, <1>9, <1>10, <1>11, <1>12, <1>13, <1>14, <1>15, <1>16, <1>17, <1>18, <1>19, <1>20, <1>21, <1>22, <1>23, <1>24, <1>25, <1>26, <1>27, <1>28, <1>29, <1>30, <1>31, <1>32, <1>33 DEF Next, Progress, Step

---------------------------------------------------------------------------
(* Transactions and names. *)

\* Only an approval, a burn's call and a second look that sends an operation
\* again add to the chain.
ChainGrows ==
    \/ chain' = chain
    \/ \E c \in Calls : Resend(c) /\ Send(Tx("burn", op[c].by))
    \/ \E c \in Calls : Approve(c) /\ chain' = Append(chain, Tx("approve", c))
    \/ \E c \in Calls : Broadcast(c) /\ Holds(c) /\ pc'[c] = "mark" /\ Send(Tx("burn", c))

\* No operation removes or replaces a transaction.
LEMMA ChainStep == TypeOK /\ [Next]_vars => ChainGrows
<1> SUFFICES ASSUME TypeOK, [Next]_vars PROVE ChainGrows
  OBVIOUS
<1> USE DEF ChainGrows
<1>1. ASSUME NEW c \in Calls, Begin(c) PROVE ChainGrows
  BY <1>1 DEF Begin, ledger
<1>2. ASSUME NEW c \in Calls, Resend(c) PROVE ChainGrows
  BY <1>2 DEF Resend
<1>3. ASSUME NEW c \in Calls, Rewrite(c) PROVE ChainGrows
  BY <1>3 DEF Rewrite, ledger
<1>4. ASSUME NEW c \in Calls, AcquireOp(c) PROVE ChainGrows
  BY <1>4 DEF AcquireOp, ledger
<1>5. ASSUME NEW c \in Calls, Contend(c) PROVE ChainGrows
  BY <1>5 DEF Contend, ledger
<1>6. ASSUME NEW c \in Calls, Recheck(c) PROVE ChainGrows
  BY <1>6 DEF Recheck, ledger
<1>7. ASSUME NEW c \in Calls, ReleaseStale(c) PROVE ChainGrows
  BY <1>7 DEF ReleaseStale, ledger
<1>8. ASSUME NEW c \in Calls, ReleaseStaleRow(c) PROVE ChainGrows
  BY <1>8 DEF ReleaseStaleRow, ledger
<1>9. ASSUME NEW c \in Calls, Create(c) PROVE ChainGrows
  BY <1>9 DEF Create, ledger
<1>10. ASSUME NEW c \in Calls, Reserve(c) PROVE ChainGrows
  BY <1>10 DEF Reserve, ledger
<1>11. ASSUME NEW c \in Calls, Record(c) PROVE ChainGrows
  BY <1>11 DEF Record, ledger
<1>12. ASSUME NEW c \in Calls, AcquireTreasury(c) PROVE ChainGrows
  BY <1>12 DEF AcquireTreasury, ledger
<1>13. ASSUME NEW c \in Calls, Approve(c) PROVE ChainGrows
  BY <1>13 DEF Approve
<1>14. ASSUME NEW c \in Calls, Approved(c) PROVE ChainGrows
  BY <1>14 DEF Approved, ledger
<1>15. ASSUME NEW c \in Calls, Sign(c) PROVE ChainGrows
  BY <1>15 DEF Sign, ledger
<1>16. ASSUME NEW c \in Calls, Persist(c) PROVE ChainGrows
  BY <1>16 DEF Persist, ledger
<1>17. ASSUME NEW c \in Calls, Broadcast(c) PROVE ChainGrows
  <2>1. CASE pc' = [pc EXCEPT ![c] = "mark"] /\ Holds(c) /\ Send(Tx("burn", c))
    BY <1>17, <2>1 DEF TypeOK
  <2> QED
    BY <1>17, <2>1 DEF Broadcast, Goto
<1>18. ASSUME NEW c \in Calls, Mark(c) PROVE ChainGrows
  BY <1>18 DEF Mark, ledger
<1>19. ASSUME NEW c \in Calls, Receipt(c) PROVE ChainGrows
  BY <1>19 DEF Receipt, ledger
<1>20. ASSUME NEW c \in Calls, Confirm(c) PROVE ChainGrows
  BY <1>20 DEF Confirm, ledger
<1>21. ASSUME NEW c \in Calls, Settle(c) PROVE ChainGrows
  BY <1>21 DEF Settle, ledger
<1>22. ASSUME NEW c \in Calls, Revert(c) PROVE ChainGrows
  BY <1>22 DEF Revert, ledger
<1>23. ASSUME NEW c \in Calls, GiveBack(c) PROVE ChainGrows
  BY <1>23 DEF GiveBack, ledger
<1>24. ASSUME NEW c \in Calls, GiveBackRow(c) PROVE ChainGrows
  BY <1>24 DEF GiveBackRow, ledger
<1>25. ASSUME NEW c \in Calls, MarkFailed(c) PROVE ChainGrows
  BY <1>25 DEF MarkFailed, ledger
<1>26. ASSUME NEW c \in Calls, Unlock(c) PROVE ChainGrows
  BY <1>26 DEF Unlock, ledger
<1>27. ASSUME NEW c \in Calls, Raise(c) PROVE ChainGrows
  BY <1>27 DEF Raise, ledger
<1>28. ASSUME NEW c \in Calls, Crash(c) PROVE ChainGrows
  BY <1>28 DEF Crash, ledger
<1>29. ASSUME NEW c \in Calls, Lapse(c) PROVE ChainGrows
  BY <1>29 DEF Lapse, ledger
<1>30. ASSUME NEW c \in Calls, NoticeLapse(c) PROVE ChainGrows
  BY <1>30 DEF NoticeLapse, ledger
<1>31. ASSUME Expire PROVE ChainGrows
  BY <1>31 DEF Expire, ledger
<1>32. ASSUME Mine PROVE ChainGrows
  BY <1>32 DEF Mine
<1>33. ASSUME UNCHANGED vars PROVE ChainGrows
  BY <1>33 DEF vars
<1> QED
  BY <1>1, <1>2, <1>3, <1>4, <1>5, <1>6, <1>7, <1>8, <1>9, <1>10, <1>11, <1>12, <1>13, <1>14, <1>15, <1>16, <1>17, <1>18, <1>19, <1>20, <1>21, <1>22, <1>23, <1>24, <1>25, <1>26, <1>27, <1>28, <1>29, <1>30, <1>31, <1>32, <1>33 DEF Next, Progress, Step

\* What is on the chain stays where it is, and a burn that joins it is one
\* its own call broadcasts or another sends again.
LEMMA SentStep ==
    ASSUME TypeOK, CopiesFit, [Next]_vars
    PROVE  /\ chain' \in Seq(Txs) /\ Len(chain') \in Nat /\ Len(chain') >= Len(chain)
           /\ \A i \in 1..Len(chain) : chain'[i] = chain[i]
           /\ \A t : Sent(t) => Sent(t)'
           /\ \A x \in Calls : Sent(Tx("burn", x))' =>
                  \/ Sent(Tx("burn", x))
                  \/ pc[x] = "broadcast" /\ pc'[x] = "mark" /\ op' = op /\ rec' = rec /\ Holds(x)
                  \/ \E d \in Calls : pc[d] = "resend" /\ op[d].by = x /\ rec' = rec
<1>0. chain \in Seq(Txs) /\ Len(chain) \in Nat
  BY ChainType
<1>d. \A x, y : Tx("burn", x) # Tx("approve", y) /\ (Tx("burn", x) = Tx("burn", y) => x = y)
  BY DEF Tx
<1>1. CASE chain' = chain
  <2>1. \A t : Sent(t)' <=> Sent(t)
    BY <1>1 DEF Sent
  <2> QED
    BY <1>0, <1>1, <2>1
<1>2. ASSUME NEW c \in Calls, Resend(c), Send(Tx("burn", op[c].by))
      PROVE  /\ chain' \in Seq(Txs) /\ Len(chain') >= Len(chain)
             /\ \A i \in 1..Len(chain) : chain'[i] = chain[i]
             /\ \A t : Sent(t) => Sent(t)'
             /\ \A x \in Calls : Sent(Tx("burn", x))' => Sent(Tx("burn", x)) \/ op[c].by = x
             /\ pc[c] = "resend" /\ rec' = rec
  <2>1. pc[c] = "resend" /\ op[c].by \in Calls
    BY <1>2 DEF Resend, At, CopiesFit, Outside, TypeOK, Ops
  <2>2. rec' = rec
    BY <1>2 DEF Resend, store
  <2> QED
    BY <1>2, <1>d, <2>1, <2>2, SendEffect, TxType
<1>3. ASSUME NEW c \in Calls, Approve(c), chain' = Append(chain, Tx("approve", c))
      PROVE  /\ chain' \in Seq(Txs) /\ Len(chain') >= Len(chain)
             /\ \A i \in 1..Len(chain) : chain'[i] = chain[i]
             /\ \A t : Sent(t) => Sent(t)'
             /\ \A x \in Calls : Sent(Tx("burn", x))' => Sent(Tx("burn", x))
  BY <1>3, <1>0, <1>d, AppendEffect, TxType
<1>4. ASSUME NEW c \in Calls, Broadcast(c), Holds(c), pc'[c] = "mark", Send(Tx("burn", c))
      PROVE  /\ chain' \in Seq(Txs) /\ Len(chain') >= Len(chain)
             /\ \A i \in 1..Len(chain) : chain'[i] = chain[i]
             /\ \A t : Sent(t) => Sent(t)'
             /\ \A x \in Calls : Sent(Tx("burn", x))' => Sent(Tx("burn", x)) \/ x = c
             /\ pc[c] = "broadcast" /\ pc'[c] = "mark" /\ op' = op /\ rec' = rec
  <2>1. pc[c] = "broadcast" /\ op' = op /\ rec' = rec
    BY <1>4 DEF Broadcast, At, store
  <2> QED
    BY <1>4, <1>d, <2>1, SendEffect, TxType
<1>5. chain' \in Seq(Txs) => Len(chain') \in Nat
  OBVIOUS
<1> QED
  BY <1>1, <1>2, <1>3, <1>4, <1>5, ChainStep DEF ChainGrows

\* A copy that comes to name another call takes the name from the record of
\* its key.
LEMMA CopyNames ==
    ASSUME TypeOK, [Next]_vars
    PROVE  \A d \in Calls : \/ op'[d].by \in {op[d].by, Nobody}
                            \/ op'[d].by = rec[key[d]].by /\ pc[d] \in {"idle", "recheck"}
                            \/ op'[d].by = d /\ pc[d] = "sign" /\ pc'[d] = "persist"
<1> DEFINE P == \A d \in Calls : \/ op'[d].by \in {op[d].by, Nobody}
                                 \/ op'[d].by = rec[key[d]].by /\ pc[d] \in {"idle", "recheck"}
                                 \/ op'[d].by = d /\ pc[d] = "sign" /\ pc'[d] = "persist"
<1> SUFFICES P
  OBVIOUS
<1>0. op \in [Calls -> Ops] /\ key \in [Calls -> Keys] /\ rec \in [Keys -> Ops] /\ NoOp.by = Nobody
  BY DEF TypeOK, NoOp
<1>1. ASSUME NEW c \in Calls, Begin(c) PROVE P
  BY <1>1, <1>0 DEF Begin, At, Keep
<1>2. ASSUME NEW c \in Calls, Resend(c) PROVE P
  BY <1>2, <1>0 DEF Resend, Leave, Keep
<1>3. ASSUME NEW c \in Calls, Rewrite(c) PROVE P
  BY <1>3, <1>0 DEF Rewrite, Leave, Keep
<1>4. ASSUME NEW c \in Calls, AcquireOp(c) PROVE P
  BY <1>4 DEF AcquireOp
<1>5. ASSUME NEW c \in Calls, Contend(c) PROVE P
  BY <1>5 DEF Contend
<1>6. ASSUME NEW c \in Calls, Recheck(c) PROVE P
  BY <1>6, <1>0 DEF Recheck, At, Keep
<1>7. ASSUME NEW c \in Calls, ReleaseStale(c) PROVE P
  BY <1>7 DEF ReleaseStale
<1>8. ASSUME NEW c \in Calls, ReleaseStaleRow(c) PROVE P
  BY <1>8 DEF ReleaseStaleRow
<1>9. ASSUME NEW c \in Calls, Create(c) PROVE P
  <2>1. [NoOp EXCEPT !.status = "created"].by = Nobody
    BY DEF NoOp
  <2> QED
    BY <1>9, <1>0, <2>1 DEF Create, Keep
<1>10. ASSUME NEW c \in Calls, Reserve(c) PROVE P
  BY <1>10 DEF Reserve
<1>11. ASSUME NEW c \in Calls, Record(c) PROVE P
  BY <1>11, <1>0 DEF Record, Keep, Ops
<1>12. ASSUME NEW c \in Calls, AcquireTreasury(c) PROVE P
  BY <1>12 DEF AcquireTreasury
<1>13. ASSUME NEW c \in Calls, Approve(c) PROVE P
  BY <1>13 DEF Approve
<1>14. ASSUME NEW c \in Calls, Approved(c) PROVE P
  BY <1>14 DEF Approved
<1>15. ASSUME NEW c \in Calls, Sign(c) PROVE P
  BY <1>15, SignEffect
<1>16. ASSUME NEW c \in Calls, Persist(c) PROVE P
  BY <1>16 DEF Persist
<1>17. ASSUME NEW c \in Calls, Broadcast(c) PROVE P
  BY <1>17 DEF Broadcast
<1>18. ASSUME NEW c \in Calls, Mark(c) PROVE P
  BY <1>18, <1>0 DEF Mark, Keep, Ops
<1>19. ASSUME NEW c \in Calls, Receipt(c) PROVE P
  BY <1>19 DEF Receipt
<1>20. ASSUME NEW c \in Calls, Confirm(c) PROVE P
  BY <1>20 DEF Confirm
<1>21. ASSUME NEW c \in Calls, Settle(c) PROVE P
  BY <1>21 DEF Settle
<1>22. ASSUME NEW c \in Calls, Revert(c) PROVE P
  BY <1>22 DEF Revert
<1>23. ASSUME NEW c \in Calls, GiveBack(c) PROVE P
  BY <1>23 DEF GiveBack
<1>24. ASSUME NEW c \in Calls, GiveBackRow(c) PROVE P
  BY <1>24 DEF GiveBackRow
<1>25. ASSUME NEW c \in Calls, MarkFailed(c) PROVE P
  BY <1>25 DEF MarkFailed
<1>26. ASSUME NEW c \in Calls, Unlock(c) PROVE P
  BY <1>26, <1>0 DEF Unlock, Leave, Keep
<1>27. ASSUME NEW c \in Calls, Raise(c) PROVE P
  BY <1>27, <1>0, RaiseEffect
<1>28. ASSUME NEW c \in Calls, Crash(c) PROVE P
  BY <1>28, <1>0 DEF Crash, Leave, Keep
<1>29. ASSUME NEW c \in Calls, Lapse(c) PROVE P
  BY <1>29 DEF Lapse
<1>30. ASSUME NEW c \in Calls, NoticeLapse(c) PROVE P
  BY <1>30 DEF NoticeLapse
<1>31. ASSUME Expire PROVE P
  BY <1>31 DEF Expire
<1>32. ASSUME Mine PROVE P
  BY <1>32 DEF Mine
<1>33. ASSUME UNCHANGED vars PROVE P
  BY <1>33 DEF vars
<1> QED
  BY <1>1, <1>2, <1>3, <1>4, <1>5, <1>6, <1>7, <1>8, <1>9, <1>10, <1>11, <1>12, <1>13, <1>14, <1>15, <1>16, <1>17, <1>18, <1>19, <1>20, <1>21, <1>22, <1>23, <1>24, <1>25, <1>26, <1>27, <1>28, <1>29, <1>30, <1>31, <1>32, <1>33 DEF Next, Progress, Step

\* A record that comes to name a call takes the name from the copy of a call
\* of its key that is past its signature or sends another's burn again.
LEMMA RecordNames ==
    ASSUME TypeOK, CopiesFit, [Next]_vars
    PROVE  \A k \in Keys :
               \/ rec'[k].by \in {rec[k].by, Nobody}
               \/ \E c \in Calls : /\ key[c] = k /\ rec'[k].by = op[c].by
                                   /\ \/ op[c].by = c /\ pc[c] \in {"persist", "mark", "confirm", "revert"} /\ pc'[c] # "persist"
                                      \/ pc[c] = "rewrite"
<1> DEFINE P == \A k \in Keys :
               \/ rec'[k].by \in {rec[k].by, Nobody}
               \/ \E c \in Calls : /\ key[c] = k /\ rec'[k].by = op[c].by
                                   /\ \/ op[c].by = c /\ pc[c] \in {"persist", "mark", "confirm", "revert"} /\ pc'[c] # "persist"
                                      \/ pc[c] = "rewrite"
<1> SUFFICES P
  OBVIOUS
<1>0. /\ op \in [Calls -> Ops] /\ key \in [Calls -> Keys] /\ rec \in [Keys -> Ops]
      /\ pc \in [Calls -> Labels]
  BY DEF TypeOK
<1>1. ASSUME NEW c \in Calls, Begin(c) PROVE P
  BY <1>1 DEF Begin, store
<1>2. ASSUME NEW c \in Calls, Resend(c) PROVE P
  BY <1>2 DEF Resend, store
<1>3. ASSUME NEW c \in Calls, Rewrite(c) PROVE P
  BY <1>3, <1>0 DEF Rewrite, At, Put, Ops
<1>4. ASSUME NEW c \in Calls, AcquireOp(c) PROVE P
  BY <1>4 DEF AcquireOp, store
<1>5. ASSUME NEW c \in Calls, Contend(c) PROVE P
  BY <1>5 DEF Contend, store
<1>6. ASSUME NEW c \in Calls, Recheck(c) PROVE P
  BY <1>6 DEF Recheck, store
<1>7. ASSUME NEW c \in Calls, ReleaseStale(c) PROVE P
  BY <1>7 DEF ReleaseStale
<1>8. ASSUME NEW c \in Calls, ReleaseStaleRow(c) PROVE P
  BY <1>8 DEF ReleaseStaleRow
<1>9. ASSUME NEW c \in Calls, Create(c) PROVE P
  <2>1. [NoOp EXCEPT !.status = "created"].by = Nobody
    BY DEF NoOp
  <2> QED
    BY <1>9, <1>0, <2>1 DEF Create, Put
<1>10. ASSUME NEW c \in Calls, Reserve(c) PROVE P
  BY <1>10 DEF Reserve
<1>11. ASSUME NEW c \in Calls, Record(c) PROVE P
  BY <1>11, <1>0 DEF Record, At, Put, Ops, CopiesFit, Reserved
<1>12. ASSUME NEW c \in Calls, AcquireTreasury(c) PROVE P
  BY <1>12 DEF AcquireTreasury, store
<1>13. ASSUME NEW c \in Calls, Approve(c) PROVE P
  BY <1>13 DEF Approve, store
<1>14. ASSUME NEW c \in Calls, Approved(c) PROVE P
  BY <1>14 DEF Approved, store
<1>15. ASSUME NEW c \in Calls, Sign(c) PROVE P
  BY <1>15 DEF Sign, store
<1>16. ASSUME NEW c \in Calls, Persist(c) PROVE P
  BY <1>16, <1>0 DEF Persist, At, Goto, Put, Ops, CopiesFit, Burning, Signed
<1>17. ASSUME NEW c \in Calls, Broadcast(c) PROVE P
  BY <1>17 DEF Broadcast, store
<1>18. ASSUME NEW c \in Calls, Mark(c) PROVE P
  BY <1>18, <1>0 DEF Mark, At, Goto, Put, Ops, CopiesFit, Burning, Signed
<1>19. ASSUME NEW c \in Calls, Receipt(c) PROVE P
  BY <1>19 DEF Receipt, store
<1>20. ASSUME NEW c \in Calls, Confirm(c) PROVE P
  BY <1>20, <1>0 DEF Confirm, At, Goto, Put, Ops, CopiesFit, Burning, Signed
<1>21. ASSUME NEW c \in Calls, Settle(c) PROVE P
  BY <1>21 DEF Settle
<1>22. ASSUME NEW c \in Calls, Revert(c) PROVE P
  BY <1>22, <1>0 DEF Revert, At, Goto, Put, Ops, CopiesFit, Burning, Signed
<1>23. ASSUME NEW c \in Calls, GiveBack(c) PROVE P
  BY <1>23 DEF GiveBack
<1>24. ASSUME NEW c \in Calls, GiveBackRow(c) PROVE P
  BY <1>24 DEF GiveBackRow
<1>25. ASSUME NEW c \in Calls, MarkFailed(c) PROVE P
  BY <1>25, <1>0 DEF MarkFailed, Put, Failed, NoOp
<1>26. ASSUME NEW c \in Calls, Unlock(c) PROVE P
  BY <1>26 DEF Unlock, store
<1>27. ASSUME NEW c \in Calls, Raise(c) PROVE P
  BY <1>27 DEF Raise, store
<1>28. ASSUME NEW c \in Calls, Crash(c) PROVE P
  BY <1>28 DEF Crash, store
<1>29. ASSUME NEW c \in Calls, Lapse(c) PROVE P
  BY <1>29 DEF Lapse, store
<1>30. ASSUME NEW c \in Calls, NoticeLapse(c) PROVE P
  BY <1>30 DEF NoticeLapse, store
<1>31. ASSUME Expire PROVE P
  BY <1>31 DEF Expire, store
<1>32. ASSUME Mine PROVE P
  BY <1>32 DEF Mine, store
<1>33. ASSUME UNCHANGED vars PROVE P
  BY <1>33 DEF vars
<1> QED
  BY <1>1, <1>2, <1>3, <1>4, <1>5, <1>6, <1>7, <1>8, <1>9, <1>10, <1>11, <1>12, <1>13, <1>14, <1>15, <1>16, <1>17, <1>18, <1>19, <1>20, <1>21, <1>22, <1>23, <1>24, <1>25, <1>26, <1>27, <1>28, <1>29, <1>30, <1>31, <1>32, <1>33 DEF Next, Progress, Step

\* A call past its signature stays past it until it is done, and keeps the
\* burn in its copy.
LEMMA BurnPlaces ==
    ASSUME TypeOK, CopiesFit, [Next]_vars, NEW x \in Calls,
           pc[x] \in (Burning \ {"persist"}) \cup {"unlock", "done"},
           pc[x] # "done" => op[x].by = x
    PROVE  /\ pc'[x] \in (Burning \ {"persist"}) \cup {"unlock", "done"}
           /\ pc'[x] # "done" => op'[x].by = x
<1> DEFINE P == /\ pc'[x] \in (Burning \ {"persist"}) \cup {"unlock", "done"}
                /\ pc'[x] # "done" => op'[x].by = x
<1> SUFFICES P
  OBVIOUS
<1>0. op \in [Calls -> Ops] /\ pc \in [Calls -> Labels]
  BY DEF TypeOK
<1> USE DEF Burning, Signed
<1>1. ASSUME NEW c \in Calls, Begin(c) PROVE P
  BY <1>1, <1>0 DEF Begin, At, Goto, Keep
<1>2. ASSUME NEW c \in Calls, Resend(c) PROVE P
  BY <1>2, <1>0 DEF Resend, At, Goto, Leave, Keep
<1>3. ASSUME NEW c \in Calls, Rewrite(c) PROVE P
  BY <1>3, <1>0 DEF Rewrite, At, Leave, Goto, Keep, Put
<1>4. ASSUME NEW c \in Calls, AcquireOp(c) PROVE P
  BY <1>4, <1>0 DEF AcquireOp, At, Goto
<1>5. ASSUME NEW c \in Calls, Contend(c) PROVE P
  BY <1>5, <1>0 DEF Contend, At, Goto
<1>6. ASSUME NEW c \in Calls, Recheck(c) PROVE P
  BY <1>6, <1>0 DEF Recheck, At, Goto, Keep
<1>7. ASSUME NEW c \in Calls, ReleaseStale(c) PROVE P
  BY <1>7, <1>0 DEF ReleaseStale, At, Goto
<1>8. ASSUME NEW c \in Calls, ReleaseStaleRow(c) PROVE P
  BY <1>8, <1>0 DEF ReleaseStaleRow, At, Goto
<1>9. ASSUME NEW c \in Calls, Create(c) PROVE P
  BY <1>9, <1>0 DEF Create, At, Goto, Keep, Put
<1>10. ASSUME NEW c \in Calls, Reserve(c) PROVE P
  BY <1>10, <1>0 DEF Reserve, At, Goto
<1>11. ASSUME NEW c \in Calls, Record(c) PROVE P
  BY <1>11, <1>0 DEF Record, At, Goto, Keep, Put
<1>12. ASSUME NEW c \in Calls, AcquireTreasury(c) PROVE P
  BY <1>12, <1>0 DEF AcquireTreasury, At, Goto
<1>13. ASSUME NEW c \in Calls, Approve(c) PROVE P
  BY <1>13, <1>0 DEF Approve, At, Goto
<1>14. ASSUME NEW c \in Calls, Approved(c) PROVE P
  BY <1>14, <1>0 DEF Approved, At, Goto
<1>15. ASSUME NEW c \in Calls, Sign(c) PROVE P
  BY <1>15, <1>0, SignEffect
<1>16. ASSUME NEW c \in Calls, Persist(c) PROVE P
  BY <1>16, <1>0 DEF Persist, At, Goto, Put
<1>17. ASSUME NEW c \in Calls, Broadcast(c) PROVE P
  BY <1>17, <1>0 DEF Broadcast, At, Goto
<1>18. ASSUME NEW c \in Calls, Mark(c) PROVE P
  BY <1>18, <1>0 DEF Mark, At, Goto, Keep, Put, CopiesFit, Ops
<1>19. ASSUME NEW c \in Calls, Receipt(c) PROVE P
  BY <1>19, <1>0 DEF Receipt, At, Goto
<1>20. ASSUME NEW c \in Calls, Confirm(c) PROVE P
  BY <1>20, <1>0 DEF Confirm, At, Goto, Put
<1>21. ASSUME NEW c \in Calls, Settle(c) PROVE P
  BY <1>21, <1>0 DEF Settle, At, Goto
<1>22. ASSUME NEW c \in Calls, Revert(c) PROVE P
  BY <1>22, <1>0 DEF Revert, At, Goto, Put
<1>23. ASSUME NEW c \in Calls, GiveBack(c) PROVE P
  BY <1>23, <1>0 DEF GiveBack, At, Goto
<1>24. ASSUME NEW c \in Calls, GiveBackRow(c) PROVE P
  BY <1>24, <1>0 DEF GiveBackRow, At, Goto
<1>25. ASSUME NEW c \in Calls, MarkFailed(c) PROVE P
  BY <1>25, <1>0 DEF MarkFailed, At, Goto, Put
<1>26. ASSUME NEW c \in Calls, Unlock(c) PROVE P
  BY <1>26, <1>0 DEF Unlock, At, Leave, Goto, Keep
<1>27. ASSUME NEW c \in Calls, Raise(c) PROVE P
  BY <1>27, <1>0, RaiseEffect DEF Outside, Reserved, Before
<1>28. ASSUME NEW c \in Calls, Crash(c) PROVE P
  BY <1>28, <1>0 DEF Crash, Leave, Goto, Keep
<1>29. ASSUME NEW c \in Calls, Lapse(c) PROVE P
  BY <1>29, <1>0 DEF Lapse
<1>30. ASSUME NEW c \in Calls, NoticeLapse(c) PROVE P
  BY <1>30, <1>0 DEF NoticeLapse
<1>31. ASSUME Expire PROVE P
  BY <1>31, <1>0 DEF Expire
<1>32. ASSUME Mine PROVE P
  BY <1>32, <1>0 DEF Mine
<1>33. ASSUME UNCHANGED vars PROVE P
  BY <1>33, <1>0 DEF vars
<1> QED
  BY <1>1, <1>2, <1>3, <1>4, <1>5, <1>6, <1>7, <1>8, <1>9, <1>10, <1>11, <1>12, <1>13, <1>14, <1>15, <1>16, <1>17, <1>18, <1>19, <1>20, <1>21, <1>22, <1>23, <1>24, <1>25, <1>26, <1>27, <1>28, <1>29, <1>30, <1>31, <1>32, <1>33 DEF Next, Progress, Step

\* A call about to persist its burn persists it, settles or leaves.
LEMMA PersistPlaces ==
    ASSUME TypeOK, CopiesFit, [Next]_vars, NEW x \in Calls, pc[x] = "persist"
    PROVE  /\ pc'[x] \in {"persist", "broadcast", "settle", "done"}
           /\ pc'[x] # "done" => op'[x].by = x
<1> DEFINE P == /\ pc'[x] \in {"persist", "broadcast", "settle", "done"}
                /\ pc'[x] # "done" => op'[x].by = x
<1> SUFFICES P
  OBVIOUS
<1>0. op \in [Calls -> Ops] /\ pc \in [Calls -> Labels] /\ op[x].by = x
  BY DEF TypeOK, CopiesFit, Burning, Signed
<1>1. ASSUME NEW c \in Calls, Begin(c) PROVE P
  BY <1>1, <1>0 DEF Begin, At, Goto, Keep
<1>2. ASSUME NEW c \in Calls, Resend(c) PROVE P
  BY <1>2, <1>0 DEF Resend, At, Goto, Leave, Keep
<1>3. ASSUME NEW c \in Calls, Rewrite(c) PROVE P
  BY <1>3, <1>0 DEF Rewrite, At, Leave, Goto, Keep, Put
<1>4. ASSUME NEW c \in Calls, AcquireOp(c) PROVE P
  BY <1>4, <1>0 DEF AcquireOp, At, Goto
<1>5. ASSUME NEW c \in Calls, Contend(c) PROVE P
  BY <1>5, <1>0 DEF Contend, At, Goto
<1>6. ASSUME NEW c \in Calls, Recheck(c) PROVE P
  BY <1>6, <1>0 DEF Recheck, At, Goto, Keep
<1>7. ASSUME NEW c \in Calls, ReleaseStale(c) PROVE P
  BY <1>7, <1>0 DEF ReleaseStale, At, Goto
<1>8. ASSUME NEW c \in Calls, ReleaseStaleRow(c) PROVE P
  BY <1>8, <1>0 DEF ReleaseStaleRow, At, Goto
<1>9. ASSUME NEW c \in Calls, Create(c) PROVE P
  BY <1>9, <1>0 DEF Create, At, Goto, Keep, Put
<1>10. ASSUME NEW c \in Calls, Reserve(c) PROVE P
  BY <1>10, <1>0 DEF Reserve, At, Goto
<1>11. ASSUME NEW c \in Calls, Record(c) PROVE P
  BY <1>11, <1>0 DEF Record, At, Goto, Keep, Put
<1>12. ASSUME NEW c \in Calls, AcquireTreasury(c) PROVE P
  BY <1>12, <1>0 DEF AcquireTreasury, At, Goto
<1>13. ASSUME NEW c \in Calls, Approve(c) PROVE P
  BY <1>13, <1>0 DEF Approve, At, Goto
<1>14. ASSUME NEW c \in Calls, Approved(c) PROVE P
  BY <1>14, <1>0 DEF Approved, At, Goto
<1>15. ASSUME NEW c \in Calls, Sign(c) PROVE P
  BY <1>15, <1>0, SignEffect
<1>16. ASSUME NEW c \in Calls, Persist(c) PROVE P
  BY <1>16, <1>0 DEF Persist, At, Goto, Put
<1>17. ASSUME NEW c \in Calls, Broadcast(c) PROVE P
  BY <1>17, <1>0 DEF Broadcast, At, Goto
<1>18. ASSUME NEW c \in Calls, Mark(c) PROVE P
  BY <1>18, <1>0 DEF Mark, At, Goto, Keep, Put
<1>19. ASSUME NEW c \in Calls, Receipt(c) PROVE P
  BY <1>19, <1>0 DEF Receipt, At, Goto
<1>20. ASSUME NEW c \in Calls, Confirm(c) PROVE P
  BY <1>20, <1>0 DEF Confirm, At, Goto, Put
<1>21. ASSUME NEW c \in Calls, Settle(c) PROVE P
  BY <1>21, <1>0 DEF Settle, At, Goto
<1>22. ASSUME NEW c \in Calls, Revert(c) PROVE P
  BY <1>22, <1>0 DEF Revert, At, Goto, Put
<1>23. ASSUME NEW c \in Calls, GiveBack(c) PROVE P
  BY <1>23, <1>0 DEF GiveBack, At, Goto
<1>24. ASSUME NEW c \in Calls, GiveBackRow(c) PROVE P
  BY <1>24, <1>0 DEF GiveBackRow, At, Goto
<1>25. ASSUME NEW c \in Calls, MarkFailed(c) PROVE P
  BY <1>25, <1>0 DEF MarkFailed, At, Goto, Put
<1>26. ASSUME NEW c \in Calls, Unlock(c) PROVE P
  BY <1>26, <1>0 DEF Unlock, At, Leave, Goto, Keep
<1>27. ASSUME NEW c \in Calls, Raise(c) PROVE P
  BY <1>27, <1>0, RaiseEffect DEF Outside, Reserved, Before
<1>28. ASSUME NEW c \in Calls, Crash(c) PROVE P
  BY <1>28, <1>0 DEF Crash, Leave, Goto, Keep
<1>29. ASSUME NEW c \in Calls, Lapse(c) PROVE P
  BY <1>29, <1>0 DEF Lapse
<1>30. ASSUME NEW c \in Calls, NoticeLapse(c) PROVE P
  BY <1>30, <1>0 DEF NoticeLapse
<1>31. ASSUME Expire PROVE P
  BY <1>31, <1>0 DEF Expire
<1>32. ASSUME Mine PROVE P
  BY <1>32, <1>0 DEF Mine
<1>33. ASSUME UNCHANGED vars PROVE P
  BY <1>33, <1>0 DEF vars
<1> QED
  BY <1>1, <1>2, <1>3, <1>4, <1>5, <1>6, <1>7, <1>8, <1>9, <1>10, <1>11, <1>12, <1>13, <1>14, <1>15, <1>16, <1>17, <1>18, <1>19, <1>20, <1>21, <1>22, <1>23, <1>24, <1>25, <1>26, <1>27, <1>28, <1>29, <1>30, <1>31, <1>32, <1>33 DEF Next, Progress, Step

\* Nobody changes the key or the nonce that a call carries.
LEMMA KeyStays == [Next]_vars => key' = key /\ claimNonce' = claimNonce
<1> SUFFICES ASSUME [Next]_vars PROVE key' = key /\ claimNonce' = claimNonce
  OBVIOUS
<1>1. ASSUME NEW c \in Calls, Begin(c) PROVE key' = key /\ claimNonce' = claimNonce
  BY <1>1 DEF Begin
<1>2. ASSUME NEW c \in Calls, Resend(c) PROVE key' = key /\ claimNonce' = claimNonce
  BY <1>2 DEF Resend, Leave
<1>3. ASSUME NEW c \in Calls, Rewrite(c) PROVE key' = key /\ claimNonce' = claimNonce
  BY <1>3 DEF Rewrite, Leave
<1>4. ASSUME NEW c \in Calls, AcquireOp(c) PROVE key' = key /\ claimNonce' = claimNonce
  BY <1>4 DEF AcquireOp
<1>5. ASSUME NEW c \in Calls, Contend(c) PROVE key' = key /\ claimNonce' = claimNonce
  BY <1>5 DEF Contend
<1>6. ASSUME NEW c \in Calls, Recheck(c) PROVE key' = key /\ claimNonce' = claimNonce
  BY <1>6 DEF Recheck
<1>7. ASSUME NEW c \in Calls, ReleaseStale(c) PROVE key' = key /\ claimNonce' = claimNonce
  BY <1>7 DEF ReleaseStale
<1>8. ASSUME NEW c \in Calls, ReleaseStaleRow(c) PROVE key' = key /\ claimNonce' = claimNonce
  BY <1>8 DEF ReleaseStaleRow
<1>9. ASSUME NEW c \in Calls, Create(c) PROVE key' = key /\ claimNonce' = claimNonce
  BY <1>9 DEF Create
<1>10. ASSUME NEW c \in Calls, Reserve(c) PROVE key' = key /\ claimNonce' = claimNonce
  BY <1>10 DEF Reserve
<1>11. ASSUME NEW c \in Calls, Record(c) PROVE key' = key /\ claimNonce' = claimNonce
  BY <1>11 DEF Record
<1>12. ASSUME NEW c \in Calls, AcquireTreasury(c) PROVE key' = key /\ claimNonce' = claimNonce
  BY <1>12 DEF AcquireTreasury
<1>13. ASSUME NEW c \in Calls, Approve(c) PROVE key' = key /\ claimNonce' = claimNonce
  BY <1>13 DEF Approve
<1>14. ASSUME NEW c \in Calls, Approved(c) PROVE key' = key /\ claimNonce' = claimNonce
  BY <1>14 DEF Approved
<1>15. ASSUME NEW c \in Calls, Sign(c) PROVE key' = key /\ claimNonce' = claimNonce
  BY <1>15 DEF Sign
<1>16. ASSUME NEW c \in Calls, Persist(c) PROVE key' = key /\ claimNonce' = claimNonce
  BY <1>16 DEF Persist
<1>17. ASSUME NEW c \in Calls, Broadcast(c) PROVE key' = key /\ claimNonce' = claimNonce
  BY <1>17 DEF Broadcast
<1>18. ASSUME NEW c \in Calls, Mark(c) PROVE key' = key /\ claimNonce' = claimNonce
  BY <1>18 DEF Mark
<1>19. ASSUME NEW c \in Calls, Receipt(c) PROVE key' = key /\ claimNonce' = claimNonce
  BY <1>19 DEF Receipt
<1>20. ASSUME NEW c \in Calls, Confirm(c) PROVE key' = key /\ claimNonce' = claimNonce
  BY <1>20 DEF Confirm
<1>21. ASSUME NEW c \in Calls, Settle(c) PROVE key' = key /\ claimNonce' = claimNonce
  BY <1>21 DEF Settle
<1>22. ASSUME NEW c \in Calls, Revert(c) PROVE key' = key /\ claimNonce' = claimNonce
  BY <1>22 DEF Revert
<1>23. ASSUME NEW c \in Calls, GiveBack(c) PROVE key' = key /\ claimNonce' = claimNonce
  BY <1>23 DEF GiveBack
<1>24. ASSUME NEW c \in Calls, GiveBackRow(c) PROVE key' = key /\ claimNonce' = claimNonce
  BY <1>24 DEF GiveBackRow
<1>25. ASSUME NEW c \in Calls, MarkFailed(c) PROVE key' = key /\ claimNonce' = claimNonce
  BY <1>25 DEF MarkFailed
<1>26. ASSUME NEW c \in Calls, Unlock(c) PROVE key' = key /\ claimNonce' = claimNonce
  BY <1>26 DEF Unlock, Leave
<1>27. ASSUME NEW c \in Calls, Raise(c) PROVE key' = key /\ claimNonce' = claimNonce
  BY <1>27 DEF Raise, Leave
<1>28. ASSUME NEW c \in Calls, Crash(c) PROVE key' = key /\ claimNonce' = claimNonce
  BY <1>28 DEF Crash, Leave
<1>29. ASSUME NEW c \in Calls, Lapse(c) PROVE key' = key /\ claimNonce' = claimNonce
  BY <1>29 DEF Lapse
<1>30. ASSUME NEW c \in Calls, NoticeLapse(c) PROVE key' = key /\ claimNonce' = claimNonce
  BY <1>30 DEF NoticeLapse
<1>31. ASSUME Expire PROVE key' = key /\ claimNonce' = claimNonce
  BY <1>31 DEF Expire
<1>32. ASSUME Mine PROVE key' = key /\ claimNonce' = claimNonce
  BY <1>32 DEF Mine
<1>33. ASSUME UNCHANGED vars PROVE key' = key /\ claimNonce' = claimNonce
  BY <1>33 DEF vars
<1> QED
  BY <1>1, <1>2, <1>3, <1>4, <1>5, <1>6, <1>7, <1>8, <1>9, <1>10, <1>11, <1>12, <1>13, <1>14, <1>15, <1>16, <1>17, <1>18, <1>19, <1>20, <1>21, <1>22, <1>23, <1>24, <1>25, <1>26, <1>27, <1>28, <1>29, <1>30, <1>31, <1>32, <1>33 DEF Next, Progress, Step

\* The burn of a call becomes known to others only by the call itself, as it
\* persists it or after.
LEMMA NewName ==
    ASSUME TypeOK, CopiesFit, KeysFit, NamesFit, [Next]_vars, NEW x \in Calls, Named(x)'
    PROVE  \/ Named(x)
           \/ /\ pc[x] \in {"persist", "broadcast", "mark", "confirm", "revert"}
              /\ op[x].by = x /\ pc'[x] # "persist"
              /\ pc[x] = "broadcast" \/ rec'[key[x]].by = x
<1>0. key' = key /\ key[x] \in Keys /\ Nobody # x
  BY KeyStays, NobodyCalls DEF TypeOK
<1>1. ASSUME NEW d \in Calls, d # x, op'[d].by = x PROVE Named(x)
  <2>1. op[d].by = x \/ rec[key[d]].by = x
    BY <1>0, <1>1, CopyNames
  <2>2. rec[key[d]].by = x => key[x] = key[d]
    BY <1>0, <1>1 DEF KeysFit, TypeOK
  <2> QED
    BY <1>1, <2>1, <2>2 DEF Named
<1>2. ASSUME rec'[key[x]].by = x
      PROVE  \/ Named(x)
             \/ /\ pc[x] \in {"persist", "broadcast", "mark", "confirm", "revert"}
                /\ op[x].by = x /\ pc'[x] # "persist"
                /\ pc[x] = "broadcast" \/ rec'[key[x]].by = x
  <2>1. CASE rec[key[x]].by = x
    BY <2>1 DEF Named
  <2>2. ASSUME NEW c \in Calls, op[c].by = x,
               \/ op[c].by = c /\ pc[c] \in {"persist", "mark", "confirm", "revert"} /\ pc'[c] # "persist"
               \/ pc[c] = "rewrite"
        PROVE  \/ Named(x)
               \/ /\ pc[x] \in {"persist", "broadcast", "mark", "confirm", "revert"}
                  /\ op[x].by = x /\ pc'[x] # "persist"
                  /\ pc[x] = "broadcast" \/ rec'[key[x]].by = x
    <3>1. CASE c # x
      BY <2>2, <3>1 DEF Named
    <3>2. CASE c = x
      BY <1>2, <2>2, <3>2 DEF NamesFit, Burning, Signed
    <3> QED
      BY <3>1, <3>2
  <2> QED
    BY <1>0, <1>2, <2>1, <2>2, RecordNames
<1>3. ASSUME Sent(Tx("burn", x))', ~Sent(Tx("burn", x))
      PROVE  \/ Named(x)
             \/ pc[x] = "broadcast" /\ op[x].by = x /\ pc'[x] # "persist"
  <2>1. CASE pc[x] = "broadcast" /\ pc'[x] = "mark"
    BY <2>1 DEF CopiesFit, Burning, Signed
  <2>2. ASSUME NEW d \in Calls, pc[d] = "resend", op[d].by = x PROVE Named(x)
    <3>1. d # x
      BY <2>2 DEF NamesFit, Burning, Signed
    <3> QED
      BY <2>2, <3>1 DEF Named
  <2> QED
    BY <1>3, <2>1, <2>2, SentStep
<1>4. \/ \E d \in Calls : d # x /\ op'[d].by = x
      \/ rec'[key[x]].by = x
      \/ Sent(Tx("burn", x))'
  BY <1>0 DEF Named, Sent, Tx
<1> QED
  BY <1>1, <1>2, <1>3, <1>4 DEF Named

\* A burn is known only once its call has persisted it, after every operation.
LEMMA NamesStep ==
    TypeOK /\ CopiesFit /\ CopiesFit' /\ KeysFit /\ NamesFit /\ [Next]_vars => NamesFit'
<1> SUFFICES ASSUME TypeOK, CopiesFit, CopiesFit', KeysFit, NamesFit, [Next]_vars,
                    NEW x \in Calls
             PROVE  /\ op'[x].by = x => pc'[x] \in Burning \cup {"unlock"}
                    /\ Named(x)' => /\ pc'[x] \in (Burning \ {"persist"}) \cup {"unlock", "done"}
                                    /\ pc'[x] # "done" => op'[x].by = x
  BY DEF NamesFit
<1>0. Nobody # x /\ NoOp.by = Nobody
  BY NobodyCalls DEF NoOp
<1>1. ASSUME op'[x].by = x PROVE pc'[x] \in Burning \cup {"unlock"}
  <2>1. pc'[x] # "done"
    BY <1>0, <1>1 DEF CopiesFit
  <2>2. CASE op[x].by = x
    <3>1. pc[x] \in Burning \cup {"unlock"}
      BY <2>2 DEF NamesFit
    <3>2. CASE pc[x] = "persist"
      BY <2>1, <3>2, PersistPlaces DEF Burning, Signed
    <3>3. CASE pc[x] # "persist"
      BY <2>1, <2>2, <3>1, <3>3, BurnPlaces
    <3> QED
      BY <3>2, <3>3
  <2>3. CASE rec[key[x]].by = x /\ pc[x] \in {"idle", "recheck"}
    BY <2>3 DEF NamesFit, Named, Burning, Signed
  <2>4. CASE pc[x] = "sign" /\ pc'[x] = "persist"
    BY <2>4 DEF Burning, Signed
  <2> QED
    BY <1>0, <1>1, <2>2, <2>3, <2>4, CopyNames
<1>2. ASSUME Named(x)'
      PROVE  /\ pc'[x] \in (Burning \ {"persist"}) \cup {"unlock", "done"}
             /\ pc'[x] # "done" => op'[x].by = x
  <2>1. CASE Named(x)
    BY <2>1, BurnPlaces DEF NamesFit
  <2>2. CASE pc[x] = "persist" /\ pc'[x] # "persist"
    BY <2>2, PersistPlaces DEF Burning, Signed
  <2>3. CASE pc[x] \in {"broadcast", "mark", "confirm", "revert"} /\ op[x].by = x
    BY <2>3, BurnPlaces DEF Burning, Signed
  <2> QED
    BY <1>2, <2>1, <2>2, <2>3, NewName
<1> QED
  BY <1>1, <1>2

\* A record without a burn that names a reservation was so before, or is
\* written by the call that made the reservation.
LEMMA RecordReservations ==
    ASSUME TypeOK, CopiesFit, [Next]_vars
    PROVE  \A k \in Keys :
               \/ rec'[k].by # Nobody \/ rec'[k].res = Nobody \/ rec'[k] = rec[k]
               \/ \E c \in Calls : /\ key[c] = k /\ rec'[k].res = c
                                   /\ pc[c] = "record" /\ pc'[c] = "treasury"
<1> DEFINE P == \A k \in Keys :
               \/ rec'[k].by # Nobody \/ rec'[k].res = Nobody \/ rec'[k] = rec[k]
               \/ \E c \in Calls : /\ key[c] = k /\ rec'[k].res = c
                                   /\ pc[c] = "record" /\ pc'[c] = "treasury"
<1> SUFFICES P
  OBVIOUS
<1>0. /\ op \in [Calls -> Ops] /\ key \in [Calls -> Keys] /\ rec \in [Keys -> Ops]
      /\ pc \in [Calls -> Labels]
  BY DEF TypeOK
<1>1. ASSUME NEW c \in Calls, Begin(c) PROVE P
  BY <1>1 DEF Begin, store
<1>2. ASSUME NEW c \in Calls, Resend(c) PROVE P
  BY <1>2 DEF Resend, store
<1>3. ASSUME NEW c \in Calls, Rewrite(c) PROVE P
  BY <1>3, <1>0 DEF Rewrite, At, Put, Ops, CopiesFit, Outside
<1>4. ASSUME NEW c \in Calls, AcquireOp(c) PROVE P
  BY <1>4 DEF AcquireOp, store
<1>5. ASSUME NEW c \in Calls, Contend(c) PROVE P
  BY <1>5 DEF Contend, store
<1>6. ASSUME NEW c \in Calls, Recheck(c) PROVE P
  BY <1>6 DEF Recheck, store
<1>7. ASSUME NEW c \in Calls, ReleaseStale(c) PROVE P
  BY <1>7 DEF ReleaseStale
<1>8. ASSUME NEW c \in Calls, ReleaseStaleRow(c) PROVE P
  BY <1>8 DEF ReleaseStaleRow
<1>9. ASSUME NEW c \in Calls, Create(c) PROVE P
  <2>1. [NoOp EXCEPT !.status = "created"].res = Nobody
    BY DEF NoOp
  <2> QED
    BY <1>9, <1>0, <2>1 DEF Create, Put
<1>10. ASSUME NEW c \in Calls, Reserve(c) PROVE P
  BY <1>10 DEF Reserve
<1>11. ASSUME NEW c \in Calls, Record(c) PROVE P
  BY <1>11, <1>0 DEF Record, At, Goto, Put, Ops, CopiesFit, Reserved
<1>12. ASSUME NEW c \in Calls, AcquireTreasury(c) PROVE P
  BY <1>12 DEF AcquireTreasury, store
<1>13. ASSUME NEW c \in Calls, Approve(c) PROVE P
  BY <1>13 DEF Approve, store
<1>14. ASSUME NEW c \in Calls, Approved(c) PROVE P
  BY <1>14 DEF Approved, store
<1>15. ASSUME NEW c \in Calls, Sign(c) PROVE P
  BY <1>15 DEF Sign, store
<1>16. ASSUME NEW c \in Calls, Persist(c) PROVE P
  BY <1>16, <1>0, NobodyCalls DEF Persist, At, Put, Ops, CopiesFit, Burning, Signed
<1>17. ASSUME NEW c \in Calls, Broadcast(c) PROVE P
  BY <1>17 DEF Broadcast, store
<1>18. ASSUME NEW c \in Calls, Mark(c) PROVE P
  BY <1>18, <1>0, NobodyCalls DEF Mark, At, Put, Ops, CopiesFit, Burning, Signed
<1>19. ASSUME NEW c \in Calls, Receipt(c) PROVE P
  BY <1>19 DEF Receipt, store
<1>20. ASSUME NEW c \in Calls, Confirm(c) PROVE P
  BY <1>20, <1>0, NobodyCalls DEF Confirm, At, Put, Ops, CopiesFit, Burning, Signed
<1>21. ASSUME NEW c \in Calls, Settle(c) PROVE P
  BY <1>21 DEF Settle
<1>22. ASSUME NEW c \in Calls, Revert(c) PROVE P
  BY <1>22, <1>0, NobodyCalls DEF Revert, At, Put, Ops, CopiesFit, Burning, Signed
<1>23. ASSUME NEW c \in Calls, GiveBack(c) PROVE P
  BY <1>23 DEF GiveBack
<1>24. ASSUME NEW c \in Calls, GiveBackRow(c) PROVE P
  BY <1>24 DEF GiveBackRow
<1>25. ASSUME NEW c \in Calls, MarkFailed(c) PROVE P
  BY <1>25, <1>0 DEF MarkFailed, Put, Failed, NoOp
<1>26. ASSUME NEW c \in Calls, Unlock(c) PROVE P
  BY <1>26 DEF Unlock, store
<1>27. ASSUME NEW c \in Calls, Raise(c) PROVE P
  BY <1>27 DEF Raise, store
<1>28. ASSUME NEW c \in Calls, Crash(c) PROVE P
  BY <1>28 DEF Crash, store
<1>29. ASSUME NEW c \in Calls, Lapse(c) PROVE P
  BY <1>29 DEF Lapse, store
<1>30. ASSUME NEW c \in Calls, NoticeLapse(c) PROVE P
  BY <1>30 DEF NoticeLapse, store
<1>31. ASSUME Expire PROVE P
  BY <1>31 DEF Expire, store
<1>32. ASSUME Mine PROVE P
  BY <1>32 DEF Mine, store
<1>33. ASSUME UNCHANGED vars PROVE P
  BY <1>33 DEF vars
<1> QED
  BY <1>1, <1>2, <1>3, <1>4, <1>5, <1>6, <1>7, <1>8, <1>9, <1>10, <1>11, <1>12, <1>13, <1>14, <1>15, <1>16, <1>17, <1>18, <1>19, <1>20, <1>21, <1>22, <1>23, <1>24, <1>25, <1>26, <1>27, <1>28, <1>29, <1>30, <1>31, <1>32, <1>33 DEF Next, Progress, Step

\* A call comes to its broadcast from its record.
LEMMA BroadcastPlaces ==
    ASSUME TypeOK, CopiesFit, [Next]_vars, NEW x \in Calls
    PROVE  pc'[x] = "broadcast" => pc[x] = "broadcast" \/ (pc[x] = "persist" /\ rec'[key[x]].by = x)
<1> DEFINE P ==
           pc'[x] = "broadcast" => pc[x] = "broadcast" \/ (pc[x] = "persist" /\ rec'[key[x]].by = x)
<1> SUFFICES P
  OBVIOUS
<1>0. op \in [Calls -> Ops] /\ pc \in [Calls -> Labels] /\ rows \in [Calls -> {"none", "held", "released", "finalized"}]
      /\ key \in [Calls -> Keys] /\ rec \in [Keys -> Ops]
  BY DEF TypeOK
<1>1. ASSUME NEW c \in Calls, Begin(c) PROVE P
  BY <1>1, <1>0 DEF Begin, At, Goto, Keep
<1>2. ASSUME NEW c \in Calls, Resend(c) PROVE P
  BY <1>2, <1>0 DEF Resend, At, Goto, Leave, Keep
<1>3. ASSUME NEW c \in Calls, Rewrite(c) PROVE P
  BY <1>3, <1>0 DEF Rewrite, At, Leave, Goto, Keep, Put
<1>4. ASSUME NEW c \in Calls, AcquireOp(c) PROVE P
  BY <1>4, <1>0 DEF AcquireOp, At, Goto
<1>5. ASSUME NEW c \in Calls, Contend(c) PROVE P
  BY <1>5, <1>0 DEF Contend, At, Goto
<1>6. ASSUME NEW c \in Calls, Recheck(c) PROVE P
  BY <1>6, <1>0 DEF Recheck, At, Goto, Keep
<1>7. ASSUME NEW c \in Calls, ReleaseStale(c) PROVE P
  BY <1>7, <1>0 DEF ReleaseStale, At, Goto
<1>8. ASSUME NEW c \in Calls, ReleaseStaleRow(c) PROVE P
  BY <1>8, <1>0 DEF ReleaseStaleRow, At, Goto
<1>9. ASSUME NEW c \in Calls, Create(c) PROVE P
  BY <1>9, <1>0 DEF Create, At, Goto, Keep, Put
<1>10. ASSUME NEW c \in Calls, Reserve(c) PROVE P
  BY <1>10, <1>0 DEF Reserve, At, Goto
<1>11. ASSUME NEW c \in Calls, Record(c) PROVE P
  BY <1>11, <1>0 DEF Record, At, Goto, Keep, Put
<1>12. ASSUME NEW c \in Calls, AcquireTreasury(c) PROVE P
  BY <1>12, <1>0 DEF AcquireTreasury, At, Goto
<1>13. ASSUME NEW c \in Calls, Approve(c) PROVE P
  BY <1>13, <1>0 DEF Approve, At, Goto
<1>14. ASSUME NEW c \in Calls, Approved(c) PROVE P
  BY <1>14, <1>0 DEF Approved, At, Goto
<1>15. ASSUME NEW c \in Calls, Sign(c) PROVE P
  BY <1>15, <1>0, SignEffect
<1>16. ASSUME NEW c \in Calls, Persist(c) PROVE P
  BY <1>16, <1>0 DEF Persist, At, Goto, Put, CopiesFit, Burning, Signed
<1>17. ASSUME NEW c \in Calls, Broadcast(c) PROVE P
  BY <1>17, <1>0 DEF Broadcast, At, Goto
<1>18. ASSUME NEW c \in Calls, Mark(c) PROVE P
  BY <1>18, <1>0 DEF Mark, At, Goto, Keep, Put
<1>19. ASSUME NEW c \in Calls, Receipt(c) PROVE P
  BY <1>19, <1>0 DEF Receipt, At, Goto
<1>20. ASSUME NEW c \in Calls, Confirm(c) PROVE P
  BY <1>20, <1>0 DEF Confirm, At, Goto, Put
<1>21. ASSUME NEW c \in Calls, Settle(c) PROVE P
  BY <1>21, <1>0 DEF Settle, At, Goto
<1>22. ASSUME NEW c \in Calls, Revert(c) PROVE P
  BY <1>22, <1>0 DEF Revert, At, Goto, Put
<1>23. ASSUME NEW c \in Calls, GiveBack(c) PROVE P
  BY <1>23, <1>0 DEF GiveBack, At, Goto
<1>24. ASSUME NEW c \in Calls, GiveBackRow(c) PROVE P
  BY <1>24, <1>0 DEF GiveBackRow, At, Goto
<1>25. ASSUME NEW c \in Calls, MarkFailed(c) PROVE P
  BY <1>25, <1>0 DEF MarkFailed, At, Goto, Put
<1>26. ASSUME NEW c \in Calls, Unlock(c) PROVE P
  BY <1>26, <1>0 DEF Unlock, At, Leave, Goto, Keep
<1>27. ASSUME NEW c \in Calls, Raise(c) PROVE P
  BY <1>27, <1>0, RaiseEffect DEF Outside, Reserved, Before
<1>28. ASSUME NEW c \in Calls, Crash(c) PROVE P
  BY <1>28, <1>0 DEF Crash, Leave, Goto, Keep
<1>29. ASSUME NEW c \in Calls, Lapse(c) PROVE P
  BY <1>29, <1>0 DEF Lapse
<1>30. ASSUME NEW c \in Calls, NoticeLapse(c) PROVE P
  BY <1>30, <1>0 DEF NoticeLapse
<1>31. ASSUME Expire PROVE P
  BY <1>31, <1>0 DEF Expire
<1>32. ASSUME Mine PROVE P
  BY <1>32, <1>0 DEF Mine
<1>33. ASSUME UNCHANGED vars PROVE P
  BY <1>33, <1>0 DEF vars
<1> QED
  BY <1>1, <1>2, <1>3, <1>4, <1>5, <1>6, <1>7, <1>8, <1>9, <1>10, <1>11, <1>12, <1>13, <1>14, <1>15, <1>16, <1>17, <1>18, <1>19, <1>20, <1>21, <1>22, <1>23, <1>24, <1>25, <1>26, <1>27, <1>28, <1>29, <1>30, <1>31, <1>32, <1>33 DEF Next, Progress, Step

\* A call takes its burn for reverted only if it is.
LEMMA RevertPlaces ==
    ASSUME TypeOK, [Next]_vars, NEW x \in Calls
    PROVE  pc'[x] \in {"revert", "revertBack", "revertRow"} => pc[x] \in {"revert", "revertBack", "revertRow"} \/ x \in reverted
<1> DEFINE P ==
           pc'[x] \in {"revert", "revertBack", "revertRow"} => pc[x] \in {"revert", "revertBack", "revertRow"} \/ x \in reverted
<1> SUFFICES P
  OBVIOUS
<1>0. op \in [Calls -> Ops] /\ pc \in [Calls -> Labels] /\ rows \in [Calls -> {"none", "held", "released", "finalized"}]
      /\ key \in [Calls -> Keys] /\ rec \in [Keys -> Ops]
  BY DEF TypeOK
<1>1. ASSUME NEW c \in Calls, Begin(c) PROVE P
  BY <1>1, <1>0 DEF Begin, At, Goto, Keep
<1>2. ASSUME NEW c \in Calls, Resend(c) PROVE P
  BY <1>2, <1>0 DEF Resend, At, Goto, Leave, Keep
<1>3. ASSUME NEW c \in Calls, Rewrite(c) PROVE P
  BY <1>3, <1>0 DEF Rewrite, At, Leave, Goto, Keep, Put
<1>4. ASSUME NEW c \in Calls, AcquireOp(c) PROVE P
  BY <1>4, <1>0 DEF AcquireOp, At, Goto
<1>5. ASSUME NEW c \in Calls, Contend(c) PROVE P
  BY <1>5, <1>0 DEF Contend, At, Goto
<1>6. ASSUME NEW c \in Calls, Recheck(c) PROVE P
  BY <1>6, <1>0 DEF Recheck, At, Goto, Keep
<1>7. ASSUME NEW c \in Calls, ReleaseStale(c) PROVE P
  BY <1>7, <1>0 DEF ReleaseStale, At, Goto
<1>8. ASSUME NEW c \in Calls, ReleaseStaleRow(c) PROVE P
  BY <1>8, <1>0 DEF ReleaseStaleRow, At, Goto
<1>9. ASSUME NEW c \in Calls, Create(c) PROVE P
  BY <1>9, <1>0 DEF Create, At, Goto, Keep, Put
<1>10. ASSUME NEW c \in Calls, Reserve(c) PROVE P
  BY <1>10, <1>0 DEF Reserve, At, Goto
<1>11. ASSUME NEW c \in Calls, Record(c) PROVE P
  BY <1>11, <1>0 DEF Record, At, Goto, Keep, Put
<1>12. ASSUME NEW c \in Calls, AcquireTreasury(c) PROVE P
  BY <1>12, <1>0 DEF AcquireTreasury, At, Goto
<1>13. ASSUME NEW c \in Calls, Approve(c) PROVE P
  BY <1>13, <1>0 DEF Approve, At, Goto
<1>14. ASSUME NEW c \in Calls, Approved(c) PROVE P
  BY <1>14, <1>0 DEF Approved, At, Goto
<1>15. ASSUME NEW c \in Calls, Sign(c) PROVE P
  BY <1>15, <1>0, SignEffect
<1>16. ASSUME NEW c \in Calls, Persist(c) PROVE P
  BY <1>16, <1>0 DEF Persist, At, Goto, Put
<1>17. ASSUME NEW c \in Calls, Broadcast(c) PROVE P
  BY <1>17, <1>0 DEF Broadcast, At, Goto
<1>18. ASSUME NEW c \in Calls, Mark(c) PROVE P
  BY <1>18, <1>0 DEF Mark, At, Goto, Keep, Put
<1>19. ASSUME NEW c \in Calls, Receipt(c) PROVE P
  BY <1>19, <1>0 DEF Receipt, At, Goto
<1>20. ASSUME NEW c \in Calls, Confirm(c) PROVE P
  BY <1>20, <1>0 DEF Confirm, At, Goto, Put
<1>21. ASSUME NEW c \in Calls, Settle(c) PROVE P
  BY <1>21, <1>0 DEF Settle, At, Goto
<1>22. ASSUME NEW c \in Calls, Revert(c) PROVE P
  BY <1>22, <1>0 DEF Revert, At, Goto, Put
<1>23. ASSUME NEW c \in Calls, GiveBack(c) PROVE P
  BY <1>23, <1>0 DEF GiveBack, At, Goto
<1>24. ASSUME NEW c \in Calls, GiveBackRow(c) PROVE P
  BY <1>24, <1>0 DEF GiveBackRow, At, Goto
<1>25. ASSUME NEW c \in Calls, MarkFailed(c) PROVE P
  BY <1>25, <1>0 DEF MarkFailed, At, Goto, Put
<1>26. ASSUME NEW c \in Calls, Unlock(c) PROVE P
  BY <1>26, <1>0 DEF Unlock, At, Leave, Goto, Keep
<1>27. ASSUME NEW c \in Calls, Raise(c) PROVE P
  BY <1>27, <1>0, RaiseEffect DEF Outside, Reserved, Before
<1>28. ASSUME NEW c \in Calls, Crash(c) PROVE P
  BY <1>28, <1>0 DEF Crash, Leave, Goto, Keep
<1>29. ASSUME NEW c \in Calls, Lapse(c) PROVE P
  BY <1>29, <1>0 DEF Lapse
<1>30. ASSUME NEW c \in Calls, NoticeLapse(c) PROVE P
  BY <1>30, <1>0 DEF NoticeLapse
<1>31. ASSUME Expire PROVE P
  BY <1>31, <1>0 DEF Expire
<1>32. ASSUME Mine PROVE P
  BY <1>32, <1>0 DEF Mine
<1>33. ASSUME UNCHANGED vars PROVE P
  BY <1>33, <1>0 DEF vars
<1> QED
  BY <1>1, <1>2, <1>3, <1>4, <1>5, <1>6, <1>7, <1>8, <1>9, <1>10, <1>11, <1>12, <1>13, <1>14, <1>15, <1>16, <1>17, <1>18, <1>19, <1>20, <1>21, <1>22, <1>23, <1>24, <1>25, <1>26, <1>27, <1>28, <1>29, <1>30, <1>31, <1>32, <1>33 DEF Next, Progress, Step

\* A call that comes to hold a reservation has a row.
LEMMA RowPlaces ==
    ASSUME TypeOK, [Next]_vars, NEW x \in Calls
    PROVE  pc'[x] \in Reserved \cup Signed \cup Releasing =>
               pc[x] \in Reserved \cup Signed \cup Releasing \/ rows'[x] # "none"
<1> DEFINE P ==
           pc'[x] \in Reserved \cup Signed \cup Releasing =>
               pc[x] \in Reserved \cup Signed \cup Releasing \/ rows'[x] # "none"
<1> SUFFICES P
  OBVIOUS
<1>0. op \in [Calls -> Ops] /\ pc \in [Calls -> Labels] /\ rows \in [Calls -> {"none", "held", "released", "finalized"}]
      /\ key \in [Calls -> Keys] /\ rec \in [Keys -> Ops]
  BY DEF TypeOK
<1> USE DEF Reserved, Signed, Releasing
<1>1. ASSUME NEW c \in Calls, Begin(c) PROVE P
  BY <1>1, <1>0 DEF Begin, At, Goto, Keep
<1>2. ASSUME NEW c \in Calls, Resend(c) PROVE P
  BY <1>2, <1>0 DEF Resend, At, Goto, Leave, Keep
<1>3. ASSUME NEW c \in Calls, Rewrite(c) PROVE P
  BY <1>3, <1>0 DEF Rewrite, At, Leave, Goto, Keep, Put
<1>4. ASSUME NEW c \in Calls, AcquireOp(c) PROVE P
  BY <1>4, <1>0 DEF AcquireOp, At, Goto
<1>5. ASSUME NEW c \in Calls, Contend(c) PROVE P
  BY <1>5, <1>0 DEF Contend, At, Goto
<1>6. ASSUME NEW c \in Calls, Recheck(c) PROVE P
  BY <1>6, <1>0 DEF Recheck, At, Goto, Keep
<1>7. ASSUME NEW c \in Calls, ReleaseStale(c) PROVE P
  BY <1>7, <1>0 DEF ReleaseStale, At, Goto
<1>8. ASSUME NEW c \in Calls, ReleaseStaleRow(c) PROVE P
  BY <1>8, <1>0 DEF ReleaseStaleRow, At, Goto
<1>9. ASSUME NEW c \in Calls, Create(c) PROVE P
  BY <1>9, <1>0 DEF Create, At, Goto, Keep, Put
<1>10. ASSUME NEW c \in Calls, Reserve(c) PROVE P
  BY <1>10, <1>0 DEF Reserve, At, Goto
<1>11. ASSUME NEW c \in Calls, Record(c) PROVE P
  BY <1>11, <1>0 DEF Record, At, Goto, Keep, Put
<1>12. ASSUME NEW c \in Calls, AcquireTreasury(c) PROVE P
  BY <1>12, <1>0 DEF AcquireTreasury, At, Goto
<1>13. ASSUME NEW c \in Calls, Approve(c) PROVE P
  BY <1>13, <1>0 DEF Approve, At, Goto
<1>14. ASSUME NEW c \in Calls, Approved(c) PROVE P
  BY <1>14, <1>0 DEF Approved, At, Goto
<1>15. ASSUME NEW c \in Calls, Sign(c) PROVE P
  BY <1>15, <1>0, SignEffect
<1>16. ASSUME NEW c \in Calls, Persist(c) PROVE P
  BY <1>16, <1>0 DEF Persist, At, Goto, Put
<1>17. ASSUME NEW c \in Calls, Broadcast(c) PROVE P
  BY <1>17, <1>0 DEF Broadcast, At, Goto
<1>18. ASSUME NEW c \in Calls, Mark(c) PROVE P
  BY <1>18, <1>0 DEF Mark, At, Goto, Keep, Put
<1>19. ASSUME NEW c \in Calls, Receipt(c) PROVE P
  BY <1>19, <1>0 DEF Receipt, At, Goto
<1>20. ASSUME NEW c \in Calls, Confirm(c) PROVE P
  BY <1>20, <1>0 DEF Confirm, At, Goto, Put
<1>21. ASSUME NEW c \in Calls, Settle(c) PROVE P
  BY <1>21, <1>0 DEF Settle, At, Goto
<1>22. ASSUME NEW c \in Calls, Revert(c) PROVE P
  BY <1>22, <1>0 DEF Revert, At, Goto, Put
<1>23. ASSUME NEW c \in Calls, GiveBack(c) PROVE P
  BY <1>23, <1>0 DEF GiveBack, At, Goto
<1>24. ASSUME NEW c \in Calls, GiveBackRow(c) PROVE P
  BY <1>24, <1>0 DEF GiveBackRow, At, Goto
<1>25. ASSUME NEW c \in Calls, MarkFailed(c) PROVE P
  BY <1>25, <1>0 DEF MarkFailed, At, Goto, Put
<1>26. ASSUME NEW c \in Calls, Unlock(c) PROVE P
  BY <1>26, <1>0 DEF Unlock, At, Leave, Goto, Keep
<1>27. ASSUME NEW c \in Calls, Raise(c) PROVE P
  BY <1>27, <1>0, RaiseEffect DEF Outside, Reserved, Before
<1>28. ASSUME NEW c \in Calls, Crash(c) PROVE P
  BY <1>28, <1>0 DEF Crash, Leave, Goto, Keep
<1>29. ASSUME NEW c \in Calls, Lapse(c) PROVE P
  BY <1>29, <1>0 DEF Lapse
<1>30. ASSUME NEW c \in Calls, NoticeLapse(c) PROVE P
  BY <1>30, <1>0 DEF NoticeLapse
<1>31. ASSUME Expire PROVE P
  BY <1>31, <1>0 DEF Expire
<1>32. ASSUME Mine PROVE P
  BY <1>32, <1>0 DEF Mine
<1>33. ASSUME UNCHANGED vars PROVE P
  BY <1>33, <1>0 DEF vars
<1> QED
  BY <1>1, <1>2, <1>3, <1>4, <1>5, <1>6, <1>7, <1>8, <1>9, <1>10, <1>11, <1>12, <1>13, <1>14, <1>15, <1>16, <1>17, <1>18, <1>19, <1>20, <1>21, <1>22, <1>23, <1>24, <1>25, <1>26, <1>27, <1>28, <1>29, <1>30, <1>31, <1>32, <1>33 DEF Next, Progress, Step

\* A row, once written, is not taken away.
LEMMA RowsStay ==
    ASSUME TypeOK, [Next]_vars, NEW x \in Calls
    PROVE  rows'[x] = "none" => rows[x] = "none"
<1> DEFINE P ==
           rows'[x] = "none" => rows[x] = "none"
<1> SUFFICES P
  OBVIOUS
<1>0. op \in [Calls -> Ops] /\ pc \in [Calls -> Labels] /\ rows \in [Calls -> {"none", "held", "released", "finalized"}]
      /\ key \in [Calls -> Keys] /\ rec \in [Keys -> Ops]
  BY DEF TypeOK
<1>1. ASSUME NEW c \in Calls, Begin(c) PROVE P
  BY <1>1, <1>0 DEF Begin, At, Goto, Keep, store
<1>2. ASSUME NEW c \in Calls, Resend(c) PROVE P
  BY <1>2, <1>0 DEF Resend, At, Goto, Leave, Keep, store
<1>3. ASSUME NEW c \in Calls, Rewrite(c) PROVE P
  BY <1>3, <1>0 DEF Rewrite, At, Leave, Goto, Keep, Put
<1>4. ASSUME NEW c \in Calls, AcquireOp(c) PROVE P
  BY <1>4, <1>0 DEF AcquireOp, At, Goto, store
<1>5. ASSUME NEW c \in Calls, Contend(c) PROVE P
  BY <1>5, <1>0 DEF Contend, At, Goto, store
<1>6. ASSUME NEW c \in Calls, Recheck(c) PROVE P
  BY <1>6, <1>0 DEF Recheck, At, Goto, Keep, store
<1>7. ASSUME NEW c \in Calls, ReleaseStale(c) PROVE P
  BY <1>7, <1>0 DEF ReleaseStale, At, Goto
<1>8. ASSUME NEW c \in Calls, ReleaseStaleRow(c) PROVE P
  BY <1>8, <1>0 DEF ReleaseStaleRow, At, Goto
<1>9. ASSUME NEW c \in Calls, Create(c) PROVE P
  BY <1>9, <1>0 DEF Create, At, Goto, Keep, Put
<1>10. ASSUME NEW c \in Calls, Reserve(c) PROVE P
  BY <1>10, <1>0 DEF Reserve, At, Goto
<1>11. ASSUME NEW c \in Calls, Record(c) PROVE P
  BY <1>11, <1>0 DEF Record, At, Goto, Keep, Put
<1>12. ASSUME NEW c \in Calls, AcquireTreasury(c) PROVE P
  BY <1>12, <1>0 DEF AcquireTreasury, At, Goto, store
<1>13. ASSUME NEW c \in Calls, Approve(c) PROVE P
  BY <1>13, <1>0 DEF Approve, At, Goto, store
<1>14. ASSUME NEW c \in Calls, Approved(c) PROVE P
  BY <1>14, <1>0 DEF Approved, At, Goto, store
<1>15. ASSUME NEW c \in Calls, Sign(c) PROVE P
  BY <1>15 DEF Sign, store
<1>16. ASSUME NEW c \in Calls, Persist(c) PROVE P
  BY <1>16, <1>0 DEF Persist, At, Goto, Put
<1>17. ASSUME NEW c \in Calls, Broadcast(c) PROVE P
  BY <1>17, <1>0 DEF Broadcast, At, Goto, store
<1>18. ASSUME NEW c \in Calls, Mark(c) PROVE P
  BY <1>18, <1>0 DEF Mark, At, Goto, Keep, Put
<1>19. ASSUME NEW c \in Calls, Receipt(c) PROVE P
  BY <1>19, <1>0 DEF Receipt, At, Goto, store
<1>20. ASSUME NEW c \in Calls, Confirm(c) PROVE P
  BY <1>20, <1>0 DEF Confirm, At, Goto, Put
<1>21. ASSUME NEW c \in Calls, Settle(c) PROVE P
  BY <1>21, <1>0 DEF Settle, At, Goto
<1>22. ASSUME NEW c \in Calls, Revert(c) PROVE P
  BY <1>22, <1>0 DEF Revert, At, Goto, Put
<1>23. ASSUME NEW c \in Calls, GiveBack(c) PROVE P
  BY <1>23, <1>0 DEF GiveBack, At, Goto
<1>24. ASSUME NEW c \in Calls, GiveBackRow(c) PROVE P
  BY <1>24, <1>0 DEF GiveBackRow, At, Goto
<1>25. ASSUME NEW c \in Calls, MarkFailed(c) PROVE P
  BY <1>25, <1>0 DEF MarkFailed, At, Goto, Put
<1>26. ASSUME NEW c \in Calls, Unlock(c) PROVE P
  BY <1>26, <1>0 DEF Unlock, At, Leave, Goto, Keep, store
<1>27. ASSUME NEW c \in Calls, Raise(c) PROVE P
  BY <1>27 DEF Raise, store
<1>28. ASSUME NEW c \in Calls, Crash(c) PROVE P
  BY <1>28, <1>0 DEF Crash, Leave, Goto, Keep, store
<1>29. ASSUME NEW c \in Calls, Lapse(c) PROVE P
  BY <1>29, <1>0 DEF Lapse, store
<1>30. ASSUME NEW c \in Calls, NoticeLapse(c) PROVE P
  BY <1>30, <1>0 DEF NoticeLapse, store
<1>31. ASSUME Expire PROVE P
  BY <1>31, <1>0 DEF Expire, store
<1>32. ASSUME Mine PROVE P
  BY <1>32, <1>0 DEF Mine, store
<1>33. ASSUME UNCHANGED vars PROVE P
  BY <1>33, <1>0 DEF vars
<1> QED
  BY <1>1, <1>2, <1>3, <1>4, <1>5, <1>6, <1>7, <1>8, <1>9, <1>10, <1>11, <1>12, <1>13, <1>14, <1>15, <1>16, <1>17, <1>18, <1>19, <1>20, <1>21, <1>22, <1>23, <1>24, <1>25, <1>26, <1>27, <1>28, <1>29, <1>30, <1>31, <1>32, <1>33 DEF Next, Progress, Step

\* A burn that reverts was sent, and its call learns of it.
LEMMA RevertedStep ==
    ASSUME TypeOK, [Next]_vars
    PROVE  /\ reverted \subseteq reverted'
           /\ \A x \in reverted' \ reverted : Sent(Tx("burn", x))
<1> DEFINE P == /\ reverted \subseteq reverted'
                /\ \A x \in reverted' \ reverted : Sent(Tx("burn", x))
<1> SUFFICES P
  OBVIOUS
<1>1. ASSUME NEW c \in Calls, Begin(c) PROVE P
  BY <1>1 DEF Begin, ledger
<1>2. ASSUME NEW c \in Calls, Resend(c) PROVE P
  BY <1>2 DEF Resend
<1>3. ASSUME NEW c \in Calls, Rewrite(c) PROVE P
  BY <1>3 DEF Rewrite, ledger
<1>4. ASSUME NEW c \in Calls, AcquireOp(c) PROVE P
  BY <1>4 DEF AcquireOp, ledger
<1>5. ASSUME NEW c \in Calls, Contend(c) PROVE P
  BY <1>5 DEF Contend, ledger
<1>6. ASSUME NEW c \in Calls, Recheck(c) PROVE P
  BY <1>6 DEF Recheck, ledger
<1>7. ASSUME NEW c \in Calls, ReleaseStale(c) PROVE P
  BY <1>7 DEF ReleaseStale, ledger
<1>8. ASSUME NEW c \in Calls, ReleaseStaleRow(c) PROVE P
  BY <1>8 DEF ReleaseStaleRow, ledger
<1>9. ASSUME NEW c \in Calls, Create(c) PROVE P
  BY <1>9 DEF Create, ledger
<1>10. ASSUME NEW c \in Calls, Reserve(c) PROVE P
  BY <1>10 DEF Reserve, ledger
<1>11. ASSUME NEW c \in Calls, Record(c) PROVE P
  BY <1>11 DEF Record, ledger
<1>12. ASSUME NEW c \in Calls, AcquireTreasury(c) PROVE P
  BY <1>12 DEF AcquireTreasury, ledger
<1>13. ASSUME NEW c \in Calls, Approve(c) PROVE P
  BY <1>13 DEF Approve
<1>14. ASSUME NEW c \in Calls, Approved(c) PROVE P
  BY <1>14 DEF Approved, ledger
<1>15. ASSUME NEW c \in Calls, Sign(c) PROVE P
  BY <1>15 DEF Sign, ledger
<1>16. ASSUME NEW c \in Calls, Persist(c) PROVE P
  BY <1>16 DEF Persist, ledger
<1>17. ASSUME NEW c \in Calls, Broadcast(c) PROVE P
  BY <1>17 DEF Broadcast
<1>18. ASSUME NEW c \in Calls, Mark(c) PROVE P
  BY <1>18 DEF Mark, ledger
<1>19. ASSUME NEW c \in Calls, Receipt(c) PROVE P
  BY <1>19 DEF Receipt, ledger
<1>20. ASSUME NEW c \in Calls, Confirm(c) PROVE P
  BY <1>20 DEF Confirm, ledger
<1>21. ASSUME NEW c \in Calls, Settle(c) PROVE P
  BY <1>21 DEF Settle, ledger
<1>22. ASSUME NEW c \in Calls, Revert(c) PROVE P
  BY <1>22 DEF Revert, ledger
<1>23. ASSUME NEW c \in Calls, GiveBack(c) PROVE P
  BY <1>23 DEF GiveBack, ledger
<1>24. ASSUME NEW c \in Calls, GiveBackRow(c) PROVE P
  BY <1>24 DEF GiveBackRow, ledger
<1>25. ASSUME NEW c \in Calls, MarkFailed(c) PROVE P
  BY <1>25 DEF MarkFailed, ledger
<1>26. ASSUME NEW c \in Calls, Unlock(c) PROVE P
  BY <1>26 DEF Unlock, ledger
<1>27. ASSUME NEW c \in Calls, Raise(c) PROVE P
  BY <1>27 DEF Raise, ledger
<1>28. ASSUME NEW c \in Calls, Crash(c) PROVE P
  BY <1>28 DEF Crash, ledger
<1>29. ASSUME NEW c \in Calls, Lapse(c) PROVE P
  BY <1>29 DEF Lapse, ledger
<1>30. ASSUME NEW c \in Calls, NoticeLapse(c) PROVE P
  BY <1>30 DEF NoticeLapse, ledger
<1>31. ASSUME Expire PROVE P
  BY <1>31 DEF Expire, ledger
<1>32. ASSUME Mine PROVE P
  <2>1. Len(chain) \in Nat /\ mined \in Nat /\ mined < Len(chain)
    BY <1>32, ChainType DEF TypeOK, Mine
  <2>2. mined + 1 \in DOMAIN chain /\ chain[mined + 1] \in Txs
    BY <2>1, ChainType
  <2>3. ASSUME chain[mined + 1].kind = "burn"
        PROVE  chain[mined + 1] = Tx("burn", chain[mined + 1].by)
    BY <2>2, <2>3 DEF Tx, Txs
  <2>4. chain[mined + 1].kind = "burn" => Sent(Tx("burn", chain[mined + 1].by))
    BY <2>2, <2>3 DEF Sent
  <2> QED
    BY <1>32, <2>4 DEF Mine
<1>33. ASSUME UNCHANGED vars PROVE P
  BY <1>33 DEF vars
<1> QED
  BY <1>1, <1>2, <1>3, <1>4, <1>5, <1>6, <1>7, <1>8, <1>9, <1>10, <1>11, <1>12, <1>13, <1>14, <1>15, <1>16, <1>17, <1>18, <1>19, <1>20, <1>21, <1>22, <1>23, <1>24, <1>25, <1>26, <1>27, <1>28, <1>29, <1>30, <1>31, <1>32, <1>33 DEF Next, Progress, Step

\* A reservation without a burn stays one whose burn nobody knows.
LEMMA RecordsStep ==
    TypeOK /\ CopiesFit /\ KeysFit /\ KeysFit' /\ NamesFit /\ RecordsFit /\ [Next]_vars => RecordsFit'
<1> SUFFICES ASSUME TypeOK, CopiesFit, KeysFit, KeysFit', NamesFit, RecordsFit, [Next]_vars,
                    NEW k \in Keys, rec'[k].res # Nobody, rec'[k].by = Nobody
             PROVE  ~Named(rec[k].res)' /\ pc'[rec'[k].res] # "broadcast"
  BY DEF RecordsFit
<1>a. rec'[k].res \in Calls \cup {Nobody}
  BY TypeStep DEF TypeOK, Ops
<1>b. PICK r \in Calls : r = rec'[k].res
  BY <1>a
<1>c. SUFFICES ~Named(r)' /\ pc'[r] # "broadcast"
  BY <1>b DEF Named, Sent, Tx
<1>0. Nobody # r /\ key' = key /\ key[r] = k
  BY <1>b, KeyStays, NobodyCalls DEF KeysFit
<1>1. CASE rec'[k] = rec[k]
  <2>1. ~Named(rec[k].res) /\ pc[rec[k].res] # "broadcast"
    BY <1>1 DEF RecordsFit
  <2>2. ~Named(r) /\ pc[r] # "broadcast"
    BY <1>1, <1>b, <2>1 DEF Named
  <2>3. rec'[key[r]].by # r
    BY <1>0
  <2> QED
    BY <2>2, <2>3, NewName, BroadcastPlaces
<1>2. ASSUME NEW c \in Calls, key[c] = k, rec'[k].res = c, pc[c] = "record", pc'[c] = "treasury"
      PROVE  ~Named(r)' /\ pc'[r] # "broadcast"
  BY <1>2, <1>b, NewName DEF NamesFit, Burning, Signed
<1> QED
  BY <1>1, <1>2, RecordReservations

\* Every reverted burn stays on the chain.
LEMMA RevertsStep ==
    TypeOK /\ CopiesFit /\ RevertsFit /\ [Next]_vars => RevertsFit'
<1> SUFFICES ASSUME TypeOK, CopiesFit, RevertsFit, [Next]_vars PROVE RevertsFit'
  OBVIOUS
<1>1. reverted \subseteq Calls /\ reverted \subseteq reverted'
  BY RevertedStep DEF TypeOK
<1>2. ASSUME NEW x \in reverted' PROVE Sent(Tx("burn", x))'
  <2>1. Sent(Tx("burn", x))
    BY RevertedStep DEF RevertsFit
  <2> QED
    BY <2>1, SentStep
<1>3. ASSUME NEW x \in Calls, pc'[x] \in {"revert", "revertBack", "revertRow"} PROVE x \in reverted'
  BY <1>1, <1>3, RevertPlaces DEF RevertsFit
<1> QED
  BY <1>2, <1>3 DEF RevertsFit, Sent, Tx

\* Whoever comes as far as a reservation makes one.
LEMMA RowsStep ==
    TypeOK /\ CopiesFit /\ KeysFit /\ NamesFit /\ RowsFit /\ [Next]_vars => RowsFit'
<1> SUFFICES ASSUME TypeOK, CopiesFit, KeysFit, NamesFit, RowsFit, [Next]_vars, NEW x \in Calls,
                    pc'[x] \in Reserved \cup Signed \cup Releasing \/ Named(x)'
             PROVE  rows'[x] # "none"
  BY DEF RowsFit
<1>1. CASE pc[x] \in Reserved \cup Signed \cup Releasing \/ Named(x)
  BY <1>1, RowsStay DEF RowsFit
<1>2. CASE pc'[x] \in Reserved \cup Signed \cup Releasing
  BY <1>1, <1>2, RowPlaces
<1>3. CASE Named(x)'
  BY <1>1, <1>3, NewName DEF Signed
<1> QED
  BY <1>2, <1>3

\* What names a reservation goes on naming one that was made.
LEMMA ResStep == TypeOK /\ CopiesFit /\ RowsFit /\ ResFit /\ [Next]_vars => ResFit'
<1> SUFFICES ASSUME TypeOK, CopiesFit, RowsFit, ResFit, [Next]_vars PROVE ResFit'
  OBVIOUS
<1> DEFINE P == /\ \A c \in Calls : op'[c].res # Nobody => rows[op'[c].res] # "none"
                /\ \A k \in Keys : rec'[k].res # Nobody => rows[rec'[k].res] # "none"
<1>0. op \in [Calls -> Ops] /\ key \in [Calls -> Keys] /\ rec \in [Keys -> Ops]
  BY DEF TypeOK
<1>a. NoOp.res = Nobody
  BY DEF NoOp
<1>b. SUFFICES P
  <2>1. /\ \A c \in Calls : op'[c].res \in Calls \cup {Nobody}
        /\ \A k \in Keys : rec'[k].res \in Calls \cup {Nobody}
    BY TypeStep DEF TypeOK, Ops
  <2> QED
    BY <2>1, RowsStay DEF ResFit
<1>1. ASSUME NEW c \in Calls, Begin(c) PROVE P
  BY <1>1, <1>0, <1>a DEF Begin, Keep, store, ResFit
<1>2. ASSUME NEW c \in Calls, Resend(c) PROVE P
  BY <1>2, <1>0, <1>a DEF Resend, Leave, Keep, store, ResFit
<1>3. ASSUME NEW c \in Calls, Rewrite(c) PROVE P
  BY <1>3, <1>0, <1>a DEF Rewrite, Leave, Keep, Put, ResFit, Ops
<1>4. ASSUME NEW c \in Calls, AcquireOp(c) PROVE P
  BY <1>4, <1>0, <1>a DEF AcquireOp, store, ResFit
<1>5. ASSUME NEW c \in Calls, Contend(c) PROVE P
  BY <1>5, <1>0, <1>a DEF Contend, store, ResFit
<1>6. ASSUME NEW c \in Calls, Recheck(c) PROVE P
  BY <1>6, <1>0, <1>a DEF Recheck, Keep, store, ResFit, NoOp
<1>7. ASSUME NEW c \in Calls, ReleaseStale(c) PROVE P
  BY <1>7, <1>0, <1>a DEF ReleaseStale, ResFit
<1>8. ASSUME NEW c \in Calls, ReleaseStaleRow(c) PROVE P
  BY <1>8, <1>0, <1>a DEF ReleaseStaleRow, ResFit
<1>9. ASSUME NEW c \in Calls, Create(c) PROVE P
  <2>1. [NoOp EXCEPT !.status = "created"].res = Nobody
    BY DEF NoOp
  <2>2. /\ op'[c].res \in {Nobody, op[c].res}
        /\ \A d \in Calls : d # c => op'[d] = op[d]
    BY <1>9, <1>0, <2>1 DEF Create, Keep
  <2>3. /\ rec'[key[c]].res \in {Nobody, rec[key[c]].res}
        /\ \A k \in Keys : k # key[c] => rec'[k] = rec[k]
    BY <1>9, <1>0, <2>1 DEF Create, Put
  <2> QED
    BY <1>0, <2>2, <2>3 DEF ResFit
<1>10. ASSUME NEW c \in Calls, Reserve(c) PROVE P
  BY <1>10, <1>0, <1>a DEF Reserve, ResFit
<1>11. ASSUME NEW c \in Calls, Record(c) PROVE P
  BY <1>11, <1>0, <1>a DEF Record, At, Goto, Keep, Put, ResFit, Ops, RowsFit, Reserved
<1>12. ASSUME NEW c \in Calls, AcquireTreasury(c) PROVE P
  BY <1>12, <1>0, <1>a DEF AcquireTreasury, store, ResFit
<1>13. ASSUME NEW c \in Calls, Approve(c) PROVE P
  BY <1>13, <1>0, <1>a DEF Approve, store, ResFit
<1>14. ASSUME NEW c \in Calls, Approved(c) PROVE P
  BY <1>14, <1>0, <1>a DEF Approved, store, ResFit
<1>15. ASSUME NEW c \in Calls, Sign(c) PROVE P
  <2>1. rec' = rec
    BY <1>15 DEF Sign, store
  <2>2. op'[c].res = op[c].res /\ \A d \in Calls : d # c => op'[d] = op[d]
    BY <1>15, SignEffect
  <2> QED
    BY <1>0, <2>1, <2>2 DEF ResFit
<1>16. ASSUME NEW c \in Calls, Persist(c) PROVE P
  BY <1>16, <1>0, <1>a DEF Persist, Put, ResFit
<1>17. ASSUME NEW c \in Calls, Broadcast(c) PROVE P
  BY <1>17, <1>0, <1>a DEF Broadcast, store, ResFit
<1>18. ASSUME NEW c \in Calls, Mark(c) PROVE P
  BY <1>18, <1>0, <1>a DEF Mark, Keep, Put, ResFit, Ops
<1>19. ASSUME NEW c \in Calls, Receipt(c) PROVE P
  BY <1>19, <1>0, <1>a DEF Receipt, store, ResFit
<1>20. ASSUME NEW c \in Calls, Confirm(c) PROVE P
  BY <1>20, <1>0, <1>a DEF Confirm, Put, ResFit, Ops
<1>21. ASSUME NEW c \in Calls, Settle(c) PROVE P
  BY <1>21, <1>0, <1>a DEF Settle, ResFit
<1>22. ASSUME NEW c \in Calls, Revert(c) PROVE P
  BY <1>22, <1>0, <1>a DEF Revert, Put, ResFit, Ops
<1>23. ASSUME NEW c \in Calls, GiveBack(c) PROVE P
  BY <1>23, <1>0, <1>a DEF GiveBack, ResFit
<1>24. ASSUME NEW c \in Calls, GiveBackRow(c) PROVE P
  BY <1>24, <1>0, <1>a DEF GiveBackRow, ResFit
<1>25. ASSUME NEW c \in Calls, MarkFailed(c) PROVE P
  BY <1>25, <1>0, <1>a DEF MarkFailed, Put, ResFit, Failed, NoOp
<1>26. ASSUME NEW c \in Calls, Unlock(c) PROVE P
  BY <1>26, <1>0, <1>a DEF Unlock, Leave, Keep, store, ResFit
<1>27. ASSUME NEW c \in Calls, Raise(c) PROVE P
  <2>1. rec' = rec
    BY <1>27 DEF Raise, store
  <2> QED
    BY <1>27, <1>0, <1>a, <2>1, RaiseEffect DEF ResFit
<1>28. ASSUME NEW c \in Calls, Crash(c) PROVE P
  BY <1>28, <1>0, <1>a DEF Crash, Leave, Keep, store, ResFit
<1>29. ASSUME NEW c \in Calls, Lapse(c) PROVE P
  BY <1>29, <1>0, <1>a DEF Lapse, store, ResFit
<1>30. ASSUME NEW c \in Calls, NoticeLapse(c) PROVE P
  BY <1>30, <1>0, <1>a DEF NoticeLapse, store, ResFit
<1>31. ASSUME Expire PROVE P
  BY <1>31, <1>0, <1>a DEF Expire, store, ResFit
<1>32. ASSUME Mine PROVE P
  BY <1>32, <1>0, <1>a DEF Mine, store, ResFit
<1>33. ASSUME UNCHANGED vars PROVE P
  BY <1>33, <1>0, <1>a DEF vars, ResFit
<1> QED
  BY <1>1, <1>2, <1>3, <1>4, <1>5, <1>6, <1>7, <1>8, <1>9, <1>10, <1>11, <1>12, <1>13, <1>14, <1>15, <1>16, <1>17, <1>18, <1>19, <1>20, <1>21, <1>22, <1>23, <1>24, <1>25, <1>26, <1>27, <1>28, <1>29, <1>30, <1>31, <1>32, <1>33 DEF Next, Progress, Step

\* The machine begins in shape.
LEMMA ShapeInit == Init => FundShape
<1> SUFFICES ASSUME Init PROVE FundShape
  OBVIOUS
<1>1. TypeOK
  <2>1. "idle" \in Labels /\ NoOp \in Ops /\ {Cap, MaxFaults} \subseteq Nat
    BY NoOpType, LabelNames, DemoFundAssumption
  <2>2. /\ pc \in [Calls -> Labels] /\ op \in [Calls -> Ops] /\ rec \in [Keys -> Ops]
        /\ rows \in [Calls -> {"none", "held", "released", "finalized"}]
        /\ opLock \in [Keys -> Calls \cup {Nobody}]
        /\ consumed \subseteq Nonces /\ claimNonce \in [Calls -> Nonces \cup {Session}]
    BY <2>1 DEF Init
  <2>3. chain \in Seq([kind : {"approve", "burn"}, by : Calls]) /\ mined \in 0..Len(chain)
    BY DEF Init
  <2>4. {halfReleased, lapsed} \subseteq BOOLEAN
    BY Zenon DEF Init
  <2> QED
    BY <2>1, <2>2, <2>3, <2>4 DEF Init, TypeOK
<1>2. \A tx : ~Sent(tx)
  BY DEF Init, Sent
<1>3. \A c \in Calls : ~Named(c)
  BY <1>1, <1>2, NobodyCalls DEF Init, Named, NoOp, TypeOK
<1>4. CopiesFit
  BY DEF Init, CopiesFit, Burning, Reserved, Signed, Outside
<1>5. KeysFit /\ NamesFit /\ RecordsFit
  BY <1>1, <1>3, NobodyCalls DEF Init, KeysFit, NamesFit, RecordsFit, NoOp
<1>6. RevertsFit /\ RowsFit /\ ResFit
  BY <1>3 DEF Init, RevertsFit, RowsFit, ResFit, NoOp, Reserved, Signed, Releasing
<1> QED
  BY <1>1, <1>4, <1>5, <1>6 DEF FundShape

\* Every operation keeps the shape.
LEMMA ShapeStep == FundShape /\ [Next]_vars => FundShape'
<1> SUFFICES ASSUME FundShape, [Next]_vars PROVE FundShape'
  OBVIOUS
<1> USE DEF FundShape
<1>1. TypeOK'
  BY TypeStep
<1>2. CopiesFit'
  BY CopiesStep
<1>3. KeysFit'
  BY KeysStep
<1>4. NamesFit'
  BY <1>2, NamesStep
<1>5. RecordsFit'
  BY <1>3, RecordsStep
<1>6. RevertsFit' /\ RowsFit' /\ ResFit'
  BY RevertsStep, RowsStep, ResStep
<1> QED
  BY <1>1, <1>2, <1>3, <1>4, <1>5, <1>6

---------------------------------------------------------------------------
(* One-time nonces and leases. *)

\* A nonce that is consumed stays consumed.
LEMMA ConsumedStep ==
    ASSUME TypeOK, [Next]_vars
    PROVE  consumed \subseteq consumed'
<1> DEFINE P == consumed \subseteq consumed'
<1> SUFFICES P
  OBVIOUS
<1>0. /\ op \in [Calls -> Ops] /\ key \in [Calls -> Keys] /\ rec \in [Keys -> Ops]
      /\ pc \in [Calls -> Labels] /\ rows \in [Calls -> {"none", "held", "released", "finalized"}]
      /\ opLock \in [Keys -> Calls \cup {Nobody}] /\ treasury \in Calls \cup {Nobody}
      /\ consumed \subseteq Nonces /\ used \in Nat /\ Nobody \notin Calls
  BY NobodyCalls, DemoFundAssumption DEF TypeOK
<1>1. ASSUME NEW c \in Calls, Begin(c) PROVE P
  BY <1>1 DEF Begin, store
<1>2. ASSUME NEW c \in Calls, Resend(c) PROVE P
  BY <1>2 DEF Resend, store
<1>3. ASSUME NEW c \in Calls, Rewrite(c) PROVE P
  BY <1>3 DEF Rewrite
<1>4. ASSUME NEW c \in Calls, AcquireOp(c) PROVE P
  BY <1>4 DEF AcquireOp, store
<1>5. ASSUME NEW c \in Calls, Contend(c) PROVE P
  BY <1>5 DEF Contend, store
<1>6. ASSUME NEW c \in Calls, Recheck(c) PROVE P
  BY <1>6 DEF Recheck, store
<1>7. ASSUME NEW c \in Calls, ReleaseStale(c) PROVE P
  BY <1>7 DEF ReleaseStale
<1>8. ASSUME NEW c \in Calls, ReleaseStaleRow(c) PROVE P
  BY <1>8 DEF ReleaseStaleRow
<1>9. ASSUME NEW c \in Calls, Create(c) PROVE P
  BY <1>9, <1>0 DEF Create
<1>10. ASSUME NEW c \in Calls, Reserve(c) PROVE P
  BY <1>10 DEF Reserve
<1>11. ASSUME NEW c \in Calls, Record(c) PROVE P
  BY <1>11 DEF Record
<1>12. ASSUME NEW c \in Calls, AcquireTreasury(c) PROVE P
  BY <1>12 DEF AcquireTreasury, store
<1>13. ASSUME NEW c \in Calls, Approve(c) PROVE P
  BY <1>13 DEF Approve, store
<1>14. ASSUME NEW c \in Calls, Approved(c) PROVE P
  BY <1>14 DEF Approved, store
<1>15. ASSUME NEW c \in Calls, Sign(c) PROVE P
  BY <1>15 DEF Sign, store
<1>16. ASSUME NEW c \in Calls, Persist(c) PROVE P
  BY <1>16 DEF Persist
<1>17. ASSUME NEW c \in Calls, Broadcast(c) PROVE P
  BY <1>17 DEF Broadcast, store
<1>18. ASSUME NEW c \in Calls, Mark(c) PROVE P
  BY <1>18 DEF Mark
<1>19. ASSUME NEW c \in Calls, Receipt(c) PROVE P
  BY <1>19 DEF Receipt, store
<1>20. ASSUME NEW c \in Calls, Confirm(c) PROVE P
  BY <1>20 DEF Confirm
<1>21. ASSUME NEW c \in Calls, Settle(c) PROVE P
  BY <1>21 DEF Settle
<1>22. ASSUME NEW c \in Calls, Revert(c) PROVE P
  BY <1>22 DEF Revert
<1>23. ASSUME NEW c \in Calls, GiveBack(c) PROVE P
  BY <1>23 DEF GiveBack
<1>24. ASSUME NEW c \in Calls, GiveBackRow(c) PROVE P
  BY <1>24 DEF GiveBackRow
<1>25. ASSUME NEW c \in Calls, MarkFailed(c) PROVE P
  BY <1>25 DEF MarkFailed
<1>26. ASSUME NEW c \in Calls, Unlock(c) PROVE P
  BY <1>26 DEF Unlock, store
<1>27. ASSUME NEW c \in Calls, Raise(c) PROVE P
  BY <1>27 DEF Raise, store
<1>28. ASSUME NEW c \in Calls, Crash(c) PROVE P
  BY <1>28 DEF Crash, store
<1>29. ASSUME NEW c \in Calls, Lapse(c) PROVE P
  BY <1>29 DEF Lapse, store
<1>30. ASSUME NEW c \in Calls, NoticeLapse(c) PROVE P
  BY <1>30 DEF NoticeLapse, store
<1>31. ASSUME Expire PROVE P
  BY <1>31 DEF Expire, store
<1>32. ASSUME Mine PROVE P
  BY <1>32 DEF Mine, store
<1>33. ASSUME UNCHANGED vars PROVE P
  BY <1>33 DEF vars
<1> QED
  BY <1>1, <1>2, <1>3, <1>4, <1>5, <1>6, <1>7, <1>8, <1>9, <1>10, <1>11, <1>12, <1>13, <1>14, <1>15, <1>16, <1>17, <1>18, <1>19, <1>20, <1>21, <1>22, <1>23, <1>24, <1>25, <1>26, <1>27, <1>28, <1>29, <1>30, <1>31, <1>32, <1>33 DEF Next, Progress, Step

\* A call enters where it consumes a nonce that nobody consumed before.
LEMMA Entering ==
    ASSUME TypeOK, CopiesFit, RowsFit, ResFit, [Next]_vars, NEW x \in Calls
    PROVE  Entered(x)' =>
               \/ Entered(x)
               \/ /\ claimNonce[x] \notin consumed
                  /\ claimNonce[x] # Session => claimNonce[x] \in consumed'
                  /\ \A y \in Calls : y # x => (Entered(y)' => Entered(y))
<1> DEFINE P ==
           Entered(x)' =>
               \/ Entered(x)
               \/ /\ claimNonce[x] \notin consumed
                  /\ claimNonce[x] # Session => claimNonce[x] \in consumed'
                  /\ \A y \in Calls : y # x => (Entered(y)' => Entered(y))
<1> SUFFICES P
  OBVIOUS
<1>0. /\ op \in [Calls -> Ops] /\ key \in [Calls -> Keys] /\ rec \in [Keys -> Ops]
      /\ pc \in [Calls -> Labels] /\ rows \in [Calls -> {"none", "held", "released", "finalized"}]
      /\ opLock \in [Keys -> Calls \cup {Nobody}] /\ treasury \in Calls \cup {Nobody}
      /\ consumed \subseteq Nonces /\ used \in Nat /\ Nobody \notin Calls
  BY NobodyCalls, DemoFundAssumption DEF TypeOK
<1>1. ASSUME NEW c \in Calls, Begin(c) PROVE P
  BY <1>1, <1>0 DEF Begin, At, Goto, Keep, store, Entered
<1>2. ASSUME NEW c \in Calls, Resend(c) PROVE P
  BY <1>2, <1>0 DEF Resend, At, Goto, Leave, Keep, store, Entered
<1>3. ASSUME NEW c \in Calls, Rewrite(c) PROVE P
  BY <1>3, <1>0 DEF Rewrite, At, Leave, Goto, Keep, Put, Entered
<1>4. ASSUME NEW c \in Calls, AcquireOp(c) PROVE P
  BY <1>4, <1>0 DEF AcquireOp, At, Goto, store, Entered
<1>5. ASSUME NEW c \in Calls, Contend(c) PROVE P
  BY <1>5, <1>0 DEF Contend, At, Goto, store, Entered
<1>6. ASSUME NEW c \in Calls, Recheck(c) PROVE P
  BY <1>6, <1>0 DEF Recheck, At, Goto, Keep, store, Entered
<1>7. ASSUME NEW c \in Calls, ReleaseStale(c) PROVE P
  BY <1>7, <1>0 DEF ReleaseStale, At, Goto, Entered
<1>8. ASSUME NEW c \in Calls, ReleaseStaleRow(c) PROVE P
  BY <1>8, <1>0 DEF ReleaseStaleRow, At, Goto, Entered, CopiesFit, ResFit, Nobody
<1>9. ASSUME NEW c \in Calls, Create(c) PROVE P
  BY <1>9, <1>0 DEF Create, At, Goto, Keep, Put, Entered, Taken
<1>10. ASSUME NEW c \in Calls, Reserve(c) PROVE P
  BY <1>10, <1>0 DEF Reserve, At, Goto, Entered
<1>11. ASSUME NEW c \in Calls, Record(c) PROVE P
  BY <1>11, <1>0 DEF Record, At, Goto, Keep, Put, Entered
<1>12. ASSUME NEW c \in Calls, AcquireTreasury(c) PROVE P
  BY <1>12, <1>0 DEF AcquireTreasury, At, Goto, store, Entered
<1>13. ASSUME NEW c \in Calls, Approve(c) PROVE P
  BY <1>13, <1>0 DEF Approve, At, Goto, store, Entered
<1>14. ASSUME NEW c \in Calls, Approved(c) PROVE P
  BY <1>14, <1>0 DEF Approved, At, Goto, store, Entered
<1>15. ASSUME NEW c \in Calls, Sign(c) PROVE P
  BY <1>15, <1>0, SignEffect, ZenonT(60) DEF Sign, store, Entered
<1>16. ASSUME NEW c \in Calls, Persist(c) PROVE P
  BY <1>16, <1>0 DEF Persist, At, Goto, Put, Entered
<1>17. ASSUME NEW c \in Calls, Broadcast(c) PROVE P
  BY <1>17, <1>0 DEF Broadcast, At, Goto, store, Entered
<1>18. ASSUME NEW c \in Calls, Mark(c) PROVE P
  BY <1>18, <1>0 DEF Mark, At, Goto, Keep, Put, Entered
<1>19. ASSUME NEW c \in Calls, Receipt(c) PROVE P
  BY <1>19, <1>0 DEF Receipt, At, Goto, store, Entered
<1>20. ASSUME NEW c \in Calls, Confirm(c) PROVE P
  BY <1>20, <1>0 DEF Confirm, At, Goto, Put, Entered, RowsFit, Signed
<1>21. ASSUME NEW c \in Calls, Settle(c) PROVE P
  BY <1>21, <1>0 DEF Settle, At, Goto, Entered, RowsFit, Signed
<1>22. ASSUME NEW c \in Calls, Revert(c) PROVE P
  BY <1>22, <1>0 DEF Revert, At, Goto, Put, Entered
<1>23. ASSUME NEW c \in Calls, GiveBack(c) PROVE P
  BY <1>23, <1>0 DEF GiveBack, At, Goto, Entered
<1>24. ASSUME NEW c \in Calls, GiveBackRow(c) PROVE P
  BY <1>24, <1>0 DEF GiveBackRow, At, Goto, Entered, RowsFit, Releasing
<1>25. ASSUME NEW c \in Calls, MarkFailed(c) PROVE P
  BY <1>25, <1>0 DEF MarkFailed, At, Goto, Put, Entered
<1>26. ASSUME NEW c \in Calls, Unlock(c) PROVE P
  BY <1>26, <1>0 DEF Unlock, At, Leave, Goto, Keep, store, Entered
<1>27. ASSUME NEW c \in Calls, Raise(c) PROVE P
  BY <1>27, <1>0, RaiseEffect DEF Raise, store, Entered, Outside, Reserved, Before
<1>28. ASSUME NEW c \in Calls, Crash(c) PROVE P
  BY <1>28, <1>0 DEF Crash, Leave, Goto, Keep, store, Entered
<1>29. ASSUME NEW c \in Calls, Lapse(c) PROVE P
  BY <1>29, <1>0 DEF Lapse, store, Entered
<1>30. ASSUME NEW c \in Calls, NoticeLapse(c) PROVE P
  BY <1>30, <1>0 DEF NoticeLapse, store, Entered
<1>31. ASSUME Expire PROVE P
  BY <1>31, <1>0 DEF Expire, store, Entered
<1>32. ASSUME Mine PROVE P
  BY <1>32, <1>0 DEF Mine, store, Entered
<1>33. ASSUME UNCHANGED vars PROVE P
  BY <1>33, <1>0 DEF vars, Entered
<1> QED
  BY <1>1, <1>2, <1>3, <1>4, <1>5, <1>6, <1>7, <1>8, <1>9, <1>10, <1>11, <1>12, <1>13, <1>14, <1>15, <1>16, <1>17, <1>18, <1>19, <1>20, <1>21, <1>22, <1>23, <1>24, <1>25, <1>26, <1>27, <1>28, <1>29, <1>30, <1>31, <1>32, <1>33 DEF Next, Progress, Step

\* No operation lets a second call in with the same nonce.
LEMMA NoncesFitStep ==
    TypeOK /\ CopiesFit /\ RowsFit /\ ResFit /\ NoncesFit /\ [Next]_vars => NoncesFit'
<1> SUFFICES ASSUME TypeOK, CopiesFit, RowsFit, ResFit, NoncesFit, [Next]_vars,
                    NEW c \in Calls, Entered(c)', claimNonce'[c] # Session
             PROVE  /\ claimNonce'[c] \in consumed'
                    /\ \A d \in Calls : Entered(d)' /\ claimNonce'[d] = claimNonce'[c] => c = d
  BY DEF NoncesFit, Entered
<1>0. claimNonce' = claimNonce /\ consumed \subseteq consumed'
  BY KeyStays, ConsumedStep
<1>1. claimNonce[c] \in consumed'
  BY <1>0, Entering DEF NoncesFit
<1>2. ASSUME NEW x \in Calls, NEW y \in Calls, Entered(x)', Entered(y)', ~Entered(x), x # y,
             claimNonce[x] # Session, claimNonce[x] = claimNonce[y]
      PROVE  FALSE
  <2>1. claimNonce[x] \notin consumed /\ Entered(y)
    BY <1>2, Entering
  <2> QED
    BY <1>2, <2>1 DEF NoncesFit
<1>3. ASSUME NEW d \in Calls, Entered(d)', claimNonce[d] = claimNonce[c] PROVE c = d
  BY <1>0, <1>2, <1>3 DEF NoncesFit
<1> QED
  BY <1>0, <1>1, <1>3

\* A lease passes from a call only when it lapses or the call is done.
LEMMA LocksMove ==
    ASSUME TypeOK, [Next]_vars
    PROVE  /\ lapsed => lapsed'
           /\ ~lapsed' /\ treasury # Nobody => treasury' = treasury \/ pc'[treasury] = "done"
           /\ \A k \in Keys : ~lapsed' /\ opLock[k] # Nobody =>
                  opLock'[k] = opLock[k] \/ pc'[opLock[k]] = "done"
<1> DEFINE P ==
           /\ lapsed => lapsed'
           /\ ~lapsed' /\ treasury # Nobody => treasury' = treasury \/ pc'[treasury] = "done"
           /\ \A k \in Keys : ~lapsed' /\ opLock[k] # Nobody =>
                  opLock'[k] = opLock[k] \/ pc'[opLock[k]] = "done"
<1> SUFFICES P
  OBVIOUS
<1>0. /\ op \in [Calls -> Ops] /\ key \in [Calls -> Keys] /\ rec \in [Keys -> Ops]
      /\ pc \in [Calls -> Labels] /\ rows \in [Calls -> {"none", "held", "released", "finalized"}]
      /\ opLock \in [Keys -> Calls \cup {Nobody}] /\ treasury \in Calls \cup {Nobody}
      /\ consumed \subseteq Nonces /\ used \in Nat /\ Nobody \notin Calls
  BY NobodyCalls, DemoFundAssumption DEF TypeOK
<1>1. ASSUME NEW c \in Calls, Begin(c) PROVE P
  BY <1>1 DEF Begin, leases, history
<1>2. ASSUME NEW c \in Calls, Resend(c) PROVE P
  BY <1>2 DEF Resend, history
<1>3. ASSUME NEW c \in Calls, Rewrite(c) PROVE P
  BY <1>3 DEF Rewrite, noFault
<1>4. ASSUME NEW c \in Calls, AcquireOp(c) PROVE P
  BY <1>4, <1>0 DEF AcquireOp, history
<1>5. ASSUME NEW c \in Calls, Contend(c) PROVE P
  BY <1>5 DEF Contend, leases, history
<1>6. ASSUME NEW c \in Calls, Recheck(c) PROVE P
  BY <1>6 DEF Recheck, leases, history
<1>7. ASSUME NEW c \in Calls, ReleaseStale(c) PROVE P
  BY <1>7 DEF ReleaseStale, leases, history
<1>8. ASSUME NEW c \in Calls, ReleaseStaleRow(c) PROVE P
  BY <1>8 DEF ReleaseStaleRow, leases
<1>9. ASSUME NEW c \in Calls, Create(c) PROVE P
  BY <1>9 DEF Create, leases, history
<1>10. ASSUME NEW c \in Calls, Reserve(c) PROVE P
  BY <1>10 DEF Reserve, leases, history
<1>11. ASSUME NEW c \in Calls, Record(c) PROVE P
  BY <1>11 DEF Record, leases, history
<1>12. ASSUME NEW c \in Calls, AcquireTreasury(c) PROVE P
  BY <1>12, <1>0 DEF AcquireTreasury, TreasuryFree, history
<1>13. ASSUME NEW c \in Calls, Approve(c) PROVE P
  BY <1>13 DEF Approve, leases, history
<1>14. ASSUME NEW c \in Calls, Approved(c) PROVE P
  BY <1>14 DEF Approved, leases, history
<1>15. ASSUME NEW c \in Calls, Sign(c) PROVE P
  BY <1>15 DEF Sign, leases, history
<1>16. ASSUME NEW c \in Calls, Persist(c) PROVE P
  BY <1>16 DEF Persist, leases, history
<1>17. ASSUME NEW c \in Calls, Broadcast(c) PROVE P
  BY <1>17 DEF Broadcast, leases, history
<1>18. ASSUME NEW c \in Calls, Mark(c) PROVE P
  BY <1>18 DEF Mark, leases, history
<1>19. ASSUME NEW c \in Calls, Receipt(c) PROVE P
  BY <1>19 DEF Receipt, leases
<1>20. ASSUME NEW c \in Calls, Confirm(c) PROVE P
  BY <1>20 DEF Confirm, leases, history
<1>21. ASSUME NEW c \in Calls, Settle(c) PROVE P
  BY <1>21 DEF Settle, leases, history
<1>22. ASSUME NEW c \in Calls, Revert(c) PROVE P
  BY <1>22 DEF Revert, leases, history
<1>23. ASSUME NEW c \in Calls, GiveBack(c) PROVE P
  BY <1>23 DEF GiveBack, leases, history
<1>24. ASSUME NEW c \in Calls, GiveBackRow(c) PROVE P
  BY <1>24 DEF GiveBackRow, leases, history
<1>25. ASSUME NEW c \in Calls, MarkFailed(c) PROVE P
  BY <1>25 DEF MarkFailed, leases, noFault
<1>26. ASSUME NEW c \in Calls, Unlock(c) PROVE P
  BY <1>26, <1>0 DEF Unlock, Freed, Leave, Goto, history
<1>27. ASSUME NEW c \in Calls, Raise(c) PROVE P
  BY <1>27 DEF Raise
<1>28. ASSUME NEW c \in Calls, Crash(c) PROVE P
  BY <1>28 DEF Crash
<1>29. ASSUME NEW c \in Calls, Lapse(c) PROVE P
  BY <1>29 DEF Lapse
<1>30. ASSUME NEW c \in Calls, NoticeLapse(c) PROVE P
  BY <1>30 DEF NoticeLapse, history
<1>31. ASSUME Expire PROVE P
  BY <1>31, <1>0 DEF Expire, history
<1>32. ASSUME Mine PROVE P
  BY <1>32 DEF Mine, leases, history
<1>33. ASSUME UNCHANGED vars PROVE P
  BY <1>33 DEF vars
<1> QED
  BY <1>1, <1>2, <1>3, <1>4, <1>5, <1>6, <1>7, <1>8, <1>9, <1>10, <1>11, <1>12, <1>13, <1>14, <1>15, <1>16, <1>17, <1>18, <1>19, <1>20, <1>21, <1>22, <1>23, <1>24, <1>25, <1>26, <1>27, <1>28, <1>29, <1>30, <1>31, <1>32, <1>33 DEF Next, Progress, Step

\* A call enters a section with the lease that guards it.
LEMMA InsidePlaces ==
    ASSUME TypeOK, CopiesFit, [Next]_vars, NEW x \in Calls
    PROVE  /\ pc'[x] \in Inside => pc[x] \in Inside \/ opLock'[key[x]] = x
           /\ pc'[x] \in {"approve", "approving", "sign"} =>
                  pc[x] \in {"approve", "approving", "sign"} \/ treasury' = x
<1> DEFINE P ==
           /\ pc'[x] \in Inside => pc[x] \in Inside \/ opLock'[key[x]] = x
           /\ pc'[x] \in {"approve", "approving", "sign"} =>
                  pc[x] \in {"approve", "approving", "sign"} \/ treasury' = x
<1> SUFFICES P
  OBVIOUS
<1>0. /\ op \in [Calls -> Ops] /\ key \in [Calls -> Keys] /\ rec \in [Keys -> Ops]
      /\ pc \in [Calls -> Labels] /\ rows \in [Calls -> {"none", "held", "released", "finalized"}]
      /\ opLock \in [Keys -> Calls \cup {Nobody}] /\ treasury \in Calls \cup {Nobody}
      /\ consumed \subseteq Nonces /\ used \in Nat /\ Nobody \notin Calls
  BY NobodyCalls, DemoFundAssumption DEF TypeOK
<1> USE DEF Inside, Reserved, Signed, Releasing
<1>1. ASSUME NEW c \in Calls, Begin(c) PROVE P
  BY <1>1, <1>0 DEF Begin, At, Goto, Keep
<1>2. ASSUME NEW c \in Calls, Resend(c) PROVE P
  BY <1>2, <1>0 DEF Resend, At, Goto, Leave, Keep
<1>3. ASSUME NEW c \in Calls, Rewrite(c) PROVE P
  BY <1>3, <1>0 DEF Rewrite, At, Leave, Goto, Keep, Put
<1>4. ASSUME NEW c \in Calls, AcquireOp(c) PROVE P
  BY <1>4, <1>0 DEF AcquireOp, At, Goto
<1>5. ASSUME NEW c \in Calls, Contend(c) PROVE P
  BY <1>5, <1>0 DEF Contend, At, Goto
<1>6. ASSUME NEW c \in Calls, Recheck(c) PROVE P
  BY <1>6, <1>0 DEF Recheck, At, Goto, Keep
<1>7. ASSUME NEW c \in Calls, ReleaseStale(c) PROVE P
  BY <1>7, <1>0 DEF ReleaseStale, At, Goto
<1>8. ASSUME NEW c \in Calls, ReleaseStaleRow(c) PROVE P
  BY <1>8, <1>0 DEF ReleaseStaleRow, At, Goto
<1>9. ASSUME NEW c \in Calls, Create(c) PROVE P
  BY <1>9, <1>0 DEF Create, At, Goto, Keep, Put
<1>10. ASSUME NEW c \in Calls, Reserve(c) PROVE P
  BY <1>10, <1>0 DEF Reserve, At, Goto
<1>11. ASSUME NEW c \in Calls, Record(c) PROVE P
  BY <1>11, <1>0 DEF Record, At, Goto, Keep, Put
<1>12. ASSUME NEW c \in Calls, AcquireTreasury(c) PROVE P
  BY <1>12, <1>0 DEF AcquireTreasury, At, Goto
<1>13. ASSUME NEW c \in Calls, Approve(c) PROVE P
  BY <1>13, <1>0 DEF Approve, At, Goto
<1>14. ASSUME NEW c \in Calls, Approved(c) PROVE P
  BY <1>14, <1>0 DEF Approved, At, Goto
<1>15. ASSUME NEW c \in Calls, Sign(c) PROVE P
  BY <1>15, <1>0, SignEffect
<1>16. ASSUME NEW c \in Calls, Persist(c) PROVE P
  BY <1>16, <1>0 DEF Persist, At, Goto, Put
<1>17. ASSUME NEW c \in Calls, Broadcast(c) PROVE P
  BY <1>17, <1>0 DEF Broadcast, At, Goto
<1>18. ASSUME NEW c \in Calls, Mark(c) PROVE P
  BY <1>18, <1>0 DEF Mark, At, Goto, Keep, Put
<1>19. ASSUME NEW c \in Calls, Receipt(c) PROVE P
  BY <1>19, <1>0 DEF Receipt, At, Goto
<1>20. ASSUME NEW c \in Calls, Confirm(c) PROVE P
  BY <1>20, <1>0 DEF Confirm, At, Goto, Put
<1>21. ASSUME NEW c \in Calls, Settle(c) PROVE P
  BY <1>21, <1>0 DEF Settle, At, Goto
<1>22. ASSUME NEW c \in Calls, Revert(c) PROVE P
  BY <1>22, <1>0 DEF Revert, At, Goto, Put
<1>23. ASSUME NEW c \in Calls, GiveBack(c) PROVE P
  BY <1>23, <1>0 DEF GiveBack, At, Goto
<1>24. ASSUME NEW c \in Calls, GiveBackRow(c) PROVE P
  BY <1>24, <1>0 DEF GiveBackRow, At, Goto
<1>25. ASSUME NEW c \in Calls, MarkFailed(c) PROVE P
  BY <1>25, <1>0 DEF MarkFailed, At, Goto, Put
<1>26. ASSUME NEW c \in Calls, Unlock(c) PROVE P
  BY <1>26, <1>0 DEF Unlock, At, Leave, Goto, Keep
<1>27. ASSUME NEW c \in Calls, Raise(c) PROVE P
  BY <1>27, <1>0, RaiseEffect DEF Outside, Reserved, Before
<1>28. ASSUME NEW c \in Calls, Crash(c) PROVE P
  BY <1>28, <1>0 DEF Crash, Leave, Goto, Keep
<1>29. ASSUME NEW c \in Calls, Lapse(c) PROVE P
  BY <1>29, <1>0 DEF Lapse
<1>30. ASSUME NEW c \in Calls, NoticeLapse(c) PROVE P
  BY <1>30, <1>0 DEF NoticeLapse
<1>31. ASSUME Expire PROVE P
  BY <1>31, <1>0 DEF Expire
<1>32. ASSUME Mine PROVE P
  BY <1>32, <1>0 DEF Mine
<1>33. ASSUME UNCHANGED vars PROVE P
  BY <1>33, <1>0 DEF vars
<1> QED
  BY <1>1, <1>2, <1>3, <1>4, <1>5, <1>6, <1>7, <1>8, <1>9, <1>10, <1>11, <1>12, <1>13, <1>14, <1>15, <1>16, <1>17, <1>18, <1>19, <1>20, <1>21, <1>22, <1>23, <1>24, <1>25, <1>26, <1>27, <1>28, <1>29, <1>30, <1>31, <1>32, <1>33 DEF Next, Progress, Step

\* No operation loses a lease that has not lapsed.
LEMMA LeasesStep == FundShape /\ FundShape' /\ LeasesHeld /\ [Next]_vars => LeasesHeld'
<1> SUFFICES ASSUME FundShape, FundShape', LeasesHeld, [Next]_vars, ~lapsed', NEW x \in Calls
             PROVE  /\ pc'[x] \in Inside => opLock'[key'[x]] = x
                    /\ pc'[x] \in {"approve", "approving", "sign"} \/ op'[x].by = x => treasury' = x
  BY DEF LeasesHeld
<1> USE DEF FundShape
<1>0. /\ key' = key /\ key[x] \in Keys /\ x # Nobody /\ ~lapsed
      /\ NoOp.by = Nobody /\ NoOp.by # x
  BY KeyStays, NobodyCalls, LocksMove DEF TypeOK, NoOp
<1>1. ASSUME pc'[x] \in Inside PROVE opLock'[key[x]] = x
  <2>1. CASE pc[x] \in Inside
    <3>1. opLock[key[x]] = x /\ pc'[x] # "done"
      BY <1>0, <1>1, <2>1 DEF LeasesHeld, Inside, Reserved, Signed, Releasing
    <3> QED
      BY <1>0, <3>1, LocksMove
  <2> QED
    BY <1>1, <2>1, InsidePlaces
<1>2. ASSUME pc'[x] \in {"approve", "approving", "sign"} \/ op'[x].by = x PROVE treasury' = x
  <2>1. pc'[x] # "done"
    BY <1>0, <1>2 DEF CopiesFit
  <2>2. CASE pc[x] \in {"approve", "approving", "sign"} \/ op[x].by = x
    <3>1. treasury = x
      BY <1>0, <2>2 DEF LeasesHeld
    <3> QED
      BY <1>0, <2>1, <3>1, LocksMove
  <2>3. CASE pc'[x] \in {"approve", "approving", "sign"}
    BY <2>2, <2>3, InsidePlaces
  <2>4. CASE op'[x].by = x
    <3>1. ~(rec[key[x]].by = x /\ pc[x] \in {"idle", "recheck"})
      BY DEF NamesFit, Named, Burning, Signed
    <3> QED
      BY <1>0, <2>2, <2>4, <3>1, CopyNames
  <2> QED
    BY <1>2, <2>3, <2>4
<1> QED
  BY <1>0, <1>1, <1>2

---------------------------------------------------------------------------
(* Reservations. *)

\* What a step does to a row.
LEMMA RowStep ==
    ASSUME TypeOK, CopiesFit, [Next]_vars, NEW x \in Calls
    PROVE  \/ rows'[x] = rows[x]
           \/ pc[x] = "reserve" /\ pc'[x] = "record" /\ rows'[x] = "held"
           \/ pc[x] \in {"confirm", "settle"} /\ pc'[x] = "unlock" /\ rows'[x] = "finalized"
           \/ pc[x] = "giveBackRow" /\ pc'[x] = "markFailed" /\ rows'[x] = "released"
           \/ pc[x] = "revertRow" /\ pc'[x] = "unlock" /\ rows'[x] = "released"
           \/ \E d \in Calls : /\ pc[d] = "staleRow" /\ pc'[d] = "create" /\ op[d].res = x
                               /\ rows'[x] = "released"
<1> DEFINE P ==
           \/ rows'[x] = rows[x]
           \/ pc[x] = "reserve" /\ pc'[x] = "record" /\ rows'[x] = "held"
           \/ pc[x] \in {"confirm", "settle"} /\ pc'[x] = "unlock" /\ rows'[x] = "finalized"
           \/ pc[x] = "giveBackRow" /\ pc'[x] = "markFailed" /\ rows'[x] = "released"
           \/ pc[x] = "revertRow" /\ pc'[x] = "unlock" /\ rows'[x] = "released"
           \/ \E d \in Calls : /\ pc[d] = "staleRow" /\ pc'[d] = "create" /\ op[d].res = x
                               /\ rows'[x] = "released"
<1> SUFFICES P
  OBVIOUS
<1>0. /\ op \in [Calls -> Ops] /\ key \in [Calls -> Keys] /\ rec \in [Keys -> Ops]
      /\ pc \in [Calls -> Labels] /\ rows \in [Calls -> {"none", "held", "released", "finalized"}]
      /\ opLock \in [Keys -> Calls \cup {Nobody}] /\ treasury \in Calls \cup {Nobody}
      /\ consumed \subseteq Nonces /\ used \in Nat /\ Nobody \notin Calls
  BY NobodyCalls, DemoFundAssumption DEF TypeOK
<1>1. ASSUME NEW c \in Calls, Begin(c) PROVE P
  BY <1>1 DEF Begin, store
<1>2. ASSUME NEW c \in Calls, Resend(c) PROVE P
  BY <1>2 DEF Resend, store
<1>3. ASSUME NEW c \in Calls, Rewrite(c) PROVE P
  BY <1>3 DEF Rewrite
<1>4. ASSUME NEW c \in Calls, AcquireOp(c) PROVE P
  BY <1>4 DEF AcquireOp, store
<1>5. ASSUME NEW c \in Calls, Contend(c) PROVE P
  BY <1>5 DEF Contend, store
<1>6. ASSUME NEW c \in Calls, Recheck(c) PROVE P
  BY <1>6 DEF Recheck, store
<1>7. ASSUME NEW c \in Calls, ReleaseStale(c) PROVE P
  BY <1>7 DEF ReleaseStale
<1>8. ASSUME NEW c \in Calls, ReleaseStaleRow(c) PROVE P
  BY <1>8, <1>0 DEF ReleaseStaleRow, At, Goto, CopiesFit, Nobody
<1>9. ASSUME NEW c \in Calls, Create(c) PROVE P
  BY <1>9 DEF Create
<1>10. ASSUME NEW c \in Calls, Reserve(c) PROVE P
  BY <1>10, <1>0 DEF Reserve, At, Goto, CopiesFit, Nobody
<1>11. ASSUME NEW c \in Calls, Record(c) PROVE P
  BY <1>11 DEF Record
<1>12. ASSUME NEW c \in Calls, AcquireTreasury(c) PROVE P
  BY <1>12 DEF AcquireTreasury, store
<1>13. ASSUME NEW c \in Calls, Approve(c) PROVE P
  BY <1>13 DEF Approve, store
<1>14. ASSUME NEW c \in Calls, Approved(c) PROVE P
  BY <1>14 DEF Approved, store
<1>15. ASSUME NEW c \in Calls, Sign(c) PROVE P
  BY <1>15 DEF Sign, store
<1>16. ASSUME NEW c \in Calls, Persist(c) PROVE P
  BY <1>16 DEF Persist
<1>17. ASSUME NEW c \in Calls, Broadcast(c) PROVE P
  BY <1>17 DEF Broadcast, store
<1>18. ASSUME NEW c \in Calls, Mark(c) PROVE P
  BY <1>18 DEF Mark
<1>19. ASSUME NEW c \in Calls, Receipt(c) PROVE P
  BY <1>19 DEF Receipt, store
<1>20. ASSUME NEW c \in Calls, Confirm(c) PROVE P
  BY <1>20, <1>0 DEF Confirm, At, Goto, CopiesFit, Nobody
<1>21. ASSUME NEW c \in Calls, Settle(c) PROVE P
  BY <1>21, <1>0 DEF Settle, At, Goto, CopiesFit, Nobody
<1>22. ASSUME NEW c \in Calls, Revert(c) PROVE P
  BY <1>22 DEF Revert
<1>23. ASSUME NEW c \in Calls, GiveBack(c) PROVE P
  BY <1>23 DEF GiveBack
<1>24. ASSUME NEW c \in Calls, GiveBackRow(c) PROVE P
  BY <1>24, <1>0 DEF GiveBackRow, At, Goto, CopiesFit, Nobody
<1>25. ASSUME NEW c \in Calls, MarkFailed(c) PROVE P
  BY <1>25 DEF MarkFailed
<1>26. ASSUME NEW c \in Calls, Unlock(c) PROVE P
  BY <1>26 DEF Unlock, store
<1>27. ASSUME NEW c \in Calls, Raise(c) PROVE P
  BY <1>27 DEF Raise, store
<1>28. ASSUME NEW c \in Calls, Crash(c) PROVE P
  BY <1>28 DEF Crash, store
<1>29. ASSUME NEW c \in Calls, Lapse(c) PROVE P
  BY <1>29 DEF Lapse, store
<1>30. ASSUME NEW c \in Calls, NoticeLapse(c) PROVE P
  BY <1>30 DEF NoticeLapse, store
<1>31. ASSUME Expire PROVE P
  BY <1>31 DEF Expire, store
<1>32. ASSUME Mine PROVE P
  BY <1>32 DEF Mine, store
<1>33. ASSUME UNCHANGED vars PROVE P
  BY <1>33 DEF vars
<1> QED
  BY <1>1, <1>2, <1>3, <1>4, <1>5, <1>6, <1>7, <1>8, <1>9, <1>10, <1>11, <1>12, <1>13, <1>14, <1>15, <1>16, <1>17, <1>18, <1>19, <1>20, <1>21, <1>22, <1>23, <1>24, <1>25, <1>26, <1>27, <1>28, <1>29, <1>30, <1>31, <1>32, <1>33 DEF Next, Progress, Step

\* A call that comes to work with a reservation holds it.
LEMMA HoldPlaces ==
    ASSUME TypeOK, CopiesFit, [Next]_vars, NEW x \in Calls
    PROVE  pc'[x] \in Reserved \cup Signed \cup Releasing =>
               pc[x] \in Reserved \cup Signed \cup Releasing \/ rows'[x] = "held"
<1> DEFINE P ==
           pc'[x] \in Reserved \cup Signed \cup Releasing =>
               pc[x] \in Reserved \cup Signed \cup Releasing \/ rows'[x] = "held"
<1> SUFFICES P
  OBVIOUS
<1>0. /\ op \in [Calls -> Ops] /\ key \in [Calls -> Keys] /\ rec \in [Keys -> Ops]
      /\ pc \in [Calls -> Labels] /\ rows \in [Calls -> {"none", "held", "released", "finalized"}]
      /\ opLock \in [Keys -> Calls \cup {Nobody}] /\ treasury \in Calls \cup {Nobody}
      /\ consumed \subseteq Nonces /\ used \in Nat /\ Nobody \notin Calls
  BY NobodyCalls, DemoFundAssumption DEF TypeOK
<1> USE DEF Reserved, Signed, Releasing
<1>1. ASSUME NEW c \in Calls, Begin(c) PROVE P
  BY <1>1, <1>0 DEF Begin, At, Goto, Keep
<1>2. ASSUME NEW c \in Calls, Resend(c) PROVE P
  BY <1>2, <1>0 DEF Resend, At, Goto, Leave, Keep
<1>3. ASSUME NEW c \in Calls, Rewrite(c) PROVE P
  BY <1>3, <1>0 DEF Rewrite, At, Leave, Goto, Keep, Put
<1>4. ASSUME NEW c \in Calls, AcquireOp(c) PROVE P
  BY <1>4, <1>0 DEF AcquireOp, At, Goto
<1>5. ASSUME NEW c \in Calls, Contend(c) PROVE P
  BY <1>5, <1>0 DEF Contend, At, Goto
<1>6. ASSUME NEW c \in Calls, Recheck(c) PROVE P
  BY <1>6, <1>0 DEF Recheck, At, Goto, Keep
<1>7. ASSUME NEW c \in Calls, ReleaseStale(c) PROVE P
  BY <1>7, <1>0 DEF ReleaseStale, At, Goto
<1>8. ASSUME NEW c \in Calls, ReleaseStaleRow(c) PROVE P
  BY <1>8, <1>0 DEF ReleaseStaleRow, At, Goto
<1>9. ASSUME NEW c \in Calls, Create(c) PROVE P
  BY <1>9, <1>0 DEF Create, At, Goto, Keep, Put
<1>10. ASSUME NEW c \in Calls, Reserve(c) PROVE P
  BY <1>10, <1>0 DEF Reserve, At, Goto
<1>11. ASSUME NEW c \in Calls, Record(c) PROVE P
  BY <1>11, <1>0 DEF Record, At, Goto, Keep, Put
<1>12. ASSUME NEW c \in Calls, AcquireTreasury(c) PROVE P
  BY <1>12, <1>0 DEF AcquireTreasury, At, Goto
<1>13. ASSUME NEW c \in Calls, Approve(c) PROVE P
  BY <1>13, <1>0 DEF Approve, At, Goto
<1>14. ASSUME NEW c \in Calls, Approved(c) PROVE P
  BY <1>14, <1>0 DEF Approved, At, Goto
<1>15. ASSUME NEW c \in Calls, Sign(c) PROVE P
  BY <1>15, <1>0, SignEffect
<1>16. ASSUME NEW c \in Calls, Persist(c) PROVE P
  BY <1>16, <1>0 DEF Persist, At, Goto, Put
<1>17. ASSUME NEW c \in Calls, Broadcast(c) PROVE P
  BY <1>17, <1>0 DEF Broadcast, At, Goto
<1>18. ASSUME NEW c \in Calls, Mark(c) PROVE P
  BY <1>18, <1>0 DEF Mark, At, Goto, Keep, Put
<1>19. ASSUME NEW c \in Calls, Receipt(c) PROVE P
  BY <1>19, <1>0 DEF Receipt, At, Goto
<1>20. ASSUME NEW c \in Calls, Confirm(c) PROVE P
  BY <1>20, <1>0 DEF Confirm, At, Goto, Put
<1>21. ASSUME NEW c \in Calls, Settle(c) PROVE P
  BY <1>21, <1>0 DEF Settle, At, Goto
<1>22. ASSUME NEW c \in Calls, Revert(c) PROVE P
  BY <1>22, <1>0 DEF Revert, At, Goto, Put
<1>23. ASSUME NEW c \in Calls, GiveBack(c) PROVE P
  BY <1>23, <1>0 DEF GiveBack, At, Goto
<1>24. ASSUME NEW c \in Calls, GiveBackRow(c) PROVE P
  BY <1>24, <1>0 DEF GiveBackRow, At, Goto
<1>25. ASSUME NEW c \in Calls, MarkFailed(c) PROVE P
  BY <1>25, <1>0 DEF MarkFailed, At, Goto, Put
<1>26. ASSUME NEW c \in Calls, Unlock(c) PROVE P
  BY <1>26, <1>0 DEF Unlock, At, Leave, Goto, Keep
<1>27. ASSUME NEW c \in Calls, Raise(c) PROVE P
  BY <1>27, <1>0, RaiseEffect DEF Outside, Reserved, Before, Signed, Releasing
<1>28. ASSUME NEW c \in Calls, Crash(c) PROVE P
  BY <1>28, <1>0 DEF Crash, Leave, Goto, Keep
<1>29. ASSUME NEW c \in Calls, Lapse(c) PROVE P
  BY <1>29, <1>0 DEF Lapse
<1>30. ASSUME NEW c \in Calls, NoticeLapse(c) PROVE P
  BY <1>30, <1>0 DEF NoticeLapse
<1>31. ASSUME Expire PROVE P
  BY <1>31, <1>0 DEF Expire
<1>32. ASSUME Mine PROVE P
  BY <1>32, <1>0 DEF Mine
<1>33. ASSUME UNCHANGED vars PROVE P
  BY <1>33, <1>0 DEF vars
<1> QED
  BY <1>1, <1>2, <1>3, <1>4, <1>5, <1>6, <1>7, <1>8, <1>9, <1>10, <1>11, <1>12, <1>13, <1>14, <1>15, <1>16, <1>17, <1>18, <1>19, <1>20, <1>21, <1>22, <1>23, <1>24, <1>25, <1>26, <1>27, <1>28, <1>29, <1>30, <1>31, <1>32, <1>33 DEF Next, Progress, Step

\* A call that comes to give back an older reservation took it from a
\* record without a burn.
LEMMA StalePlaces ==
    ASSUME TypeOK, CopiesFit, [Next]_vars, NEW x \in Calls
    PROVE  pc'[x] \in {"stale", "staleRow"} =>
               \/ pc[x] \in {"stale", "staleRow"} /\ op'[x] = op[x]
               \/ /\ pc[x] = "recheck" /\ op'[x] = rec[key[x]]
                  /\ rec[key[x]].res # Nobody /\ rec[key[x]].by = Nobody
<1> DEFINE P ==
           pc'[x] \in {"stale", "staleRow"} =>
               \/ pc[x] \in {"stale", "staleRow"} /\ op'[x] = op[x]
               \/ /\ pc[x] = "recheck" /\ op'[x] = rec[key[x]]
                  /\ rec[key[x]].res # Nobody /\ rec[key[x]].by = Nobody
<1> SUFFICES P
  OBVIOUS
<1>0. /\ op \in [Calls -> Ops] /\ key \in [Calls -> Keys] /\ rec \in [Keys -> Ops]
      /\ pc \in [Calls -> Labels] /\ rows \in [Calls -> {"none", "held", "released", "finalized"}]
      /\ opLock \in [Keys -> Calls \cup {Nobody}] /\ treasury \in Calls \cup {Nobody}
      /\ consumed \subseteq Nonces /\ used \in Nat /\ Nobody \notin Calls
  BY NobodyCalls, DemoFundAssumption DEF TypeOK
<1>1. ASSUME NEW c \in Calls, Begin(c) PROVE P
  BY <1>1, <1>0 DEF Begin, At, Goto, Keep
<1>2. ASSUME NEW c \in Calls, Resend(c) PROVE P
  BY <1>2, <1>0 DEF Resend, At, Goto, Leave, Keep
<1>3. ASSUME NEW c \in Calls, Rewrite(c) PROVE P
  BY <1>3, <1>0 DEF Rewrite, At, Leave, Goto, Keep, Put
<1>4. ASSUME NEW c \in Calls, AcquireOp(c) PROVE P
  BY <1>4, <1>0 DEF AcquireOp, At, Goto
<1>5. ASSUME NEW c \in Calls, Contend(c) PROVE P
  BY <1>5, <1>0 DEF Contend, At, Goto
<1>6. ASSUME NEW c \in Calls, Recheck(c) PROVE P
  BY <1>6, <1>0 DEF Recheck, At, Goto, Keep
<1>7. ASSUME NEW c \in Calls, ReleaseStale(c) PROVE P
  BY <1>7, <1>0 DEF ReleaseStale, At, Goto
<1>8. ASSUME NEW c \in Calls, ReleaseStaleRow(c) PROVE P
  BY <1>8, <1>0 DEF ReleaseStaleRow, At, Goto
<1>9. ASSUME NEW c \in Calls, Create(c) PROVE P
  BY <1>9, <1>0 DEF Create, At, Goto, Keep, Put
<1>10. ASSUME NEW c \in Calls, Reserve(c) PROVE P
  BY <1>10, <1>0 DEF Reserve, At, Goto
<1>11. ASSUME NEW c \in Calls, Record(c) PROVE P
  BY <1>11, <1>0 DEF Record, At, Goto, Keep, Put
<1>12. ASSUME NEW c \in Calls, AcquireTreasury(c) PROVE P
  BY <1>12, <1>0 DEF AcquireTreasury, At, Goto
<1>13. ASSUME NEW c \in Calls, Approve(c) PROVE P
  BY <1>13, <1>0 DEF Approve, At, Goto
<1>14. ASSUME NEW c \in Calls, Approved(c) PROVE P
  BY <1>14, <1>0 DEF Approved, At, Goto
<1>15. ASSUME NEW c \in Calls, Sign(c) PROVE P
  BY <1>15, <1>0, SignEffect
<1>16. ASSUME NEW c \in Calls, Persist(c) PROVE P
  BY <1>16, <1>0 DEF Persist, At, Goto, Put
<1>17. ASSUME NEW c \in Calls, Broadcast(c) PROVE P
  BY <1>17, <1>0 DEF Broadcast, At, Goto
<1>18. ASSUME NEW c \in Calls, Mark(c) PROVE P
  BY <1>18, <1>0 DEF Mark, At, Goto, Keep, Put
<1>19. ASSUME NEW c \in Calls, Receipt(c) PROVE P
  BY <1>19, <1>0 DEF Receipt, At, Goto
<1>20. ASSUME NEW c \in Calls, Confirm(c) PROVE P
  BY <1>20, <1>0 DEF Confirm, At, Goto, Put
<1>21. ASSUME NEW c \in Calls, Settle(c) PROVE P
  BY <1>21, <1>0 DEF Settle, At, Goto
<1>22. ASSUME NEW c \in Calls, Revert(c) PROVE P
  BY <1>22, <1>0 DEF Revert, At, Goto, Put
<1>23. ASSUME NEW c \in Calls, GiveBack(c) PROVE P
  BY <1>23, <1>0 DEF GiveBack, At, Goto
<1>24. ASSUME NEW c \in Calls, GiveBackRow(c) PROVE P
  BY <1>24, <1>0 DEF GiveBackRow, At, Goto
<1>25. ASSUME NEW c \in Calls, MarkFailed(c) PROVE P
  BY <1>25, <1>0 DEF MarkFailed, At, Goto, Put
<1>26. ASSUME NEW c \in Calls, Unlock(c) PROVE P
  BY <1>26, <1>0 DEF Unlock, At, Leave, Goto, Keep
<1>27. ASSUME NEW c \in Calls, Raise(c) PROVE P
  BY <1>27, <1>0, RaiseEffect
<1>28. ASSUME NEW c \in Calls, Crash(c) PROVE P
  BY <1>28, <1>0 DEF Crash, Leave, Goto, Keep
<1>29. ASSUME NEW c \in Calls, Lapse(c) PROVE P
  BY <1>29, <1>0 DEF Lapse
<1>30. ASSUME NEW c \in Calls, NoticeLapse(c) PROVE P
  BY <1>30, <1>0 DEF NoticeLapse
<1>31. ASSUME Expire PROVE P
  BY <1>31, <1>0 DEF Expire
<1>32. ASSUME Mine PROVE P
  BY <1>32, <1>0 DEF Mine
<1>33. ASSUME UNCHANGED vars PROVE P
  BY <1>33, <1>0 DEF vars
<1> QED
  BY <1>1, <1>2, <1>3, <1>4, <1>5, <1>6, <1>7, <1>8, <1>9, <1>10, <1>11, <1>12, <1>13, <1>14, <1>15, <1>16, <1>17, <1>18, <1>19, <1>20, <1>21, <1>22, <1>23, <1>24, <1>25, <1>26, <1>27, <1>28, <1>29, <1>30, <1>31, <1>32, <1>33 DEF Next, Progress, Step

\* Two calls of a key are not inside together.
LEMMA Alone ==
    ASSUME LeasesHeld, ~lapsed, NEW c \in Calls, NEW d \in Calls, key[c] = key[d],
           pc[c] \in Inside, pc[d] \in Inside
    PROVE  c = d
BY DEF LeasesHeld

\* A reservation that is given back for an older operation is not of a burn
\* that is known, and will not be while it is given back.
LEMMA StaleUnnamed ==
    ASSUME FundShape, LeasesHeld, ReservesHeld, ~lapsed, [Next]_vars,
           NEW d \in Calls, pc[d] \in {"stale", "staleRow"}, NEW r \in Calls, r = op[d].res
    PROVE  /\ key[r] = key[d] /\ ~Named(r) /\ ~Named(r)'
           /\ pc[r] \notin Reserved \cup Signed \cup Releasing
<1> USE DEF FundShape
<1>1. key[r] = key[d] /\ r # Nobody
  BY NobodyCalls DEF KeysFit
<1>2. ~Named(op[d].res)
  BY DEF ReservesHeld
<1>3. ~Named(r)
  BY <1>2
<1>4. pc[r] \notin Reserved \cup Signed \cup Releasing
  BY <1>1, Alone DEF Inside, Reserved, Signed, Releasing
<1> QED
  BY <1>1, <1>3, <1>4, NewName DEF Signed

\* No operation gives back the reservation of a burn that is known.
LEMMA ReservesStep == FundShape /\ LeasesHeld /\ ReservesHeld /\ [Next]_vars => ReservesHeld'
<1> SUFFICES ASSUME FundShape, LeasesHeld, ReservesHeld, [Next]_vars, ~lapsed', NEW x \in Calls
             PROVE  /\ pc'[x] \in Reserved \cup Signed \cup Releasing => rows'[x] = "held"
                    /\ Named(x)' => rows'[x] \in {"held", "finalized"} \/ x \in reverted'
                    /\ pc'[x] \in {"stale", "staleRow"} => ~Named(op[x].res)'
  BY DEF ReservesHeld
<1> USE DEF FundShape
<1>0. key' = key /\ ~lapsed /\ reverted \subseteq reverted'
  BY KeyStays, LocksMove, RevertedStep
<1>1. ASSUME pc'[x] \in Reserved \cup Signed \cup Releasing PROVE rows'[x] = "held"
  <2>1. CASE pc[x] \in Reserved \cup Signed \cup Releasing
    <3>1. rows[x] = "held"
      BY <1>0, <2>1 DEF ReservesHeld
    <3>2. ~\E d \in Calls : pc[d] = "staleRow" /\ op[d].res = x
      BY <1>0, <2>1, StaleUnnamed
    <3> QED
      BY <1>1, <3>1, <3>2, RowStep DEF Reserved, Signed, Releasing
  <2> QED
    BY <1>1, <2>1, HoldPlaces
<1>2. ASSUME Named(x)' PROVE rows'[x] \in {"held", "finalized"} \/ x \in reverted'
  <2>1. rows[x] \in {"held", "finalized"} \/ x \in reverted
    <3>1. CASE Named(x)
      BY <1>0, <3>1 DEF ReservesHeld
    <3>2. CASE pc[x] \in Signed
      BY <1>0, <3>2 DEF ReservesHeld
    <3> QED
      BY <1>2, <3>1, <3>2, NewName DEF Signed
  <2>2. ~\E d \in Calls : pc[d] = "staleRow" /\ op[d].res = x
    BY <1>0, <1>2, StaleUnnamed
  <2>3. pc[x] # "giveBackRow"
    BY <1>2, NewName DEF NamesFit, Burning, Signed
  <2>4. pc[x] = "revertRow" => x \in reverted
    BY DEF RevertsFit
  <2> QED
    BY <1>0, <2>1, <2>2, <2>3, <2>4, RowStep
<1>3. ASSUME pc'[x] \in {"stale", "staleRow"} PROVE ~Named(op[x].res)'
  <2>1. PICK r \in Calls : r = op'[x].res
    <3>1. op'[x].res # Nobody /\ op'[x].res \in Calls \cup {Nobody}
      BY <1>3, ShapeStep DEF CopiesFit, TypeOK, Ops
    <3> QED
      BY <3>1
  <2>2. SUFFICES ~Named(r)'
    BY <2>1 DEF Named, Sent, Tx
  <2>3. CASE pc[x] \in {"stale", "staleRow"} /\ op'[x] = op[x]
    BY <1>0, <2>1, <2>3, StaleUnnamed
  <2>4. CASE /\ pc[x] = "recheck" /\ op'[x] = rec[key[x]]
             /\ rec[key[x]].res # Nobody /\ rec[key[x]].by = Nobody
    <3>1. key[x] \in Keys
      BY DEF TypeOK
    <3>2. ~Named(rec[key[x]].res) /\ key[r] = key[x]
      BY <2>1, <2>4, <3>1 DEF RecordsFit, KeysFit
    <3>3. ~Named(r)
      BY <2>1, <2>4, <3>2
    <3>4. pc[r] \notin Signed
      BY <1>0, <2>4, <3>2, Alone DEF Inside, Signed
    <3> QED
      BY <3>3, <3>4, NewName DEF Signed
  <2> QED
    BY <1>3, <2>3, <2>4, StalePlaces
<1> QED
  BY <1>1, <1>2, <1>3

---------------------------------------------------------------------------
(* Records of burns. *)

\* What a step does to the record of a key, and who does it.
LEMMA RecordStep ==
    ASSUME TypeOK, CopiesFit, [Next]_vars, NEW k \in Keys
    PROVE  \/ rec'[k] = rec[k]
           \/ \E d \in Calls :
                  /\ key[d] = k
                  /\ \/ pc[d] \in {"create", "record"} /\ ~HasBurn(rec[k])'
                     \/ /\ pc[d] = "persist" /\ pc'[d] = "broadcast"
                        /\ rec'[k].by = d /\ HasBurn(rec[k])'
                     \/ /\ pc[d] \in {"mark", "confirm"}
                        /\ rec'[k].by = d /\ HasBurn(rec[k])'
                     \/ pc[d] = "revert" /\ pc'[d] = "revertBack" /\ rec'[k].by = d
                     \/ /\ pc[d] = "rewrite" /\ rec'[k].by = op[d].by /\ HasBurn(rec[k])'
                        /\ k \notin disturbed' => ~HasBurn(rec[k]) \/ rec[k].by = op[d].by
                     \/ /\ pc[d] = "markFailed" /\ ~HasBurn(rec[k])'
                        /\ k \notin disturbed' => ~HasBurn(rec[k])
<1> DEFINE P ==
           \/ rec'[k] = rec[k]
           \/ \E d \in Calls :
                  /\ key[d] = k
                  /\ \/ pc[d] \in {"create", "record"} /\ ~HasBurn(rec[k])'
                     \/ /\ pc[d] = "persist" /\ pc'[d] = "broadcast"
                        /\ rec'[k].by = d /\ HasBurn(rec[k])'
                     \/ /\ pc[d] \in {"mark", "confirm"}
                        /\ rec'[k].by = d /\ HasBurn(rec[k])'
                     \/ pc[d] = "revert" /\ pc'[d] = "revertBack" /\ rec'[k].by = d
                     \/ /\ pc[d] = "rewrite" /\ rec'[k].by = op[d].by /\ HasBurn(rec[k])'
                        /\ k \notin disturbed' => ~HasBurn(rec[k]) \/ rec[k].by = op[d].by
                     \/ /\ pc[d] = "markFailed" /\ ~HasBurn(rec[k])'
                        /\ k \notin disturbed' => ~HasBurn(rec[k])
<1> SUFFICES P
  OBVIOUS
<1>0. /\ op \in [Calls -> Ops] /\ key \in [Calls -> Keys] /\ rec \in [Keys -> Ops]
      /\ pc \in [Calls -> Labels] /\ rows \in [Calls -> {"none", "held", "released", "finalized"}]
      /\ opLock \in [Keys -> Calls \cup {Nobody}] /\ treasury \in Calls \cup {Nobody}
      /\ consumed \subseteq Nonces /\ used \in Nat /\ Nobody \notin Calls
  BY NobodyCalls, DemoFundAssumption DEF TypeOK
<1>1. ASSUME NEW c \in Calls, Begin(c) PROVE P
  BY <1>1 DEF Begin, store
<1>2. ASSUME NEW c \in Calls, Resend(c) PROVE P
  BY <1>2 DEF Resend, store
<1>3. ASSUME NEW c \in Calls, Rewrite(c) PROVE P
  BY <1>3, <1>0 DEF Rewrite, Disturb, Forgets, At, Goto, Put, Ops, HasBurn, CopiesFit, Burning, Signed, Reserved, Outside
<1>4. ASSUME NEW c \in Calls, AcquireOp(c) PROVE P
  BY <1>4 DEF AcquireOp, store
<1>5. ASSUME NEW c \in Calls, Contend(c) PROVE P
  BY <1>5 DEF Contend, store
<1>6. ASSUME NEW c \in Calls, Recheck(c) PROVE P
  BY <1>6 DEF Recheck, store
<1>7. ASSUME NEW c \in Calls, ReleaseStale(c) PROVE P
  BY <1>7 DEF ReleaseStale
<1>8. ASSUME NEW c \in Calls, ReleaseStaleRow(c) PROVE P
  BY <1>8 DEF ReleaseStaleRow
<1>9. ASSUME NEW c \in Calls, Create(c) PROVE P
  <2>1. [NoOp EXCEPT !.status = "created"].by = Nobody
    BY DEF NoOp
  <2> QED
    BY <1>9, <1>0, <2>1 DEF Create, At, Put, HasBurn
<1>10. ASSUME NEW c \in Calls, Reserve(c) PROVE P
  BY <1>10 DEF Reserve
<1>11. ASSUME NEW c \in Calls, Record(c) PROVE P
  BY <1>11, <1>0 DEF Record, At, Goto, Put, Ops, HasBurn, CopiesFit, Burning, Signed, Reserved, Outside
<1>12. ASSUME NEW c \in Calls, AcquireTreasury(c) PROVE P
  BY <1>12 DEF AcquireTreasury, store
<1>13. ASSUME NEW c \in Calls, Approve(c) PROVE P
  BY <1>13 DEF Approve, store
<1>14. ASSUME NEW c \in Calls, Approved(c) PROVE P
  BY <1>14 DEF Approved, store
<1>15. ASSUME NEW c \in Calls, Sign(c) PROVE P
  BY <1>15 DEF Sign, store
<1>16. ASSUME NEW c \in Calls, Persist(c) PROVE P
  BY <1>16, <1>0 DEF Persist, At, Goto, Put, Ops, HasBurn, CopiesFit, Burning, Signed, Reserved, Outside
<1>17. ASSUME NEW c \in Calls, Broadcast(c) PROVE P
  BY <1>17 DEF Broadcast, store
<1>18. ASSUME NEW c \in Calls, Mark(c) PROVE P
  BY <1>18, <1>0 DEF Mark, At, Goto, Put, Ops, HasBurn, CopiesFit, Burning, Signed, Reserved, Outside
<1>19. ASSUME NEW c \in Calls, Receipt(c) PROVE P
  BY <1>19 DEF Receipt, store
<1>20. ASSUME NEW c \in Calls, Confirm(c) PROVE P
  BY <1>20, <1>0 DEF Confirm, At, Goto, Put, Ops, HasBurn, CopiesFit, Burning, Signed, Reserved, Outside
<1>21. ASSUME NEW c \in Calls, Settle(c) PROVE P
  BY <1>21 DEF Settle
<1>22. ASSUME NEW c \in Calls, Revert(c) PROVE P
  BY <1>22, <1>0 DEF Revert, At, Goto, Put, Ops, HasBurn, CopiesFit, Burning, Signed, Reserved, Outside
<1>23. ASSUME NEW c \in Calls, GiveBack(c) PROVE P
  BY <1>23 DEF GiveBack
<1>24. ASSUME NEW c \in Calls, GiveBackRow(c) PROVE P
  BY <1>24 DEF GiveBackRow
<1>25. ASSUME NEW c \in Calls, MarkFailed(c) PROVE P
  BY <1>25, <1>0 DEF MarkFailed, Disturb, Forgets, At, Put, HasBurn, Failed, NoOp
<1>26. ASSUME NEW c \in Calls, Unlock(c) PROVE P
  BY <1>26 DEF Unlock, store
<1>27. ASSUME NEW c \in Calls, Raise(c) PROVE P
  BY <1>27 DEF Raise, store
<1>28. ASSUME NEW c \in Calls, Crash(c) PROVE P
  BY <1>28 DEF Crash, store
<1>29. ASSUME NEW c \in Calls, Lapse(c) PROVE P
  BY <1>29 DEF Lapse, store
<1>30. ASSUME NEW c \in Calls, NoticeLapse(c) PROVE P
  BY <1>30 DEF NoticeLapse, store
<1>31. ASSUME Expire PROVE P
  BY <1>31 DEF Expire, store
<1>32. ASSUME Mine PROVE P
  BY <1>32 DEF Mine, store
<1>33. ASSUME UNCHANGED vars PROVE P
  BY <1>33 DEF vars
<1> QED
  BY <1>1, <1>2, <1>3, <1>4, <1>5, <1>6, <1>7, <1>8, <1>9, <1>10, <1>11, <1>12, <1>13, <1>14, <1>15, <1>16, <1>17, <1>18, <1>19, <1>20, <1>21, <1>22, <1>23, <1>24, <1>25, <1>26, <1>27, <1>28, <1>29, <1>30, <1>31, <1>32, <1>33 DEF Next, Progress, Step

\* A key whose record was written over stays one.
LEMMA DisturbedStays ==
    ASSUME TypeOK, [Next]_vars
    PROVE  disturbed \subseteq disturbed'
<1> DEFINE P ==
           disturbed \subseteq disturbed'
<1> SUFFICES P
  OBVIOUS
<1>0. /\ op \in [Calls -> Ops] /\ key \in [Calls -> Keys] /\ rec \in [Keys -> Ops]
      /\ pc \in [Calls -> Labels] /\ rows \in [Calls -> {"none", "held", "released", "finalized"}]
      /\ opLock \in [Keys -> Calls \cup {Nobody}] /\ treasury \in Calls \cup {Nobody}
      /\ consumed \subseteq Nonces /\ used \in Nat /\ Nobody \notin Calls
  BY NobodyCalls, DemoFundAssumption DEF TypeOK
<1>1. ASSUME NEW c \in Calls, Begin(c) PROVE P
  BY <1>1 DEF Begin, history
<1>2. ASSUME NEW c \in Calls, Resend(c) PROVE P
  BY <1>2 DEF Resend, history
<1>3. ASSUME NEW c \in Calls, Rewrite(c) PROVE P
  BY <1>3 DEF Rewrite, Disturb
<1>4. ASSUME NEW c \in Calls, AcquireOp(c) PROVE P
  BY <1>4 DEF AcquireOp, history
<1>5. ASSUME NEW c \in Calls, Contend(c) PROVE P
  BY <1>5 DEF Contend, history
<1>6. ASSUME NEW c \in Calls, Recheck(c) PROVE P
  BY <1>6 DEF Recheck, history
<1>7. ASSUME NEW c \in Calls, ReleaseStale(c) PROVE P
  BY <1>7 DEF ReleaseStale, history
<1>8. ASSUME NEW c \in Calls, ReleaseStaleRow(c) PROVE P
  BY <1>8 DEF ReleaseStaleRow
<1>9. ASSUME NEW c \in Calls, Create(c) PROVE P
  BY <1>9 DEF Create, history
<1>10. ASSUME NEW c \in Calls, Reserve(c) PROVE P
  BY <1>10 DEF Reserve, history
<1>11. ASSUME NEW c \in Calls, Record(c) PROVE P
  BY <1>11 DEF Record, history
<1>12. ASSUME NEW c \in Calls, AcquireTreasury(c) PROVE P
  BY <1>12 DEF AcquireTreasury, history
<1>13. ASSUME NEW c \in Calls, Approve(c) PROVE P
  BY <1>13 DEF Approve, history
<1>14. ASSUME NEW c \in Calls, Approved(c) PROVE P
  BY <1>14 DEF Approved, history
<1>15. ASSUME NEW c \in Calls, Sign(c) PROVE P
  BY <1>15 DEF Sign, history
<1>16. ASSUME NEW c \in Calls, Persist(c) PROVE P
  BY <1>16 DEF Persist, history
<1>17. ASSUME NEW c \in Calls, Broadcast(c) PROVE P
  BY <1>17 DEF Broadcast, history
<1>18. ASSUME NEW c \in Calls, Mark(c) PROVE P
  BY <1>18 DEF Mark, history
<1>19. ASSUME NEW c \in Calls, Receipt(c) PROVE P
  BY <1>19 DEF Receipt
<1>20. ASSUME NEW c \in Calls, Confirm(c) PROVE P
  BY <1>20 DEF Confirm, history
<1>21. ASSUME NEW c \in Calls, Settle(c) PROVE P
  BY <1>21 DEF Settle, history
<1>22. ASSUME NEW c \in Calls, Revert(c) PROVE P
  BY <1>22 DEF Revert, history
<1>23. ASSUME NEW c \in Calls, GiveBack(c) PROVE P
  BY <1>23 DEF GiveBack, history
<1>24. ASSUME NEW c \in Calls, GiveBackRow(c) PROVE P
  BY <1>24 DEF GiveBackRow, history
<1>25. ASSUME NEW c \in Calls, MarkFailed(c) PROVE P
  BY <1>25 DEF MarkFailed, Disturb
<1>26. ASSUME NEW c \in Calls, Unlock(c) PROVE P
  BY <1>26 DEF Unlock, history
<1>27. ASSUME NEW c \in Calls, Raise(c) PROVE P
  BY <1>27 DEF Raise
<1>28. ASSUME NEW c \in Calls, Crash(c) PROVE P
  BY <1>28 DEF Crash
<1>29. ASSUME NEW c \in Calls, Lapse(c) PROVE P
  BY <1>29 DEF Lapse
<1>30. ASSUME NEW c \in Calls, NoticeLapse(c) PROVE P
  BY <1>30 DEF NoticeLapse, history
<1>31. ASSUME Expire PROVE P
  BY <1>31 DEF Expire, history
<1>32. ASSUME Mine PROVE P
  BY <1>32 DEF Mine, history
<1>33. ASSUME UNCHANGED vars PROVE P
  BY <1>33 DEF vars
<1> QED
  BY <1>1, <1>2, <1>3, <1>4, <1>5, <1>6, <1>7, <1>8, <1>9, <1>10, <1>11, <1>12, <1>13, <1>14, <1>15, <1>16, <1>17, <1>18, <1>19, <1>20, <1>21, <1>22, <1>23, <1>24, <1>25, <1>26, <1>27, <1>28, <1>29, <1>30, <1>31, <1>32, <1>33 DEF Next, Progress, Step

\* A call comes to prepare a burn where its second look finds none.
LEMMA PreparingPlaces ==
    ASSUME TypeOK, CopiesFit, [Next]_vars, NEW x \in Calls
    PROVE  pc'[x] \in Preparing =>
               \/ pc[x] \in Preparing
               \/ pc[x] = "recheck" /\ ~HasBurn(rec[key[x]]) /\ rec' = rec
<1> DEFINE P ==
           pc'[x] \in Preparing =>
               \/ pc[x] \in Preparing
               \/ pc[x] = "recheck" /\ ~HasBurn(rec[key[x]]) /\ rec' = rec
<1> SUFFICES P
  OBVIOUS
<1>0. /\ op \in [Calls -> Ops] /\ key \in [Calls -> Keys] /\ rec \in [Keys -> Ops]
      /\ pc \in [Calls -> Labels] /\ rows \in [Calls -> {"none", "held", "released", "finalized"}]
      /\ opLock \in [Keys -> Calls \cup {Nobody}] /\ treasury \in Calls \cup {Nobody}
      /\ consumed \subseteq Nonces /\ used \in Nat /\ Nobody \notin Calls
  BY NobodyCalls, DemoFundAssumption DEF TypeOK
<1> USE DEF Preparing, Reserved
<1>1. ASSUME NEW c \in Calls, Begin(c) PROVE P
  BY <1>1, <1>0 DEF Begin, At, Goto, Keep
<1>2. ASSUME NEW c \in Calls, Resend(c) PROVE P
  BY <1>2, <1>0 DEF Resend, At, Goto, Leave, Keep
<1>3. ASSUME NEW c \in Calls, Rewrite(c) PROVE P
  BY <1>3, <1>0 DEF Rewrite, At, Leave, Goto, Keep, Put
<1>4. ASSUME NEW c \in Calls, AcquireOp(c) PROVE P
  BY <1>4, <1>0 DEF AcquireOp, At, Goto
<1>5. ASSUME NEW c \in Calls, Contend(c) PROVE P
  BY <1>5, <1>0 DEF Contend, At, Goto
<1>6. ASSUME NEW c \in Calls, Recheck(c) PROVE P
  BY <1>6, <1>0 DEF Recheck, At, Goto, Keep, store
<1>7. ASSUME NEW c \in Calls, ReleaseStale(c) PROVE P
  BY <1>7, <1>0 DEF ReleaseStale, At, Goto
<1>8. ASSUME NEW c \in Calls, ReleaseStaleRow(c) PROVE P
  BY <1>8, <1>0 DEF ReleaseStaleRow, At, Goto
<1>9. ASSUME NEW c \in Calls, Create(c) PROVE P
  BY <1>9, <1>0 DEF Create, At, Goto, Keep, Put
<1>10. ASSUME NEW c \in Calls, Reserve(c) PROVE P
  BY <1>10, <1>0 DEF Reserve, At, Goto
<1>11. ASSUME NEW c \in Calls, Record(c) PROVE P
  BY <1>11, <1>0 DEF Record, At, Goto, Keep, Put
<1>12. ASSUME NEW c \in Calls, AcquireTreasury(c) PROVE P
  BY <1>12, <1>0 DEF AcquireTreasury, At, Goto
<1>13. ASSUME NEW c \in Calls, Approve(c) PROVE P
  BY <1>13, <1>0 DEF Approve, At, Goto
<1>14. ASSUME NEW c \in Calls, Approved(c) PROVE P
  BY <1>14, <1>0 DEF Approved, At, Goto
<1>15. ASSUME NEW c \in Calls, Sign(c) PROVE P
  BY <1>15, <1>0, SignEffect
<1>16. ASSUME NEW c \in Calls, Persist(c) PROVE P
  BY <1>16, <1>0 DEF Persist, At, Goto, Put
<1>17. ASSUME NEW c \in Calls, Broadcast(c) PROVE P
  BY <1>17, <1>0 DEF Broadcast, At, Goto
<1>18. ASSUME NEW c \in Calls, Mark(c) PROVE P
  BY <1>18, <1>0 DEF Mark, At, Goto, Keep, Put
<1>19. ASSUME NEW c \in Calls, Receipt(c) PROVE P
  BY <1>19, <1>0 DEF Receipt, At, Goto
<1>20. ASSUME NEW c \in Calls, Confirm(c) PROVE P
  BY <1>20, <1>0 DEF Confirm, At, Goto, Put
<1>21. ASSUME NEW c \in Calls, Settle(c) PROVE P
  BY <1>21, <1>0 DEF Settle, At, Goto
<1>22. ASSUME NEW c \in Calls, Revert(c) PROVE P
  BY <1>22, <1>0 DEF Revert, At, Goto, Put
<1>23. ASSUME NEW c \in Calls, GiveBack(c) PROVE P
  BY <1>23, <1>0 DEF GiveBack, At, Goto
<1>24. ASSUME NEW c \in Calls, GiveBackRow(c) PROVE P
  BY <1>24, <1>0 DEF GiveBackRow, At, Goto
<1>25. ASSUME NEW c \in Calls, MarkFailed(c) PROVE P
  BY <1>25, <1>0 DEF MarkFailed, At, Goto, Put
<1>26. ASSUME NEW c \in Calls, Unlock(c) PROVE P
  BY <1>26, <1>0 DEF Unlock, At, Leave, Goto, Keep
<1>27. ASSUME NEW c \in Calls, Raise(c) PROVE P
  BY <1>27, <1>0, RaiseEffect DEF Outside, Reserved, Before
<1>28. ASSUME NEW c \in Calls, Crash(c) PROVE P
  BY <1>28, <1>0 DEF Crash, Leave, Goto, Keep
<1>29. ASSUME NEW c \in Calls, Lapse(c) PROVE P
  BY <1>29, <1>0 DEF Lapse
<1>30. ASSUME NEW c \in Calls, NoticeLapse(c) PROVE P
  BY <1>30, <1>0 DEF NoticeLapse
<1>31. ASSUME Expire PROVE P
  BY <1>31, <1>0 DEF Expire
<1>32. ASSUME Mine PROVE P
  BY <1>32, <1>0 DEF Mine
<1>33. ASSUME UNCHANGED vars PROVE P
  BY <1>33, <1>0 DEF vars
<1> QED
  BY <1>1, <1>2, <1>3, <1>4, <1>5, <1>6, <1>7, <1>8, <1>9, <1>10, <1>11, <1>12, <1>13, <1>14, <1>15, <1>16, <1>17, <1>18, <1>19, <1>20, <1>21, <1>22, <1>23, <1>24, <1>25, <1>26, <1>27, <1>28, <1>29, <1>30, <1>31, <1>32, <1>33 DEF Next, Progress, Step

\* A call comes to a burn that is under way by recording it.
LEMMA BurningPlaces ==
    ASSUME TypeOK, CopiesFit, [Next]_vars, NEW x \in Calls
    PROVE  pc'[x] \in {"broadcast", "mark", "receipt", "confirm", "revert"} =>
               \/ pc[x] \in {"broadcast", "mark", "receipt", "confirm", "revert"}
               \/ pc[x] = "persist" /\ rec'[key[x]].by = x /\ HasBurn(rec[key[x]])'
<1> DEFINE P ==
           pc'[x] \in {"broadcast", "mark", "receipt", "confirm", "revert"} =>
               \/ pc[x] \in {"broadcast", "mark", "receipt", "confirm", "revert"}
               \/ pc[x] = "persist" /\ rec'[key[x]].by = x /\ HasBurn(rec[key[x]])'
<1> SUFFICES P
  OBVIOUS
<1>0. /\ op \in [Calls -> Ops] /\ key \in [Calls -> Keys] /\ rec \in [Keys -> Ops]
      /\ pc \in [Calls -> Labels] /\ rows \in [Calls -> {"none", "held", "released", "finalized"}]
      /\ opLock \in [Keys -> Calls \cup {Nobody}] /\ treasury \in Calls \cup {Nobody}
      /\ consumed \subseteq Nonces /\ used \in Nat /\ Nobody \notin Calls
  BY NobodyCalls, DemoFundAssumption DEF TypeOK
<1>1. ASSUME NEW c \in Calls, Begin(c) PROVE P
  BY <1>1, <1>0 DEF Begin, At, Goto, Keep
<1>2. ASSUME NEW c \in Calls, Resend(c) PROVE P
  BY <1>2, <1>0 DEF Resend, At, Goto, Leave, Keep
<1>3. ASSUME NEW c \in Calls, Rewrite(c) PROVE P
  BY <1>3, <1>0 DEF Rewrite, At, Leave, Goto, Keep, Put
<1>4. ASSUME NEW c \in Calls, AcquireOp(c) PROVE P
  BY <1>4, <1>0 DEF AcquireOp, At, Goto
<1>5. ASSUME NEW c \in Calls, Contend(c) PROVE P
  BY <1>5, <1>0 DEF Contend, At, Goto
<1>6. ASSUME NEW c \in Calls, Recheck(c) PROVE P
  BY <1>6, <1>0 DEF Recheck, At, Goto, Keep
<1>7. ASSUME NEW c \in Calls, ReleaseStale(c) PROVE P
  BY <1>7, <1>0 DEF ReleaseStale, At, Goto
<1>8. ASSUME NEW c \in Calls, ReleaseStaleRow(c) PROVE P
  BY <1>8, <1>0 DEF ReleaseStaleRow, At, Goto
<1>9. ASSUME NEW c \in Calls, Create(c) PROVE P
  BY <1>9, <1>0 DEF Create, At, Goto, Keep, Put
<1>10. ASSUME NEW c \in Calls, Reserve(c) PROVE P
  BY <1>10, <1>0 DEF Reserve, At, Goto
<1>11. ASSUME NEW c \in Calls, Record(c) PROVE P
  BY <1>11, <1>0 DEF Record, At, Goto, Keep, Put
<1>12. ASSUME NEW c \in Calls, AcquireTreasury(c) PROVE P
  BY <1>12, <1>0 DEF AcquireTreasury, At, Goto
<1>13. ASSUME NEW c \in Calls, Approve(c) PROVE P
  BY <1>13, <1>0 DEF Approve, At, Goto
<1>14. ASSUME NEW c \in Calls, Approved(c) PROVE P
  BY <1>14, <1>0 DEF Approved, At, Goto
<1>15. ASSUME NEW c \in Calls, Sign(c) PROVE P
  BY <1>15, <1>0, SignEffect
<1>16. ASSUME NEW c \in Calls, Persist(c) PROVE P
  BY <1>16, <1>0 DEF Persist, At, Goto, Put, Ops, HasBurn, CopiesFit, Burning, Signed, Reserved, Outside
<1>17. ASSUME NEW c \in Calls, Broadcast(c) PROVE P
  BY <1>17, <1>0 DEF Broadcast, At, Goto
<1>18. ASSUME NEW c \in Calls, Mark(c) PROVE P
  BY <1>18, <1>0 DEF Mark, At, Goto, Keep, Put
<1>19. ASSUME NEW c \in Calls, Receipt(c) PROVE P
  BY <1>19, <1>0 DEF Receipt, At, Goto
<1>20. ASSUME NEW c \in Calls, Confirm(c) PROVE P
  BY <1>20, <1>0 DEF Confirm, At, Goto, Put
<1>21. ASSUME NEW c \in Calls, Settle(c) PROVE P
  BY <1>21, <1>0 DEF Settle, At, Goto
<1>22. ASSUME NEW c \in Calls, Revert(c) PROVE P
  BY <1>22, <1>0 DEF Revert, At, Goto, Put
<1>23. ASSUME NEW c \in Calls, GiveBack(c) PROVE P
  BY <1>23, <1>0 DEF GiveBack, At, Goto
<1>24. ASSUME NEW c \in Calls, GiveBackRow(c) PROVE P
  BY <1>24, <1>0 DEF GiveBackRow, At, Goto
<1>25. ASSUME NEW c \in Calls, MarkFailed(c) PROVE P
  BY <1>25, <1>0 DEF MarkFailed, At, Goto, Put
<1>26. ASSUME NEW c \in Calls, Unlock(c) PROVE P
  BY <1>26, <1>0 DEF Unlock, At, Leave, Goto, Keep
<1>27. ASSUME NEW c \in Calls, Raise(c) PROVE P
  BY <1>27, <1>0, RaiseEffect DEF Outside, Reserved, Before
<1>28. ASSUME NEW c \in Calls, Crash(c) PROVE P
  BY <1>28, <1>0 DEF Crash, Leave, Goto, Keep
<1>29. ASSUME NEW c \in Calls, Lapse(c) PROVE P
  BY <1>29, <1>0 DEF Lapse
<1>30. ASSUME NEW c \in Calls, NoticeLapse(c) PROVE P
  BY <1>30, <1>0 DEF NoticeLapse
<1>31. ASSUME Expire PROVE P
  BY <1>31, <1>0 DEF Expire
<1>32. ASSUME Mine PROVE P
  BY <1>32, <1>0 DEF Mine
<1>33. ASSUME UNCHANGED vars PROVE P
  BY <1>33, <1>0 DEF vars
<1> QED
  BY <1>1, <1>2, <1>3, <1>4, <1>5, <1>6, <1>7, <1>8, <1>9, <1>10, <1>11, <1>12, <1>13, <1>14, <1>15, <1>16, <1>17, <1>18, <1>19, <1>20, <1>21, <1>22, <1>23, <1>24, <1>25, <1>26, <1>27, <1>28, <1>29, <1>30, <1>31, <1>32, <1>33 DEF Next, Progress, Step

\* A call comes to send a burn again with the record it found.
LEMMA OutsidePlaces ==
    ASSUME TypeOK, CopiesFit, [Next]_vars, NEW x \in Calls
    PROVE  pc'[x] \in Outside =>
               \/ pc[x] \in Outside /\ op'[x] = op[x]
               \/ op'[x].by = rec[key[x]].by /\ HasBurn(rec[key[x]]) /\ rec' = rec
<1> DEFINE P ==
           pc'[x] \in Outside =>
               \/ pc[x] \in Outside /\ op'[x] = op[x]
               \/ op'[x].by = rec[key[x]].by /\ HasBurn(rec[key[x]]) /\ rec' = rec
<1> SUFFICES P
  OBVIOUS
<1>0. /\ op \in [Calls -> Ops] /\ key \in [Calls -> Keys] /\ rec \in [Keys -> Ops]
      /\ pc \in [Calls -> Labels] /\ rows \in [Calls -> {"none", "held", "released", "finalized"}]
      /\ opLock \in [Keys -> Calls \cup {Nobody}] /\ treasury \in Calls \cup {Nobody}
      /\ consumed \subseteq Nonces /\ used \in Nat /\ Nobody \notin Calls
  BY NobodyCalls, DemoFundAssumption DEF TypeOK
<1> USE DEF Outside
<1>1. ASSUME NEW c \in Calls, Begin(c) PROVE P
  BY <1>1, <1>0 DEF Begin, At, Goto, Keep, store
<1>2. ASSUME NEW c \in Calls, Resend(c) PROVE P
  BY <1>2, <1>0 DEF Resend, At, Goto, Leave, Keep
<1>3. ASSUME NEW c \in Calls, Rewrite(c) PROVE P
  BY <1>3, <1>0 DEF Rewrite, At, Leave, Goto, Keep, Put
<1>4. ASSUME NEW c \in Calls, AcquireOp(c) PROVE P
  BY <1>4, <1>0 DEF AcquireOp, At, Goto
<1>5. ASSUME NEW c \in Calls, Contend(c) PROVE P
  BY <1>5, <1>0 DEF Contend, At, Goto
<1>6. ASSUME NEW c \in Calls, Recheck(c) PROVE P
  BY <1>6, <1>0 DEF Recheck, At, Goto, Keep
<1>7. ASSUME NEW c \in Calls, ReleaseStale(c) PROVE P
  BY <1>7, <1>0 DEF ReleaseStale, At, Goto
<1>8. ASSUME NEW c \in Calls, ReleaseStaleRow(c) PROVE P
  BY <1>8, <1>0 DEF ReleaseStaleRow, At, Goto
<1>9. ASSUME NEW c \in Calls, Create(c) PROVE P
  BY <1>9, <1>0 DEF Create, At, Goto, Keep, Put
<1>10. ASSUME NEW c \in Calls, Reserve(c) PROVE P
  BY <1>10, <1>0 DEF Reserve, At, Goto
<1>11. ASSUME NEW c \in Calls, Record(c) PROVE P
  BY <1>11, <1>0 DEF Record, At, Goto, Keep, Put
<1>12. ASSUME NEW c \in Calls, AcquireTreasury(c) PROVE P
  BY <1>12, <1>0 DEF AcquireTreasury, At, Goto
<1>13. ASSUME NEW c \in Calls, Approve(c) PROVE P
  BY <1>13, <1>0 DEF Approve, At, Goto
<1>14. ASSUME NEW c \in Calls, Approved(c) PROVE P
  BY <1>14, <1>0 DEF Approved, At, Goto
<1>15. ASSUME NEW c \in Calls, Sign(c) PROVE P
  BY <1>15, <1>0, SignEffect
<1>16. ASSUME NEW c \in Calls, Persist(c) PROVE P
  BY <1>16, <1>0 DEF Persist, At, Goto, Put
<1>17. ASSUME NEW c \in Calls, Broadcast(c) PROVE P
  BY <1>17, <1>0 DEF Broadcast, At, Goto
<1>18. ASSUME NEW c \in Calls, Mark(c) PROVE P
  BY <1>18, <1>0 DEF Mark, At, Goto, Keep, Put
<1>19. ASSUME NEW c \in Calls, Receipt(c) PROVE P
  BY <1>19, <1>0 DEF Receipt, At, Goto
<1>20. ASSUME NEW c \in Calls, Confirm(c) PROVE P
  BY <1>20, <1>0 DEF Confirm, At, Goto, Put
<1>21. ASSUME NEW c \in Calls, Settle(c) PROVE P
  BY <1>21, <1>0 DEF Settle, At, Goto
<1>22. ASSUME NEW c \in Calls, Revert(c) PROVE P
  BY <1>22, <1>0 DEF Revert, At, Goto, Put
<1>23. ASSUME NEW c \in Calls, GiveBack(c) PROVE P
  BY <1>23, <1>0 DEF GiveBack, At, Goto
<1>24. ASSUME NEW c \in Calls, GiveBackRow(c) PROVE P
  BY <1>24, <1>0 DEF GiveBackRow, At, Goto
<1>25. ASSUME NEW c \in Calls, MarkFailed(c) PROVE P
  BY <1>25, <1>0 DEF MarkFailed, At, Goto, Put
<1>26. ASSUME NEW c \in Calls, Unlock(c) PROVE P
  BY <1>26, <1>0 DEF Unlock, At, Leave, Goto, Keep
<1>27. ASSUME NEW c \in Calls, Raise(c) PROVE P
  BY <1>27, <1>0, RaiseEffect DEF Outside, Reserved, Before
<1>28. ASSUME NEW c \in Calls, Crash(c) PROVE P
  BY <1>28, <1>0 DEF Crash, Leave, Goto, Keep
<1>29. ASSUME NEW c \in Calls, Lapse(c) PROVE P
  BY <1>29, <1>0 DEF Lapse
<1>30. ASSUME NEW c \in Calls, NoticeLapse(c) PROVE P
  BY <1>30, <1>0 DEF NoticeLapse
<1>31. ASSUME Expire PROVE P
  BY <1>31, <1>0 DEF Expire
<1>32. ASSUME Mine PROVE P
  BY <1>32, <1>0 DEF Mine
<1>33. ASSUME UNCHANGED vars PROVE P
  BY <1>33, <1>0 DEF vars
<1> QED
  BY <1>1, <1>2, <1>3, <1>4, <1>5, <1>6, <1>7, <1>8, <1>9, <1>10, <1>11, <1>12, <1>13, <1>14, <1>15, <1>16, <1>17, <1>18, <1>19, <1>20, <1>21, <1>22, <1>23, <1>24, <1>25, <1>26, <1>27, <1>28, <1>29, <1>30, <1>31, <1>32, <1>33 DEF Next, Progress, Step

\* What a step leaves of what a record knows of a burn.
LEMMA KnownStep ==
    ASSUME FundShape, LeasesHeld, BurnsOnRecord, [Next]_vars, ~lapsed',
           NEW k \in Keys, k \notin disturbed', NEW b \in Calls,
           b \in reverted \/ (rec[k].by = b /\ HasBurn(rec[k]))
    PROVE  \/ b \in reverted'
           \/ rec'[k].by = b /\ HasBurn(rec[k])'
<1> USE DEF FundShape
<1>0. ~lapsed /\ k \notin disturbed /\ reverted \subseteq reverted'
  BY LocksMove, DisturbedStays, RevertedStep
<1> SUFFICES ASSUME b \notin reverted', rec[k].by = b, HasBurn(rec[k])
             PROVE  rec'[k].by = b /\ HasBurn(rec[k])'
  BY <1>0
<1>1. CASE rec'[k] = rec[k]
  BY <1>1 DEF HasBurn
<1>2. ASSUME NEW d \in Calls, key[d] = k, pc[d] \in Preparing PROVE FALSE
  BY <1>0, <1>2 DEF BurnsOnRecord
<1>3. ASSUME NEW d \in Calls, key[d] = k, pc[d] \in {"mark", "confirm", "revert"} PROVE d = b
  BY <1>0, <1>3 DEF BurnsOnRecord
<1>4. ASSUME NEW d \in Calls, key[d] = k, pc[d] = "revert" PROVE FALSE
  BY <1>0, <1>3, <1>4 DEF RevertsFit
<1> QED
  BY <1>0, <1>1, <1>2, <1>3, <1>4, RecordStep DEF Preparing, Reserved

\* No operation takes a living burn off its record.
LEMMA BurnsStep ==
    FundShape /\ LeasesHeld /\ BurnsOnRecord /\ [Next]_vars => BurnsOnRecord'
<1> SUFFICES ASSUME FundShape, LeasesHeld, BurnsOnRecord, [Next]_vars, ~lapsed',
                    NEW x \in Calls, key'[x] \notin disturbed'
             PROVE  /\ Live(x)' => rec'[key'[x]].by = x /\ HasBurn(rec[key[x]])'
                    /\ pc'[x] \in Preparing => (HasBurn(rec[key[x]])' => rec'[key'[x]].by \in reverted')
                    /\ pc'[x] \in {"broadcast", "mark", "receipt", "confirm", "revert"} =>
                           rec'[key'[x]].by = x /\ HasBurn(rec[key[x]])'
                    /\ pc'[x] \in Outside =>
                           \/ rec'[key'[x]].by = op'[x].by /\ HasBurn(rec[key[x]])'
                           \/ op'[x].by \in reverted'
  BY DEF BurnsOnRecord
<1> USE DEF FundShape
<1>k. PICK k \in Keys : k = key[x]
  BY DEF TypeOK
<1>0. /\ key' = key /\ ~lapsed /\ k \notin disturbed /\ k \notin disturbed'
      /\ reverted \subseteq reverted'
  BY <1>k, KeyStays, LocksMove, DisturbedStays, RevertedStep
<1>h. HasBurn(rec[key[x]])' <=> HasBurn(rec[k])'
  BY <1>0, <1>k DEF HasBurn
<1>1. ASSUME Live(x)' PROVE rec'[k].by = x /\ HasBurn(rec[k])'
  <2>1. Sent(Tx("burn", x))' /\ x \notin reverted'
    BY <1>1 DEF Live, Sent, Tx
  <2>2. rec[k].by = x /\ HasBurn(rec[k])
    <3>1. CASE Sent(Tx("burn", x))
      BY <1>0, <1>k, <2>1, <3>1 DEF BurnsOnRecord, Live
    <3>2. CASE pc[x] = "broadcast"
      BY <1>0, <1>k, <3>2 DEF BurnsOnRecord
    <3>3. ASSUME NEW d \in Calls, pc[d] = "resend", op[d].by = x
          PROVE  rec[k].by = x /\ HasBurn(rec[k])
      <4>1. key[d] = k
        BY <1>k, <3>3, NobodyCalls DEF KeysFit
      <4> QED
        BY <1>0, <2>1, <3>3, <4>1 DEF BurnsOnRecord, Outside
    <3> QED
      BY <2>1, <3>1, <3>2, <3>3, SentStep
  <2> QED
    BY <1>0, <2>1, <2>2, KnownStep
<1>2. ASSUME pc'[x] \in Preparing, HasBurn(rec[k])' PROVE rec'[k].by \in reverted'
  <2>1. CASE pc[x] \in Preparing
    <3>1. HasBurn(rec[k]) => rec[k].by \in reverted
      BY <1>0, <1>k, <2>1 DEF BurnsOnRecord
    <3>2. ASSUME NEW d \in Calls, key[d] = k, pc[d] \in {"persist", "mark", "confirm", "revert"},
                 pc[d] = "persist" => pc'[d] = "broadcast"
          PROVE  FALSE
      BY <1>0, <1>2, <1>k, <2>1, <3>2, Alone DEF Inside, Preparing, Reserved, Signed
    <3>3. ASSUME NEW d \in Calls, key[d] = k, pc[d] = "rewrite", rec'[k].by = op[d].by,
                 ~HasBurn(rec[k]) \/ rec[k].by = op[d].by
          PROVE  rec'[k].by \in reverted'
      BY <1>0, <3>1, <3>3 DEF BurnsOnRecord, Outside
    <3>4. CASE rec'[k] = rec[k]
      BY <1>0, <1>2, <3>1, <3>4 DEF HasBurn
    <3> QED
      BY <1>0, <1>2, <3>2, <3>3, <3>4, RecordStep
  <2>2. CASE pc[x] = "recheck" /\ ~HasBurn(rec[k]) /\ rec' = rec
    BY <1>2, <2>2 DEF HasBurn
  <2> QED
    BY <1>2, <1>k, <2>1, <2>2, PreparingPlaces
<1>3. ASSUME pc'[x] \in {"broadcast", "mark", "receipt", "confirm", "revert"}
      PROVE  rec'[k].by = x /\ HasBurn(rec[k])'
  <2>1. CASE pc[x] \in {"broadcast", "mark", "receipt", "confirm", "revert"}
    <3>1. rec[k].by = x /\ HasBurn(rec[k])
      BY <1>0, <1>k, <2>1 DEF BurnsOnRecord
    <3>2. ASSUME NEW d \in Calls, key[d] = k,
                 pc[d] \in {"create", "record", "persist", "revert", "mark", "confirm"}
          PROVE  d = x
      BY <1>0, <1>k, <2>1, <3>2, Alone DEF Inside, Reserved, Signed
    <3>3. CASE rec'[k] = rec[k]
      BY <3>1, <3>3 DEF HasBurn
    <3> QED
      BY <1>0, <1>3, <2>1, <3>1, <3>2, <3>3, RecordStep
  <2> QED
    BY <1>0, <1>3, <1>h, <1>k, <2>1, BurningPlaces
<1>4. ASSUME pc'[x] \in Outside
      PROVE  (rec'[k].by = op'[x].by /\ HasBurn(rec[k])') \/ op'[x].by \in reverted'
  <2>1. CASE pc[x] \in Outside /\ op'[x] = op[x]
    <3>1. op[x].by \in Calls
      BY <2>1 DEF CopiesFit, TypeOK, Ops
    <3>2. op[x].by \in reverted \/ (rec[k].by = op[x].by /\ HasBurn(rec[k]))
      BY <1>0, <1>k, <2>1 DEF BurnsOnRecord
    <3> QED
      BY <1>0, <2>1, <3>1, <3>2, KnownStep
  <2>2. CASE op'[x].by = rec[k].by /\ HasBurn(rec[k]) /\ rec' = rec
    BY <2>2 DEF HasBurn
  <2> QED
    BY <1>4, <1>k, <2>1, <2>2, OutsidePlaces
<1> QED
  BY <1>0, <1>1, <1>2, <1>3, <1>4, <1>h, <1>k

---------------------------------------------------------------------------
(* Nonces. *)

\* A call comes to a signed burn with the nonce that is next.
LEMMA NoncePlaces ==
    ASSUME TypeOK, CopiesFit, [Next]_vars, NEW x \in Calls
    PROVE  pc'[x] \in {"persist", "broadcast"} =>
               \/ pc[x] \in {"persist", "broadcast"} /\ op'[x] = op[x]
               \/ op'[x].nonce = Len(chain) /\ chain' = chain
<1> DEFINE P ==
           pc'[x] \in {"persist", "broadcast"} =>
               \/ pc[x] \in {"persist", "broadcast"} /\ op'[x] = op[x]
               \/ op'[x].nonce = Len(chain) /\ chain' = chain
<1> SUFFICES P
  OBVIOUS
<1>0. /\ op \in [Calls -> Ops] /\ key \in [Calls -> Keys] /\ rec \in [Keys -> Ops]
      /\ pc \in [Calls -> Labels] /\ rows \in [Calls -> {"none", "held", "released", "finalized"}]
      /\ opLock \in [Keys -> Calls \cup {Nobody}] /\ treasury \in Calls \cup {Nobody}
      /\ consumed \subseteq Nonces /\ used \in Nat /\ Nobody \notin Calls
  BY NobodyCalls, DemoFundAssumption DEF TypeOK
<1>1. ASSUME NEW c \in Calls, Begin(c) PROVE P
  BY <1>1, <1>0 DEF Begin, At, Goto, Keep
<1>2. ASSUME NEW c \in Calls, Resend(c) PROVE P
  BY <1>2, <1>0 DEF Resend, At, Goto, Leave, Keep
<1>3. ASSUME NEW c \in Calls, Rewrite(c) PROVE P
  BY <1>3, <1>0 DEF Rewrite, At, Leave, Goto, Keep, Put
<1>4. ASSUME NEW c \in Calls, AcquireOp(c) PROVE P
  BY <1>4, <1>0 DEF AcquireOp, At, Goto
<1>5. ASSUME NEW c \in Calls, Contend(c) PROVE P
  BY <1>5, <1>0 DEF Contend, At, Goto
<1>6. ASSUME NEW c \in Calls, Recheck(c) PROVE P
  BY <1>6, <1>0 DEF Recheck, At, Goto, Keep
<1>7. ASSUME NEW c \in Calls, ReleaseStale(c) PROVE P
  BY <1>7, <1>0 DEF ReleaseStale, At, Goto
<1>8. ASSUME NEW c \in Calls, ReleaseStaleRow(c) PROVE P
  BY <1>8, <1>0 DEF ReleaseStaleRow, At, Goto
<1>9. ASSUME NEW c \in Calls, Create(c) PROVE P
  BY <1>9, <1>0 DEF Create, At, Goto, Keep, Put
<1>10. ASSUME NEW c \in Calls, Reserve(c) PROVE P
  BY <1>10, <1>0 DEF Reserve, At, Goto
<1>11. ASSUME NEW c \in Calls, Record(c) PROVE P
  BY <1>11, <1>0 DEF Record, At, Goto, Keep, Put
<1>12. ASSUME NEW c \in Calls, AcquireTreasury(c) PROVE P
  BY <1>12, <1>0 DEF AcquireTreasury, At, Goto
<1>13. ASSUME NEW c \in Calls, Approve(c) PROVE P
  BY <1>13, <1>0 DEF Approve, At, Goto
<1>14. ASSUME NEW c \in Calls, Approved(c) PROVE P
  BY <1>14, <1>0 DEF Approved, At, Goto
<1>15. ASSUME NEW c \in Calls, Sign(c) PROVE P
  BY <1>15, <1>0, SignEffect, ZenonT(60) DEF Sign, ledger
<1>16. ASSUME NEW c \in Calls, Persist(c) PROVE P
  BY <1>16, <1>0 DEF Persist, At, Goto, Put
<1>17. ASSUME NEW c \in Calls, Broadcast(c) PROVE P
  BY <1>17, <1>0 DEF Broadcast, At, Goto
<1>18. ASSUME NEW c \in Calls, Mark(c) PROVE P
  BY <1>18, <1>0 DEF Mark, At, Goto, Keep, Put
<1>19. ASSUME NEW c \in Calls, Receipt(c) PROVE P
  BY <1>19, <1>0 DEF Receipt, At, Goto
<1>20. ASSUME NEW c \in Calls, Confirm(c) PROVE P
  BY <1>20, <1>0 DEF Confirm, At, Goto, Put
<1>21. ASSUME NEW c \in Calls, Settle(c) PROVE P
  BY <1>21, <1>0 DEF Settle, At, Goto
<1>22. ASSUME NEW c \in Calls, Revert(c) PROVE P
  BY <1>22, <1>0 DEF Revert, At, Goto, Put
<1>23. ASSUME NEW c \in Calls, GiveBack(c) PROVE P
  BY <1>23, <1>0 DEF GiveBack, At, Goto
<1>24. ASSUME NEW c \in Calls, GiveBackRow(c) PROVE P
  BY <1>24, <1>0 DEF GiveBackRow, At, Goto
<1>25. ASSUME NEW c \in Calls, MarkFailed(c) PROVE P
  BY <1>25, <1>0 DEF MarkFailed, At, Goto, Put
<1>26. ASSUME NEW c \in Calls, Unlock(c) PROVE P
  BY <1>26, <1>0 DEF Unlock, At, Leave, Goto, Keep
<1>27. ASSUME NEW c \in Calls, Raise(c) PROVE P
  BY <1>27, <1>0, RaiseEffect DEF Outside, Reserved, Before
<1>28. ASSUME NEW c \in Calls, Crash(c) PROVE P
  BY <1>28, <1>0 DEF Crash, Leave, Goto, Keep
<1>29. ASSUME NEW c \in Calls, Lapse(c) PROVE P
  BY <1>29, <1>0 DEF Lapse
<1>30. ASSUME NEW c \in Calls, NoticeLapse(c) PROVE P
  BY <1>30, <1>0 DEF NoticeLapse
<1>31. ASSUME Expire PROVE P
  BY <1>31, <1>0 DEF Expire
<1>32. ASSUME Mine PROVE P
  BY <1>32, <1>0 DEF Mine
<1>33. ASSUME UNCHANGED vars PROVE P
  BY <1>33, <1>0 DEF vars
<1> QED
  BY <1>1, <1>2, <1>3, <1>4, <1>5, <1>6, <1>7, <1>8, <1>9, <1>10, <1>11, <1>12, <1>13, <1>14, <1>15, <1>16, <1>17, <1>18, <1>19, <1>20, <1>21, <1>22, <1>23, <1>24, <1>25, <1>26, <1>27, <1>28, <1>29, <1>30, <1>31, <1>32, <1>33 DEF Next, Progress, Step

\* A call that is done stays done.
LEMMA DoneStays ==
    ASSUME TypeOK, [Next]_vars, NEW x \in Calls
    PROVE  pc[x] = "done" => pc'[x] = "done" 
<1> DEFINE P ==
           pc[x] = "done" => pc'[x] = "done" 
<1> SUFFICES P
  OBVIOUS
<1>0. /\ op \in [Calls -> Ops] /\ key \in [Calls -> Keys] /\ rec \in [Keys -> Ops]
      /\ pc \in [Calls -> Labels] /\ rows \in [Calls -> {"none", "held", "released", "finalized"}]
      /\ opLock \in [Keys -> Calls \cup {Nobody}] /\ treasury \in Calls \cup {Nobody}
      /\ consumed \subseteq Nonces /\ used \in Nat /\ Nobody \notin Calls
  BY NobodyCalls, DemoFundAssumption DEF TypeOK
<1>1. ASSUME NEW c \in Calls, Begin(c) PROVE P
  BY <1>1, <1>0 DEF Begin, At, Goto, Keep
<1>2. ASSUME NEW c \in Calls, Resend(c) PROVE P
  BY <1>2, <1>0 DEF Resend, At, Goto, Leave, Keep
<1>3. ASSUME NEW c \in Calls, Rewrite(c) PROVE P
  BY <1>3, <1>0 DEF Rewrite, At, Leave, Goto, Keep, Put
<1>4. ASSUME NEW c \in Calls, AcquireOp(c) PROVE P
  BY <1>4, <1>0 DEF AcquireOp, At, Goto
<1>5. ASSUME NEW c \in Calls, Contend(c) PROVE P
  BY <1>5, <1>0 DEF Contend, At, Goto
<1>6. ASSUME NEW c \in Calls, Recheck(c) PROVE P
  BY <1>6, <1>0 DEF Recheck, At, Goto, Keep
<1>7. ASSUME NEW c \in Calls, ReleaseStale(c) PROVE P
  BY <1>7, <1>0 DEF ReleaseStale, At, Goto
<1>8. ASSUME NEW c \in Calls, ReleaseStaleRow(c) PROVE P
  BY <1>8, <1>0 DEF ReleaseStaleRow, At, Goto
<1>9. ASSUME NEW c \in Calls, Create(c) PROVE P
  BY <1>9, <1>0 DEF Create, At, Goto, Keep, Put
<1>10. ASSUME NEW c \in Calls, Reserve(c) PROVE P
  BY <1>10, <1>0 DEF Reserve, At, Goto
<1>11. ASSUME NEW c \in Calls, Record(c) PROVE P
  BY <1>11, <1>0 DEF Record, At, Goto, Keep, Put
<1>12. ASSUME NEW c \in Calls, AcquireTreasury(c) PROVE P
  BY <1>12, <1>0 DEF AcquireTreasury, At, Goto
<1>13. ASSUME NEW c \in Calls, Approve(c) PROVE P
  BY <1>13, <1>0 DEF Approve, At, Goto
<1>14. ASSUME NEW c \in Calls, Approved(c) PROVE P
  BY <1>14, <1>0 DEF Approved, At, Goto
<1>15. ASSUME NEW c \in Calls, Sign(c) PROVE P
  BY <1>15, <1>0, SignEffect DEF Sign, ledger
<1>16. ASSUME NEW c \in Calls, Persist(c) PROVE P
  BY <1>16, <1>0 DEF Persist, At, Goto, Put
<1>17. ASSUME NEW c \in Calls, Broadcast(c) PROVE P
  BY <1>17, <1>0 DEF Broadcast, At, Goto
<1>18. ASSUME NEW c \in Calls, Mark(c) PROVE P
  BY <1>18, <1>0 DEF Mark, At, Goto, Keep, Put
<1>19. ASSUME NEW c \in Calls, Receipt(c) PROVE P
  BY <1>19, <1>0 DEF Receipt, At, Goto
<1>20. ASSUME NEW c \in Calls, Confirm(c) PROVE P
  BY <1>20, <1>0 DEF Confirm, At, Goto, Put
<1>21. ASSUME NEW c \in Calls, Settle(c) PROVE P
  BY <1>21, <1>0 DEF Settle, At, Goto
<1>22. ASSUME NEW c \in Calls, Revert(c) PROVE P
  BY <1>22, <1>0 DEF Revert, At, Goto, Put
<1>23. ASSUME NEW c \in Calls, GiveBack(c) PROVE P
  BY <1>23, <1>0 DEF GiveBack, At, Goto
<1>24. ASSUME NEW c \in Calls, GiveBackRow(c) PROVE P
  BY <1>24, <1>0 DEF GiveBackRow, At, Goto
<1>25. ASSUME NEW c \in Calls, MarkFailed(c) PROVE P
  BY <1>25, <1>0 DEF MarkFailed, At, Goto, Put
<1>26. ASSUME NEW c \in Calls, Unlock(c) PROVE P
  BY <1>26, <1>0 DEF Unlock, At, Leave, Goto, Keep
<1>27. ASSUME NEW c \in Calls, Raise(c) PROVE P
  BY <1>27, <1>0, RaiseEffect DEF Outside, Reserved, Before
<1>28. ASSUME NEW c \in Calls, Crash(c) PROVE P
  BY <1>28, <1>0 DEF Crash, Leave, Goto, Keep
<1>29. ASSUME NEW c \in Calls, Lapse(c) PROVE P
  BY <1>29, <1>0 DEF Lapse
<1>30. ASSUME NEW c \in Calls, NoticeLapse(c) PROVE P
  BY <1>30, <1>0 DEF NoticeLapse
<1>31. ASSUME Expire PROVE P
  BY <1>31, <1>0 DEF Expire
<1>32. ASSUME Mine PROVE P
  BY <1>32, <1>0 DEF Mine
<1>33. ASSUME UNCHANGED vars PROVE P
  BY <1>33, <1>0 DEF vars
<1> QED
  BY <1>1, <1>2, <1>3, <1>4, <1>5, <1>6, <1>7, <1>8, <1>9, <1>10, <1>11, <1>12, <1>13, <1>14, <1>15, <1>16, <1>17, <1>18, <1>19, <1>20, <1>21, <1>22, <1>23, <1>24, <1>25, <1>26, <1>27, <1>28, <1>29, <1>30, <1>31, <1>32, <1>33 DEF Next, Progress, Step

\* No operation gives the nonce of a signed burn away.
LEMMA NoncesStep ==
    FundShape /\ FundShape' /\ LeasesHeld /\ NoncesHeld /\ [Next]_vars => NoncesHeld'
<1> SUFFICES ASSUME FundShape, FundShape', LeasesHeld, NoncesHeld, [Next]_vars, ~lapsed',
                    NEW x \in Calls, pc'[x] \in {"persist", "broadcast"}
             PROVE  /\ op'[x].nonce <= Len(chain')
                    /\ \/ op'[x].nonce = Len(chain')
                       \/ Sent(Tx("burn", x))'
                       \/ /\ op'[x].nonce < Len(chain')
                          /\ chain'[op'[x].nonce + 1].kind = "burn"
                          /\ pc'[chain'[op'[x].nonce + 1].by] = "done"
  BY DEF NoncesHeld, Sent, Tx
<1> USE DEF FundShape
<1>0. ~lapsed /\ Len(chain) \in Nat /\ Len(chain') \in Nat /\ Len(chain') >= Len(chain)
  BY LocksMove, ChainType, SentStep
<1>1. CASE op'[x].nonce = Len(chain) /\ chain' = chain
  BY <1>0, <1>1
<1>2. CASE pc[x] \in {"persist", "broadcast"} /\ op'[x] = op[x]
  <2>1. PICK n \in Nat : n = op[x].nonce
    BY DEF TypeOK, Ops
  <2>2. /\ n <= Len(chain) /\ op'[x].nonce = n /\ op[x].by = x
        /\ \/ n = Len(chain)
           \/ Sent(Tx("burn", x))
           \/ /\ n < Len(chain) /\ chain[n + 1].kind = "burn"
              /\ pc[chain[n + 1].by] = "done"
    BY <1>0, <1>2, <2>1 DEF NoncesHeld, CopiesFit, Burning, Signed
  <2>3. CASE Sent(Tx("burn", x))
    BY <1>0, <2>2, <2>3, SentStep
  <2>4. CASE n < Len(chain) /\ chain[n + 1].kind = "burn" /\ pc[chain[n + 1].by] = "done"
    <3>1. n + 1 \in 1..Len(chain)
      BY <1>0, <2>1, <2>4
    <3>2. chain'[n + 1] = chain[n + 1] /\ chain[n + 1].by \in Calls
      BY <3>1, ChainType, SentStep
    <3>3. pc'[chain[n + 1].by] = "done"
      BY <2>4, <3>2, DoneStays
    <3> QED
      BY <1>0, <2>2, <2>4, <3>2, <3>3
  <2>5. CASE n = Len(chain)
    <3>0. treasury = x
      BY <1>0, <2>2 DEF LeasesHeld
    <3>1. CASE chain' = chain
      BY <1>0, <2>2, <2>5, <3>1
    <3>2. ASSUME NEW d \in Calls, Approve(d), chain' = Append(chain, Tx("approve", d)) PROVE FALSE
      BY <1>0, <1>2, <3>0, <3>2 DEF Approve, At, LeasesHeld
    <3>3. ASSUME NEW d \in Calls, Broadcast(d), pc'[d] = "mark" PROVE FALSE
      <4>1. op[d].by = d
        BY <3>3 DEF Broadcast, At, CopiesFit, Burning, Signed
      <4>2. d = x
        BY <1>0, <3>0, <4>1 DEF LeasesHeld
      <4> QED
        BY <3>3, <4>2
    <3>4. ASSUME NEW d \in Calls, Resend(d), Send(Tx("burn", op[d].by)), chain' # chain
          PROVE  Sent(Tx("burn", x))' \/ (/\ n < Len(chain')
                                          /\ chain'[n + 1].kind = "burn"
                                          /\ pc'[chain'[n + 1].by] = "done")
      <4>1. PICK b \in Calls : b = op[d].by
        BY <3>4 DEF Resend, At, CopiesFit, Outside, TypeOK, Ops
      <4>2. chain' = Append(chain, Tx("burn", b))
        BY <3>4, <4>1 DEF Send
      <4>3. /\ Len(chain') = n + 1 /\ chain'[n + 1] = Tx("burn", b)
            /\ Sent(Tx("burn", b))'
        BY <2>5, <4>2, AppendEffect, TxType
      <4>4. CASE b = x
        BY <4>3, <4>4
      <4>5. CASE b # x
        <5>1. d # b
          BY <3>4, <4>1 DEF Resend, At, NamesFit, Burning, Signed
        <5>2. Named(b)
          BY <4>1, <5>1 DEF Named
        <5>3. pc[b] = "done"
          BY <1>0, <3>0, <4>5, <5>2 DEF NamesFit, LeasesHeld
        <5>4. pc'[b] = "done"
          BY <5>3, DoneStays
        <5> QED
          BY <2>1, <4>3, <5>4 DEF Tx
      <4> QED
        BY <4>4, <4>5
    <3> QED
      BY <1>0, <2>2, <2>5, <3>1, <3>2, <3>3, <3>4, ChainStep DEF ChainGrows
  <2> QED
    BY <2>2, <2>3, <2>4, <2>5
<1> QED
  BY <1>1, <1>2, NoncePlaces

---------------------------------------------------------------------------
(* The quota. *)

\* A release that has begun ends with its row, or stays half done.
LEMMA HalfStep ==
    ASSUME TypeOK, [Next]_vars, NEW x \in Calls
    PROVE  /\ halfReleased => halfReleased'
           /\ pc[x] \in {"giveBackRow", "revertRow"} =>
                  pc'[x] = pc[x] \/ halfReleased' \/ rows'[x] = "released"
           /\ pc[x] = "staleRow" /\ op[x].res \in Calls =>
                  \/ pc'[x] = "staleRow" /\ op'[x] = op[x]
                  \/ halfReleased' \/ rows'[op[x].res] = "released"
<1> DEFINE P ==
           /\ halfReleased => halfReleased'
           /\ pc[x] \in {"giveBackRow", "revertRow"} =>
                  pc'[x] = pc[x] \/ halfReleased' \/ rows'[x] = "released"
           /\ pc[x] = "staleRow" /\ op[x].res \in Calls =>
                  \/ pc'[x] = "staleRow" /\ op'[x] = op[x]
                  \/ halfReleased' \/ rows'[op[x].res] = "released"
<1> SUFFICES P
  OBVIOUS
<1>0. /\ op \in [Calls -> Ops] /\ key \in [Calls -> Keys] /\ rec \in [Keys -> Ops]
      /\ pc \in [Calls -> Labels] /\ rows \in [Calls -> {"none", "held", "released", "finalized"}]
      /\ opLock \in [Keys -> Calls \cup {Nobody}] /\ treasury \in Calls \cup {Nobody}
      /\ consumed \subseteq Nonces /\ used \in Nat /\ Nobody \notin Calls
  BY NobodyCalls, DemoFundAssumption DEF TypeOK
<1>1. ASSUME NEW c \in Calls, Begin(c) PROVE P
  BY <1>1, <1>0 DEF Begin, At, Goto, Keep, history
<1>2. ASSUME NEW c \in Calls, Resend(c) PROVE P
  BY <1>2, <1>0 DEF Resend, At, Goto, Leave, Keep, history
<1>3. ASSUME NEW c \in Calls, Rewrite(c) PROVE P
  BY <1>3, <1>0 DEF Rewrite, At, Leave, Goto, Keep, Put, noFault
<1>4. ASSUME NEW c \in Calls, AcquireOp(c) PROVE P
  BY <1>4, <1>0 DEF AcquireOp, At, Goto, history
<1>5. ASSUME NEW c \in Calls, Contend(c) PROVE P
  BY <1>5, <1>0 DEF Contend, At, Goto, history
<1>6. ASSUME NEW c \in Calls, Recheck(c) PROVE P
  BY <1>6, <1>0 DEF Recheck, At, Goto, Keep, history
<1>7. ASSUME NEW c \in Calls, ReleaseStale(c) PROVE P
  BY <1>7, <1>0 DEF ReleaseStale, At, Goto, history
<1>8. ASSUME NEW c \in Calls, ReleaseStaleRow(c) PROVE P
  BY <1>8, <1>0 DEF ReleaseStaleRow, At, Goto
<1>9. ASSUME NEW c \in Calls, Create(c) PROVE P
  BY <1>9, <1>0 DEF Create, At, Goto, Keep, Put, history
<1>10. ASSUME NEW c \in Calls, Reserve(c) PROVE P
  BY <1>10, <1>0 DEF Reserve, At, Goto, history
<1>11. ASSUME NEW c \in Calls, Record(c) PROVE P
  BY <1>11, <1>0 DEF Record, At, Goto, Keep, Put, history
<1>12. ASSUME NEW c \in Calls, AcquireTreasury(c) PROVE P
  BY <1>12, <1>0 DEF AcquireTreasury, At, Goto, history
<1>13. ASSUME NEW c \in Calls, Approve(c) PROVE P
  BY <1>13, <1>0 DEF Approve, At, Goto, history
<1>14. ASSUME NEW c \in Calls, Approved(c) PROVE P
  BY <1>14, <1>0 DEF Approved, At, Goto, history
<1>15. ASSUME NEW c \in Calls, Sign(c) PROVE P
  BY <1>15, <1>0, SignEffect DEF Sign, history
<1>16. ASSUME NEW c \in Calls, Persist(c) PROVE P
  BY <1>16, <1>0 DEF Persist, At, Goto, Put, history
<1>17. ASSUME NEW c \in Calls, Broadcast(c) PROVE P
  BY <1>17, <1>0 DEF Broadcast, At, Goto, history
<1>18. ASSUME NEW c \in Calls, Mark(c) PROVE P
  BY <1>18, <1>0 DEF Mark, At, Goto, Keep, Put, history
<1>19. ASSUME NEW c \in Calls, Receipt(c) PROVE P
  BY <1>19, <1>0 DEF Receipt, At, Goto
<1>20. ASSUME NEW c \in Calls, Confirm(c) PROVE P
  BY <1>20, <1>0 DEF Confirm, At, Goto, Put, history
<1>21. ASSUME NEW c \in Calls, Settle(c) PROVE P
  BY <1>21, <1>0 DEF Settle, At, Goto, history
<1>22. ASSUME NEW c \in Calls, Revert(c) PROVE P
  BY <1>22, <1>0 DEF Revert, At, Goto, Put, history
<1>23. ASSUME NEW c \in Calls, GiveBack(c) PROVE P
  BY <1>23, <1>0 DEF GiveBack, At, Goto, history
<1>24. ASSUME NEW c \in Calls, GiveBackRow(c) PROVE P
  BY <1>24, <1>0 DEF GiveBackRow, At, Goto, history
<1>25. ASSUME NEW c \in Calls, MarkFailed(c) PROVE P
  BY <1>25, <1>0 DEF MarkFailed, At, Goto, Put, noFault
<1>26. ASSUME NEW c \in Calls, Unlock(c) PROVE P
  BY <1>26, <1>0 DEF Unlock, At, Leave, Goto, Keep, history
<1>27. ASSUME NEW c \in Calls, Raise(c) PROVE P
  BY <1>27, <1>0, RaiseEffect DEF Raise, Halves
<1>28. ASSUME NEW c \in Calls, Crash(c) PROVE P
  BY <1>28, <1>0 DEF Crash, Leave, Goto, Keep, Halves
<1>29. ASSUME NEW c \in Calls, Lapse(c) PROVE P
  BY <1>29, <1>0 DEF Lapse
<1>30. ASSUME NEW c \in Calls, NoticeLapse(c) PROVE P
  BY <1>30, <1>0 DEF NoticeLapse, history
<1>31. ASSUME Expire PROVE P
  BY <1>31, <1>0 DEF Expire, history
<1>32. ASSUME Mine PROVE P
  BY <1>32, <1>0 DEF Mine, history
<1>33. ASSUME UNCHANGED vars PROVE P
  BY <1>33, <1>0 DEF vars
<1> QED
  BY <1>1, <1>2, <1>3, <1>4, <1>5, <1>6, <1>7, <1>8, <1>9, <1>10, <1>11, <1>12, <1>13, <1>14, <1>15, <1>16, <1>17, <1>18, <1>19, <1>20, <1>21, <1>22, <1>23, <1>24, <1>25, <1>26, <1>27, <1>28, <1>29, <1>30, <1>31, <1>32, <1>33 DEF Next, Progress, Step

\* The counter moves with a reservation and with the first half of a release.
LEMMA UsedStep ==
    ASSUME TypeOK, [Next]_vars
    PROVE  \/ used' = used /\ \A c \in Calls : ~(pc[c] = "reserve" /\ pc'[c] = "record")
           \/ \E c \in Calls :
                  /\ used' = used + 1 /\ pc[c] = "reserve"
                  /\ \A d \in Calls : d # c => ~(pc[d] = "reserve" /\ pc'[d] = "record")
           \/ /\ Decrease
              /\ \A c \in Calls : ~(pc[c] = "reserve" /\ pc'[c] = "record")
              /\ \E c \in Calls :
                     \/ pc[c] = "giveBack" /\ pc'[c] = "giveBackRow"
                     \/ pc[c] = "revertBack" /\ pc'[c] = "revertRow"
                     \/ /\ pc[c] = "stale" /\ pc'[c] = "staleRow" /\ op' = op
                        /\ rows[op[c].res] = "held"
<1> DEFINE P ==
           \/ used' = used /\ \A c \in Calls : ~(pc[c] = "reserve" /\ pc'[c] = "record")
           \/ \E c \in Calls :
                  /\ used' = used + 1 /\ pc[c] = "reserve"
                  /\ \A d \in Calls : d # c => ~(pc[d] = "reserve" /\ pc'[d] = "record")
           \/ /\ Decrease
              /\ \A c \in Calls : ~(pc[c] = "reserve" /\ pc'[c] = "record")
              /\ \E c \in Calls :
                     \/ pc[c] = "giveBack" /\ pc'[c] = "giveBackRow"
                     \/ pc[c] = "revertBack" /\ pc'[c] = "revertRow"
                     \/ /\ pc[c] = "stale" /\ pc'[c] = "staleRow" /\ op' = op
                        /\ rows[op[c].res] = "held"
<1> SUFFICES P
  OBVIOUS
<1>0. /\ op \in [Calls -> Ops] /\ key \in [Calls -> Keys] /\ rec \in [Keys -> Ops]
      /\ pc \in [Calls -> Labels] /\ rows \in [Calls -> {"none", "held", "released", "finalized"}]
      /\ opLock \in [Keys -> Calls \cup {Nobody}] /\ treasury \in Calls \cup {Nobody}
      /\ consumed \subseteq Nonces /\ used \in Nat /\ Nobody \notin Calls
  BY NobodyCalls, DemoFundAssumption DEF TypeOK
<1>1. ASSUME NEW c \in Calls, Begin(c) PROVE P
  BY <1>1, <1>0 DEF Begin, At, Goto, Keep, store
<1>2. ASSUME NEW c \in Calls, Resend(c) PROVE P
  BY <1>2, <1>0 DEF Resend, At, Goto, Leave, Keep, store
<1>3. ASSUME NEW c \in Calls, Rewrite(c) PROVE P
  BY <1>3, <1>0 DEF Rewrite, At, Leave, Goto, Keep, Put
<1>4. ASSUME NEW c \in Calls, AcquireOp(c) PROVE P
  BY <1>4, <1>0 DEF AcquireOp, At, Goto, store
<1>5. ASSUME NEW c \in Calls, Contend(c) PROVE P
  BY <1>5, <1>0 DEF Contend, At, Goto, store
<1>6. ASSUME NEW c \in Calls, Recheck(c) PROVE P
  BY <1>6, <1>0 DEF Recheck, At, Goto, Keep, store
<1>7. ASSUME NEW c \in Calls, ReleaseStale(c) PROVE P
  BY <1>7, <1>0 DEF ReleaseStale, At, Goto, StillHeld
<1>8. ASSUME NEW c \in Calls, ReleaseStaleRow(c) PROVE P
  BY <1>8, <1>0 DEF ReleaseStaleRow, At, Goto
<1>9. ASSUME NEW c \in Calls, Create(c) PROVE P
  BY <1>9, <1>0 DEF Create, At, Goto, Keep, Put
<1>10. ASSUME NEW c \in Calls, Reserve(c) PROVE P
  BY <1>10, <1>0 DEF Reserve, At, Goto
<1>11. ASSUME NEW c \in Calls, Record(c) PROVE P
  BY <1>11, <1>0 DEF Record, At, Goto, Keep, Put
<1>12. ASSUME NEW c \in Calls, AcquireTreasury(c) PROVE P
  BY <1>12, <1>0 DEF AcquireTreasury, At, Goto, store
<1>13. ASSUME NEW c \in Calls, Approve(c) PROVE P
  BY <1>13, <1>0 DEF Approve, At, Goto, store
<1>14. ASSUME NEW c \in Calls, Approved(c) PROVE P
  BY <1>14, <1>0 DEF Approved, At, Goto, store
<1>15. ASSUME NEW c \in Calls, Sign(c) PROVE P
  BY <1>15, <1>0, SignEffect DEF Sign, store
<1>16. ASSUME NEW c \in Calls, Persist(c) PROVE P
  BY <1>16, <1>0 DEF Persist, At, Goto, Put
<1>17. ASSUME NEW c \in Calls, Broadcast(c) PROVE P
  BY <1>17, <1>0 DEF Broadcast, At, Goto, store
<1>18. ASSUME NEW c \in Calls, Mark(c) PROVE P
  BY <1>18, <1>0 DEF Mark, At, Goto, Keep, Put
<1>19. ASSUME NEW c \in Calls, Receipt(c) PROVE P
  BY <1>19, <1>0 DEF Receipt, At, Goto, store
<1>20. ASSUME NEW c \in Calls, Confirm(c) PROVE P
  BY <1>20, <1>0 DEF Confirm, At, Goto, Put
<1>21. ASSUME NEW c \in Calls, Settle(c) PROVE P
  BY <1>21, <1>0 DEF Settle, At, Goto
<1>22. ASSUME NEW c \in Calls, Revert(c) PROVE P
  BY <1>22, <1>0 DEF Revert, At, Goto, Put
<1>23. ASSUME NEW c \in Calls, GiveBack(c) PROVE P
  BY <1>23, <1>0 DEF GiveBack, At, Goto
<1>24. ASSUME NEW c \in Calls, GiveBackRow(c) PROVE P
  BY <1>24, <1>0 DEF GiveBackRow, At, Goto
<1>25. ASSUME NEW c \in Calls, MarkFailed(c) PROVE P
  BY <1>25, <1>0 DEF MarkFailed, At, Goto, Put
<1>26. ASSUME NEW c \in Calls, Unlock(c) PROVE P
  BY <1>26, <1>0 DEF Unlock, At, Leave, Goto, Keep, store
<1>27. ASSUME NEW c \in Calls, Raise(c) PROVE P
  BY <1>27, <1>0, RaiseEffect DEF Raise, store, Before
<1>28. ASSUME NEW c \in Calls, Crash(c) PROVE P
  BY <1>28, <1>0 DEF Crash, Leave, Goto, Keep, store
<1>29. ASSUME NEW c \in Calls, Lapse(c) PROVE P
  BY <1>29, <1>0 DEF Lapse, store
<1>30. ASSUME NEW c \in Calls, NoticeLapse(c) PROVE P
  BY <1>30, <1>0 DEF NoticeLapse, store
<1>31. ASSUME Expire PROVE P
  BY <1>31 DEF Expire, store
<1>32. ASSUME Mine PROVE P
  BY <1>32 DEF Mine, store
<1>33. ASSUME UNCHANGED vars PROVE P
  BY <1>33 DEF vars
<1> QED
  BY <1>1, <1>2, <1>3, <1>4, <1>5, <1>6, <1>7, <1>8, <1>9, <1>10, <1>11, <1>12, <1>13, <1>14, <1>15, <1>16, <1>17, <1>18, <1>19, <1>20, <1>21, <1>22, <1>23, <1>24, <1>25, <1>26, <1>27, <1>28, <1>29, <1>30, <1>31, <1>32, <1>33 DEF Next, Progress, Step

\* Only a new reservation comes to count.
LEMMA CountsStep ==
    ASSUME FundShape, ReservesHeld, [Next]_vars, ~lapsed, ~halfReleased', NEW x \in Calls, Counts(x)'
    PROVE  Counts(x) \/ (pc[x] = "reserve" /\ pc'[x] = "record")
<1> USE DEF FundShape
<1>0. /\ rows'[x] \in {"held", "finalized"} /\ pc'[x] \notin {"giveBackRow", "revertRow"}
      /\ \A d \in Calls : pc'[d] = "staleRow" => op'[d].res # x
  BY DEF Counts
<1>1. pc[x] \notin {"giveBackRow", "revertRow"}
  BY <1>0, HalfStep
<1>2. ASSUME NEW d \in Calls, pc[d] = "staleRow", op[d].res = x PROVE FALSE
  BY <1>0, <1>2, HalfStep
<1>3. CASE rows'[x] = rows[x]
  BY <1>0, <1>1, <1>2, <1>3 DEF Counts
<1>4. CASE pc[x] \in {"confirm", "settle"}
  <2>1. rows[x] = "held"
    BY <1>4 DEF ReservesHeld, Signed
  <2> QED
    BY <1>1, <1>2, <2>1 DEF Counts
<1> QED
  BY <1>0, <1>3, <1>4, RowStep

\* What is given back was counted, and is not any more.
LEMMA GivenBack ==
    ASSUME FundShape, LeasesHeld, ReservesHeld, [Next]_vars, ~lapsed, NEW c \in Calls,
           \/ pc[c] = "giveBack" /\ pc'[c] = "giveBackRow"
           \/ pc[c] = "revertBack" /\ pc'[c] = "revertRow"
           \/ pc[c] = "stale" /\ pc'[c] = "staleRow" /\ op' = op /\ rows[op[c].res] = "held"
    PROVE  \E r \in Calls : Counts(r) /\ ~Counts(r)'
<1> USE DEF FundShape
<1>1. CASE pc[c] \in {"giveBack", "revertBack"} /\ pc'[c] \in {"giveBackRow", "revertRow"}
  <2>1. rows[c] = "held" /\ pc[c] \in Inside
    BY <1>1 DEF ReservesHeld, Releasing, Inside
  <2>2. ASSUME NEW d \in Calls, pc[d] = "staleRow", op[d].res = c PROVE FALSE
    BY <1>1, <2>2, StaleUnnamed DEF Releasing
  <2> QED
    BY <1>1, <2>1, <2>2 DEF Counts
<1>2. CASE pc[c] = "stale" /\ pc'[c] = "staleRow" /\ op' = op /\ rows[op[c].res] = "held"
  <2>1. PICK r \in Calls : r = op[c].res
    BY <1>2 DEF CopiesFit, TypeOK, Ops
  <2>2. pc[r] \notin Releasing /\ key[r] = key[c]
    BY <1>2, <2>1, StaleUnnamed
  <2>3. ASSUME NEW d \in Calls, pc[d] = "staleRow", op[d].res = r PROVE FALSE
    <3>1. key[d] = key[c]
      BY <2>2, <2>3, NobodyCalls DEF KeysFit
    <3> QED
      BY <1>2, <2>3, <3>1, Alone DEF Inside
  <2>4. Counts(r)
    BY <1>2, <2>1, <2>2, <2>3 DEF Counts, Releasing
  <2>5. ~Counts(r)'
    BY <1>2, <2>1 DEF Counts
  <2> QED
    BY <2>4, <2>5
<1> QED
  BY <1>1, <1>2

\* The counter never counts less than the reservations it is to count.
LEMMA QuotaStep ==
    FundShape /\ LeasesHeld /\ ReservesHeld /\ QuotaKept /\ [Next]_vars => QuotaKept'
<1> SUFFICES ASSUME FundShape, LeasesHeld, ReservesHeld, QuotaKept, [Next]_vars,
                    ~halfReleased', ~lapsed'
             PROVE  Cardinality(Counted') <= used'
  BY DEF QuotaKept
<1> USE DEF FundShape
<1>0. ~halfReleased /\ ~lapsed /\ used \in Nat
  <2>1. halfReleased => halfReleased'
    <3>1. CASE Calls = {}
      BY <3>1 DEF Next, Progress, Step, Expire, Mine, history, vars
    <3>2. CASE Calls # {}
      BY <3>2, HalfStep
    <3> QED
      BY <3>1, <3>2
  <2> QED
    BY <2>1, LocksMove, DemoFundAssumption DEF TypeOK
<1>1. /\ IsFiniteSet(Counted) /\ Cardinality(Counted) \in Nat /\ Cardinality(Counted) <= used
      /\ IsFiniteSet(Counted') /\ Counted \subseteq Calls /\ Counted' \subseteq Calls
  <2>1. Counted \subseteq Calls /\ Counted' \subseteq Calls
    BY DEF Counted
  <2> QED
    BY <1>0, <2>1, NobodyCalls, FS_Subset, FS_CardinalityType DEF QuotaKept
<1>2. \A x \in Calls : x \in Counted' => x \in Counted \/ (pc[x] = "reserve" /\ pc'[x] = "record")
  BY <1>0, CountsStep DEF Counted
<1>3. CASE used' = used /\ \A c \in Calls : ~(pc[c] = "reserve" /\ pc'[c] = "record")
  <2>1. Counted' \subseteq Counted
    BY <1>1, <1>2, <1>3
  <2>2. Cardinality(Counted') <= Cardinality(Counted) /\ Cardinality(Counted') \in Nat
    BY <1>1, <2>1, FS_Subset, FS_CardinalityType
  <2> QED
    BY <1>0, <1>1, <1>3, <2>2
<1>4. ASSUME NEW c \in Calls, used' = used + 1,
             \A d \in Calls : d # c => ~(pc[d] = "reserve" /\ pc'[d] = "record")
      PROVE  Cardinality(Counted') <= used'
  <2>1. Counted' \subseteq Counted \cup {c}
    BY <1>1, <1>2, <1>4
  <2>2. /\ IsFiniteSet(Counted \cup {c})
        /\ \/ Cardinality(Counted \cup {c}) = Cardinality(Counted)
           \/ Cardinality(Counted \cup {c}) = Cardinality(Counted) + 1
    BY <1>1, FS_AddElement
  <2>3. Cardinality(Counted') <= Cardinality(Counted \cup {c}) /\ Cardinality(Counted') \in Nat
    BY <1>1, <2>1, <2>2, FS_Subset, FS_CardinalityType
  <2> QED
    BY <1>0, <1>1, <1>4, <2>2, <2>3
<1>5. ASSUME Decrease, \A c \in Calls : ~(pc[c] = "reserve" /\ pc'[c] = "record"),
             NEW r \in Calls, Counts(r), ~Counts(r)'
      PROVE  Cardinality(Counted') <= used'
  <2>1. r \in Counted /\ r \notin Counted'
    BY <1>5 DEF Counted
  <2>2. Counted' \subseteq Counted \ {r}
    BY <1>1, <1>2, <1>5, <2>1
  <2>3. /\ IsFiniteSet(Counted \ {r}) /\ Cardinality(Counted \ {r}) \in Nat
        /\ Cardinality(Counted \ {r}) = Cardinality(Counted) - 1
    BY <1>1, <2>1, FS_RemoveElement, FS_CardinalityType
  <2>4. Cardinality(Counted') <= Cardinality(Counted \ {r}) /\ Cardinality(Counted') \in Nat
    BY <1>1, <2>2, <2>3, FS_Subset, FS_CardinalityType
  <2> QED
    BY <1>0, <1>1, <1>5, <2>3, <2>4 DEF Decrease
<1> QED
  BY <1>0, <1>3, <1>4, <1>5, UsedStep, GivenBack

---------------------------------------------------------------------------
(* The invariant and what follows from it. *)

\* The invariant holds at the start.
LEMMA FundInvInit == Init => FundInv
<1> SUFFICES ASSUME Init PROVE FundInv
  OBVIOUS
<1>1. FundShape
  BY ShapeInit
<1>2. \A tx : ~Sent(tx)
  BY DEF Init, Sent
<1>3. \A c \in Calls : ~Named(c)
  BY <1>1, <1>2, NobodyCalls DEF Init, Named, NoOp, FundShape, TypeOK
<1>4. \A c \in Calls : ~Entered(c) /\ pc[c] = "idle"
  BY DEF Init, Entered
<1>5. NoncesFit
  BY <1>4 DEF NoncesFit
<1>6. LeasesHeld /\ ReservesHeld
  BY <1>3, <1>4, NobodyCalls DEF Init, LeasesHeld, ReservesHeld, NoOp, Inside, Reserved, Signed, Releasing
<1>7. BurnsOnRecord /\ NoncesHeld
  BY <1>2, <1>4 DEF BurnsOnRecord, NoncesHeld, Live, Preparing, Reserved, Outside
<1>8. QuotaKept
  <2>1. Counted = {}
    BY DEF Init, Counted, Counts
  <2> QED
    BY <2>1, FS_EmptySet DEF Init, QuotaKept
<1> QED
  BY <1>1, <1>5, <1>6, <1>7, <1>8 DEF FundInv

\* Every operation keeps the invariant.
LEMMA FundInvStep == FundInv /\ [Next]_vars => FundInv'
<1> SUFFICES ASSUME FundInv, [Next]_vars PROVE FundInv'
  OBVIOUS
<1> USE DEF FundInv
<1>1. FundShape'
  BY ShapeStep
<1>2. NoncesFit'
  BY NoncesFitStep DEF FundShape
<1>3. LeasesHeld' /\ ReservesHeld'
  BY <1>1, LeasesStep, ReservesStep
<1>4. BurnsOnRecord' /\ NoncesHeld' /\ QuotaKept'
  BY <1>1, BurnsStep, NoncesStep, QuotaStep
<1> QED
  BY <1>1, <1>2, <1>3, <1>4

\* The burns of the chain are those that were sent.
LEMMA BurnsSent ==
    ASSUME TypeOK
    PROVE  Burns \subseteq Calls /\ \A c \in Calls : c \in Burns <=> Sent(Tx("burn", c))
<1>1. /\ DOMAIN chain = 1..Len(chain)
      /\ \A i \in DOMAIN chain : chain[i] \in Txs
  BY ChainType
<1>2. \A i \in DOMAIN chain : chain[i].kind = "burn" <=> chain[i] = Tx("burn", chain[i].by)
  BY <1>1 DEF Txs, Tx
<1> QED
  BY <1>1, <1>2 DEF Burns, Sent, Tx, Txs

\* A burn that is there and did not revert is counted.
LEMMA BurnsCount ==
    ASSUME FundInv, ~lapsed
    PROVE  Burns \ reverted \subseteq Counted
<1> USE DEF FundInv, FundShape
<1> SUFFICES ASSUME NEW c \in Burns \ reverted PROVE c \in Counted
  OBVIOUS
<1>1. c \in Calls /\ Named(c)
  BY BurnsSent DEF Named
<1>2. rows[c] \in {"held", "finalized"}
  BY <1>1 DEF ReservesHeld
<1>3. pc[c] \notin {"giveBackRow", "revertRow"}
  BY <1>1 DEF NamesFit, RevertsFit, Burning, Signed
<1>4. \A d \in Calls : pc[d] = "staleRow" => op[d].res # c
  BY <1>1 DEF ReservesHeld
<1> QED
  BY <1>1, <1>2, <1>3, <1>4 DEF Counted, Counts

\* A set whose members are all the same has at most one.
LEMMA AtMostOne ==
    ASSUME NEW S, \A c, d \in S : c = d
    PROVE  Cardinality(S) <= 1
<1>1. CASE S = {}
  BY <1>1, FS_EmptySet
<1>2. CASE S # {}
  <2>1. PICK c \in S : S = {c}
    BY <1>2
  <2>2. Cardinality({c}) = 1
    BY FS_Singleton
  <2> QED
    BY <2>1, <2>2
<1> QED
  BY <1>1, <1>2

\* The invariant is what the service promises, and more.
LEMMA InvIsSafe ==
    FundInv =>
        BurnIsOnRecord /\ OneBurnPerKey /\ OneBurnPerNonce /\ NonceIsKept /\ QuotaCoversBurns
<1> SUFFICES ASSUME FundInv
             PROVE  /\ BurnIsOnRecord /\ OneBurnPerKey /\ OneBurnPerNonce
                    /\ NonceIsKept /\ QuotaCoversBurns
  OBVIOUS
<1> USE DEF FundInv, FundShape
<1>1. \A k \in Keys : \A c \in LiveBurns(k) :
          c \in Calls /\ key[c] = k /\ Sent(Tx("burn", c)) /\ c \notin reverted
  BY BurnsSent DEF LiveBurns
<1>2. BurnIsOnRecord
  BY <1>1 DEF BurnIsOnRecord, BurnsOnRecord, Live
<1>3. OneBurnPerKey
  <2> SUFFICES ASSUME NEW k \in Keys, k \notin disturbed, ~lapsed,
                      NEW c \in LiveBurns(k), NEW d \in LiveBurns(k)
               PROVE  c = d
    BY AtMostOne DEF OneBurnPerKey
  <2> QED
    BY <1>2 DEF BurnIsOnRecord
<1>6. OneBurnPerNonce
  <2> SUFFICES ASSUME NEW n \in Nonces, NEW c \in Burns, NEW d \in Burns,
                      claimNonce[c] = n, claimNonce[d] = n
               PROVE  c = d
    BY AtMostOne DEF OneBurnPerNonce
  <2>1. c \in Calls /\ d \in Calls /\ Named(c) /\ Named(d)
    BY BurnsSent DEF Named
  <2>2. Entered(c) /\ Entered(d)
    BY <2>1 DEF RowsFit, Entered
  <2>3. n # Session
    BY DemoFundAssumption DEF Session
  <2> QED
    BY <2>1, <2>2, <2>3 DEF NoncesFit
<1>4. NonceIsKept
  BY DEF NonceIsKept, NoncesHeld, Accepts
<1>5. QuotaCoversBurns
  <2> SUFFICES ASSUME ~halfReleased, ~lapsed PROVE Cardinality(Burns \ reverted) <= used
    BY DEF QuotaCoversBurns
  <2>1. Cardinality(Counted) <= used /\ IsFiniteSet(Counted)
    BY NobodyCalls, FS_Subset DEF QuotaKept, Counted
  <2>2. Cardinality(Burns \ reverted) <= Cardinality(Counted)
    BY <2>1, BurnsCount, FS_Subset
  <2>3. Cardinality(Counted) \in Nat /\ Cardinality(Burns \ reverted) \in Nat /\ used \in Nat
    BY <2>1, BurnsCount, FS_Subset, FS_CardinalityType, DemoFundAssumption DEF TypeOK
  <2> QED
    BY <2>1, <2>2, <2>3
<1> QED
  BY <1>2, <1>3, <1>4, <1>5, <1>6

---------------------------------------------------------------------------
(* The funding panel (FundFlow). *)

\* Until its fallback burns, a click has burned through App Kit alone; the
\* fallback begins only when that burn, if there was one, was lost sight of.
FallbackFollowsLoss ==
    /\ "manual" \in burned => /\ kit \in {"manualReceipt", "error", "minted", "done"}
                              /\ ~StrictAppKit
                              /\ "kit" \in burned => lostBurn # "no"
    /\ kit = "manual" => ~StrictAppKit /\ ("kit" \in burned => lostBurn # "no")

PanelInv == Panel!TypeOK /\ FallbackFollowsLoss /\ Panel!MintedMeansMinted

\* The panel begins without a burn.
LEMMA PanelInvInit == Panel!Init => PanelInv
BY DEF Panel!Init, PanelInv, Panel!TypeOK, FallbackFollowsLoss, Panel!MintedMeansMinted

\* The bridge keeps the invariant.
LEMMA PanelKeeps == PanelInv /\ Panel!Next => PanelInv'
<1> SUFFICES ASSUME PanelInv, Panel!Next PROVE PanelInv'
  OBVIOUS
<1> USE DEF PanelInv, Panel!TypeOK, FallbackFollowsLoss, Panel!MintedMeansMinted, Panel!Caught
<1>1. CASE Panel!Bridge \/ Panel!Reload
  BY <1>1 DEF Panel!Bridge, Panel!Reload, Panel!Fresh
<1>2. ASSUME NEW did \in Panel!Steps, NEW told \in Panel!Steps, Panel!KitReturns(did, told) PROVE PanelInv'
  <2>1. /\ Panel!Phase(told) = "complete" <=> told = 3
        /\ Panel!Phase(told) = "burn_submitted" <=> told = 2
        /\ did \in 0..3 /\ told \in 0..3
    BY DEF Panel!Phase, Panel!Steps
  <2>2. /\ burned' = (IF did >= 2 THEN {"kit"} ELSE {}) /\ minted' = (IF did = 3 THEN {"kit"} ELSE {})
        /\ lostBurn' = (IF did >= 2 /\ told < 2 THEN "unreported" ELSE "no")
        /\ kit' = (IF told = 3 THEN "minted" ELSE IF told = 2 THEN "receipt" ELSE Panel!Caught)
        /\ told = 3 => did = 3
    BY <1>2, <2>1 DEF Panel!KitReturns
  <2>3. Panel!TypeOK' /\ Panel!MintedMeansMinted'
    BY <2>1, <2>2
  <2>4. FallbackFollowsLoss'
    BY <2>1, <2>2
  <2> QED
    BY <2>3, <2>4
<1>3. CASE Panel!ManualBurn
  BY <1>3 DEF Panel!ManualBurn
<1>4. CASE Panel!SeenMinted
  BY <1>4 DEF Panel!SeenMinted, Panel!Watched
<1>5. CASE Panel!NotSeenMinted
  BY <1>5 DEF Panel!NotSeenMinted
<1>6. CASE Panel!BridgeThrows
  BY <1>6 DEF Panel!BridgeThrows
<1>7. ASSUME NEW b \in burned, Panel!Mints(b) PROVE PanelInv'
  BY <1>7 DEF Panel!Mints
<1> QED
  BY <1>1, <1>2, <1>3, <1>4, <1>5, <1>6, <1>7 DEF Panel!Next

\* Every operation keeps the invariant.
LEMMA PanelInvStep == PanelInv /\ [Panel!Next]_panelVars => PanelInv'
<1> SUFFICES ASSUME PanelInv, [Panel!Next]_panelVars PROVE PanelInv'
  OBVIOUS
<1>1. CASE Panel!Next
  BY <1>1, PanelKeeps
<1>2. CASE UNCHANGED panelVars
  BY <1>2 DEF panelVars, PanelInv, Panel!TypeOK, FallbackFollowsLoss, Panel!MintedMeansMinted
<1> QED
  BY <1>1, <1>2

\* The invariant is what the panel promises, and more.
LEMMA PanelInvIsSafe == PanelInv => Panel!SecondBurnNeedsALoss /\ Panel!MintedMeansMinted
<1> SUFFICES ASSUME PanelInv PROVE Panel!SecondBurnNeedsALoss
  BY DEF PanelInv
<1>1. CASE lostBurn # "no" /\ ~StrictAppKit
  BY <1>1 DEF Panel!SecondBurnNeedsALoss
<1>2. CASE ~(lostBurn # "no" /\ ~StrictAppKit)
  <2>1. \A a, b \in burned : a = b
    BY <1>2 DEF PanelInv, Panel!TypeOK, FallbackFollowsLoss
  <2>2. Cardinality(burned) <= 1
    BY <2>1, AtMostOne
  <2>3. Cardinality(burned) \in Nat
    <3>1. burned = {} \/ \E b \in burned : burned = {b}
      BY <2>1
    <3> QED
      BY <3>1, FS_EmptySet, FS_Singleton
  <2>4. Panel!Cardinality(burned) = Cardinality(burned)
    BY DEF Panel!Cardinality, Cardinality
  <2> QED
    BY <2>2, <2>3, <2>4 DEF Panel!SecondBurnNeedsALoss
<1> QED
  BY <1>1, <1>2

---------------------------------------------------------------------------
(* The deposit into the vault from any chain (VaultForm). *)

VaultPlaces == {"idle", "deposit", "spend", "bridge", "retry", "finish", "wait", "put"}

\* What the page's variables hold, but for the two flags.
VaultShape ==
    /\ form \in [pc : VaultPlaces, amount : {0} \cup Amounts, before : Nat]
    /\ shown \in {0} \cup Amounts /\ stored \in {0} \cup Amounts
    /\ gateway \in Nat /\ onTheWay \in Nat /\ arc \in Nat /\ received \in Nat /\ vaulted \in Nat
    /\ moves \in [click : 0..MaxMoves, lost : 0..MaxMoves, all : 0..MaxMoves]
    /\ moves.lost <= moves.click /\ moves.click <= moves.all
    /\ unheard \in [in : Nat, out : Nat]

VaultFlags == given \in BOOLEAN /\ reserved \in BOOLEAN

\* Nothing has moved since the click while the page may still deposit, and no
\* more than an unheard deposit while it may bridge.
MovesCounted ==
    /\ moves.lost <= 1 /\ moves.click <= 1 + moves.lost
    /\ form.pc = "deposit" => moves.click = 0
    /\ form.pc = "bridge" => moves.click = moves.lost

\* The Unified Balance has what is remembered, but for what left it unheard,
\* and what is about to be spent.
MoneyFound == stored <= gateway + unheard.out /\ (form.pc = "spend" => form.amount <= gateway)

\* What the user has gained on Arc since the click has arrived, and is in the
\* vault only when the page put it there.
GainArrived ==
    /\ vaulted <= received
    /\ form.pc \in VaultPlaces \ {"idle", "put"} => arc + vaulted <= form.before + received
    /\ form.pc = "put" => vaulted + form.amount <= received

\* Unless the user let go of a deposit, the Unified Balance is what is
\* remembered and what is about to be spent, but for what moved unheard.
Remembered ==
    ~given =>
        /\ gateway + unheard.out = stored + unheard.in + (IF form.pc = "spend" THEN form.amount ELSE 0)
        /\ shown \in {0, stored}
        /\ form.pc \in {"deposit", "spend", "bridge"} => stored = 0
        /\ form.pc = "retry" => form.amount = stored

VaultInv == VaultShape /\ VaultFlags /\ MovesCounted /\ MoneyFound /\ GainArrived /\ Remembered

\* The constants of the page.
LEMMA VaultConstants ==
    /\ MaxMoves \in Nat /\ Cash \in Nat /\ MaxIncome \in Nat /\ Amounts \subseteq Nat /\ 0 \notin Amounts
    /\ \A a \in {0} \cup Amounts : a \in Nat
BY FundingAssumption DEF Vault!VaultFormAssumption

\* The page begins with nothing moved.
LEMMA VaultInvInit == Vault!Init => VaultInv
<1> SUFFICES ASSUME Vault!Init PROVE VaultInv
  OBVIOUS
<1>1. VaultFlags
  BY Zenon DEF Vault!Init, VaultFlags
<1>2. VaultShape
  BY VaultConstants DEF Vault!Init, Vault!Idle, Vault!NoRecord, VaultShape, VaultPlaces
<1>3. MovesCounted /\ MoneyFound /\ GainArrived /\ Remembered
  BY VaultConstants DEF Vault!Init, Vault!Idle, Vault!NoRecord, MovesCounted, MoneyFound, GainArrived,
     Remembered, VaultPlaces
<1> QED
  BY <1>1, <1>2, <1>3 DEF VaultInv

\* Every operation leaves the flags flags.
LEMMA FlagsStep == VaultFlags /\ Vault!Next => VaultFlags'
BY Zenon DEF VaultFlags, Vault!Next, Vault!AnyChain, Vault!Land, Vault!Deposit, Vault!DepositThrows, Vault!Spend,
   Vault!SpendThrows, Vault!Bridge, Vault!Throws, Vault!Complete, Vault!Retry, Vault!RetryThrows,
   Vault!Dismiss, Vault!Asks, Vault!Waits, Vault!Put, Vault!Load, Vault!Expire, Vault!Income,
   Vault!Pays, Vault!Tickets

\* Every operation leaves the page's variables and its money as the invariant
\* has them.
LEMMA VaultStep ==
    ASSUME VaultInv, Vault!Next
    PROVE  (VaultShape /\ MovesCounted /\ MoneyFound /\ GainArrived /\ Remembered)'
<1> DEFINE P == (VaultShape /\ MovesCounted /\ MoneyFound /\ GainArrived /\ Remembered)'
<1> USE VaultConstants DEF VaultInv, VaultPlaces, Vault!At, Vault!Goes, Vault!Moved, Vault!Spent, Vault!NoRecord,
        Vault!money, Vault!AfterSpendFailed, Vault!Landed, Vault!Idle, Vault!Click, Vault!Sends, Vault!SendsUnheard
<1>1. ASSUME NEW a \in Amounts, Vault!AnyChain(a) PROVE P
  <2>1. VaultShape'
    <3>1. moves' \in [click : 0..MaxMoves, lost : 0..MaxMoves, all : 0..MaxMoves]
          /\ moves'.lost <= moves'.click /\ moves'.click <= moves'.all
      BY <1>1 DEF Vault!AnyChain, VaultShape
    <3>2. form' \in [pc : VaultPlaces, amount : {0} \cup Amounts, before : Nat]
      BY <1>1 DEF Vault!AnyChain, VaultShape
    <3> QED
      BY <1>1, <3>1, <3>2 DEF Vault!AnyChain, VaultShape
  <2>2. MovesCounted'
    BY <1>1 DEF Vault!AnyChain, VaultShape, MovesCounted
  <2>3. MoneyFound'
    BY <1>1 DEF Vault!AnyChain, VaultShape, MoneyFound, Remembered
  <2>4. GainArrived'
    BY <1>1 DEF Vault!AnyChain, VaultShape, GainArrived
  <2>5. Remembered'
    BY <1>1 DEF Vault!AnyChain, VaultShape, VaultFlags, Remembered, MoneyFound
  <2> QED
    BY <2>1, <2>2, <2>3, <2>4, <2>5
<1>2. ASSUME NEW a \in Amounts, Vault!Land(a) PROVE P
  <2>1. VaultShape'
    BY <1>2 DEF Vault!Land, VaultShape
  <2>2. MovesCounted'
    BY <1>2 DEF Vault!Land, VaultShape, MovesCounted
  <2>3. MoneyFound'
    BY <1>2 DEF Vault!Land, VaultShape, MoneyFound, Remembered
  <2>4. GainArrived'
    <3>1. /\ a \in Nat /\ arc \in Nat /\ vaulted \in Nat /\ received \in Nat
          /\ form.before \in Nat /\ form.amount \in Nat
      BY <1>2 DEF VaultShape
    <3>2. arc' = arc + a /\ received' = received + a /\ UNCHANGED <<form, vaulted>>
      BY <1>2 DEF Vault!Land
    <3> QED
      BY <3>1, <3>2 DEF GainArrived
  <2>5. Remembered'
    BY <1>2 DEF Vault!Land, VaultShape, VaultFlags, Remembered, MoneyFound
  <2> QED
    BY <2>1, <2>2, <2>3, <2>4, <2>5
<1>3. ASSUME Vault!Deposit PROVE P
  <2>1. VaultShape'
    BY <1>3 DEF Vault!Deposit, VaultShape
  <2>2. MovesCounted'
    BY <1>3 DEF Vault!Deposit, VaultShape, MovesCounted
  <2>3. MoneyFound'
    BY <1>3 DEF Vault!Deposit, VaultShape, MoneyFound, Remembered
  <2>4. GainArrived'
    BY <1>3 DEF Vault!Deposit, VaultShape, GainArrived
  <2>5. Remembered'
    BY <1>3 DEF Vault!Deposit, VaultShape, VaultFlags, Remembered, MoneyFound
  <2> QED
    BY <2>1, <2>2, <2>3, <2>4, <2>5
<1>4. ASSUME Vault!DepositThrows PROVE P
  <2>1. VaultShape'
    BY <1>4 DEF Vault!DepositThrows, VaultShape
  <2>2. MovesCounted'
    BY <1>4 DEF Vault!DepositThrows, VaultShape, MovesCounted
  <2>3. MoneyFound'
    BY <1>4 DEF Vault!DepositThrows, VaultShape, MoneyFound, Remembered
  <2>4. GainArrived'
    BY <1>4 DEF Vault!DepositThrows, VaultShape, GainArrived
  <2>5. Remembered'
    BY <1>4 DEF Vault!DepositThrows, VaultShape, VaultFlags, Remembered, MoneyFound
  <2> QED
    BY <2>1, <2>2, <2>3, <2>4, <2>5
<1>5. ASSUME Vault!Spend PROVE P
  <2>1. VaultShape'
    BY <1>5 DEF Vault!Spend, VaultShape, MoneyFound
  <2>2. MovesCounted'
    BY <1>5 DEF Vault!Spend, VaultShape, MovesCounted
  <2>3. MoneyFound'
    BY <1>5 DEF Vault!Spend, VaultShape, MoneyFound, Remembered
  <2>4. GainArrived'
    BY <1>5 DEF Vault!Spend, VaultShape, GainArrived
  <2>5. Remembered'
    BY <1>5 DEF Vault!Spend, VaultShape, VaultFlags, Remembered, MoneyFound
  <2> QED
    BY <2>1, <2>2, <2>3, <2>4, <2>5
<1>6. ASSUME Vault!SpendThrows PROVE P
  <2>1. VaultShape'
    BY <1>6 DEF Vault!SpendThrows, VaultShape
  <2>2. MovesCounted'
    BY <1>6 DEF Vault!SpendThrows, VaultShape, MovesCounted
  <2>3. MoneyFound'
    BY <1>6 DEF Vault!SpendThrows, VaultShape, MoneyFound, Remembered
  <2>4. GainArrived'
    BY <1>6 DEF Vault!SpendThrows, VaultShape, GainArrived
  <2>5. Remembered'
    BY <1>6 DEF Vault!SpendThrows, VaultShape, VaultFlags, Remembered, MoneyFound
  <2> QED
    BY <2>1, <2>2, <2>3, <2>4, <2>5
<1>7. ASSUME Vault!Bridge PROVE P
  <2>1. VaultShape'
    BY <1>7 DEF Vault!Bridge, VaultShape
  <2>2. MovesCounted'
    BY <1>7 DEF Vault!Bridge, VaultShape, MovesCounted
  <2>3. MoneyFound'
    BY <1>7 DEF Vault!Bridge, VaultShape, MoneyFound, Remembered
  <2>4. GainArrived'
    BY <1>7 DEF Vault!Bridge, VaultShape, GainArrived
  <2>5. Remembered'
    BY <1>7 DEF Vault!Bridge, VaultShape, VaultFlags, Remembered, MoneyFound
  <2> QED
    BY <2>1, <2>2, <2>3, <2>4, <2>5
<1>8. ASSUME Vault!Throws PROVE P
  <2>1. VaultShape'
    BY <1>8 DEF Vault!Throws, VaultShape
  <2>2. MovesCounted'
    BY <1>8 DEF Vault!Throws, VaultShape, MovesCounted
  <2>3. MoneyFound'
    BY <1>8 DEF Vault!Throws, VaultShape, MoneyFound, Remembered
  <2>4. GainArrived'
    BY <1>8 DEF Vault!Throws, VaultShape, GainArrived
  <2>5. Remembered'
    BY <1>8 DEF Vault!Throws, VaultShape, VaultFlags, Remembered, MoneyFound
  <2> QED
    BY <2>1, <2>2, <2>3, <2>4, <2>5
<1>9. ASSUME Vault!Complete PROVE P
  <2>1. VaultShape'
    <3>1. moves' \in [click : 0..MaxMoves, lost : 0..MaxMoves, all : 0..MaxMoves]
          /\ moves'.lost <= moves'.click /\ moves'.click <= moves'.all
      BY <1>9 DEF Vault!Complete, VaultShape
    <3>2. form' \in [pc : VaultPlaces, amount : {0} \cup Amounts, before : Nat]
      BY <1>9 DEF Vault!Complete, VaultShape
    <3> QED
      BY <1>9, <3>1, <3>2 DEF Vault!Complete, VaultShape
  <2>2. MovesCounted'
    BY <1>9 DEF Vault!Complete, VaultShape, MovesCounted
  <2>3. MoneyFound'
    BY <1>9 DEF Vault!Complete, VaultShape, MoneyFound, Remembered
  <2>4. GainArrived'
    BY <1>9 DEF Vault!Complete, VaultShape, GainArrived
  <2>5. Remembered'
    BY <1>9 DEF Vault!Complete, VaultShape, VaultFlags, Remembered, MoneyFound
  <2> QED
    BY <2>1, <2>2, <2>3, <2>4, <2>5
<1>10. ASSUME Vault!Retry PROVE P
  <2>1. VaultShape'
    BY <1>10 DEF Vault!Retry, VaultShape
  <2>2. MovesCounted'
    BY <1>10 DEF Vault!Retry, VaultShape, MovesCounted
  <2>3. MoneyFound'
    BY <1>10 DEF Vault!Retry, VaultShape, MoneyFound, Remembered
  <2>4. GainArrived'
    BY <1>10 DEF Vault!Retry, VaultShape, GainArrived
  <2>5. Remembered'
    BY <1>10 DEF Vault!Retry, VaultShape, VaultFlags, Remembered, MoneyFound
  <2> QED
    BY <2>1, <2>2, <2>3, <2>4, <2>5
<1>11. ASSUME Vault!RetryThrows PROVE P
  <2>1. VaultShape'
    BY <1>11 DEF Vault!RetryThrows, VaultShape
  <2>2. MovesCounted'
    BY <1>11 DEF Vault!RetryThrows, VaultShape, MovesCounted
  <2>3. MoneyFound'
    BY <1>11 DEF Vault!RetryThrows, VaultShape, MoneyFound, Remembered
  <2>4. GainArrived'
    BY <1>11 DEF Vault!RetryThrows, VaultShape, GainArrived
  <2>5. Remembered'
    BY <1>11 DEF Vault!RetryThrows, VaultShape, VaultFlags, Remembered, MoneyFound
  <2> QED
    BY <2>1, <2>2, <2>3, <2>4, <2>5
<1>12. ASSUME Vault!Dismiss PROVE P
  <2>1. VaultShape'
    BY <1>12 DEF Vault!Dismiss, VaultShape
  <2>2. MovesCounted'
    BY <1>12 DEF Vault!Dismiss, VaultShape, MovesCounted
  <2>3. MoneyFound'
    BY <1>12 DEF Vault!Dismiss, VaultShape, MoneyFound, Remembered
  <2>4. GainArrived'
    BY <1>12 DEF Vault!Dismiss, VaultShape, GainArrived
  <2>5. Remembered'
    BY <1>12 DEF Vault!Dismiss, VaultShape, VaultFlags, Remembered, MoneyFound
  <2> QED
    BY <2>1, <2>2, <2>3, <2>4, <2>5
<1>13. ASSUME Vault!Asks PROVE P
  <2>1. VaultShape'
    BY <1>13 DEF Vault!Asks, VaultShape
  <2>2. MovesCounted'
    BY <1>13 DEF Vault!Asks, VaultShape, MovesCounted
  <2>3. MoneyFound'
    BY <1>13 DEF Vault!Asks, VaultShape, MoneyFound, Remembered
  <2>4. GainArrived'
    BY <1>13 DEF Vault!Asks, VaultShape, GainArrived
  <2>5. Remembered'
    BY <1>13 DEF Vault!Asks, VaultShape, VaultFlags, Remembered, MoneyFound
  <2> QED
    BY <2>1, <2>2, <2>3, <2>4, <2>5
<1>14. ASSUME Vault!Waits PROVE P
  <2>1. VaultShape'
    BY <1>14 DEF Vault!Waits, VaultShape
  <2>2. MovesCounted'
    BY <1>14 DEF Vault!Waits, VaultShape, MovesCounted
  <2>3. MoneyFound'
    BY <1>14 DEF Vault!Waits, VaultShape, MoneyFound, Remembered
  <2>4. GainArrived'
    BY <1>14 DEF Vault!Waits, VaultShape, GainArrived
  <2>5. Remembered'
    BY <1>14 DEF Vault!Waits, VaultShape, VaultFlags, Remembered, MoneyFound
  <2> QED
    BY <2>1, <2>2, <2>3, <2>4, <2>5
<1>15. ASSUME Vault!Put PROVE P
  <2>1. VaultShape'
    BY <1>15 DEF Vault!Put, VaultShape
  <2>2. MovesCounted'
    BY <1>15 DEF Vault!Put, VaultShape, MovesCounted
  <2>3. MoneyFound'
    BY <1>15 DEF Vault!Put, VaultShape, MoneyFound, Remembered
  <2>4. GainArrived'
    BY <1>15 DEF Vault!Put, VaultShape, GainArrived
  <2>5. Remembered'
    BY <1>15 DEF Vault!Put, VaultShape, VaultFlags, Remembered, MoneyFound
  <2> QED
    BY <2>1, <2>2, <2>3, <2>4, <2>5
<1>16. ASSUME Vault!Load PROVE P
  <2>1. VaultShape'
    BY <1>16 DEF Vault!Load, VaultShape
  <2>2. MovesCounted'
    BY <1>16 DEF Vault!Load, VaultShape, MovesCounted
  <2>3. MoneyFound'
    BY <1>16 DEF Vault!Load, VaultShape, MoneyFound, Remembered
  <2>4. GainArrived'
    BY <1>16 DEF Vault!Load, VaultShape, GainArrived
  <2>5. Remembered'
    BY <1>16 DEF Vault!Load, VaultShape, VaultFlags, Remembered, MoneyFound
  <2> QED
    BY <2>1, <2>2, <2>3, <2>4, <2>5
<1>17. ASSUME Vault!Expire PROVE P
  <2>1. VaultShape'
    BY <1>17 DEF Vault!Expire, VaultShape
  <2>2. MovesCounted'
    BY <1>17 DEF Vault!Expire, VaultShape, MovesCounted
  <2>3. MoneyFound'
    BY <1>17 DEF Vault!Expire, VaultShape, MoneyFound, Remembered
  <2>4. GainArrived'
    BY <1>17 DEF Vault!Expire, VaultShape, GainArrived
  <2>5. Remembered'
    BY <1>17 DEF Vault!Expire, VaultShape, VaultFlags, Remembered, MoneyFound
  <2> QED
    BY <2>1, <2>2, <2>3, <2>4, <2>5
<1>18. ASSUME Vault!Pays PROVE P
  <2>1. VaultShape'
    BY <1>18 DEF Vault!Pays, VaultShape
  <2>2. MovesCounted'
    BY <1>18 DEF Vault!Pays, VaultShape, MovesCounted
  <2>3. MoneyFound'
    BY <1>18 DEF Vault!Pays, VaultShape, MoneyFound, Remembered
  <2>4. GainArrived'
    BY <1>18 DEF Vault!Pays, VaultShape, GainArrived
  <2>5. Remembered'
    BY <1>18 DEF Vault!Pays, VaultShape, VaultFlags, Remembered, MoneyFound
  <2> QED
    BY <2>1, <2>2, <2>3, <2>4, <2>5
<1>19. ASSUME Vault!Tickets PROVE P
  <2>1. VaultShape'
    BY <1>19 DEF Vault!Tickets, VaultShape
  <2>2. MovesCounted'
    BY <1>19 DEF Vault!Tickets, VaultShape, MovesCounted
  <2>3. MoneyFound'
    BY <1>19 DEF Vault!Tickets, VaultShape, MoneyFound, Remembered
  <2>4. GainArrived'
    BY <1>19 DEF Vault!Tickets, VaultShape, GainArrived
  <2>5. Remembered'
    BY <1>19 DEF Vault!Tickets, VaultShape, VaultFlags, Remembered, MoneyFound
  <2> QED
    BY <2>1, <2>2, <2>3, <2>4, <2>5
<1>20. ASSUME Vault!Income PROVE P
  <2>1. VaultShape'
    BY <1>20 DEF Vault!Income, VaultShape
  <2>2. MovesCounted'
    BY <1>20 DEF Vault!Income, VaultShape, MovesCounted
  <2>3. MoneyFound'
    BY <1>20 DEF Vault!Income, VaultShape, MoneyFound, Remembered
  <2>4. GainArrived'
    <3>1. /\ arc \in Nat /\ vaulted \in Nat /\ received \in Nat
          /\ form.before \in Nat /\ form.amount \in Nat
      BY DEF VaultShape
    <3>2. arc' = arc + 1 /\ received' = received + 1 /\ UNCHANGED <<form, vaulted>>
      BY <1>20 DEF Vault!Income
    <3> QED
      BY <3>1, <3>2 DEF GainArrived
  <2>5. Remembered'
    BY <1>20 DEF Vault!Income, VaultShape, VaultFlags, Remembered, MoneyFound
  <2> QED
    BY <2>1, <2>2, <2>3, <2>4, <2>5
<1> QED
  BY <1>1, <1>2, <1>3, <1>4, <1>5, <1>6, <1>7, <1>8, <1>9, <1>10, <1>11, <1>12, <1>13, <1>14, <1>15, <1>16, <1>17, <1>18, <1>19, <1>20 DEF Vault!Next

\* Every operation keeps the invariant.
LEMMA VaultInvStep == VaultInv /\ [Vault!Next]_vaultVars => VaultInv'
<1> SUFFICES ASSUME VaultInv, [Vault!Next]_vaultVars PROVE VaultInv'
  OBVIOUS
<1>1. CASE Vault!Next
  BY <1>1, FlagsStep, VaultStep DEF VaultInv
<1>2. CASE UNCHANGED vaultVars
  BY <1>2 DEF vaultVars, VaultInv, VaultShape, VaultFlags, MovesCounted, MoneyFound, GainArrived, Remembered
<1> QED
  BY <1>1, <1>2

\* The invariant is what the page promises, and more.
LEMMA VaultInvIsSafe ==
    VaultInv => /\ Vault!TypeOK /\ Vault!OneMovePerAnswer /\ Vault!RetryFindsItsMoney
                /\ Vault!VaultTakesWhatArrived /\ Vault!StrandedDepositIsRemembered
<1> SUFFICES ASSUME VaultInv
             PROVE  /\ Vault!TypeOK /\ Vault!OneMovePerAnswer /\ Vault!RetryFindsItsMoney
                    /\ Vault!VaultTakesWhatArrived /\ Vault!StrandedDepositIsRemembered
  OBVIOUS
<1> USE DEF VaultInv
<1>1. Vault!TypeOK
  BY DEF VaultShape, VaultFlags, VaultPlaces, Vault!TypeOK, Vault!NoRecord
<1>2. Vault!OneMovePerAnswer /\ Vault!RetryFindsItsMoney /\ Vault!VaultTakesWhatArrived
  BY DEF MovesCounted, MoneyFound, GainArrived, Vault!OneMovePerAnswer, Vault!RetryFindsItsMoney,
     Vault!VaultTakesWhatArrived
<1>3. Vault!StrandedDepositIsRemembered
  BY VaultConstants DEF VaultShape, Remembered, Vault!StrandedDepositIsRemembered, Vault!At, Vault!NoRecord
<1> QED
  BY <1>1, <1>2, <1>3

---------------------------------------------------------------------------
(* The purchase of a ticket (TicketForm). *)

ShopPlaces == {"idle", "approve", "sign", "receipt"}
Purchase == [pc : {"sent", "minted", "reverted"}, boost : Boosts, price : Prices]
Debits == {0} \cup {Shop!Debit(b) : b \in Boosts}

\* What the form has; a click under way has a quote.
FormShape ==
    /\ choice \in Boosts /\ previews \subseteq Boosts /\ price \in Prices
    /\ quoted \in Debits /\ known \in Nat /\ granted \in Nat
    /\ purchase \in [pc : ShopPlaces, boost : {0} \cup Boosts, price : {0} \cup Prices]
    /\ purchase.pc # "idle" => purchase.boost \in Boosts /\ purchase.price \in Prices

\* The purchases sent are numbered, and one that is waited for was sent.
BuysShape ==
    \E n \in 0..MaxBuys :
        /\ buys \in [1..n -> Purchase]
        /\ purchase.pc = "receipt" => n >= 1

\* A position has the number, the boost and the price of a ticket.
SavedShape ==
    /\ saved \subseteq [id : 1..MaxBuys, boost : Boosts, price : Prices]
    /\ \A s \in saved : /\ s.id \in DOMAIN buys
                        /\ buys[s.id] = [pc |-> "minted", boost |-> s.boost, price |-> s.price]

ShopInv == open \in BOOLEAN /\ FormShape /\ BuysShape /\ SavedShape

\* The constants of the form.
LEMMA ShopConstants ==
    /\ MaxBuys \in Nat /\ Boosts \subseteq Nat /\ 0 \notin Boosts
    /\ \A b \in Boosts : Shop!Debit(b) \in Nat /\ Shop!Debit(b) \in Debits
    /\ Debits \subseteq Nat /\ 0 \in Debits
BY FundingAssumption DEF Shop!TicketFormAssumption, Shop!Debit, Debits

\* How many purchases were sent is the last number.
LEMMA LastBuy ==
    ASSUME NEW n \in Nat, DOMAIN buys = 1..n
    PROVE  Shop!Cardinality(DOMAIN buys) = n
<1>1. Cardinality(1..n) = n
  BY FS_Interval
<1>2. Shop!Cardinality(1..n) = Cardinality(1..n)
  BY DEF Shop!Cardinality, Cardinality
<1> QED
  BY <1>1, <1>2

\* The form begins without purchases and positions.
LEMMA ShopInvInit == Shop!Init => ShopInv
<1> SUFFICES ASSUME Shop!Init PROVE ShopInv
  OBVIOUS
<1>1. open \in BOOLEAN
  BY Zenon DEF Shop!Init
<1>2. FormShape
  BY ShopConstants DEF Shop!Init, Shop!NoQuote, FormShape, ShopPlaces
<1>3. BuysShape
  <2>1. buys \in [1..0 -> Purchase] /\ 0 \in 0..MaxBuys /\ purchase.pc = "idle"
    BY ShopConstants DEF Shop!Init, Shop!NoQuote
  <2> QED
    BY <2>1 DEF BuysShape
<1>4. SavedShape
  BY DEF Shop!Init, SavedShape
<1> QED
  BY <1>1, <1>2, <1>3, <1>4 DEF ShopInv

\* What moves the form and the price, and sends nothing, keeps the invariant.
LEMMA FormKeeps ==
    ASSUME ShopInv, UNCHANGED <<buys, saved>>,
           \/ \E b \in Boosts : Shop!Select(b) \/ Shop!Preview(b)
           \/ Shop!Approve \/ Shop!Approved \/ Shop!ApproveFails \/ Shop!Confirm \/ Shop!Refuse
           \/ Shop!NotBought \/ Shop!Leave \/ Shop!Lock \/ \E p \in Prices : Shop!Trade(p)
    PROVE  ShopInv'
<1> USE ShopConstants DEF ShopInv
<1>1. open' \in BOOLEAN
  BY Zenon DEF Shop!Select, Shop!Preview, Shop!Approve, Shop!Approved, Shop!ApproveFails, Shop!Confirm,
     Shop!Refuse, Shop!NotBought, Shop!Leave, Shop!Lock, Shop!Trade, Shop!chain
<1>2. purchase.pc # "receipt" => purchase'.pc # "receipt"
  BY DEF FormShape, Shop!Select, Shop!Preview, Shop!Approve, Shop!Approved, Shop!ApproveFails, Shop!Confirm,
     Shop!Refuse, Shop!NotBought, Shop!Leave, Shop!Lock, Shop!Trade, Shop!NoQuote, Shop!Back
<1>3. BuysShape' /\ SavedShape'
  BY <1>2 DEF BuysShape, SavedShape
<1>4. FormShape'
  <2> USE DEF FormShape, Shop!At, Shop!chain, Shop!NoQuote, Shop!Back, ShopPlaces
  <2>1. ASSUME NEW b \in Boosts, Shop!Select(b) PROVE FormShape'
    BY <2>1 DEF Shop!Select
  <2>2. ASSUME NEW b \in Boosts, Shop!Preview(b) PROVE FormShape'
    BY <2>2 DEF Shop!Preview
  <2>3. ASSUME NEW p \in Prices, Shop!Trade(p) PROVE FormShape'
    BY <2>3 DEF Shop!Trade
  <2>4. ASSUME Shop!Approve PROVE FormShape'
    BY <2>4 DEF Shop!Approve
  <2>5. ASSUME Shop!Approved PROVE FormShape'
    BY <2>5 DEF Shop!Approved
  <2>6. ASSUME Shop!ApproveFails PROVE FormShape'
    BY <2>6 DEF Shop!ApproveFails
  <2>7. ASSUME Shop!Confirm PROVE FormShape'
    BY <2>7 DEF Shop!Confirm
  <2>8. ASSUME Shop!Refuse PROVE FormShape'
    BY <2>8 DEF Shop!Refuse
  <2>9. ASSUME Shop!NotBought PROVE FormShape'
    BY <2>9 DEF Shop!NotBought
  <2>10. ASSUME Shop!Leave PROVE FormShape'
    BY <2>10 DEF Shop!Leave
  <2>11. ASSUME Shop!Lock PROVE FormShape'
    BY <2>11 DEF Shop!Lock
  <2> QED
    BY <2>1, <2>2, <2>3, <2>4, <2>5, <2>6, <2>7, <2>8, <2>9, <2>10, <2>11
<1> QED
  BY <1>1, <1>3, <1>4

\* A purchase that is sent gets the next number.
LEMMA SendKeeps == ASSUME ShopInv, Shop!Send PROVE ShopInv'
<1> USE DEF ShopInv
<1>1. PICK n \in 0..MaxBuys : buys \in [1..n -> Purchase]
  BY DEF BuysShape
<1>2. n \in Nat /\ Shop!Cardinality(DOMAIN buys) = n /\ MaxBuys \in Nat
  BY <1>1, LastBuy, ShopConstants
<1> DEFINE b == [purchase EXCEPT !.pc = "sent"]
<1>3. /\ n < MaxBuys /\ purchase' = [purchase EXCEPT !.pc = "receipt"] /\ purchase.pc = "sign"
      /\ buys' = [i \in 1..(n + 1) |-> IF i = n + 1 THEN b ELSE buys[i]]
  BY <1>2 DEF Shop!Send, Shop!Goes, Shop!At
<1>4. UNCHANGED <<choice, previews, quoted, known, open, price, granted, saved>>
  BY DEF Shop!Send
<1>5. b \in Purchase
  BY <1>3 DEF FormShape, Purchase
<1>6. buys' \in [1..(n + 1) -> Purchase] /\ \A i \in 1..n : buys'[i] = buys[i]
  BY <1>1, <1>2, <1>3, <1>5
<1>7. BuysShape'
  <2>1. n + 1 \in 0..MaxBuys /\ n + 1 >= 1
    BY <1>2, <1>3
  <2> QED
    BY <1>6, <2>1 DEF BuysShape
<1>8. SavedShape'
  BY <1>1, <1>2, <1>4, <1>6 DEF SavedShape
<1>9. FormShape'
  BY <1>3, <1>4 DEF FormShape, ShopPlaces
<1> QED
  BY <1>4, <1>7, <1>8, <1>9

\* A purchase that is mined leaves the tickets as they are.
LEMMA MineKeeps == ASSUME ShopInv, NEW i \in DOMAIN buys, Shop!Mine(i) PROVE ShopInv'
<1> USE DEF ShopInv
<1>1. PICK n \in 0..MaxBuys : buys \in [1..n -> Purchase] /\ (purchase.pc = "receipt" => n >= 1)
  BY DEF BuysShape
<1>2. UNCHANGED <<choice, previews, quoted, known, purchase, open, price, saved>> /\ buys[i].pc = "sent"
  BY DEF Shop!Mine
<1>3. price \in Prices /\ buys[i] \in Purchase /\ buys[i].boost \in Boosts
  BY <1>1 DEF FormShape, Purchase
<1>4. PICK b \in Purchase : buys' = [buys EXCEPT ![i] = b]
  <2>1. CASE open /\ granted >= Shop!Debit(buys[i].boost)
    <3>1. buys' = [buys EXCEPT ![i].pc = "minted", ![i].price = price]
      BY <2>1 DEF Shop!Mine
    <3>2. [buys[i] EXCEPT !.pc = "minted", !.price = price] \in Purchase
      BY <1>3 DEF Purchase
    <3>3. buys' = [buys EXCEPT ![i] = [buys[i] EXCEPT !.pc = "minted", !.price = price]]
      BY <1>1, <3>1
    <3> QED
      BY <3>2, <3>3
  <2>2. CASE ~(open /\ granted >= Shop!Debit(buys[i].boost))
    <3>1. buys' = [buys EXCEPT ![i].pc = "reverted"]
      BY <2>2 DEF Shop!Mine
    <3>2. [buys[i] EXCEPT !.pc = "reverted"] \in Purchase
      BY <1>3 DEF Purchase
    <3>3. buys' = [buys EXCEPT ![i] = [buys[i] EXCEPT !.pc = "reverted"]]
      BY <1>1, <3>1
    <3> QED
      BY <3>2, <3>3
  <2> QED
    BY <2>1, <2>2
<1>5. granted' \in Nat
  <2>1. granted \in Nat /\ Shop!Debit(buys[i].boost) \in Nat
    BY <1>3, ShopConstants DEF FormShape
  <2>2. granted' = granted \/ (granted >= Shop!Debit(buys[i].boost) /\ granted' = granted - Shop!Debit(buys[i].boost))
    BY DEF Shop!Mine
  <2> QED
    BY <2>1, <2>2
<1>6. buys' \in [1..n -> Purchase]
  BY <1>1, <1>4
<1>7. BuysShape'
  BY <1>1, <1>2, <1>6 DEF BuysShape
<1>8. SavedShape'
  BY <1>1, <1>2, <1>4, <1>6 DEF SavedShape
<1> QED
  BY <1>2, <1>5, <1>7, <1>8 DEF FormShape

\* What is kept of a purchase is its ticket.
LEMMA BoughtKeeps == ASSUME ShopInv, Shop!Bought PROVE ShopInv'
<1> USE DEF ShopInv
<1>1. PICK n \in 0..MaxBuys : buys \in [1..n -> Purchase] /\ (purchase.pc = "receipt" => n >= 1)
  BY DEF BuysShape
<1>2. n \in Nat /\ Shop!Sent = n /\ MaxBuys \in Nat
  BY <1>1, LastBuy, ShopConstants DEF Shop!Sent
<1>3. /\ purchase.pc = "receipt" /\ purchase' = Shop!NoQuote /\ buys[n].pc = "minted"
      /\ saved' = saved \cup {Shop!Position(n)}
      /\ UNCHANGED <<choice, previews, quoted, known, open, price, granted, buys>>
  BY <1>2 DEF Shop!Bought, Shop!At, Shop!Back, Shop!chain
<1>4. n \in 1..n /\ n \in 1..MaxBuys /\ buys[n] \in Purchase
  BY <1>1, <1>2, <1>3
<1>5. /\ Shop!Position(n) \in [id : 1..MaxBuys, boost : Boosts, price : Prices]
      /\ Shop!Position(n).id = n
      /\ buys[n] = [pc |-> "minted", boost |-> Shop!Position(n).boost, price |-> Shop!Position(n).price]
  BY <1>3, <1>4 DEF Shop!Position, Purchase
<1>6. SavedShape'
  BY <1>1, <1>3, <1>4, <1>5 DEF SavedShape
<1>7. BuysShape'
  BY <1>1, <1>3 DEF BuysShape, Shop!NoQuote
<1>8. FormShape'
  BY <1>3 DEF FormShape, Shop!NoQuote, ShopPlaces
<1> QED
  BY <1>3, <1>6, <1>7, <1>8

\* Every operation keeps the invariant.
LEMMA ShopInvStep == ShopInv /\ [Shop!Next]_shopVars => ShopInv'
<1> SUFFICES ASSUME ShopInv, [Shop!Next]_shopVars PROVE ShopInv'
  OBVIOUS
<1>1. CASE UNCHANGED shopVars
  BY <1>1 DEF shopVars, ShopInv, FormShape, BuysShape, SavedShape
<1>2. CASE Shop!Send \/ Shop!Bought \/ \E i \in DOMAIN buys : Shop!Mine(i)
  BY <1>2, SendKeeps, BoughtKeeps, MineKeeps
<1>3. CASE \/ \E b \in Boosts : Shop!Select(b) \/ Shop!Preview(b)
           \/ Shop!Approve \/ Shop!Approved \/ Shop!ApproveFails \/ Shop!Confirm \/ Shop!Refuse
           \/ Shop!NotBought \/ Shop!Leave \/ Shop!Lock \/ \E p \in Prices : Shop!Trade(p)
  <2>1. UNCHANGED <<buys, saved>>
    BY <1>3 DEF Shop!Select, Shop!Preview, Shop!Approve, Shop!Approved, Shop!ApproveFails, Shop!Confirm,
       Shop!Refuse, Shop!NotBought, Shop!Leave, Shop!Lock, Shop!Trade, Shop!chain
  <2> QED
    BY <1>3, <2>1, FormKeeps
<1> QED
  BY <1>1, <1>2, <1>3 DEF Shop!Next

\* The invariant is what the form promises, and more.
LEMMA ShopInvIsSafe == ShopInv => Shop!TypeOK /\ Shop!PositionsAreTickets
<1> SUFFICES ASSUME ShopInv PROVE Shop!TypeOK /\ Shop!PositionsAreTickets
  OBVIOUS
<1>1. Shop!PositionsAreTickets
  BY DEF ShopInv, SavedShape, Shop!PositionsAreTickets
<1>2. \A i \in DOMAIN buys : buys[i].pc \in {"sent", "minted", "reverted"}
  BY DEF ShopInv, BuysShape, Purchase
<1>3. Shop!TypeOK
  BY <1>2 DEF ShopInv, FormShape, SavedShape, ShopPlaces, Debits, Shop!TypeOK
<1> QED
  BY <1>1, <1>3

---------------------------------------------------------------------------
(* The demo desk (DemoDesk). *)

Results == {"none", "WIN", "LOSS", "REFUND"}

\* A ticket has five parts, and its reserve is a number.
IsTicket(t) ==
    /\ t \in [owner : {t.owner}, market : {t.market}, side : {t.side}, reserve : {t.reserve},
              result : {t.result}]
    /\ t.reserve \in Nat /\ t.result \in Results

TicketsShape ==
    \E n \in Nat : /\ tickets = [i \in 1..n |-> tickets[i]]
                   /\ \A i \in 1..n : IsTicket(tickets[i])

\* What a set of tickets sets aside.
Aside(S) == Total([i \in DOMAIN tickets |-> tickets[i].reserve], S)

\* The open tickets of any owner, market or side set aside what they may.
CapsHold ==
    /\ \A o : Aside(Demo!OfOwner(o)) <= OwnerCap
    /\ \A id : Aside(Demo!OfMarket(id)) <= MarketCap
    /\ \A id, s : Aside(Demo!OfSide(id, s)) <= OutcomeCap

\* The markets: a list no longer than it may be.
StoredMarkets ==
    [id : Nat, status : {"OPEN", "LOCKED", "RESOLVED", "CANCELLED"}, winner : Demo!Outcomes \cup {"none"}]

MarketsFit == \E n \in 0..MaxMarkets : markets \in [1..n -> StoredMarkets]
TicketsFit == \E n \in 0..MaxTickets : DOMAIN tickets = 1..n

DeskTypes == MarketsFit /\ TicketsFit

DeskInv == TicketsShape /\ CapsHold

\* The caps are numbers, and so is what a quote sets aside.
LEMMA DeskConstants ==
    /\ MarketCap \in Nat /\ OutcomeCap \in Nat /\ OwnerCap \in Nat /\ Reserves \subseteq Nat
    /\ MaxTickets \in Nat /\ MaxMarkets \in Nat /\ MaxMarkets >= 2
BY FundingAssumption DEF Demo!DemoDeskAssumption

\* The desk sums as the sums of this module do.
LEMMA DeskSum == \A S : Demo!Reserve(S) = Aside(S)
BY DEF Demo!Reserve, Demo!Total, Demo!Coins, Demo!CoinsOf, Demo!Cardinality, Aside, Total, Coins, CoinsOf,
   Cardinality

\* The places of the tickets are numbers.
LEMMA TicketPlaces ==
    ASSUME TicketsShape
    PROVE  /\ IsFiniteSet(DOMAIN tickets) /\ \A i \in DOMAIN tickets : IsTicket(tickets[i])
           /\ \E n \in Nat : DOMAIN tickets = 1..n
           /\ tickets = [i \in DOMAIN tickets |-> tickets[i]]
<1>1. PICK n \in Nat : /\ tickets = [i \in 1..n |-> tickets[i]]
                       /\ \A i \in 1..n : IsTicket(tickets[i])
  BY DEF TicketsShape
<1>2. DOMAIN tickets = 1..n
  BY <1>1
<1>3. IsFiniteSet(1..n)
  BY FS_Interval
<1> QED
  BY <1>1, <1>2, <1>3

\* Fewer tickets, of the same reserves, set aside less.
LEMMA AsideShrinks ==
    ASSUME TicketsShape, DOMAIN tickets' = DOMAIN tickets,
           \A i \in DOMAIN tickets : tickets'[i].reserve = tickets[i].reserve,
           NEW S, NEW T, S \subseteq T, T \subseteq DOMAIN tickets
    PROVE  Aside(S)' <= Aside(T) /\ Aside(S)' \in Nat /\ Aside(T) \in Nat
<1> DEFINE r == [i \in DOMAIN tickets |-> tickets[i].reserve]
<1>1. r = [i \in DOMAIN tickets' |-> tickets'[i].reserve]
  OBVIOUS
<1>2. IsFiniteSet(T) /\ \A i \in T : r[i] \in Nat
  BY TicketPlaces, FS_Subset DEF IsTicket
<1> HIDE DEF r
<1>3. Total(r, S) <= Total(r, T) /\ Total(r, S) \in Nat /\ Total(r, T) \in Nat
  BY <1>2, TotalSubset
<1>4. Aside(S)' = Total(r, S)
  BY <1>1 DEF Aside
<1>5. Aside(T) = Total(r, T)
  BY DEF Aside, r
<1> QED
  BY <1>3, <1>4, <1>5

\* A ticket that is bought adds its reserve to the groups it is in.
LEMMA AsideGrows ==
    ASSUME TicketsShape, NEW n \in Nat, DOMAIN tickets = 1..n, DOMAIN tickets' = 1..(n + 1),
           \A i \in 1..n : tickets'[i] = tickets[i], tickets'[n + 1].reserve \in Nat,
           NEW S, S \subseteq 1..n
    PROVE  /\ Aside(S)' = Aside(S) /\ Aside(S) \in Nat
           /\ Aside(S \cup {n + 1})' = Aside(S) + tickets'[n + 1].reserve
<1> DEFINE a == [i \in 1..n |-> tickets[i].reserve]
<1> DEFINE b == [i \in 1..(n + 1) |-> tickets'[i].reserve]
<1>1. \A i \in 1..n : a[i] \in Nat /\ b[i] = a[i]
  BY TicketPlaces DEF IsTicket
<1>2. b[n + 1] = tickets'[n + 1].reserve /\ n + 1 \notin S
  OBVIOUS
<1>3. IsFiniteSet(S)
  <2>1. IsFiniteSet(1..n)
    BY FS_Interval
  <2> QED
    BY <2>1, FS_Subset
<1>4. Aside(S) = Total(a, S)
  BY DEF Aside
<1>5. Aside(S)' = Total(b, S) /\ Aside(S \cup {n + 1})' = Total(b, S \cup {n + 1})
  BY DEF Aside
<1> HIDE DEF a, b
<1>6. Total(b, S) = Total(a, S) /\ Total(a, S) \in Nat
  BY <1>1, <1>3, TotalSame, TotalType
<1>7. Total(b, S \cup {n + 1}) = Total(a, S) + b[n + 1]
  <2>1. b[n + 1] \in Nat /\ \A i \in S : a[i] \in Nat /\ b[i] = a[i]
    BY <1>1, <1>2
  <2>2. PICK y : y = n + 1
    OBVIOUS
  <2>3. y \notin S /\ b[y] \in Nat
    BY <1>2, <2>1, <2>2
  <2>4. Total(b, S \cup {y}) = Total(a, S) + b[y]
    BY <1>3, <2>1, <2>3, TotalGrows
  <2> QED
    BY <2>2, <2>4
<1> QED
  BY <1>2, <1>4, <1>5, <1>6, <1>7

\* Closing a market's tickets gives the open ones a result, and changes
\* nothing else of any.
LEMMA CloseEffect ==
    ASSUME TicketsShape, NEW id, NEW winner, Demo!Close(id, winner)
    PROVE  /\ TicketsShape' /\ DOMAIN tickets' = DOMAIN tickets
           /\ \A i \in DOMAIN tickets :
                  /\ tickets'[i].reserve = tickets[i].reserve /\ tickets'[i].owner = tickets[i].owner
                  /\ tickets'[i].market = tickets[i].market /\ tickets'[i].side = tickets[i].side
                  /\ tickets[i].result # "none" => tickets'[i] = tickets[i]
<1>1. PICK n \in Nat : /\ tickets = [i \in 1..n |-> tickets[i]]
                       /\ \A i \in 1..n : IsTicket(tickets[i])
  BY DEF TicketsShape
<1>2. DOMAIN tickets = 1..n /\ DOMAIN tickets' = 1..n /\ tickets' = [i \in 1..n |-> tickets'[i]]
  BY <1>1 DEF Demo!Close
<1>3. ASSUME NEW i \in 1..n
      PROVE  /\ IsTicket(tickets'[i])
             /\ tickets'[i].reserve = tickets[i].reserve /\ tickets'[i].owner = tickets[i].owner
             /\ tickets'[i].market = tickets[i].market /\ tickets'[i].side = tickets[i].side
             /\ tickets[i].result # "none" => tickets'[i] = tickets[i]
  <2> DEFINE t == tickets[i]
  <2>1. IsTicket(t)
    BY <1>1
  <2>2. CASE tickets'[i] = t
    BY <2>1, <2>2
  <2>3. CASE tickets'[i] # t
    <3>1. PICK r \in Results : tickets'[i] = [t EXCEPT !.result = r] /\ t.result = "none"
      BY <1>2, <2>3 DEF Demo!Close, Demo!Closes, Results
    <3> DEFINE u == [t EXCEPT !.result = r]
    <3> HIDE DEF t
    <3>2. /\ u.owner = t.owner /\ u.market = t.market /\ u.side = t.side /\ u.reserve = t.reserve
          /\ u.result = r
          /\ u \in [owner : {t.owner}, market : {t.market}, side : {t.side}, reserve : {t.reserve}, result : {r}]
      BY <2>1 DEF IsTicket
    <3>3. IsTicket(u)
      BY <2>1, <3>2 DEF IsTicket
    <3> QED
      BY <3>1, <3>2, <3>3 DEF t
  <2> QED
    BY <2>2, <2>3
<1> QED
  BY <1>2, <1>3 DEF TicketsShape

\* Closing tickets frees reserves and takes none.
LEMMA CloseKeeps == ASSUME DeskInv, NEW id, NEW winner, Demo!Close(id, winner) PROVE DeskInv'
<1> USE DEF DeskInv
<1>1. /\ TicketsShape' /\ DOMAIN tickets' = DOMAIN tickets
      /\ \A i \in DOMAIN tickets :
             /\ tickets'[i].reserve = tickets[i].reserve /\ tickets'[i].owner = tickets[i].owner
             /\ tickets'[i].market = tickets[i].market /\ tickets'[i].side = tickets[i].side
             /\ tickets[i].result # "none" => tickets'[i] = tickets[i]
  BY CloseEffect
<1>2. Demo!Open' \subseteq Demo!Open /\ Demo!Open \subseteq DOMAIN tickets
  BY <1>1 DEF Demo!Open
<1>3. ASSUME NEW o PROVE Aside(Demo!OfOwner(o))' <= OwnerCap
  <2>1. PICK S : S = Demo!OfOwner(o)'
    OBVIOUS
  <2>2. S \subseteq Demo!OfOwner(o) /\ Demo!OfOwner(o) \subseteq DOMAIN tickets
    BY <1>1, <1>2, <2>1 DEF Demo!OfOwner
  <2>3. Aside(S)' <= Aside(Demo!OfOwner(o)) /\ Aside(S)' \in Nat /\ Aside(Demo!OfOwner(o)) \in Nat
    BY <1>1, <2>2, AsideShrinks
  <2>4. Aside(Demo!OfOwner(o)) <= OwnerCap
    BY DEF CapsHold
  <2>5. Aside(Demo!OfOwner(o))' = Aside(S)'
    BY <2>1 DEF Aside
  <2> QED
    BY <2>3, <2>4, <2>5, DeskConstants
<1>4. ASSUME NEW m PROVE Aside(Demo!OfMarket(m))' <= MarketCap
  <2>1. PICK S : S = Demo!OfMarket(m)'
    OBVIOUS
  <2>2. S \subseteq Demo!OfMarket(m) /\ Demo!OfMarket(m) \subseteq DOMAIN tickets
    BY <1>1, <1>2, <2>1 DEF Demo!OfMarket
  <2>3. Aside(S)' <= Aside(Demo!OfMarket(m)) /\ Aside(S)' \in Nat /\ Aside(Demo!OfMarket(m)) \in Nat
    BY <1>1, <2>2, AsideShrinks
  <2>4. Aside(Demo!OfMarket(m)) <= MarketCap
    BY DEF CapsHold
  <2>5. Aside(Demo!OfMarket(m))' = Aside(S)'
    BY <2>1 DEF Aside
  <2> QED
    BY <2>3, <2>4, <2>5, DeskConstants
<1>5. ASSUME NEW m, NEW s PROVE Aside(Demo!OfSide(m, s))' <= OutcomeCap
  <2>1. PICK S : S = Demo!OfSide(m, s)'
    OBVIOUS
  <2>2. S \subseteq Demo!OfSide(m, s) /\ Demo!OfSide(m, s) \subseteq DOMAIN tickets
    BY <1>1, <1>2, <2>1 DEF Demo!OfSide, Demo!OfMarket
  <2>3. Aside(S)' <= Aside(Demo!OfSide(m, s)) /\ Aside(S)' \in Nat /\ Aside(Demo!OfSide(m, s)) \in Nat
    BY <1>1, <2>2, AsideShrinks
  <2>4. Aside(Demo!OfSide(m, s)) <= OutcomeCap
    BY DEF CapsHold
  <2>5. Aside(Demo!OfSide(m, s))' = Aside(S)'
    BY <2>1 DEF Aside
  <2> QED
    BY <2>3, <2>4, <2>5, DeskConstants
<1> QED
  BY <1>1, <1>3, <1>4, <1>5 DEF CapsHold

\* A ticket that is sold is the last one.
LEMMA BuyEffect ==
    ASSUME TicketsShape, NEW o, NEW id, NEW s, NEW r \in Nat, Demo!Buy(o, id, s, r)
    PROVE  \E n \in Nat :
               /\ DOMAIN tickets = 1..n /\ DOMAIN tickets' = 1..(n + 1) /\ TicketsShape'
               /\ \A i \in 1..n : tickets'[i] = tickets[i]
               /\ tickets'[n + 1] = [owner |-> o, market |-> id, side |-> s, reserve |-> r, result |-> "none"]
<1> DEFINE t == [owner |-> o, market |-> id, side |-> s, reserve |-> r, result |-> "none"]
<1>1. PICK n \in Nat : /\ tickets = [i \in 1..n |-> tickets[i]]
                       /\ \A i \in 1..n : IsTicket(tickets[i])
  BY DEF TicketsShape
<1>2. IsTicket(t)
  BY DEF IsTicket, Results
<1> HIDE DEF t
<1>3. tickets \in Seq({tickets[i] : i \in 1..n} \cup {t}) /\ Len(tickets) = n /\ DOMAIN tickets = 1..n
  BY <1>1
<1>4. tickets' = Append(tickets, t)
  BY DEF Demo!Buy, t
<1>5. /\ tickets' \in Seq({tickets[i] : i \in 1..n} \cup {t}) /\ DOMAIN tickets' = 1..(n + 1)
      /\ \A i \in 1..n : tickets'[i] = tickets[i]
      /\ tickets'[n + 1] = t
  BY <1>3, <1>4
<1>6. tickets' = [i \in 1..(n + 1) |-> tickets'[i]]
  BY <1>5
<1>7. \A i \in 1..(n + 1) : IsTicket(tickets'[i])
  BY <1>1, <1>2, <1>5
<1> QED
  BY <1>3, <1>5, <1>6, <1>7 DEF TicketsShape, t

\* A ticket is sold within the caps.
LEMMA BuyKeeps ==
    ASSUME DeskInv, NEW o, NEW id, NEW s, NEW r \in Reserves, Demo!Buy(o, id, s, r)
    PROVE  DeskInv'
<1> USE DEF DeskInv
<1>0. r \in Nat
  BY DeskConstants
<1>1. PICK n \in Nat :
          /\ DOMAIN tickets = 1..n /\ DOMAIN tickets' = 1..(n + 1) /\ TicketsShape'
          /\ \A i \in 1..n : tickets'[i] = tickets[i]
          /\ tickets'[n + 1] = [owner |-> o, market |-> id, side |-> s, reserve |-> r, result |-> "none"]
  BY <1>0, BuyEffect
<1>2. tickets'[n + 1].reserve = r
  BY <1>1
<1>3. ASSUME NEW S, S \subseteq 1..n
      PROVE  Aside(S)' = Aside(S) /\ Aside(S) \in Nat /\ Aside(S \cup {n + 1})' = Aside(S) + r
  BY <1>0, <1>1, <1>2, <1>3, AsideGrows
<1>4. Demo!Open \subseteq 1..n /\ Demo!Open' = Demo!Open \cup {n + 1}
  BY <1>1 DEF Demo!Open
<1>5. /\ Aside(Demo!OfMarket(id)) + r <= MarketCap /\ Aside(Demo!OfSide(id, s)) + r <= OutcomeCap
      /\ Aside(Demo!OfOwner(o)) + r <= OwnerCap
  BY DeskSum DEF Demo!Buy, Demo!Within
<1>6. ASSUME NEW p PROVE Aside(Demo!OfOwner(p))' <= OwnerCap
  <2>1. PICK S : S = Demo!OfOwner(p)
    OBVIOUS
  <2>2. S \subseteq 1..n /\ Demo!OfOwner(p)' = IF p = o THEN S \cup {n + 1} ELSE S
    <3>1. S = {i \in Demo!Open : tickets[i].owner = p}
      BY <2>1 DEF Demo!OfOwner
    <3>2. Demo!OfOwner(p)' = {i \in Demo!Open' : tickets'[i].owner = p}
      BY DEF Demo!OfOwner
    <3>3. n + 1 \notin 1..n
      OBVIOUS
    <3>4. S \subseteq 1..n /\ \A i \in Demo!Open : i \in 1..n /\ tickets'[i] = tickets[i]
      BY <1>1, <1>4, <3>1
    <3>5. PICK y : y = n + 1
      OBVIOUS
    <3>6. y \notin 1..n /\ Demo!Open' = Demo!Open \cup {y}
      BY <1>4, <3>3, <3>5
    <3>7. tickets'[y].owner = o /\ tickets'[y].market = id /\ tickets'[y].side = s
      BY <1>1, <3>5
    <3> QED
      BY <3>1, <3>2, <3>4, <3>5, <3>6, <3>7
  <2>3. Aside(Demo!OfOwner(p))' = IF p = o THEN Aside(S \cup {n + 1})' ELSE Aside(S)'
    BY <2>2 DEF Aside
  <2> QED
    BY <1>3, <1>5, <2>1, <2>2, <2>3 DEF CapsHold
<1>7. ASSUME NEW m PROVE Aside(Demo!OfMarket(m))' <= MarketCap
  <2>1. PICK S : S = Demo!OfMarket(m)
    OBVIOUS
  <2>2. S \subseteq 1..n /\ Demo!OfMarket(m)' = IF m = id THEN S \cup {n + 1} ELSE S
    <3>1. S = {i \in Demo!Open : tickets[i].market = m}
      BY <2>1 DEF Demo!OfMarket
    <3>2. Demo!OfMarket(m)' = {i \in Demo!Open' : tickets'[i].market = m}
      BY DEF Demo!OfMarket
    <3>3. n + 1 \notin 1..n
      OBVIOUS
    <3>4. S \subseteq 1..n /\ \A i \in Demo!Open : i \in 1..n /\ tickets'[i] = tickets[i]
      BY <1>1, <1>4, <3>1
    <3>5. PICK y : y = n + 1
      OBVIOUS
    <3>6. y \notin 1..n /\ Demo!Open' = Demo!Open \cup {y}
      BY <1>4, <3>3, <3>5
    <3>7. tickets'[y].owner = o /\ tickets'[y].market = id /\ tickets'[y].side = s
      BY <1>1, <3>5
    <3> QED
      BY <3>1, <3>2, <3>4, <3>5, <3>6, <3>7
  <2>3. Aside(Demo!OfMarket(m))' = IF m = id THEN Aside(S \cup {n + 1})' ELSE Aside(S)'
    BY <2>2 DEF Aside
  <2> QED
    BY <1>3, <1>5, <2>1, <2>2, <2>3 DEF CapsHold
<1>8. ASSUME NEW m, NEW z PROVE Aside(Demo!OfSide(m, z))' <= OutcomeCap
  <2>1. PICK S : S = Demo!OfSide(m, z)
    OBVIOUS
  <2>2. S \subseteq 1..n /\ Demo!OfSide(m, z)' = IF m = id /\ z = s THEN S \cup {n + 1} ELSE S
    <3>1. S = {i \in Demo!Open : tickets[i].market = m /\ tickets[i].side = z}
      BY <2>1 DEF Demo!OfSide, Demo!OfMarket
    <3>2. Demo!OfSide(m, z)' = {i \in Demo!Open' : tickets'[i].market = m /\ tickets'[i].side = z}
      BY DEF Demo!OfSide, Demo!OfMarket
    <3>3. n + 1 \notin 1..n
      OBVIOUS
    <3>4. S \subseteq 1..n /\ \A i \in Demo!Open : i \in 1..n /\ tickets'[i] = tickets[i]
      BY <1>1, <1>4, <3>1
    <3>5. PICK y : y = n + 1
      OBVIOUS
    <3>6. y \notin 1..n /\ Demo!Open' = Demo!Open \cup {y}
      BY <1>4, <3>3, <3>5
    <3>7. tickets'[y].owner = o /\ tickets'[y].market = id /\ tickets'[y].side = s
      BY <1>1, <3>5
    <3> QED
      BY <3>1, <3>2, <3>4, <3>5, <3>6, <3>7
  <2>3. Aside(Demo!OfSide(m, z))' = IF m = id /\ z = s THEN Aside(S \cup {n + 1})' ELSE Aside(S)'
    BY <2>2 DEF Aside
  <2> QED
    BY <1>3, <1>5, <2>1, <2>2, <2>3 DEF CapsHold
<1> QED
  BY <1>1, <1>6, <1>7, <1>8 DEF CapsHold

\* The tickets change by a sale or by a closing.
LEMMA DeskActions ==
    Demo!Next => \/ UNCHANGED tickets
                 \/ \E o, id, s : \E r \in Reserves : Demo!Buy(o, id, s, r)
                 \/ \E id, w : Demo!Close(id, w)
BY Zenon
DEF Demo!Next, Demo!ResolveMarket, Demo!CancelMarket, Demo!SettleTickets, Demo!HideMarket,
    Demo!ResolveExpired, Demo!CreateMarket, Demo!ResetMarkets

\* The desk begins without tickets.
LEMMA DeskInvInit == Demo!Init => DeskInv
<1> SUFFICES ASSUME Demo!Init PROVE DeskInv
  OBVIOUS
<1>1. tickets = [i \in 1..0 |-> tickets[i]] /\ DOMAIN tickets = {}
  BY DEF Demo!Init
<1>2. TicketsShape
  BY <1>1 DEF TicketsShape
<1>3. \A S : S \subseteq Demo!Open => Aside(S) = 0
  BY <1>1, TotalEmpty DEF Demo!Open, Aside
<1> QED
  BY <1>2, <1>3, DeskConstants DEF DeskInv, CapsHold, Demo!OfOwner, Demo!OfMarket, Demo!OfSide

\* Every operation keeps the caps and the results.
LEMMA DeskInvStep == DeskInv /\ [Demo!Next]_demoVars => DeskInv'
<1> SUFFICES ASSUME DeskInv, [Demo!Next]_demoVars PROVE DeskInv'
  OBVIOUS
<1>1. CASE UNCHANGED tickets
  <2>1. TicketsShape'
    BY <1>1 DEF DeskInv, TicketsShape
  <2>2. Demo!Open' = Demo!Open /\ \A S : Aside(S)' = Aside(S)
    BY <1>1 DEF Demo!Open, Aside
  <2>3. /\ \A o : Demo!OfOwner(o)' = Demo!OfOwner(o)
        /\ \A id : Demo!OfMarket(id)' = Demo!OfMarket(id)
        /\ \A id, s : Demo!OfSide(id, s)' = Demo!OfSide(id, s)
    BY <1>1, <2>2 DEF Demo!OfOwner, Demo!OfMarket, Demo!OfSide
  <2> QED
    BY <2>1, <2>2, <2>3 DEF DeskInv, CapsHold
<1> QED
  BY <1>1, DeskActions, BuyKeeps, CloseKeeps DEF demoVars

\* No operation changes a ticket that has a result.
LEMMA ResultsStay ==
    DeskInv /\ [Demo!Next]_demoVars =>
        \A i \in DOMAIN tickets : tickets[i].result # "none" => tickets'[i] = tickets[i]
<1> SUFFICES ASSUME DeskInv, [Demo!Next]_demoVars,
                    NEW i \in DOMAIN tickets, tickets[i].result # "none"
             PROVE  tickets'[i] = tickets[i]
  OBVIOUS
<1>1. ASSUME NEW o, NEW id, NEW s, NEW r \in Reserves, Demo!Buy(o, id, s, r)
      PROVE  tickets'[i] = tickets[i]
  BY <1>1, BuyEffect, DeskConstants DEF DeskInv
<1>2. ASSUME NEW id, NEW w, Demo!Close(id, w) PROVE tickets'[i] = tickets[i]
  BY <1>2, CloseEffect DEF DeskInv
<1> QED
  BY <1>1, <1>2, DeskActions DEF demoVars

\* A market that opens is stored like any other.
LEMMA MarketFits ==
    ASSUME NEW id \in Nat, NEW status \in {"OPEN", "LOCKED"}
    PROVE  Demo!Market(id, status) \in StoredMarkets
BY DEF Demo!Market, StoredMarkets

\* Whatever place a status is written to, the list keeps its shape.
LEMMA StatusFits ==
    ASSUME MarketsFit, NEW p, NEW status \in {"RESOLVED", "CANCELLED"}, NEW w,
           p \in DOMAIN markets => w \in Demo!Outcomes \cup {"none"},
           markets' = [markets EXCEPT ![p].status = status, ![p].winner = w]
    PROVE  MarketsFit'
<1>1. PICK n \in 0..MaxMarkets : markets \in [1..n -> StoredMarkets]
  BY DEF MarketsFit
<1>2. markets' \in [1..n -> StoredMarkets]
  <2>1. CASE p \in 1..n
    <3>1. w \in Demo!Outcomes \cup {"none"} /\ markets[p] \in StoredMarkets
      BY <1>1, <2>1
    <3>2. PICK m : m = [markets[p] EXCEPT !.status = status, !.winner = w]
      OBVIOUS
    <3>3. m \in StoredMarkets
      BY <3>1, <3>2 DEF StoredMarkets
    <3>4. markets' = [markets EXCEPT ![p] = m]
      BY <1>1, <2>1, <3>1, <3>2 DEF StoredMarkets
    <3> QED
      BY <1>1, <3>3, <3>4
  <2>2. CASE p \notin 1..n
    BY <1>1, <2>2
  <2> QED
    BY <2>1, <2>2
<1> QED
  BY <1>2 DEF MarketsFit

\* The seeds are two markets.
LEMMA SeedsFit ==
    ASSUME markets' = Demo!SeedMarkets \/ markets' = Demo!SeedBasicMarkets PROVE MarketsFit'
<1>1. \A a, b \in StoredMarkets : <<a, b>> \in [1..2 -> StoredMarkets]
  OBVIOUS
<1>2. markets' \in [1..2 -> StoredMarkets]
  BY <1>1, MarketFits DEF Demo!SeedMarkets, Demo!SeedBasicMarkets
<1>3. 2 \in 0..MaxMarkets
  BY DeskConstants
<1> QED
  BY <1>2, <1>3, Zenon DEF MarketsFit

\* A market created goes in front, when there is room.
LEMMA CreateFits == ASSUME MarketsFit, Demo!CreateMarket PROVE MarketsFit'
<1>1. PICK n \in 0..MaxMarkets : markets \in [1..n -> StoredMarkets]
  BY DEF MarketsFit
<1>2. n \in Nat /\ markets \in Seq(StoredMarkets) /\ Len(markets) = n
  BY <1>1, DeskConstants
<1>3. PICK m \in StoredMarkets : m = Demo!Market(Demo!NextId, "OPEN")
  BY <1>2, MarketFits DEF Demo!NextId
<1>4. markets' = <<m>> \o markets /\ n < MaxMarkets
  BY <1>2, <1>3 DEF Demo!CreateMarket
<1>5. markets' \in Seq(StoredMarkets) /\ Len(markets') = n + 1
  BY <1>2, <1>3, <1>4
<1>6. n + 1 \in 0..MaxMarkets
  BY <1>2, <1>4, DeskConstants
<1>7. markets' \in [1..Len(markets') -> StoredMarkets]
  BY <1>5
<1> QED
  BY <1>5, <1>6, <1>7 DEF MarketsFit

\* A hiding leaves no more than there were.
LEMMA HideFits == ASSUME MarketsFit, NEW id, Demo!HideMarket(id) PROVE MarketsFit'
<1> DEFINE kept == {i \in DOMAIN markets : markets[i].id # id}
<1>1. PICK n \in 0..MaxMarkets : markets \in [1..n -> StoredMarkets]
  BY DEF MarketsFit
<1>2. PICK f \in [1..Demo!Cardinality(kept) -> kept] : markets' = [i \in DOMAIN f |-> markets[f[i]]]
  BY DEF Demo!HideMarket
<1>3. kept \subseteq 1..n
  BY <1>1
<1> HIDE DEF kept
<1>4. Demo!Cardinality(kept) = Cardinality(kept)
  BY DEF Demo!Cardinality, Cardinality
<1>5. Cardinality(kept) \in 0..MaxMarkets
  <2>0. n \in Nat /\ n <= MaxMarkets
    BY DeskConstants
  <2>1. IsFiniteSet(1..n) /\ Cardinality(1..n) = n
    BY <2>0, FS_Interval
  <2>2. IsFiniteSet(kept) /\ Cardinality(kept) <= n
    <3>1. kept \in SUBSET (1..n)
      BY <1>3
    <3>2. IsFiniteSet(kept) /\ Cardinality(kept) <= Cardinality(1..n)
      BY <2>1, <3>1, FS_Subset
    <3> QED
      BY <2>1, <3>2
  <2>3. Cardinality(kept) \in Nat
    BY <2>2, FS_CardinalityType
  <2> QED
    BY <2>0, <2>2, <2>3, DeskConstants
<1>6. markets' \in [1..Cardinality(kept) -> StoredMarkets]
  BY <1>1, <1>2, <1>3, <1>4
<1> QED
  BY <1>5, <1>6 DEF MarketsFit

\* No operation makes a list longer than it may be.
LEMMA MarketsStep == ASSUME MarketsFit, Demo!Next PROVE MarketsFit'
<1>1. CASE UNCHANGED markets
  BY <1>1 DEF MarketsFit
<1>2. \A i \in DOMAIN markets : markets[i].winner \in Demo!Outcomes \cup {"none"}
  BY DEF MarketsFit, StoredMarkets
<1>3. ASSUME NEW id, NEW w \in Demo!Outcomes, Demo!ResolveMarket(id, w) PROVE MarketsFit'
  BY <1>3, StatusFits DEF Demo!ResolveMarket, Demo!Status
<1>4. ASSUME NEW id, Demo!CancelMarket(id) PROVE MarketsFit'
  BY <1>2, <1>4, StatusFits DEF Demo!CancelMarket, Demo!Status
<1>5. ASSUME NEW i, NEW w \in Demo!Outcomes, Demo!ResolveExpired(i, w) PROVE MarketsFit'
  BY <1>5, StatusFits DEF Demo!ResolveExpired
<1>6. ASSUME NEW id, Demo!HideMarket(id) PROVE MarketsFit'
  BY <1>6, HideFits
<1> QED
  BY <1>1, <1>3, <1>4, <1>5, <1>6, CreateFits, SeedsFit
  DEF Demo!Next, Demo!Buy, Demo!SettleTickets, Demo!ResetMarkets

\* A ticket is sold when there is room.
LEMMA TicketsStep == ASSUME TicketsFit, TicketsShape, Demo!Next PROVE TicketsFit'
<1>1. CASE UNCHANGED tickets
  BY <1>1 DEF TicketsFit
<1>2. ASSUME NEW id, NEW w, Demo!Close(id, w) PROVE TicketsFit'
  BY <1>2 DEF TicketsFit, Demo!Close
<1>3. ASSUME NEW o, NEW id, NEW s, NEW r \in Reserves, Demo!Buy(o, id, s, r) PROVE TicketsFit'
  <2>1. r \in Nat
    BY DeskConstants
  <2>2. PICK n \in Nat : DOMAIN tickets = 1..n /\ DOMAIN tickets' = 1..(n + 1)
    BY <1>3, <2>1, BuyEffect
  <2>3. Len(tickets) = n
    BY <2>2, TicketPlaces
  <2>4. n < MaxTickets
    BY <1>3, <2>3 DEF Demo!Buy
  <2> QED
    BY <2>2, <2>4, DeskConstants DEF TicketsFit
<1> QED
  BY <1>1, <1>2, <1>3, DeskActions

LEMMA DeskTypesInit == Demo!Init => DeskTypes
<1> SUFFICES ASSUME Demo!Init PROVE DeskTypes
  OBVIOUS
<1>1. \A a, b \in StoredMarkets : <<a, b>> \in [1..2 -> StoredMarkets]
  OBVIOUS
<1>2. markets \in [1..2 -> StoredMarkets]
  BY <1>1, MarketFits DEF Demo!Init, Demo!SeedMarkets
<1>3. DOMAIN tickets = 1..0
  BY DEF Demo!Init
<1>4. 2 \in 0..MaxMarkets /\ 0 \in 0..MaxTickets
  BY DeskConstants
<1>5. MarketsFit
  BY <1>2, <1>4, Zenon DEF MarketsFit
<1>6. TicketsFit
  BY <1>3, <1>4, Zenon DEF TicketsFit
<1> QED
  BY <1>5, <1>6 DEF DeskTypes

LEMMA DeskTypesStep == DeskInv /\ DeskTypes /\ [Demo!Next]_demoVars => DeskTypes'
<1> SUFFICES ASSUME DeskInv, DeskTypes, [Demo!Next]_demoVars PROVE DeskTypes'
  OBVIOUS
<1>1. CASE UNCHANGED demoVars
  BY <1>1 DEF demoVars, DeskTypes, MarketsFit, TicketsFit
<1> QED
  BY <1>1, MarketsStep, TicketsStep DEF DeskInv, DeskTypes

LEMMA DeskIsTyped == DeskInv /\ DeskTypes => Demo!TypeOK
<1> SUFFICES ASSUME DeskInv, DeskTypes PROVE Demo!TypeOK
  OBVIOUS
<1>1. PICK n \in 0..MaxMarkets : markets \in [1..n -> StoredMarkets]
  BY DEF DeskTypes, MarketsFit
<1>2. PICK k \in 0..MaxTickets : DOMAIN tickets = 1..k
  BY DEF DeskTypes, TicketsFit
<1>3. n \in Nat /\ k \in Nat /\ n <= MaxMarkets /\ k <= MaxTickets
  BY DeskConstants
<1>4. Len(markets) = n
  BY <1>1, <1>3
<1>5. Len(tickets) = k
  BY <1>2, <1>3, TicketPlaces DEF DeskInv
<1>6. \A i \in DOMAIN markets :
         /\ markets[i].status \in {"OPEN", "LOCKED", "RESOLVED", "CANCELLED"}
         /\ markets[i].winner \in Demo!Outcomes \cup {"none"}
  BY <1>1 DEF StoredMarkets
<1>7. \A i \in DOMAIN tickets : tickets[i].result \in {"none", "WIN", "LOSS", "REFUND"}
  BY TicketPlaces DEF DeskInv, IsTicket, Results
<1> QED
  BY <1>3, <1>4, <1>5, <1>6, <1>7 DEF Demo!TypeOK

\* The invariant is what the desk promises.
LEMMA DeskInvIsSafe == DeskInv => Demo!ReservesStayWithinCaps
BY DeskSum DEF DeskInv, CapsHold, Demo!ReservesStayWithinCaps

---------------------------------------------------------------------------
(* The machines side by side. *)

allVars == <<part, vars, panelVars, vaultVars, shopVars, demoVars>>

FundingInv == FundInv /\ PanelInv /\ VaultInv /\ ShopInv /\ DeskInv /\ DeskTypes

\* A step of all machines is a step of one, and leaves the others alone.
LEMMA StepsOfOne ==
    [FundingNext]_allVars =>
        /\ [Next]_vars /\ [Panel!Next]_panelVars /\ [Vault!Next]_vaultVars /\ [Shop!Next]_shopVars
        /\ [Demo!Next]_demoVars
BY DEF FundingNext, allVars, vars, panelVars, vaultVars, shopVars, demoVars

\* The invariants of the five machines, for any number of calls at once, of
\* keys, of requests, of faults, of amounts, of moves, of purchases, of markets
\* and of tickets.
THEOREM FundingInvariant == FundingSpec => []FundingInv
<1>1. FundingInit => FundingInv
  BY FundInvInit, PanelInvInit, VaultInvInit, ShopInvInit, DeskInvInit, DeskTypesInit DEF FundingInit, FundingInv
<1>2. FundingInv /\ [FundingNext]_allVars => FundingInv'
  BY StepsOfOne, FundInvStep, PanelInvStep, VaultInvStep, ShopInvStep, DeskInvStep, DeskTypesStep DEF FundingInv
<1> QED
  BY <1>1, <1>2, PTL DEF FundingSpec, allVars

\* No crash, failure or retry leaves a burn without a record or outside the
\* quota, burns twice for one signature or, as long as no record with a hash
\* is written over, for one key, or gives its nonce away
\* (cctpDemoFundService.ts).
THEOREM BurnsStaySafe == FundingSpec => []BurnsAreSafe
<1>1. FundingInv => BurnsAreSafe
  BY InvIsSafe DEF FundingInv, BurnsAreSafe
<1> QED
  BY <1>1, FundingInvariant, PTL

\* A click of the panel burns twice only when App Kit's burn was lost sight of,
\* and one of the vault's page moves an amount twice only when its deposit was
\* made and the answer lost (FundUsdcPanel.tsx, LpShell.tsx, appKit.ts).
THEOREM SecondMovesFollowLosses == FundingSpec => []SecondMovesNeedALoss
<1>1. FundingInv => SecondMovesNeedALoss
  BY PanelInvIsSafe, VaultInvIsSafe DEF FundingInv, SecondMovesNeedALoss
<1> QED
  BY <1>1, FundingInvariant, PTL

\* An arrival that is reported was minted; but for what moved without an answer,
\* a spend that is offered has its money and a stranded deposit is remembered;
\* what the page puts into the vault came to the wallet from elsewhere; and a
\* position that is kept is a ticket (FundUsdcPanel.tsx, LpShell.tsx,
\* MarketDetailShell.tsx).
THEOREM PagesStayTrue == FundingSpec => []PagesTellTheTruth
<1>1. FundingInv => PagesTellTheTruth
  BY PanelInvIsSafe, VaultInvIsSafe, ShopInvIsSafe DEF FundingInv, PagesTellTheTruth
<1> QED
  BY <1>1, FundingInvariant, PTL

\* The reserves of the demo's open tickets pass no cap, whatever identifiers
\* its markets share, and a ticket has one result (riskEngine.ts,
\* routes/tickets.ts).
THEOREM DeskStaysConsistent == FundingSpec => DemoIsConsistent
<1>1. FundingInv => (part = "demo" => Demo!ReservesStayWithinCaps)
  BY DeskInvIsSafe DEF FundingInv
<1> DEFINE Final == \A i \in DOMAIN tickets : tickets[i].result # "none" => tickets'[i] = tickets[i]
<1>2. FundingInv /\ [FundingNext]_allVars => [Final]_demoVars
  BY StepsOfOne, ResultsStay DEF FundingInv
<1>3. Demo!ResultsAreFinal <=> [][Final]_demoVars
  BY DEF Demo!ResultsAreFinal, Demo!vars, demoVars
<1> QED
  BY <1>1, <1>2, <1>3, FundingInvariant, PTL DEF FundingSpec, allVars, DemoIsConsistent

\* The variables of the machines hold what they may (cctpDemoFundService.ts,
\* FundUsdcPanel.tsx, LpShell.tsx, MarketDetailShell.tsx, routes/markets.ts).
THEOREM FundingTypes == FundingSpec => []FundingTypeOK
<1>1. FundingInv => FundingTypeOK
  BY VaultInvIsSafe, ShopInvIsSafe, DeskIsTyped DEF FundingInv, FundInv, FundShape, PanelInv, FundingTypeOK
<1> QED
  BY <1>1, FundingInvariant, PTL

=============================================================================
