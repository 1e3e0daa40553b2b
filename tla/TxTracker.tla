------------------------------ MODULE TxTracker ------------------------------
(***************************************************************************)
(* The tracked record of one transaction.  The server records it when it   *)
(* sent it, a browser may record it too, and polls and the background      *)
(* worker reconcile it with the chain.  A recorder and a reconciler both   *)
(* read the record, ask the chain and write it back.                       *)
(***************************************************************************)
EXTENDS Integers

CONSTANTS
    Server, Client, \* the two that record; the client's call is create-only
    Pollers,        \* getTx, listTxForOwner, reconcilePending
    MaxReads,       \* receipts that cannot be read although there is one
    MaxClock        \* time, in periods of grace (ten minutes)

TxTrackerAssumption == Server # Client /\ {MaxReads, MaxClock} \subseteq Nat

Recorders == {Server, Client}

VARIABLES
    tx,         \* the transaction on the chain
    rec,        \* the stored record
    run,        \* what each recorder and poller has read
    recorded,   \* recorders that are done
    misjudged,  \* failed, written of a transaction with or before a receipt
    overwrote,  \* a recorder wrote over a record it had not seen
    reads,
    clock

vars == <<tx, rec, run, recorded, misjudged, overwrote, reads, clock>>

Actors == Recorders \cup Pollers
NoRecord == [status |-> "none", owner |-> "none", at |-> 0]
Records == [status : {"none", "pending", "confirmed", "failed"}, owner : {"none"} \cup Recorders, at : 0..MaxClock]
Idle == [pc |-> "idle", seen |-> NoRecord]
Final(r) == r.status \in {"confirmed", "failed"}

Init ==
    /\ tx = "sent" /\ rec = NoRecord
    /\ run = [a \in Actors |-> Idle]
    /\ recorded = {} /\ misjudged = FALSE /\ overwrote = FALSE /\ reads = 0 /\ clock = 0

At(a, l) == run[a].pc = l
Becomes(a, l, r) == run' = [run EXCEPT ![a] = [pc |-> l, seen |-> r]]

---------------------------------------------------------------------------
(* Recording. *)

\* A public client leaves a record alone that is there when it looks.
StartRecord(a) ==
    /\ a \notin recorded /\ At(a, "idle")
    /\ IF a = Client /\ rec # NoRecord
         THEN recorded' = recorded \cup {a} /\ UNCHANGED run
         ELSE Becomes(a, "record", rec) /\ UNCHANGED recorded
    /\ UNCHANGED <<tx, rec, misjudged, overwrote, reads, clock>>

\* The client's call is refused until the node knows the transaction.
Refused(a) ==
    /\ a = Client /\ At(a, "record")
    /\ Becomes(a, "idle", NoRecord)
    /\ UNCHANGED <<tx, rec, recorded, misjudged, overwrote, reads, clock>>

\* Mutant of StatusAfter: a record starts over.
Restarted(seen) == "pending"

\* A status that was final when the record was read is kept.
StatusAfter(seen) == IF Final(seen) THEN seen.status ELSE "pending"

\* Mutant of Written: the owner is always taken from the record read.
UnderNoName(a, seen) == [status |-> StatusAfter(seen), owner |-> seen.owner, at |-> seen.at]

Written(a, seen) ==
    [status |-> StatusAfter(seen),
     owner |-> IF seen.owner # "none" THEN seen.owner ELSE a,
     at |-> IF seen = NoRecord THEN clock ELSE seen.at]

WriteRecord(a) ==
    /\ At(a, "record") /\ (a = Client => tx # "dropped")
    /\ rec' = Written(a, run[a].seen)
    /\ overwrote' = (overwrote \/ (Final(rec) /\ ~Final(run[a].seen)))
    /\ Becomes(a, "idle", NoRecord) /\ recorded' = recorded \cup {a}
    /\ UNCHANGED <<tx, misjudged, reads, clock>>

---------------------------------------------------------------------------
(* Reconciling. *)

StartPoll(p) ==
    /\ At(p, "idle") /\ rec.status = "pending"
    /\ Becomes(p, "poll", rec)
    /\ UNCHANGED <<tx, rec, recorded, misjudged, overwrote, reads, clock>>

\* Mutant of Verdict: a receipt is taken for a success.
AnyReceipt == "confirmed"

Verdict == IF tx = "mined" THEN "confirmed" ELSE "failed"

Poll(p) ==
    /\ At(p, "poll") /\ tx \in {"mined", "reverted"}
    /\ rec' = [run[p].seen EXCEPT !.status = Verdict]
    /\ Becomes(p, "idle", NoRecord)
    /\ UNCHANGED <<tx, recorded, misjudged, overwrote, reads, clock>>

\* Mutant of GivesUp: a record waits for a receipt for ever.
NeverGivesUp(r) == FALSE

GivesUp(r) == clock > r.at

\* No receipt, or none that could be read: after ten minutes the record says
\* that the transaction failed.
NoReceipt(p) ==
    /\ At(p, "poll")
    /\ IF tx \in {"mined", "reverted"} THEN reads < MaxReads /\ reads' = reads + 1 ELSE UNCHANGED reads
    /\ rec' = IF GivesUp(run[p].seen) THEN [run[p].seen EXCEPT !.status = "failed"] ELSE rec
    /\ misjudged' = (misjudged \/ (GivesUp(run[p].seen) /\ tx \in {"sent", "mined"}))
    /\ Becomes(p, "idle", NoRecord)
    /\ UNCHANGED <<tx, recorded, overwrote, clock>>

Tick ==
    /\ clock < MaxClock /\ clock' = clock + 1
    /\ UNCHANGED <<tx, rec, run, recorded, misjudged, overwrote, reads>>

Settle ==
    /\ tx = "sent" /\ tx' \in {"mined", "reverted", "dropped"}
    /\ UNCHANGED <<rec, run, recorded, misjudged, overwrote, reads, clock>>

---------------------------------------------------------------------------
Next ==
    \/ \E a \in Recorders : StartRecord(a) \/ Refused(a) \/ WriteRecord(a)
    \/ \E p \in Pollers : StartPoll(p) \/ Poll(p) \/ NoReceipt(p)
    \/ Tick \/ Settle

Spec == Init /\ [][Next]_vars

\* Time passes, and the background worker goes on asking.
FairSpec ==
    /\ Spec /\ WF_vars(Tick)
    /\ \A a \in Recorders : WF_vars(WriteRecord(a))
    /\ \A p \in Pollers : WF_vars(StartPoll(p)) /\ WF_vars(Poll(p) \/ NoReceipt(p))

---------------------------------------------------------------------------
(* Properties. *)

TypeOK ==
    /\ tx \in {"sent", "mined", "reverted", "dropped"} /\ rec \in Records
    /\ rec.status # "none" => rec.owner \in Recorders
    /\ run \in [Actors -> [pc : {"idle", "record", "poll"}, seen : Records]]
    /\ recorded \subseteq Recorders /\ {misjudged, overwrote} \subseteq BOOLEAN /\ reads \in 0..MaxReads
    /\ clock \in 0..MaxClock

\* What the user is told agrees with the chain, whoever wrote the record last:
\* confirmed only if the transaction succeeded, and failed only if it did not,
\* except when a poll gave it up without having seen a receipt.
StatusIsTrue ==
    /\ rec.status = "confirmed" => tx = "mined"
    /\ rec.status = "failed" /\ ~misjudged => tx \in {"reverted", "dropped"}

\* A final status is never taken back, except by a recorder that had read the
\* record before it was final, and where a poll gave up without a receipt.
FinalStays == [][Final(rec) => rec'.status = rec.status \/ overwrote' \/ misjudged']_vars

\* A recorded transaction gets a final status in the end, dropped ones too
\* (MaxClock bounds the model's time: a record of that last moment has no
\* grace left to wait for).
EveryTxEnds == <>[](rec.status = "pending" => rec.at = MaxClock)

=============================================================================
