------------------------------ MODULE DemoFund ------------------------------
(***************************************************************************)
(* Demo funding over CCTP: calls of several workers burn test USDC from    *)
(* one treasury account.  A call carries an idempotency key; its record,   *)
(* the quota and two leases live in the store, the burn on a chain whose   *)
(* transactions take their place by nonce.  A step is one call to the      *)
(* store or the chain.  A call may fail at any of them, its process may    *)
(* die, and a lease may lapse under a process that is only slow.           *)
(***************************************************************************)
EXTENDS Integers, Sequences, FiniteSets

CONSTANTS
    Last,           \* how many calls of demoFundViaCctp there are
    Busy,           \* how many of them at a time
    Keys,           \* server idempotency keys
    SignedKeys,     \* those of wallets: their calls are signed, the others have a session
    Nonces,         \* the one-time nonces that signatures carry
    Cap,            \* burns the daily caps allow
    MaxFaults       \* failed calls, deaths, lost receipts and lapsed leases

ASSUME DemoFundAssumption ==
    /\ SignedKeys \subseteq Keys /\ Nonces \subseteq Nat \ {0} /\ Last \in Nat /\ Busy \in Nat /\ Cap \in Nat /\ MaxFaults \in Nat

Calls == 1..Last
Nobody == 0
Session == 0

VARIABLES
    key, claimNonce, \* the key and the one-time nonce each call carries
    pc,             \* where each call is
    op,             \* the operation as each call last read or wrote it
    lost,           \* calls that noticed a lapsed lease: leaseLost
    rec,            \* the stored operation of each key
    rows,           \* the reservation each call made
    used,           \* the quota counter
    opLock, treasury, \* holders of the two kinds of lease
    consumed,       \* nonces that were used
    chain,          \* transactions in the order of their nonces
    mined,          \* how many of them are mined
    allowance,      \* what the messenger may still burn
    reverted,       \* burns that failed on chain
    disturbed,      \* keys whose record was written over with a hash in it
    halfReleased,   \* a release stopped between the counter and the row
    lapsed,         \* a lease lapsed under a holder that lived on
    faults

vars == <<key, claimNonce, pc, op, lost, rec, rows, used, opLock, treasury, consumed, chain,
          mined, allowance, reverted, disturbed, halfReleased, lapsed, faults>>
store == <<rec, rows, used, consumed>>
leases == <<opLock, treasury, lost>>
ledger == <<chain, mined, allowance, reverted>>
noFault == <<halfReleased, lapsed, faults>>
history == <<disturbed, halfReleased, lapsed, faults>>

Statuses == {"none", "created", "approving", "signed", "broadcast", "confirmed", "failed"}
Ops == [status : Statuses, by : Calls \cup {Nobody}, nonce : Nat, res : Calls \cup {Nobody}]
NoOp == [status |-> "none", by |-> Nobody, nonce |-> 0, res |-> Nobody]
Failed == [NoOp EXCEPT !.status = "failed"]

Before == {"lock", "contend", "recheck", "stale", "staleRow", "create", "reserve"}
Reserved == {"record", "treasury", "approve", "approving", "sign"}
Signed == {"persist", "broadcast", "mark", "receipt", "confirm", "revert", "settle"}
Releasing == {"giveBack", "giveBackRow", "revertBack", "revertRow"}
Outside == {"resend", "rewrite"}
Labels == {"idle", "markFailed", "unlock", "done"} \cup Before \cup Reserved \cup Signed \cup Releasing
              \cup Outside

Tx(kind, c) == [kind |-> kind, by |-> c]
Sent(tx) == \E i \in DOMAIN chain : chain[i] = tx
Mined(tx) == \E i \in 1..mined : chain[i] = tx

Init ==
    /\ key \in [Calls -> Keys] /\ claimNonce \in [Calls -> Nonces \cup {Session}]
    /\ \A c \in Calls : claimNonce[c] = Session <=> key[c] \notin SignedKeys
    /\ pc = [c \in Calls |-> "idle"] /\ op = [c \in Calls |-> NoOp] /\ lost = {}
    /\ rec = [k \in Keys |-> NoOp] /\ rows = [c \in Calls |-> "none"] /\ used = 0
    /\ opLock = [k \in Keys |-> Nobody] /\ treasury = Nobody
    /\ consumed = {}
    /\ chain = <<>> /\ mined = 0 /\ allowance = 0 /\ reverted = {}
    /\ disturbed = {} /\ halfReleased = FALSE /\ lapsed = FALSE /\ faults = 0

---------------------------------------------------------------------------
(* Before the leases. *)

At(c, l) == pc[c] = l
Goto(c, l) == pc' = [pc EXCEPT ![c] = l]
Keep(c, o) == op' = [op EXCEPT ![c] = o]
Fault == faults < MaxFaults /\ faults' = faults + 1

\* A call that returned, threw or died leaves nothing of its own behind.
Leave(c) == Goto(c, "done") /\ Keep(c, NoOp) /\ lost' = lost \ {c}
Put(k, o) == rec' = [rec EXCEPT ![k] = o]

HasBurn(o) == o.by # Nobody /\ o.status # "failed"

\* The first look takes no lease: a signed operation is sent again from the
\* copy read here, any other burn is answered at once.
Begin(c) ==
    LET prior == rec[key[c]] IN
    /\ At(c, "idle") /\ Cardinality({d \in Calls : pc[d] \notin {"idle", "done"}}) < Busy
    /\ \A d \in 1..(c - 1) : pc[d] # "idle"
    /\ \/ ~HasBurn(prior) /\ Goto(c, "lock") /\ UNCHANGED op
       \/ HasBurn(prior) /\ prior.status = "signed" /\ Goto(c, "resend") /\ Keep(c, prior)
       \/ HasBurn(prior) /\ prior.status # "signed" /\ Goto(c, "done") /\ UNCHANGED op
    /\ UNCHANGED <<key, claimNonce, store, leases, ledger, history>>

\* The node takes the next nonce, knows the very transaction, or refuses.
Accepts(tx, nonce) == nonce = Len(chain) \/ Sent(tx)
Send(tx) == chain' = IF Sent(tx) THEN chain ELSE Append(chain, tx)

Resend(c) ==
    LET tx == Tx("burn", op[c].by) IN
    /\ At(c, "resend")
    /\ \/ Accepts(tx, op[c].nonce) /\ Send(tx) /\ Goto(c, "rewrite") /\ UNCHANGED <<key, claimNonce, op, lost>>
       \/ ~Accepts(tx, op[c].nonce) /\ Leave(c) /\ UNCHANGED chain
    /\ UNCHANGED <<key, claimNonce, store, opLock, treasury, mined, allowance, reverted, history>>

\* A write that replaces what is known of a burn.
Forgets(k, o) == HasBurn(rec[k]) /\ (o.by # rec[k].by \/ o.status = "failed")
Disturb(k, o) == disturbed' = IF Forgets(k, o) THEN disturbed \cup {k} ELSE disturbed

Rewrite(c) ==
    LET o == [op[c] EXCEPT !.status = "broadcast"] IN
    /\ At(c, "rewrite")
    /\ Put(key[c], o) /\ Disturb(key[c], o)
    /\ Leave(c)
    /\ UNCHANGED <<key, claimNonce, rows, used, consumed, opLock, treasury, ledger, noFault>>

AcquireOp(c) ==
    /\ At(c, "lock")
    /\ IF opLock[key[c]] = Nobody
         THEN opLock' = [opLock EXCEPT ![key[c]] = c] /\ Goto(c, "recheck")
         ELSE Goto(c, "contend") /\ UNCHANGED opLock
    /\ UNCHANGED <<key, claimNonce, op, treasury, lost, store, ledger, history>>

\* With the lease taken by another, the record is read once more; without a
\* burn in it the call throws, and its catch writes the failure.
Contend(c) ==
    /\ At(c, "contend")
    /\ Goto(c, IF HasBurn(rec[key[c]]) THEN "done" ELSE "markFailed")
    /\ UNCHANGED <<key, claimNonce, op, store, leases, ledger, history>>

\* Mutant of Recheck: the look before the lease is taken to be enough.
NoRecheck(c) ==
    /\ At(c, "recheck")
    /\ Keep(c, rec[key[c]])
    /\ Goto(c, "create")
    /\ UNCHANGED <<key, claimNonce, store, leases, ledger, history>>

Recheck(c) ==
    LET found == rec[key[c]] IN
    /\ At(c, "recheck")
    /\ Keep(c, IF HasBurn(found) THEN NoOp ELSE found)
    /\ Goto(c, IF HasBurn(found) THEN "unlock"
               ELSE IF found.res # Nobody /\ found.by = Nobody THEN "stale" ELSE "create")
    /\ UNCHANGED <<key, claimNonce, store, leases, ledger, history>>

---------------------------------------------------------------------------
(* The quota. *)

\* Mutant of StillHeld: the row's own status is not looked at.
AnyRow(row) == TRUE

StillHeld(row) == row = "held"

Decrease == used' = IF used > 0 THEN used - 1 ELSE 0

\* What an operation reserved that died before it burned is given back: the
\* counter in one call, the row that says so in the next.
ReleaseStale(c) ==
    LET held == StillHeld(rows[op[c].res]) IN
    /\ At(c, "stale")
    /\ IF held THEN Decrease ELSE UNCHANGED used
    /\ Goto(c, IF held THEN "staleRow" ELSE "create")
    /\ UNCHANGED <<key, claimNonce, op, rec, rows, consumed, leases, ledger, history>>

ReleaseStaleRow(c) ==
    /\ At(c, "staleRow")
    /\ \/ rows' = [rows EXCEPT ![op[c].res] = "released"] /\ UNCHANGED <<halfReleased, faults>>
       \/ Fault /\ halfReleased' = TRUE /\ UNCHANGED rows
    /\ Goto(c, "create")
    /\ UNCHANGED <<key, claimNonce, op, rec, used, consumed, leases, ledger, disturbed, lapsed>>

\* Mutant of Taken: the signature is verified and its nonce not looked up.
NeverTaken(n) == FALSE

\* consumeDemoFundNonce sets if absent.
Taken(n) == n \in consumed

\* The nonce of a signed call is consumed and the operation written, which
\* drops an older reservation.  The nonce says nothing of the key: a retry may
\* carry another one, and another key the same one.
Create(c) ==
    LET o == [NoOp EXCEPT !.status = "created"]
        k == key[c] IN
    /\ At(c, "create")
    /\ consumed' = consumed \cup ({claimNonce[c]} \ {Session})
    /\ \/ Taken(claimNonce[c]) /\ Goto(c, "markFailed") /\ UNCHANGED <<op, rec>>
       \/ /\ ~Taken(claimNonce[c]) /\ Goto(c, "reserve")
          /\ Keep(c, o) /\ Put(k, o)
    /\ UNCHANGED <<key, claimNonce, rows, used, leases, ledger, history>>

\* Mutant of WithinCap: the last unit is given twice.
UpToCap == used <= Cap

WithinCap == used < Cap

\* One script checks the caps, advances the counters and writes the row.
Reserve(c) ==
    /\ At(c, "reserve")
    /\ IF WithinCap
         THEN used' = used + 1 /\ rows' = [rows EXCEPT ![c] = "held"] /\ Goto(c, "record")
         ELSE Goto(c, "markFailed") /\ UNCHANGED <<used, rows>>
    /\ UNCHANGED <<key, claimNonce, op, rec, consumed, leases, ledger, history>>

Record(c) ==
    LET o == [op[c] EXCEPT !.status = "approving", !.res = c] IN
    /\ At(c, "record")
    /\ Keep(c, o) /\ Put(key[c], o)
    /\ Goto(c, "treasury")
    /\ UNCHANGED <<key, claimNonce, rows, used, consumed, leases, ledger, history>>

---------------------------------------------------------------------------
(* The treasury's section. *)

\* assertLeaseHeld
Holds(c) == c \notin lost

\* Mutant of TreasuryFree: only operations exclude each other.
NoTreasuryLock == TRUE

TreasuryFree == treasury = Nobody

AcquireTreasury(c) ==
    /\ At(c, "treasury")
    /\ IF Holds(c) /\ TreasuryFree
         THEN treasury' = c /\ Goto(c, "approve")
         ELSE Goto(c, "giveBack") /\ UNCHANGED treasury
    /\ UNCHANGED <<key, claimNonce, op, opLock, lost, store, ledger, history>>

Approve(c) ==
    /\ At(c, "approve")
    /\ \/ allowance >= 1 /\ Goto(c, "sign") /\ UNCHANGED chain
       \/ allowance < 1 /\ Holds(c) /\ Goto(c, "approving") /\ chain' = Append(chain, Tx("approve", c))
       \/ allowance < 1 /\ ~Holds(c) /\ Goto(c, "giveBack") /\ UNCHANGED chain
    /\ UNCHANGED <<key, claimNonce, op, store, leases, mined, allowance, reverted, history>>

Approved(c) ==
    /\ At(c, "approving") /\ Mined(Tx("approve", c))
    /\ Goto(c, "sign")
    /\ UNCHANGED <<key, claimNonce, op, store, leases, ledger, history>>

\* The signature fixes the burn's nonce and with it the hash.
Sign(c) ==
    /\ At(c, "sign")
    /\ IF Holds(c) THEN Goto(c, "persist") /\ Keep(c, [op[c] EXCEPT !.status = "signed", !.by = c, !.nonce = Len(chain)])
                   ELSE Goto(c, "giveBack") /\ UNCHANGED op
    /\ UNCHANGED <<key, claimNonce, store, leases, ledger, history>>

\* Mutant of Persist: the burn is sent first and recorded after.
PersistLater(c) ==
    /\ At(c, "persist")
    /\ Goto(c, "broadcast")
    /\ UNCHANGED <<key, claimNonce, op, store, leases, ledger, history>>

Persist(c) ==
    /\ At(c, "persist")
    /\ Put(key[c], op[c])
    /\ Goto(c, "broadcast")
    /\ UNCHANGED <<key, claimNonce, op, rows, used, consumed, leases, ledger, history>>

Broadcast(c) ==
    LET tx == Tx("burn", c) IN
    /\ At(c, "broadcast")
    /\ IF Holds(c) /\ Accepts(tx, op[c].nonce) THEN Send(tx) /\ Goto(c, "mark")
                                               ELSE Goto(c, "settle") /\ UNCHANGED chain
    /\ UNCHANGED <<key, claimNonce, op, store, leases, mined, allowance, reverted, history>>

Mark(c) ==
    LET o == [op[c] EXCEPT !.status = "broadcast"] IN
    /\ At(c, "mark")
    /\ Keep(c, o) /\ Put(key[c], o)
    /\ Goto(c, "receipt")
    /\ UNCHANGED <<key, claimNonce, rows, used, consumed, leases, ledger, history>>

\* A receipt, or none in time: then the quota stays taken and the caller is
\* told that the burn is pending.
Receipt(c) ==
    /\ At(c, "receipt")
    /\ \/ /\ Mined(Tx("burn", c)) /\ UNCHANGED faults
          /\ Goto(c, IF c \in reverted THEN "revert" ELSE "confirm")
       \/ Fault /\ Goto(c, "settle")
    /\ UNCHANGED <<key, claimNonce, op, store, leases, ledger, disturbed, halfReleased, lapsed>>

\* The row is written before the record: a failure between leaves the record
\* at broadcast, as no receipt does.
Confirm(c) ==
    LET o == [op[c] EXCEPT !.status = "confirmed"] IN
    /\ At(c, "confirm")
    /\ rows' = [rows EXCEPT ![c] = "finalized"]
    /\ Put(key[c], o)
    /\ Goto(c, "unlock")
    /\ UNCHANGED <<key, claimNonce, op, used, consumed, leases, ledger, history>>

Settle(c) ==
    /\ At(c, "settle")
    /\ rows' = [rows EXCEPT ![c] = "finalized"]
    /\ Goto(c, "unlock")
    /\ UNCHANGED <<key, claimNonce, op, rec, used, consumed, leases, ledger, history>>

\* A reverted burn keeps its hash on the failed record.
Revert(c) ==
    LET o == [op[c] EXCEPT !.status = "failed"] IN
    /\ At(c, "revert")
    /\ Put(key[c], o)
    /\ Goto(c, "revertBack")
    /\ UNCHANGED <<key, claimNonce, op, rows, used, consumed, leases, ledger, history>>

---------------------------------------------------------------------------
(* The ends of a call. *)

GiveBack(c) ==
    /\ \/ At(c, "giveBack") /\ Goto(c, "giveBackRow")
       \/ At(c, "revertBack") /\ Goto(c, "revertRow")
    /\ Decrease
    /\ UNCHANGED <<key, claimNonce, op, rec, rows, consumed, leases, ledger, history>>

GiveBackRow(c) ==
    /\ \/ At(c, "giveBackRow") /\ Goto(c, "markFailed")
       \/ At(c, "revertRow") /\ Goto(c, "unlock")
    /\ rows' = [rows EXCEPT ![c] = "released"]
    /\ UNCHANGED <<key, claimNonce, op, rec, used, consumed, leases, ledger, history>>

\* The catch writes the failure over the key's record without another look,
\* whether or not the call ever held the key's lease.
MarkFailed(c) ==
    /\ At(c, "markFailed")
    /\ Put(key[c], Failed) /\ Disturb(key[c], Failed)
    /\ Goto(c, "unlock")
    /\ UNCHANGED <<key, claimNonce, op, rows, used, consumed, leases, ledger, noFault>>

\* Both releases compare the token first.
Freed(holder, c) == IF holder = c THEN Nobody ELSE holder

Unlock(c) ==
    /\ At(c, "unlock")
    /\ treasury' = Freed(treasury, c)
    /\ opLock' = [opLock EXCEPT ![key[c]] = Freed(@, c)]
    /\ Leave(c)
    /\ UNCHANGED <<key, claimNonce, store, ledger, history>>

\* A call to the store or the chain fails: what the catch does next depends on
\* whether a quota was reserved and a hash computed.
AfterError(l) ==
    CASE l \in Before -> "markFailed"
      [] l \in Reserved \cup {"giveBack", "giveBackRow"} ->
             IF l \in {"giveBack", "giveBackRow"} THEN "markFailed" ELSE "giveBack"
      [] l \in {"persist", "broadcast", "mark", "confirm", "revert"} -> "settle"
      [] OTHER -> "unlock"

\* The counter went down and the row does not say so.
Halves(l) == halfReleased' = (halfReleased \/ l \in {"staleRow", "giveBackRow", "revertRow"})

Raise(c) ==
    /\ pc[c] \notin {"idle", "unlock", "staleRow", "receipt", "done"}
    /\ Fault /\ Halves(pc[c])
    /\ IF pc[c] \in Outside THEN Leave(c) ELSE Goto(c, AfterError(pc[c])) /\ UNCHANGED <<key, claimNonce, op, lost>>
    /\ UNCHANGED <<key, claimNonce, opLock, treasury, store, ledger, disturbed, lapsed>>

Crash(c) ==
    /\ pc[c] \notin {"idle", "done"}
    /\ Fault /\ Halves(pc[c])
    /\ Leave(c)
    /\ UNCHANGED <<key, claimNonce, opLock, treasury, store, ledger, disturbed, lapsed>>

---------------------------------------------------------------------------
(* Leases and blocks. *)

\* Mutant of Expire: an operation's lease is set without an expiry.
ExpireTreasury ==
    /\ treasury # Nobody /\ pc[treasury] = "done"
    /\ treasury' = Nobody
    /\ UNCHANGED <<opLock, key, claimNonce, pc, op, lost, store, ledger, history>>

\* A lease ends by itself when nobody renews it.
Expire ==
    /\ \/ \E k \in Keys : /\ opLock[k] # Nobody /\ pc[opLock[k]] = "done"
                          /\ opLock' = [opLock EXCEPT ![k] = Nobody] /\ UNCHANGED treasury
       \/ /\ treasury # Nobody /\ pc[treasury] = "done"
          /\ treasury' = Nobody /\ UNCHANGED opLock
    /\ UNCHANGED <<key, claimNonce, pc, op, lost, store, ledger, history>>

\* A holder too slow to renew loses its leases, and the timer's next renewal
\* tells it.
Lapse(c) ==
    /\ Fault
    /\ opLock[key[c]] = c /\ pc[c] # "done"
    /\ opLock' = [opLock EXCEPT ![key[c]] = Nobody]
    /\ treasury' = Freed(treasury, c)
    /\ lapsed' = TRUE
    /\ UNCHANGED <<key, claimNonce, pc, op, lost, store, ledger, disturbed, halfReleased>>

NoticeLapse(c) ==
    /\ pc[c] \notin {"idle", "lock", "contend", "done"} \cup Outside
    /\ lapsed /\ opLock[key[c]] # c /\ c \notin lost
    /\ lost' = lost \cup {c}
    /\ UNCHANGED <<key, claimNonce, pc, op, opLock, treasury, store, ledger, history>>

\* The next transaction is mined.  A burn the allowance does not cover reverts.
Mine ==
    LET tx == chain[mined + 1] IN
    /\ mined < Len(chain)
    /\ mined' = mined + 1
    /\ allowance' = IF tx.kind = "approve" THEN 1 ELSE IF allowance >= 1 THEN allowance - 1 ELSE 0
    /\ reverted' = IF tx.kind = "burn" /\ allowance < 1 THEN reverted \cup {tx.by} ELSE reverted
    /\ UNCHANGED <<key, claimNonce, pc, op, store, leases, chain, history>>

---------------------------------------------------------------------------
Step(c) ==
    \/ Begin(c) \/ Resend(c) \/ Rewrite(c) \/ AcquireOp(c) \/ Contend(c) \/ Recheck(c)
    \/ ReleaseStale(c) \/ ReleaseStaleRow(c) \/ Create(c) \/ Reserve(c)
    \/ Record(c) \/ AcquireTreasury(c) \/ Approve(c) \/ Approved(c) \/ Sign(c) \/ Persist(c)
    \/ Broadcast(c) \/ Mark(c) \/ Receipt(c) \/ Confirm(c) \/ Settle(c) \/ Revert(c)
    \/ GiveBack(c) \/ GiveBackRow(c) \/ MarkFailed(c) \/ Unlock(c)

Progress == (\E c \in Calls : Step(c)) \/ Expire \/ Mine

Next ==
    \/ Progress
    \/ \E c \in Calls : Raise(c) \/ Crash(c) \/ Lapse(c) \/ NoticeLapse(c)

Spec == Init /\ [][Next]_vars

\* Calls return, leases run out and blocks are produced: something goes on.
FairSpec == Spec /\ WF_vars(Progress)

---------------------------------------------------------------------------
(* Properties. *)

TypeOK ==
    /\ key \in [Calls -> Keys] /\ claimNonce \in [Calls -> Nonces \cup {Session}]
    /\ pc \in [Calls -> Labels] /\ op \in [Calls -> Ops] /\ lost \subseteq Calls
    /\ rec \in [Keys -> Ops]
    /\ rows \in [Calls -> {"none", "held", "released", "finalized"}]
    /\ used \in 0..Cap
    /\ opLock \in [Keys -> Calls \cup {Nobody}] /\ treasury \in Calls \cup {Nobody}
    /\ consumed \subseteq Nonces
    /\ chain \in Seq([kind : {"approve", "burn"}, by : Calls])
    /\ mined \in 0..Len(chain) /\ allowance \in 0..1 /\ reverted \subseteq Calls
    /\ disturbed \subseteq Keys /\ {halfReleased, lapsed} \subseteq BOOLEAN /\ faults \in 0..MaxFaults

Burns == {chain[i].by : i \in {j \in DOMAIN chain : chain[j].kind = "burn"}}
LiveBurns(k) == {c \in Burns \ reverted : key[c] = k}

\* No crash point leaves a burn that nobody has a record of: a burn that was
\* sent and did not revert is the one its key's record names, as long as no
\* other call wrote over a record with a hash and no lease lapsed.
BurnIsOnRecord ==
    ~lapsed => \A k \in Keys \ disturbed : \A c \in LiveBurns(k) : rec[k].by = c

\* At most one burn of a key, whatever dies, fails or retries, as long as its
\* record was not written over and no lease lapsed.
OneBurnPerKey ==
    \A k \in Keys : k \notin disturbed /\ ~lapsed => Cardinality(LiveBurns(k)) <= 1

\* A signature is good for one burn, always: whatever key it comes with when
\* it is sent again, whatever became of the records, reverted or not.
OneBurnPerNonce ==
    \A n \in Nonces : Cardinality({c \in Burns : claimNonce[c] = n}) <= 1

\* Every burn that did not revert is counted against the caps, unless a
\* release stopped between the counter and the row, or a lease lapsed.
QuotaCoversBurns ==
    ~halfReleased /\ ~lapsed => Cardinality(Burns \ reverted) <= used

\* Between a burn's signature and its broadcast no other call at work takes
\* its nonce; only a burn can that was signed by a call now gone and is sent
\* again without the treasury's lease.
NonceIsKept ==
    \A c \in Calls :
        pc[c] \in {"persist", "broadcast"} /\ ~lapsed =>
            \/ Accepts(Tx("burn", c), op[c].nonce)
            \/ LET taker == chain[op[c].nonce + 1]
               IN  taker.kind = "burn" /\ pc[taker.by] = "done"

\* What the header promises, with no lease lapsed: a retry with the same key
\* finds the burn that was made and makes no other.
RetryBurnsOnce ==
    ~lapsed => \A k \in Keys : Cardinality({c \in LiveBurns(k) : Mined(Tx("burn", c))}) <= 1

\* Every call comes to an end, and no lease outlives the calls, dead holders'
\* included: nobody waits for a lease in a circle.
LeasesComeFree ==
    <>[](/\ \A c \in Calls : pc[c] = "done"
         /\ treasury = Nobody /\ \A k \in Keys : opLock[k] = Nobody)

=============================================================================
