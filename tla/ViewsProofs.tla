----------------------------- MODULE ViewsProofs -----------------------------
(***************************************************************************)
(* Proofs about the machines that show the state of the chain, for any     *)
(* number of rounds, blocks, readers, pollers, sessions and faults.  Each  *)
(* machine has an inductive invariant of its own; together they hold of    *)
(* every part, the one that runs and those that stand still.               *)
(***************************************************************************)
EXTENDS MCViews, FiniteSetTheorems, TLAPS

---------------------------------------------------------------------------
(* The wallet: while the user is out, nothing is stored that a restoration *)
(* could find, and those under way are cancelled or find nothing.          *)

Restores == [session : Sessions \cup {Nobody}, pc : {"check", "accounts"}, live : BOOLEAN]

RestoresShape == restores \subseteq Restores

\* Only a restoration that asks for the browser wallet's accounts is listened to.
FindsNothing(r) == r.live => r.pc = "accounts"

NothingLeft ==
    out => /\ stored = Nobody /\ ~flag
           /\ embedded = Nobody /\ mode = Nobody /\ address = Nobody
           /\ \A r \in restores : FindsNothing(r)

WalletInv == Wallet!TypeOK /\ RestoresShape /\ NothingLeft

LEMMA WalletConstants ==
    /\ MaxActs \in Nat /\ Nobody \notin Sessions /\ Account \notin Sessions /\ Nobody # Account
    /\ Nobody \notin {"connect", "signIn", "embedded", "injected"}
BY ViewsAssumption DEF Wallet!WalletSessionAssumption

\* A restoration that begins finds what is stored.
LEMMA RestoreFits ==
    ASSUME NEW s \in Sessions \cup {Nobody}
    PROVE  Wallet!Restore(s) \in Restores /\ (s = Nobody => FindsNothing(Wallet!Restore(s)))
BY DEF Wallet!Restore, Restores, FindsNothing

LEMMA CancelledFits ==
    ASSUME NEW r \in Restores PROVE Wallet!Cancelled(r) \in Restores /\ FindsNothing(Wallet!Cancelled(r))
BY DEF Wallet!Cancelled, Restores, FindsNothing

\* What a read, and one act more, leave behind.
LEMMA WalletReads ==
    ASSUME WalletInv, NEW a \in Wallet!Addresses, Wallet!Reads(a)
    PROVE  Nobody \notin asked' /\ asked' \subseteq Wallet!Addresses
BY DEF WalletInv, Wallet!TypeOK, Wallet!Reads

LEMMA WalletActs ==
    ASSUME WalletInv, acts' = acts \/ Wallet!Acts PROVE acts' \in 0..MaxActs
BY WalletConstants DEF WalletInv, Wallet!TypeOK, Wallet!Acts

LEMMA WalletInit == Wallet!Init => WalletInv
<1> SUFFICES ASSUME Wallet!Init PROVE WalletInv
  OBVIOUS
<1>1. stored \in Sessions \cup {Nobody} /\ restores = {Wallet!Restore(stored)} /\ out = FALSE
  BY DEF Wallet!Init
<1>2. RestoresShape
  BY <1>1, RestoreFits DEF RestoresShape
<1>3. NothingLeft
  BY <1>1 DEF NothingLeft
<1>4. Wallet!TypeOK
  <2>1. \A r \in restores : r.session \in Sessions \cup {Nobody} /\ r.pc \in {"check", "accounts"} /\ r.live \in BOOLEAN
    BY <1>2 DEF RestoresShape, Restores
  <2>2. flag \in BOOLEAN /\ out \in BOOLEAN
    BY DEF Wallet!Init
  <2> QED
    BY <1>1, <2>1, <2>2, WalletConstants DEF Wallet!Init, Wallet!TypeOK, Wallet!Addresses
<1> QED
  BY <1>2, <1>3, <1>4 DEF WalletInv

\* What the user does.
LEMMA WalletUserKeeps ==
    ASSUME WalletInv,
           \/ Wallet!Connect \/ Wallet!Connected \/ Wallet!ConnectFails \/ Wallet!SignIn
           \/ Wallet!SignInFails \/ \E s \in Sessions : Wallet!SignedIn(s) \/ Wallet!Expire(s)
           \/ Wallet!AccountGone \/ Wallet!AccountBack
    PROVE  WalletInv'
<1> USE WalletConstants DEF WalletInv, Wallet!storage, Wallet!page
<1>1. restores' = restores /\ RestoresShape'
  BY DEF Wallet!Connect, Wallet!Connected, Wallet!ConnectFails, Wallet!SignIn, Wallet!SignInFails,
         Wallet!SignedIn, Wallet!Expire, Wallet!AccountGone, Wallet!AccountBack, RestoresShape
<1>2. acts' \in 0..MaxActs
  BY WalletActs
  DEF Wallet!Connect, Wallet!Connected, Wallet!ConnectFails, Wallet!SignIn, Wallet!SignInFails,
      Wallet!SignedIn, Wallet!Expire, Wallet!AccountGone, Wallet!AccountBack
<1>3. Nobody \notin asked' /\ asked' \subseteq Wallet!Addresses
  <2>1. CASE asked' = asked
    BY <2>1 DEF Wallet!TypeOK
  <2>2. CASE \E a \in Wallet!Addresses : Wallet!Reads(a)
    BY <2>2, WalletReads
  <2> QED
    BY <2>1, <2>2
    DEF Wallet!Connect, Wallet!Connected, Wallet!ConnectFails, Wallet!SignIn, Wallet!SignInFails,
        Wallet!SignedIn, Wallet!Expire, Wallet!AccountGone, Wallet!AccountBack, Wallet!Addresses
<1>4. flag' \in BOOLEAN /\ out' \in BOOLEAN
  BY Zenon
  DEF Wallet!Connect, Wallet!Connected, Wallet!ConnectFails, Wallet!SignIn, Wallet!SignInFails,
      Wallet!SignedIn, Wallet!Expire, Wallet!AccountGone, Wallet!AccountBack, Wallet!TypeOK
<1>5. NothingLeft'
  BY <1>1
  DEF Wallet!Connect, Wallet!Connected, Wallet!ConnectFails, Wallet!SignIn, Wallet!SignInFails,
      Wallet!SignedIn, Wallet!Expire, Wallet!AccountGone, Wallet!AccountBack, NothingLeft
<1>6. Wallet!TypeOK'
  BY <1>1, <1>2, <1>3, <1>4
  DEF Wallet!Connect, Wallet!Connected, Wallet!ConnectFails, Wallet!SignIn, Wallet!SignInFails,
      Wallet!SignedIn, Wallet!Expire, Wallet!AccountGone, Wallet!AccountBack, Wallet!TypeOK, Wallet!Addresses
<1> QED
  BY <1>1, <1>5, <1>6

\* A click that disconnects cancels what is under way, as a render does.
LEMMA WalletDisconnectKeeps == ASSUME WalletInv, Wallet!Disconnect PROVE WalletInv'
<1> USE WalletConstants DEF WalletInv
<1>1. /\ stored' = Nobody /\ flag' = FALSE /\ embedded' = Nobody /\ mode' = Nobody /\ address' = Nobody
      /\ restores' = {Wallet!Cancelled(r) : r \in restores} \cup {Wallet!Restore(Nobody)}
      /\ busy' = busy /\ out' = TRUE /\ balance' = Nobody /\ rendered' = Nobody /\ asked' = asked
  BY DEF Wallet!Disconnect
<1>2. \A r \in restores' : r \in Restores /\ FindsNothing(r)
  BY <1>1, RestoreFits, CancelledFits DEF RestoresShape
<1>3. RestoresShape' /\ NothingLeft'
  BY <1>1, <1>2 DEF RestoresShape, NothingLeft, FindsNothing
<1>4. acts' \in 0..MaxActs
  BY WalletActs DEF Wallet!Disconnect
<1>5. valid' \subseteq Sessions
  BY DEF Wallet!Disconnect, Wallet!TypeOK
<1>6. Wallet!TypeOK'
  BY <1>1, <1>2, <1>4, <1>5 DEF Wallet!TypeOK, Wallet!Addresses, Restores
<1> QED
  BY <1>3, <1>6

LEMMA WalletRenderKeeps == ASSUME WalletInv, Wallet!Render PROVE WalletInv'
<1> USE WalletConstants DEF WalletInv, Wallet!storage, Wallet!page
<1>1. /\ restores' = {Wallet!Cancelled(r) : r \in restores} \cup {Wallet!Restore(stored)}
      /\ rendered' = address /\ Wallet!Reads(address)
      /\ UNCHANGED <<stored, flag, valid, embedded, mode, address, busy, balance, out, acts>>
  BY DEF Wallet!Render
<1>2. stored \in Sessions \cup {Nobody} /\ address \in Wallet!Addresses
  BY DEF Wallet!TypeOK
<1>3. \A r \in restores' : r \in Restores /\ (stored = Nobody => FindsNothing(r))
  BY <1>1, <1>2, RestoreFits, CancelledFits DEF RestoresShape
<1>4. RestoresShape' /\ NothingLeft'
  BY <1>1, <1>3 DEF RestoresShape, NothingLeft, FindsNothing
<1>5. Nobody \notin asked' /\ asked' \subseteq Wallet!Addresses
  BY <1>1, <1>2, WalletReads
<1>6. Wallet!TypeOK'
  BY <1>1, <1>2, <1>3, <1>5 DEF Wallet!TypeOK, Restores
<1> QED
  BY <1>4, <1>6

\* The answer to a restoration, listened to unless it was cancelled.
LEMMA WalletAnswerKeeps ==
    ASSUME WalletInv, NEW r \in restores, Wallet!Restored(r) \/ Wallet!Wiped(r) \/ Wallet!Accounts(r)
    PROVE  WalletInv'
<1> USE WalletConstants DEF WalletInv, Wallet!storage, Wallet!page
<1>1. r \in Restores
  BY DEF RestoresShape
<1>2. PICK w : w = [r EXCEPT !.pc = "accounts"]
  OBVIOUS
<1>3. w \in Restores /\ FindsNothing(w)
  BY <1>1, <1>2 DEF Restores, FindsNothing
<1>4. restores' \subseteq restores \cup {w}
  BY <1>2 DEF Wallet!Restored, Wallet!Wiped, Wallet!Accounts
<1>5. \A q \in restores' : q \in Restores /\ (out => FindsNothing(q))
  BY <1>3, <1>4 DEF RestoresShape, NothingLeft
<1>6. UNCHANGED <<flag, valid, rendered, busy, out>> /\ stored' \in {stored, Nobody}
  BY DEF Wallet!Restored, Wallet!Wiped, Wallet!Accounts
<1>7. acts' \in 0..MaxActs
  BY WalletActs DEF Wallet!Restored, Wallet!Wiped, Wallet!Accounts
<1>8. PICK e, m, a :
         /\ e \in Sessions \cup {Nobody} /\ m \in {Nobody, "embedded", "injected"} /\ a \in Wallet!Addresses
         /\ \/ UNCHANGED <<embedded, mode, address, asked, balance>>
            \/ embedded' = e /\ mode' = m /\ address' = a /\ Wallet!Reads(a) /\ Wallet!Shows(a)
         /\ out => \/ UNCHANGED <<embedded, mode, address>>
                   \/ e = embedded /\ m = mode /\ a = Nobody
  <2>0. r.session \in Sessions \cup {Nobody} /\ embedded \in Sessions \cup {Nobody} /\ mode \in {Nobody, "embedded", "injected"}
    BY <1>1 DEF Restores, Wallet!TypeOK
  <2>1. CASE Wallet!Restored(r)
    BY <2>0, <2>1, Zenon DEF Wallet!Restored, Wallet!Becomes, NothingLeft, FindsNothing, Wallet!Addresses
  <2>2. CASE Wallet!Wiped(r)
    BY <2>0, <2>2, Zenon DEF Wallet!Wiped, Wallet!Addresses
  <2>3. CASE Wallet!Accounts(r)
    BY <2>0, <2>3, Zenon DEF Wallet!Accounts, Wallet!Becomes, NothingLeft, Wallet!Addresses
  <2> QED
    BY <2>1, <2>2, <2>3
<1>9. Nobody \notin asked' /\ asked' \subseteq Wallet!Addresses /\ balance' \in Wallet!Addresses
  <2>1. CASE UNCHANGED <<asked, balance>>
    BY <2>1 DEF Wallet!TypeOK
  <2>2. CASE Wallet!Reads(a) /\ Wallet!Shows(a)
    BY <1>8, <2>2, WalletReads DEF Wallet!Shows, Wallet!TypeOK, Wallet!Addresses
  <2> QED
    BY <1>8, <2>1, <2>2
<1>10. {embedded', stored'} \subseteq Sessions \cup {Nobody} /\ mode' \in {Nobody, "embedded", "injected"} /\ address' \in Wallet!Addresses
  BY <1>6, <1>8 DEF Wallet!TypeOK
<1>11. RestoresShape' /\ NothingLeft'
  BY <1>5, <1>6, <1>8 DEF RestoresShape, NothingLeft, FindsNothing
<1>12. Wallet!TypeOK'
  BY <1>5, <1>6, <1>7, <1>9, <1>10 DEF Wallet!TypeOK, Restores
<1> QED
  BY <1>11, <1>12

\* Balances come and go, and are asked for again.
LEMMA WalletBalanceKeeps ==
    ASSUME WalletInv, Wallet!Again \/ \E a \in asked : Wallet!Balance(a) \/ Wallet!NoBalance(a)
    PROVE  WalletInv'
<1> USE WalletConstants DEF WalletInv, Wallet!storage, Wallet!page
<1>1. UNCHANGED <<stored, flag, valid, embedded, mode, address, rendered, restores, busy, out>>
  BY DEF Wallet!Again, Wallet!Balance, Wallet!NoBalance
<1>2. acts' \in 0..MaxActs
  BY WalletActs DEF Wallet!Again, Wallet!Balance, Wallet!NoBalance
<1>3. Nobody \notin asked' /\ asked' \subseteq Wallet!Addresses /\ balance' \in Wallet!Addresses
  BY DEF Wallet!Again, Wallet!Balance, Wallet!NoBalance, Wallet!Due, Wallet!TypeOK, Wallet!Addresses
<1>4. RestoresShape' /\ NothingLeft'
  BY <1>1 DEF RestoresShape, NothingLeft, FindsNothing
<1>5. Wallet!TypeOK'
  BY <1>1, <1>2, <1>3 DEF Wallet!TypeOK
<1> QED
  BY <1>4, <1>5

LEMMA WalletStep == ASSUME WalletInv, Wallet!Next \/ UNCHANGED walletVars PROVE WalletInv'
<1>1. CASE UNCHANGED walletVars
  BY <1>1 DEF walletVars, WalletInv, Wallet!TypeOK, RestoresShape, NothingLeft, FindsNothing
<1>2. CASE Wallet!Next
  BY <1>2, WalletUserKeeps, WalletDisconnectKeeps, WalletRenderKeeps, WalletAnswerKeeps, WalletBalanceKeeps
  DEF Wallet!Next
<1> QED
  BY <1>1, <1>2

---------------------------------------------------------------------------
(* The tracker: the stored record, and every record that a recorder or a   *)
(* poll has read, is true of the transaction.                              *)

\* Final statuses are the chain's, but for those given up without a receipt.
TrueOfTx(r) ==
    /\ r.status = "confirmed" => tx = "mined"
    /\ r.status = "failed" /\ ~misjudged => tx \in {"reverted", "dropped"}

TruthSeen ==
    /\ TrueOfTx(rec)
    /\ \A a \in Tracker!Actors : TrueOfTx(run[a].seen)

\* A poll has read a record that was pending.
PollsSawPending ==
    \A a \in Tracker!Actors :
        run[a].pc = "poll" => run[a].seen.status = "pending" /\ run[a].seen.owner \in Tracker!Recorders

TrackerFlags == misjudged \in BOOLEAN /\ overwrote \in BOOLEAN

TrackerTypes ==
    /\ tx \in {"sent", "mined", "reverted", "dropped"} /\ rec \in Tracker!Records
    /\ rec.status # "none" => rec.owner \in Tracker!Recorders
    /\ run \in [Tracker!Actors -> [pc : {"idle", "record", "poll"}, seen : Tracker!Records]]
    /\ recorded \subseteq Tracker!Recorders /\ reads \in 0..MaxReads /\ clock \in 0..MaxClock

TrackerInv == TrackerTypes /\ TrackerFlags /\ TruthSeen /\ PollsSawPending

LEMMA TrackerConstants == MaxReads \in Nat /\ MaxClock \in Nat /\ Server # Client
BY ViewsAssumption DEF Tracker!TxTrackerAssumption

LEMMA NoRecordFits == Tracker!NoRecord \in Tracker!Records /\ TrueOfTx(Tracker!NoRecord)
BY TrackerConstants DEF Tracker!NoRecord, Tracker!Records, TrueOfTx

LEMMA TrackerInit == Tracker!Init => TrackerInv
<1> SUFFICES ASSUME Tracker!Init PROVE TrackerInv
  OBVIOUS
<1>1. tx = "sent" /\ rec = Tracker!NoRecord /\ recorded = {} /\ reads = 0 /\ clock = 0
      /\ run = [a \in Tracker!Actors |-> Tracker!Idle]
  BY DEF Tracker!Init
<1>2. Tracker!Idle \in [pc : {"idle", "record", "poll"}, seen : Tracker!Records]
      /\ Tracker!Idle.pc = "idle" /\ TrueOfTx(Tracker!Idle.seen)
  BY NoRecordFits DEF Tracker!Idle
<1>3. TrackerTypes
  BY <1>1, <1>2, NoRecordFits, TrackerConstants DEF TrackerTypes, Tracker!NoRecord
<1>4. TrackerFlags
  BY DEF Tracker!Init, TrackerFlags
<1>5. TruthSeen /\ PollsSawPending
  BY <1>1, <1>2, NoRecordFits DEF TruthSeen, PollsSawPending
<1> QED
  BY <1>3, <1>4, <1>5 DEF TrackerInv

\* Whoever reads the record knows of it, or of nothing, what is true.
LEMMA ReadsFit ==
    ASSUME TrackerInv, UNCHANGED <<tx, misjudged>>, NEW a \in Tracker!Actors,
           NEW l \in {"idle", "record", "poll"}, NEW r \in Tracker!Records,
           TrueOfTx(r), Tracker!Becomes(a, l, r),
           l = "poll" => r.status = "pending" /\ r.owner \in Tracker!Recorders
    PROVE  /\ run' \in [Tracker!Actors -> [pc : {"idle", "record", "poll"}, seen : Tracker!Records]]
           /\ \A b \in Tracker!Actors : TrueOfTx(run[b].seen)'
           /\ PollsSawPending'
<1> PICK w : w = [pc |-> l, seen |-> r]
  OBVIOUS
<1>1. w \in [pc : {"idle", "record", "poll"}, seen : Tracker!Records] /\ w.pc = l /\ w.seen = r
  OBVIOUS
<1>2. run' = [run EXCEPT ![a] = w] /\ run \in [Tracker!Actors -> [pc : {"idle", "record", "poll"}, seen : Tracker!Records]]
  BY DEF Tracker!Becomes, TrackerInv, TrackerTypes
<1>3. run' \in [Tracker!Actors -> [pc : {"idle", "record", "poll"}, seen : Tracker!Records]]
      /\ \A b \in Tracker!Actors : run'[b] = IF b = a THEN w ELSE run[b]
  BY <1>1, <1>2
<1>4. \A b \in Tracker!Actors : TrueOfTx(run[b].seen)'
  BY <1>1, <1>3 DEF TrueOfTx, TrackerInv, TruthSeen
<1>5. PollsSawPending'
  BY <1>1, <1>3 DEF PollsSawPending, TrackerInv
<1> QED
  BY <1>3, <1>4, <1>5

\* The same when the record is written: what was judged wrongly stays so.
LEMMA WritesFit ==
    ASSUME TrackerInv, UNCHANGED tx, misjudged => misjudged', NEW a \in Tracker!Actors,
           Tracker!Becomes(a, "idle", Tracker!NoRecord)
    PROVE  /\ run' \in [Tracker!Actors -> [pc : {"idle", "record", "poll"}, seen : Tracker!Records]]
           /\ \A b \in Tracker!Actors : TrueOfTx(run[b].seen)'
           /\ PollsSawPending'
<1> PICK w : w = [pc |-> "idle", seen |-> Tracker!NoRecord]
  OBVIOUS
<1>1. w \in [pc : {"idle", "record", "poll"}, seen : Tracker!Records] /\ w.pc = "idle" /\ w.seen = Tracker!NoRecord
  BY NoRecordFits
<1>2. run' = [run EXCEPT ![a] = w] /\ run \in [Tracker!Actors -> [pc : {"idle", "record", "poll"}, seen : Tracker!Records]]
  BY DEF Tracker!Becomes, TrackerInv, TrackerTypes
<1>3. run' \in [Tracker!Actors -> [pc : {"idle", "record", "poll"}, seen : Tracker!Records]]
      /\ \A b \in Tracker!Actors : run'[b] = IF b = a THEN w ELSE run[b]
  BY <1>1, <1>2
<1>4. ASSUME NEW b \in Tracker!Actors PROVE TrueOfTx(run[b].seen)'
  <2>1. TrueOfTx(run[b].seen)
    BY DEF TrackerInv, TruthSeen
  <2>2. w.seen.status = "none"
    BY <1>1 DEF Tracker!NoRecord
  <2> QED
    BY <1>3, <2>1, <2>2 DEF TrueOfTx
<1>5. PollsSawPending'
  BY <1>1, <1>3 DEF PollsSawPending, TrackerInv
<1> QED
  BY <1>3, <1>4, <1>5

LEMMA TrackerReadKeeps ==
    ASSUME TrackerInv,
           \/ \E a \in Tracker!Recorders : Tracker!StartRecord(a) \/ Tracker!Refused(a)
           \/ \E p \in Pollers : Tracker!StartPoll(p)
    PROVE  TrackerInv'
<1>1. UNCHANGED <<tx, rec, misjudged, overwrote, reads, clock>>
  BY DEF Tracker!StartRecord, Tracker!Refused, Tracker!StartPoll
<1>2. recorded' \subseteq Tracker!Recorders
  BY DEF Tracker!StartRecord, Tracker!Refused, Tracker!StartPoll, TrackerInv, TrackerTypes
<1>3. rec \in Tracker!Records /\ TrueOfTx(rec) /\ (rec.status = "pending" => rec.owner \in Tracker!Recorders)
  BY DEF TrackerInv, TrackerTypes, TruthSeen
<1>4. /\ run' \in [Tracker!Actors -> [pc : {"idle", "record", "poll"}, seen : Tracker!Records]]
      /\ \A b \in Tracker!Actors : TrueOfTx(run[b].seen)'
      /\ PollsSawPending'
  <2>1. CASE run' = run
    BY <1>1, <2>1 DEF TrackerInv, TrackerTypes, TruthSeen, TrueOfTx, PollsSawPending
  <2>2. ASSUME NEW a \in Tracker!Actors, Tracker!Becomes(a, "record", rec) PROVE <1>4!:
    BY <1>1, <1>3, <2>2, ReadsFit
  <2>3. ASSUME NEW a \in Tracker!Actors, Tracker!Becomes(a, "poll", rec), rec.status = "pending" PROVE <1>4!:
    BY <1>1, <1>3, <2>3, ReadsFit
  <2>4. ASSUME NEW a \in Tracker!Actors, Tracker!Becomes(a, "idle", Tracker!NoRecord) PROVE <1>4!:
    BY <1>1, <2>4, NoRecordFits, ReadsFit
  <2> QED
    BY <2>1, <2>2, <2>3, <2>4 DEF Tracker!StartRecord, Tracker!Refused, Tracker!StartPoll, Tracker!Actors
<1>5. TrueOfTx(rec)'
  BY <1>1, <1>3 DEF TrueOfTx
<1> QED
  BY <1>1, <1>2, <1>4, <1>5 DEF TrackerInv, TrackerTypes, TrackerFlags, TruthSeen

\* A record written keeps a final status it was read with.
LEMMA TrackerWriteKeeps ==
    ASSUME TrackerInv, NEW a \in Tracker!Recorders, Tracker!WriteRecord(a) PROVE TrackerInv'
<1>1. UNCHANGED <<tx, misjudged, reads, clock>> /\ Tracker!Becomes(a, "idle", Tracker!NoRecord)
      /\ recorded' = recorded \cup {a} /\ rec' = Tracker!Written(a, run[a].seen)
  BY DEF Tracker!WriteRecord
<1>2. PICK s : s = run[a].seen
  OBVIOUS
<1>3. s \in Tracker!Records /\ TrueOfTx(s)
  BY <1>2 DEF TrackerInv, TrackerTypes, TruthSeen, Tracker!Actors
<1>4. /\ rec'.status \in {"pending", s.status} /\ rec'.status \in {"pending", "confirmed", "failed"}
      /\ rec'.owner \in Tracker!Recorders /\ rec' \in Tracker!Records
  <2>1. /\ Tracker!StatusAfter(s) \in {"pending", s.status}
        /\ Tracker!StatusAfter(s) \in {"pending", "confirmed", "failed"}
    BY <1>3 DEF Tracker!StatusAfter, Tracker!Final
  <2>2. (IF s.owner # "none" THEN s.owner ELSE a) \in Tracker!Recorders
    BY <1>3 DEF Tracker!Records
  <2>3. (IF s = Tracker!NoRecord THEN clock ELSE s.at) \in 0..MaxClock
    BY <1>3 DEF TrackerInv, TrackerTypes, Tracker!Records
  <2> QED
    BY <1>1, <1>2, <2>1, <2>2, <2>3 DEF Tracker!Written, Tracker!Records
<1>5. TrueOfTx(rec)'
  BY <1>1, <1>3, <1>4 DEF TrueOfTx
<1>6. TrackerFlags'
  <2>1. misjudged' = misjudged /\ overwrote' \in BOOLEAN
    BY Zenon DEF Tracker!WriteRecord
  <2> QED
    BY <2>1 DEF TrackerInv, TrackerFlags
<1>7. TrackerTypes'
  <2>1. recorded' \subseteq Tracker!Recorders
    BY <1>1 DEF TrackerInv, TrackerTypes
  <2> QED
    BY <1>1, <1>4, <2>1, WritesFit DEF TrackerInv, TrackerTypes, Tracker!Actors
<1> QED
  BY <1>1, <1>5, <1>6, <1>7, WritesFit DEF TrackerInv, TruthSeen, Tracker!Actors

\* A receipt is taken for what it says.
LEMMA TrackerPollKeeps ==
    ASSUME TrackerInv, NEW p \in Pollers, Tracker!Poll(p) PROVE TrackerInv'
<1>1. UNCHANGED <<tx, recorded, misjudged, overwrote, reads, clock>> /\ Tracker!Becomes(p, "idle", Tracker!NoRecord)
      /\ rec' = [run[p].seen EXCEPT !.status = Tracker!Verdict] /\ tx \in {"mined", "reverted"} /\ run[p].pc = "poll"
  BY DEF Tracker!Poll, Tracker!At
<1>2. PICK s, v : s = run[p].seen /\ v = Tracker!Verdict
  OBVIOUS
<1>3. s \in Tracker!Records /\ s.owner \in Tracker!Recorders
  BY <1>1, <1>2 DEF TrackerInv, TrackerTypes, PollsSawPending, Tracker!Actors
<1>4. v \in {"confirmed", "failed"} /\ (v = "confirmed" <=> tx = "mined")
  BY <1>2 DEF Tracker!Verdict
<1>5. rec' = [s EXCEPT !.status = v]
  BY <1>1, <1>2
<1>6. rec'.status = v /\ rec'.owner = s.owner /\ rec' \in Tracker!Records
  BY <1>3, <1>4, <1>5 DEF Tracker!Records
<1>7. TrueOfTx(rec)'
  BY <1>1, <1>4, <1>6 DEF TrueOfTx
<1>8. TrackerTypes'
  BY <1>1, <1>3, <1>6, WritesFit DEF TrackerInv, TrackerTypes, Tracker!Actors
<1> QED
  BY <1>1, <1>7, <1>8, WritesFit DEF TrackerInv, TruthSeen, TrackerFlags, Tracker!Actors

\* A poll that gives up says that the transaction failed, and may be wrong.
LEMMA TrackerNoReceiptKeeps ==
    ASSUME TrackerInv, NEW p \in Pollers, Tracker!NoReceipt(p) PROVE TrackerInv'
<1> DEFINE gives == Tracker!GivesUp(run[p].seen)
<1>1. UNCHANGED <<tx, recorded, overwrote, clock>> /\ Tracker!Becomes(p, "idle", Tracker!NoRecord)
      /\ rec' = (IF gives THEN [run[p].seen EXCEPT !.status = "failed"] ELSE rec) /\ run[p].pc = "poll"
  BY Zenon DEF Tracker!NoReceipt, Tracker!At
<1>2. /\ misjudged => misjudged'
      /\ gives /\ tx \in {"sent", "mined"} => misjudged'
      /\ misjudged' \in BOOLEAN
      /\ misjudged' = misjudged \/ gives
  BY Zenon DEF Tracker!NoReceipt, TrackerInv, TrackerFlags
<1>3. PICK s : s = run[p].seen
  OBVIOUS
<1>4. s \in Tracker!Records /\ s.owner \in Tracker!Recorders
  BY <1>1, <1>3 DEF TrackerInv, TrackerTypes, PollsSawPending, Tracker!Actors
<1>5. PICK f : f = [s EXCEPT !.status = "failed"]
  OBVIOUS
<1>6. f.status = "failed" /\ f.owner = s.owner /\ f \in Tracker!Records
  BY <1>4, <1>5 DEF Tracker!Records
<1>7. (gives /\ rec' = f) \/ (~gives /\ rec' = rec)
  BY <1>1, <1>3, <1>5
<1>8. reads' \in 0..MaxReads
  <2>1. reads' = reads \/ (reads < MaxReads /\ reads' = reads + 1)
    BY DEF Tracker!NoReceipt
  <2> QED
    BY <2>1, TrackerConstants DEF TrackerInv, TrackerTypes
<1>9. rec' \in Tracker!Records /\ (rec'.status # "none" => rec'.owner \in Tracker!Recorders)
  BY <1>4, <1>6, <1>7 DEF TrackerInv, TrackerTypes
<1>10. TrueOfTx(rec)'
  <2>1. CASE gives /\ rec' = f
    BY <1>1, <1>2, <1>6, <2>1 DEF TrueOfTx, TrackerInv, TrackerTypes
  <2>2. CASE rec' = rec
    BY <1>1, <1>2, <2>2 DEF TrueOfTx, TrackerInv, TruthSeen
  <2> QED
    BY <1>7, <2>1, <2>2
<1>11. TrackerTypes'
  BY <1>1, <1>2, <1>8, <1>9, WritesFit DEF TrackerInv, TrackerTypes, Tracker!Actors
<1>12. TrackerFlags'
  BY <1>1, <1>2 DEF TrackerInv, TrackerFlags
<1> QED
  BY <1>1, <1>2, <1>10, <1>11, <1>12, WritesFit DEF TrackerInv, TruthSeen, Tracker!Actors

LEMMA TrackerWorldKeeps == ASSUME TrackerInv, Tracker!Tick \/ Tracker!Settle PROVE TrackerInv'
<1>1. UNCHANGED <<rec, run, recorded, misjudged, overwrote, reads>>
  BY DEF Tracker!Tick, Tracker!Settle
<1>2. tx' = tx \/ (tx = "sent" /\ tx' \in {"mined", "reverted", "dropped"})
  BY DEF Tracker!Tick, Tracker!Settle
<1>3. clock' \in 0..MaxClock
  BY TrackerConstants DEF Tracker!Tick, Tracker!Settle, TrackerInv, TrackerTypes
<1>4. TruthSeen'
  BY <1>1, <1>2 DEF TrackerInv, TruthSeen, TrueOfTx
<1> QED
  BY <1>1, <1>2, <1>3, <1>4 DEF TrackerInv, TrackerTypes, TrackerFlags, PollsSawPending

LEMMA TrackerStep == ASSUME TrackerInv, Tracker!Next \/ UNCHANGED trackerVars PROVE TrackerInv'
<1>1. CASE UNCHANGED trackerVars
  BY <1>1 DEF trackerVars, TrackerInv, TrackerTypes, TrackerFlags, TruthSeen, TrueOfTx, PollsSawPending
<1>2. CASE Tracker!Next
  BY <1>2, TrackerReadKeeps, TrackerWriteKeeps, TrackerPollKeeps, TrackerNoReceiptKeeps, TrackerWorldKeeps
  DEF Tracker!Next
<1> QED
  BY <1>1, <1>2

\* A final status is only replaced by an unread record's, or by a guess.
FinalGoesOn == Tracker!Final(rec) => rec'.status = rec.status \/ overwrote' \/ misjudged'

LEMMA FinalKept == ASSUME TrackerInv, Tracker!Next PROVE FinalGoesOn
<1> SUFFICES ASSUME Tracker!Final(rec), ~misjudged' PROVE rec'.status = rec.status \/ overwrote'
  BY DEF FinalGoesOn
<1>1. rec.status \in {"confirmed", "failed"}
  BY DEF Tracker!Final
<1>2. CASE rec' = rec
  BY <1>2
<1>3. ASSUME NEW a \in Tracker!Recorders, Tracker!WriteRecord(a) PROVE rec'.status = rec.status \/ overwrote'
  <2>1. PICK s : s = run[a].seen
    OBVIOUS
  <2>2. rec' = Tracker!Written(a, s) /\ ~misjudged
    BY <1>3, <2>1 DEF Tracker!WriteRecord
  <2>3. CASE ~Tracker!Final(s)
    BY <1>3, <2>1, <2>3, Zenon DEF Tracker!WriteRecord
  <2>4. CASE Tracker!Final(s)
    <3>1. TrueOfTx(s) /\ TrueOfTx(rec) /\ s.status \in {"confirmed", "failed"}
      BY <2>1, <2>4 DEF TrackerInv, TruthSeen, Tracker!Actors, Tracker!Final
    <3>2. s.status = rec.status
      BY <1>1, <2>2, <3>1 DEF TrueOfTx
    <3> QED
      BY <2>2, <2>4, <3>2 DEF Tracker!Written, Tracker!StatusAfter
  <2> QED
    BY <2>3, <2>4
<1>4. ASSUME NEW p \in Pollers, Tracker!Poll(p) PROVE rec'.status = rec.status
  <2>1. PICK s, v : s = run[p].seen /\ v = Tracker!Verdict
    OBVIOUS
  <2>2. s \in Tracker!Records /\ TrueOfTx(rec) /\ ~misjudged
    BY <1>4, <2>1 DEF Tracker!Poll, TrackerInv, TrackerTypes, TruthSeen, Tracker!Actors
  <2>3. rec' = [s EXCEPT !.status = v] /\ tx \in {"mined", "reverted"}
    BY <1>4, <2>1 DEF Tracker!Poll
  <2>4. rec'.status = v
    BY <2>2, <2>3 DEF Tracker!Records
  <2>5. rec.status = v
    BY <1>1, <2>1, <2>2, <2>3 DEF TrueOfTx, Tracker!Verdict
  <2> QED
    BY <2>4, <2>5
<1>5. ASSUME NEW p \in Pollers, Tracker!NoReceipt(p), rec' # rec PROVE rec'.status = rec.status
  <2>1. PICK s : s = run[p].seen
    OBVIOUS
  <2>2. Tracker!GivesUp(s) /\ rec' = [s EXCEPT !.status = "failed"]
    BY <1>5, <2>1 DEF Tracker!NoReceipt
  <2>3. ~misjudged /\ tx \notin {"sent", "mined"}
    BY <1>5, <2>1, <2>2, Zenon DEF Tracker!NoReceipt
  <2>4. s \in Tracker!Records /\ TrueOfTx(rec)
    BY <2>1 DEF TrackerInv, TrackerTypes, TruthSeen, Tracker!Actors
  <2>5. rec'.status = "failed"
    BY <2>2, <2>4 DEF Tracker!Records
  <2> QED
    BY <1>1, <2>3, <2>4, <2>5 DEF TrueOfTx
<1>6. \/ rec' = rec
      \/ \E a \in Tracker!Recorders : Tracker!WriteRecord(a)
      \/ \E p \in Pollers : Tracker!Poll(p) \/ Tracker!NoReceipt(p)
  BY DEF Tracker!Next, Tracker!StartRecord, Tracker!Refused, Tracker!StartPoll, Tracker!Tick, Tracker!Settle
<1> QED
  BY <1>2, <1>3, <1>4, <1>5, <1>6

LEMMA TrackerInvIsTrue == TrackerInv => Tracker!TypeOK /\ Tracker!StatusIsTrue
<1> SUFFICES ASSUME TrackerInv PROVE Tracker!TypeOK /\ Tracker!StatusIsTrue
  OBVIOUS
<1>1. {misjudged, overwrote} \subseteq BOOLEAN
  BY DEF TrackerInv, TrackerFlags
<1>2. Tracker!TypeOK
  BY <1>1 DEF TrackerInv, TrackerTypes, Tracker!TypeOK
<1>3. Tracker!StatusIsTrue
  BY DEF TrackerInv, TruthSeen, TrueOfTx, Tracker!StatusIsTrue
<1> QED
  BY <1>2, <1>3

---------------------------------------------------------------------------
(* The page of a round: whatever was read of the contract, however long    *)
(* ago, has its winner or none.                                            *)

ContractShape ==
    \/ contract = Page!Live
    \/ \E o \in Page!Outcomes : contract = [status |-> "resolved", winner |-> o]
    \/ contract = [status |-> "cancelled", winner |-> Page!Open]

\* What a read has seen so far.
SeenOfContract(m) == m \in Page!Markets /\ m.winner \in {Page!Open, contract.winner}

PollRun == [pc : {"idle", "contract", "read"}, saw : Page!Markets]

Sightings ==
    /\ SeenOfContract(listed) /\ SeenOfContract(page)
    /\ poll \in [Page!Polls -> PollRun] /\ \A p \in Page!Polls : SeenOfContract(poll[p].saw)

\* A frozen record, and evidence made of it, says what the contract says.
RecordFits ==
    /\ record \in [says : Page!Verdicts, frozen : BOOLEAN]
    /\ record.frozen => contract.status = "resolved" /\ record.says = contract.winner

EvidenceFits(e) ==
    /\ e \in Page!Evidences /\ e.final \in {Page!Open, contract.winner}
    /\ e.frozen => e.computed = e.final

PageInv ==
    /\ ContractShape /\ RecordFits /\ EvidenceFits(evidence) /\ Sightings
    /\ deciding \in Page!Verdicts /\ pageFaults \in 0..PageFaults

LEMMA PageConstants ==
    /\ PageFaults \in Nat /\ Page!Verdicts = {"YES", "NO", Page!Open} /\ Page!Open = "open"
    /\ Page!Outcomes = {"YES", "NO"}
BY ViewsAssumption DEF Page!RoundPageAssumption, Page!Verdicts, Page!Outcomes, Page!Open

\* What the contract may hold.
LEMMA ContractFits ==
    ASSUME ContractShape
    PROVE  /\ contract \in Page!Markets
           /\ contract.winner # Page!Open => contract.status = "resolved"
           /\ contract.status \in {"live", "resolved", "cancelled"}
           /\ contract = Page!Live => contract.winner = Page!Open
BY PageConstants DEF ContractShape, Page!Markets, Page!Live

\* A read of several calls, begun with what is no older than the page.
LEMMA ReadBackFits ==
    ASSUME PageInv, NEW saw, SeenOfContract(saw), NEW m \in Page!ReadBack(saw)
    PROVE  SeenOfContract(m)
<1>1. contract \in Page!Markets
  BY ContractFits DEF PageInv
<1> QED
  BY <1>1 DEF Page!ReadBack, SeenOfContract, Page!Markets

LEMMA LiveFits == ASSUME PageInv PROVE SeenOfContract(Page!Live) /\ SeenOfContract(Page!Nothing)
BY PageConstants DEF SeenOfContract, Page!Markets, Page!Live, Page!Nothing

\* Evidence is fit when the record it is made of is frozen by the verdict or
\* not at all.
LEMMA EvidenceIsFit ==
    ASSUME PageInv, NEW m, SeenOfContract(m), NEW r \in [says : Page!Verdicts, frozen : BOOLEAN],
           r.frozen => r.says = contract.winner
    PROVE  EvidenceFits(Page!Evidence(m, r))
<1> PICK f : f = Page!FinalOf(m, r)
  OBVIOUS
<1> PICK st : st = (IF r.frozen THEN "resolved" ELSE m.status)
  OBVIOUS
<1> PICK e : e = [status |-> st, final |-> f, computed |-> r.says, frozen |-> r.frozen]
  OBVIOUS
<1>1. e = Page!Evidence(m, r)
  BY DEF Page!Evidence
<1>2. f \in {Page!Open, contract.winner} /\ (r.frozen => f = r.says)
  BY DEF Page!FinalOf, SeenOfContract
<1>3. st \in {"none", "live", "resolved", "cancelled"}
  BY DEF SeenOfContract, Page!Markets
<1>4. r.frozen \in BOOLEAN /\ r.says \in Page!Verdicts
  OBVIOUS
<1>5. f \in Page!Verdicts
  BY <1>2, ContractFits, PageConstants DEF PageInv, Page!Markets
<1>6. e \in Page!Evidences
  BY <1>3, <1>4, <1>5, Zenon DEF Page!Evidences
<1>7. e.final = f /\ e.computed = r.says /\ e.frozen = r.frozen
  OBVIOUS
<1>8. e.frozen => e.computed = e.final
  BY <1>2, <1>7, Zenon
<1> QED
  BY <1>1, <1>2, <1>6, <1>7, <1>8 DEF EvidenceFits

LEMMA PageInit == Page!Init => PageInv
<1> SUFFICES ASSUME Page!Init PROVE PageInv
  OBVIOUS
<1>1. /\ contract = Page!Live /\ record = [says |-> Page!Open, frozen |-> FALSE]
      /\ deciding = Page!Open /\ listed \in {Page!Nothing, Page!Live}
      /\ poll = [p \in Page!Polls |-> Page!Idle] /\ page = Page!Live
      /\ evidence = Page!NoEvidence /\ pageFaults = 0
  BY DEF Page!Init
<1>2. SeenOfContract(Page!Live) /\ SeenOfContract(Page!Nothing)
  BY <1>1, PageConstants DEF SeenOfContract, Page!Markets, Page!Live, Page!Nothing
<1>3. Page!Idle \in PollRun /\ SeenOfContract(Page!Idle.saw)
  BY <1>2 DEF Page!Idle, PollRun, SeenOfContract
<1>4. Sightings
  BY <1>1, <1>2, <1>3 DEF Sightings
<1>5. RecordFits
  BY <1>1, PageConstants DEF RecordFits
<1>6. EvidenceFits(evidence)
  BY <1>1, PageConstants DEF EvidenceFits, Page!NoEvidence, Page!Evidences
<1> QED
  BY <1>1, <1>4, <1>5, <1>6, PageConstants DEF PageInv, ContractShape

LEMMA PageFaultsFit ==
    ASSUME PageInv, pageFaults' = pageFaults \/ Page!Fault PROVE pageFaults' \in 0..PageFaults
BY PageConstants DEF PageInv, Page!Fault

\* While the contract stays as it is, so does what was read of it.
LEMMA SightingsStay ==
    ASSUME PageInv, contract' = contract
    PROVE  /\ ContractShape' /\ \A m : SeenOfContract(m) => SeenOfContract(m)'
           /\ \A e : EvidenceFits(e) => EvidenceFits(e)'
           /\ record' = record => RecordFits'
           /\ listed' = listed /\ page' = page /\ poll' = poll => Sightings'
BY DEF PageInv, ContractShape, SeenOfContract, EvidenceFits, RecordFits, Sightings

\* A verdict comes when nothing that was read has one.
LEMMA PageVerdictKeeps ==
    ASSUME PageInv, Page!Resolve \/ Page!AdminResolve \/ Page!Cancel PROVE PageInv'
<1>1. /\ contract = Page!Live /\ UNCHANGED <<record, deciding, listed, poll, page, evidence, pageFaults>>
      /\ \/ \E o \in Page!Outcomes : contract' = [status |-> "resolved", winner |-> o]
         \/ contract' = [status |-> "cancelled", winner |-> Page!Open]
  <2>1. ASSUME NEW o \in Page!Verdicts, o # Page!Open, Page!Resolves(o) PROVE <1>1!:
    <3>1. o \in Page!Outcomes
      BY <2>1, PageConstants
    <3> QED
      BY <2>1, <3>1 DEF Page!Resolves, Page!page
  <2>2. CASE Page!Cancel
    BY <2>2 DEF Page!Cancel, Page!page
  <2>3. deciding \in Page!Verdicts /\ \A o \in Page!Outcomes : o \in Page!Verdicts /\ o # Page!Open
    BY PageConstants DEF PageInv
  <2> QED
    BY <2>1, <2>2, <2>3 DEF Page!Resolve, Page!AdminResolve
<1>2. contract.winner = Page!Open /\ contract.status # "resolved"
  BY <1>1, PageConstants DEF Page!Live
<1>3. \A m : SeenOfContract(m) => SeenOfContract(m)'
  BY <1>2 DEF SeenOfContract
<1>4. Sightings'
  BY <1>1, <1>3 DEF PageInv, Sightings
<1>5. RecordFits'
  BY <1>1, <1>2 DEF PageInv, RecordFits
<1>6. EvidenceFits(evidence)'
  BY <1>1, <1>2 DEF PageInv, EvidenceFits
<1> QED
  BY <1>1, <1>4, <1>5, <1>6 DEF PageInv, ContractShape

\* The record changes until it is frozen, with what was confirmed.
LEMMA PageRecordKeeps ==
    ASSUME PageInv, (\E o \in Page!Outcomes : Page!Sample(o)) \/ Page!Decide \/ Page!Freeze \/ Page!Abandon
    PROVE  PageInv'
<1>1. UNCHANGED <<contract, listed, poll, page, evidence>>
  BY DEF Page!Sample, Page!Decide, Page!Freeze, Page!Abandon, Page!page
<1>2. pageFaults' \in 0..PageFaults
  BY PageFaultsFit DEF Page!Sample, Page!Decide, Page!Freeze, Page!Abandon
<1>3. record.says \in Page!Verdicts /\ deciding \in Page!Verdicts /\ Page!Outcomes \subseteq Page!Verdicts
      /\ Page!Open \in Page!Verdicts
  BY PageConstants DEF PageInv, RecordFits
<1>4. deciding' \in Page!Verdicts
  BY <1>3 DEF Page!Sample, Page!Decide, Page!Freeze, Page!Abandon
<1>5. RecordFits'
  <2>1. CASE record' = record
    BY <1>1, <2>1, SightingsStay
  <2>2. ASSUME NEW o \in Page!Outcomes, Page!Sample(o) PROVE RecordFits'
    <3>1. record' = [record EXCEPT !.says = o] /\ ~record.frozen /\ record \in [says : Page!Verdicts, frozen : BOOLEAN]
      BY <2>2 DEF Page!Sample, PageInv, RecordFits
    <3>2. record' \in [says : Page!Verdicts, frozen : BOOLEAN] /\ record'.frozen = record.frozen
      BY <1>3, <3>1
    <3> QED
      BY <3>1, <3>2, Zenon DEF RecordFits
  <2>3. ASSUME Page!Freeze, record' # record PROVE RecordFits'
    <3>1. record' = [says |-> deciding, frozen |-> TRUE] /\ contract.status = "resolved" /\ contract.winner = deciding
      BY <2>3 DEF Page!Freeze, Page!Confirmed, Page!Evidenced
    <3> QED
      BY <1>1, <1>3, <3>1 DEF RecordFits
  <2> QED
    BY <2>1, <2>2, <2>3 DEF Page!Decide, Page!Abandon
<1> QED
  BY <1>1, <1>2, <1>4, <1>5, SightingsStay DEF PageInv

\* What the API and the page read.
LEMMA PageReadKeeps ==
    ASSUME PageInv,
           \/ Page!Refresh \/ Page!Overtaken \/ Page!Reload
           \/ \E p \in Page!Polls : Page!Step(p) \/ Page!PollFails(p)
    PROVE  PageInv'
<1>1. UNCHANGED <<contract, record, deciding>>
  BY DEF Page!Refresh, Page!Overtaken, Page!Reload, Page!Step, Page!Begin, Page!ReadContract,
         Page!ReadEvidence, Page!PollFails, Page!chain
<1>2. pageFaults' \in 0..PageFaults
  BY PageFaultsFit
  DEF Page!Refresh, Page!Overtaken, Page!Reload, Page!Step, Page!Begin, Page!ReadContract,
      Page!ReadEvidence, Page!PollFails
<1>3. /\ SeenOfContract(listed) /\ SeenOfContract(page) /\ SeenOfContract(Page!Live) /\ SeenOfContract(Page!Nothing)
      /\ \A p \in Page!Polls : SeenOfContract(poll[p].saw)
      /\ SeenOfContract(contract)
  BY LiveFits, ContractFits DEF PageInv, Sightings, SeenOfContract
<1>4. poll \in [Page!Polls -> PollRun] /\ "chart" \in Page!Polls /\ Page!Idle \in PollRun /\ SeenOfContract(Page!Idle.saw)
  BY <1>3 DEF PageInv, Sightings, Page!Polls, Page!Idle, PollRun, SeenOfContract
<1>5. SeenOfContract(listed') /\ SeenOfContract(page')
  <2>1. ASSUME NEW p \in Page!Polls, Page!ReadContract(p) PROVE <1>5
    BY <1>3, <2>1, ReadBackFits DEF Page!ReadContract
  <2>2. CASE Page!Refresh
    BY <1>3, <2>2, ReadBackFits DEF Page!Refresh, Page!page
  <2>3. CASE Page!Overtaken \/ Page!Reload
    BY <1>3, <2>3, ReadBackFits DEF Page!Overtaken, Page!Reload
  <2>4. CASE UNCHANGED <<listed, page>>
    BY <1>3, <2>4
  <2> QED
    BY <2>1, <2>2, <2>3, <2>4 DEF Page!Step, Page!Begin, Page!ReadEvidence, Page!PollFails, Page!page
<1>6. /\ poll' \in [Page!Polls -> PollRun]
      /\ \A p \in Page!Polls : SeenOfContract(poll'[p].saw)
  <2>1. ASSUME NEW p \in Page!Polls, NEW w \in PollRun, SeenOfContract(w.saw), poll' = [poll EXCEPT ![p] = w]
        PROVE  <1>6
    BY <1>3, <1>4, <2>1
  <2>2. ASSUME NEW p \in Page!Polls, NEW l \in {"contract", "read"}, NEW m, SeenOfContract(m),
               poll' = [poll EXCEPT ![p] = [pc |-> l, saw |-> m]]
        PROVE  <1>6
    <3>1. PICK w : w = [pc |-> l, saw |-> m]
      OBVIOUS
    <3>2. w \in PollRun /\ w.saw = m
      BY <2>2, <3>1 DEF PollRun, SeenOfContract
    <3> QED
      BY <2>1, <2>2, <3>1, <3>2
  <2>3. ASSUME NEW p \in Page!Polls, Page!Begin(p) PROVE <1>6
    <3>1. CASE Page!Looked(p)
      BY <1>3, <2>2, <2>3, <3>1 DEF Page!Begin
    <3>2. CASE ~Page!Looked(p)
      BY <1>3, <2>2, <2>3, <3>2 DEF Page!Begin
    <3> QED
      BY <3>1, <3>2
  <2>4. ASSUME NEW p \in Page!Polls, Page!ReadContract(p) PROVE <1>6
    <3>1. PICK m \in Page!ReadBack(poll[p].saw) :
             IF p = "chart" THEN poll' = [poll EXCEPT ![p] = [pc |-> "read", saw |-> m]]
                            ELSE poll' = [poll EXCEPT ![p] = Page!Idle]
      BY <2>4 DEF Page!ReadContract
    <3>2. SeenOfContract(m)
      BY <1>3, ReadBackFits
    <3> QED
      BY <1>4, <2>1, <2>2, <3>1, <3>2
  <2>5. CASE Page!ReadEvidence
    BY <1>4, <2>1, <2>5 DEF Page!ReadEvidence
  <2>6. ASSUME NEW p \in Page!Polls, Page!PollFails(p) PROVE <1>6
    BY <1>4, <2>1, <2>6 DEF Page!PollFails
  <2>7. CASE Page!Reload
    BY <1>4, <2>7 DEF Page!Reload
  <2>8. CASE UNCHANGED poll
    BY <1>3, <1>4, <2>8
  <2> QED
    BY <2>3, <2>4, <2>5, <2>6, <2>7, <2>8 DEF Page!Refresh, Page!Overtaken, Page!Step
<1>7. EvidenceFits(evidence')
  <2>1. CASE evidence' = evidence
    BY <2>1 DEF PageInv
  <2>2. CASE evidence' = Page!NoEvidence
    BY <2>2, PageConstants DEF EvidenceFits, Page!NoEvidence, Page!Evidences
  <2>3. CASE Page!ReadEvidence
    <3>1. evidence' = Page!Evidence(poll["chart"].saw, record)
      BY <2>3 DEF Page!ReadEvidence
    <3> QED
      BY <1>3, <1>4, <3>1, EvidenceIsFit DEF PageInv, RecordFits
  <2>4. ASSUME NEW m \in Page!ReadBack(Page!Live), NEW o \in Page!Verdicts,
               evidence' = Page!Evidence(m, [says |-> o, frozen |-> FALSE])
        PROVE  EvidenceFits(evidence')
    <3>1. PICK r : r = [says |-> o, frozen |-> FALSE]
      OBVIOUS
    <3>2. r \in [says : Page!Verdicts, frozen : BOOLEAN] /\ ~r.frozen
      BY <3>1
    <3>3. SeenOfContract(m)
      BY <1>3, ReadBackFits
    <3> QED
      BY <2>4, <3>1, <3>2, <3>3, EvidenceIsFit
  <2> QED
    BY <2>1, <2>2, <2>3, <2>4
    DEF Page!Refresh, Page!Overtaken, Page!Reload, Page!Step, Page!Begin, Page!ReadContract, Page!PollFails, Page!page
<1>8. Sightings' /\ EvidenceFits(evidence)'
  BY <1>1, <1>5, <1>6, <1>7 DEF Sightings, SeenOfContract, EvidenceFits
<1> QED
  BY <1>1, <1>2, <1>8, SightingsStay DEF PageInv

LEMMA PageStep == ASSUME PageInv, Page!Next \/ UNCHANGED pageVars PROVE PageInv'
<1>1. CASE UNCHANGED pageVars
  BY <1>1, SightingsStay DEF pageVars, PageInv
<1>2. CASE Page!Next
  BY <1>2, PageVerdictKeeps, PageRecordKeeps, PageReadKeeps DEF Page!Next, Page!Round
<1> QED
  BY <1>1, <1>2

\* The badge is the evidence's outcome or the contract's, and both are the
\* verdict; frozen evidence computes what it shows.
LEMMA PageInvIsTrue == PageInv => Page!TypeOK /\ Page!BadgeIsTheVerdict /\ Page!FrozenEvidenceAgrees
<1> SUFFICES ASSUME PageInv PROVE Page!TypeOK /\ Page!BadgeIsTheVerdict /\ Page!FrozenEvidenceAgrees
  OBVIOUS
<1>1. /\ page.winner \in {Page!Open, contract.winner} /\ evidence.final \in {Page!Open, contract.winner}
      /\ evidence.frozen => evidence.computed = evidence.final
  BY DEF PageInv, Sightings, SeenOfContract, EvidenceFits
<1>2. Page!TypeOK
  BY ContractFits DEF PageInv, Sightings, SeenOfContract, PollRun, RecordFits, EvidenceFits, Page!TypeOK
<1>3. Page!BadgeIsTheVerdict
  BY <1>1 DEF Page!BadgeIsTheVerdict, Page!Badge, Page!FinalOutcome
<1>4. Page!FrozenEvidenceAgrees
  BY <1>1, Zenon DEF Page!FrozenEvidenceAgrees, Page!Warns, Page!FinalOutcome
<1> QED
  BY <1>2, <1>3, <1>4

---------------------------------------------------------------------------
(* The list of rounds: rounds are numbered as they come, and every list    *)
(* and set names rounds that there are.                                    *)

\* n rounds, and what may be said of them.
Numbered(n) == chain \in [1..n -> {"open", "ended", "resolved"}]

OfRounds(R) ==
    /\ {hidden, left} \subseteq SUBSET R /\ pinned \in [on : BOOLEAN, set : SUBSET R]
    /\ file \in [hidden : SUBSET R, pinned : [on : BOOLEAN, set : SUBSET R]]
    /\ DOMAIN cache \subseteq R /\ DOMAIN load.seen \subseteq R
    /\ making \in [Board!Makers -> {0} \cup R] /\ reset \in [on : BOOLEAN, made : SUBSET R]

BoardInv == (\E n \in Nat : Numbered(n) /\ OfRounds(1..n)) /\ boardFaults \in 0..LoadFaults

LEMMA BoardConstants == LoadFaults \in Nat /\ MaxRounds \in Nat /\ Limit \in Nat \ {0}
BY ViewsAssumption DEF Board!MarketBoardAssumption

LEMMA RoundsAre ==
    ASSUME NEW n \in Nat, Numbered(n)
    PROVE  Board!Rounds = 1..n /\ Board!Cardinality(Board!Rounds) = n /\ DOMAIN chain = 1..n
<1>1. DOMAIN chain = 1..n
  BY DEF Numbered
<1>2. Cardinality(1..n) = n
  BY FS_Interval
<1>3. Board!Cardinality(1..n) = Cardinality(1..n)
  BY DEF Board!Cardinality, Cardinality
<1> QED
  BY <1>1, <1>2, <1>3 DEF Board!Rounds

LEMMA KnownAreRounds == Board!Known \subseteq Board!Rounds
BY DEF Board!Known

\* More rounds do not disturb what is said of those there were.
LEMMA MoreRounds == ASSUME NEW n \in Nat, OfRounds(1..n) PROVE OfRounds(1..n + 1)
<1>1. 1..n \subseteq 1..n + 1
  OBVIOUS
<1> QED
  BY <1>1 DEF OfRounds

LEMMA BoardInit == Board!Init => BoardInv
<1> SUFFICES ASSUME Board!Init PROVE BoardInv
  OBVIOUS
<1>1. /\ chain = Board!Nothing /\ hidden = {} /\ pinned = Board!NoPins
      /\ file = [hidden |-> {}, pinned |-> Board!NoPins]
      /\ cache = Board!Nothing /\ load = Board!NoLoad
      /\ making = [m \in Board!Makers |-> 0] /\ reset = [on |-> FALSE, made |-> {}]
      /\ left = {} /\ boardFaults = 0
  BY DEF Board!Init
<1>2. DOMAIN Board!Nothing = {} /\ Numbered(0)
  BY <1>1 DEF Board!Nothing, Numbered
<1>3. Board!NoPins \in [on : BOOLEAN, set : SUBSET (1..0)]
  BY DEF Board!NoPins
<1>4. OfRounds(1..0)
  BY <1>1, <1>2, <1>3 DEF OfRounds, Board!NoLoad
<1> QED
  BY <1>1, <1>2, <1>4, BoardConstants DEF BoardInv

LEMMA BoardFaultsFit ==
    ASSUME BoardInv, boardFaults' = boardFaults \/ Board!Faults PROVE boardFaults' \in 0..LoadFaults
BY BoardConstants DEF BoardInv, Board!Faults

LEMMA BoardDeployKeeps ==
    ASSUME BoardInv, NEW m \in Board!Makers, Board!Deploy(m) PROVE BoardInv'
<1>1. PICK n \in Nat : Numbered(n) /\ OfRounds(1..n)
  BY DEF BoardInv
<1>2. Board!Rounds = 1..n /\ Board!Cardinality(Board!Rounds) = n /\ DOMAIN chain = 1..n
  BY <1>1, RoundsAre
<1>3. /\ chain' = Board!Patched(chain, n + 1, "open") /\ making' = [making EXCEPT ![m] = n + 1]
      /\ \E S \in SUBSET (1..n) : left' = left \cup S
      /\ UNCHANGED <<hidden, pinned, file, cache, load, reset, boardFaults>>
  BY <1>2 DEF Board!Deploy, Board!Leaves
<1>4. DOMAIN chain \cup {n + 1} = 1..n + 1
  BY <1>2
<1>5. Numbered(n + 1)'
  BY <1>1, <1>2, <1>3, <1>4 DEF Numbered, Board!Patched
<1>6. OfRounds(1..n + 1)
  BY <1>1, MoreRounds
<1>7. making' \in [Board!Makers -> {0} \cup 1..n + 1]
  BY <1>3, <1>6 DEF OfRounds
<1>8. OfRounds(1..n + 1)'
  <2>1. left' \subseteq 1..n + 1
    <3>1. left \subseteq 1..n + 1 /\ 1..n \subseteq 1..n + 1
      BY <1>6 DEF OfRounds
    <3>2. PICK S \in SUBSET (1..n) : left' = left \cup S
      BY <1>3
    <3> QED
      BY <3>1, <3>2
  <2> QED
    BY <1>3, <1>6, <1>7, <2>1 DEF OfRounds
<1> QED
  BY <1>3, <1>5, <1>8 DEF BoardInv

\* What happens among the rounds there are.
LEMMA BoardSameRounds ==
    ASSUME BoardInv, NEW n \in Nat, Numbered(n)', OfRounds(1..n)', boardFaults' = boardFaults \/ Board!Faults
    PROVE  BoardInv'
BY BoardFaultsFit DEF BoardInv

LEMMA BoardExposeKeeps ==
    ASSUME BoardInv, NEW m \in Board!Makers, Board!Expose(m) PROVE BoardInv'
<1>1. PICK n \in Nat : Numbered(n) /\ OfRounds(1..n)
  BY DEF BoardInv
<1>2. PICK r : r = making[m]
  OBVIOUS
<1>3. r \in 1..n /\ 1..n \in SUBSET (1..n)
  BY <1>1, <1>2 DEF Board!Expose, OfRounds
<1>4. /\ making' = [making EXCEPT ![m] = 0] /\ hidden' = hidden \ {r}
      /\ pinned' = IF pinned.on THEN [pinned EXCEPT !.set = @ \cup {r}] ELSE pinned
      /\ file' = [hidden |-> hidden', pinned |-> pinned'] /\ cache' = Board!Patched(cache, r, chain[r])
      /\ reset' = IF m = "reset" THEN [reset EXCEPT !.made = @ \cup {r}] ELSE reset
      /\ UNCHANGED <<chain, load, left, boardFaults>>
  BY <1>2 DEF Board!Expose, Board!Save
<1>5. pinned' \in [on : BOOLEAN, set : SUBSET (1..n)]
  BY <1>1, <1>3, <1>4 DEF OfRounds
<1>6. reset' \in [on : BOOLEAN, made : SUBSET (1..n)]
  BY <1>1, <1>3, <1>4 DEF OfRounds
<1>7. DOMAIN cache' \subseteq 1..n
  BY <1>1, <1>3, <1>4 DEF OfRounds, Board!Patched
<1>8. OfRounds(1..n)'
  BY <1>1, <1>4, <1>5, <1>6, <1>7 DEF OfRounds
<1>9. Numbered(n)'
  BY <1>1, <1>4 DEF Numbered
<1> QED
  BY <1>4, <1>8, <1>9, BoardSameRounds

LEMMA BoardRoundKeeps ==
    ASSUME BoardInv, NEW r \in Board!Rounds, Board!End(r) \/ Board!Resolve(r) \/ Board!Hide(r)
    PROVE  BoardInv'
<1>1. PICK n \in Nat : Numbered(n) /\ OfRounds(1..n)
  BY DEF BoardInv
<1>2. r \in 1..n
  BY <1>1, RoundsAre
<1>3. Numbered(n)'
  BY <1>1, <1>2 DEF Numbered, Board!End, Board!Resolve, Board!Hide
<1>4. CASE Board!End(r)
  BY <1>1, <1>3, <1>4, BoardSameRounds DEF Board!End, OfRounds
<1>5. CASE Board!Resolve(r)
  <2>1. DOMAIN cache' \subseteq 1..n
    BY <1>1, <1>2, <1>5 DEF Board!Resolve, OfRounds, Board!Patched
  <2>2. OfRounds(1..n)'
    BY <1>1, <1>5, <2>1 DEF Board!Resolve, OfRounds
  <2> QED
    BY <1>3, <1>5, <2>2, BoardSameRounds DEF Board!Resolve
<1>6. CASE Board!Hide(r)
  <2>1. /\ hidden' = hidden \cup {r} /\ pinned' = [pinned EXCEPT !.set = @ \ {r}]
        /\ file' = [hidden |-> hidden', pinned |-> pinned']
        /\ left' = left \cup {q \in {r} : pinned.on}
        /\ UNCHANGED <<chain, cache, load, making, reset, boardFaults>>
    BY <1>6 DEF Board!Hide, Board!Save
  <2>2. pinned' \in [on : BOOLEAN, set : SUBSET (1..n)]
    BY <1>1, <2>1 DEF OfRounds
  <2>3. hidden' \subseteq 1..n /\ left' \subseteq 1..n
    BY <1>1, <1>2, <2>1 DEF OfRounds
  <2>4. OfRounds(1..n)'
    BY <1>1, <2>1, <2>2, <2>3 DEF OfRounds
  <2> QED
    BY <1>3, <2>1, <2>4, BoardSameRounds
<1> QED
  BY <1>4, <1>5, <1>6

LEMMA BoardResetKeeps == ASSUME BoardInv, Board!StartReset \/ Board!EndReset PROVE BoardInv'
<1>1. PICK n \in Nat : Numbered(n) /\ OfRounds(1..n)
  BY DEF BoardInv
<1>2. Board!Rounds = 1..n /\ Board!Known \subseteq 1..n
  BY <1>1, RoundsAre, KnownAreRounds
<1>3. Numbered(n)'
  BY <1>1 DEF Numbered, Board!StartReset, Board!EndReset
<1>4. CASE Board!StartReset
  <2>1. OfRounds(1..n)'
    BY <1>1, <1>2, <1>4 DEF Board!StartReset, OfRounds
  <2> QED
    BY <1>3, <1>4, <2>1, BoardSameRounds DEF Board!StartReset
<1>5. CASE Board!EndReset
  <2>1. /\ reset' = [on |-> FALSE, made |-> {}] /\ pinned' = [on |-> TRUE, set |-> reset.made]
        /\ hidden' = hidden \ reset.made /\ file' = [hidden |-> hidden', pinned |-> pinned']
        /\ left' = left \cup (1..n \ reset.made)
        /\ UNCHANGED <<chain, cache, load, making, boardFaults>>
    BY <1>2, <1>5 DEF Board!EndReset, Board!Save
  <2>2. reset.made \subseteq 1..n
    BY <1>1 DEF OfRounds
  <2>3. OfRounds(1..n)'
    BY <1>1, <2>1, <2>2 DEF OfRounds
  <2> QED
    BY <1>3, <2>1, <2>3, BoardSameRounds
<1> QED
  BY <1>4, <1>5

LEMMA BoardLoadKeeps ==
    ASSUME BoardInv, Board!StartLoad \/ Board!EndLoad \/ Board!LoadFails \/ Board!Restart PROVE BoardInv'
<1>1. PICK n \in Nat : Numbered(n) /\ OfRounds(1..n)
  BY DEF BoardInv
<1>2. Board!Rounds = 1..n /\ Board!Known \subseteq 1..n
  BY <1>1, RoundsAre, KnownAreRounds
<1>3. Numbered(n)'
  BY <1>1 DEF Numbered, Board!StartLoad, Board!EndLoad, Board!LoadFails, Board!Restart
<1>4. Board!NoLoad.seen = Board!Nothing /\ DOMAIN Board!Nothing = {}
  BY DEF Board!NoLoad, Board!Nothing
<1>5. CASE Board!StartLoad
  <2>1. DOMAIN load'.seen = Board!Known
    BY <1>5 DEF Board!StartLoad
  <2>2. OfRounds(1..n)'
    BY <1>1, <1>2, <1>5, <2>1 DEF Board!StartLoad, OfRounds
  <2> QED
    BY <1>3, <1>5, <2>2, BoardSameRounds DEF Board!StartLoad
<1>6. CASE Board!EndLoad
  <2>1. OfRounds(1..n)'
    BY <1>1, <1>4, <1>6 DEF Board!EndLoad, OfRounds
  <2> QED
    BY <1>3, <1>6, <2>1, BoardSameRounds DEF Board!EndLoad
<1>7. CASE Board!LoadFails
  <2>1. OfRounds(1..n)'
    BY <1>1, <1>4, <1>7 DEF Board!LoadFails, OfRounds
  <2> QED
    BY <1>3, <1>7, <2>1, BoardSameRounds DEF Board!LoadFails
<1>8. CASE Board!Restart
  <2>1. /\ hidden' = file.hidden /\ pinned' = file.pinned
        /\ cache' = Board!Nothing /\ load' = Board!NoLoad /\ making' = [m \in Board!Makers |-> 0]
        /\ reset' = [on |-> FALSE, made |-> {}]
        /\ \E S \in SUBSET (1..n) : left' = left \cup S
        /\ UNCHANGED <<chain, file>>
    BY <1>2, <1>8 DEF Board!Restart
  <2>2. OfRounds(1..n)'
    BY <1>1, <1>4, <2>1 DEF OfRounds
  <2> QED
    BY <1>3, <1>8, <2>2, BoardSameRounds DEF Board!Restart
<1> QED
  BY <1>5, <1>6, <1>7, <1>8

LEMMA BoardStep == ASSUME BoardInv, Board!Next \/ UNCHANGED boardVars PROVE BoardInv'
<1>1. CASE UNCHANGED boardVars
  BY <1>1 DEF boardVars, BoardInv, Numbered, OfRounds
<1>2. CASE Board!Next
  BY <1>2, BoardDeployKeeps, BoardExposeKeeps, BoardRoundKeeps, BoardResetKeeps, BoardLoadKeeps DEF Board!Next
<1> QED
  BY <1>1, <1>2

LEMMA BoardInvIsTyped == BoardInv => Board!TypeOK
<1> SUFFICES ASSUME BoardInv PROVE Board!TypeOK
  OBVIOUS
<1>1. PICK n \in Nat : Numbered(n) /\ OfRounds(1..n)
  BY DEF BoardInv
<1> QED
  BY <1>1, RoundsAre DEF Board!TypeOK, BoardInv, Numbered, OfRounds

---------------------------------------------------------------------------
(* The portfolio, as the settlement of tickets is shown in it: what its    *)
(* scans and reads keep track of are tickets that were bought.             *)

RequestRun == [pc : {"idle", "logs", "refresh"}, map : Readers \cup {"none"}, upTo : 0..head,
               todo : SUBSET (1..head), snap : Tickets!Snaps]

TicketWorld ==
    /\ head \in 0..Blocks /\ market \in Tickets!Snaps
    /\ bought \in [Tickets!Tickets -> {"none", "OPEN", "SETTLED", "CANCELLED"}]
    /\ \A t \in Tickets!Tickets : t <= head => bought[t] # "none"
    /\ missed \subseteq Tickets!Tickets /\ readFaults \in 0..ReadFaults
    /\ entry \in [map : Readers \cup {"none"}, upTo : 0..head]

TicketFlags == active \in BOOLEAN

\* Only tickets that were bought are in a map.
BoughtAreShown ==
    /\ maps \in [Readers -> [Tickets!Tickets -> Tickets!Shown]]
    /\ \A r \in Readers, t \in Tickets!Tickets : maps[r][t].status # "absent" => t <= head

\* A request that is under way has a map to read into.
RequestFits(r) ==
    r \in RequestRun /\ IF r.pc = "idle" THEN r.todo = {} ELSE r.map \in Readers

RequestsFit ==
    /\ request = [r \in Readers |-> request[r]]
    /\ \A r \in Readers : RequestFits(request[r])

TicketInv == TicketWorld /\ TicketFlags /\ BoughtAreShown /\ RequestsFit

LEMMA TicketConstants ==
    /\ Blocks \in Nat /\ Recent \in Nat /\ ReadFaults \in Nat /\ Winners \subseteq {"YES", "NO"}
    /\ "none" \notin Readers /\ Tickets!Tickets = 1..Blocks
BY ViewsAssumption DEF Tickets!PortfolioAssumption, Tickets!Tickets

LEMMA IdleFits == ASSUME head \in Nat PROVE RequestFits(Tickets!Idle)
BY DEF Tickets!Idle, RequestFits, RequestRun, Tickets!Snaps, Tickets!NoSnap

LEMMA NoEntryFits == ASSUME head \in Nat PROVE Tickets!NoEntry \in [map : Readers \cup {"none"}, upTo : 0..head]
BY DEF Tickets!NoEntry

LEMMA TicketInit == Tickets!Init => TicketInv
<1> SUFFICES ASSUME Tickets!Init PROVE TicketInv
  OBVIOUS
<1> USE TicketConstants
<1>1. /\ head = 0 /\ market = [status |-> Tickets!Active, winner |-> "none"]
      /\ bought = [t \in Tickets!Tickets |-> "none"] /\ active = FALSE /\ entry = Tickets!NoEntry
      /\ request = [r \in Readers |-> Tickets!Idle] /\ missed = {} /\ readFaults = 0
  BY DEF Tickets!Init
<1>2. TicketWorld /\ TicketFlags
  <2>1. market \in Tickets!Snaps
    BY <1>1 DEF Tickets!Snaps
  <2>2. entry \in [map : Readers \cup {"none"}, upTo : 0..head]
    BY <1>1, NoEntryFits
  <2>3. bought \in [Tickets!Tickets -> {"none", "OPEN", "SETTLED", "CANCELLED"}]
    BY <1>1
  <2>4. \A t \in Tickets!Tickets : ~(t <= head)
    BY <1>1
  <2>5. TicketWorld
    BY <1>1, <2>1, <2>2, <2>3, <2>4 DEF TicketWorld
  <2> QED
    BY <1>1, <2>5 DEF TicketFlags
<1>3. BoughtAreShown
  <2>1. PICK none : none = [t \in Tickets!Tickets |-> Tickets!Absent]
    OBVIOUS
  <2>2. none \in [Tickets!Tickets -> Tickets!Shown] /\ \A t \in Tickets!Tickets : none[t].status = "absent"
    BY <2>1 DEF Tickets!Absent, Tickets!Shown
  <2>3. maps = [r \in Readers |-> none]
    BY <2>1 DEF Tickets!Init
  <2> QED
    BY <2>2, <2>3 DEF BoughtAreShown
<1>4. RequestsFit
  BY <1>1, IdleFits DEF RequestsFit
<1> QED
  BY <1>2, <1>3, <1>4 DEF TicketInv

LEMMA TicketFaultsFit ==
    ASSUME TicketInv, readFaults' = readFaults \/ Tickets!Fails PROVE readFaults' \in 0..ReadFaults
BY TicketConstants DEF TicketInv, TicketWorld, Tickets!Fails

\* A request goes on as q; the others stay.
LEMMA RequestGoesOn ==
    ASSUME TicketInv, head' = head, NEW r \in Readers, NEW q, RequestFits(q), request' = [request EXCEPT ![r] = q]
    PROVE  RequestsFit'
BY DEF TicketInv, RequestsFit, RequestFits, RequestRun

\* The chain goes on, and the list is read again.
LEMMA TicketChainKeeps ==
    ASSUME TicketInv,
           Tickets!Buy \/ Tickets!Finish \/ Tickets!RefreshList
           \/ \E t \in Tickets!Tickets : Tickets!SettleTicket(t)
    PROVE  TicketInv'
<1> USE TicketConstants DEF Tickets!Buy, Tickets!Finish, Tickets!RefreshList, Tickets!SettleTicket
<1>1. UNCHANGED <<entry, maps, request, missed, readFaults>>
  OBVIOUS
<1>2. TicketFlags'
  <2>1. active' = active \/ active' = (market.status = Tickets!Active)
    OBVIOUS
  <2> QED
    BY <2>1 DEF TicketInv, TicketFlags
<1>3. head' \in 0..Blocks /\ head <= head' /\ head \in Nat
  BY DEF TicketInv, TicketWorld
<1>4. market' \in Tickets!Snaps
  BY DEF TicketInv, TicketWorld, Tickets!Snaps
<1>5. /\ bought' \in [Tickets!Tickets -> {"none", "OPEN", "SETTLED", "CANCELLED"}]
      /\ \A t \in Tickets!Tickets : t <= head' => bought'[t] # "none"
  <2>1. CASE bought' = bought /\ head' = head
    BY <2>1 DEF TicketInv, TicketWorld
  <2>2. CASE Tickets!Buy
    <3>1. head' = head + 1 /\ bought' = [bought EXCEPT ![head + 1] = "OPEN"]
      BY <2>2
    <3>2. \A t \in Tickets!Tickets : t <= head + 1 => t <= head \/ t = head + 1
      BY <1>3
    <3> QED
      BY <3>1, <3>2 DEF TicketInv, TicketWorld
  <2>3. ASSUME NEW t \in Tickets!Tickets, Tickets!SettleTicket(t) PROVE <1>5
    <3>1. PICK v \in {"SETTLED", "CANCELLED"} : bought' = [bought EXCEPT ![t] = v] /\ head' = head
      BY <2>3
    <3> QED
      BY <3>1 DEF TicketInv, TicketWorld
  <2> QED
    BY <2>1, <2>2, <2>3
<1>6. 0..head \subseteq 0..head' /\ 1..head \subseteq 1..head'
  BY <1>3
<1>7. TicketWorld'
  BY <1>1, <1>3, <1>4, <1>5, <1>6 DEF TicketInv, TicketWorld
<1>8. BoughtAreShown'
  BY <1>1, <1>3 DEF TicketInv, BoughtAreShown
<1>9. RequestsFit'
  <2>1. ASSUME NEW q, RequestFits(q) PROVE RequestFits(q)'
    BY <1>6, <2>1 DEF RequestFits, RequestRun
  <2> QED
    BY <1>1, <2>1 DEF TicketInv, RequestsFit
<1> QED
  BY <1>2, <1>7, <1>8, <1>9 DEF TicketInv

\* A scan begins at a block, after those it leaves out.
LEMMA ScanStarts ==
    ASSUME TicketInv
    PROVE  Tickets!ScanFrom \in Nat \ {0} /\ (entry.map = "none" => Tickets!ScanFrom - 1 <= Blocks)
<1> USE TicketConstants
<1>1. head \in 0..Blocks /\ entry.upTo \in Nat
  BY DEF TicketInv, TicketWorld
<1>2. CASE entry.map = "none"
  <2>1. PICK n \in Int : n = head - Recent + 1 /\ n <= Blocks + 1
    BY <1>1
  <2>2. PICK S : S = {1, n}
    OBVIOUS
  <2>3. \E x \in S : \A y \in S : x >= y
    BY <2>1, <2>2
  <2>4. Tickets!Max(S) \in S /\ \A y \in S : Tickets!Max(S) >= y
    BY <2>3 DEF Tickets!Max
  <2>5. Tickets!ScanFrom = Tickets!Max(S)
    BY <1>2, <2>1, <2>2 DEF Tickets!ScanFrom
  <2> QED
    BY <1>1, <1>2, <2>1, <2>2, <2>4, <2>5
<1>3. CASE entry.map # "none"
  BY <1>1, <1>3 DEF Tickets!ScanFrom
<1> QED
  BY <1>2, <1>3

LEMMA TicketBeginKeeps == ASSUME TicketInv, NEW r \in Readers, Tickets!Begin(r) PROVE TicketInv'
<1> USE TicketConstants
<1>1. PICK n \in Nat \ {0} : n = Tickets!ScanFrom /\ (entry.map = "none" => n - 1 <= Blocks)
  BY ScanStarts
<1>2. PICK dropped \in SUBSET (n..head) :
        /\ (IF dropped = {} THEN UNCHANGED readFaults ELSE Tickets!Fails)
        /\ missed' = missed \cup dropped \cup (IF entry.map = "none" THEN 1..n - 1 ELSE {})
        /\ request' = [request EXCEPT ![r] =
             [Tickets!Idle EXCEPT !.pc = "logs", !.upTo = head, !.todo = (n..head) \ dropped,
                                  !.map = IF entry.map = "none" THEN r ELSE entry.map]]
  BY <1>1 DEF Tickets!Begin
<1>3. UNCHANGED <<head, market, bought, active, entry, maps>>
  BY DEF Tickets!Begin
<1>4. head \in 0..Blocks /\ entry.map \in Readers \cup {"none"} /\ missed \subseteq 1..Blocks
  BY DEF TicketInv, TicketWorld
<1>5. missed' \subseteq Tickets!Tickets
  BY <1>1, <1>2, <1>4
<1>6. readFaults' \in 0..ReadFaults
  BY <1>2, TicketFaultsFit
<1>7. TicketWorld' /\ TicketFlags' /\ BoughtAreShown'
  BY <1>3, <1>5, <1>6 DEF TicketInv, TicketWorld, TicketFlags, BoughtAreShown
<1>8. PICK m : m = IF entry.map = "none" THEN r ELSE entry.map
  OBVIOUS
<1>9. PICK S : S = (n..head) \ dropped
  OBVIOUS
<1>10. PICK q : q = [Tickets!Idle EXCEPT !.pc = "logs", !.upTo = head, !.todo = S, !.map = m]
  OBVIOUS
<1>11. RequestFits(q)
  <2>1. S \subseteq 1..head /\ m \in Readers
    BY <1>1, <1>4, <1>8, <1>9
  <2>2. q = [pc |-> "logs", map |-> m, upTo |-> head, todo |-> S, snap |-> Tickets!NoSnap]
    BY <1>10 DEF Tickets!Idle
  <2>3. Tickets!NoSnap \in Tickets!Snaps /\ head \in 0..head
    BY <1>4 DEF Tickets!Snaps, Tickets!NoSnap
  <2> QED
    BY <2>1, <2>2, <2>3 DEF RequestFits, RequestRun
<1>12. request' = [request EXCEPT ![r] = q]
  BY <1>2, <1>8, <1>9, <1>10
<1>13. RequestsFit'
  BY <1>3, <1>11, <1>12, RequestGoesOn
<1> QED
  BY <1>7, <1>13 DEF TicketInv

\* A ticket that is read was bought, and has a result or none.
LEMMA TicketReadKeeps ==
    ASSUME TicketInv, NEW r \in Readers, NEW t \in Tickets!Tickets, Tickets!Read(r, t) PROVE TicketInv'
<1> USE TicketConstants
<1>1. PICK x : x = request[r] /\ RequestFits(x)
  BY DEF TicketInv, RequestsFit
<1>2. t \in x.todo /\ UNCHANGED <<head, market, bought, active, entry, missed, readFaults>>
  BY <1>1 DEF Tickets!Read, Tickets!Wanted
<1>3. x \in RequestRun /\ x.map \in Readers /\ t <= head /\ head \in Nat
  BY <1>1, <1>2 DEF RequestFits, RequestRun, TicketInv, TicketWorld
<1>4. PICK s : s = [status |-> bought[t], result |-> Tickets!Result(t, bought[t], Tickets!Snapshot(r))]
  OBVIOUS
<1>5. s \in Tickets!Shown
  <2>1. bought[t] \in {"OPEN", "SETTLED", "CANCELLED"}
    BY <1>3 DEF TicketInv, TicketWorld
  <2>2. Tickets!Result(t, bought[t], Tickets!Snapshot(r)) \in {"none", "WIN", "LOSS", "REFUND"}
    BY DEF Tickets!Result
  <2> QED
    BY <1>4, <2>1, <2>2 DEF Tickets!Shown
<1>6. maps' = [maps EXCEPT ![x.map][t] = s]
  BY <1>1, <1>4 DEF Tickets!Read
<1>7. BoughtAreShown'
  <2>1. /\ maps' \in [Readers -> [Tickets!Tickets -> Tickets!Shown]]
        /\ \A m \in Readers, u \in Tickets!Tickets : u = t \/ maps'[m][u] = maps[m][u]
    BY <1>3, <1>5, <1>6 DEF TicketInv, BoughtAreShown
  <2> QED
    BY <1>2, <1>3, <2>1 DEF TicketInv, BoughtAreShown
<1>8. PICK w : w = (IF x.pc = "refresh" THEN Tickets!Snapshot(r) ELSE x.snap)
  OBVIOUS
<1>9. w \in Tickets!Snaps
  BY <1>1, <1>3, <1>8 DEF Tickets!Snapshot, Tickets!Snaps, RequestRun, TicketInv, TicketWorld
<1>10. PICK q : q = [x EXCEPT !.todo = x.todo \ {t}, !.snap = w]
  OBVIOUS
<1>11. request' = [request EXCEPT ![r] = q]
  BY <1>1, <1>8, <1>10 DEF Tickets!Read, TicketInv, RequestsFit
<1>12. RequestFits(q)
  BY <1>1, <1>3, <1>9, <1>10 DEF RequestFits, RequestRun
<1>13. RequestsFit'
  BY <1>2, <1>11, <1>12, RequestGoesOn
<1> QED
  BY <1>2, <1>7, <1>13 DEF TicketInv, TicketWorld, TicketFlags

LEMMA TicketSkipKeeps ==
    ASSUME TicketInv, NEW r \in Readers, NEW t \in Tickets!Tickets, Tickets!Skip(r, t) PROVE TicketInv'
<1> USE TicketConstants
<1>1. PICK x : x = request[r] /\ RequestFits(x)
  BY DEF TicketInv, RequestsFit
<1>2. UNCHANGED <<head, market, bought, active, entry, maps>> /\ missed' \subseteq missed \cup {t}
      /\ readFaults' \in 0..ReadFaults
  BY TicketFaultsFit DEF Tickets!Skip
<1>3. PICK q : q = [x EXCEPT !.todo = x.todo \ {t}]
  OBVIOUS
<1>4. request' = [request EXCEPT ![r] = q]
  BY <1>1, <1>3 DEF Tickets!Skip, TicketInv, RequestsFit
<1>5. RequestFits(q)
  BY <1>1, <1>3 DEF RequestFits, RequestRun
<1>6. RequestsFit'
  BY <1>2, <1>4, <1>5, RequestGoesOn
<1> QED
  BY <1>2, <1>6 DEF TicketInv, TicketWorld, TicketFlags, BoughtAreShown

LEMMA TicketRefreshKeeps == ASSUME TicketInv, NEW r \in Readers, Tickets!Refresh(r) PROVE TicketInv'
<1> USE TicketConstants
<1>1. PICK x : x = request[r] /\ RequestFits(x)
  BY DEF TicketInv, RequestsFit
<1>2. x.pc = "logs" /\ UNCHANGED <<head, market, bought, active, entry, maps, missed, readFaults>>
  BY <1>1 DEF Tickets!Refresh
<1>3. PICK S : S = {t \in Tickets!Tickets : Tickets!NeedsRefresh(r, t)}
  OBVIOUS
<1>4. S \subseteq 1..head
  <2>1. ASSUME NEW t \in S PROVE t \in 1..head
    <3>1. x.map \in Readers /\ maps[x.map][t].status = "OPEN" /\ t \in Tickets!Tickets
      BY <1>1, <1>2, <1>3, <2>1 DEF RequestFits, Tickets!NeedsRefresh
    <3>2. t <= head
      BY <3>1 DEF TicketInv, BoughtAreShown
    <3> QED
      BY <3>1, <3>2 DEF TicketInv, TicketWorld
  <2> QED
    BY <2>1
<1>5. PICK q : q = [Tickets!Idle EXCEPT !.pc = "refresh", !.map = x.map, !.upTo = x.upTo, !.todo = S]
  OBVIOUS
<1>6. request' = [request EXCEPT ![r] = q]
  BY <1>1, <1>3, <1>5 DEF Tickets!Refresh
<1>7. RequestFits(q)
  BY <1>1, <1>2, <1>4, <1>5 DEF RequestFits, RequestRun, Tickets!Idle, Tickets!Snaps, Tickets!NoSnap
<1>8. RequestsFit'
  BY <1>2, <1>6, <1>7, RequestGoesOn
<1> QED
  BY <1>2, <1>8 DEF TicketInv, TicketWorld, TicketFlags, BoughtAreShown

LEMMA TicketStoreKeeps == ASSUME TicketInv, NEW r \in Readers, Tickets!Store(r) PROVE TicketInv'
<1> USE TicketConstants
<1>1. PICK x : x = request[r] /\ RequestFits(x)
  BY DEF TicketInv, RequestsFit
<1>2. /\ UNCHANGED <<head, market, bought, active, missed, readFaults>>
      /\ entry' = [map |-> x.map, upTo |-> x.upTo] /\ request' = [request EXCEPT ![r] = Tickets!Idle]
  BY <1>1 DEF Tickets!Store, Tickets!CursorAfter
<1>3. PICK none : none = [t \in Tickets!Tickets |-> Tickets!Absent]
  OBVIOUS
<1>4. none \in [Tickets!Tickets -> Tickets!Shown] /\ \A t \in Tickets!Tickets : none[t].status = "absent"
  BY <1>3 DEF Tickets!Absent, Tickets!Shown
<1>5. maps' = [m \in Readers |-> maps'[m]] /\ \A m \in Readers : maps'[m] = maps[m] \/ maps'[m] = none
  BY <1>3 DEF Tickets!Store
<1>6. BoughtAreShown'
  BY <1>2, <1>4, <1>5 DEF TicketInv, BoughtAreShown
<1>7. entry' \in [map : Readers \cup {"none"}, upTo : 0..head]
  BY <1>1, <1>2 DEF RequestFits, RequestRun
<1>8. RequestFits(Tickets!Idle)
  BY IdleFits DEF TicketInv, TicketWorld
<1>9. PICK q : q = Tickets!Idle
  OBVIOUS
<1>10. RequestsFit'
  BY <1>2, <1>8, <1>9, RequestGoesOn
<1> QED
  BY <1>2, <1>6, <1>7, <1>10 DEF TicketInv, TicketWorld, TicketFlags

LEMMA TicketRestartKeeps == ASSUME TicketInv, Tickets!Restart PROVE TicketInv'
<1> USE TicketConstants
<1>1. /\ UNCHANGED <<head, market, bought>> /\ missed' = {} /\ active' = FALSE /\ entry' = Tickets!NoEntry
      /\ request' = [r \in Readers |-> Tickets!Idle]
  BY DEF Tickets!Restart
<1>2. readFaults' \in 0..ReadFaults
  BY TicketFaultsFit DEF Tickets!Restart
<1>3. BoughtAreShown'
  <2>1. PICK none : none = [t \in Tickets!Tickets |-> Tickets!Absent]
    OBVIOUS
  <2>2. none \in [Tickets!Tickets -> Tickets!Shown] /\ \A t \in Tickets!Tickets : none[t].status = "absent"
    BY <2>1 DEF Tickets!Absent, Tickets!Shown
  <2>3. maps' = [r \in Readers |-> none]
    BY <2>1 DEF Tickets!Restart
  <2> QED
    BY <2>2, <2>3 DEF BoughtAreShown
<1>4. TicketWorld' /\ TicketFlags'
  <2>1. head \in Nat
    BY DEF TicketInv, TicketWorld
  <2>2. entry' \in [map : Readers \cup {"none"}, upTo : 0..head]
    BY <1>1, <2>1, NoEntryFits
  <2> QED
    BY <1>1, <1>2, <2>2 DEF TicketInv, TicketWorld, TicketFlags
<1>5. RequestsFit'
  <2>1. RequestFits(Tickets!Idle)
    BY IdleFits DEF TicketInv, TicketWorld
  <2> QED
    BY <1>1, <2>1 DEF RequestsFit, RequestFits, RequestRun
<1> QED
  BY <1>3, <1>4, <1>5 DEF TicketInv

LEMMA TicketStep == ASSUME TicketInv, Tickets!Next \/ UNCHANGED ticketVars PROVE TicketInv'
<1>1. CASE UNCHANGED ticketVars
  BY <1>1
  DEF ticketVars, TicketInv, TicketWorld, TicketFlags, BoughtAreShown, RequestsFit, RequestFits, RequestRun
<1>2. CASE Tickets!Next
  BY <1>2, TicketChainKeeps, TicketBeginKeeps, TicketReadKeeps, TicketSkipKeeps, TicketRefreshKeeps,
     TicketStoreKeeps, TicketRestartKeeps
  DEF Tickets!Next, Tickets!Step
<1> QED
  BY <1>1, <1>2

LEMMA TicketInvIsTyped == TicketInv => Tickets!TypeOK
BY DEF TicketInv, TicketWorld, TicketFlags, BoughtAreShown, RequestsFit, RequestFits, RequestRun, Tickets!TypeOK

---------------------------------------------------------------------------
(* The theorems. *)

ViewsInv == BoardInv /\ TrackerInv /\ TicketInv /\ WalletInv /\ PageInv

\* In a step one machine moves, and the others stand still.
LEMMA OneMoves ==
    ASSUME [Next]_<<part, boardVars, trackerVars, ticketVars, walletVars, pageVars>>
    PROVE  /\ part' = part
           /\ Board!Next \/ UNCHANGED boardVars
           /\ Tracker!Next \/ UNCHANGED trackerVars
           /\ Tickets!Next \/ UNCHANGED ticketVars
           /\ Wallet!Next \/ UNCHANGED walletVars
           /\ Page!Next \/ UNCHANGED pageVars
BY Zenon DEF Next

LEMMA ViewsStep ==
    ASSUME ViewsInv, [Next]_<<part, boardVars, trackerVars, ticketVars, walletVars, pageVars>>
    PROVE  ViewsInv'
BY OneMoves, BoardStep, TrackerStep, TicketStep, WalletStep, PageStep DEF ViewsInv

\* Of every machine, whatever it is that runs, the invariant holds.
THEOREM ViewsInvariant == FairSpec => []ViewsInv
<1>1. Init => ViewsInv
  BY BoardInit, TrackerInit, TicketInit, WalletInit, PageInit DEF Init, ViewsInv
<1>2. ViewsInv /\ [Next]_<<part, boardVars, trackerVars, ticketVars, walletVars, pageVars>> => ViewsInv'
  BY ViewsStep
<1> QED
  BY <1>1, <1>2, PTL DEF FairSpec

\* The variables of the five machines keep their types (MarketBoard,
\* TxTracker, Portfolio, WalletSession, RoundPage).
THEOREM ViewTypes == FairSpec => []TypeOK
<1>1. ViewsInv => TypeOK
  BY BoardInvIsTyped, TrackerInvIsTrue, TicketInvIsTyped, PageInvIsTrue DEF ViewsInv, WalletInv, TypeOK
<1> QED
  BY <1>1, ViewsInvariant, PTL

\* Whoever disconnects stays out but for a sign-in or connection of their own,
\* whatever restoration was under way and whenever its answer comes
\* (wallet.tsx).
THEOREM OutStaysOut == FairSpec => []DisconnectedStaysOut
<1>1. ViewsInv => DisconnectedStaysOut
  BY DEF ViewsInv, WalletInv, NothingLeft, DisconnectedStaysOut, Wallet!DisconnectedStaysOut
<1> QED
  BY <1>1, ViewsInvariant, PTL

\* A stored status is the chain's and a final one stays, but where a recorder
\* wrote over a record it had read before it was final, and where a poll gave up
\* without a receipt; and the page shows the contract's verdict next to evidence
\* that agrees with it (txTrackerService.ts, onchainService.ts,
\* MarketLiveChart.tsx).
THEOREM StatusesStayTrue == FairSpec => StatusesAreTrue
<1>1. ViewsInv => /\ part = "tracker" => Tracker!StatusIsTrue
                  /\ part = "page" => Page!BadgeIsTheVerdict /\ Page!FrozenEvidenceAgrees
  BY TrackerInvIsTrue, PageInvIsTrue DEF ViewsInv
<1>2. ViewsInv /\ [Next]_<<part, boardVars, trackerVars, ticketVars, walletVars, pageVars>>
        => [FinalGoesOn]_trackerVars
  BY OneMoves, FinalKept DEF ViewsInv
<1>3. Tracker!FinalStays <=> [][FinalGoesOn]_trackerVars
  BY DEF Tracker!FinalStays, Tracker!vars, trackerVars, FinalGoesOn
<1> QED
  BY <1>1, <1>2, <1>3, ViewsInvariant, PTL DEF FairSpec, StatusesAreTrue

=============================================================================
