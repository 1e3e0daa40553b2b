------------------------------ MODULE Portfolio ------------------------------
(***************************************************************************)
(* The portfolio of one buyer: tickets are found by scanning the purchase  *)
(* logs from where the last scan ended, read one by one, kept in a map of  *)
(* the process and refreshed while they are open.  Requests run at the     *)
(* same time: they share the map of the cache entry they started from, a   *)
(* first one makes its own.  Ticket n is bought in block n, all of one     *)
(* market.                                                                 *)
(***************************************************************************)
EXTENDS Integers, FiniteSetsExt

CONSTANTS
    Last,       \* blocks, each with one ticket
    Recent,     \* blocks a first scan looks back
    Readers,    \* requests for the portfolio
    Winners,    \* outcomes that may win (tickets are bought on both)
    MaxFaults   \* reads that fail, restarts

PortfolioAssumption ==
    /\ {Last, Recent, MaxFaults} \subseteq Nat /\ Winners \subseteq {"YES", "NO"}
    /\ "none" \notin Readers

Tickets == 1..Last

VARIABLES
    head,    \* the last block
    market,  \* the market on the chain: its status and winning outcome
    chain,   \* the tickets on the chain
    active,  \* the shared list cache has the market, as an active one
    entry,   \* the cache entry: which map, and the blocks it covers
    maps,    \* the map each request made
    run,     \* the requests under way
    missed,  \* tickets older than the window, or whose log or first read failed
    faults

vars == <<head, market, chain, active, entry, maps, run, missed, faults>>

Active == "ACTIVE"  \* CREATED, OPEN or LOCKED
Absent == [status |-> "absent", result |-> "none"]
NoSnap == [status |-> "none", winner |-> "none"]
NoEntry == [map |-> "none", upTo |-> 0]
Idle == [pc |-> "idle", map |-> "none", upTo |-> 0, todo |-> {}, snap |-> NoSnap]

Snaps == [status : {Active, "RESOLVED", "CANCELLED", "none"}, winner : {"none", "YES", "NO"}]
Shown == [status : {"absent", "OPEN", "SETTLED", "CANCELLED"}, result : {"none", "WIN", "LOSS", "REFUND"}]

Init ==
    /\ head = 0 /\ market = [status |-> Active, winner |-> "none"]
    /\ chain = [t \in Tickets |-> "none"] /\ active = FALSE
    /\ entry = NoEntry /\ maps = [r \in Readers |-> [t \in Tickets |-> Absent]]
    /\ run = [r \in Readers |-> Idle]
    /\ missed = {} /\ faults = 0

Outcome(t) == IF t % 2 = 1 THEN "YES" ELSE "NO"
Fails == faults < MaxFaults /\ faults' = faults + 1
Cached == IF entry.map = "none" THEN [t \in Tickets |-> Absent] ELSE maps[entry.map]

---------------------------------------------------------------------------
(* The chain, and the list cache that other requests refresh. *)

Buy ==
    /\ market.status = Active /\ head < Last
    /\ head' = head + 1 /\ chain' = [chain EXCEPT ![head + 1] = "OPEN"]
    /\ UNCHANGED <<market, active, entry, maps, run, missed, faults>>

Finish ==
    /\ market.status = Active
    /\ market' \in {[status |-> "RESOLVED", winner |-> o] : o \in Winners}
                   \cup {[status |-> "CANCELLED", winner |-> "none"]}
    /\ UNCHANGED <<head, chain, active, entry, maps, run, missed, faults>>

SettleTicket(t) ==
    /\ market.status \in {"RESOLVED", "CANCELLED"} /\ chain[t] = "OPEN"
    /\ chain' = [chain EXCEPT ![t] = IF market.status = "RESOLVED" THEN "SETTLED" ELSE "CANCELLED"]
    /\ UNCHANGED <<head, market, active, entry, maps, run, missed, faults>>

RefreshList ==
    /\ active' = (market.status = Active)
    /\ UNCHANGED <<head, market, chain, entry, maps, run, missed, faults>>

---------------------------------------------------------------------------
(* A request: the scan, then a read per ticket found, then the refresh.     *)

ScanFrom == IF entry.map = "none" THEN Max({1, head - Recent + 1}) ELSE entry.upTo + 1

\* A chunk of logs that cannot be read is skipped, a first scan leaves out what
\* is older than its window.  When an entry is fresh enough to be answered
\* from is left to the clock.
Begin(r) ==
    /\ run[r].pc = "idle"
    /\ \E lost \in SUBSET (ScanFrom..head) :
         /\ IF lost = {} THEN UNCHANGED faults ELSE Fails
         /\ missed' = missed \cup lost \cup IF entry.map = "none" THEN 1..ScanFrom - 1 ELSE {}
         /\ run' = [run EXCEPT ![r] =
                [Idle EXCEPT !.pc = "logs", !.upTo = head, !.todo = (ScanFrom..head) \ lost,
                             !.map = IF entry.map = "none" THEN r ELSE entry.map]]
    /\ UNCHANGED <<head, market, chain, active, entry, maps>>

\* Mutant of Result: the market's status is not looked at.
AnyWinner(t, status, snap) ==
    IF status = "CANCELLED" THEN "REFUND"
    ELSE IF Outcome(t) = snap.winner THEN "WIN" ELSE "LOSS"

Result(t, status, snap) ==
    IF snap.status = "CANCELLED" \/ status = "CANCELLED" THEN "REFUND"
    ELSE IF snap.winner = "none" \/ snap.status # "RESOLVED" THEN "none"
    ELSE IF Outcome(t) = snap.winner THEN "WIN" ELSE "LOSS"

\* Logs are read one after the other, a refresh reads all at once.
Wanted(r, t) == /\ t \in run[r].todo
                /\ run[r].pc = "logs" => t = Min(run[r].todo)

\* The market comes from the list cache while that says it is active.  In a
\* refresh one read of the market serves every ticket.
Snapshot(r) ==
    IF run[r].snap # NoSnap THEN run[r].snap
    ELSE IF active THEN [status |-> Active, winner |-> "none"] ELSE market

Read(r, t) ==
    /\ Wanted(r, t)
    /\ maps' = [maps EXCEPT ![run[r].map][t] =
                  [status |-> chain[t], result |-> Result(t, chain[t], Snapshot(r))]]
    /\ run' = [run EXCEPT ![r].todo = @ \ {t},
                          ![r].snap = IF run[r].pc = "refresh" THEN Snapshot(r) ELSE @]
    /\ UNCHANGED <<head, market, chain, active, entry, missed, faults>>

\* A read that fails: a new ticket is left out, a known one stays as it was.
Skip(r, t) ==
    /\ Wanted(r, t) /\ Fails
    /\ run' = [run EXCEPT ![r].todo = @ \ {t}]
    /\ missed' = IF run[r].pc = "logs" THEN missed \cup {t} ELSE missed
    /\ UNCHANGED <<head, market, chain, active, entry, maps>>

\* Mutant of NeedsRefresh: a ticket that has a result is not read again.
WithoutResult(r, t) == maps[run[r].map][t] = [status |-> "OPEN", result |-> "none"] /\ ~active

\* An open ticket is read again unless the list says its market is active.
NeedsRefresh(r, t) == maps[run[r].map][t].status = "OPEN" /\ ~active

Refresh(r) ==
    /\ run[r].pc = "logs" /\ run[r].todo = {}
    /\ run' = [run EXCEPT ![r] =
                 [Idle EXCEPT !.pc = "refresh", !.map = run[r].map, !.upTo = run[r].upTo,
                              !.todo = {t \in Tickets : NeedsRefresh(r, t)}]]
    /\ UNCHANGED <<head, market, chain, active, entry, maps, missed, faults>>

\* Mutant of CursorAfter: the cursor is the block of the moment of storing.
CursorNow(r) == head

\* Mutant of CursorAfter: the block after the last one scanned is taken.
CursorPast(r) == run[r].upTo + 1

\* The entry covers the blocks up to the one read before the scan.
CursorAfter(r) == run[r].upTo

\* A map that neither the entry nor a request holds is gone.
Store(r) ==
    /\ run[r].pc = "refresh" /\ run[r].todo = {}
    /\ maps' = [m \in Readers |-> IF m = run[r].map \/ \E q \in Readers \ {r} : run[q].map = m
                                    THEN maps[m] ELSE [t \in Tickets |-> Absent]]
    /\ entry' = [map |-> run[r].map, upTo |-> CursorAfter(r)]
    /\ run' = [run EXCEPT ![r] = Idle]
    /\ UNCHANGED <<head, market, chain, active, missed, faults>>

Restart ==
    /\ Fails /\ maps' = [r \in Readers |-> [t \in Tickets |-> Absent]]
    /\ entry' = NoEntry /\ active' = FALSE /\ missed' = {}
    /\ run' = [r \in Readers |-> Idle]
    /\ UNCHANGED <<head, market, chain>>

---------------------------------------------------------------------------
Step(r) ==
    \/ Refresh(r) \/ Store(r)
    \/ \E t \in Tickets : Read(r, t)

Next ==
    \/ Buy \/ Finish \/ RefreshList \/ Restart
    \/ \E t \in Tickets : SettleTicket(t)
    \/ \E r \in Readers : Begin(r) \/ Step(r) \/ \E t \in Tickets : Skip(r, t)

Spec == Init /\ [][Next]_vars

\* The portfolio is asked for again and again, the list refreshed, and what
\* has begun goes on.
FairSpec ==
    /\ Spec /\ WF_vars(RefreshList)
    /\ \A r \in Readers : WF_vars(Begin(r)) /\ WF_vars(Step(r))

---------------------------------------------------------------------------
(* Properties. *)

TypeOK ==
    /\ head \in 0..Last /\ market \in Snaps /\ active \in BOOLEAN
    /\ chain \in [Tickets -> {"none", "OPEN", "SETTLED", "CANCELLED"}]
    /\ entry \in [map : Readers \cup {"none"}, upTo : 0..head]
    /\ maps \in [Readers -> [Tickets -> Shown]]
    /\ \A r \in Readers :
         /\ run[r].pc \in {"idle", "logs", "refresh"} /\ run[r].map \in Readers \cup {"none"}
         /\ run[r].todo \subseteq 1..head /\ run[r].upTo \in 0..head /\ run[r].snap \in Snaps
    /\ missed \subseteq Tickets /\ faults \in 0..MaxFaults

\* The cursor never passes a ticket: every ticket bought in the blocks an entry
\* covers is in its map, unless its log or its first read failed or it is older
\* than the window, whatever requests share the map or replace the entry.
NoTicketIsPassed ==
    entry.map # "none" =>
        \A t \in 1..entry.upTo : t \in missed \/ Cached[t].status # "absent"

\* A result that is shown is the market's: no list cache makes a ticket flip
\* between WIN, LOSS and REFUND.
ResultsAreTrue ==
    \A r \in Readers, t \in Tickets :
        LET s == maps[r][t] IN
        s.result # "none" =>
            s.result = CASE market.winner = Outcome(t) -> "WIN"
                         [] market.winner = "none" /\ market.status # Active -> "REFUND"
                         [] OTHER -> IF market.winner # "none" THEN "LOSS" ELSE "none"

\* Once the list cache knows that the market is over, a ticket that was settled
\* on the chain does not go on being shown as open.
SettledTicketsAreShown ==
    <>[](\A t \in Tickets :
            Cached[t].status = "OPEN" => chain[t] = "OPEN")

=============================================================================
