------------------------------- MODULE DemoDesk -------------------------------
(***************************************************************************)
(* The demo database: markets and tickets in memory, used when no chain is *)
(* configured.  Requests run one at a time; markets may be resolved again, *)
(* hidden, reset and cancelled in any order, and their identifiers repeat. *)
(***************************************************************************)
EXTENDS Sequences, Totals

CONSTANTS
    Owners,
    Reserves,                        \* what a quote may set aside
    MarketCap, OutcomeCap, OwnerCap, \* shares of the pool: 2%, 1% and 0.25%
    MaxMarkets, MaxTickets

DemoDeskAssumption ==
    /\ Reserves \cup {MarketCap, OutcomeCap, OwnerCap, MaxMarkets, MaxTickets} \subseteq Nat
    /\ MaxMarkets >= 2 \* as many are seeded

VARIABLES
    markets, \* newest first: identifier, stored status, winner
    tickets  \* oldest first: owner, market, side, reserve, result

vars == <<markets, tickets>>

Outcomes == {"YES", "NO"}
Market(id, status) == [id |-> id, status |-> status, winner |-> "none"]

\* The seeded markets, one of them locked from the start, and those of a reset.
SeedMarkets == <<Market(11, "OPEN"), Market(12, "LOCKED")>>
SeedBasicMarkets == <<Market(21, "OPEN"), Market(22, "OPEN")>>

Init == markets = SeedMarkets /\ tickets = <<>>

\* nextId counts the list, so an identifier comes back after a hiding;
\* requests find the first market of an identifier.
NextId == Len(markets) + 1
Known == {markets[i].id : i \in DOMAIN markets}
Place(id) == CHOOSE i \in DOMAIN markets : markets[i].id = id /\ \A j \in 1..(i - 1) : markets[j].id # id

Open == {i \in DOMAIN tickets : tickets[i].result = "none"}
OfMarket(id) == {i \in Open : tickets[i].market = id}
OfSide(id, s) == {i \in OfMarket(id) : tickets[i].side = s}
OfOwner(o) == {i \in Open : tickets[i].owner = o}
Reserve(S) == Total([i \in DOMAIN tickets |-> tickets[i].reserve], S)

\* Mutant of Within: the quote's own reserve is not counted.
WithinBefore(o, id, s, r) ==
    Reserve(OfMarket(id)) <= MarketCap /\ Reserve(OfSide(id, s)) <= OutcomeCap /\ Reserve(OfOwner(o)) <= OwnerCap

\* applyExposureChecks
Within(o, id, s, r) ==
    /\ Reserve(OfMarket(id)) + r <= MarketCap
    /\ Reserve(OfSide(id, s)) + r <= OutcomeCap
    /\ Reserve(OfOwner(o)) + r <= OwnerCap

\* A ticket is sold whatever the status of the market.
Buy(o, id, s, r) ==
    /\ Len(tickets) < MaxTickets /\ Within(o, id, s, r)
    /\ tickets' = Append(tickets, [owner |-> o, market |-> id, side |-> s, reserve |-> r, result |-> "none"])
    /\ UNCHANGED markets

\* Mutant of Closes: tickets that have a result get another.
ClosesAll(t, id) == t.market = id

Closes(t, id) == t.market = id /\ t.result = "none"

\* settleTicketsForMarket and cancelTicketsForMarket, for winner "none".
Close(id, winner) ==
    tickets' = [i \in DOMAIN tickets |->
        IF ~Closes(tickets[i], id) THEN tickets[i]
        ELSE [tickets[i] EXCEPT !.result =
                IF winner = "none" THEN "REFUND" ELSE IF tickets[i].side = winner THEN "WIN" ELSE "LOSS"]]

Status(id, status, winner) ==
    markets' = [markets EXCEPT ![Place(id)].status = status, ![Place(id)].winner = winner]

\* The operator's outcome or the simulated oracle's, at any time and again.
ResolveMarket(id, w) == Status(id, "RESOLVED", w) /\ Close(id, w)

CancelMarket(id) == Status(id, "CANCELLED", markets[Place(id)].winner) /\ Close(id, "none")

SettleTickets(id) ==
    /\ markets[Place(id)].status = "RESOLVED" /\ Close(id, markets[Place(id)].winner)
    /\ UNCHANGED markets

\* The scheduler looks at the stored status, and leaves the tickets alone.
ResolveExpired(i, w) ==
    /\ markets[i].status \in {"LOCKED", "OBSERVATION"}
    /\ markets' = [markets EXCEPT ![i].status = "RESOLVED", ![i].winner = w]
    /\ UNCHANGED tickets

CreateMarket ==
    /\ Len(markets) < MaxMarkets /\ markets' = <<Market(NextId, "OPEN")>> \o markets
    /\ UNCHANGED tickets

\* Those of another identifier stay, in their order.
HideMarket(id) ==
    /\ LET kept == {i \in DOMAIN markets : markets[i].id # id} IN
       \E f \in [1..Cardinality(kept) -> kept] :
          /\ \A i, j \in DOMAIN f : i < j => f[i] < f[j]
          /\ markets' = [i \in DOMAIN f |-> markets[f[i]]]
    /\ UNCHANGED tickets

ResetMarkets == markets' = SeedBasicMarkets /\ UNCHANGED tickets

Next ==
    \/ \E id \in Known :
         \/ \E o \in Owners, s \in Outcomes, r \in Reserves : Buy(o, id, s, r)
         \/ \E w \in Outcomes : ResolveMarket(id, w)
         \/ CancelMarket(id) \/ SettleTickets(id) \/ HideMarket(id)
    \/ \E i \in DOMAIN markets, w \in Outcomes : ResolveExpired(i, w)
    \/ CreateMarket \/ ResetMarkets

Spec == Init /\ [][Next]_vars

---------------------------------------------------------------------------
(* Properties. *)

TypeOK ==
    /\ Len(markets) <= MaxMarkets /\ Len(tickets) <= MaxTickets
    /\ \A i \in DOMAIN markets :
         /\ markets[i].status \in {"OPEN", "LOCKED", "RESOLVED", "CANCELLED"}
         /\ markets[i].winner \in Outcomes \cup {"none"}
    /\ \A i \in DOMAIN tickets : tickets[i].result \in {"none", "WIN", "LOSS", "REFUND"}

\* What is set aside for open tickets stays within the shares of the pool,
\* over markets that share an identifier and markets that were hidden or reset.
ReservesStayWithinCaps ==
    /\ \A i \in Open : Reserve(OfOwner(tickets[i].owner)) <= OwnerCap
    /\ \A i \in Open : Reserve(OfMarket(tickets[i].market)) <= MarketCap
    /\ \A i \in Open : Reserve(OfSide(tickets[i].market, tickets[i].side)) <= OutcomeCap

\* A ticket's result is final: a market that is resolved again, cancelled after
\* it was resolved or settled once more does not touch it.
ResultsAreFinal ==
    [][\A i \in DOMAIN tickets : tickets[i].result # "none" => tickets'[i] = tickets[i]]_vars

=============================================================================
