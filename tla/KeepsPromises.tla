--------------------------- MODULE KeepsPromises ---------------------------
(***************************************************************************)
(* The protocol implements TicketPromise: the abstract state is read off   *)
(* the markets, the ticket registry, the token ledger and the vault.       *)
(***************************************************************************)
EXTENDS MicroBoostEngine

VerdictOf(m) ==
    IF Voided(market[m]) THEN 3
    ELSE IF Decided(market[m]) THEN market[m].winningOutcome ELSE Unset

PromiseOf(t) ==
    LET tk == ticket[t]
    IN  [holder |-> tk.owner, market |-> tk.market, outcome |-> tk.outcome,
         stake |-> tk.riskAmount, payout |-> tk.payout]

NoPromise ==
    [holder |-> ZeroAddress, market |-> ZeroAddress, outcome |-> Unset, stake |-> 0, payout |-> 0]

Abstract == INSTANCE TicketPromise WITH
    Holders <- Users,
    verdict <- [m \in Markets |-> VerdictOf(m)],
    promise <- [t \in TicketIds |-> PromiseOf(t)],
    redeemed <- {t \in TicketIds : ticket[t].status \in {"Settled", "Cancelled"}},
    wallet <- [u \in Users |-> usdc[u]],
    free <- AvailableAssets(pool)

\* Every transaction of the protocol is a step of TicketPromise or leaves its
\* state alone: holders pay and are paid exactly as promised, once, by a
\* verdict that never changes, out of money set aside when they paid.
KeepsPromises == Abstract!Spec

=============================================================================
