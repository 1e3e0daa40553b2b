--------------------------- MODULE TicketPromise ---------------------------
(***************************************************************************)
(* What a ticket promises, whatever the bookkeeping behind it: a holder    *)
(* pays a stake and a fee while the market is undecided; the vault sets    *)
(* aside, out of its free liquidity, all that the payout exceeds the stake *)
(* by; the market is decided once and for all; and the ticket is redeemed  *)
(* once, for the payout if its outcome won, for the stake if the market    *)
(* was voided and for nothing otherwise, the rest of what was set aside    *)
(* becoming free again.                                                    *)
(***************************************************************************)
EXTENDS Integers

CONSTANTS Holders, Markets, TicketIds,
          NoPromise    \* stands for no promise: not a member of Promises

\* A verdict is one of the two outcomes, or one of these.
Undecided == 0
Void == 3
Verdicts == {Undecided, 1, 2, Void}

Promises == [holder : Holders, market : Markets, outcome : {1, 2}, stake : Nat, payout : Nat]

VARIABLES
    verdict,    \* of each market
    promise,    \* made to the holder of each ticket, NoPromise before
    redeemed,   \* the tickets redeemed
    wallet,     \* money of each holder
    free        \* liquidity not set aside for any ticket

vars == <<verdict, promise, redeemed, wallet, free>>

Init ==
    /\ verdict = [m \in Markets |-> Undecided]
    /\ promise = [t \in TicketIds |-> NoPromise]
    /\ redeemed = {}
    /\ wallet \in [Holders -> Nat]
    /\ free = 0

\* The verdict of an undecided market; it never changes again.
Decide(m) ==
    /\ verdict[m] = Undecided
    /\ verdict' = [verdict EXCEPT ![m] = verdict'[m]]
    /\ verdict'[m] \in Verdicts
    /\ UNCHANGED <<promise, redeemed, wallet, free>>

\* The new promise, the fee and the part of it that reaches the vault are
\* read off the state the step leads to.
Issue(t) ==
    LET p == promise'[t]
        reserve == p.payout - p.stake
        fee == wallet[p.holder] - p.stake - wallet'[p.holder]
        vaultFee == free' - (free - reserve)
    IN  /\ promise[t] = NoPromise
        /\ p \in Promises
        /\ promise' = [promise EXCEPT ![t] = p]
        /\ verdict[p.market] = Undecided
        /\ 0 <= reserve /\ reserve <= free
        /\ 0 <= vaultFee /\ vaultFee <= fee
        /\ wallet' = [wallet EXCEPT ![p.holder] = @ - p.stake - fee]
        /\ UNCHANGED <<verdict, redeemed>>

Worth(p) ==
    IF verdict[p.market] = Void THEN p.stake
    ELSE IF verdict[p.market] = p.outcome THEN p.payout ELSE 0

Redeem(t) ==
    LET p == promise[t]
    IN  /\ p # NoPromise /\ t \notin redeemed
        /\ verdict[p.market] # Undecided
        /\ redeemed' = redeemed \cup {t}
        /\ wallet' = [wallet EXCEPT ![p.holder] = @ + Worth(p)]
        /\ free' = free + p.payout - Worth(p)
        /\ UNCHANGED <<verdict, promise>>

\* A holder moves money into or out of free liquidity, or gives it away: at
\* most what leaves the wallet arrives, exactly what is withdrawn leaves.
Move(h) ==
    LET in == wallet[h] - wallet'[h]
    IN  /\ wallet' = [wallet EXCEPT ![h] = @ - in]
        /\ wallet'[h] >= 0 /\ free' >= 0
        /\ \/ free' = free + in
           \/ in >= 0 /\ free' = free
        /\ UNCHANGED <<verdict, promise, redeemed>>

Next ==
    \/ \E m \in Markets : Decide(m)
    \/ \E t \in TicketIds : Issue(t) \/ Redeem(t)
    \/ \E h \in Holders : Move(h)

Spec == Init /\ [][Next]_vars

=============================================================================
