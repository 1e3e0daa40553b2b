----------------------------- MODULE TicketForm -----------------------------
(***************************************************************************)
(* The ticket form of a market's page: the quote it previews, the approval *)
(* it asks for, the purchase it sends and the position it keeps in local   *)
(* storage.  The price moves and the market locks while the user decides   *)
(* and while a purchase waits to be mined.                                 *)
(***************************************************************************)
EXTENDS Integers, FiniteSets

CONSTANTS
    Boosts, Prices,
    MaxBuys \* purchases sent

TicketFormAssumption == Boosts \subseteq Nat \ {0} /\ MaxBuys \in Nat

VARIABLES
    choice,    \* the boost that is selected
    previews,  \* quotes asked for the form, on their way back
    quoted,    \* quotedDebit
    known,     \* engineAllowance
    form,      \* what a click on the button is doing, and with which quote
    open,      \* the market takes tickets
    price,
    allowance, \* granted to the engine on the chain
    buys,      \* purchases sent: boost, state and, once minted, price
    saved      \* positions in local storage

vars == <<choice, previews, quoted, known, form, open, price, allowance, buys, saved>>
chain == <<open, price, allowance, buys>>

\* One stake: what is debited and what is paid out depend on the boost, the
\* payout on the price too.
Debit(b) == 1 + b
NoQuote == [pc |-> "idle", boost |-> 0, price |-> 0]

Init ==
    /\ choice \in Boosts /\ previews = {} /\ quoted = 0 /\ known = 0 /\ form = NoQuote
    /\ open = TRUE /\ price \in Prices /\ allowance = 0
    /\ buys = [i \in {} |-> NoQuote] /\ saved = {}

At(l) == form.pc = l
Goes(l) == form' = [form EXCEPT !.pc = l]
Back == form' = NoQuote
NeedsApproval == quoted > 0 /\ known < quoted

---------------------------------------------------------------------------
(* The form. *)

\* A selection asks for a quote; answers come back in any order.
Select(b) ==
    /\ choice' = b /\ previews' = previews \cup {b}
    /\ UNCHANGED <<quoted, known, form, chain, saved>>

\* The engine accepts while the market is open.
Preview(b) ==
    /\ b \in previews /\ previews' = previews \ {b}
    /\ IF open THEN quoted' = Debit(b) /\ known' = allowance
       ELSE quoted' = 0 /\ UNCHANGED known
    /\ UNCHANGED <<choice, form, chain, saved>>

Approve ==
    /\ At("idle") /\ NeedsApproval /\ open
    /\ form' = [pc |-> "approve", boost |-> choice, price |-> price]
    /\ quoted' = Debit(choice) /\ known' = allowance
    /\ UNCHANGED <<choice, previews, chain, saved>>

Approved ==
    /\ At("approve") /\ Back
    /\ allowance' = Debit(form.boost) /\ known' = Debit(form.boost) /\ quoted' = Debit(form.boost)
    /\ UNCHANGED <<choice, previews, open, price, buys, saved>>

\* The user refuses, or an approval that is mined is waited for too long.
ApproveFails ==
    /\ At("approve") /\ Back
    /\ allowance' \in {allowance, Debit(form.boost)}
    /\ UNCHANGED <<choice, previews, quoted, known, open, price, buys, saved>>

\* A purchase begins with a quote of its own, and the allowance it needs.
Confirm ==
    /\ At("idle") /\ ~NeedsApproval /\ open
    /\ quoted' = Debit(choice) /\ known' = allowance
    /\ form' = IF allowance < Debit(choice) THEN NoQuote ELSE [pc |-> "sign", boost |-> choice, price |-> price]
    /\ UNCHANGED <<choice, previews, chain, saved>>

Refuse ==
    /\ At("sign") /\ Back
    /\ UNCHANGED <<choice, previews, quoted, known, chain, saved>>

Send ==
    /\ At("sign") /\ Cardinality(DOMAIN buys) < MaxBuys /\ Goes("receipt")
    /\ LET n == Cardinality(DOMAIN buys) + 1 IN
       buys' = [i \in 1..n |-> IF i = n THEN [form EXCEPT !.pc = "sent"] ELSE buys[i]]
    /\ UNCHANGED <<choice, previews, quoted, known, open, price, allowance, saved>>

Sent == Cardinality(DOMAIN buys)

\* Mutant of Position: what was selected and quoted is kept.
AsQuoted(i) == [id |-> i, boost |-> form.boost, price |-> form.price]

\* What the contract emitted is kept.
Position(i) == [id |-> i, boost |-> buys[i].boost, price |-> buys[i].price]

Bought ==
    /\ At("receipt") /\ buys[Sent].pc = "minted" /\ Back
    /\ saved' = saved \cup {Position(Sent)}
    /\ UNCHANGED <<choice, previews, quoted, known, chain>>

\* The receipt says that it reverted, or none came within two minutes.
NotBought ==
    /\ At("receipt") /\ Back
    /\ UNCHANGED <<choice, previews, quoted, known, chain, saved>>

\* The page is left or loaded again.
Leave ==
    /\ Back /\ previews' = {} /\ quoted' = 0 /\ known' = 0
    /\ UNCHANGED <<choice, chain, saved>>

---------------------------------------------------------------------------
(* The chain. *)

Trade(p) ==
    /\ p # price /\ price' = p
    /\ UNCHANGED <<choice, previews, quoted, known, form, open, allowance, buys, saved>>

Lock ==
    /\ open /\ open' = FALSE
    /\ UNCHANGED <<choice, previews, quoted, known, form, price, allowance, buys, saved>>

Mine(i) ==
    /\ buys[i].pc = "sent"
    /\ IF open /\ allowance >= Debit(buys[i].boost)
         THEN /\ buys' = [buys EXCEPT ![i].pc = "minted", ![i].price = price]
              /\ allowance' = allowance - Debit(buys[i].boost)
         ELSE buys' = [buys EXCEPT ![i].pc = "reverted"] /\ UNCHANGED allowance
    /\ UNCHANGED <<choice, previews, quoted, known, form, open, price, saved>>

Next ==
    \/ \E b \in Boosts : Select(b) \/ Preview(b)
    \/ Approve \/ Approved \/ ApproveFails
    \/ Confirm \/ Refuse \/ Send \/ Bought \/ NotBought \/ Leave
    \/ \E p \in Prices : Trade(p)
    \/ Lock \/ \E i \in DOMAIN buys : Mine(i)

Spec == Init /\ [][Next]_vars

---------------------------------------------------------------------------
(* Properties. *)

TypeOK ==
    /\ choice \in Boosts /\ previews \subseteq Boosts /\ open \in BOOLEAN /\ price \in Prices
    /\ quoted \in {0} \cup {Debit(b) : b \in Boosts} /\ known \in Nat /\ allowance \in Nat
    /\ form.pc \in {"idle", "approve", "sign", "receipt"}
    /\ \A i \in DOMAIN buys : buys[i].pc \in {"sent", "minted", "reverted"}
    /\ saved \subseteq [id : 1..MaxBuys, boost : Boosts, price : Prices]

\* Every position the browser keeps is a ticket that was minted, with the
\* boost and the payout it was minted with, although the price moved between
\* the quote, the signature and the block.
PositionsAreTickets ==
    \A s \in saved : buys[s.id] = [pc |-> "minted", boost |-> s.boost, price |-> s.price]

=============================================================================
