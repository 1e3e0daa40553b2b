----------------------------- MODULE MCFunding -----------------------------
(***************************************************************************)
(* Small instances of the machines that move a user's USDC: the demo       *)
(* funding of the server (DemoFund); in the browser, the panel that        *)
(* bridges (FundFlow), the deposit into the vault from any chain           *)
(* (VaultForm) and the purchase of a ticket (TicketForm); and the demo     *)
(* desk that sells tickets without a chain (DemoDesk).  They share no      *)
(* state, so one run explores each by itself: `part' says which, and the   *)
(* variables of the others keep their initial values.                      *)
(***************************************************************************)
EXTENDS MCDemoFund

CONSTANTS
    owner,
    StrictAppKit,                                 \* of the panel
    Amounts, MaxMoves, Cash, MaxIncome,           \* of the vault's page
    Boosts, Prices, MaxBuys,                      \* of the ticket's form
    Owners, Reserves, MarketCap, OutcomeCap, OwnerCap, MaxMarkets, MaxTickets  \* of the desk

MCOwners == {owner}

VARIABLES
    part,
    kit, burned, minted, lostBurn,
    form, shown, stored, gateway, onTheWay, arc, received, vaulted, moves, unheard, reserved,
    given,
    choice, previews, quoted, known, purchase, open, price, granted, buys, saved,
    markets, tickets

Panel == INSTANCE FundFlow WITH lost <- lostBurn
Vault == INSTANCE VaultForm
Shop == INSTANCE TicketForm WITH form <- purchase, allowance <- granted
Demo == INSTANCE DemoDesk

panelVars == <<kit, burned, minted, lostBurn>>
vaultVars == <<form, shown, stored, gateway, onTheWay, arc, received, vaulted, moves, unheard,
               reserved, given>>
shopVars == <<choice, previews, quoted, known, purchase, open, price, granted, buys, saved>>

demoVars == <<markets, tickets>>

ASSUME FundingAssumption ==
    /\ Panel!FundFlowAssumption /\ Vault!VaultFormAssumption /\ Shop!TicketFormAssumption
    /\ Demo!DemoDeskAssumption

FundingInit ==
    /\ part \in {"fund", "panel", "vault", "shop", "demo"}
    /\ Init /\ Panel!Init /\ Vault!Init /\ Shop!Init /\ Demo!Init
    /\ IF part = "fund" THEN InOrder ELSE key = [c \in Calls |-> k1]
    /\ part # "shop" => choice = (CHOOSE b \in Boosts : TRUE) /\ price = (CHOOSE p \in Prices : TRUE)

FundingNext ==
    /\ part' = part
    /\ \/ part = "fund" /\ Next /\ UNCHANGED <<panelVars, vaultVars, shopVars, demoVars>>
       \/ part = "panel" /\ Panel!Next /\ UNCHANGED <<vars, vaultVars, shopVars, demoVars>>
       \/ part = "vault" /\ Vault!Next /\ UNCHANGED <<vars, panelVars, shopVars, demoVars>>
       \/ part = "shop" /\ Shop!Next /\ UNCHANGED <<vars, panelVars, vaultVars, demoVars>>
       \/ part = "demo" /\ Demo!Next /\ UNCHANGED <<vars, panelVars, vaultVars, shopVars>>

\* Only the demo funding needs fairness: the one it states.
FundingSpec ==
    /\ FundingInit /\ [][FundingNext]_<<part, vars, panelVars, vaultVars, shopVars, demoVars>>
    /\ WF_vars(part = "fund" /\ Progress)

\* What the variables of the five machines may hold.
FundingTypeOK ==
    /\ part = "fund" => TypeOK
    /\ part = "panel" => Panel!TypeOK
    /\ part = "vault" => Vault!TypeOK
    /\ part = "shop" => Shop!TypeOK
    /\ part = "demo" => Demo!TypeOK

\* No crash, failure or retry leaves a burn without a record or outside the
\* quota, burns twice for a signature or, as long as no record with a hash is
\* written over, for a key, or gives its nonce away (cctpDemoFundService.ts).
BurnsAreSafe ==
    BurnIsOnRecord /\ OneBurnPerKey /\ OneBurnPerNonce /\ NonceIsKept /\ QuotaCoversBurns

\* Nobody holds a lease for ever (cctpDemoFundService.ts).
EveryLeaseComesFree == part = "fund" => LeasesComeFree

\* A click moves the user's money a second time only when App Kit had moved it
\* and the answer was lost: it bridges no amount that it knows was burned or
\* deposited (FundUsdcPanel.tsx, appKit.ts).
SecondMovesNeedALoss ==
    /\ part = "panel" => Panel!SecondBurnNeedsALoss
    /\ part = "vault" => Vault!OneMovePerAnswer

\* What a page reports, offers, keeps and puts into the vault is there: the
\* mint, the deposit still to be spent, the arrival, the ticket
\* (FundUsdcPanel.tsx, LpShell.tsx, MarketDetailShell.tsx).
PagesTellTheTruth ==
    /\ part = "panel" => Panel!MintedMeansMinted
    /\ part = "vault" => /\ Vault!RetryFindsItsMoney /\ Vault!VaultTakesWhatArrived
                         /\ Vault!StrandedDepositIsRemembered
    /\ part = "shop" => Shop!PositionsAreTickets

\* The reserves of the demo's open tickets pass no cap, and a ticket has one
\* result, although identifiers repeat and markets are resolved again
\* (riskEngine.ts, routes/tickets.ts).
DemoIsConsistent ==
    /\ [](part = "demo" => Demo!ReservesStayWithinCaps)
    /\ Demo!ResultsAreFinal

=============================================================================
