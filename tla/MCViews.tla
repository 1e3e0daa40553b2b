------------------------------ MODULE MCViews ------------------------------
(***************************************************************************)
(* Small instances of the machines that show the state of the chain to     *)
(* somebody: of the API, the list of rounds the cycle settles              *)
(* (MarketBoard), the tracker of transactions (TxTracker) and the          *)
(* portfolio (Portfolio); of the web application, the wallet               *)
(* (WalletSession) and the page of a round (RoundPage).  They share no     *)
(* state, so one run explores each by itself: `part' says which, and the   *)
(* variables of the others keep their initial values.                      *)
(***************************************************************************)
EXTENDS Integers

CONSTANTS
    MaxRounds, Limit, LoadFaults,                   \* of MarketBoard
    Server, Client, Pollers, MaxReads, MaxClock,    \* of TxTracker
    Blocks, Recent, Readers, Winners, ReadFaults,   \* of Portfolio
    Sessions, Account, Nobody, MaxActs,             \* of WalletSession
    PageFaults                                      \* of RoundPage

VARIABLES
    part,
    chain, hidden, pinned, file, cache, load, making, reset, left, boardFaults,
    tx, rec, run, recorded, misjudged, overwrote, reads, clock,
    head, market, bought, active, entry, maps, request, missed, readFaults,
    stored, flag, valid, embedded, mode, address, rendered, restores, busy, asked, balance,
    out, acts,
    contract, record, deciding, listed, poll, page, evidence, pageFaults

Board == INSTANCE MarketBoard WITH MaxFaults <- LoadFaults, faults <- boardFaults

Tracker == INSTANCE TxTracker

Tickets == INSTANCE Portfolio WITH
    Last <- Blocks, MaxFaults <- ReadFaults, chain <- bought, run <- request, faults <- readFaults

Wallet == INSTANCE WalletSession WITH reads <- asked

Page == INSTANCE RoundPage WITH
    MaxFaults <- PageFaults, market <- page, faults <- pageFaults

boardVars == <<chain, hidden, pinned, file, cache, load, making, reset, left, boardFaults>>
trackerVars == <<tx, rec, run, recorded, misjudged, overwrote, reads, clock>>
ticketVars == <<head, market, bought, active, entry, maps, request, missed, readFaults>>
walletVars == <<stored, flag, valid, embedded, mode, address, rendered, restores, busy, asked,
                balance, out, acts>>
pageVars == <<contract, record, deciding, listed, poll, page, evidence, pageFaults>>

ASSUME ViewsAssumption ==
    /\ Board!MarketBoardAssumption /\ Tracker!TxTrackerAssumption
    /\ Tickets!PortfolioAssumption /\ Wallet!WalletSessionAssumption
    /\ Page!RoundPageAssumption

Init ==
    /\ part \in {"board", "tracker", "tickets", "wallet", "page"}
    /\ Board!Init /\ Tracker!Init /\ Tickets!Init /\ Wallet!Init /\ Page!Init
    /\ part # "wallet" => stored = Nobody /\ ~flag
    /\ part # "page" => listed.status = "none"

Next ==
    /\ part' = part
    /\ \/ /\ part = "board" /\ Board!Next
          /\ UNCHANGED <<trackerVars, ticketVars, walletVars, pageVars>>
       \/ /\ part = "tracker" /\ Tracker!Next
          /\ UNCHANGED <<boardVars, ticketVars, walletVars, pageVars>>
       \/ /\ part = "tickets" /\ Tickets!Next
          /\ UNCHANGED <<boardVars, trackerVars, walletVars, pageVars>>
       \/ /\ part = "wallet" /\ Wallet!Next
          /\ UNCHANGED <<boardVars, trackerVars, ticketVars, pageVars>>
       \/ /\ part = "page" /\ Page!Next
          /\ UNCHANGED <<boardVars, trackerVars, ticketVars, walletVars>>

\* The fairness each machine states, while it is the one that runs.
FairBoard ==
    /\ WF_boardVars(part = "board" /\ \E r \in Board!Rounds : Board!End(r))
    /\ WF_boardVars(part = "board" /\ Board!StartLoad)
    /\ WF_boardVars(part = "board" /\ Board!EndLoad)
    /\ \A m \in Board!Makers : WF_boardVars(part = "board" /\ Board!Expose(m))
    /\ \A r \in 1..MaxRounds : SF_boardVars(part = "board" /\ r \in Board!Rounds /\ Board!Resolve(r))

FairTracker ==
    /\ WF_trackerVars(part = "tracker" /\ Tracker!Tick)
    /\ \A a \in Tracker!Recorders : WF_trackerVars(part = "tracker" /\ Tracker!WriteRecord(a))
    /\ \A p \in Pollers :
          /\ WF_trackerVars(part = "tracker" /\ Tracker!StartPoll(p))
          /\ WF_trackerVars(part = "tracker" /\ (Tracker!Poll(p) \/ Tracker!NoReceipt(p)))

FairTickets ==
    /\ WF_ticketVars(part = "tickets" /\ Tickets!RefreshList)
    /\ \A r \in Readers :
          /\ WF_ticketVars(part = "tickets" /\ Tickets!Begin(r))
          /\ WF_ticketVars(part = "tickets" /\ Tickets!Step(r))

FairWallet ==
    /\ WF_walletVars(part = "wallet" /\ Wallet!Render)
    /\ WF_walletVars(part = "wallet" /\ Wallet!Again)
    /\ WF_walletVars(part = "wallet" /\ \E r \in restores :
          Wallet!Restored(r) \/ Wallet!Wiped(r) \/ Wallet!Accounts(r))
    /\ \A a \in Wallet!Addresses : WF_walletVars(part = "wallet" /\ Wallet!Balance(a))

FairPage == \A p \in Page!Polls : WF_pageVars(part = "page" /\ Page!Step(p))

FairSpec ==
    /\ Init /\ [][Next]_<<part, boardVars, trackerVars, ticketVars, walletVars, pageVars>>
    /\ FairBoard /\ FairTracker /\ FairTickets /\ FairWallet /\ FairPage

\* What the variables of the five machines may hold.
TypeOK ==
    /\ part = "board" => Board!TypeOK
    /\ part = "tracker" => Tracker!TypeOK
    /\ part = "tickets" => Tickets!TypeOK
    /\ part = "wallet" => Wallet!TypeOK
    /\ part = "page" => Page!TypeOK

\* Whoever disconnects stays out but for a sign-in or a connection of their own:
\* no answer to a restoration brings a session back (wallet.tsx).
DisconnectedStaysOut == part = "wallet" => Wallet!DisconnectedStaysOut

\* A stored status of a transaction is the chain's, and a final one is taken
\* back by no poll, reload or recording, but for a recorder that read the record
\* before it was final and a poll that gave up without a receipt
\* (txTrackerService.ts).  The badge of a final round is the contract's verdict,
\* and the evidence it was decided from does not contradict it
\* (onchainService.ts, MarketLiveChart.tsx).
StatusesAreTrue ==
    /\ [](part = "tracker" => Tracker!StatusIsTrue) /\ Tracker!FinalStays
    /\ [](part = "page" => Page!BadgeIsTheVerdict /\ Page!FrozenEvidenceAgrees)

\* What comes to be so holds of every machine that does not run: it is so in
\* its initial state.

\* A round that stays on the list is settled (onchainService.ts).
ListedRoundsAreSettled == Board!ListedRoundsAreSettled

\* A recorded transaction comes to a final status (txTrackerService.ts).
EveryTxEnds == Tracker!EveryTxEnds

\* A settled ticket does not go on being shown as open, and a resolved round
\* comes to be shown with its verdict for good (onchainService.ts).
DecisionsAreShown == Tickets!SettledTicketsAreShown /\ Page!VerdictIsShown

\* The balance shown comes to be that of the address shown (wallet.tsx).
BalanceIsOfTheAddress == Wallet!BalanceIsOfTheAddress

=============================================================================
