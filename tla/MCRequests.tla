----------------------------- MODULE MCRequests -----------------------------
(***************************************************************************)
(* Small instances of the machines in which requests of users meet one     *)
(* another: signing in by email and sending from the wallet (EmailLogin),  *)
(* the wallets with keys of the API's own (ServerWallet), the portfolio    *)
(* (Portfolio), the live feed (LiveFeed), the price a ticket was opened at *)
(* (TicketOpening), the prints kept for a round (RawTicks), and a product  *)
(* tour that asks for a round while the market cycle makes one             *)
(* (MarketCycle).  They share no state, so one run explores each by        *)
(* itself: `part' says which, and the variables of the others keep their   *)
(* initial values.                                                         *)
(***************************************************************************)
EXTENDS Integers, Sequences, FiniteSets

CONSTANTS
    Codes, Logins, Busy, MaxAttempts, MaxRequests, Strategies, MaxWindows, LoginFaults, \* of EmailLogin
    Blocks, Recent, Readers, Winners, ReadFaults,                                      \* of Portfolio
    Full, Lite, FeedWorkers, Lag, Life, StaleMax, TickMax, Fresh, MaxTime, MaxRestarts, \* of LiveFeed
    Lists, Routes, MaxAge, Retained, Reach, ReadingAge,                                \* of TicketOpening
    Interval, Slack, Stale, Lead,                                                      \* of RawTicks
    Procs, Tours, MaxRounds, Nobody, Crashed, StoreMayFail, MaxIncidents,              \* of MarketCycle
    Emails, Old, Orders, MaxKeys, MaxLogouts, KeyFaults                                \* of ServerWallet

VARIABLES
    part,
    live, issued, asked, guesses, used, file, tries, login, map, wallets, session, revoked,
    expired, sent, logins, compared, resets, lost, blind, loginFaults,
    head, market, bought, active, entry, maps, request, missed, readFaults,
    feedTime, feedCache, good, series, stored, hydrated, answered, loading, feedCall, feedTick,
    restarts,
    age, prints, first, saved, call,
    now, start, value, ticks, polled,
    status, roundAge, settled, cache, load, desk, hidden, lease, run, calm, incidents,
    circle, strict, custody, keyFile, made, tokens, ended, keyCall, from, out, unanswered, wiped,
    keyFaults

Login == INSTANCE EmailLogin WITH
    Last <- Logins, MaxFaults <- LoginFaults, run <- login, faults <- loginFaults

Owned == INSTANCE Portfolio WITH
    Last <- Blocks, MaxFaults <- ReadFaults, chain <- bought, run <- request, faults <- readFaults

Feed == INSTANCE LiveFeed WITH
    Workers <- FeedWorkers, now <- feedTime, cache <- feedCache, call <- feedCall,
    tick <- feedTick

Opening == INSTANCE TicketOpening WITH Lag <- ReadingAge

Prints == INSTANCE RawTicks

Cycle == INSTANCE MarketCycle WITH age <- roundAge

Keys == INSTANCE ServerWallet WITH
    Last <- Orders, MaxFaults <- KeyFaults, file <- keyFile, revoked <- ended, call <- keyCall,
    sent <- out, lost <- unanswered, faults <- keyFaults

loginVars == <<live, issued, asked, guesses, used, file, tries, login, map, wallets, session,
               revoked, expired, sent, logins, compared, resets, lost, blind, loginFaults>>
ownedVars == <<head, market, bought, active, entry, maps, request, missed, readFaults>>
feedVars == <<feedTime, feedCache, good, series, stored, hydrated, answered, loading, feedCall,
              feedTick, restarts>>
openingVars == <<age, prints, first, saved, call>>
printVars == <<now, start, value, ticks, polled>>
cycleVars == <<status, roundAge, settled, cache, load, desk, hidden, lease, run, calm, incidents>>
keyVars == <<circle, strict, custody, keyFile, made, tokens, ended, keyCall, from, out, unanswered,
             wiped, keyFaults>>

ASSUME RequestsAssumption ==
    /\ Login!EmailLoginAssumption /\ Owned!PortfolioAssumption /\ Feed!LiveFeedAssumption
    /\ Opening!TicketOpeningAssumption /\ Prints!RawTicksAssumption
    /\ Cycle!CycleAssumption /\ Keys!ServerWalletAssumption

Init ==
    /\ part \in {"login", "owned", "feed", "opening", "prints", "cycle", "keys"}
    /\ Login!Init /\ Owned!Init /\ Feed!Init /\ Opening!Init /\ Prints!Init
    /\ Cycle!Init /\ Keys!Init
    /\ part # "opening" => prints = {}
    /\ part # "prints" => start = Interval + Lead
    /\ part # "keys" => ~circle /\ ~strict

Next ==
    /\ part' = part
    /\ \/ /\ part = "login" /\ Login!Next
          /\ UNCHANGED <<ownedVars, feedVars, openingVars, printVars, cycleVars, keyVars>>
       \/ /\ part = "owned" /\ Owned!Next
          /\ UNCHANGED <<loginVars, feedVars, openingVars, printVars, cycleVars, keyVars>>
       \/ /\ part = "feed" /\ Feed!Next
          /\ UNCHANGED <<loginVars, ownedVars, openingVars, printVars, cycleVars, keyVars>>
       \/ /\ part = "opening" /\ Opening!Next
          /\ UNCHANGED <<loginVars, ownedVars, feedVars, printVars, cycleVars, keyVars>>
       \/ /\ part = "prints" /\ Prints!Next
          /\ UNCHANGED <<loginVars, ownedVars, feedVars, openingVars, cycleVars, keyVars>>
       \/ /\ part = "cycle" /\ Cycle!Next
          /\ UNCHANGED <<loginVars, ownedVars, feedVars, openingVars, printVars, keyVars>>
       \/ /\ part = "keys" /\ Keys!Next
          /\ UNCHANGED <<loginVars, ownedVars, feedVars, openingVars, printVars, cycleVars>>

vars ==
    <<part, loginVars, ownedVars, feedVars, openingVars, printVars, cycleVars, keyVars>>

Spec == Init /\ [][Next]_vars

\* Two bounds.  Once a list has lagged behind the chain, which is for good, the
\* cycle's property says nothing more.  A capture reads nothing that outlives a
\* restart, so after one it does only what it does before.
Explored ==
    /\ part = "cycle" => calm
    /\ restarts > 0 => \A w \in FeedWorkers : feedCall[w].pc = "idle"

\* What the variables of the seven machines may hold.
TypeOK ==
    /\ part = "login" => Login!TypeOK
    /\ part = "owned" => Owned!TypeOK
    /\ part = "feed" => Feed!TypeOK
    /\ part = "opening" => Opening!TypeOK
    /\ part = "prints" => Prints!TypeOK
    /\ part = "cycle" => Cycle!TypeOK
    /\ part = "keys" => Keys!TypeOK

\* A mailed code logs in once, and between two resets of the counter only so
\* many guesses are compared, however the calls overlap (emailOtpService.ts).
CodesAreSafe == part = "login" => Login!CodeWorksOnce /\ Login!GuessesAreBounded

\* One email keeps one wallet, one request to send is one transfer, and a
\* revoked or expired session sends nothing (circleWalletService.ts,
\* signedSession.ts).  With the API's own keys a request is signed by the
\* wallet its token names, an email keeps the key it was first given, and a
\* transfer is repeated only for an answer of App Kit that was lost
\* (sessionWalletService.ts).
WalletsAreSafe ==
    /\ part = "login" =>
          /\ Login!OneWalletPerEmail /\ Login!OneTransferPerRequest
          /\ Login!LoggedOutActsNoMore
    /\ part = "keys" =>
          /\ Keys!TokenNamesTheSigner /\ Keys!FirstKeyIsKept
          /\ Keys!OneSendPerRequest /\ Keys!LoggedOutSendsNothing

\* No scan passes a ticket although requests share the map it fills, and a
\* result that is shown is the market's (onchainService.ts).
PortfolioIsComplete == part = "owned" => Owned!NoTicketIsPassed /\ Owned!ResultsAreTrue

\* Providers answering in any order, the history stays in the order of time,
\* only a recent reading becomes a tick, and the visitors share one load
\* (onchainService.ts).
FeedIsSound ==
    part = "feed" => Feed!HistoryAscends /\ Feed!TicksAreFresh /\ Feed!OneLoadAtATime

\* A price once decided on is kept: what a ticket opened at, with its mark, and
\* the print of a round's start, of which there is at most one
\* (ticketOpenings.ts, rawTicks.ts).
PricesAreKept ==
    /\ [](part = "opening" => Opening!MarksAreTrue)
    /\ Opening!OpeningStays
    /\ [](part = "prints" => Prints!SelectionIsUnique)
    /\ Prints!StartPrintStays

\* Tour and cycle do not both make a round (marketCreateLock.ts).
OneRoundAtATime == part = "cycle" => Cycle!OneRoundAtATime

=============================================================================
