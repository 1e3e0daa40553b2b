----------------------------- MODULE EmailLogin -----------------------------
(***************************************************************************)
(* Email codes, the wallet behind an email, and the sessions that act for  *)
(* it.  A code travels as a signed token and, on one instance, in a file;  *)
(* a login leaves a self-contained session token.  Counters, used codes,   *)
(* the wallet map and revocations live in the store, the wallets at the    *)
(* custodian.  A step of a call is one call to the store or the custodian. *)
(***************************************************************************)
EXTENDS Integers, FiniteSets

CONSTANTS
    Codes,          \* how many codes are requested
    Last,           \* how many calls are made with them
    Busy,           \* how many of them at a time
    MaxAttempts,    \* guesses in a window: MAX_ATTEMPTS
    MaxRequests,    \* codes in a window: OTP_REQUEST_MAX_PER_EMAIL
    Strategies,     \* how many ways of sending a transfer are tried
    MaxWindows,     \* how often a window ends
    MaxFaults       \* failed and unanswered calls, and lost maps

EmailLoginAssumption ==
    /\ {Codes, Last, Busy, MaxAttempts, MaxRequests, MaxWindows, MaxFaults} \subseteq Nat
    /\ Strategies \in Nat \ {0}

Calls == 1..Last
Nothing == 0

VARIABLES
    live, issued,   \* codes that have not expired; how many were mailed
    asked, guesses, \* the counters of requests and of guesses
    used,           \* codes whose jti is taken
    file, tries,    \* the code in the instance's file, and its attempts
    run,            \* what each call is doing
    map, wallets,   \* the wallet stored for the email; those at the custodian
    session,        \* the wallet in the session each login issued
    revoked, expired,
    sent,           \* transfers the custodian accepted, for each call
    logins,         \* how often a code's token and its file record logged in
    compared, resets, \* guesses compared in all; counters cleared or run out
    lost,           \* answers each call did not get
    blind,          \* a wallet was created without a look at all the others
    faults

vars == <<live, issued, asked, guesses, used, file, tries, run, map, wallets, session, revoked,
          expired, sent, logins, compared, resets, lost, blind, faults>>
mail == <<live, issued, asked>>
code == <<guesses, used, file, tries, logins, compared, resets>>
wallet == <<map, wallets, session, blind>>
tokens == <<revoked, expired>>
money == <<sent, lost>>

Labels == {"none", "consume", "clear", "map", "list", "create", "save", "check", "bind", "send", "revoke", "done"}
Idle == [pc |-> "none", code |-> Nothing, with |-> Nothing, way |-> 1, dead |-> FALSE, seen |-> {}]

Init ==
    /\ live = {} /\ issued = 0 /\ asked = 0 /\ guesses = 0 /\ used = {} /\ file = Nothing /\ tries = 0
    /\ run = [c \in Calls |-> Idle]
    /\ map = Nothing /\ wallets = {} /\ session = [c \in Calls |-> Nothing]
    /\ revoked = {} /\ expired = {}
    /\ sent = [c \in Calls |-> 0] /\ lost = [c \in Calls |-> 0]
    /\ logins = [i \in 1..Codes |-> [token |-> 0, file |-> 0]]
    /\ compared = 0 /\ resets = 0 /\ blind = FALSE /\ faults = 0

---------------------------------------------------------------------------
(* Asking for a code. *)

Fault == faults < MaxFaults /\ faults' = faults + 1

\* The request is counted before it is refused, and a refused one mails
\* nothing.  A new code takes the place of the last one in the file.
Request ==
    /\ issued < Codes /\ asked <= MaxRequests
    /\ asked' = asked + 1
    /\ \/ asked < MaxRequests /\ issued' = issued + 1 /\ live' = live \cup {issued + 1}
          /\ file' = issued + 1 /\ tries' = 0
       \/ asked >= MaxRequests /\ UNCHANGED <<issued, live, file, tries>>
    /\ UNCHANGED <<guesses, used, logins, compared, resets, run, wallet, tokens, money, faults>>

ExpireCode(i) ==
    /\ i \in live /\ live' = live \ {i}
    /\ UNCHANGED <<issued, asked, code, run, wallet, tokens, money, faults>>

\* The counters live for ten minutes from their first increment.
WindowEnds ==
    /\ resets < MaxWindows
    /\ \/ asked > 0 /\ asked' = 0 /\ UNCHANGED <<guesses, resets>>
       \/ guesses > 0 /\ guesses' = 0 /\ resets' = resets + 1 /\ UNCHANGED asked
    /\ UNCHANGED <<live, issued, used, file, tries, logins, compared, run, wallet, tokens, money, faults>>

---------------------------------------------------------------------------
(* Calls. *)

At(c, l) == run[c].pc = l
Goto(c, l) == run' = [run EXCEPT ![c].pc = l]

Leave(c) == run' = [run EXCEPT ![c] = [Idle EXCEPT !.pc = "done"]]

CanBegin(c) ==
    /\ At(c, "none") /\ \A d \in 1..(c - 1) : ~At(d, "none")
    /\ Cardinality({d \in Calls : run[d].pc \notin {"none", "done"}}) < Busy

\* Mutant of Permits: an attempt is counted after it was found wrong.
PermitsLater == guesses <= MaxAttempts

Permits == guesses < MaxAttempts

\* verify-otp with the token: an expired token is refused uncounted, any other
\* is counted before the code is compared.
VerifyToken(c, i, right) ==
    /\ CanBegin(c) /\ i \in live
    /\ guesses' = IF guesses <= MaxAttempts THEN guesses + 1 ELSE guesses
    /\ compared' = IF Permits THEN compared + 1 ELSE compared
    /\ IF Permits /\ right
         THEN run' = [run EXCEPT ![c] = [Idle EXCEPT !.pc = "consume", !.code = i]]
         ELSE Leave(c)
    /\ UNCHANGED <<mail, used, file, tries, logins, resets, wallet, tokens, money, faults>>

\* Mutant of FirstUse: the jti is stored and not looked at.
AnyUse(i) == TRUE

FirstUse(i) == i \notin used

Consume(c) ==
    LET i == run[c].code IN
    /\ At(c, "consume")
    /\ used' = used \cup {i}
    /\ IF FirstUse(i) THEN Goto(c, "clear") /\ logins' = [logins EXCEPT ![i].token = @ + 1]
                      ELSE Leave(c) /\ UNCHANGED logins
    /\ UNCHANGED <<mail, guesses, file, tries, compared, resets, wallet, tokens, money, faults>>

\* A login clears the counter of guesses and drops the file's record,
\* whichever code it is of.
Clear(c) ==
    /\ At(c, "clear")
    /\ guesses' = 0 /\ resets' = resets + 1
    /\ file' = Nothing /\ tries' = 0
    /\ Goto(c, "map")
    /\ UNCHANGED <<mail, used, logins, compared, wallet, tokens, money, faults>>

\* Mutant of TriesLeft: one guess more than the limit.
OneTryMore == tries <= MaxAttempts

TriesLeft == tries < MaxAttempts

\* verify-otp without the token, on the instance that has the record: it has
\* its own count of attempts, and does not take the jti.
VerifyFile(c, right) ==
    /\ CanBegin(c) /\ file # Nothing
    /\ IF file \in live /\ TriesLeft /\ right
         THEN run' = [run EXCEPT ![c] = [Idle EXCEPT !.pc = "map"]] /\ logins' = [logins EXCEPT ![file].file = @ + 1]
         ELSE Leave(c) /\ UNCHANGED logins
    /\ IF file \in live /\ TriesLeft /\ ~right
         THEN tries' = tries + 1 /\ UNCHANGED file
         ELSE file' = Nothing /\ tries' = 0
    /\ UNCHANGED <<mail, guesses, used, compared, resets, wallet, tokens, money, faults>>

---------------------------------------------------------------------------
(* The wallet of an email: createOrResumeCircleSession. *)

Session(c, w) == session' = [session EXCEPT ![c] = w]

ReadMap(c) ==
    /\ At(c, "map")
    /\ IF map # Nothing THEN Leave(c) /\ Session(c, map)
                        ELSE Goto(c, "list") /\ UNCHANGED session
    /\ UNCHANGED <<mail, code, map, wallets, blind, tokens, money, faults>>

\* Mutant of Recovered: only the map knows the wallet.
NothingRecovered == {}

Recovered == wallets

\* recoverFromCircle looks the wallet up by its reference.  A lookup that
\* fails counts as one that found nothing.
ListWallets(c) ==
    /\ At(c, "list")
    /\ \/ /\ UNCHANGED faults
          /\ IF Recovered = {} THEN run' = [run EXCEPT ![c].pc = "create", ![c].seen = wallets]
             ELSE \E w \in Recovered : run' = [run EXCEPT ![c].pc = "save", ![c].with = w]
          /\ UNCHANGED blind
       \/ Fault /\ Goto(c, "create") /\ blind' = (blind \/ wallets # {})
    /\ UNCHANGED <<mail, code, map, wallets, session, tokens, money>>

\* The custodian makes a wallet, and its answer may be lost.
CreateWallet(c) ==
    /\ At(c, "create")
    /\ wallets' = wallets \cup {c}
    /\ blind' = (blind \/ \E d \in Calls \ {c} : run[d].pc \in {"create", "save"} \/ d \in wallets \ run[c].seen)
    /\ \/ run' = [run EXCEPT ![c].pc = "save", ![c].with = c] /\ UNCHANGED faults
       \/ Fault /\ Leave(c)
    /\ UNCHANGED <<mail, code, map, session, tokens, money>>

SaveMap(c) ==
    /\ At(c, "save")
    /\ map' = run[c].with /\ Session(c, run[c].with)
    /\ Leave(c)
    /\ UNCHANGED <<mail, code, wallets, blind, tokens, money, faults>>

LoseMap ==
    /\ map # Nothing /\ Fault /\ map' = Nothing
    /\ UNCHANGED <<mail, code, run, wallets, session, blind, tokens, money>>

---------------------------------------------------------------------------
(* What a session does. *)

ExpireSession(s) ==
    /\ session[s] # Nothing /\ s \notin expired
    /\ expired' = expired \cup {s}
    /\ UNCHANGED <<mail, code, run, wallet, revoked, money, faults>>

Use(c, s, l) ==
    /\ CanBegin(c) /\ session[s] # Nothing
    /\ run' = [run EXCEPT ![c] = [Idle EXCEPT !.pc = l, !.with = s, !.dead = s \in revoked \cup expired]]
    /\ UNCHANGED <<mail, code, wallet, tokens, money, faults>>

\* Logging out asks only for a token that verifies.
Revoke(c) ==
    LET s == run[c].with IN
    /\ At(c, "revoke")
    /\ revoked' = IF s \in expired THEN revoked ELSE revoked \cup {s}
    /\ Leave(c)
    /\ UNCHANGED <<mail, code, wallet, expired, money, faults>>

\* requireCircleSession looks for a revocation first; the row of an expired
\* session is dropped, for the token's own date refuses it next.
CheckSession(c) ==
    LET s == run[c].with IN
    /\ At(c, "check")
    /\ IF s \in revoked \ expired THEN Leave(c) ELSE Goto(c, "bind")
    /\ revoked' = IF s \in expired THEN revoked \ {s} ELSE revoked
    /\ UNCHANGED <<mail, code, wallet, expired, money, faults>>

\* Mutant of Current: the token's date is not checked.
AnyDate(s) == TRUE

Current(s) == s \notin expired

\* The token names its wallet, and the map is made to agree.
BindWallet(c) ==
    LET s == run[c].with IN
    /\ At(c, "bind")
    /\ IF Current(s) THEN map' = session[s] /\ Goto(c, "send")
                     ELSE Leave(c) /\ UNCHANGED map
    /\ UNCHANGED <<mail, code, wallets, session, blind, tokens, money, faults>>

\* Mutant of NextWay: a transfer that was answered is tried the next way too.
NextWayAlways(c, answered) == run[c].way < Strategies

\* The next strategy is tried on any error, an answer that was lost included.
NextWay(c, answered) == ~answered /\ run[c].way < Strategies

Sends(c, accepted, answered) ==
    /\ sent' = IF accepted THEN [sent EXCEPT ![c] = @ + 1] ELSE sent
    /\ lost' = IF accepted /\ ~answered THEN [lost EXCEPT ![c] = @ + 1] ELSE lost
    /\ IF NextWay(c, answered) THEN run' = [run EXCEPT ![c].way = @ + 1]
       ELSE run' = [run EXCEPT ![c].pc = "done", ![c].seen = {}]

Send(c) ==
    /\ At(c, "send")
    /\ \/ Sends(c, TRUE, TRUE) /\ UNCHANGED faults
       \/ Fault /\ \E accepted \in BOOLEAN : Sends(c, accepted, FALSE)
    /\ UNCHANGED <<mail, code, wallet, tokens>>

---------------------------------------------------------------------------
Begin(c) ==
    \/ \E i \in 1..issued, right \in BOOLEAN : VerifyToken(c, i, right)
    \/ \E right \in BOOLEAN : VerifyFile(c, right)
    \/ \E s \in Calls, l \in {"check", "revoke"} : Use(c, s, l)

Step(c) ==
    \/ Consume(c) \/ Clear(c) \/ ReadMap(c) \/ ListWallets(c) \/ CreateWallet(c) \/ SaveMap(c)
    \/ Revoke(c) \/ CheckSession(c) \/ BindWallet(c) \/ Send(c)

Next ==
    \/ Request \/ WindowEnds \/ LoseMap
    \/ \E i \in 1..Codes : ExpireCode(i)
    \/ \E c \in Calls : Begin(c) \/ Step(c) \/ ExpireSession(c)

Spec == Init /\ [][Next]_vars

---------------------------------------------------------------------------
(* Properties. *)

TypeOK ==
    /\ live \subseteq 1..Codes /\ issued \in 0..Codes /\ asked \in 0..(MaxRequests + 1)
    /\ guesses \in 0..(MaxAttempts + 1) /\ used \subseteq 1..Codes
    /\ file \in 0..Codes /\ tries \in 0..MaxAttempts
    /\ run \in [Calls -> [pc : Labels, code : 0..Codes, with : 0..Last, way : 1..(Strategies + 1), dead : BOOLEAN, seen : SUBSET Calls]]
    /\ map \in 0..Last /\ wallets \subseteq Calls /\ session \in [Calls -> 0..Last]
    /\ revoked \subseteq Calls /\ expired \subseteq Calls
    /\ \A c \in Calls : sent[c] \in 0..Strategies /\ lost[c] \in 0..sent[c]
    /\ logins \in [1..Codes -> [token : Nat, file : Nat]]
    /\ compared \in Nat /\ resets \in Nat /\ blind \in BOOLEAN /\ faults \in 0..MaxFaults

\* A code's token logs in once, however many calls carry it at a time, and so
\* does its record in the file.
CodeWorksOnce == \A i \in 1..Codes : logins[i].token <= 1 /\ logins[i].file <= 1

\* Between two resets of the counter, a login's or the window's, no more codes
\* are compared than the limit, however the calls overlap.
GuessesAreBounded == compared <= MaxAttempts * (resets + 1)

\* The email keeps one wallet through logouts, lost maps and lost answers,
\* unless a lookup failed or two first logins ran at once, and every session
\* and the map name it.
OneWalletPerEmail ==
    ~blind => /\ Cardinality(wallets) <= 1
              /\ \A c \in Calls : session[c] # Nothing => wallets = {session[c]}
              /\ map # Nothing => wallets = {map}

\* A call that begins after the session was revoked, or ran out, sends nothing.
LoggedOutActsNoMore == \A c \in Calls : run[c].dead => sent[c] = 0

\* A request moves the money once, and once more only for an answer that was
\* lost: the custodian took the transfer and the next strategy sent it again.
OneTransferPerRequest == \A c \in Calls : sent[c] <= 1 + lost[c]

=============================================================================
