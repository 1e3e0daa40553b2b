----------------------------- MODULE ServerWallet -----------------------------
(***************************************************************************)
(* The wallets that the API keeps for email users: keys in a file of one   *)
(* instance, encrypted, until Circle is configured; from then on new       *)
(* logins get a wallet at Circle.  A request shows a session token and the *)
(* email it is for, and moves USDC or calls a contract: over Circle, or    *)
(* with the key of the file, over App Kit and then by itself.  Sessions at *)
(* Circle and its transfers are EmailLogin's.                              *)
(***************************************************************************)
EXTENDS Integers, FiniteSets

CONSTANTS
    Emails,
    Old,       \* emails with a wallet from before tokens were signed
    Last,      \* requests of the model
    MaxKeys,   \* keys made for an email
    MaxLogouts,
    MaxFaults  \* failed calls, rotated encryption keys, lost disks

ServerWalletAssumption ==
    Old \subseteq Emails /\ MaxKeys \in Nat \ {0} /\ {Last, MaxLogouts, MaxFaults} \subseteq Nat

VARIABLES
    circle, strict, \* Circle is configured; APP_KIT_STRICT is set
    custody,   \* emails with a wallet at Circle
    file,      \* the key of each email in the file: which one, readable, opaque token
    made,      \* how many keys each email was given
    tokens, revoked, \* session tokens issued; revoked
    call,      \* what each request is doing
    from,      \* the wallets that signed for it
    sent, lost, \* how often it was sent; of these, how often without an answer
    wiped,     \* a disk was lost
    faults

vars == <<circle, strict, custody, file, made, tokens, revoked, call, from, sent, lost, wiped, faults>>
deploy == <<circle, strict, wiped>>
keys == <<custody, file, made, tokens, revoked>>
effects == <<from, sent, lost>>

Calls == 1..Last
Kinds == {"write", "transfer"}
AtCircle == 0
NoKey == [n |-> 0, readable |-> TRUE, opaque |-> FALSE]
\* A token names its email and wallet; an opaque one is only known by its hash.
Token(e, n, kind) == [email |-> e, key |-> n, provider |-> kind]
NoToken == [email |-> "none", key |-> 0, provider |-> "none"]
Idle == [pc |-> "none", kind |-> "write", token |-> NoToken, email |-> "none", dead |-> FALSE]

Init ==
    /\ circle \in BOOLEAN /\ strict \in BOOLEAN /\ custody = {}
    /\ file = [e \in Emails |-> IF e \in Old THEN [NoKey EXCEPT !.n = 1, !.opaque = TRUE] ELSE NoKey]
    /\ made = [e \in Emails |-> IF e \in Old THEN 1 ELSE 0]
    /\ tokens = {Token(e, 1, "opaque") : e \in Old} /\ revoked = {}
    /\ call = [c \in Calls |-> Idle]
    /\ from = [c \in Calls |-> {}] /\ sent = [c \in Calls |-> 0] /\ lost = [c \in Calls |-> 0]
    /\ wiped = FALSE /\ faults = 0

Fault == faults < MaxFaults /\ faults' = faults + 1

---------------------------------------------------------------------------
(* Wallets and sessions. *)

\* Mutant of Loaded: a key that cannot be decrypted is dropped.
ReadableOnly(f) == [e \in Emails |-> IF f[e].readable THEN f[e] ELSE NoKey]

\* loadStore: a key that cannot be decrypted stays as it is in the file.
Loaded(f) == f

\* createOrResumeSession, after the code was verified: one synchronous step
\* from reading the file to writing it.
Login(e) ==
    /\ IF circle
         THEN /\ custody' = custody \cup {e} /\ tokens' = tokens \cup {Token(e, AtCircle, "circle")}
              /\ UNCHANGED <<file, made>>
         ELSE LET found == Loaded(file)[e].n IN
              /\ found = 0 => made[e] < MaxKeys
              /\ made' = IF found = 0 THEN [made EXCEPT ![e] = @ + 1] ELSE made
              /\ file' = IF found = 0 THEN [Loaded(file) EXCEPT ![e] = [NoKey EXCEPT !.n = made[e] + 1]]
                                      ELSE Loaded(file)
              /\ tokens' = tokens \cup {Token(e, file'[e].n, "local")}
              /\ UNCHANGED custody
    /\ UNCHANGED <<deploy, revoked, call, effects, faults>>

\* logoutSession: only a signed token can be revoked.
Logout(t) ==
    /\ Cardinality(revoked) < MaxLogouts
    /\ t.provider # "opaque" /\ t \notin revoked /\ revoked' = revoked \cup {t}
    /\ UNCHANGED <<deploy, custody, file, made, tokens, call, effects, faults>>

---------------------------------------------------------------------------
(* Deployments: the requests under way end with the process. *)

Killed == [c \in Calls |-> IF call[c].pc = "none" THEN call[c] ELSE [call[c] EXCEPT !.pc = "done"]]

ConfigureCircle ==
    /\ ~circle /\ circle' = TRUE /\ call' = Killed
    /\ UNCHANGED <<strict, wiped, keys, effects, faults>>

RotateKey ==
    /\ Fault /\ call' = Killed
    /\ file' = [e \in Emails |-> IF file[e].n = 0 THEN file[e] ELSE [file[e] EXCEPT !.readable = FALSE]]
    /\ UNCHANGED <<deploy, custody, made, tokens, revoked, effects>>

LoseDisk ==
    /\ Fault /\ call' = Killed /\ wiped' = TRUE /\ file' = [e \in Emails |-> NoKey]
    /\ UNCHANGED <<circle, strict, custody, made, tokens, revoked, effects>>

---------------------------------------------------------------------------
(* Requests: writeContractForSession and transferUsdcForSession. *)

At(c, l) == call[c].pc = l
Goto(c, l) == call' = [call EXCEPT ![c].pc = l]

\* A contract that is not on the list, a bad address or amount: refused.
Begin(c, k, t, e) ==
    /\ At(c, "none") /\ \A d \in 1..(c - 1) : ~At(d, "none")
    /\ \E valid \in BOOLEAN :
          call' = [call EXCEPT ![c] =
            [pc |-> IF ~valid THEN "done" ELSE IF circle THEN "circle" ELSE "session",
             kind |-> k, token |-> t, email |-> e, dead |-> t \in revoked]]
    /\ UNCHANGED <<deploy, keys, effects, faults>>

\* "Circle session not found": an opaque token for an email that Circle has no
\* wallet of.
NotFound(c) == call[c].token.provider = "opaque" /\ call[c].email \notin custody

\* requireCircleSession, as EmailLogin has it.
CircleAccepts(c) ==
    LET t == call[c].token IN t \notin revoked /\ t.provider = "circle" /\ t.email = call[c].email

CircleSession(c) ==
    /\ At(c, "circle")
    /\ IF CircleAccepts(c) THEN Goto(c, IF call[c].kind = "write" THEN "execute" ELSE "done")
       ELSE Goto(c, IF NotFound(c) THEN "session" ELSE "done")
    /\ UNCHANGED <<deploy, keys, effects, faults>>

\* recoverFromCircle takes a failed search for no wallet.
RecoveryFails(c) ==
    /\ At(c, "circle") /\ call[c].token \notin revoked /\ call[c].token.provider = "opaque"
    /\ Fault /\ Goto(c, "session")
    /\ UNCHANGED <<deploy, keys, effects>>

\* Out of the wallet w; only an answer that came ends the request well.
Send(c, w, accepted, answered) ==
    IF accepted
      THEN /\ sent' = [sent EXCEPT ![c] = @ + 1] /\ from' = [from EXCEPT ![c] = @ \cup {w}]
           /\ lost' = IF answered THEN lost ELSE [lost EXCEPT ![c] = @ + 1]
      ELSE UNCHANGED effects

\* Goes well, or fails with the transaction sent or not.
Sends(c, w, well, failed) ==
    \/ Send(c, w, TRUE, TRUE) /\ Goto(c, well) /\ UNCHANGED faults
    \/ Fault /\ Goto(c, failed) /\ \E accepted \in BOOLEAN : Send(c, w, accepted, FALSE)

\* writeContractViaCircle asks for the execution once, and waits for its hash.
Execute(c) ==
    /\ At(c, "execute")
    /\ Sends(c, <<call[c].email, AtCircle>>, "done", IF NotFound(c) THEN "session" ELSE "done")
    /\ UNCHANGED <<deploy, keys>>

\* A revocation is looked up in the store, before the file is read.
Session(c) ==
    /\ At(c, "session") /\ Goto(c, IF call[c].token \in revoked THEN "done" ELSE "key")
    /\ UNCHANGED <<deploy, keys, effects, faults>>

\* Mutant of Names: the wallet of the email is used, whichever the token is for.
NamesTheEmail(t, rec) == TRUE

\* The token and the record of the file are for the same wallet.
Names(t, rec) == t.key = rec.n

\* requireSession: the email is the token's, the record is there and the same
\* wallet; an opaque token is compared with the record's hash.
KeyFits(c) ==
    LET t == call[c].token rec == Loaded(file)[call[c].email] IN
    /\ t.email = call[c].email /\ rec.n # 0
    /\ \/ t.provider = "local" /\ Names(t, rec)
       \/ t.provider = "opaque" /\ rec.opaque

\* A key that could not be decrypted is no key.  A transfer is not for the
\* wallet itself.
UseKey(c) ==
    LET rec == Loaded(file)[call[c].email] IN
    /\ At(c, "key") /\ file' = Loaded(file)
    /\ IF KeyFits(c) /\ rec.readable
         THEN Goto(c, IF call[c].kind = "write" THEN "node" ELSE "kit") ELSE Goto(c, "done")
    /\ UNCHANGED <<deploy, custody, made, tokens, revoked, effects, faults>>

Signer(c) == <<call[c].email, file[call[c].email].n>>

\* Mutant of FallsBack: the flag is not looked at.
AlwaysFallsBack == "node"

\* "No silent fallback".
FallsBack == IF strict THEN "done" ELSE "node"

\* sendUsdcViaAppKit.  An error after the transfer was sent, a missing hash
\* among them, is an error as any.
Kit(c) ==
    /\ At(c, "kit") /\ Sends(c, Signer(c), "done", FallsBack)
    /\ UNCHANGED <<deploy, keys>>

\* sendTransaction of the instance's own key; the receipt is waited for, and
\* whatever it says the hash is the answer.
Node(c) ==
    /\ At(c, "node") /\ Sends(c, Signer(c), "done", "done")
    /\ UNCHANGED <<deploy, keys>>

---------------------------------------------------------------------------
Requested ==
    \E c \in Calls, k \in Kinds, t \in tokens, e \in Emails : Begin(c, k, t, e)

Step(c) ==
    CircleSession(c) \/ RecoveryFails(c) \/ Execute(c) \/ Session(c) \/ UseKey(c) \/ Kit(c) \/ Node(c)

Next ==
    \/ \E e \in Emails : Login(e)
    \/ \E t \in tokens : Logout(t)
    \/ ConfigureCircle \/ RotateKey \/ LoseDisk
    \/ Requested \/ \E c \in Calls : Step(c)

Spec == Init /\ [][Next]_vars

---------------------------------------------------------------------------
(* Properties. *)

Tokens == {NoToken} \cup
    [email : Emails, key : 0..MaxKeys, provider : {"circle", "local", "opaque"}]

TypeOK ==
    /\ {circle, strict, wiped} \subseteq BOOLEAN /\ custody \subseteq Emails
    /\ file \in [Emails -> [n : 0..MaxKeys, readable : BOOLEAN, opaque : BOOLEAN]]
    /\ made \in [Emails -> 0..MaxKeys] /\ tokens \subseteq Tokens /\ revoked \subseteq tokens
    /\ \A c \in Calls :
          /\ call[c].pc \in {"none", "circle", "execute", "session", "key", "kit", "node", "done"}
          /\ call[c].kind \in Kinds /\ call[c].token \in Tokens
          /\ sent[c] \in 0..3 /\ lost[c] \in 0..sent[c] /\ from[c] \subseteq Emails \X (0..MaxKeys)
    /\ faults \in 0..MaxFaults

\* A request is signed by the wallet its token was issued for and by no other:
\* not by a key made after the disk was lost, nor by another user's.
TokenNamesTheSigner ==
    \A c \in Calls : from[c] \subseteq {<<call[c].token.email, call[c].token.key>>}

\* A request that begins after its token was revoked sends nothing.
LoggedOutSendsNothing == \A c \in Calls : call[c].dead => sent[c] = 0

\* An email keeps its first key, through logins, requests and rotated
\* encryption keys, until a disk is lost.
FirstKeyIsKept ==
    ~wiped => \A e \in Emails : made[e] <= 1 /\ file[e].n = made[e]

\* A contract call goes out once, and with APP_KIT_STRICT a transfer does too;
\* without it a transfer goes out once more for each answer that was lost: App
\* Kit had sent it, and the instance's own transfer follows.
OneSendPerRequest ==
    \A c \in Calls :
      /\ sent[c] <= 1 + lost[c]
      /\ call[c].kind = "write" \/ strict => sent[c] <= 1

=============================================================================
