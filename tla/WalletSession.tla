---------------------------- MODULE WalletSession ----------------------------
(***************************************************************************)
(* The wallet of the web application: signed in by email or connected to a *)
(* browser wallet.  A page that loads, and one whose address changes,      *)
(* restores what local storage holds; that check is cancelled by the next  *)
(* one, but its answer may arrive after the user did something else.  The  *)
(* balance is read in the background, and reads overtake each other.       *)
(***************************************************************************)
EXTENDS Integers

CONSTANTS
    Sessions, \* email sessions, each standing for its wallet's address too
    Account,  \* the account of the browser wallet
    Nobody,   \* no session, no address, no mode
    MaxActs   \* what the user does, and what fails

WalletSessionAssumption ==
    /\ Account \notin Sessions /\ MaxActs \in Nat
    /\ Nobody \notin Sessions \cup {Account, "connect", "signIn", "embedded", "injected"}

VARIABLES
    stored,   \* the session in local storage
    flag,     \* "connected" in local storage: reconnect the browser wallet
    valid,    \* sessions the server still accepts
    embedded, mode, address,
    rendered, \* the address the effects last ran for
    restores, \* restorations under way: the session read and how far they are
    busy,     \* connecting: what the user waits for
    reads,    \* balances on their way back
    balance,  \* whose balance is shown
    out,      \* the user disconnected last
    acts

vars == <<stored, flag, valid, embedded, mode, address, rendered, restores, busy, reads, balance, out, acts>>
storage == <<stored, flag>>
page == <<embedded, mode, address>>

Addresses == Sessions \cup {Account, Nobody}
Restore(s) == [session |-> s, pc |-> IF s = Nobody THEN "accounts" ELSE "check", live |-> TRUE]

Init ==
    /\ stored \in Sessions \cup {Nobody} /\ flag \in BOOLEAN /\ valid = Sessions
    /\ embedded = Nobody /\ mode = Nobody /\ address = Nobody /\ rendered = Nobody
    /\ restores = {Restore(stored)} /\ busy = Nobody
    /\ reads = {} /\ balance = Nobody /\ out = FALSE /\ acts = 0

Acts == acts < MaxActs /\ acts' = acts + 1

\* Mutant of Reads: a balance is asked for without an address.
ReadsNobody(a) == reads' = reads \cup {a}

\* An address whose balance is asked for; without one, none is shown.
Reads(a) == reads' = reads \cup ({a} \ {Nobody})

Shows(a) == balance' = IF a = Nobody THEN Nobody ELSE balance

---------------------------------------------------------------------------
(* The user. *)

\* The old session is dropped before the browser wallet has agreed.
Connect ==
    /\ busy = Nobody /\ Acts /\ busy' = "connect" /\ out' = FALSE
    /\ stored' = Nobody /\ embedded' = Nobody /\ mode' = "injected"
    /\ UNCHANGED <<flag, valid, address, rendered, restores, reads, balance>>

\* The browser wallet agrees, though the user may have disconnected meanwhile.
Connected ==
    /\ busy = "connect" /\ busy' = Nobody /\ out' = FALSE
    /\ address' = Account /\ flag' = TRUE /\ Reads(Account)
    /\ UNCHANGED <<stored, valid, embedded, mode, rendered, restores, balance, acts>>

\* The wallet refuses: the page stays half connected.
ConnectFails ==
    /\ busy = "connect" /\ busy' = Nobody
    /\ UNCHANGED <<storage, valid, page, rendered, restores, reads, balance, out, acts>>

SignIn ==
    /\ busy = Nobody /\ Acts /\ busy' = "signIn" /\ out' = FALSE
    /\ UNCHANGED <<storage, valid, page, rendered, restores, reads, balance>>

\* The server made session s: it takes the place of any other, and of none.
SignedIn(s) ==
    /\ busy = "signIn" /\ busy' = Nobody /\ valid' = valid \cup {s} /\ out' = FALSE
    /\ stored' = s /\ flag' = FALSE
    /\ embedded' = s /\ mode' = "embedded" /\ address' = s /\ Reads(s)
    /\ UNCHANGED <<rendered, restores, balance, acts>>

SignInFails ==
    /\ busy = "signIn" /\ busy' = Nobody
    /\ UNCHANGED <<storage, valid, page, rendered, restores, reads, balance, out, acts>>

\* Mutant of Cancelled: a restoration under way is left to finish.
StillLive(r) == r

\* The cleanup of the effect.
Cancelled(r) == [r EXCEPT !.live = FALSE]

\* The click is rendered at once, and the effects run again; the server may
\* not hear of it.  A connection or a sign-in under way is not called off: its
\* answer still takes effect.
Disconnect ==
    /\ address # Nobody /\ rendered = address /\ Acts
    /\ \E lost \in BOOLEAN : valid' = IF lost THEN valid ELSE valid \ {embedded}
    /\ stored' = Nobody /\ flag' = FALSE
    /\ embedded' = Nobody /\ mode' = Nobody /\ address' = Nobody /\ balance' = Nobody
    /\ rendered' = Nobody /\ restores' = {Cancelled(r) : r \in restores} \cup {Restore(Nobody)}
    /\ out' = TRUE /\ UNCHANGED <<busy, reads>>

\* The browser wallet's account is taken away, or given back.
AccountGone ==
    /\ mode = "injected" /\ Acts
    /\ flag' = FALSE /\ address' = Nobody /\ mode' = Nobody /\ balance' = Nobody
    /\ UNCHANGED <<stored, valid, embedded, rendered, restores, busy, reads, out>>

AccountBack ==
    /\ mode = "injected" /\ flag /\ address # Account /\ address' = Account /\ Reads(Account)
    /\ UNCHANGED <<storage, valid, embedded, mode, rendered, restores, busy, balance, out, acts>>

---------------------------------------------------------------------------
(* The page. *)

\* A render with another address: restoration and balance start again.
Render ==
    /\ rendered # address /\ rendered' = address
    /\ restores' = {Cancelled(r) : r \in restores} \cup {Restore(stored)}
    /\ Reads(address)
    /\ UNCHANGED <<storage, valid, page, busy, balance, out, acts>>

Becomes(r, e, m, a) ==
    IF r.live THEN embedded' = e /\ mode' = m /\ address' = a /\ Reads(a) /\ Shows(a)
    ELSE UNCHANGED <<page, reads, balance>>

\* The server accepts the session, or cannot be asked.
Restored(r) ==
    /\ r.pc = "check" /\ restores' = restores \ {r}
    /\ IF r.session \in valid THEN UNCHANGED acts ELSE Acts
    /\ Becomes(r, r.session, "embedded", r.session)
    /\ UNCHANGED <<storage, valid, rendered, busy, out>>

\* A session that is refused is wiped, cancelled or not, whichever it is now.
Wiped(r) ==
    /\ r.pc = "check" /\ r.session \notin valid
    /\ stored' = Nobody /\ restores' = (restores \ {r}) \cup {[r EXCEPT !.pc = "accounts"]}
    /\ UNCHANGED <<flag, valid, page, rendered, busy, reads, balance, out, acts>>

\* Without a session the browser wallet is taken, if it was connected.
Accounts(r) ==
    /\ r.pc = "accounts" /\ restores' = restores \ {r}
    /\ IF flag THEN Becomes(r, embedded, "injected", Account) ELSE Becomes(r, embedded, mode, Nobody)
    /\ UNCHANGED <<storage, valid, rendered, busy, out, acts>>

\* A read comes back for the address it was asked for, whatever is shown now.
Balance(a) ==
    /\ a \in reads /\ reads' = reads \ {a} /\ balance' = a
    /\ UNCHANGED <<storage, valid, page, rendered, restores, busy, out, acts>>

NoBalance(a) ==
    /\ a \in reads /\ Acts /\ reads' = reads \ {a} /\ balance' = Nobody
    /\ UNCHANGED <<storage, valid, page, rendered, restores, busy, out>>

\* Mutant of Due: the balance is only read when something changes.
NeverDue == FALSE

Due == address # Nobody /\ rendered = address /\ address \notin reads

\* Once a minute.
Again ==
    /\ Due /\ reads' = reads \cup {address}
    /\ UNCHANGED <<storage, valid, page, rendered, restores, busy, balance, out, acts>>

Expire(s) ==
    /\ s \in valid /\ Acts /\ valid' = valid \ {s}
    /\ UNCHANGED <<storage, page, rendered, restores, busy, reads, balance, out>>

Next ==
    \/ Connect \/ Connected \/ ConnectFails \/ SignIn \/ SignInFails \/ Disconnect
    \/ \E s \in Sessions : SignedIn(s) \/ Expire(s)
    \/ AccountGone \/ AccountBack \/ Render \/ Again
    \/ \E r \in restores : Restored(r) \/ Wiped(r) \/ Accounts(r)
    \/ \E a \in reads : Balance(a) \/ NoBalance(a)

Spec == Init /\ [][Next]_vars

\* The page renders, answers arrive and the interval fires.
FairSpec ==
    /\ Spec /\ WF_vars(Render) /\ WF_vars(Again)
    /\ WF_vars(\E r \in restores : Restored(r) \/ Wiped(r) \/ Accounts(r))
    /\ \A a \in Addresses : WF_vars(Balance(a))

---------------------------------------------------------------------------
(* Properties. *)

TypeOK ==
    /\ {stored, embedded} \subseteq Sessions \cup {Nobody} /\ {flag, out} \subseteq BOOLEAN /\ valid \subseteq Sessions
    /\ mode \in {Nobody, "embedded", "injected"} /\ {address, rendered, balance} \subseteq Addresses
    /\ \A r \in restores : r.session \in Sessions \cup {Nobody} /\ r.pc \in {"check", "accounts"} /\ r.live \in BOOLEAN
    /\ Nobody \notin reads /\ reads \subseteq Addresses /\ busy \in {Nobody, "connect", "signIn"} /\ acts \in 0..MaxActs

\* Whoever disconnected stays out but for a sign-in or a connection they asked
\* for, before or after: no answer to a restoration brings a session back.
DisconnectedStaysOut == out => address = Nobody /\ embedded = Nobody

\* The balance shown is in the end that of the address shown, although reads
\* for earlier addresses may arrive after it.
BalanceIsOfTheAddress == <>[](address # Nobody => balance = address)

=============================================================================
