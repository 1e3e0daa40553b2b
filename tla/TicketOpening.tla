---------------------------- MODULE TicketOpening ----------------------------
(***************************************************************************)
(* The opening price of one ticket: the reference price it was bought at,  *)
(* bound once.  The listing binds it when it first shows the ticket, the   *)
(* public route when it is called; both look for a record, await a price   *)
(* and store it, and several calls may do so at the same time.  The route  *)
(* looks for a tick near the purchase; the worker stores ticks only near   *)
(* the boundaries of rounds, so there may be none.  Time is counted from   *)
(* the purchase.                                                           *)
(***************************************************************************)
EXTENDS Integers

CONSTANTS
    Lists, Routes, \* calls of the listing and of the route
    MaxAge,        \* last moment after the purchase
    Retained,      \* how long a tick is kept
    Reach,         \* how far from the purchase its tick may be
    Lag            \* how old a provider's reading may be

TicketOpeningAssumption == {MaxAge, Retained, Reach, Lag} \subseteq Nat

VARIABLES
    age,    \* time since the purchase
    prints, \* the times of the ticks stored near the purchase
    first,  \* when the first of them was stored
    saved,  \* the stored record: its price is that of a moment, or missing
    call    \* what each call is about to store

vars == <<age, prints, first, saved, call>>
feed == <<prints, first>>

Calls == Lists \cup Routes
Near == -Reach..Reach
Never == MaxAge + 1
None == [at |-> 0, note |-> "none"]
Missing == [at |-> 0, note |-> "missing"]
Price(n, note) == [at |-> n, note |-> note]

\* A boundary just before the purchase has left ticks, or not.
Init ==
    /\ age = 0 /\ saved = None /\ call = [c \in Calls |-> None]
    /\ prints \in SUBSET (-Reach..0) /\ first = IF prints = {} THEN Never ELSE 0

Tick == age < MaxAge /\ age' = age + 1 /\ UNCHANGED <<feed, saved, call>>

\* The worker, at a boundary near the purchase, stores the print of a time n.
Poll(n) ==
    /\ n \in Near /\ age - Lag <= n /\ n <= age
    /\ prints' = prints \cup {n} /\ first' = IF first = Never THEN age ELSE first
    /\ UNCHANGED <<age, saved, call>>

HasPrice(r) == r # None /\ r # Missing

\* The listing asks for the price of now, when the record has none; feeds that
\* fail leave it without.
AskList(c) ==
    /\ c \in Lists /\ call[c] = None /\ ~HasPrice(saved)
    /\ call' = [call EXCEPT ![c] = Price(age, "live")]
    /\ UNCHANGED <<age, feed, saved>>

\* The stored ticks that have not expired, and the nearest of them: one, or one
\* before and one after the purchase.
Readable == {n \in prints : n >= age - Retained}
Abs(n) == IF n < 0 THEN -n ELSE n
Nearest == {n \in Readable : \A m \in Readable : Abs(n) <= Abs(m)}

\* Mutant of PurchasePrice: the live price is taken while a tick is there.
LivePrice(n) == Price(age, "purchase")

PurchasePrice(n) == Price(n, "purchase")

\* The route wants the price of the purchase block, from the tick nearest to
\* it; for want of one it takes the live one, and says so.  A scan for the
\* block that fails leaves the live price unmarked, and feeds that fail no
\* price at all.
AskRoute(c) ==
    /\ c \in Routes /\ call[c] = None /\ saved = None
    /\ \E p \in {PurchasePrice(n) : n \in Nearest} \cup {Price(age, "live"), Missing}
                \cup (IF Readable = {} THEN {Price(age, "approximate")} ELSE {}) :
         call' = [call EXCEPT ![c] = p]
    /\ UNCHANGED <<age, feed, saved>>

\* Mutant of Kept: whoever comes last binds the price.
Overwritten(old, new) == new

\* Created, never overwritten: not even when it has no price.
Kept(old, new) == IF old = None THEN new ELSE old

Store(c) ==
    /\ call[c] # None
    /\ saved' = Kept(saved, call[c]) /\ call' = [call EXCEPT ![c] = None]
    /\ UNCHANGED <<age, feed>>

Next ==
    \/ Tick \/ \E n \in Near : Poll(n)
    \/ \E c \in Calls : AskList(c) \/ AskRoute(c) \/ Store(c)

Spec == Init /\ [][Next]_vars

---------------------------------------------------------------------------
(* Properties. *)

Records == [at : -Reach..MaxAge, note : {"none", "missing", "purchase", "approximate", "live"}]

TypeOK ==
    /\ age \in 0..MaxAge /\ prints \subseteq Near /\ first \in 0..Never
    /\ saved \in Records /\ call \in [Calls -> Records]

\* What a ticket opened at does not change once it is stored, however many
\* calls were under way when the first one stored it.
OpeningStays == [][saved # None => saved' = saved]_vars

\* A price marked as that of the purchase is of a moment near it, however late
\* the route was called; and one marked as approximate was taken before any
\* tick near the purchase was stored, or when such a tick could have expired.
MarksAreTrue ==
    /\ saved.note = "purchase" => saved.at \in Near
    /\ saved.note = "approximate" => saved.at <= first \/ saved.at > Retained - Reach

=============================================================================
