----------------------------- MODULE MarketBoard -----------------------------
(***************************************************************************)
(* Which rounds one API process knows.  The rounds are on the chain; the   *)
(* list is a cache that loads replace and local writes patch, filtered by  *)
(* an operator's state of hidden and pinned rounds that is kept in a file. *)
(* The cycle settles what the list shows it.                               *)
(***************************************************************************)
EXTENDS Integers, FiniteSets

CONSTANTS
    MaxRounds,
    Limit,     \* ARC_MARKET_LIST_LIMIT: the factory's latest rounds are read
    MaxFaults  \* restarts, failed loads

MarketBoardAssumption == Limit \in Nat \ {0} /\ {MaxRounds, MaxFaults} \subseteq Nat

Makers == {"cycle", "reset"}

VARIABLES
    chain,   \* status of every round, oldest first
    hidden, pinned, \* in memory
    file,    \* the same in the file
    cache,   \* status of the rounds of the list
    load,    \* the load under way: what it read
    making,  \* the round each maker has deployed and not yet exposed
    reset,   \* what the reset under way has made, or that there is none
    left,    \* rounds a pin, a reset or the limit took off the list
    faults

vars == <<chain, hidden, pinned, file, cache, load, making, reset, left, faults>>

Rounds == 1..Cardinality(DOMAIN chain)
Nothing == [r \in {} |-> "none"]
NoPins == [on |-> FALSE, set |-> {}]
NoLoad == [on |-> FALSE, seen |-> Nothing]
Final == {"resolved"}

Init ==
    /\ chain = Nothing /\ hidden = {} /\ pinned = NoPins
    /\ file = [hidden |-> {}, pinned |-> NoPins]
    /\ cache = Nothing /\ load = NoLoad
    /\ making = [m \in Makers |-> 0] /\ reset = [on |-> FALSE, made |-> {}]
    /\ left = {} /\ faults = 0

Faults == faults < MaxFaults /\ faults' = faults + 1
Save == file' = [hidden |-> hidden', pinned |-> pinned']

\* rememberOnchainMarket: one entry, which starts a list where there is none.
Patched(c, r, s) == [q \in DOMAIN c \cup {r} |-> IF q = r THEN s ELSE c[q]]

\* Mutant of Known: hidden rounds are left out for the cycle too.
KnownVisible == {r \in Rounds : r > Cardinality(Rounds) - Limit /\ (pinned.on => r \in pinned.set)} \ hidden

\* listKnownMarkets({includeHidden: true})
Known == {r \in Rounds : r > Cardinality(Rounds) - Limit /\ (pinned.on => r \in pinned.set)}

\* What leaves the list in a step.
Leaves == left' = left \cup {r \in Rounds : r <= Cardinality(DOMAIN chain') - Limit}

---------------------------------------------------------------------------
(* Rounds. *)

Deploy(m) ==
    /\ making[m] = 0 /\ Cardinality(Rounds) < MaxRounds
    /\ (m = "reset" => reset.on /\ reset.made = {})
    /\ LET r == Cardinality(Rounds) + 1 IN
       chain' = Patched(chain, r, "open") /\ making' = [making EXCEPT ![m] = r]
    /\ Leaves /\ UNCHANGED <<hidden, pinned, file, cache, load, reset, faults>>

\* exposeMarketInUi, and the new round in the list.
Expose(m) ==
    /\ making[m] # 0 /\ making' = [making EXCEPT ![m] = 0]
    /\ hidden' = hidden \ {making[m]}
    /\ pinned' = IF pinned.on THEN [pinned EXCEPT !.set = @ \cup {making[m]}] ELSE pinned
    /\ Save /\ cache' = Patched(cache, making[m], chain[making[m]])
    /\ reset' = IF m = "reset" THEN [reset EXCEPT !.made = @ \cup {making[m]}] ELSE reset
    /\ UNCHANGED <<chain, load, left, faults>>

End(r) ==
    /\ chain[r] = "open" /\ chain' = [chain EXCEPT ![r] = "ended"]
    /\ UNCHANGED <<hidden, pinned, file, cache, load, making, reset, left, faults>>

\* The cycle settles a round of its list that has not been settled there.
Resolve(r) ==
    /\ r \in DOMAIN cache /\ cache[r] \notin Final /\ chain[r] = "ended"
    /\ chain' = [chain EXCEPT ![r] = "resolved"] /\ cache' = Patched(cache, r, "resolved")
    /\ UNCHANGED <<hidden, pinned, file, load, making, reset, left, faults>>

---------------------------------------------------------------------------
(* The operator. *)

Hide(r) ==
    /\ r \in Known \ hidden /\ hidden' = hidden \cup {r}
    /\ pinned' = [pinned EXCEPT !.set = @ \ {r}] /\ Save
    /\ left' = left \cup {q \in {r} : pinned.on}
    /\ UNCHANGED <<chain, cache, load, making, reset, faults>>

StartReset ==
    /\ ~reset.on /\ reset' = [on |-> TRUE, made |-> {}] /\ hidden' = hidden \cup Known
    /\ UNCHANGED <<chain, pinned, file, cache, load, making, left, faults>>

\* All that is left is what the reset made, or nothing when that failed.
EndReset ==
    /\ reset.on /\ making["reset"] = 0 /\ reset' = [on |-> FALSE, made |-> {}]
    /\ pinned' = [on |-> TRUE, set |-> reset.made] /\ hidden' = hidden \ reset.made /\ Save
    /\ left' = left \cup (Rounds \ reset.made)
    /\ UNCHANGED <<chain, cache, load, making, faults>>

---------------------------------------------------------------------------
(* The list. *)

StartLoad ==
    /\ ~load.on
    /\ load' = [on |-> TRUE,
                seen |-> [r \in Known |-> IF r \in DOMAIN cache /\ cache[r] \in Final THEN cache[r] ELSE chain[r]]]
    /\ UNCHANGED <<chain, hidden, pinned, file, cache, making, reset, left, faults>>

\* The loaded list replaces what was patched while it was read.
EndLoad ==
    /\ load.on /\ load' = NoLoad /\ cache' = load.seen
    /\ UNCHANGED <<chain, hidden, pinned, file, making, reset, left, faults>>

LoadFails ==
    /\ load.on /\ Faults /\ load' = NoLoad
    /\ UNCHANGED <<chain, hidden, pinned, file, cache, making, reset, left>>

\* A round being made may be left unexposed.
Restart ==
    /\ Faults /\ hidden' = file.hidden /\ pinned' = file.pinned
    /\ cache' = Nothing /\ load' = NoLoad /\ making' = [m \in Makers |-> 0] /\ reset' = [on |-> FALSE, made |-> {}]
    /\ left' = left \cup {r \in Rounds : file.pinned.on /\ r \notin file.pinned.set}
    /\ UNCHANGED <<chain, file>>

Next ==
    \/ \E m \in Makers : Deploy(m) \/ Expose(m)
    \/ \E r \in Rounds : End(r) \/ Resolve(r) \/ Hide(r)
    \/ StartReset \/ EndReset
    \/ StartLoad \/ EndLoad \/ LoadFails \/ Restart

Spec == Init /\ [][Next]_vars

\* Rounds end, the list is loaded again and again, and the cycle goes on.
FairSpec ==
    /\ Spec /\ WF_vars(\E r \in Rounds : End(r)) /\ WF_vars(StartLoad) /\ WF_vars(EndLoad)
    /\ \A m \in Makers : WF_vars(Expose(m))
    /\ \A r \in 1..MaxRounds : SF_vars(r \in Rounds /\ Resolve(r))

---------------------------------------------------------------------------
(* Properties. *)

TypeOK ==
    /\ DOMAIN chain = Rounds /\ \A r \in Rounds : chain[r] \in {"open", "ended", "resolved"}
    /\ {hidden, left} \subseteq SUBSET Rounds /\ pinned \in [on : BOOLEAN, set : SUBSET Rounds]
    /\ file \in [hidden : SUBSET Rounds, pinned : [on : BOOLEAN, set : SUBSET Rounds]]
    /\ DOMAIN cache \subseteq Rounds /\ DOMAIN load.seen \subseteq Rounds
    /\ making \in [Makers -> {0} \cup Rounds] /\ reset.made \subseteq Rounds /\ faults \in 0..MaxFaults

\* Every round is settled in the end, the hidden ones too, but for those that
\* a reset, a hiding after a reset or the limit took off the list: a load that
\* overwrites newer entries, a failed load or a restart only delays it.
ListedRoundsAreSettled == <>[](\A r \in Rounds : chain[r] = "resolved" \/ r \in left)

=============================================================================
