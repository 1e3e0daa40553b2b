------------------------------ MODULE RoundPage ------------------------------
(***************************************************************************)
(* The page of one round, after its observation has ended.  The resolver   *)
(* decides from the stored record of the two boundary prints, resolves on  *)
(* the chain and freezes the record; an administrator may resolve or       *)
(* cancel too.  The page polls the contract through the API, and its chart *)
(* polls the evidence endpoint, which mixes a cached view of the contract  *)
(* with the record and the ticks.  Polls overlap, and a read of the        *)
(* contract is several calls between which it may be resolved.             *)
(*                                                                         *)
(* Of two boundary prints only the outcome they would give is kept: YES,   *)
(* NO, or Open while one of them is missing.                               *)
(***************************************************************************)
EXTENDS Integers

CONSTANTS MaxFaults \* failed calls, reloads, and answers that come after a later one's

RoundPageAssumption == MaxFaults \in Nat

Polls == {"market", "chart"}
Outcomes == {"YES", "NO"}
Open == "open"
Verdicts == Outcomes \cup {Open}

VARIABLES
    contract, \* status and winner
    record,   \* what the stored record says, with a tick in the place of a
              \* print it lacks, and whether it is frozen
    deciding, \* the resolver: the outcome it resolves with
    listed,   \* the contract as the API's list has it
    poll,     \* what each poll of the page is doing, and what it has read
    market,   \* the page: the contract as last answered
    evidence, \* the chart: the evidence as last answered
    faults

vars == <<contract, record, deciding, listed, poll, market, evidence, faults>>
chain == <<contract, record, deciding>>
page == <<market, evidence>>

Live == [status |-> "live", winner |-> Open]
Nothing == [status |-> "none", winner |-> Open]
NoEvidence == [status |-> "none", final |-> Open, computed |-> Open, frozen |-> FALSE]
Idle == [pc |-> "idle", saw |-> Nothing]

Init ==
    /\ contract = Live /\ record = [says |-> Open, frozen |-> FALSE]
    /\ deciding = Open /\ listed \in {Nothing, Live}
    /\ poll = [p \in Polls |-> Idle] /\ market = Live /\ evidence = NoEvidence
    /\ faults = 0

Fault == faults < MaxFaults /\ faults' = faults + 1

---------------------------------------------------------------------------
(* The round. *)

\* Prints come, nearer ones late, and sampling brings the record up to date;
\* it leaves a frozen one alone.
Sample(o) ==
    /\ ~record.frozen /\ record.says # o
    /\ record' = [record EXCEPT !.says = o]
    /\ UNCHANGED <<contract, deciding, listed, poll, page, faults>>

Decide ==
    /\ deciding = Open /\ contract = Live /\ record.says # Open
    /\ deciding' = record.says
    /\ UNCHANGED <<contract, record, listed, poll, page, faults>>

Resolves(o) ==
    /\ contract = Live /\ contract' = [status |-> "resolved", winner |-> o]
    /\ UNCHANGED <<record, deciding, listed, poll, page, faults>>

Resolve == deciding # Open /\ Resolves(deciding)

\* An administrator resolves as they see it, or cancels.
AdminResolve == \E o \in Outcomes : Resolves(o)

Cancel ==
    /\ contract = Live /\ contract' = [status |-> "cancelled", winner |-> Open]
    /\ UNCHANGED <<record, deciding, listed, poll, page, faults>>

\* Mutant of Confirmed: the receipt is taken for the verdict.
Mined == contract.status = "resolved"

\* The contract is read back before the record is frozen.
Confirmed == contract.status = "resolved" /\ contract.winner = deciding

\* Mutant of Evidenced: the record is frozen as it has become meanwhile.
AsItIsNow == record.says

\* The prints the outcome was decided from.
Evidenced == deciding

Freeze ==
    /\ deciding # Open /\ Confirmed /\ deciding' = Open
    /\ record' = IF record.frozen THEN record ELSE [says |-> Evidenced, frozen |-> TRUE]
    /\ UNCHANGED <<contract, listed, poll, page, faults>>

\* The contract says otherwise, or a call fails; nobody tries again once the
\* contract is resolved.
Abandon ==
    /\ deciding # Open /\ deciding' = Open
    /\ \/ contract # Live /\ ~Confirmed /\ UNCHANGED faults
       \/ Fault
    /\ UNCHANGED <<contract, record, listed, poll, page>>

---------------------------------------------------------------------------
(* The API. *)

\* Status and winner are calls of their own.
ReadBack(saw) == [status : {saw.status, contract.status}, winner : {saw.winner, contract.winner}]

IsFinal(m) == m.status \in {"resolved", "cancelled"}

\* The list is refreshed by loads that overlap the polls: what one brings was
\* read at any time before.  A final entry is not read again, but a load that
\* began before it was final may still replace it.
Refresh ==
    /\ listed' \in ReadBack(Live)
    /\ IF IsFinal(listed) THEN Fault ELSE UNCHANGED faults
    /\ UNCHANGED <<chain, poll, page>>

At(p, l) == poll[p].pc = l

\* The page's request reads the contract; the chart's takes the list's entry
\* where there is one.
Looked(p) == p = "chart" /\ listed # Nothing

Begin(p) ==
    /\ At(p, "idle")
    /\ poll' = [poll EXCEPT ![p] = IF Looked(p) THEN [pc |-> "read", saw |-> listed]
                                               ELSE [pc |-> "contract", saw |-> contract]]
    /\ UNCHANGED <<chain, listed, page, faults>>

\* readOnchainMarket, and what it read goes into the list.  An answer on its
\* way is as good as one that has come: what is shown was read before.
ReadContract(p) ==
    /\ At(p, "contract")
    /\ \E m \in ReadBack(poll[p].saw) :
          /\ listed' = m
          /\ IF p = "chart"
               THEN poll' = [poll EXCEPT ![p] = [pc |-> "read", saw |-> m]] /\ UNCHANGED market
               ELSE poll' = [poll EXCEPT ![p] = Idle] /\ market' = m
    /\ UNCHANGED <<chain, evidence, faults>>

\* Mutant of FinalOf: what the prints say is taken for final.
FinalAsComputed(m, r) == IF r.says # Open THEN r.says ELSE m.winner

\* A frozen record is final, whatever the list has.
FinalOf(m, r) ==
    IF r.frozen THEN r.says ELSE IF m.status = "resolved" THEN m.winner ELSE Open

Evidence(m, r) ==
    [status |-> IF r.frozen THEN "resolved" ELSE m.status, final |-> FinalOf(m, r),
     computed |-> r.says, frozen |-> r.frozen]

ReadEvidence ==
    /\ At("chart", "read")
    /\ evidence' = Evidence(poll["chart"].saw, record)
    /\ poll' = [poll EXCEPT !["chart"] = Idle]
    /\ UNCHANGED <<chain, listed, market, faults>>

---------------------------------------------------------------------------
(* The page. *)

\* An earlier poll's answer comes last: it may be as old as the page, and was
\* put together before the record was frozen.
Overtaken ==
    /\ Fault
    /\ \/ market' \in ReadBack(Live) /\ UNCHANGED evidence
       \/ \E m \in ReadBack(Live), o \in Verdicts :
             evidence' = Evidence(m, [says |-> o, frozen |-> FALSE]) /\ UNCHANGED market
    /\ UNCHANGED <<chain, listed, poll>>

\* What was shown stays.
PollFails(p) ==
    /\ ~At(p, "idle") /\ Fault /\ poll' = [poll EXCEPT ![p] = Idle]
    /\ UNCHANGED <<chain, listed, page>>

\* A visit: only the page is new.
Reload ==
    /\ Fault /\ evidence' = NoEvidence /\ poll' = [p \in Polls |-> Idle]
    /\ market' \in ReadBack(Live)
    /\ UNCHANGED <<chain, listed>>

\* Mutant of FinalOutcome: only the evidence is asked.
OnlyByEvidence == evidence.final

FinalOutcome == IF evidence.final # Open THEN evidence.final ELSE market.winner
ShowsFinal == evidence.frozen \/ "resolved" \in {evidence.status, market.status}
Badge == IF ShowsFinal THEN FinalOutcome ELSE Open

\* "Oracle integrity warning" of the chart.  The endpoint's own never comes:
\* it compares the frozen outcome with itself.
Warns == ShowsFinal /\ FinalOutcome # Open /\ evidence.computed \notin {Open, FinalOutcome}

---------------------------------------------------------------------------
Round ==
    \/ \E o \in Outcomes : Sample(o)
    \/ Decide \/ Resolve \/ AdminResolve \/ Cancel \/ Freeze \/ Abandon

Step(p) ==
    \/ Begin(p) \/ ReadContract(p)
    \/ p = "chart" /\ ReadEvidence

Next == Round \/ Refresh \/ Overtaken \/ Reload \/ \E p \in Polls : Step(p) \/ PollFails(p)

\* The page polls on while it is open, and a call is answered or fails.
Fairness == \A p \in Polls : WF_vars(Step(p))

Spec == Init /\ [][Next]_vars /\ Fairness

---------------------------------------------------------------------------
(* Properties. *)

Markets == [status : {"none", "live", "resolved", "cancelled"}, winner : Verdicts]
Evidences ==
    [status : {"none", "live", "resolved", "cancelled"}, final : Verdicts, computed : Verdicts,
     frozen : BOOLEAN]

TypeOK ==
    /\ {contract, listed, market} \subseteq Markets
    /\ deciding \in Verdicts /\ record \in [says : Verdicts, frozen : BOOLEAN]
    /\ \A p \in Polls :
          poll[p].pc \in {"idle", "contract", "read"} /\ poll[p].saw \in Markets
    /\ evidence \in Evidences /\ faults \in 0..MaxFaults

\* The badge of a final round is the contract's verdict, whichever answer came
\* last, however the contract was read, and whoever resolved it.
BadgeIsTheVerdict == Badge # Open => Badge = contract.winner

\* Evidence that is shown as frozen agrees with the verdict next to it: better
\* prints that came after the decision do not make it look wrong.
FrozenEvidenceAgrees == evidence.frozen => ~Warns

\* A round that is resolved, which is final, comes to be shown so for good,
\* although the list of the API may for ever hold it as resolved without a
\* winner.
VerdictIsShown == <>[](contract.status = "resolved" => Badge = contract.winner)

=============================================================================
