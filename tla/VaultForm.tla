------------------------------ MODULE VaultForm ------------------------------
(***************************************************************************)
(* The liquidity page of the web application.  "Any chain" deposits into   *)
(* the Unified Balance on the source chain, spends it to the user's wallet *)
(* on Arc and deposits what arrived into the vault.  A deposit whose spend *)
(* throws is remembered in local storage, to be spent later; a deposit     *)
(* that throws falls back to a bridge.  A call of App Kit that throws may  *)
(* have moved the money all the same: its answer was lost.                 *)
(***************************************************************************)
EXTENDS Integers

CONSTANTS
    Amounts,  \* what is deposited at once
    MaxMoves, \* deposits and bridges of the model
    Cash,     \* USDC the user has on Arc to begin with
    MaxIncome \* how far other income brings what came to the user's wallet

VaultFormAssumption == Amounts \subseteq Nat \ {0} /\ {MaxMoves, Cash, MaxIncome} \subseteq Nat

VARIABLES
    form,     \* what the page does, for which amount, with which balance before
    shown,    \* pendingUbSpend of the page
    stored,   \* the same in local storage; 0 for none
    gateway,  \* the user's Unified Balance
    onTheWay, \* spent or bridged, not yet on Arc
    arc,      \* the user's USDC on Arc
    received, vaulted, \* what ever came to it, and what the page put into the vault
    moves,    \* deposits and bridges since the click, those of them whose answer
              \* was lost, and all
    unheard,  \* what lost answers moved into the Unified Balance and out of it
    reserved, \* the vault has open reserves
    given     \* a record was dismissed, expired or risked by another deposit, or
              \* the page was left in the middle

vars == <<form, shown, stored, gateway, onTheWay, arc, received, vaulted, moves, unheard, reserved,
          given>>
money == <<gateway, onTheWay, arc, received, vaulted, unheard>>

NoRecord == 0
Idle == [pc |-> "idle", amount |-> 0, before |-> 0]

Init ==
    /\ form = Idle /\ shown = NoRecord /\ stored = NoRecord
    /\ gateway = 0 /\ onTheWay = 0 /\ arc = Cash /\ received = 0 /\ vaulted = 0
    /\ moves = [click |-> 0, lost |-> 0, all |-> 0] /\ unheard = [in |-> 0, out |-> 0]
    /\ reserved = FALSE /\ given = FALSE

At(l) == form.pc = l
Goes(l) == form' = [form EXCEPT !.pc = l]
Click == moves' = [click |-> 0, lost |-> 0, all |-> moves.all]
Moved(lost) ==
    /\ moves.all < MaxMoves
    /\ moves' = [click |-> moves.click + 1, lost |-> moves.lost + lost, all |-> moves.all + 1]

---------------------------------------------------------------------------
(* The deposit from any chain: onAnyChainDeposit. *)

AnyChain(a) ==
    /\ At("idle") /\ ~reserved
    /\ form' = [pc |-> "deposit", amount |-> a, before |-> arc] /\ Click
    /\ given' = (given \/ stored # NoRecord)
    /\ UNCHANGED <<shown, stored, money, reserved>>

Deposit ==
    /\ At("deposit") /\ Moved(0)
    /\ gateway' = gateway + form.amount /\ Goes("spend")
    /\ UNCHANGED <<shown, stored, onTheWay, arc, received, vaulted, unheard, reserved, given>>

\* A bridge is tried in the place of a deposit that throws, whether or not it
\* was made.
DepositThrows ==
    /\ At("deposit") /\ Goes("bridge")
    /\ \/ UNCHANGED <<gateway, unheard, moves>>
       \/ /\ Moved(1) /\ gateway' = gateway + form.amount
          /\ unheard' = [unheard EXCEPT !.in = @ + form.amount]
    /\ UNCHANGED <<shown, stored, onTheWay, arc, received, vaulted, reserved, given>>

\* Mutant of Spent: the record of the retried deposit is left.
LeavesRecord == stored

\* A spend that succeeds clears the record.
Spent == NoRecord

Sends == gateway' = gateway - form.amount /\ onTheWay' = onTheWay + form.amount

Spend ==
    /\ At("spend") /\ Goes("finish") /\ Sends
    /\ stored' = Spent /\ shown' = NoRecord
    /\ UNCHANGED <<arc, received, vaulted, unheard, moves, reserved, given>>

\* A spend that throws was not made, or was and is not known.
SendsUnheard ==
    \/ UNCHANGED money
    \/ /\ gateway >= form.amount /\ Sends
       /\ unheard' = [unheard EXCEPT !.out = @ + form.amount]
       /\ UNCHANGED <<arc, received, vaulted>>

\* Mutant of AfterSpendFailed: the amount is bridged after all.
BridgesAnyway == "bridge"

AfterSpendFailed == "idle"

\* The deposit is remembered, in the place of any other.
SpendThrows ==
    /\ At("spend") /\ Goes(AfterSpendFailed) /\ SendsUnheard
    /\ stored' = form.amount /\ shown' = form.amount
    /\ UNCHANGED <<moves, reserved, given>>

Bridge ==
    /\ At("bridge") /\ Moved(0) /\ onTheWay' = onTheWay + form.amount
    /\ \/ Goes("finish") /\ shown' = NoRecord
       \/ Goes("idle") /\ shown' = stored      \* burned, and no mint seen
    /\ UNCHANGED <<stored, gateway, arc, received, vaulted, unheard, reserved, given>>

\* The wallet is not there, refuses, or a call fails.
Throws ==
    /\ form.pc \in {"deposit", "bridge", "finish", "wait", "put"} /\ Goes("idle")
    /\ shown' = IF stored # NoRecord THEN stored ELSE shown
    /\ UNCHANGED <<stored, money, moves, reserved, given>>

---------------------------------------------------------------------------
(* Retrying the spend, and into the vault: finishVaultAfterFund. *)

Complete ==
    /\ At("idle") /\ shown # NoRecord
    /\ form' = [pc |-> "retry", amount |-> shown, before |-> arc] /\ Click
    /\ UNCHANGED <<shown, stored, money, reserved, given>>

\* The wrong wallet is connected, or the spend throws again: the record stays.
RetryThrows ==
    /\ At("retry") /\ Goes("idle") /\ SendsUnheard
    /\ UNCHANGED <<shown, stored, moves, reserved, given>>

Retry ==
    /\ At("retry") /\ gateway >= form.amount /\ Goes("finish") /\ Sends
    /\ stored' = Spent /\ shown' = NoRecord
    /\ UNCHANGED <<arc, received, vaulted, unheard, moves, reserved, given>>

Dismiss ==
    /\ At("idle") /\ shown # NoRecord
    /\ shown' = NoRecord /\ stored' = NoRecord /\ given' = TRUE
    /\ UNCHANGED <<form, money, moves, reserved>>

\* Mutant of Landed: the balance is compared with the amount alone.
Affordable == arc >= form.amount

Landed == arc >= form.before + form.amount

\* The deposit into the vault is left to the user while reserves are open.
Asks ==
    /\ At("finish") /\ Goes(IF reserved THEN "idle" ELSE "wait")
    /\ UNCHANGED <<shown, stored, money, moves, reserved, given>>

\* The increase is waited for for 45 seconds.
Waits ==
    /\ At("wait")
    /\ IF Landed THEN Goes("put") ELSE Goes("idle")
    /\ UNCHANGED <<shown, stored, money, moves, reserved, given>>

\* After the approval the balance is read once more.
Put ==
    /\ At("put") /\ Goes("idle")
    /\ IF arc >= form.amount THEN arc' = arc - form.amount /\ vaulted' = vaulted + form.amount
       ELSE UNCHANGED <<arc, vaulted>>
    /\ UNCHANGED <<shown, stored, gateway, onTheWay, received, unheard, moves, reserved, given>>

---------------------------------------------------------------------------
(* The page, the chains and other people. *)

\* A reload, or another visit up to seven days later.
Load ==
    /\ form' = Idle /\ given' = (given \/ form.pc \in {"spend", "retry"})
    /\ shown' = stored
    /\ UNCHANGED <<stored, money, moves, reserved>>

\* A record older than seven days is dropped when the page is loaded.
Expire ==
    /\ stored # NoRecord /\ At("idle")
    /\ stored' = NoRecord /\ shown' = NoRecord /\ given' = TRUE
    /\ UNCHANGED <<form, money, moves, reserved>>

Land(a) ==
    /\ onTheWay >= a /\ onTheWay' = onTheWay - a
    /\ arc' = arc + a /\ received' = received + a
    /\ UNCHANGED <<form, shown, stored, gateway, vaulted, unheard, moves, reserved, given>>

\* Somebody pays the user, a settled ticket or a withdrawal included.
Income ==
    /\ received < MaxIncome /\ arc' = arc + 1 /\ received' = received + 1
    /\ UNCHANGED <<form, shown, stored, gateway, onTheWay, vaulted, unheard, moves, reserved, given>>

\* The user spends on Arc, the deposit tab of the page included.
Pays ==
    /\ arc > 0 /\ arc' = arc - 1
    /\ UNCHANGED <<form, shown, stored, gateway, onTheWay, received, vaulted, unheard, moves, reserved, given>>

Tickets ==
    /\ reserved' = ~reserved
    /\ UNCHANGED <<form, shown, stored, money, moves, given>>

Next ==
    \/ \E a \in Amounts : AnyChain(a) \/ Land(a)
    \/ Deposit \/ DepositThrows \/ Spend \/ SpendThrows \/ Bridge \/ Throws
    \/ Complete \/ Retry \/ RetryThrows \/ Dismiss
    \/ Asks \/ Waits \/ Put
    \/ Load \/ Expire \/ Income \/ Pays \/ Tickets

Spec == Init /\ [][Next]_vars

---------------------------------------------------------------------------
(* Properties. *)

TypeOK ==
    /\ form.pc \in {"idle", "deposit", "spend", "bridge", "retry", "finish", "wait", "put"}
    /\ form.amount \in {0} \cup Amounts /\ {shown, stored} \subseteq {NoRecord} \cup Amounts
    /\ {form.before, gateway, onTheWay, arc, received, vaulted} \subseteq Nat
    /\ moves \in [click : 0..MaxMoves, lost : 0..MaxMoves, all : 0..MaxMoves]
    /\ unheard \in [in : Nat, out : Nat] /\ {reserved, given} \subseteq BOOLEAN

\* One click moves the user's USDC off the source chain once, and once more
\* only when its deposit was made and the answer was lost: an amount that is
\* known to have been deposited is not bridged as well, although its spend
\* throws.
OneMovePerAnswer == moves.lost <= 1 /\ moves.click <= 1 + moves.lost

\* The spend that the page offers to complete has its money in the Unified
\* Balance, but for what was spent without an answer: a deposit that the page
\* knows it spent, at once or by a retry, is not offered.
RetryFindsItsMoney == stored <= gateway + unheard.out

\* All the page ever put into the vault by itself came to the wallet from
\* elsewhere, none of it is the cash the user had to begin with, whatever the
\* user spent meanwhile: the page waits for an increase, if not necessarily
\* the deposit's own.
VaultTakesWhatArrived == vaulted <= received

\* What was deposited and not spent is what is remembered, to the unit, but
\* for what moved without an answer, unless the user dismissed a record, let
\* it expire, left the page in the middle or deposited again: there is one
\* record, and the next deposit replaces or clears it.
StrandedDepositIsRemembered ==
    At("idle") /\ ~given => gateway + unheard.out = stored + unheard.in

=============================================================================
