------------------------------- MODULE FundFlow -------------------------------
(***************************************************************************)
(* The bridge of the funding panel: USDC of the user's own wallet is       *)
(* burned on a source chain and minted on Arc.  It goes through App Kit    *)
(* first and, unless the build is strict, through a manual burn when that  *)
(* fails.  (Nothing calls the panel's runDemoFund: it is left out.)        *)
(***************************************************************************)
EXTENDS FiniteSets, Integers

CONSTANTS
    StrictAppKit \* NEXT_PUBLIC_APP_KIT_STRICT: no manual fallback

FundFlowAssumption == StrictAppKit \in BOOLEAN

VARIABLES
    kit,    \* what the panel does
    burned, \* since the click: the burns that are on the source chain
    minted, \* and those of them that Circle has minted on Arc
    lost    \* how App Kit's burn was lost sight of: it was not reported, or
            \* following it up threw

vars == <<kit, burned, minted, lost>>

Fresh == burned' = {} /\ minted' = {} /\ lost' = "no"

Init == kit = "idle" /\ burned = {} /\ minted = {} /\ lost = "no"

---------------------------------------------------------------------------
(* App Kit. *)

Bridge == kit \in {"idle", "done", "minted", "error"} /\ kit' = "kit" /\ Fresh

\* App Kit approves, burns and mints, and may stop anywhere.
Steps == 0..3

\* Mutant of Phase: only a mint counts.
MintOrNothing(told) == IF told = 3 THEN "complete" ELSE "failed"

\* parseAppKitBridgeResult: the furthest step whose hash was captured.
Phase(told) ==
    CASE told = 3 -> "complete" [] told = 2 -> "burn_submitted" [] told = 1 -> "approval_only"
      [] OTHER -> "failed"

\* The catch around App Kit.
Caught == IF StrictAppKit THEN "error" ELSE "manual"

\* App Kit came as far as `did', and `told' of it reached the panel: nothing
\* when the call threw, for its events go with it, and of a burn perhaps no
\* more than that it was submitted, though it reverts.
KitReturns(did, told) ==
    /\ kit = "kit"
    /\ told <= did \/ (did = 1 /\ told = 2)
    /\ burned' = IF did >= 2 THEN {"kit"} ELSE {}
    /\ minted' = IF did = 3 THEN {"kit"} ELSE {}
    /\ lost' = IF did >= 2 /\ told < 2 THEN "unreported" ELSE "no"
    /\ kit' = CASE Phase(told) = "complete" -> "minted"
                [] Phase(told) = "burn_submitted" -> "receipt"
                [] OTHER -> Caught

---------------------------------------------------------------------------
(* The fallback, and what follows either burn. *)

\* The quote, the network, the approval and the burn; the wallet's answer may
\* be lost.
ManualBurn ==
    /\ kit = "manual" /\ burned' = burned \cup {"manual"}
    /\ kit' \in {"manualReceipt", "error"}
    /\ UNCHANGED <<minted, lost>>

Watched == IF kit = "receipt" THEN "kit" ELSE "manual"

\* The receipt of the burn and up to eight minutes of polling.
SeenMinted ==
    /\ kit \in {"receipt", "manualReceipt"} /\ Watched \in minted /\ kit' = "minted"
    /\ UNCHANGED <<burned, minted, lost>>

\* No mint in time; or, for App Kit's burn, the panel's configuration is not
\* there yet, and nothing is waited for.
NotSeenMinted ==
    /\ kit \in {"receipt", "manualReceipt"} /\ kit' = "done"
    /\ UNCHANGED <<burned, minted, lost>>

\* Any call may throw, or the burn have reverted: for App Kit's burn into the
\* catch that goes on to the fallback.
BridgeThrows ==
    /\ kit \in {"receipt", "manual", "manualReceipt"}
    /\ kit' = IF kit = "receipt" THEN Caught ELSE "error"
    /\ lost' = IF kit = "receipt" /\ "kit" \in burned THEN "thrown" ELSE lost
    /\ UNCHANGED <<burned, minted>>

\* Circle mints what was burned, whoever still looks.
Mints(b) ==
    /\ b \in burned \ minted /\ minted' = minted \cup {b}
    /\ UNCHANGED <<kit, burned, lost>>

\* The page is loaded again.
Reload == kit' = "idle" /\ Fresh

Next ==
    \/ Bridge \/ \E did, told \in Steps : KitReturns(did, told)
    \/ ManualBurn \/ SeenMinted \/ NotSeenMinted \/ BridgeThrows
    \/ \E b \in burned : Mints(b)
    \/ Reload

Spec == Init /\ [][Next]_vars

---------------------------------------------------------------------------
(* Properties. *)

TypeOK ==
    /\ kit \in {"idle", "kit", "manual", "receipt", "manualReceipt", "done", "minted", "error"}
    /\ burned \subseteq {"kit", "manual"} /\ minted \subseteq burned
    /\ lost \in {"no", "unreported", "thrown"}

\* A click burns a second time only when App Kit's burn was not reported or an
\* exception cut its follow-up off, and never in a strict build: a burn that
\* App Kit reports is followed to its mint, or to the end of the wait.
SecondBurnNeedsALoss ==
    Cardinality(burned) > 1 => lost # "no" /\ ~StrictAppKit

\* The panel reports an arrival on Arc only of a burn that was minted.
MintedMeansMinted == kit = "minted" => minted # {}

\* A burn that App Kit reported is resumed: "Never start a second burn in that
\* case" (FundUsdcPanel.tsx:490).
OneBurnPerClick == lost # "unreported" => Cardinality(burned) <= 1

=============================================================================
