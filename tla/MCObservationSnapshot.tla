----------------------- MODULE MCObservationSnapshot -----------------------
(***************************************************************************)
(* Small instances of ObservationSnapshot.                                 *)
(***************************************************************************)
EXTENDS ObservationSnapshot, TLC

CONSTANTS w1, w2

\* Two prints for each boundary, either of which changes the trend; the second
\* is near both boundaries, but before the end.
FourPrints ==
    {[at |-> 0, value |-> 1], [at |-> 1, value |-> 2],
     [at |-> 2, value |-> 2], [at |-> 3, value |-> 0]}

\* One print for each boundary, in a window of one tick.
TwoPrints == {[at |-> 0, value |-> 1], [at |-> 1, value |-> 2]}

MCSymmetry == Permutations(Workers)

=============================================================================
