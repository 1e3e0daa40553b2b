------------------------- MODULE MCMicroMarketBook -------------------------
(***************************************************************************)
(* The book with the deployed constants.  Money is counted in units of     *)
(* 0.25 USDC (the smallest stake), which cancels in Impact; 10800/10000    *)
(* and 700/10000 are written 108/100 and 7/100, which truncate alike, so   *)
(* that products stay within TLC's integers.                               *)
(***************************************************************************)
EXTENDS MicroMarketBook

\* The two rails and their neighbours, the seeds at which a rail starts to
\* cut the band, the seed from which the YES quote is clipped to the scale,
\* and the middle of the book.
MCSeeds == {50000, 50001, 53763, 54000, 123457, 500000, 740741, 925926, 949999, 950000}

\* An empty pool, the largest pool at the depth floor, and the demo vault
\* of 100000 USDC times four, which deepens the book fourfold.
MCPoolSizes == {0, 400000, 1600000}

\* 12.50 USDC and the largest ticket, 100 USDC.
MCRisks == {50, 400}

=============================================================================
