---------------------------- MODULE MCAICredits ----------------------------
(* Small instance of AICredits for TLC: calls estimated at 1 or 2 credits    *)
(* that cost between nothing and one more than the largest estimate.        *)
EXTENDS AICredits, TLC
=============================================================================
