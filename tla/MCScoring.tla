----------------------------- MODULE MCScoring -----------------------------
(* TLC instances of Scoring.                                                *)
EXTENDS Scoring
=============================================================================
