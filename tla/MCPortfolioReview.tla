--------------------------- MODULE MCPortfolioReview ---------------------------
(* Small instances of PortfolioReview for TLC.  Reviews of one candidate    *)
(* are allowed in them, so that two reviews of a week compete for the       *)
(* capacity.                                                                *)
EXTENDS PortfolioReview, TLC

(* For the run without liveness; sessions are numbers and not symmetric.    *)
PortfolioSymmetry == Permutations(Candidate) \cup Permutations(Proc)
=============================================================================
