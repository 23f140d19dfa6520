------------------------- MODULE MCActionApproval -------------------------
(* Instances of ActionApproval; every bound is a number of the cfg.         *)
EXTENDS ActionApproval
===========================================================================
