---------------------------- MODULE MCAgentHub ----------------------------
(* Instances of AgentHub; every bound is a number of the cfg.              *)
EXTENDS AgentHub
===========================================================================
