---------------------------- MODULE MCWorkspace ----------------------------
(* One edited file and one untouched, one human; see the cfg files.        *)
EXTENDS Workspace
=============================================================================
