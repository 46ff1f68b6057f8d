---------------------------- MODULE MCFsStateStore ----------------------------
(***************************************************************************)
(* One run directory, used by one process or by two: an engine and a tool  *)
(* that injects a person's decisions.                                      *)
(***************************************************************************)
EXTENDS FsStateStore

CONSTANTS engine, tool

OneClient == {engine}
TwoClients == {engine, tool}

===============================================================================
