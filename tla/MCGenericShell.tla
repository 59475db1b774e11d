-------------------------- MODULE MCGenericShell --------------------------
(* Instances of GenericShell for TLC: the constants are given in the cfg    *)
(* files.                                                                  *)
EXTENDS GenericShell
============================================================================
