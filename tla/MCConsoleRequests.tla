------------------------ MODULE MCConsoleRequests ------------------------
(* Instances of ConsoleRequests for TLC. *)
EXTENDS ConsoleRequests, TLC

\* Connections are interchangeable where no property names one.
ConsoleSymmetry == Permutations(Consoles)
============================================================================
