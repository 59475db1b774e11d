-------------------------- MODULE MCServerModules --------------------------
(* A server that is started twice, with the built-in requests and the       *)
(* scheme shell configured and a module that is not there.                  *)
EXTENDS ServerModules

MCConfigured == << "libnone.so", "libbuiltinreqs.so", "libscheme-shell.so" >>
=============================================================================
