--------------------------- MODULE MCAgentRunner ---------------------------
(* Instances of AgentRunner for TLC. *)
EXTENDS AgentRunner, TLC

CONSTANTS a1, a2

\* Two agents of different classes.
MCClassOf == a1 :> "diffusion" @@ a2 :> "rent"
============================================================================
