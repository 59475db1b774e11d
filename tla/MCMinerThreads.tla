--------------------------- MODULE MCMinerThreads ---------------------------
(* Four links in a ring, the first and the fourth of the same form, and a   *)
(* link the lists leave out.                                                *)
EXTENDS MinerThreads

CONSTANTS x, y, z, u

MCNodesOf == << {x, y}, {x, z}, {y, z}, {z, u}, {u, x} >>

Form(l) == IF l = 4 THEN 1 ELSE l
MCPatternOf(links) == <<Cardinality(links), {Form(l) : l \in links}>>
=============================================================================
