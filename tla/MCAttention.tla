---- MODULE MCAttention ----
(* Two nodes under one link, with a Hebbian link from the first to the second. *)
EXTENDS Attention

CONSTANTS n1, n2, link, heb

MCIncident == (n1 :> <<link, heb>>) @@ (n2 :> <<link, heb>>)
           @@ (link :> <<n1, n2>>) @@ (heb :> <<n1, n2>>)
MCConductance == (n1 :> (n2 :> 80)) @@ (n2 :> <<>>) @@ (link :> <<>>) @@ (heb :> <<>>)
\* In halves: 3.5, 1, 0 and 0.
MCStartSTI == (n1 :> 7) @@ (n2 :> 2) @@ (link :> 0) @@ (heb :> 0)
MCLargerSTI == [MCStartSTI EXCEPT ![n1] = 20]

MCHandleOrder == (n1 :> 1) @@ (n2 :> 2) @@ (link :> 3) @@ (heb :> 4)
AllAgents == {Agents}
SpreadAndRent == {{"AFImportanceDiffusion", "WARentCollection"}}
AFRentOnly == {{"AFRentCollection"}}
WASpreadOnly == {{"WAImportanceDiffusion"}}
====
