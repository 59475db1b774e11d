-------------------------- MODULE MCPatternServer --------------------------
(* Corpora of at most two links: a pattern a, the pattern c extended from   *)
(* it, and a key the server cannot load.                                    *)
EXTENDS PatternServer

CONSTANTS w1, w2, a, c, bad

Of(pattern, parent) == [pattern |-> pattern, parent |-> parent]
MCLink(infos) == [ignored |-> FALSE, infos |-> infos]
IgnoredLink == [ignored |-> TRUE, infos |-> << Of(a, None) >>]

MCCorpora == {
  (w1 :> << IgnoredLink, MCLink(<< Of(a, None), Of(c, a) >>) >>) @@ (w2 :> <<>>),
  (w1 :> << MCLink(<< Of(c, bad) >>) >>) @@ (w2 :> <<>>),
  (w1 :> << MCLink(<< Of(bad, None) >>) >>) @@ (w2 :> <<>>) }
=============================================================================
