--------------------------- MODULE MCFcgiListener ---------------------------
(* An update and a request of somebody else, each sent up to twice, so that  *)
(* four connections compete for the two accepts; one thread or two.           *)
EXTENDS FcgiListener

CONSTANTS u, s

OneUpdate == {u}
OneStray == {s}
OneOrTwo == {1, 2}
=============================================================================
