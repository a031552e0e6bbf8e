---------------------------- MODULE MCIntercept -----------------------------
(* Two connections, two requests each, for a name, a name below it and        *)
(* another one.  A host that is replaced by one without a rule of its own, by *)
(* one with the same wishes, and by one that is itself replaced; rules for a  *)
(* host before and behind others for it; stars of which only the first works, *)
(* one of them "*", which matches none of the names.                          *)
EXTENDS Intercept

G == <<"g">>
AG == <<"a", "g">>
B == <<"b">>
MCNames == {G, AG, B}

R(k, h, u, m, d) == [stars |-> k, name |-> h, url |-> u, mitm |-> m, doh |-> d]
ToB == R(0, G, B, TRUE, TRUE)
BToo == R(0, B, NoName, TRUE, TRUE)
StarG == R(1, G, NoName, TRUE, FALSE)
MCConfigs ==
  {<<ToB>>, <<ToB, BToo>>,
   <<StarG, R(1, B, NoName, TRUE, TRUE), R(0, AG, NoName, FALSE, TRUE)>>,
   <<R(1, <<"">>, NoName, TRUE, TRUE), StarG, R(0, B, G, FALSE, FALSE), ToB>>}
Symmetry == Permutations(Conns)
=============================================================================
