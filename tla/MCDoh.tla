------------------------------- MODULE MCDoh --------------------------------
(* Two providers with every kind of answer each; hosts with one label and   *)
(* two, in capitals, with a dot at the end, with labels that are too long   *)
(* in front and at the end, one that valid_name refuses, one that is the    *)
(* other name of DohProvider in capitals, and one so long that a pointer to *)
(* its first answer does not fit in a byte.                                 *)
EXTENDS Doh

Repeat(byte, n) == [i \in 1 .. n |-> byte]

MCHosts ==
  {<<97, 98>>, <<97, DOT, 98>>, <<65, 66, DOT, 99>>, <<97>>, <<97, 98, DOT>>,
   Repeat(120, 64) \o <<DOT, 97>>, <<97, DOT>> \o Repeat(120, 64), <<90, 90>>,
   Repeat(120, 60) \o <<DOT>> \o Repeat(121, 60) \o <<DOT>>
     \o Repeat(122, 60) \o <<DOT>> \o Repeat(97, 57)}
=============================================================================
