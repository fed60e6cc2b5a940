------------------------------ MODULE MCPoptrie -----------------------------
(***************************************************************************)
(* Poptrie over small addresses: a table of two entries, and below it two  *)
(* or three levels of nodes.                                               *)
(***************************************************************************)
EXTENDS Poptrie, TLC

P(bits, len) == [net |-> bits, plen |-> len]

\* The default route; one that ends with the index, one below it, and two that
\* are longer still, one of them on another branch.
ManyRoutes ==
  {P(<<0, 0, 0, 0>>, 0), P(<<1, 0, 0, 0>>, 1), P(<<1, 0, 0, 0>>, 2),
   P(<<1, 0, 0, 0>>, 4), P(<<1, 1, 0, 0>>, 3)}

\* Nested in addresses of three bits.
ThreeRoutes == {P(<<0, 0, 0>>, 0), P(<<1, 0, 0>>, 2), P(<<1, 0, 1>>, 3)}

\* On both sides of the first bit.
TwoRoutes == {P(<<0, 0, 0>>, 0), P(<<0, 1, 0>>, 2)}

HopSymmetry == Permutations(NextHop)

Faultless == {{}}

\* An update gets all the arrays it asks for, or is refused one of those on the way
\* of the longest of the three routes.
OneRefused ==
  {{}} \cup {{f} : f \in {"root", "nodes", "leaves"} \X {P(<<1, 0, 0>>, 1), P(<<1, 0, 0>>, 2)}}
=============================================================================
