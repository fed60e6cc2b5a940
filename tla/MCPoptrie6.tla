----------------------------- MODULE MCPoptrie6 ----------------------------
(***************************************************************************)
(* Poptrie6 over small addresses.                                          *)
(***************************************************************************)
EXTENDS Poptrie6, TLC

P(bits, len) == [net |-> bits, plen |-> len]

\* With an index of two bits: a route shorter than the index, one that ends with
\* it, and one two nodes below.  The first has nothing to its right within the
\* index, the last ends with a block, and that block with the address.
EndInside ==
  {P(<<0, 0, 0, 0, 0, 0>>, 1), P(<<0, 0, 0, 0, 0, 0>>, 2), P(<<0, 0, 1, 1, 0, 1>>, 6)}

\* The default route, and one to its right that is as long as the index.
ShortAndRight == {P(<<0, 0, 0, 0, 0, 0>>, 0), P(<<0, 0, 1, 0, 0, 0>>, 3)}

HopSymmetry == Permutations(NextHop)

Faultless == {{}}

\* An update gets all the arrays it asks for, or is refused one of the two that the
\* longest route needs.
OneRefused ==
  {{}, {<<"nodes", P(<<0, 0, 0, 0, 0, 0>>, 2)>>}, {<<"leaves", P(<<0, 0, 1, 1, 0, 0>>, 4)>>}}
=============================================================================
