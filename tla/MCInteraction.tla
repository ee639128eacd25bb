---------------------------- MODULE MCInteraction ----------------------------
(* Interaction between two nodes.  A frame holds four units: messages have   *)
(* one part, two parts, or two of which the second is called ill-formed.     *)
EXTENDS Interaction, TLC

CONSTANTS hub, node
MCNodes == {hub, node}
MCSizes == <<{5, 7}, {2, 5}, {5}, {5}>>
MCSymmetry == Permutations(MCNodes)
=============================================================================
