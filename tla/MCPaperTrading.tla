--------------------------- MODULE MCPaperTrading ---------------------------
(* Two clients of one user; a price of two and a commission of one.        *)
EXTENDS PaperTrading, TLC
CONSTANTS c1, c2
const_Clients == {c1, c2}
Symmetry == Permutations(const_Clients)
const_Quantities == {1, 2}
const_Prices == {2}
=============================================================================
