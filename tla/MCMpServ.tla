------------------------------ MODULE MCMpServ ------------------------------
EXTENDS MpServ

CONSTANTS i1, i2

\* 3-1 and 2*3*2 = 12, which wraps in five bits to 12, and 15+1, which wraps to -16
Sum     == [operand |-> <<15, 1>>, operator |-> <<"+">>]
Product == [operand |-> <<2, 3, 2>>, operator |-> <<"-", "*">>]

MCExprs == {Sum, Product}
MCIds == {i1, i2}
=============================================================================
