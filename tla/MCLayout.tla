------------------------------- MODULE MCLayout -------------------------------
EXTENDS Layout
CONSTANTS R, S
Symmetric == Permutations({R, S})
MCDimensions == {<<2>>, <<4>>, <<2, 2>>}
=============================================================================
