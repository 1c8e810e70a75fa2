--------------------------- MODULE MCCommonSigners ---------------------------
EXTENDS CommonSigners

\* Every PDF that signatures make.
MCPdfs == [Signers -> 0 .. 2]
=============================================================================
