---------------------------- MODULE MCSwapChain ----------------------------
EXTENDS SwapChain

MCRectangles == {"dirty", "move"}
=============================================================================
