----------------------------- MODULE MCShaderc -----------------------------
EXTENDS Shaderc
=============================================================================
