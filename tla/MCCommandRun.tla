---------------------------- MODULE MCCommandRun ----------------------------
EXTENDS CommandRun

\* A success, where the conversion of codes begins, and a child that Ctrl-C
\* (SIGINT) ended.
MCReturnCodes == {0, -2}
=============================================================================
