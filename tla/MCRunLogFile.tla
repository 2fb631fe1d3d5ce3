---------------------------- MODULE MCRunLogFile ----------------------------
EXTENDS RunLogFile

CONSTANTS r1, r2, r3, s1, s2

MCRuns == {r1, r2, r3}
MCStems == {s1, s2}
=============================================================================
