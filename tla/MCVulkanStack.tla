---------------------------- MODULE MCVulkanStack ----------------------------
EXTENDS VulkanStack, TLC

CONSTANTS t1, t2, o1, o2

MCThreads == {t1, t2}
MCObjects == {o1, o2}
Symmetry == Permutations(MCThreads) \cup Permutations(MCObjects)
=============================================================================
