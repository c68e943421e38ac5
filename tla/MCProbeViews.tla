---------------------------- MODULE MCProbeViews ----------------------------
EXTENDS ProbeViews, TLC

Symmetric == Permutations(Workers) \cup Permutations(Children)
=============================================================================
