---------------------------- MODULE MCIncidents ----------------------------
EXTENDS Incidents, TLC

Symmetric == Permutations(Sessions) \cup Permutations(Ids) \cup Permutations(Serials)
=============================================================================
