-------------------------- MODULE MCConsumerProducer --------------------------
(* Small instances of ConsumerProducer for TLC.                            *)
EXTENDS ConsumerProducer, TLC

CONSTANTS m1, m2

OneEvent == [m \in {m1, m2} |-> IF m = m1 THEN 1 ELSE 0]
OneEventEach == [m \in {m1, m2} |-> 1]
TwoEvents == [m \in {m1, m2} |-> IF m = m1 THEN 2 ELSE 1]
TwoAndNone == [m \in {m1, m2} |-> IF m = m1 THEN 2 ELSE 0]
TwoEventsOnly == [m \in {m1} |-> 2]

PublisherSymmetry == Permutations(Publishers)
=============================================================================
