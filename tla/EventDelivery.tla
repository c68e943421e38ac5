--------------------------- MODULE EventDelivery ---------------------------
(***************************************************************************)
(* What a worker promises about the messages of its queue: a message is    *)
(* deleted once the events it generates are published, so that none is     *)
(* ever lost.  An event may be published more than once.                   *)
(***************************************************************************)
EXTENDS Naturals

CONSTANTS Messages, EventCount

VARIABLES deleted, published

Events(m) == {[message |-> m, index |-> i] : i \in 1 .. EventCount[m]}
AllEvents == UNION {Events(m) : m \in Messages}

Init == deleted = {} /\ published = {}

Publish == /\ published' \subseteq AllEvents
           /\ published \subseteq published'
           /\ UNCHANGED deleted

Delete == /\ deleted' \subseteq Messages
          /\ deleted \subseteq deleted'
          /\ \A m \in deleted' \ deleted : Events(m) \subseteq published
          /\ UNCHANGED published

Spec == Init /\ [][Publish \/ Delete]_<<deleted, published>>
=============================================================================
