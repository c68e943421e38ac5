-------------------------- MODULE MCSantaRulesets --------------------------
(***************************************************************************)
(* Instances of SantaRulesets: two requests that write rules, or two       *)
(* agents that upload the binaries of a bundle.                            *)
(***************************************************************************)
EXTENDS SantaRulesets

CONSTANTS a1, a2, s1, s2

MCApart == {{s1, s2}, {a1, a2}}
MCSessions == {{s1, s2}}
MCAgents == {{a1, a2}}

=============================================================================
