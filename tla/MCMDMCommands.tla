--------------------------- MODULE MCMDMCommands ---------------------------
(* MDMCommands on small instances. *)
EXTENDS MDMCommands

CONSTANTS p1, a1

NoneRejected == {}
SecondRejected == {[artifact |-> p1, version |-> 2]}

\* The apps are in the blueprint at first, the profiles in any way. The realm
\* user only counts where the accounts are required.
SmallInit ==
    /\ Init
    /\ session.realm_user => platform \in RequiresAccounts
    /\ \A a \in Apps :
         blueprint[a] = [present |-> TRUE, install_before_setup_assistant |-> TRUE,
                         auto_update |-> TRUE]
SmallSpec == SmallInit /\ [][Next]_vars /\ Fairness
=============================================================================
