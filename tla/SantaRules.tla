----------------------------- MODULE SantaRules -----------------------------
(***************************************************************************)
(* The rules of one Santa configuration and what they amount to for one    *)
(* enrolled machine: the scope filter, the expansion of the bundle rules,  *)
(* the comparison with the machine rules and the pages of changes, i.e.    *)
(* the query of MachineRuleManager._iter_new_rules.                        *)
(*                                                                         *)
(* The tables are sets of records, one record per row.                     *)
(***************************************************************************)
EXTENDS Integers, FiniteSets

CONSTANTS
    Targets,            \* what a rule can be about: santa_target rows
    Bundles,            \* the targets of type BUNDLE (all uploaded)
    BundleBinaries,     \* [Bundles -> SUBSET Targets], santa_bundle_binary_targets
    Sha256,             \* [Targets -> Nat], the rank of a target's sha256
    Policies,           \* the policies the administrators use
    Messages,           \* custom messages, the empty one included
    EmptyMessage,
    Scopes,             \* the rule scopes the administrators use
    SerialNumber,       \* serial number of the machine
    PrimaryUser,        \* primary user it reports, or NoUser
    NoUser,
    BatchSize,          \* Configuration.batch_size
    MaxVersion          \* bound on Rule.version

ALLOWLIST == 1
BLOCKLIST == 2
SILENT_BLOCKLIST == 3
REMOVE == 4             \* MachineRule.REMOVE, never the policy of a Rule
ALLOWLIST_COMPILER == 5

RulePolicies == {ALLOWLIST, BLOCKLIST, SILENT_BLOCKLIST, ALLOWLIST_COMPILER}
BUNDLE_POLICIES == {ALLOWLIST, ALLOWLIST_COMPILER}

Versions == 1 .. MaxVersion

ASSUME PolicyAssumption == Policies \subseteq RulePolicies
ASSUME BundleAssumption ==
    /\ Bundles \subseteq Targets
    /\ BundleBinaries \in [Bundles -> SUBSET (Targets \ Bundles)]
ASSUME MessageAssumption == EmptyMessage \in Messages
\* RuleFormMixin.validate_scope: nothing is both included and excluded.
ValidScope(scope) ==
    /\ scope.serial_numbers \cap scope.excluded_serial_numbers = {}
    /\ scope.primary_users \cap scope.excluded_primary_users = {}
    /\ scope.tags \cap scope.excluded_tags = {}

ASSUME ScopeAssumption == \A s \in Scopes : ValidScope(s)
ASSUME BoundAssumption == BatchSize \in Nat \ {0} /\ MaxVersion \in Nat \ {0}

Rule == [target : Targets, policy : Policies, custom_msg : Messages,
         version : Versions, scope : Scopes]

\* A row of expanded_rules or changed_rules: the change for one target, and
\* the rule it comes from (for a bundle rule, the bundle target).
Change == [target : Targets, policy : RulePolicies \cup {REMOVE},
           custom_msg : Messages, version : Nat, origin : Targets]

-----------------------------------------------------------------------------
\* The checks the rule forms make before a rule is written.
ValidMessage(policy, custom_msg) == custom_msg # EmptyMessage => policy = BLOCKLIST
ValidBundlePolicy(target, policy) == target \in Bundles => policy \in BUNDLE_POLICIES

\* The where clauses. Without a primary user (without tags) there is nothing
\* to match: the rules with such a condition are left out, except those that
\* only exclude tags.
InScope(scope, tag_ids) ==
    /\ scope.serial_numbers = {} \/ SerialNumber \in scope.serial_numbers
    /\ SerialNumber \notin scope.excluded_serial_numbers
    /\ IF PrimaryUser # NoUser
       THEN /\ scope.primary_users = {} \/ PrimaryUser \in scope.primary_users
            /\ PrimaryUser \notin scope.excluded_primary_users
       ELSE scope.primary_users = {} /\ scope.excluded_primary_users = {}
    /\ IF tag_ids # {}
       THEN /\ scope.tags = {} \/ tag_ids \cap scope.tags # {}
            /\ tag_ids \cap scope.excluded_tags = {}
       ELSE scope.tags = {}

\* filtered_rules
FilteredRules(rules, tag_ids) == {r \in rules : InScope(r.scope, tag_ids)}

\* The targets a rule on target stands for: the binaries of a bundle, and the
\* target itself otherwise (or for a bundle without binaries).
Expansion(target) ==
    IF target \in Bundles /\ BundleBinaries[target] # {}
    THEN BundleBinaries[target]
    ELSE {target}

\* expanded_rules
ExpandedRules(rules, tag_ids) ==
    UNION {{[target |-> t, policy |-> r.policy, custom_msg |-> r.custom_msg,
             version |-> r.version, origin |-> r.target] : t \in Expansion(r.target)}
             : r \in FilteredRules(rules, tag_ids)}

\* changed_rules: what is new or different, and a REMOVE for each machine rule
\* no rule stands for any more.
ChangedRules(expanded, machine_rules) ==
    {e \in expanded : \A m \in machine_rules :
        m.target = e.target => m.policy # e.policy \/ m.version # e.version}
    \cup
    {[target |-> m.target, policy |-> REMOVE, custom_msg |-> EmptyMessage,
      version |-> 1, origin |-> m.target]
      : m \in {m \in machine_rules : \A e \in expanded : e.target # m.target}}

\* order by sha256 limit batch_size: a page that is not the last one is full.
\* The order of the changes of one target is not determined.
Pages(changed) ==
    {page \in SUBSET changed :
        /\ Cardinality(page) <= BatchSize
        /\ page # changed => Cardinality(page) = BatchSize
        /\ \A e \in page, f \in changed \ page : Sha256[e.target] <= Sha256[f.target]}

\* When a page has two changes for one target, the machine rule (and the
\* client) keep the last of them.
LastOfEach(page) ==
    {kept \in SUBSET page :
        /\ \A e \in page : \E k \in kept : k.target = e.target
        /\ \A k, l \in kept : k.target = l.target => k = l}

Batches(changed) == UNION {LastOfEach(page) : page \in Pages(changed)}
=============================================================================
