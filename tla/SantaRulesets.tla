-------------------------- MODULE SantaRulesets --------------------------
(***************************************************************************)
(* The requests that write the Santa rules: the posts of the rulesets, and *)
(* the forms that create, update and delete the rules that are not in one. *)
(* They run beside the uploads of SantaBundles, which make the bundle a    *)
(* target for the rules.  Each request is a READ COMMITTED transaction,    *)
(* its actions are its statements: it sees the committed rows and its own, *)
(* and waits for those another one has written.                            *)
(*                                                                         *)
(* A rule has a policy and a custom message.  Its scope is compared and    *)
(* saved like the policy, its tags are in other tables: both are left out, *)
(* and so are the targets, which are only created, and the events.         *)
(***************************************************************************)
EXTENDS SantaBundles

CONSTANTS
    Sessions,          \* the database sessions of the API and of the forms
    Configurations,
    Targets,
    BundleTarget,      \* the one that is the bundle, the others are binaries
    Rulesets,
    NoRuleset,         \* the ruleset of the rules that were created with the form
    Policies,          \* all the policies...
    Blocklist,         \* ... the one with a custom message
    BundlePolicies,    \* ... and those for a bundle
    Messages,
    NoMessage,
    Ids,               \* primary keys, enough of them
    Nothing,           \* nothing written by a transaction
    Parties,           \* the agents and the sessions that may take part, together
    MaxOps             \* bound on the requests of the sessions

ASSUME TargetsAssumption == BundleTarget \in Targets
ASSUME RulesetsAssumption == NoRuleset \notin Rulesets
ASSUME PoliciesAssumption ==
    Blocklist \in Policies /\ BundlePolicies \subseteq Policies \ {Blocklist}
ASSUME MessagesAssumption == NoMessage \in Messages
ASSUME IdsAssumption == Ids \subseteq Nat
ASSUME PartiesAssumption == \A p \in Parties : p \subseteq Agents \cup Sessions

\* One rule for a target in a configuration.
Keys == Configurations \X Targets

\* RuleUpdateSerializer.validate, RuleForm.clean
Entries(target) ==
    {e \in [policy : Policies, custom_msg : Messages] :
       /\ target = BundleTarget => e.policy \in BundlePolicies
       /\ e.policy # Blocklist => e.custom_msg = NoMessage}

\* UpdateRuleForm.clean, which has no target
UpdateEntries ==
    {e \in [policy : Policies, custom_msg : Messages] :
       e.policy # Blocklist => e.custom_msg = NoMessage}

Rule == [id : Ids, ruleset : Rulesets \cup {NoRuleset}, policy : Policies,
         custom_msg : Messages, version : Nat \ {0}]

ASSUME NoRowAssumption == {None, Nothing} \cap Rule = {} /\ None # Nothing

\* The rules of a ruleset, for some of the targets.
Definitions == UNION {{d \in [ts -> UNION {Entries(t) : t \in ts}] :
                         \A t \in ts : d[t] \in Entries(t)} : ts \in SUBSET Targets}

Posts == [type : {"post"}, ruleset : Rulesets, rules : Definitions,
          configurations : SUBSET Configurations \ {{}}]
Forms == [type : {"create"}, key : Keys, entry : UpdateEntries]
         \cup [type : {"update"}, key : Keys, entry : UpdateEntries]
         \cup [type : {"delete"}, key : Keys]

ASSUME RequestsAssumption == Nothing \notin Posts \cup Forms

VARIABLES
    rules,       \* santa_rule, the committed rows
    rulesets,    \* santa_ruleset, the committed rows
    tx,          \* the transactions of the sessions
    parties,     \* those that take part
    ops          \* a counter, for the bound

ruleVars == <<rules, rulesets, tx, ops>>
vars == <<bundleVars, ruleVars, parties>>

\* A transaction: its request and its next statement; the configurations, the
\* current one and the targets that are left in it; the rule it is about, and
\* whether its version is F("version") + 1; the rules to delete; the rows it has
\* written; and whether no other one was committed since it began.
NoTx == [op |-> Nothing, pc |-> "idle", configurations |-> {}, configuration |-> Nothing,
         targets |-> {}, key |-> Nothing, rule |-> None, bump |-> FALSE, others |-> {},
         rows |-> [k \in Keys |-> Nothing], ruleset |-> Nothing, alone |-> TRUE]

Statement == {"idle", "start", "ruleset", "configuration", "rule", "insert", "save",
              "others", "delete", "commit", "failed"}

Transaction == [op : Posts \cup Forms \cup {Nothing}, pc : Statement,
                configurations : SUBSET Configurations,
                configuration : Configurations \cup {Nothing},
                targets : SUBSET Targets, key : Keys \cup {Nothing},
                rule : Rule \cup {None}, bump : BOOLEAN, others : SUBSET (Keys \X Ids),
                rows : [Keys -> Rule \cup {None, Nothing}],
                ruleset : Rulesets \cup {Nothing}, alone : BOOLEAN]

RulesetsTypeOK ==
    /\ rules \in [Keys -> Rule \cup {None}]
    /\ rulesets \subseteq Rulesets
    /\ tx \in [Sessions -> Transaction]
    /\ parties \in Parties
    /\ ops \in Nat

TypeOK == BundlesTypeOK /\ RulesetsTypeOK

Init ==
    /\ BundlesInit
    /\ rules = [k \in Keys |-> None]
    /\ rulesets = {}
    /\ tx = [s \in Sessions |-> NoTx]
    /\ parties \in Parties
    /\ ops = 0

-----------------------------------------------------------------------------
\* What a session sees: its rows, then the committed ones.
Seen(s, k) == IF tx[s].rows[k] # Nothing THEN tx[s].rows[k] ELSE rules[k]

\* Another session has written a row for the key, and is not finished yet.
Locked(s, k) == \E q \in Sessions \ {s} : tx[q].rows[k] # Nothing

\* s goes to another statement, with these changes of its transaction.
Continue(s, statement, t) ==
    /\ tx' = [tx EXCEPT ![s] = [t EXCEPT !.pc = statement]]
    /\ UNCHANGED <<rules, rulesets, ops>>

Does(s, statement) == tx[s].pc = statement

HasId(row, i) == row \notin {None, Nothing} /\ row.id = i

\* Some row has the id, or somebody knows it.
Used(i) ==
    \/ \E k \in Keys : HasId(rules[k], i)
    \/ \E s \in Sessions : \/ \E k \in Keys : HasId(tx[s].rows[k], i)
                           \/ HasId(tx[s].rule, i)
                           \/ \E k \in Keys : <<k, i>> \in tx[s].others

\* The next id of the sequence: the lowest one that makes a difference.
NewId(i) == ~ Used(i) /\ \A j \in Ids : j < i => Used(j)

BundleUploaded == bundle # None /\ bundle.uploaded

Begin(s, request) ==
    /\ Does(s, "idle")
    /\ s \in parties
    /\ ops < MaxOps
    /\ ops' = ops + 1
    /\ tx' = [tx EXCEPT ![s] = [NoTx EXCEPT !.op = request, !.pc = "start"]]
    /\ UNCHANGED <<rules, rulesets>>

IsPost(s) == tx[s].op.type = "post"

\* The ruleset a request is for.
OwnerOf(t) == IF t.op.type = "post" THEN t.op.ruleset ELSE NoRuleset
Own(s) == OwnerOf(tx[s])

\* Variant: the messages are not compared.
DiffersPolicy(row, entry) == row.policy # entry.policy
\* The rule is not what an entry says.
Differs(row, entry) == row.policy # entry.policy \/ row.custom_msg # entry.custom_msg

\* What save() will write: the whole row, as it was read and changed; a new
\* version if there is another message.
Changed(t, k, row, entry) ==
    [t EXCEPT !.key = k,
              !.rule = [row EXCEPT !.policy = entry.policy, !.custom_msg = entry.custom_msg],
              !.bump = row.custom_msg # entry.custom_msg]

\* A rule of a post that was found.
Present(s, t, k) ==
    LET entry == tx[s].op.rules[k[2]]
    IN  IF Differs(Seen(s, k), entry)
        THEN Continue(s, "save", Changed(t, k, Seen(s, k), entry))
        ELSE Continue(s, "rule", t)

-----------------------------------------------------------------------------
\* The posts of the rulesets, RuleSetUpdate.post.

\* RuleSetUpdateSerializer.validate: no rule of the post is in conflict with one
\* that is not in the ruleset, or for a bundle that is not uploaded.  The rules
\* are checked one by one, here at once: those that change in the meantime are
\* found out by the constraint.
Valid(op) ==
    /\ \A c \in op.configurations, t \in DOMAIN op.rules :
         rules[<<c, t>>] # None => rules[<<c, t>>].ruleset = op.ruleset
    /\ BundleTarget \in DOMAIN op.rules => BundleUploaded

Validate(s) ==
    LET op == tx[s].op
    IN  /\ Does(s, "start")
        /\ IsPost(s)
        /\ Continue(s, IF Valid(op) THEN "ruleset" ELSE "failed",
                    [tx[s] EXCEPT !.configurations = op.configurations])

\* The ruleset is found or created; one that is being created by another request
\* is waited for.  The select_for_update that follows is never evaluated: the
\* ruleset is not locked.
GetRuleset(s) ==
    LET name == tx[s].op.ruleset
    IN  /\ Does(s, "ruleset")
        /\ \A q \in Sessions \ {s} : tx[q].ruleset # name
        /\ Continue(s, "configuration",
                    IF name \in rulesets THEN tx[s] ELSE [tx[s] EXCEPT !.ruleset = name])

NextConfiguration(s) ==
    /\ Does(s, "configuration")
    /\ \E c \in tx[s].configurations :
         Continue(s, "rule", [tx[s] EXCEPT !.configurations = @ \ {c}, !.configuration = c,
                                           !.targets = DOMAIN tx[s].op.rules])

\* The rules in any order: a post may list them in any.
GetRule(s) ==
    /\ Does(s, "rule")
    /\ \E t \in tx[s].targets :
         LET k == <<tx[s].configuration, t>>
             left == [tx[s] EXCEPT !.targets = @ \ {t}]
         IN  IF Seen(s, k) # None /\ Seen(s, k).ruleset = tx[s].op.ruleset
             THEN Present(s, left, k)
             ELSE Continue(s, "insert", [left EXCEPT !.key = k])

\* Variant: the rules of other rulesets are not left out.
OthersAny(s) ==
    {k \in Keys : /\ k[1] = tx[s].configuration
                  /\ k[2] \notin DOMAIN tx[s].op.rules
                  /\ Seen(s, k) # None}

\* The rules of the ruleset that are not in the post, in a configuration.
Others(s) ==
    {k \in Keys : /\ k[1] = tx[s].configuration
                  /\ k[2] \notin DOMAIN tx[s].op.rules
                  /\ Seen(s, k) # None
                  /\ Seen(s, k).ruleset = tx[s].op.ruleset}

FindOthers(s) ==
    /\ Does(s, "rule")
    /\ tx[s].targets = {}
    /\ Continue(s, "others", [tx[s] EXCEPT !.others = {<<k, Seen(s, k).id>> : k \in Others(s)}])

\* rule.delete(), by primary key: nothing if it is deleted already.
Deleted(s, t, k, id) ==
    [t EXCEPT !.rows[k] = IF Seen(s, k) # None /\ Seen(s, k).id = id THEN None ELSE @]

DeleteOther(s) ==
    /\ Does(s, "others")
    /\ \E o \in tx[s].others :
         /\ ~ Locked(s, o[1])
         /\ Continue(s, "others", Deleted(s, [tx[s] EXCEPT !.others = @ \ {o}], o[1], o[2]))

EndConfiguration(s) ==
    /\ Does(s, "others")
    /\ tx[s].others = {}
    /\ Continue(s, IF tx[s].configurations = {} THEN "commit" ELSE "configuration",
                [tx[s] EXCEPT !.configuration = Nothing])

-----------------------------------------------------------------------------
\* The forms.

\* RuleForm.clean, Rule.objects.create
CreateForm(s) ==
    LET op == tx[s].op
    IN  /\ Does(s, "start")
        /\ op.type = "create"
        /\ Continue(s, IF /\ rules[op.key] = None
                          /\ op.entry \in Entries(op.key[2])
                          /\ op.key[2] = BundleTarget => BundleUploaded
                       THEN "insert" ELSE "failed",
                    [tx[s] EXCEPT !.key = op.key])

\* The rules of the rulesets cannot be changed.
CanEdit(row) == row # None /\ row.ruleset = NoRuleset

\* UpdateRuleForm: the rule as it is read by refresh_from_db
UpdateForm(s) ==
    LET op == tx[s].op
        row == rules[op.key]
    IN  /\ Does(s, "start")
        /\ op.type = "update"
        /\ IF ~ CanEdit(row) THEN Continue(s, "failed", tx[s])
           ELSE IF Differs(row, op.entry)
           THEN Continue(s, "save", Changed(tx[s], op.key, row, op.entry))
           ELSE Continue(s, "commit", tx[s])

DeleteForm(s) ==
    LET op == tx[s].op
    IN  /\ Does(s, "start")
        /\ op.type = "delete"
        /\ IF CanEdit(rules[op.key])
           THEN Continue(s, "delete", [tx[s] EXCEPT !.key = op.key, !.rule = rules[op.key]])
           ELSE Continue(s, "failed", tx[s])

DeleteRule(s) ==
    /\ Does(s, "delete")
    /\ ~ Locked(s, tx[s].key)
    /\ Continue(s, "commit", Deleted(s, tx[s], tx[s].key, tx[s].rule.id))

-----------------------------------------------------------------------------
\* The statements of both.

AfterWrite(s, t) == Continue(s, IF IsPost(s) THEN "rule" ELSE "commit",
                             [t EXCEPT !.key = Nothing, !.rule = None, !.bump = FALSE])

Created(s, i) ==
    LET entry == IF IsPost(s) THEN tx[s].op.rules[tx[s].key[2]] ELSE tx[s].op.entry
    IN  [id |-> i, ruleset |-> Own(s), policy |-> entry.policy,
         custom_msg |-> entry.custom_msg, version |-> 1]

\* One rule for a target in a configuration: a row that is not committed yet is
\* waited for; if there is one, get_or_create looks for it again.
InsertRule(s) ==
    LET k == tx[s].key
    IN  /\ Does(s, "insert")
        /\ ~ Locked(s, k)
        /\ IF Seen(s, k) = None
           THEN \E i \in Ids : NewId(i) /\ AfterWrite(s, [tx[s] EXCEPT !.rows[k] = Created(s, i)])
           ELSE IF IsPost(s) /\ Seen(s, k).ruleset = tx[s].op.ruleset
           THEN Present(s, [tx[s] EXCEPT !.key = Nothing], k)
           ELSE Continue(s, "failed", tx[s])

\* Variant: the columns that were changed are written.
SavedChanges(t, row) ==
    [row EXCEPT !.policy = IF t.bump THEN @ ELSE t.rule.policy,
                !.custom_msg = IF t.bump THEN t.rule.custom_msg ELSE @,
                !.version = IF t.bump THEN @ + 1 ELSE @]

\* All the columns are written, the version with them if it is not F("version") + 1.
Saved(t, row) == IF t.bump THEN [t.rule EXCEPT !.version = row.version + 1] ELSE t.rule

\* save(), by primary key: a row that is deleted is inserted again, unless its
\* version would be F("version") + 1, or there is another rule for its target.
SaveRule(s) ==
    LET k == tx[s].key
        rule == tx[s].rule
    IN  /\ Does(s, "save")
        /\ ~ Locked(s, k)
        /\ IF Seen(s, k) # None /\ Seen(s, k).id = rule.id
           THEN AfterWrite(s, [tx[s] EXCEPT !.rows[k] = Saved(tx[s], Seen(s, k))])
           ELSE IF Seen(s, k) = None /\ ~ tx[s].bump
           THEN AfterWrite(s, [tx[s] EXCEPT !.rows[k] = rule])
           ELSE Continue(s, "failed", tx[s])

\* The sessions that wait for each other: the database aborts one of them.
WaitsFor(s, q) ==
    \/ tx[s].pc \in {"insert", "save", "delete"} /\ tx[q].rows[tx[s].key] # Nothing
    \/ Does(s, "others") /\ \E o \in tx[s].others : tx[q].rows[o[1]] # Nothing

Abort(s) ==
    /\ \E S \in SUBSET Sessions :
         s \in S /\ \A x \in S : \E y \in S \ {x} : WaitsFor(x, y)
    /\ Continue(s, "failed", tx[s])

Commit(s) ==
    /\ Does(s, "commit")
    /\ rules' = [k \in Keys |-> Seen(s, k)]
    /\ rulesets' = rulesets \cup ({tx[s].ruleset} \ {Nothing})
    /\ tx' = [q \in Sessions |-> IF q = s THEN NoTx
                                 ELSE IF Does(q, "idle") THEN tx[q]
                                 ELSE [tx[q] EXCEPT !.alone = FALSE]]
    /\ UNCHANGED ops

\* An error is replied, the transaction is rolled back.
Fail(s) ==
    /\ Does(s, "failed")
    /\ tx' = [tx EXCEPT ![s] = NoTx]
    /\ UNCHANGED <<rules, rulesets, ops>>

SessionNext(s) ==
    \/ Validate(s) \/ GetRuleset(s) \/ NextConfiguration(s) \/ GetRule(s)
    \/ FindOthers(s) \/ DeleteOther(s) \/ EndConfiguration(s)
    \/ CreateForm(s) \/ UpdateForm(s) \/ DeleteForm(s) \/ DeleteRule(s)
    \/ InsertRule(s) \/ SaveRule(s) \/ Abort(s) \/ Commit(s) \/ Fail(s)

RulesNext ==
    /\ \E s \in Sessions : SessionNext(s) \/ \E request \in Posts \cup Forms : Begin(s, request)
    /\ UNCHANGED <<bundleVars, parties>>

UploadsNext ==
    /\ \/ \E r \in Requests, a \in Agents \cap parties :
            Block(r, a) \/ \E b \in Binaries : UploadBinaries(r, a, b)
       \/ \E r \in Requests : GiveUp(r) \/ ProcessUpload(r)
       \/ \E a \in Agents : Forget(a)
    /\ UNCHANGED <<ruleVars, parties>>

Next == RulesNext \/ UploadsNext

-----------------------------------------------------------------------------
Commits(s) == Does(s, "commit") /\ tx'[s].op = Nothing

\* A request changes and deletes the rules of its ruleset only, and a form those
\* that are in none, whatever other requests do between its check and its writes.
\* docs/apps/santa.md: a post manages its rules "without modifying rules from a
\* different ruleset, or manually created", which "cannot be manually edited".
OwnRules ==
    [][\A s \in Sessions, k \in Keys :
         Commits(s) /\ rules[k] # None /\ rules'[k] # rules[k] =>
           rules[k].ruleset = Own(s)]_vars

\* The rules of the ruleset of a post are those of the post.
Matches(op, t, row) ==
    IF t \in DOMAIN op.rules
    THEN /\ row # None
         /\ row.ruleset = op.ruleset
         /\ row.policy = op.rules[t].policy
         /\ row.custom_msg = op.rules[t].custom_msg
    ELSE row = None \/ row.ruleset # op.ruleset
Match(op, table) ==
    \A c \in op.configurations, t \in Targets : Matches(op, t, table[<<c, t>>])

\* Every rule that has another message has a later version, "to trigger rule
\* distribution" (UpdateRuleForm.save, RuleSetUpdate.post).
NewVersions ==
    \A k \in Keys :
      rules[k] # None /\ rules'[k] # None /\ rules'[k].custom_msg # rules[k].custom_msg
      => rules'[k].version > rules[k].version

\* "Rules will be added, updated or deleted in the scoped configurations to match
\* the definition of the posted ruleset" (docs/apps/santa.md): after whatever
\* requests before, as long as none is committed during this one.
RequestsApplied ==
    [][\A s \in Sessions :
         Commits(s) /\ tx[s].alone => NewVersions /\ (IsPost(s) => Match(tx[s].op, rules'))]_vars

\* The same, whatever requests are committed during this one: two posts of a
\* ruleset are not serialized.
PostsAlwaysMatch ==
    [][\A s \in Sessions : Commits(s) /\ IsPost(s) => Match(tx[s].op, rules')]_vars

\* Only the rules of the blocklist have a message (RuleForm.clean,
\* RuleUpdateSerializer.validate), also when several requests save a rule: each
\* writes the policy and the message it has validated together.
MessagesOfBlocklist ==
    \A k \in Keys : rules[k] # None /\ rules[k].custom_msg # NoMessage => rules[k].policy = Blocklist

\* GetsUploaded, when the agents take part.
BlockedBundleUploaded == Agents \subseteq parties => GetsUploaded

-----------------------------------------------------------------------------
\* The inductive invariant of the rules, which has four parts.

Blank(row) == row \in {None, Nothing}

\* What a transaction has, statement by statement.
StatementInv(t) ==
    /\ t.pc # "idle" => t.op \in Posts \cup Forms
    /\ t.pc \in {"ruleset", "configuration", "rule", "others"} => t.op \in Posts
    /\ t.pc \in {"insert", "save", "delete"} => t.key \in Keys
    /\ t.pc \in {"save", "delete"} => t.rule \in Rule
    /\ t.pc = "insert" => \/ t.op \in Posts /\ t.key[2] \in DOMAIN t.op.rules
                          \/ t.op \in Forms /\ t.op.type = "create"
    /\ t.pc \in {"rule", "insert", "save"} /\ t.op \in Posts =>
         t.configuration \in Configurations /\ t.targets \subseteq DOMAIN t.op.rules

\* Only the rules of the blocklist have a message, also those to be saved.
MessageOK(row) == ~ Blank(row) /\ row.custom_msg # NoMessage => row.policy = Blocklist
MessagesInv ==
    /\ \A k \in Keys : MessageOK(rules[k])
    /\ \A s \in Sessions : MessageOK(tx[s].rule) /\ \A k \in Keys : MessageOK(tx[s].rows[k])

\* A row is written by one session at a time...
LocksInv == \A s, q \in Sessions, k \in Keys :
               s # q => tx[s].rows[k] = Nothing \/ tx[q].rows[k] = Nothing

\* ... which changes only the rules of its ruleset,
OwnersInv ==
    \A s \in Sessions :
      /\ ~ Blank(tx[s].rule) => tx[s].rule.ruleset = OwnerOf(tx[s])
      /\ \A k \in Keys : tx[s].rows[k] # Nothing /\ rules[k] # None =>
                          rules[k].ruleset = OwnerOf(tx[s])

\* since a primary key tells the ruleset of a rule, that it is deleted or not.
Known(t, i, n) ==
    \/ \E k \in Keys : HasId(t.rows[k], i) /\ t.rows[k].ruleset = n
    \/ HasId(t.rule, i) /\ t.rule.ruleset = n
    \/ (\E k \in Keys : <<k, i>> \in t.others) /\ n = OwnerOf(t)
RulesetOf(i, n) ==
    \/ \E k \in Keys : HasId(rules[k], i) /\ rules[k].ruleset = n
    \/ \E s \in Sessions : Known(tx[s], i, n)
IdsInv == \A i \in Ids, n, m \in Rulesets \cup {NoRuleset} :
            RulesetOf(i, n) /\ RulesetOf(i, m) => n = m

RulesInv ==
    /\ RulesetsTypeOK
    /\ \A s \in Sessions : StatementInv(tx[s])
    /\ MessagesInv
    /\ LocksInv
    /\ OwnersInv
    /\ IdsInv

-----------------------------------------------------------------------------
\* What a request has done as long as no other one is committed during it, with
\* the table of the rules as it was when it began.

\* A rule that is written is as new as the one of the table, newer if it has
\* another message: no rule is deleted and created again.
Later(old, new) ==
    /\ new.version >= old.version
    /\ new.custom_msg # old.custom_msg => new.version > old.version
WrittenLater(table, t) ==
    \A k \in Keys : ~ Blank(t.rows[k]) /\ table[k] # None => Later(table[k], t.rows[k])
KeepsRules(t) ==
    /\ t.op \in Forms /\ t.pc \in {"start", "insert", "save"} =>
         \A k \in Keys : t.rows[k] = Nothing
    /\ t.op \in Posts => \A k \in Keys : t.rows[k] = None => k[2] \notin DOMAIN t.op.rules

\* The rule to be saved is still as it was read, and will be as the post says.
SeenIn(table, t, k) == IF t.rows[k] # Nothing THEN t.rows[k] ELSE table[k]
SavesSeen(table, t) ==
    LET row == SeenIn(table, t, t.key)
    IN  t.pc = "save" =>
          /\ row # None
          /\ t.rule.id = row.id /\ t.rule.version = row.version
          /\ t.bump <=> row.custom_msg # t.rule.custom_msg
          /\ t.op \in Posts => Matches(t.op, t.key[2], t.rule)

\* A post goes through its configurations: those that it is done with match it;
\* the one it is in, but for the rules that it has still to visit or to delete.
Visiting(t) == t.pc \in {"rule", "insert", "save", "others"}
Visited(t) ==
    (t.op.configurations \ t.configurations) \ {c \in {t.configuration} : Visiting(t)}
InPlace(table, t, k) == Matches(t.op, k[2], SeenIn(table, t, k))
PostUnderWay(table, t) ==
    /\ t.pc \notin {"idle", "start", "failed"} =>
         \A c \in Visited(t), target \in Targets : InPlace(table, t, <<c, target>>)
    /\ Visiting(t) => \A target \in DOMAIN t.op.rules \ t.targets :
         \/ t.pc \in {"insert", "save"} /\ t.key = <<t.configuration, target>>
         \/ InPlace(table, t, <<t.configuration, target>>)
    /\ t.pc \in {"insert", "save"} =>
         t.key[1] = t.configuration /\ t.key[2] \in DOMAIN t.op.rules
    /\ t.pc = "others" =>
         /\ t.targets = {}
         /\ \A o \in t.others : o[1][1] = t.configuration /\ o[1][2] \notin DOMAIN t.op.rules
         /\ \A target \in Targets \ DOMAIN t.op.rules :
              LET k == <<t.configuration, target>>
              IN  InPlace(table, t, k) \/ <<k, SeenIn(table, t, k).id>> \in t.others
    /\ t.pc = "commit" => t.configurations = {}
    /\ t.pc # "delete"

UnderWay(table, t) ==
    /\ WrittenLater(table, t)
    /\ KeepsRules(t)
    /\ SavesSeen(table, t)
    /\ t.op \in Posts => PostUnderWay(table, t)
AloneInv ==
    \A s \in Sessions :
      tx[s].alone /\ tx[s].pc \notin {"idle", "failed"} => UnderWay(rules, tx[s])

Spec == Init /\ [][Next]_vars

\* The requests are processed, the agents block the binaries of the bundle and
\* send those that are asked for.
FairSpec ==
    /\ Spec
    /\ \A r \in Requests : WF_vars(ProcessUpload(r) /\ UNCHANGED <<ruleVars, parties>>)
    /\ \A a \in Agents :
         /\ SF_vars(a \in parties /\ (\E r \in Requests : Block(r, a))
                                 /\ UNCHANGED <<ruleVars, parties>>)
         /\ \A b \in Binaries :
              SF_vars(a \in parties /\ (\E r \in Requests : UploadBinaries(r, a, b))
                                   /\ UNCHANGED <<ruleVars, parties>>)

=============================================================================
