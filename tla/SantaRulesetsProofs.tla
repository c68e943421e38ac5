----------------------- MODULE SantaRulesetsProofs -----------------------
(***************************************************************************)
(* Proofs about SantaBundles and SantaRulesets, for any number of agents,  *)
(* sessions, binaries, targets, rules and requests.                        *)
(***************************************************************************)
EXTENDS SantaRulesets, FiniteSetTheorems, TLAPS

-----------------------------------------------------------------------------
(* The bundle.                                                             *)

USE DEF At, Goto

(* As many binaries as the bundle has are all its binaries.                *)
LEMMA AllCounted ==
    ASSUME NEW S \in SUBSET Binaries, Cardinality(S) = Cardinality(Binaries)
    PROVE  S = Binaries
BY BinariesAssumption, FS_Subset

LEMMA BundleInitInv == ASSUME BundlesInit PROVE BundleInv
<1>1. Cardinality(Binaries) \in Nat
  BY BinariesAssumption, FS_CardinalityType
<1>0. [binary_count |-> Cardinality(Binaries), uploaded |-> TRUE] \in Bundle
  BY DEF Bundle
<1>2. BundlesTypeOK
  <2>1. bundle \in Bundle \cup {None} /\ binary_targets \subseteq Binaries
    BY <1>0 DEF BundlesInit
  <2>2. /\ todo \in [Agents -> SUBSET Binaries]
        /\ upload \in [Requests -> Upload \cup {NoUpload}]
    BY DEF BundlesInit
  <2> QED
    BY <2>1, <2>2, BatchSizeAssumption DEF BundlesInit, BundlesTypeOK
<1> QED
  BY <1>2, NoneAssumption DEF BundlesInit, BundleInv, UploadedComplete

LEMMA SendInv ==
    ASSUME BundleInv, NEW r \in Requests, NEW a \in Agents, NEW request \in Upload,
           Send(r, a, request)
    PROVE  BundleInv'
BY DEF BundleInv, BundlesTypeOK, Send, UploadedComplete, SeenBinaries, txVars

LEMMA NoAgent ==
    ASSUME NEW u \in Upload PROVE [u EXCEPT !.agent = None] \in Upload
BY DEF Upload

LEMMA GiveUpInv ==
    ASSUME BundleInv, NEW r \in Requests, GiveUp(r) PROVE BundleInv'
<1>1. upload[r] \in Upload
  <2>1. upload[r] # NoUpload
    BY DEF GiveUp, NoUpload
  <2> QED
    BY <2>1 DEF BundleInv, BundlesTypeOK
<1> DEFINE u == [upload[r] EXCEPT !.agent = None]
<1>0. \A w \in Upload : [w EXCEPT !.agent = None] \in Upload
  BY NoAgent
<1>2. u \in Upload
  BY <1>0, <1>1, Zenon
<1>3. upload' = [upload EXCEPT ![r] = u]
  BY DEF GiveUp
<1> HIDE DEF u
<1>4. BundlesTypeOK'
  BY <1>2, <1>3, BatchSizeAssumption DEF BundleInv, BundlesTypeOK, GiveUp, txVars
<1> QED
  BY <1>2, <1>3, <1>4 DEF BundleInv, BundlesTypeOK, GiveUp, UploadedComplete, SeenBinaries, txVars

LEMMA ForgetInv ==
    ASSUME BundleInv, NEW a \in Agents, Forget(a) PROVE BundleInv'
BY BatchSizeAssumption DEF BundleInv, BundlesTypeOK, Forget, UploadedComplete, SeenBinaries, txVars

LEMMA FindBundleInv ==
    ASSUME BundleInv, NEW r \in Requests, FindBundle(r) PROVE BundleInv'
BY NoneAssumption DEF BundleInv, BundlesTypeOK, FindBundle, UploadedComplete, SeenBinaries, agentVars

LEMMA CreateBundleInv ==
    ASSUME BundleInv, NEW r \in Requests, CreateBundle(r) PROVE BundleInv'
<1>1. [binary_count |-> upload[r].count, uploaded |-> FALSE] \in Bundle
  BY DEF BundleInv, CreateBundle, Bundle, Upload
<1> QED
  BY <1>1 DEF BundleInv, BundlesTypeOK, CreateBundle, UploadedComplete, SeenBinaries, agentVars

LEMMA GetBundleInv ==
    ASSUME BundleInv, NEW r \in Requests, GetBundle(r) PROVE BundleInv'
BY DEF BundleInv, BundlesTypeOK, GetBundle, UploadedComplete, SeenBinaries, SeenBundle, agentVars

LEMMA FindMissingInv ==
    ASSUME BundleInv, NEW r \in Requests, FindMissing(r) PROVE BundleInv'
BY DEF BundleInv, BundlesTypeOK, FindMissing, UploadedComplete, SeenBinaries, agentVars, Upload

LEMMA InsertBinaryInv ==
    ASSUME BundleInv, NEW r \in Requests, NEW b \in Binaries, InsertBinary(r, b) PROVE BundleInv'
BY DEF BundleInv, BundlesTypeOK, InsertBinary, UploadedComplete, SeenBinaries, agentVars

LEMMA FailInv ==
    ASSUME BundleInv, NEW r \in Requests, Conflict(r) \/ Deadlocked(r) PROVE BundleInv'
BY DEF BundleInv, BundlesTypeOK, Conflict, Deadlocked, UploadedComplete, SeenBinaries, agentVars, txVars

(* The count is that of all the binaries, if there is one.                 *)
LEMMA CountBinariesInv ==
    ASSUME BundleInv, NEW r \in Requests, CountBinaries(r) PROVE BundleInv'
<1> DEFINE count == IF read[r].binary_count # 0 THEN read[r].binary_count ELSE upload[r].count
           complete == count # 0 /\ Complete(r, count)
<1>1. count \in Counts \cup {Cardinality(Binaries)} /\ (count # 0 => count = Cardinality(Binaries))
  BY CountsAssumption DEF BundleInv, BundlesTypeOK, CountBinaries, Upload, Bundle
<1>2. complete => SeenBinaries(r) = Binaries
  BY <1>1, AllCounted DEF BundleInv, BundlesTypeOK, SeenBinaries, Complete
<1>3. /\ read' = [read EXCEPT ![r] = [binary_count |-> count, uploaded |-> complete]]
      /\ step' \in [Requests -> {"save", "commit"} \cup {step[p] : p \in Requests}]
      /\ \A p \in Requests \ {r} : step'[p] = step[p]
      /\ step'[r] \in {"save", "commit"} /\ step[r] = "insert"
      /\ UNCHANGED <<bundle, binary_targets, todo, upload, missing, added, written, lost>>
  BY DEF CountBinaries, agentVars, BundleInv, BundlesTypeOK
<1>4. [binary_count |-> count, uploaded |-> complete] \in Bundle
  BY <1>1 DEF Bundle
<1>5. BundlesTypeOK'
  BY <1>3, <1>4 DEF BundleInv, BundlesTypeOK
<1>6. SeenBinaries(r)' = SeenBinaries(r) /\ \A p \in Requests : SeenBinaries(p)' = SeenBinaries(p)
  BY <1>3 DEF SeenBinaries
<1> QED
  BY <1>2, <1>3, <1>4, <1>5, <1>6, NoneAssumption DEF BundleInv, BundlesTypeOK, UploadedComplete

LEMMA SaveBundleInv ==
    ASSUME BundleInv, NEW r \in Requests, SaveBundle(r) PROVE BundleInv'
BY DEF BundleInv, BundlesTypeOK, SaveBundle, UploadedComplete, SeenBinaries, agentVars

LEMMA CommitUploadInv ==
    ASSUME BundleInv, NEW r \in Requests, CommitUpload(r) PROVE BundleInv'
<1>1. /\ SeenBundle(r) \in Bundle \cup {None} /\ SeenBinaries(r) \subseteq Binaries
      /\ SeenBundle(r) # None /\ SeenBundle(r).uploaded => SeenBinaries(r) = Binaries
  BY DEF BundleInv, BundlesTypeOK, SeenBundle, SeenBinaries, UploadedComplete
<1>2. BundlesTypeOK'
  <2>1. todo' \in [Agents -> SUBSET Binaries]
    BY DEF CommitUpload, BundleInv, BundlesTypeOK
  <2>2. /\ read' \in [Requests -> Bundle \cup {None}]
        /\ written' \in [Requests -> Bundle \cup {None}]
        /\ missing' \in [Requests -> SUBSET Binaries]
        /\ added' \in [Requests -> SUBSET Binaries]
    BY DEF CommitUpload, Finish, BundleInv, BundlesTypeOK
  <2>3. upload' \in [Requests -> Upload \cup {NoUpload}] /\ lost' \in 0 .. MaxLost
    BY DEF CommitUpload, Finish, BundleInv, BundlesTypeOK
  <2> QED
    BY <1>1, <2>1, <2>2, <2>3 DEF CommitUpload, Finish, BundleInv, BundlesTypeOK
<1>3. UploadedComplete'
  BY <1>1 DEF CommitUpload, UploadedComplete
<1>4. \A p \in Requests \ {r} :
        SeenBinaries(p) = Binaries => SeenBinaries(p)' = Binaries
  BY <1>1, <1>2 DEF CommitUpload, Finish, SeenBinaries, BundleInv, BundlesTypeOK
<1>5. /\ step'[r] = "idle" /\ read'[r] = None /\ written'[r] = None
      /\ \A p \in Requests \ {r} : /\ step'[p] = step[p] /\ upload'[p] = upload[p]
                                   /\ read'[p] = read[p] /\ written'[p] = written[p]
  BY DEF CommitUpload, Finish, BundleInv, BundlesTypeOK
<1>6. ASSUME NEW p \in Requests \ {r}
      PROVE  /\ step'[p] # "idle" => upload'[p] \in Upload
             /\ step'[p] \in {"add", "insert", "save"} => read'[p] # None
             /\ read'[p] # None /\ read'[p].uploaded => SeenBinaries(p)' = Binaries
             /\ written'[p] # None /\ written'[p].uploaded => SeenBinaries(p)' = Binaries
  BY <1>4, <1>5 DEF BundleInv
<1> QED
  BY <1>2, <1>3, <1>5, <1>6 DEF BundleInv

LEMMA FailUploadInv ==
    ASSUME BundleInv, NEW r \in Requests, FailUpload(r) PROVE BundleInv'
BY DEF BundleInv, BundlesTypeOK, FailUpload, Finish, UploadedComplete, SeenBinaries

LEMMA BundlesNextInv == ASSUME BundleInv, [BundlesNext]_bundleVars PROVE BundleInv'
<1>1. CASE UNCHANGED bundleVars
  BY <1>1 DEF bundleVars, agentVars, txVars, BundleInv, BundlesTypeOK, UploadedComplete, SeenBinaries
<1>2. ASSUME NEW r \in Requests, NEW a \in Agents, Block(r, a) PROVE BundleInv'
  BY <1>2, SendInv DEF Block, Upload
<1>3. ASSUME NEW r \in Requests, NEW a \in Agents, NEW b \in Binaries, UploadBinaries(r, a, b)
      PROVE  BundleInv'
  <2>1. todo[a] \subseteq Binaries
    BY DEF BundleInv, BundlesTypeOK
  <2> QED
    BY <1>3, <2>1, SendInv DEF UploadBinaries, Upload
<1>4. ASSUME NEW r \in Requests, ProcessUpload(r) PROVE BundleInv'
  BY <1>4, FindBundleInv, CreateBundleInv, GetBundleInv, FindMissingInv, InsertBinaryInv, FailInv,
     CountBinariesInv, SaveBundleInv, CommitUploadInv, FailUploadInv DEF ProcessUpload
<1> QED
  BY <1>1, <1>2, <1>3, <1>4, GiveUpInv, ForgetInv DEF BundlesNext

(* What the requests do beside is no step of the bundle.                   *)
LEMMA NextBundles == ASSUME [Next]_vars PROVE [BundlesNext]_bundleVars
<1>1. CASE RulesNext
  BY <1>1 DEF RulesNext
<1>2. CASE UploadsNext
  BY <1>2 DEF UploadsNext, BundlesNext
<1> QED
  BY <1>1, <1>2 DEF Next, vars

LEMMA BundleInvariant == Spec => []BundleInv
<1>1. Init => BundleInv
  BY BundleInitInv DEF Init
<1>2. BundleInv /\ [Next]_vars => BundleInv'
  BY NextBundles, BundlesNextInv
<1> QED
  BY <1>1, <1>2, PTL DEF Spec

(* A bundle that is for the rules has all its binaries: whatever the       *)
(* requests that send them and the order of their statements, uploaded_at  *)
(* is only set by one that sees them all.                                  *)
THEOREM BundleComplete == Spec => []UploadedComplete
<1>1. BundleInv => UploadedComplete
  BY DEF BundleInv
<1> QED
  BY <1>1, BundleInvariant, PTL

-----------------------------------------------------------------------------
(* The rules.                                                              *)

Owners == Rulesets \cup {NoRuleset}

(* What may become of the transaction of a session in a step: it writes    *)
(* rows that no other session has written, of its ruleset; and it knows no *)
(* other id than before, or a new one.                                     *)
MayWrite(s, t, k) ==
    /\ ~ Locked(s, k)
    /\ rules[k] # None => rules[k].ruleset = OwnerOf(t)
    /\ MessageOK(t.rows[k])
StepOK(s, t) ==
    /\ t \in Transaction
    /\ StatementInv(t)
    /\ \A k \in Keys : \/ t.rows[k] = Nothing
                       \/ t.rows[k] = tx[s].rows[k] /\ OwnerOf(t) = Own(s)
                       \/ MayWrite(s, t, k)
    /\ ~ Blank(t.rule) => t.rule.ruleset = OwnerOf(t)
    /\ MessageOK(t.rule)
    /\ \A i \in Ids, n \in Owners :
         Known(t, i, n) => RulesetOf(i, n) \/ (~ Used(i) /\ n = OwnerOf(t))

LEMMA UsedIds ==
    ASSUME NEW i \in Ids, NEW n \in Owners, RulesetOf(i, n) PROVE Used(i)
BY DEF RulesetOf, Known, Used

LEMMA StepInv ==
    ASSUME RulesInv, NEW s \in Sessions, NEW t, StepOK(s, t), tx' = [tx EXCEPT ![s] = t],
           UNCHANGED <<rules, rulesets, parties>>, ops' \in Nat
    PROVE  RulesInv'
<1> USE DEF RulesInv, RulesetsTypeOK
<1>1. RulesetsTypeOK'
  BY DEF StepOK
<1>2. tx'[s] = t /\ \A q \in Sessions \ {s} : tx'[q] = tx[q]
  OBVIOUS
<1>3. \A q \in Sessions : StatementInv(tx'[q])
  BY <1>2 DEF StepOK
<1>4. MessagesInv'
  <2>1. \A k \in Keys : MessageOK(t.rows[k])
    BY DEF StepOK, MayWrite, MessagesInv, MessageOK, Blank
  <2> QED
    BY <1>2, <2>1 DEF StepOK, MessagesInv, MessageOK, Blank
<1>5. LocksInv'
  BY <1>2 DEF StepOK, MayWrite, LocksInv, Locked
<1>6. OwnersInv'
  BY <1>2 DEF StepOK, MayWrite, OwnersInv, Own, OwnerOf, Blank
<1>7. IdsInv'
  <2>1. ASSUME NEW i \in Ids, NEW n \in Owners, RulesetOf(i, n)'
        PROVE  RulesetOf(i, n) \/ (~ Used(i) /\ n = OwnerOf(t))
    <3>1. Known(t, i, n) \/ RulesetOf(i, n)
      BY <1>2, <2>1 DEF RulesetOf, Known, HasId, OwnerOf
    <3> QED
      BY <3>1 DEF StepOK
  <2> QED
    BY <2>1, UsedIds DEF IdsInv, Owners
<1> QED
  BY <1>1, <1>3, <1>4, <1>5, <1>6, <1>7

(* Going to a statement changes nothing else of a transaction.             *)
SameBut(t, u) ==
    /\ t.op = u.op /\ t.rows = u.rows /\ t.rule = u.rule /\ t.others = u.others
    /\ t.key = u.key /\ t.configuration = u.configuration /\ t.targets = u.targets
    /\ t.configurations = u.configurations

LEMMA AtStatement ==
    ASSUME NEW t \in Transaction, NEW statement \in Statement
    PROVE  LET u == [t EXCEPT !.pc = statement]
           IN  u \in Transaction /\ u.pc = statement /\ SameBut(u, t)
BY DEF Transaction, SameBut

(* A session that goes on with a transaction t.                            *)
LEMMA ContinueInv ==
    ASSUME RulesInv, NEW s \in Sessions, NEW t \in Transaction, NEW statement \in Statement,
           Continue(s, statement, t), parties' = parties,
           \A u \in Transaction : SameBut(u, t) /\ u.pc = statement => StepOK(s, u)
    PROVE  RulesInv'
<1> DEFINE u == [t EXCEPT !.pc = statement]
<1>0. \A v \in Transaction : LET w == [v EXCEPT !.pc = statement]
                             IN  w \in Transaction /\ w.pc = statement /\ SameBut(w, v)
  BY AtStatement
<1>1. u \in Transaction /\ u.pc = statement /\ SameBut(u, t)
  BY <1>0, Zenon
<1>2. tx' = [tx EXCEPT ![s] = u] /\ UNCHANGED <<rules, rulesets, ops>>
  BY DEF Continue
<1> HIDE DEF u
<1> QED
  BY <1>1, <1>2, StepInv DEF RulesInv, RulesetsTypeOK

(* One that does nothing but control what comes next.                      *)
LEMMA KeepsOK ==
    ASSUME RulesInv, NEW s \in Sessions, NEW u \in Transaction, StatementInv(u),
           u.op = tx[s].op, u.rows = tx[s].rows, u.rule \in {tx[s].rule, None},
           u.others \subseteq tx[s].others
    PROVE  StepOK(s, u)
<1>1. Own(s) = OwnerOf(u)
  BY DEF Own, OwnerOf
<1>2. ~ Blank(u.rule) => u.rule.ruleset = OwnerOf(u)
  BY <1>1 DEF RulesInv, OwnersInv, Blank, Own
<1>3. MessageOK(u.rule)
  BY DEF RulesInv, MessagesInv, MessageOK, Blank
<1>4. ASSUME NEW i \in Ids, NEW n \in Owners, Known(u, i, n) PROVE RulesetOf(i, n)
  <2>1. Known(tx[s], i, n)
    BY <1>1, <1>4 DEF Known, HasId, Own
  <2> QED
    BY <2>1 DEF RulesetOf
<1> QED
  BY <1>1, <1>2, <1>3, <1>4 DEF StepOK

(* What the requests say.                                                  *)
LEMMA PostEntries ==
    ASSUME NEW op \in Posts
    PROVE  /\ op.type = "post" /\ op.ruleset \in Rulesets
           /\ DOMAIN op.rules \subseteq Targets
           /\ \A t \in DOMAIN op.rules : op.rules[t] \in UpdateEntries
           /\ op.configurations \subseteq Configurations
<1>1. op.rules \in Definitions
  BY DEF Posts
<1>2. PICK ts \in SUBSET Targets :
        op.rules \in {d \in [ts -> UNION {Entries(t) : t \in ts}] : \A t \in ts : d[t] \in Entries(t)}
  BY <1>1 DEF Definitions
<1>3. DOMAIN op.rules = ts /\ \A t \in ts : op.rules[t] \in UpdateEntries
  BY <1>2 DEF Entries, UpdateEntries
<1> QED
  BY <1>3 DEF Posts

LEMMA FormEntries ==
    ASSUME NEW op \in Forms
    PROVE  /\ op.type \in {"create", "update", "delete"} /\ op.key \in Keys
           /\ op.type \in {"create", "update"} => op.entry \in UpdateEntries
BY DEF Forms

LEMMA TransactionTypes ==
    ASSUME RulesInv, NEW s \in Sessions
    PROVE  /\ tx[s] \in Transaction /\ StatementInv(tx[s])
           /\ tx[s].op \in Posts \cup Forms \cup {Nothing}
           /\ tx[s].rows \in [Keys -> Rule \cup {None, Nothing}]
           /\ tx[s].rule \in Rule \cup {None}
           /\ tx[s].others \subseteq Keys \X Ids /\ tx[s].targets \subseteq Targets
           /\ tx[s].configurations \subseteq Configurations
           /\ tx[s].pc \in Statement
BY DEF RulesInv, RulesetsTypeOK, Transaction

(* The statements that write nothing and find nothing.                     *)
LEMMA ValidateInv ==
    ASSUME RulesInv, parties' = parties, NEW s \in Sessions, Validate(s) PROVE RulesInv'
<1> DEFINE t == [tx[s] EXCEPT !.configurations = tx[s].op.configurations]
<1>1. tx[s] \in Transaction /\ tx[s].op \in Posts
  <2>1. tx[s].op \in Posts \cup Forms
    BY TransactionTypes DEF Validate, Does, StatementInv
  <2> QED
    BY <2>1, TransactionTypes, FormEntries DEF Validate, IsPost
<1>2. tx[s].op.configurations \in SUBSET Configurations
  BY <1>1, PostEntries
<1>4. /\ t \in Transaction /\ t.op = tx[s].op /\ t.rows = tx[s].rows /\ t.rule = tx[s].rule
      /\ t.others = tx[s].others
  BY <1>1, <1>2 DEF Transaction, SameBut
<1>5. PICK statement \in {"ruleset", "failed"} : Continue(s, statement, t)
  BY DEF Validate
<1> HIDE DEF t
<1>6. ASSUME NEW u \in Transaction, SameBut(u, t), u.pc = statement PROVE StepOK(s, u)
  <2>1. StatementInv(u)
    BY <1>1, <1>4, <1>6 DEF SameBut, StatementInv
  <2> QED
    BY <1>4, <1>6, <2>1, KeepsOK DEF SameBut
<1> QED
  BY <1>4, <1>5, <1>6, ContinueInv DEF Statement

LEMMA GetRulesetInv ==
    ASSUME RulesInv, parties' = parties, NEW s \in Sessions, GetRuleset(s) PROVE RulesInv'
<1> DEFINE name == tx[s].op.ruleset
           t == IF name \in rulesets THEN tx[s] ELSE [tx[s] EXCEPT !.ruleset = name]
<1>1. tx[s] \in Transaction /\ tx[s].op \in Posts
  BY TransactionTypes DEF GetRuleset, Does, StatementInv
<1>2. name \in Rulesets
  BY <1>1, PostEntries
<1>4. [tx[s] EXCEPT !.ruleset = name] \in Transaction /\ SameBut([tx[s] EXCEPT !.ruleset = name], tx[s])
  BY <1>1, <1>2 DEF Transaction, SameBut
<1>5. t \in Transaction /\ SameBut(t, tx[s])
  BY <1>1, <1>4 DEF SameBut
<1>6. Continue(s, "configuration", t)
  BY DEF GetRuleset
<1> HIDE DEF t
<1>7. ASSUME NEW u \in Transaction, SameBut(u, t), u.pc = "configuration" PROVE StepOK(s, u)
  <2>1. StatementInv(u)
    BY <1>1, <1>5, <1>7 DEF SameBut, StatementInv
  <2> QED
    BY <1>5, <1>7, <2>1, KeepsOK DEF SameBut
<1> QED
  BY <1>5, <1>6, <1>7, ContinueInv DEF Statement

LEMMA NextConfigurationInv ==
    ASSUME RulesInv, parties' = parties, NEW s \in Sessions, NextConfiguration(s) PROVE RulesInv'
<1>1. tx[s] \in Transaction /\ tx[s].op \in Posts
  BY TransactionTypes DEF NextConfiguration, Does, StatementInv
<1>2. PICK c \in tx[s].configurations :
        Continue(s, "rule", [tx[s] EXCEPT !.configurations = @ \ {c}, !.configuration = c,
                                          !.targets = DOMAIN tx[s].op.rules])
  BY DEF NextConfiguration
<1> DEFINE cs == tx[s].configurations \ {c}
           ts == DOMAIN tx[s].op.rules
           t == [tx[s] EXCEPT !.configurations = cs, !.configuration = c, !.targets = ts]
<1>6. Continue(s, "rule", t)
  BY <1>2
<1>3. c \in Configurations /\ cs \in SUBSET Configurations /\ ts \in SUBSET Targets
  BY <1>1, PostEntries, TransactionTypes
<1> HIDE DEF cs, ts
<1>5. /\ t \in Transaction /\ t.op = tx[s].op /\ t.rows = tx[s].rows /\ t.rule = tx[s].rule
      /\ t.others = tx[s].others /\ t.configuration = c /\ t.targets = ts
  BY <1>1, <1>3 DEF Transaction
<1> HIDE DEF t
<1>7. ASSUME NEW u \in Transaction, SameBut(u, t), u.pc = "rule" PROVE StepOK(s, u)
  <2>1. StatementInv(u)
    BY <1>1, <1>3, <1>5, <1>7 DEF SameBut, StatementInv, ts
  <2> QED
    BY <1>5, <1>7, <2>1, KeepsOK DEF SameBut
<1> QED
  BY <1>5, <1>6, <1>7, ContinueInv DEF Statement

(* The rule to be saved: the row that was read, with the entry of a        *)
(* request.                                                                *)
LEMMA ChangedRule ==
    ASSUME NEW t \in Transaction, NEW k \in Keys, NEW row \in Rule, NEW entry \in UpdateEntries
    PROVE  LET u == Changed(t, k, row, entry)
           IN  /\ u \in Transaction /\ u.key = k /\ u.rule \in Rule
               /\ u.rule.id = row.id /\ u.rule.ruleset = row.ruleset /\ MessageOK(u.rule)
               /\ u.op = t.op /\ u.rows = t.rows /\ u.others = t.others
               /\ u.configuration = t.configuration /\ u.targets = t.targets
<1> DEFINE rule == [row EXCEPT !.policy = entry.policy, !.custom_msg = entry.custom_msg]
           bump == row.custom_msg # entry.custom_msg
           u == Changed(t, k, row, entry)
<1>1. entry.policy \in Policies /\ entry.custom_msg \in Messages
  BY DEF UpdateEntries
<1>2. rule \in Rule /\ rule.id = row.id /\ rule.ruleset = row.ruleset /\ MessageOK(rule)
  BY <1>1, MessagesAssumption, PoliciesAssumption DEF Rule, MessageOK, UpdateEntries
<1>3. bump \in BOOLEAN
  OBVIOUS
<1>4. u = [t EXCEPT !.key = k, !.rule = rule, !.bump = bump]
  BY DEF Changed
<1> HIDE DEF rule, bump, u
<1>5. /\ u \in Transaction /\ u.key = k /\ u.rule = rule
      /\ u.op = t.op /\ u.rows = t.rows /\ u.others = t.others
      /\ u.configuration = t.configuration /\ u.targets = t.targets
  BY <1>2, <1>3, <1>4 DEF Transaction
<1> QED
  BY <1>2, <1>5 DEF u

LEMMA SavesInv ==
    ASSUME RulesInv, parties' = parties, NEW s \in Sessions, tx[s].op \in Posts \cup Forms,
           NEW t \in Transaction, t.op = tx[s].op, t.rows = tx[s].rows, t.others = tx[s].others,
           tx[s].op \in Posts =>
             t.configuration \in Configurations /\ t.targets \subseteq DOMAIN tx[s].op.rules,
           NEW k \in Keys, NEW row \in Rule, NEW entry \in UpdateEntries,
           row.ruleset = Own(s), RulesetOf(row.id, row.ruleset),
           Continue(s, "save", Changed(t, k, row, entry))
    PROVE  RulesInv'
<1> DEFINE c == Changed(t, k, row, entry)
<1>1. /\ c \in Transaction /\ c.key = k /\ c.rule \in Rule
      /\ c.rule.id = row.id /\ c.rule.ruleset = row.ruleset /\ MessageOK(c.rule)
      /\ c.op = t.op /\ c.rows = t.rows /\ c.others = t.others
      /\ c.configuration = t.configuration /\ c.targets = t.targets
  BY ChangedRule
<1> HIDE DEF c
<1>2. ASSUME NEW u \in Transaction, SameBut(u, c), u.pc = "save" PROVE StepOK(s, u)
  <2>1. StatementInv(u)
    BY <1>1, <1>2 DEF SameBut, StatementInv
  <2>2. OwnerOf(u) = Own(s) /\ u.rows = tx[s].rows /\ u.rule = c.rule /\ u.others = tx[s].others
    BY <1>1, <1>2 DEF SameBut, OwnerOf, Own
  <2>3. ASSUME NEW i \in Ids, NEW n \in Owners, Known(u, i, n) PROVE RulesetOf(i, n)
    <3>1. Known(tx[s], i, n) \/ (i = row.id /\ n = row.ruleset)
      BY <1>1, <2>2, <2>3 DEF Known, HasId, Own
    <3> QED
      BY <3>1 DEF RulesetOf
  <2> QED
    BY <1>1, <2>1, <2>2, <2>3 DEF StepOK
<1> QED
  BY <1>1, <1>2, ContinueInv DEF Statement, c

LEMMA SeenRule ==
    ASSUME RulesInv, NEW s \in Sessions, NEW k \in Keys, Seen(s, k) # None
    PROVE  Seen(s, k) \in Rule /\ RulesetOf(Seen(s, k).id, Seen(s, k).ruleset)
<1>1. Seen(s, k) \in Rule
  BY TransactionTypes DEF Seen, RulesInv, RulesetsTypeOK
<1>2. HasId(Seen(s, k), Seen(s, k).id)
  BY <1>1, NoRowAssumption DEF HasId
<1> QED
  BY <1>1, <1>2 DEF Seen, RulesetOf, Known

LEMMA PresentInv ==
    ASSUME RulesInv, parties' = parties, NEW s \in Sessions, tx[s].op \in Posts,
           NEW t \in Transaction, t.op = tx[s].op, t.rows = tx[s].rows, t.others = tx[s].others,
           t.rule = tx[s].rule, t.configuration \in Configurations,
           t.targets \subseteq DOMAIN tx[s].op.rules,
           NEW k \in Keys, k[2] \in DOMAIN tx[s].op.rules,
           Seen(s, k) # None, Seen(s, k).ruleset = tx[s].op.ruleset, Present(s, t, k)
    PROVE  RulesInv'
<1>1. Seen(s, k) \in Rule /\ RulesetOf(Seen(s, k).id, Seen(s, k).ruleset)
  BY SeenRule
<1>2. tx[s].op.rules[k[2]] \in UpdateEntries /\ Own(s) = tx[s].op.ruleset
  BY PostEntries DEF Own, OwnerOf
<1>3. CASE Continue(s, "save", Changed(t, k, Seen(s, k), tx[s].op.rules[k[2]]))
  BY <1>1, <1>2, <1>3, SavesInv
<1>4. CASE Continue(s, "rule", t)
  <2>1. ASSUME NEW u \in Transaction, SameBut(u, t), u.pc = "rule" PROVE StepOK(s, u)
    <3>1. StatementInv(u)
      BY <2>1 DEF SameBut, StatementInv
    <3> QED
      BY <2>1, <3>1, KeepsOK DEF SameBut
  <2> QED
    BY <1>4, <2>1, ContinueInv DEF Statement
<1> QED
  BY <1>3, <1>4 DEF Present

LEMMA GetRuleInv ==
    ASSUME RulesInv, parties' = parties, NEW s \in Sessions, GetRule(s) PROVE RulesInv'
<1>1. /\ tx[s] \in Transaction /\ tx[s].op \in Posts /\ tx[s].configuration \in Configurations
      /\ tx[s].targets \subseteq DOMAIN tx[s].op.rules /\ DOMAIN tx[s].op.rules \subseteq Targets
  BY TransactionTypes, PostEntries DEF GetRule, Does, StatementInv
<1>2. PICK target \in tx[s].targets :
        LET k == <<tx[s].configuration, target>>
            left == [tx[s] EXCEPT !.targets = @ \ {target}]
        IN  IF Seen(s, k) # None /\ Seen(s, k).ruleset = tx[s].op.ruleset
            THEN Present(s, left, k)
            ELSE Continue(s, "insert", [left EXCEPT !.key = k])
  BY DEF GetRule
<1> DEFINE k == <<tx[s].configuration, target>>
           targets == tx[s].targets \ {target}
           left == [tx[s] EXCEPT !.targets = targets]
           t == [left EXCEPT !.key = k]
<1>3. k \in Keys /\ k[2] \in DOMAIN tx[s].op.rules /\ targets \in SUBSET Targets
      /\ targets \subseteq DOMAIN tx[s].op.rules
  BY <1>1 DEF Keys
<1>4. \/ Seen(s, k) # None /\ Seen(s, k).ruleset = tx[s].op.ruleset /\ Present(s, left, k)
      \/ Continue(s, "insert", t)
  BY <1>2
<1> HIDE DEF k, targets
<1>5. /\ left \in Transaction /\ left.op = tx[s].op /\ left.rows = tx[s].rows
      /\ left.rule = tx[s].rule /\ left.others = tx[s].others
      /\ left.configuration = tx[s].configuration /\ left.targets = targets
  BY <1>1, <1>3 DEF Transaction
<1> HIDE DEF left
<1>6. /\ t \in Transaction /\ t.op = tx[s].op /\ t.rows = tx[s].rows
      /\ t.rule = tx[s].rule /\ t.others = tx[s].others /\ t.key = k
      /\ t.configuration = tx[s].configuration /\ t.targets = targets
  BY <1>3, <1>5 DEF Transaction
<1> HIDE DEF t
<1>7. ASSUME NEW u \in Transaction, SameBut(u, t), u.pc = "insert" PROVE StepOK(s, u)
  <2>1. StatementInv(u)
    BY <1>1, <1>3, <1>6, <1>7 DEF SameBut, StatementInv
  <2> QED
    BY <1>6, <1>7, <2>1, KeepsOK DEF SameBut
<1>8. CASE Seen(s, k) # None /\ Seen(s, k).ruleset = tx[s].op.ruleset /\ Present(s, left, k)
  BY <1>1, <1>3, <1>5, <1>8, PresentInv
<1>9. CASE Continue(s, "insert", t)
  BY <1>6, <1>7, <1>9, ContinueInv DEF Statement
<1> QED
  BY <1>4, <1>8, <1>9

(* The rules to delete: the ids of those that are of the ruleset.          *)
LEMMA FindOthersInv ==
    ASSUME RulesInv, parties' = parties, NEW s \in Sessions, FindOthers(s) PROVE RulesInv'
<1> DEFINE others == {<<k, Seen(s, k).id>> : k \in Others(s)}
           t == [tx[s] EXCEPT !.others = others]
<1>1. tx[s] \in Transaction /\ tx[s].op \in Posts
  BY TransactionTypes DEF FindOthers, Does, StatementInv
<1>2. Own(s) = tx[s].op.ruleset
  BY <1>1, PostEntries DEF Own, OwnerOf
<1>3. ASSUME NEW k \in Keys, NEW i, <<k, i>> \in others
      PROVE  i \in Ids /\ RulesetOf(i, Own(s))
  <2>1. k \in Others(s) /\ i = Seen(s, k).id
    BY <1>3
  <2>2. Seen(s, k) # None /\ Seen(s, k).ruleset = Own(s)
    BY <1>2, <2>1 DEF Others
  <2> QED
    BY <2>1, <2>2, SeenRule DEF Rule
<1>4. others \subseteq Keys \X Ids
  <2>1. ASSUME NEW k \in Others(s) PROVE k \in Keys /\ Seen(s, k) # None
    BY DEF Others
  <2>2. ASSUME NEW k \in Others(s) PROVE <<k, Seen(s, k).id>> \in Keys \X Ids
    BY <2>1, SeenRule DEF Rule
  <2> QED
    BY <2>2
<1>5. Continue(s, "others", t)
  BY DEF FindOthers
<1> HIDE DEF others
<1>6. /\ t \in Transaction /\ t.op = tx[s].op /\ t.rows = tx[s].rows /\ t.rule = tx[s].rule
      /\ t.others = others
  BY <1>1, <1>4 DEF Transaction
<1> HIDE DEF t
<1>7. ASSUME NEW u \in Transaction, SameBut(u, t), u.pc = "others" PROVE StepOK(s, u)
  <2>1. StatementInv(u)
    BY <1>1, <1>6, <1>7 DEF SameBut, StatementInv
  <2>2. OwnerOf(u) = Own(s) /\ u.rows = tx[s].rows /\ u.rule = tx[s].rule /\ u.others = others
    BY <1>6, <1>7 DEF SameBut, OwnerOf, Own
  <2>3. ASSUME NEW i \in Ids, NEW n \in Owners, Known(u, i, n) PROVE RulesetOf(i, n)
    BY <1>3, <2>2, <2>3 DEF Known, HasId, RulesetOf
  <2>4. (~ Blank(u.rule) => u.rule.ruleset = OwnerOf(u)) /\ MessageOK(u.rule)
    BY <2>2 DEF RulesInv, OwnersInv, MessagesInv, Own
  <2> QED
    BY <2>1, <2>2, <2>3, <2>4 DEF StepOK
<1> QED
  BY <1>5, <1>6, <1>7, ContinueInv DEF Statement

LEMMA EndConfigurationInv ==
    ASSUME RulesInv, parties' = parties, NEW s \in Sessions, EndConfiguration(s) PROVE RulesInv'
<1> DEFINE t == [tx[s] EXCEPT !.configuration = Nothing]
<1>1. tx[s] \in Transaction /\ tx[s].op \in Posts
  BY TransactionTypes DEF EndConfiguration, Does, StatementInv
<1>2. /\ t \in Transaction /\ t.op = tx[s].op /\ t.rows = tx[s].rows /\ t.rule = tx[s].rule
      /\ t.others = tx[s].others
  BY <1>1 DEF Transaction
<1>3. PICK statement \in {"commit", "configuration"} : Continue(s, statement, t)
  BY DEF EndConfiguration
<1> HIDE DEF t
<1>4. ASSUME NEW u \in Transaction, SameBut(u, t), u.pc = statement PROVE StepOK(s, u)
  <2>1. StatementInv(u)
    BY <1>1, <1>2, <1>4 DEF SameBut, StatementInv
  <2> QED
    BY <1>2, <1>4, <2>1, KeepsOK DEF SameBut
<1> QED
  BY <1>2, <1>3, <1>4, ContinueInv DEF Statement

(* A session that writes a row.                                            *)
LEMMA WritesOK ==
    ASSUME RulesInv, NEW s \in Sessions, NEW k \in Keys, NEW row \in Rule \cup {None},
           ~ Locked(s, k), MessageOK(row), rules[k] # None => rules[k].ruleset = Own(s),
           \A i \in Ids, n \in Owners :
             HasId(row, i) /\ row.ruleset = n => RulesetOf(i, n) \/ (~ Used(i) /\ n = Own(s)),
           NEW u \in Transaction, StatementInv(u), u.op = tx[s].op,
           u.rows = [tx[s].rows EXCEPT ![k] = row], u.rule \in {tx[s].rule, None},
           u.others \subseteq tx[s].others
    PROVE  StepOK(s, u)
<1>1. OwnerOf(u) = Own(s)
  BY DEF OwnerOf, Own
<1>2. u.rows[k] = row /\ \A l \in Keys \ {k} : u.rows[l] = tx[s].rows[l]
  BY TransactionTypes
<1>3. (~ Blank(u.rule) => u.rule.ruleset = OwnerOf(u)) /\ MessageOK(u.rule)
  BY <1>1 DEF RulesInv, OwnersInv, MessagesInv, MessageOK, Blank, Own
<1>4. ASSUME NEW i \in Ids, NEW n \in Owners, Known(u, i, n)
      PROVE  RulesetOf(i, n) \/ (~ Used(i) /\ n = Own(s))
  <2>1. Known(tx[s], i, n) \/ (HasId(row, i) /\ row.ruleset = n)
    BY <1>1, <1>2, <1>4 DEF Known, HasId, Own
  <2> QED
    BY <2>1 DEF RulesetOf
<1> QED
  BY <1>1, <1>2, <1>3, <1>4 DEF StepOK, MayWrite

LEMMA DeletedRows ==
    ASSUME RulesInv, NEW s \in Sessions, NEW t \in Transaction, NEW k \in Keys, NEW id
    PROVE  LET u == Deleted(s, t, k, id)
           IN  /\ u \in Transaction /\ u.op = t.op /\ u.rule = t.rule /\ u.others = t.others
               /\ \/ u.rows = t.rows
                  \/ Seen(s, k) # None /\ Seen(s, k).id = id /\ u.rows = [t.rows EXCEPT ![k] = None]
<1> DEFINE row == IF Seen(s, k) # None /\ Seen(s, k).id = id THEN None ELSE t.rows[k]
           rows == [t.rows EXCEPT ![k] = row]
           u == Deleted(s, t, k, id)
<1>1. t.rows \in [Keys -> Rule \cup {None, Nothing}]
  BY DEF Transaction
<1>2. u = [t EXCEPT !.rows = rows]
  BY <1>1 DEF Deleted, Transaction
<1>3. /\ rows \in [Keys -> Rule \cup {None, Nothing}]
      /\ \/ rows = t.rows
         \/ Seen(s, k) # None /\ Seen(s, k).id = id /\ rows = [t.rows EXCEPT ![k] = None]
  BY <1>1
<1> HIDE DEF rows, u
<1>4. u \in Transaction /\ u.op = t.op /\ u.rule = t.rule /\ u.others = t.others /\ u.rows = rows
  BY <1>2, <1>3 DEF Transaction
<1> QED
  BY <1>3, <1>4 DEF u

(* An id tells the ruleset of the row that is deleted, or saved.           *)
LEMMA SameId ==
    ASSUME RulesInv, NEW s \in Sessions, NEW k \in Keys, NEW i \in Ids,
           Seen(s, k) # None, Seen(s, k).id = i, Known(tx[s], i, Own(s)), Own(s) \in Owners
    PROVE  rules[k] # None => rules[k].ruleset = Own(s)
<1>0. CASE tx[s].rows[k] # Nothing
  BY <1>0 DEF RulesInv, OwnersInv, Own
<1> SUFFICES ASSUME rules[k] # None, rules[k].id = i PROVE rules[k].ruleset = Own(s)
  BY <1>0 DEF Seen
<1>1. rules[k] \in Rule
  BY DEF RulesInv, RulesetsTypeOK
<1>2. HasId(rules[k], i) /\ rules[k].ruleset \in Owners
  BY <1>1, NoRowAssumption DEF HasId, Rule, Owners
<1>3. RulesetOf(i, rules[k].ruleset) /\ RulesetOf(i, Own(s))
  BY <1>2 DEF RulesetOf
<1> QED
  BY <1>2, <1>3 DEF RulesInv, IdsInv, Owners

LEMMA OwnOwners ==
    ASSUME RulesInv, NEW s \in Sessions, tx[s].op \in Posts \cup Forms PROVE Own(s) \in Owners
BY PostEntries, FormEntries DEF Own, OwnerOf, Owners

LEMMA DeleteOtherInv ==
    ASSUME RulesInv, parties' = parties, NEW s \in Sessions, DeleteOther(s) PROVE RulesInv'
<1>1. PICK o \in tx[s].others :
        /\ ~ Locked(s, o[1])
        /\ Continue(s, "others", Deleted(s, [tx[s] EXCEPT !.others = @ \ {o}], o[1], o[2]))
  BY DEF DeleteOther
<1>2. tx[s] \in Transaction /\ tx[s].op \in Posts /\ tx[s].others \subseteq Keys \X Ids
  BY TransactionTypes DEF DeleteOther, Does, StatementInv
<1> DEFINE others == tx[s].others \ {o}
           t == [tx[s] EXCEPT !.others = others]
           d == Deleted(s, t, o[1], o[2])
<1>3. o[1] \in Keys /\ o[2] \in Ids /\ o = <<o[1], o[2]>> /\ others \subseteq Keys \X Ids
  BY <1>2
<1>4. Continue(s, "others", d)
  BY <1>1
<1>5. others \subseteq tx[s].others
  OBVIOUS
<1> HIDE DEF others
<1>6. /\ t \in Transaction /\ t.op = tx[s].op /\ t.rows = tx[s].rows /\ t.rule = tx[s].rule
      /\ t.others = others
  BY <1>2, <1>3 DEF Transaction
<1> HIDE DEF t
<1>7. /\ d \in Transaction /\ d.op = t.op /\ d.rule = t.rule /\ d.others = t.others
      /\ \/ d.rows = t.rows
         \/ /\ Seen(s, o[1]) # None /\ Seen(s, o[1]).id = o[2]
            /\ d.rows = [t.rows EXCEPT ![o[1]] = None]
  BY <1>3, <1>6, DeletedRows
<1> HIDE DEF d
<1>8. ASSUME NEW u \in Transaction, SameBut(u, d), u.pc = "others" PROVE StepOK(s, u)
  <2>1. StatementInv(u) /\ u.op = tx[s].op /\ u.rule = tx[s].rule /\ u.others \subseteq tx[s].others
    BY <1>2, <1>5, <1>6, <1>7, <1>8 DEF SameBut, StatementInv
  <2>2. CASE d.rows = t.rows
    BY <1>6, <1>7, <1>8, <2>1, <2>2, KeepsOK DEF SameBut
  <2>3. CASE Seen(s, o[1]) # None /\ Seen(s, o[1]).id = o[2] /\ d.rows = [t.rows EXCEPT ![o[1]] = None]
    <3>1. Known(tx[s], o[2], Own(s))
      BY <1>3 DEF Known, Own
    <3>2. rules[o[1]] # None => rules[o[1]].ruleset = Own(s)
      BY <1>2, <1>3, <2>3, <3>1, SameId, OwnOwners
    <3>3. MessageOK(None) /\ \A i \in Ids : ~ HasId(None, i)
      BY DEF MessageOK, Blank, HasId
    <3>4. u.rows = [tx[s].rows EXCEPT ![o[1]] = None]
      BY <1>6, <1>8, <2>3 DEF SameBut
    <3> QED
      BY <1>1, <1>3, <2>1, <3>2, <3>3, <3>4, WritesOK
  <2> QED
    BY <1>7, <2>2, <2>3
<1> QED
  BY <1>4, <1>7, <1>8, ContinueInv DEF Statement

(* The end of a request.                                                   *)
LEMMA EndsInv ==
    ASSUME RulesInv, parties' = parties, NEW s \in Sessions, tx[s].op \in Posts \cup Forms,
           NEW statement \in {"failed", "commit"}, Continue(s, statement, tx[s])
    PROVE  RulesInv'
<1>1. ASSUME NEW u \in Transaction, SameBut(u, tx[s]), u.pc = statement PROVE StepOK(s, u)
  <2>1. StatementInv(u)
    BY <1>1 DEF SameBut, StatementInv
  <2> QED
    BY <1>1, <2>1, KeepsOK DEF SameBut
<1> QED
  BY <1>1, TransactionTypes, ContinueInv DEF Statement

LEMMA AbortInv ==
    ASSUME RulesInv, parties' = parties, NEW s \in Sessions, Abort(s) PROVE RulesInv'
<1>1. tx[s].pc \in {"insert", "save", "delete", "others"}
  BY DEF Abort, WaitsFor, Does
<1>2. tx[s].op \in Posts \cup Forms
  BY <1>1, TransactionTypes DEF StatementInv
<1> QED
  BY <1>2, EndsInv DEF Abort

LEMMA CreateFormInv ==
    ASSUME RulesInv, parties' = parties, NEW s \in Sessions, CreateForm(s) PROVE RulesInv'
<1> DEFINE t == [tx[s] EXCEPT !.key = tx[s].op.key]
<1>1. tx[s] \in Transaction /\ tx[s].op \in Forms /\ tx[s].op.type = "create" /\ tx[s].op.key \in Keys
  <2>1. tx[s].op \in Posts \cup Forms /\ tx[s].op.type = "create"
    BY TransactionTypes DEF CreateForm, Does, StatementInv
  <2> QED
    BY <2>1, TransactionTypes, PostEntries, FormEntries
<1>2. /\ t \in Transaction /\ t.op = tx[s].op /\ t.rows = tx[s].rows /\ t.rule = tx[s].rule
      /\ t.others = tx[s].others /\ t.key = tx[s].op.key
  BY <1>1 DEF Transaction
<1>3. PICK statement \in {"insert", "failed"} : Continue(s, statement, t)
  BY DEF CreateForm
<1> HIDE DEF t
<1>4. ASSUME NEW u \in Transaction, SameBut(u, t), u.pc = statement PROVE StepOK(s, u)
  <2>1. u.op \notin Posts
    BY <1>1, <1>2, <1>4, PostEntries DEF SameBut
  <2>2. StatementInv(u)
    BY <1>1, <1>2, <1>4, <2>1 DEF SameBut, StatementInv
  <2> QED
    BY <1>2, <1>4, <2>2, KeepsOK DEF SameBut
<1> QED
  BY <1>2, <1>3, <1>4, ContinueInv DEF Statement

LEMMA FormRule ==
    ASSUME RulesInv, NEW s \in Sessions, NEW k \in Keys, rules[k] # None,
           rules[k].ruleset = NoRuleset, tx[s].op \in Forms
    PROVE  /\ rules[k] \in Rule /\ RulesetOf(rules[k].id, rules[k].ruleset)
           /\ rules[k].ruleset = Own(s) /\ MessageOK(rules[k]) /\ tx[s].op \notin Posts
<1>1. rules[k] \in Rule
  BY DEF RulesInv, RulesetsTypeOK
<1>2. HasId(rules[k], rules[k].id)
  BY <1>1, NoRowAssumption DEF HasId
<1>3. Own(s) = NoRuleset /\ tx[s].op \notin Posts
  BY FormEntries, PostEntries DEF Own, OwnerOf
<1> QED
  BY <1>1, <1>2, <1>3 DEF RulesetOf, RulesInv, MessagesInv

LEMMA UpdateFormInv ==
    ASSUME RulesInv, parties' = parties, NEW s \in Sessions, UpdateForm(s) PROVE RulesInv'
<1> DEFINE op == tx[s].op
<1>1. tx[s] \in Transaction /\ op \in Forms /\ op.key \in Keys /\ op.entry \in UpdateEntries
  <2>1. op \in Posts \cup Forms /\ op.type = "update"
    BY TransactionTypes DEF UpdateForm, Does, StatementInv
  <2> QED
    BY <2>1, TransactionTypes, PostEntries, FormEntries
<1>2. CASE Continue(s, "failed", tx[s]) \/ Continue(s, "commit", tx[s])
  BY <1>1, <1>2, EndsInv
<1>3. CASE CanEdit(rules[op.key]) /\ Continue(s, "save", Changed(tx[s], op.key, rules[op.key], op.entry))
  <2>1. /\ rules[op.key] \in Rule /\ RulesetOf(rules[op.key].id, rules[op.key].ruleset)
        /\ rules[op.key].ruleset = Own(s) /\ op \notin Posts
    BY <1>1, <1>3, FormRule DEF CanEdit
  <2> QED
    BY <1>1, <1>3, <2>1, SavesInv
<1> QED
  BY <1>2, <1>3 DEF UpdateForm

LEMMA DeleteFormInv ==
    ASSUME RulesInv, parties' = parties, NEW s \in Sessions, DeleteForm(s) PROVE RulesInv'
<1> DEFINE k == tx[s].op.key
           row == rules[k]
           t == [tx[s] EXCEPT !.key = k, !.rule = row]
<1>1. tx[s] \in Transaction /\ tx[s].op \in Forms /\ k \in Keys
  <2>1. tx[s].op \in Posts \cup Forms /\ tx[s].op.type = "delete"
    BY TransactionTypes DEF DeleteForm, Does, StatementInv
  <2> QED
    BY <2>1, TransactionTypes, PostEntries, FormEntries
<1>2. CASE Continue(s, "failed", tx[s])
  BY <1>1, <1>2, EndsInv
<1>3. CASE CanEdit(row) /\ Continue(s, "delete", t)
  <2>1. /\ row \in Rule /\ RulesetOf(row.id, row.ruleset) /\ row.ruleset = Own(s)
        /\ MessageOK(row) /\ tx[s].op \notin Posts
    BY <1>1, <1>3, FormRule DEF CanEdit
  <2> HIDE DEF row
  <2>2. /\ t \in Transaction /\ t.op = tx[s].op /\ t.rows = tx[s].rows /\ t.rule = row
        /\ t.others = tx[s].others /\ t.key = k
    BY <1>1, <2>1 DEF Transaction
  <2>3. Continue(s, "delete", t)
    BY <1>3
  <2> HIDE DEF t
  <2>4. ASSUME NEW u \in Transaction, SameBut(u, t), u.pc = "delete" PROVE StepOK(s, u)
    <3>1. StatementInv(u)
      BY <1>1, <2>1, <2>2, <2>4 DEF SameBut, StatementInv
    <3>2. OwnerOf(u) = Own(s) /\ u.rows = tx[s].rows /\ u.rule = row /\ u.others = tx[s].others
      BY <2>2, <2>4 DEF SameBut, OwnerOf, Own
    <3>3. ASSUME NEW i \in Ids, NEW n \in Owners, Known(u, i, n) PROVE RulesetOf(i, n)
      <4>1. Known(tx[s], i, n) \/ (i = row.id /\ n = row.ruleset)
        BY <3>2, <3>3 DEF Known, HasId, Own
      <4> QED
        BY <2>1, <4>1 DEF RulesetOf
    <3> QED
      BY <2>1, <3>1, <3>2, <3>3 DEF StepOK
  <2> QED
    BY <2>2, <2>3, <2>4, ContinueInv DEF Statement
<1> QED
  BY <1>2, <1>3 DEF DeleteForm

(* rule.delete() by primary key.                                           *)
LEMMA DeleteRuleInv ==
    ASSUME RulesInv, parties' = parties, NEW s \in Sessions, DeleteRule(s) PROVE RulesInv'
<1> DEFINE k == tx[s].key
           id == tx[s].rule.id
           d == Deleted(s, tx[s], k, id)
<1>1. tx[s] \in Transaction /\ tx[s].op \in Posts \cup Forms /\ k \in Keys /\ tx[s].rule \in Rule
  BY TransactionTypes DEF DeleteRule, Does, StatementInv
<1>2. /\ d \in Transaction /\ d.op = tx[s].op /\ d.rule = tx[s].rule /\ d.others = tx[s].others
      /\ \/ d.rows = tx[s].rows
         \/ Seen(s, k) # None /\ Seen(s, k).id = id /\ d.rows = [tx[s].rows EXCEPT ![k] = None]
  BY <1>1, DeletedRows
<1>3. Continue(s, "commit", d) /\ ~ Locked(s, k)
  BY DEF DeleteRule
<1> HIDE DEF d
<1>4. ASSUME NEW u \in Transaction, SameBut(u, d), u.pc = "commit" PROVE StepOK(s, u)
  <2>1. StatementInv(u) /\ u.op = tx[s].op /\ u.rule = tx[s].rule /\ u.others = tx[s].others
    BY <1>1, <1>2, <1>4 DEF SameBut, StatementInv
  <2>2. CASE d.rows = tx[s].rows
    BY <1>4, <2>1, <2>2, KeepsOK DEF SameBut
  <2>3. CASE Seen(s, k) # None /\ Seen(s, k).id = id /\ d.rows = [tx[s].rows EXCEPT ![k] = None]
    <3>1. id \in Ids /\ Known(tx[s], id, Own(s))
      BY <1>1, NoRowAssumption DEF Known, HasId, Rule, RulesInv, OwnersInv, Blank, Own
    <3>2. rules[k] # None => rules[k].ruleset = Own(s)
      BY <1>1, <2>3, <3>1, SameId, OwnOwners
    <3>3. MessageOK(None) /\ \A i \in Ids : ~ HasId(None, i)
      BY DEF MessageOK, Blank, HasId
    <3>4. u.rows = [tx[s].rows EXCEPT ![k] = None]
      BY <1>4, <2>3 DEF SameBut
    <3> QED
      BY <1>1, <1>3, <2>1, <3>2, <3>3, <3>4, WritesOK
  <2> QED
    BY <1>2, <2>2, <2>3
<1> QED
  BY <1>2, <1>3, <1>4, ContinueInv DEF Statement

LEMMA AfterWriteInv ==
    ASSUME RulesInv, parties' = parties, NEW s \in Sessions, tx[s].op \in Posts \cup Forms,
           tx[s].op \in Posts =>
             tx[s].configuration \in Configurations /\ tx[s].targets \subseteq DOMAIN tx[s].op.rules,
           NEW k \in Keys, NEW row \in Rule,
           ~ Locked(s, k), MessageOK(row), rules[k] # None => rules[k].ruleset = Own(s),
           \A i \in Ids, n \in Owners :
             HasId(row, i) /\ row.ruleset = n => RulesetOf(i, n) \/ (~ Used(i) /\ n = Own(s)),
           AfterWrite(s, [tx[s] EXCEPT !.rows[k] = row])
    PROVE  RulesInv'
<1> DEFINE rows == [tx[s].rows EXCEPT ![k] = row]
           t == [tx[s] EXCEPT !.rows = rows]
           w == [t EXCEPT !.key = Nothing, !.rule = None, !.bump = FALSE]
<1>1. tx[s] \in Transaction /\ rows \in [Keys -> Rule \cup {None, Nothing}]
  BY TransactionTypes
<1>2. PICK statement \in {"rule", "commit"} :
        Continue(s, statement, w) /\ (statement = "rule" => tx[s].op \in Posts)
  <2>1. t = [tx[s] EXCEPT !.rows[k] = row]
    BY <1>1 DEF Transaction
  <2>2. IsPost(s) => tx[s].op \in Posts
    BY FormEntries DEF IsPost
  <2> QED
    BY <2>1, <2>2 DEF AfterWrite
<1> HIDE DEF rows
<1>3. /\ t \in Transaction /\ t.op = tx[s].op /\ t.rows = rows /\ t.others = tx[s].others
      /\ t.configuration = tx[s].configuration /\ t.targets = tx[s].targets
  BY <1>1 DEF Transaction
<1> HIDE DEF t
<1>4. /\ w \in Transaction /\ w.op = tx[s].op /\ w.rows = rows /\ w.others = tx[s].others
      /\ w.rule = None
      /\ w.configuration = tx[s].configuration /\ w.targets = tx[s].targets
  BY <1>3 DEF Transaction
<1> HIDE DEF w
<1>5. ASSUME NEW u \in Transaction, SameBut(u, w), u.pc = statement PROVE StepOK(s, u)
  <2>1. /\ StatementInv(u) /\ u.op = tx[s].op /\ u.rule = None /\ u.others = tx[s].others
        /\ u.rows = rows
    BY <1>2, <1>4, <1>5 DEF SameBut, StatementInv
  <2> QED
    BY <2>1, WritesOK DEF rows
<1> QED
  BY <1>2, <1>4, <1>5, ContinueInv DEF Statement

LEMMA CreatedRule ==
    ASSUME RulesInv, NEW s \in Sessions, Does(s, "insert"), NEW i \in Ids
    PROVE  LET row == Created(s, i)
           IN  row \in Rule /\ row.id = i /\ row.ruleset = Own(s) /\ MessageOK(row)
<1> DEFINE entry == IF IsPost(s) THEN tx[s].op.rules[tx[s].key[2]] ELSE tx[s].op.entry
<1>1. tx[s].op \in Posts \cup Forms /\ Own(s) \in Rulesets \cup {NoRuleset}
  BY TransactionTypes, OwnOwners DEF StatementInv, Does, Owners
<1>2. entry \in UpdateEntries
  <2>1. CASE IsPost(s)
    <3>1. tx[s].op \in Posts /\ tx[s].key[2] \in DOMAIN tx[s].op.rules
      BY <1>1, <2>1, FormEntries, TransactionTypes DEF IsPost, Does, StatementInv
    <3> QED
      BY <2>1, <3>1, PostEntries
  <2>2. CASE ~ IsPost(s)
    <3>1. tx[s].op \in Forms /\ tx[s].op.type = "create"
      BY <1>1, <2>2, PostEntries, TransactionTypes DEF IsPost, Does, StatementInv
    <3> QED
      BY <2>2, <3>1, FormEntries
  <2> QED
    BY <2>1, <2>2
<1> HIDE DEF entry
<1>3. Created(s, i) = [id |-> i, ruleset |-> Own(s), policy |-> entry.policy,
                       custom_msg |-> entry.custom_msg, version |-> 1]
  BY DEF Created, entry
<1> QED
  BY <1>1, <1>2, <1>3 DEF UpdateEntries, Rule, MessageOK

(* The rows that are inserted have new ids; those that are there are       *)
(* looked for again.                                                       *)
LEMMA InsertRuleInv ==
    ASSUME RulesInv, parties' = parties, NEW s \in Sessions, InsertRule(s) PROVE RulesInv'
<1> DEFINE k == tx[s].key
<1>1. /\ tx[s] \in Transaction /\ tx[s].op \in Posts \cup Forms /\ k \in Keys
      /\ ~ Locked(s, k) /\ Does(s, "insert")
      /\ tx[s].op \in Posts => /\ tx[s].configuration \in Configurations
                               /\ tx[s].targets \subseteq DOMAIN tx[s].op.rules
                               /\ k[2] \in DOMAIN tx[s].op.rules
  <2>1. tx[s] \in Transaction /\ StatementInv(tx[s]) /\ tx[s].pc = "insert" /\ ~ Locked(s, k)
    BY TransactionTypes DEF InsertRule, Does
  <2>2. tx[s].op \in Posts \cup Forms /\ k \in Keys
    BY <2>1 DEF StatementInv
  <2>3. tx[s].op \in Posts => tx[s].op \notin Forms
    BY PostEntries, FormEntries
  <2> QED
    BY <2>1, <2>2, <2>3 DEF StatementInv, Does
<1>2. ASSUME Seen(s, k) = None, NEW i \in Ids, NewId(i),
             AfterWrite(s, [tx[s] EXCEPT !.rows[k] = Created(s, i)])
      PROVE  RulesInv'
  <2> DEFINE row == Created(s, i)
  <2>1. row \in Rule /\ row.id = i /\ row.ruleset = Own(s) /\ MessageOK(row)
    BY <1>1, CreatedRule
  <2> HIDE DEF row
  <2>2. AfterWrite(s, [tx[s] EXCEPT !.rows[k] = row])
    BY <1>2 DEF row
  <2>3. \A j \in Ids, n \in Owners : HasId(row, j) /\ row.ruleset = n => ~ Used(j) /\ n = Own(s)
    BY <1>2, <2>1 DEF HasId, NewId
  <2>4. rules[k] # None => rules[k].ruleset = Own(s)
    BY <1>1, <1>2 DEF Seen, RulesInv, OwnersInv, Own
  <2> QED
    BY <1>1, <2>1, <2>2, <2>3, <2>4, AfterWriteInv
<1>3. CASE IsPost(s) /\ Seen(s, k) # None /\ Seen(s, k).ruleset = tx[s].op.ruleset
           /\ Present(s, [tx[s] EXCEPT !.key = Nothing], k)
  <2> DEFINE t == [tx[s] EXCEPT !.key = Nothing]
  <2>1. /\ t \in Transaction /\ t.op = tx[s].op /\ t.rows = tx[s].rows /\ t.rule = tx[s].rule
        /\ t.others = tx[s].others /\ t.configuration = tx[s].configuration
        /\ t.targets = tx[s].targets
    BY <1>1 DEF Transaction
  <2>2. tx[s].op \in Posts
    BY <1>1, <1>3, FormEntries DEF IsPost
  <2>3. Present(s, t, k)
    BY <1>3
  <2> HIDE DEF t
  <2> QED
    BY <1>1, <1>3, <2>1, <2>2, <2>3, PresentInv
<1>4. CASE Continue(s, "failed", tx[s])
  BY <1>1, <1>4, EndsInv
<1> QED
  BY <1>2, <1>3, <1>4 DEF InsertRule

(* save() by primary key.                                                  *)
LEMMA SaveRuleInv ==
    ASSUME RulesInv, parties' = parties, NEW s \in Sessions, SaveRule(s) PROVE RulesInv'
<1> DEFINE k == tx[s].key
           rule == tx[s].rule
<1>1. /\ tx[s] \in Transaction /\ tx[s].op \in Posts \cup Forms /\ k \in Keys /\ rule \in Rule
      /\ ~ Locked(s, k)
      /\ tx[s].op \in Posts => /\ tx[s].configuration \in Configurations
                               /\ tx[s].targets \subseteq DOMAIN tx[s].op.rules
  BY TransactionTypes DEF SaveRule, Does, StatementInv
<1>2. rule.id \in Ids /\ rule.ruleset = Own(s) /\ HasId(rule, rule.id) /\ MessageOK(rule)
  BY <1>1, NoRowAssumption DEF Rule, HasId, RulesInv, OwnersInv, MessagesInv, Blank, Own
<1>3. Known(tx[s], rule.id, Own(s)) /\ RulesetOf(rule.id, Own(s)) /\ Own(s) \in Owners
  BY <1>1, <1>2, OwnOwners DEF Known, RulesetOf
<1>4. ASSUME NEW row \in Rule, row.id = rule.id, row.ruleset = rule.ruleset, MessageOK(row),
             rules[k] # None => rules[k].ruleset = Own(s),
             AfterWrite(s, [tx[s] EXCEPT !.rows[k] = row])
      PROVE  RulesInv'
  <2>1. \A i \in Ids, n \in Owners : HasId(row, i) /\ row.ruleset = n => RulesetOf(i, n)
    BY <1>2, <1>3, <1>4 DEF HasId
  <2> QED
    BY <1>1, <1>4, <2>1, AfterWriteInv
<1>5. CASE /\ Seen(s, k) # None /\ Seen(s, k).id = rule.id
           /\ AfterWrite(s, [tx[s] EXCEPT !.rows[k] = Saved(tx[s], Seen(s, k))])
  <2> DEFINE row == Saved(tx[s], Seen(s, k))
  <2>1. Seen(s, k) \in Rule
    BY <1>1, <1>5, SeenRule
  <2>2. row \in Rule /\ row.id = rule.id /\ row.ruleset = rule.ruleset /\ MessageOK(row)
    <3>1. \A r \in Rule, n \in Nat \ {0} :
            LET w == [r EXCEPT !.version = n]
            IN  /\ w \in Rule /\ w.id = r.id /\ w.ruleset = r.ruleset
                /\ w.policy = r.policy /\ w.custom_msg = r.custom_msg
      BY DEF Rule
    <3>2. \A r \in Rule : MessageOK(r) <=> (r.custom_msg # NoMessage => r.policy = Blocklist)
      BY NoRowAssumption DEF MessageOK, Blank
    <3>3. Seen(s, k).version + 1 \in Nat \ {0}
      BY <2>1 DEF Rule
    <3> DEFINE w == [rule EXCEPT !.version = Seen(s, k).version + 1]
    <3>4. /\ w \in Rule /\ w.id = rule.id /\ w.ruleset = rule.ruleset
          /\ w.policy = rule.policy /\ w.custom_msg = rule.custom_msg
      BY <1>1, <3>1, <3>3, Zenon
    <3>5. row = rule \/ row = w
      <4>1. CASE tx[s].bump
        BY <4>1, Zenon DEF Saved
      <4>2. CASE ~ tx[s].bump
        BY <4>2, Zenon DEF Saved
      <4> QED
        BY <4>1, <4>2
    <3> HIDE DEF w, row
    <3> QED
      BY <1>1, <1>2, <3>2, <3>4, <3>5
  <2>3. rules[k] # None => rules[k].ruleset = Own(s)
    BY <1>1, <1>2, <1>3, <1>5, SameId
  <2> HIDE DEF row
  <2>4. AfterWrite(s, [tx[s] EXCEPT !.rows[k] = row])
    BY <1>5 DEF row
  <2> QED
    BY <1>4, <2>2, <2>3, <2>4
<1>6. CASE Seen(s, k) = None /\ AfterWrite(s, [tx[s] EXCEPT !.rows[k] = rule])
  <2>1. rules[k] # None => rules[k].ruleset = Own(s)
    BY <1>1, <1>6 DEF Seen, RulesInv, OwnersInv, Own
  <2> QED
    BY <1>1, <1>2, <1>4, <1>6, <2>1
<1>7. CASE Continue(s, "failed", tx[s])
  BY <1>1, <1>7, EndsInv
<1> QED
  BY <1>5, <1>6, <1>7 DEF SaveRule

(* The blank transaction.                                                  *)
LEMMA NoTxTypes == NoTx \in Transaction /\ StatementInv(NoTx) /\ NoTx.op = Nothing /\ NoTx.pc = "idle"
                   /\ NoTx.rule = None /\ NoTx.others = {} /\ \A k \in Keys : NoTx.rows[k] = Nothing
BY DEF NoTx, Transaction, Statement, StatementInv

LEMMA BlankOK ==
    ASSUME RulesInv, NEW s \in Sessions, NEW t \in Transaction, StatementInv(t),
           t.rule = None, t.others = {}, \A k \in Keys : t.rows[k] = Nothing
    PROVE  StepOK(s, t)
BY DEF StepOK, Blank, MessageOK, Known, HasId

LEMMA FailTxInv ==
    ASSUME RulesInv, parties' = parties, NEW s \in Sessions, Fail(s) PROVE RulesInv'
BY NoTxTypes, BlankOK, StepInv DEF Fail, RulesInv, RulesetsTypeOK

LEMMA BeginInv ==
    ASSUME RulesInv, parties' = parties, NEW s \in Sessions, NEW request \in Posts \cup Forms,
           Begin(s, request)
    PROVE  RulesInv'
<1> DEFINE t == [NoTx EXCEPT !.op = request, !.pc = "start"]
<1>1. /\ t \in Transaction /\ t.op = request /\ t.pc = "start" /\ t.rule = None /\ t.others = {}
      /\ \A k \in Keys : t.rows[k] = Nothing
  BY NoTxTypes DEF Transaction, Statement
<1>2. tx' = [tx EXCEPT ![s] = t] /\ UNCHANGED <<rules, rulesets>> /\ ops' \in Nat
  BY DEF Begin, RulesInv, RulesetsTypeOK
<1> HIDE DEF t
<1>3. StatementInv(t)
  BY <1>1 DEF StatementInv
<1> QED
  BY <1>1, <1>2, <1>3, BlankOK, StepInv

(* The rows that are committed are known already.                          *)
LEMMA CommitInv ==
    ASSUME RulesInv, parties' = parties, NEW s \in Sessions, Commit(s) PROVE RulesInv'
<1>1. \A t \in Transaction : LET u == [t EXCEPT !.alone = FALSE]
                             IN  u \in Transaction /\ u.pc = t.pc /\ SameBut(u, t)
  BY DEF Transaction, SameBut
<1>2. ASSUME NEW q \in Sessions \ {s}
      PROVE  tx'[q] \in Transaction /\ tx'[q].pc = tx[q].pc /\ SameBut(tx'[q], tx[q])
  <2>1. tx[q] \in Transaction
    BY TransactionTypes
  <2>2. [tx[q] EXCEPT !.alone = FALSE] \in Transaction
        /\ [tx[q] EXCEPT !.alone = FALSE].pc = tx[q].pc
        /\ SameBut([tx[q] EXCEPT !.alone = FALSE], tx[q])
    BY <1>1, <2>1, Zenon
  <2>3. tx'[q] = tx[q] \/ tx'[q] = [tx[q] EXCEPT !.alone = FALSE]
    BY DEF Commit
  <2> QED
    BY <2>1, <2>2, <2>3 DEF SameBut
<1>3. tx'[s] = NoTx /\ DOMAIN tx' = Sessions /\ tx' = [q \in Sessions |-> tx'[q]]
  BY DEF Commit
<1>4. \A k \in Keys : rules'[k] = Seen(s, k)
  BY DEF Commit
<1>5. RulesetsTypeOK'
  <2>1. \A k \in Keys : Seen(s, k) \in Rule \cup {None}
    BY TransactionTypes DEF Seen, RulesInv, RulesetsTypeOK
  <2>2. rules' \in [Keys -> Rule \cup {None}]
    BY <2>1 DEF Commit
  <2>3. \A q \in Sessions : tx'[q] \in Transaction
    BY <1>2, <1>3, NoTxTypes
  <2>4. tx' \in [Sessions -> Transaction]
    BY <1>3, <2>3, Zenon
  <2>5. rulesets' \subseteq Rulesets
    BY DEF Commit, RulesInv, RulesetsTypeOK, Transaction
  <2> QED
    BY <2>2, <2>4, <2>5 DEF Commit, RulesInv, RulesetsTypeOK
<1>6. \A q \in Sessions : StatementInv(tx'[q])
  BY <1>2, <1>3, NoTxTypes DEF RulesInv, StatementInv, SameBut
<1>7. MessagesInv'
  BY <1>2, <1>3, <1>4, NoTxTypes DEF RulesInv, MessagesInv, MessageOK, Blank, Seen, SameBut
<1>8. LocksInv'
  BY <1>2, <1>3, NoTxTypes DEF RulesInv, LocksInv, SameBut
<1>9. OwnersInv'
  <2>1. ASSUME NEW q \in Sessions \ {s}, NEW k \in Keys, tx[q].rows[k] # Nothing
        PROVE  rules'[k] = rules[k]
    BY <1>4, <2>1 DEF RulesInv, LocksInv, Seen
  <2> QED
    BY <1>2, <1>3, <2>1, NoTxTypes DEF RulesInv, OwnersInv, OwnerOf, Blank, SameBut
<1>10. IdsInv'
  <2>1. ASSUME NEW i \in Ids, NEW n \in Owners, RulesetOf(i, n)' PROVE RulesetOf(i, n)
    <3>1. CASE \E k \in Keys : HasId(rules'[k], i) /\ rules'[k].ruleset = n
      BY <1>4, <3>1 DEF Seen, RulesetOf, Known
    <3>2. CASE \E q \in Sessions : Known(tx'[q], i, n)
      <4>1. PICK q \in Sessions : Known(tx'[q], i, n)
        BY <3>2
      <4>2. q # s
        BY <1>3, <4>1, NoTxTypes DEF Known, HasId
      <4>3. SameBut(tx'[q], tx[q])
        BY <1>2, <4>2
      <4>4. Known(tx[q], i, n)
        BY <4>1, <4>3 DEF Known, OwnerOf, SameBut
      <4> QED
        BY <4>4 DEF RulesetOf
    <3> QED
      BY <2>1, <3>1, <3>2 DEF RulesetOf, Known, HasId
  <2> QED
    BY <2>1 DEF RulesInv, IdsInv, Owners
<1> QED
  BY <1>5, <1>6, <1>7, <1>8, <1>9, <1>10 DEF RulesInv

-----------------------------------------------------------------------------
(* The theorems.                                                           *)

LEMMA InitRulesInv == ASSUME Init PROVE RulesInv
<1>1. RulesetsTypeOK
  BY NoTxTypes DEF Init, RulesetsTypeOK
<1>2. \A s \in Sessions : tx[s] = NoTx
  BY DEF Init
<1>3. (\A s \in Sessions : StatementInv(tx[s])) /\ MessagesInv /\ LocksInv /\ OwnersInv
  BY <1>2, NoTxTypes DEF Init, MessagesInv, MessageOK, LocksInv, OwnersInv, Blank
<1>4. \A i \in Ids, n \in Owners : ~ RulesetOf(i, n)
  BY <1>2, NoTxTypes DEF Init, RulesetOf, Known, HasId
<1> QED
  BY <1>1, <1>3, <1>4 DEF RulesInv, IdsInv, Owners

LEMMA NextRulesInv == ASSUME RulesInv, [Next]_vars PROVE RulesInv'
<1>1. ASSUME NEW s \in Sessions, SessionNext(s), parties' = parties PROVE RulesInv'
  BY <1>1, ValidateInv, GetRulesetInv, NextConfigurationInv, GetRuleInv, FindOthersInv,
     DeleteOtherInv, EndConfigurationInv, CreateFormInv, UpdateFormInv, DeleteFormInv,
     DeleteRuleInv, InsertRuleInv, SaveRuleInv, AbortInv, CommitInv, FailTxInv DEF SessionNext
<1>2. CASE RulesNext
  BY <1>1, <1>2, BeginInv DEF RulesNext
<1>3. CASE UNCHANGED <<ruleVars, parties>>
  <2>1. UNCHANGED <<rules, rulesets, tx, parties, ops>>
    BY <1>3 DEF ruleVars
  <2>2. RulesetsTypeOK' /\ (\A s \in Sessions : StatementInv(tx'[s])) /\ LocksInv'
    BY <2>1 DEF RulesInv, RulesetsTypeOK, LocksInv
  <2>3. MessagesInv' /\ OwnersInv'
    BY <2>1 DEF RulesInv, MessagesInv, OwnersInv
  <2>4. IdsInv'
    BY <2>1 DEF RulesInv, IdsInv, RulesetOf
  <2> QED
    BY <2>2, <2>3, <2>4 DEF RulesInv
<1> QED
  BY <1>2, <1>3 DEF Next, UploadsNext, vars

LEMMA RulesInvariant == Spec => []RulesInv
<1>1. Init => RulesInv
  BY InitRulesInv
<1>2. RulesInv /\ [Next]_vars => RulesInv'
  BY NextRulesInv
<1> QED
  BY <1>1, <1>2, PTL DEF Spec

(* Only the rules of the blocklist have a message, whatever the posts and  *)
(* the forms that save them and the order of their statements: each has    *)
(* validated the policy and the message that it writes.                    *)
THEOREM MessagesValidated == Spec => []MessagesOfBlocklist
<1>1. RulesInv => MessagesOfBlocklist
  <2> SUFFICES ASSUME RulesInv, NEW k \in Keys, rules[k] # None, rules[k].custom_msg # NoMessage
               PROVE  rules[k].policy = Blocklist
    BY DEF MessagesOfBlocklist
  <2>1. rules[k] # Nothing /\ MessageOK(rules[k])
    BY NoRowAssumption DEF RulesInv, RulesetsTypeOK, MessagesInv
  <2> QED
    BY <2>1 DEF MessageOK, Blank
<1> QED
  BY <1>1, RulesInvariant, PTL

(* A step that changes the rules is a commit, of rows that the transaction *)
(* may write.                                                              *)
LEMMA OwnStep ==
    ASSUME RulesInv, [Next]_vars, NEW s \in Sessions, NEW k \in Keys,
           Commits(s), rules[k] # None, rules'[k] # rules[k]
    PROVE  rules[k].ruleset = Own(s)
<1>1. PICK q \in Sessions : Commit(q)
  <2>1. rules' # rules
    OBVIOUS
  <2>2. ~ UNCHANGED ruleVars
    BY <2>1 DEF ruleVars
  <2>3. RulesNext
    BY <2>2 DEF Next, UploadsNext, vars
  <2>4. PICK q \in Sessions : SessionNext(q) \/ \E request \in Posts \cup Forms : Begin(q, request)
    BY <2>3 DEF RulesNext
  <2>5. ~ \E request \in Posts \cup Forms : Begin(q, request)
    BY <2>1 DEF Begin
  <2> QED
    BY <2>1, <2>4, <2>5 DEF SessionNext, Validate, GetRuleset, NextConfiguration, GetRule, Present,
       FindOthers, DeleteOther, EndConfiguration, CreateForm, UpdateForm, DeleteForm, DeleteRule,
       InsertRule, SaveRule, AfterWrite, Abort, Fail, Continue
<1>2. q = s
  <2>1. tx[s].op # Nothing
    BY TransactionTypes, RequestsAssumption DEF Commits, Does, StatementInv
  <2>2. tx'[s].op = Nothing
    BY DEF Commits
  <2>3. ASSUME q # s PROVE FALSE
    <3>1. tx'[s] = [tx[s] EXCEPT !.alone = FALSE] \/ tx'[s] = tx[s]
      BY <1>1, <2>3 DEF Commit
    <3>2. tx[s] \in Transaction
      BY TransactionTypes
    <3>3. tx'[s].op = tx[s].op
      BY <3>1, <3>2 DEF Transaction
    <3> QED
      BY <2>1, <2>2, <3>3
  <2> QED
    BY <2>3
<1>3. rules'[k] = Seen(s, k)
  BY <1>1, <1>2 DEF Commit
<1>4. tx[s].rows[k] # Nothing
  BY <1>3 DEF Seen
<1> QED
  BY <1>4 DEF RulesInv, OwnersInv, Own

(* A request changes and deletes the rules of its ruleset only, a form     *)
(* those that are in none, although the rules are checked in a statement   *)
(* and written in another one: the ids, and the rows that other sessions   *)
(* have to wait for, tell the ruleset of what is written.                  *)
THEOREM RequestsOwnRules == Spec => OwnRules
<1>1. RulesInv /\ [Next]_vars =>
        [\A s \in Sessions, k \in Keys :
           Commits(s) /\ rules[k] # None /\ rules'[k] # rules[k] => rules[k].ruleset = Own(s)]_vars
  BY OwnStep
<1> QED
  BY <1>1, RulesInvariant, PTL DEF Spec, OwnRules

(* The types of the bundle, of the rules, and of what the requests hold.   *)
THEOREM RulesetsTypes == Spec => []TypeOK
<1>1. BundleInv /\ RulesInv => TypeOK
  BY DEF BundleInv, RulesInv, TypeOK
<1> QED
  BY <1>1, BundleInvariant, RulesInvariant, PTL

-----------------------------------------------------------------------------
(* A request during which no other one is committed.                       *)

Kept(t, u) == SameBut(t, u) /\ t.bump = u.bump /\ t.alone = u.alone

(* A session that goes on with its transaction: nothing else matters.      *)
LEMMA ContinueAlone ==
    ASSUME RulesInv, AloneInv, NEW s \in Sessions, NEW t \in Transaction,
           NEW statement \in Statement, Continue(s, statement, t), t.alone = tx[s].alone,
           tx[s].pc \notin {"idle", "failed"},
           \A u \in Transaction :
             /\ UnderWay(rules, tx[s]) /\ Kept(u, t) /\ u.pc = statement
             /\ statement # "failed"
             => UnderWay(rules, u)
    PROVE  AloneInv'
<1> DEFINE u == [t EXCEPT !.pc = statement]
<1>0. \A v \in Transaction : LET w == [v EXCEPT !.pc = statement]
                             IN  w \in Transaction /\ w.pc = statement /\ Kept(w, v)
  BY DEF Transaction, SameBut, Kept
<1>1. u \in Transaction /\ u.pc = statement /\ Kept(u, t)
  BY <1>0, Zenon
<1>2. tx' = [tx EXCEPT ![s] = u] /\ rules' = rules
  BY DEF Continue
<1> HIDE DEF u
<1>3. tx'[s] = u /\ \A q \in Sessions \ {s} : tx'[q] = tx[q]
  BY <1>2 DEF RulesInv, RulesetsTypeOK
<1>4. u.alone = tx[s].alone
  BY <1>1 DEF Kept
<1>5. tx[s].alone => UnderWay(rules, tx[s])
  BY DEF AloneInv
<1>6. u.alone /\ u.pc # "failed" => UnderWay(rules, u)
  BY <1>1, <1>4, <1>5
<1> QED
  BY <1>2, <1>3, <1>6 DEF AloneInv

LEMMA PostsAreNotForms == Posts \cap Forms = {}
BY PostEntries, FormEntries

(* A statement of a post that writes nothing.                              *)
LEMMA PostKeeps ==
    ASSUME NEW table, NEW t, NEW u, UnderWay(table, t), t.op \in Posts,
           u.op = t.op, u.rows = t.rows
    PROVE  /\ WrittenLater(table, u) /\ KeepsRules(u)
           /\ \A k : SeenIn(table, u, k) = SeenIn(table, t, k)
           /\ \A k : InPlace(table, u, k) <=> InPlace(table, t, k)
BY PostsAreNotForms DEF UnderWay, WrittenLater, KeepsRules, InPlace, SeenIn

LEMMA ValidateAlone ==
    ASSUME RulesInv, AloneInv, NEW s \in Sessions, Validate(s) PROVE AloneInv'
<1> DEFINE t == [tx[s] EXCEPT !.configurations = tx[s].op.configurations]
<1>1. tx[s] \in Transaction /\ tx[s].op \in Posts /\ tx[s].pc = "start"
  <2>1. tx[s].op \in Posts \cup Forms
    BY TransactionTypes DEF Validate, Does, StatementInv
  <2> QED
    BY <2>1, TransactionTypes, FormEntries DEF Validate, IsPost, Does
<1>2. tx[s].op.configurations \in SUBSET Configurations
  BY <1>1, PostEntries
<1>3. /\ t \in Transaction /\ t.op = tx[s].op /\ t.rows = tx[s].rows /\ t.alone = tx[s].alone
      /\ t.configurations = tx[s].op.configurations
  BY <1>1, <1>2 DEF Transaction
<1>4. PICK statement \in {"ruleset", "failed"} : Continue(s, statement, t)
  BY DEF Validate
<1> HIDE DEF t
<1>5. ASSUME NEW u \in Transaction, UnderWay(rules, tx[s]), Kept(u, t), u.pc = statement,
             statement # "failed"
      PROVE  UnderWay(rules, u)
  <2>1. /\ u.op = tx[s].op /\ u.rows = tx[s].rows /\ u.pc = "ruleset"
        /\ u.configurations = u.op.configurations
    BY <1>3, <1>4, <1>5 DEF Kept, SameBut
  <2>2. WrittenLater(rules, u) /\ KeepsRules(u)
    BY <1>1, <1>5, <2>1, PostKeeps
  <2>3. PostUnderWay(rules, u)
    BY <2>1 DEF PostUnderWay, Visited, Visiting
  <2> QED
    BY <2>1, <2>2, <2>3 DEF UnderWay, SavesSeen
<1> QED
  BY <1>1, <1>3, <1>4, <1>5, ContinueAlone DEF Statement

LEMMA GetRulesetAlone ==
    ASSUME RulesInv, AloneInv, NEW s \in Sessions, GetRuleset(s) PROVE AloneInv'
<1> DEFINE name == tx[s].op.ruleset
           t == IF name \in rulesets THEN tx[s] ELSE [tx[s] EXCEPT !.ruleset = name]
<1>1. tx[s] \in Transaction /\ tx[s].op \in Posts /\ tx[s].pc = "ruleset"
  BY TransactionTypes DEF GetRuleset, Does, StatementInv
<1>2. name \in Rulesets
  BY <1>1, PostEntries
<1>3. [tx[s] EXCEPT !.ruleset = name] \in Transaction /\ Kept([tx[s] EXCEPT !.ruleset = name], tx[s])
  BY <1>1, <1>2 DEF Transaction, SameBut, Kept
<1>4. t \in Transaction /\ Kept(t, tx[s])
  BY <1>1, <1>3 DEF SameBut, Kept
<1>5. Continue(s, "configuration", t)
  BY DEF GetRuleset
<1> HIDE DEF t
<1>6. ASSUME NEW u \in Transaction, UnderWay(rules, tx[s]), Kept(u, t), u.pc = "configuration"
      PROVE  UnderWay(rules, u)
  <2>1. /\ u.op = tx[s].op /\ u.rows = tx[s].rows /\ u.configurations = tx[s].configurations
    BY <1>4, <1>6 DEF Kept, SameBut
  <2>2. /\ WrittenLater(rules, u) /\ KeepsRules(u)
        /\ \A k : InPlace(rules, u, k) <=> InPlace(rules, tx[s], k)
    BY <1>1, <1>6, <2>1, PostKeeps
  <2>3. Visited(u) = Visited(tx[s])
    BY <1>1, <1>6, <2>1 DEF Visited, Visiting
  <2>4. PostUnderWay(rules, u)
    BY <1>1, <1>6, <2>1, <2>2, <2>3 DEF UnderWay, PostUnderWay, Visiting
  <2> QED
    BY <1>6, <2>1, <2>2, <2>4 DEF UnderWay, SavesSeen
<1> QED
  BY <1>1, <1>4, <1>5, <1>6, ContinueAlone DEF Statement, Kept

LEMMA NextConfigurationAlone ==
    ASSUME RulesInv, AloneInv, NEW s \in Sessions, NextConfiguration(s) PROVE AloneInv'
<1>1. tx[s] \in Transaction /\ tx[s].op \in Posts /\ tx[s].pc = "configuration"
  BY TransactionTypes DEF NextConfiguration, Does, StatementInv
<1>2. PICK c \in tx[s].configurations :
        Continue(s, "rule", [tx[s] EXCEPT !.configurations = @ \ {c}, !.configuration = c,
                                          !.targets = DOMAIN tx[s].op.rules])
  BY DEF NextConfiguration
<1> DEFINE cs == tx[s].configurations \ {c}
           ts == DOMAIN tx[s].op.rules
           t == [tx[s] EXCEPT !.configurations = cs, !.configuration = c, !.targets = ts]
<1>3. Continue(s, "rule", t)
  BY <1>2
<1>4. c \in Configurations /\ cs \in SUBSET Configurations /\ ts \in SUBSET Targets
  BY <1>1, PostEntries, TransactionTypes
<1> HIDE DEF cs, ts
<1>5. /\ t \in Transaction /\ t.op = tx[s].op /\ t.rows = tx[s].rows /\ t.alone = tx[s].alone
      /\ t.configurations = cs /\ t.configuration = c /\ t.targets = ts
  BY <1>1, <1>4 DEF Transaction
<1> HIDE DEF t
<1>6. ASSUME NEW u \in Transaction, UnderWay(rules, tx[s]), Kept(u, t), u.pc = "rule"
      PROVE  UnderWay(rules, u)
  <2>1. /\ u.op = tx[s].op /\ u.rows = tx[s].rows /\ u.configurations = cs
        /\ u.configuration = c /\ u.targets = ts
    BY <1>5, <1>6 DEF Kept, SameBut
  <2>2. /\ WrittenLater(rules, u) /\ KeepsRules(u)
        /\ \A k : InPlace(rules, u, k) <=> InPlace(rules, tx[s], k)
    BY <1>1, <1>6, <2>1, PostKeeps
  <2>3. Visited(u) \subseteq Visited(tx[s])
    BY <1>1, <1>6, <2>1 DEF Visited, Visiting, cs
  <2>4. PostUnderWay(rules, u)
    BY <1>1, <1>6, <2>1, <2>2, <2>3 DEF UnderWay, PostUnderWay, Visiting, ts
  <2> QED
    BY <1>6, <2>2, <2>4 DEF UnderWay, SavesSeen
<1> QED
  BY <1>1, <1>3, <1>5, <1>6, ContinueAlone DEF Statement

(* What save() will write is the row that was read, with the entry.        *)
LEMMA ChangedFields ==
    ASSUME NEW t \in Transaction, NEW k \in Keys, NEW row \in Rule, NEW entry \in UpdateEntries
    PROVE  LET u == Changed(t, k, row, entry)
           IN  /\ u \in Transaction /\ u.key = k
               /\ u.op = t.op /\ u.rows = t.rows /\ u.alone = t.alone
               /\ u.configurations = t.configurations
               /\ u.configuration = t.configuration /\ u.targets = t.targets
               /\ u.rule.id = row.id /\ u.rule.ruleset = row.ruleset
               /\ u.rule.version = row.version /\ u.rule # None
               /\ u.rule.policy = entry.policy /\ u.rule.custom_msg = entry.custom_msg
               /\ u.bump <=> row.custom_msg # entry.custom_msg
<1> DEFINE rule == [row EXCEPT !.policy = entry.policy, !.custom_msg = entry.custom_msg]
           bump == row.custom_msg # entry.custom_msg
           u == Changed(t, k, row, entry)
<1>1. u \in Transaction /\ u.key = k /\ u.rule \in Rule
  BY ChangedRule
<1>2. /\ rule.id = row.id /\ rule.ruleset = row.ruleset /\ rule.version = row.version
      /\ rule.policy = entry.policy /\ rule.custom_msg = entry.custom_msg
  BY DEF Rule
<1>3. u = [t EXCEPT !.key = k, !.rule = rule, !.bump = bump]
  BY DEF Changed
<1> HIDE DEF rule, bump, u
<1>4. /\ u.op = t.op /\ u.rows = t.rows /\ u.alone = t.alone
      /\ u.configurations = t.configurations /\ u.rule = rule /\ u.bump = bump
      /\ u.configuration = t.configuration /\ u.targets = t.targets
  BY <1>3 DEF Transaction
<1>5. u.rule # None
  BY <1>1, NoRowAssumption
<1> QED
  BY <1>1, <1>2, <1>4, <1>5 DEF u, bump

(* A rule of a post that was found is in place, or will be saved.          *)
LEMMA PresentAlone ==
    ASSUME RulesInv, AloneInv, NEW s \in Sessions, tx[s].op \in Posts,
           tx[s].pc \in {"rule", "insert"},
           NEW t \in Transaction, t.op = tx[s].op, t.rows = tx[s].rows, t.alone = tx[s].alone,
           t.configurations = tx[s].configurations, t.configuration = tx[s].configuration,
           NEW target \in DOMAIN tx[s].op.rules, NEW k \in Keys,
           k[2] = target, UnderWay(rules, tx[s]) => k = <<t.configuration, target>>,
           Seen(s, k) # None, Seen(s, k).ruleset = tx[s].op.ruleset,
           UnderWay(rules, tx[s]) =>
             \A other \in DOMAIN tx[s].op.rules \ t.targets :
               other = target \/ InPlace(rules, tx[s], <<t.configuration, other>>),
           Present(s, t, k)
    PROVE  AloneInv'
<1> DEFINE row == Seen(s, k)
           entry == tx[s].op.rules[k[2]]
           c == Changed(t, k, row, entry)
<1>1. row \in Rule
  BY SeenRule
<1>2. entry \in UpdateEntries /\ k[2] = target
  BY PostEntries
<1>3. row = SeenIn(rules, tx[s], k)
  BY DEF Seen, SeenIn
<1>4. CASE Continue(s, "save", c) /\ Differs(row, entry)
  <2>1. /\ c \in Transaction /\ c.key = k
        /\ c.op = t.op /\ c.rows = t.rows /\ c.alone = t.alone
        /\ c.configurations = t.configurations
        /\ c.configuration = t.configuration /\ c.targets = t.targets
        /\ c.rule.id = row.id /\ c.rule.ruleset = row.ruleset
        /\ c.rule.version = row.version /\ c.rule # None
        /\ c.rule.policy = entry.policy /\ c.rule.custom_msg = entry.custom_msg
        /\ c.bump <=> row.custom_msg # entry.custom_msg
    BY <1>1, <1>2, ChangedFields
  <2> HIDE DEF c, row
  <2>2. ASSUME NEW u \in Transaction, UnderWay(rules, tx[s]), Kept(u, c), u.pc = "save"
        PROVE  UnderWay(rules, u)
    <3>1. /\ u.op = tx[s].op /\ u.rows = tx[s].rows /\ u.key = k
          /\ u.configurations = tx[s].configurations
          /\ u.configuration = tx[s].configuration /\ u.targets = t.targets
          /\ u.rule = c.rule /\ u.bump = c.bump
      BY <2>1, <2>2 DEF Kept, SameBut
    <3>2. /\ WrittenLater(rules, u) /\ KeepsRules(u)
          /\ \A l : SeenIn(rules, u, l) = SeenIn(rules, tx[s], l)
          /\ \A l : InPlace(rules, u, l) <=> InPlace(rules, tx[s], l)
      BY <2>2, <3>1, PostKeeps
    <3>3. Visited(u) = Visited(tx[s])
      BY <2>2, <3>1 DEF Visited, Visiting
    <3>4. SavesSeen(rules, u)
      <4>1. Matches(u.op, u.key[2], u.rule)
        BY <2>1, <3>1, <1>2 DEF Matches, row
      <4>2. SeenIn(rules, u, u.key) = row /\ row # None
        BY <1>3, <3>1, <3>2 DEF row
      <4> QED
        BY <2>1, <3>1, <4>1, <4>2 DEF SavesSeen
    <3>5. PostUnderWay(rules, u)
      <4>1. \A other \in DOMAIN u.op.rules \ u.targets :
              u.key = <<u.configuration, other>> \/ InPlace(rules, u, <<u.configuration, other>>)
        BY <2>2, <3>1, <3>2
      <4>2. \A d \in Visited(u), other \in Targets : InPlace(rules, u, <<d, other>>)
        BY <2>2, <3>2, <3>3 DEF UnderWay, PostUnderWay
      <4> QED
        BY <1>2, <2>2, <3>1, <4>1, <4>2 DEF PostUnderWay
    <3> QED
      BY <3>2, <3>4, <3>5 DEF UnderWay
  <2> QED
    BY <1>4, <2>1, <2>2, ContinueAlone DEF Statement
<1>5. CASE Continue(s, "rule", t) /\ ~ Differs(row, entry)
  <2>1. ASSUME NEW u \in Transaction, UnderWay(rules, tx[s]), Kept(u, t), u.pc = "rule"
        PROVE  UnderWay(rules, u)
    <3>1. /\ u.op = tx[s].op /\ u.rows = tx[s].rows
          /\ u.configurations = tx[s].configurations
          /\ u.configuration = tx[s].configuration /\ u.targets = t.targets
      BY <2>1 DEF Kept, SameBut
    <3>2. /\ WrittenLater(rules, u) /\ KeepsRules(u)
          /\ \A l : InPlace(rules, u, l) <=> InPlace(rules, tx[s], l)
      BY <2>1, <3>1, PostKeeps
    <3>3. Visited(u) = Visited(tx[s])
      BY <2>1, <3>1 DEF Visited, Visiting
    <3>4. InPlace(rules, tx[s], k)
      BY <1>2, <1>3, <1>5 DEF InPlace, Matches, Differs
    <3>5. \A other \in DOMAIN u.op.rules \ u.targets : InPlace(rules, u, <<u.configuration, other>>)
      BY <2>1, <3>1, <3>2, <3>4
    <3>6. \A d \in Visited(u), other \in Targets : InPlace(rules, u, <<d, other>>)
      BY <2>1, <3>2, <3>3 DEF UnderWay, PostUnderWay
    <3>7. PostUnderWay(rules, u)
      BY <2>1, <3>5, <3>6 DEF PostUnderWay
    <3> QED
      BY <2>1, <3>2, <3>7 DEF UnderWay, SavesSeen
  <2> QED
    BY <1>5, <2>1, ContinueAlone DEF Statement
<1> QED
  BY <1>4, <1>5 DEF Present

LEMMA GetRuleAlone ==
    ASSUME RulesInv, AloneInv, NEW s \in Sessions, GetRule(s) PROVE AloneInv'
<1>1. /\ tx[s] \in Transaction /\ tx[s].op \in Posts /\ tx[s].configuration \in Configurations
      /\ tx[s].targets \subseteq DOMAIN tx[s].op.rules /\ DOMAIN tx[s].op.rules \subseteq Targets
      /\ tx[s].pc = "rule"
  BY TransactionTypes, PostEntries DEF GetRule, Does, StatementInv
<1>2. PICK target \in tx[s].targets :
        LET k == <<tx[s].configuration, target>>
            left == [tx[s] EXCEPT !.targets = @ \ {target}]
        IN  IF Seen(s, k) # None /\ Seen(s, k).ruleset = tx[s].op.ruleset
            THEN Present(s, left, k)
            ELSE Continue(s, "insert", [left EXCEPT !.key = k])
  BY DEF GetRule
<1> DEFINE k == <<tx[s].configuration, target>>
           targets == tx[s].targets \ {target}
           left == [tx[s] EXCEPT !.targets = targets]
           t == [left EXCEPT !.key = k]
<1>3. k \in Keys /\ target \in DOMAIN tx[s].op.rules /\ targets \in SUBSET Targets
      /\ targets = tx[s].targets \ {target} /\ k = <<tx[s].configuration, target>>
      /\ k[1] = tx[s].configuration /\ k[2] = target
  BY <1>1 DEF Keys
<1>4. \/ Seen(s, k) # None /\ Seen(s, k).ruleset = tx[s].op.ruleset /\ Present(s, left, k)
      \/ Continue(s, "insert", t)
  BY <1>2
<1> HIDE DEF k, targets
<1>5. /\ left \in Transaction /\ left.op = tx[s].op /\ left.rows = tx[s].rows
      /\ left.alone = tx[s].alone /\ left.configurations = tx[s].configurations
      /\ left.configuration = tx[s].configuration /\ left.targets = targets
  BY <1>1, <1>3 DEF Transaction
<1> HIDE DEF left
<1>6. /\ t \in Transaction /\ t.op = tx[s].op /\ t.rows = tx[s].rows
      /\ t.alone = tx[s].alone /\ t.configurations = tx[s].configurations /\ t.key = k
      /\ t.configuration = tx[s].configuration /\ t.targets = targets
  BY <1>3, <1>5 DEF Transaction
<1> HIDE DEF t
<1>7. UnderWay(rules, tx[s]) =>
        \A other \in DOMAIN tx[s].op.rules \ targets :
          other = target \/ InPlace(rules, tx[s], <<tx[s].configuration, other>>)
  BY <1>1, <1>3 DEF UnderWay, PostUnderWay, Visiting
<1>8. ASSUME NEW u \in Transaction, UnderWay(rules, tx[s]), Kept(u, t), u.pc = "insert"
      PROVE  UnderWay(rules, u)
  <2>1. /\ u.op = tx[s].op /\ u.rows = tx[s].rows /\ u.key = k
        /\ u.configurations = tx[s].configurations
        /\ u.configuration = tx[s].configuration /\ u.targets = targets
    BY <1>6, <1>8 DEF Kept, SameBut
  <2>2. /\ WrittenLater(rules, u) /\ KeepsRules(u)
        /\ \A l : InPlace(rules, u, l) <=> InPlace(rules, tx[s], l)
    BY <1>1, <1>8, <2>1, PostKeeps
  <2>3. Visited(u) = Visited(tx[s])
    BY <1>1, <1>8, <2>1 DEF Visited, Visiting
  <2>4. \A other \in DOMAIN u.op.rules \ u.targets :
          u.key = <<u.configuration, other>> \/ InPlace(rules, u, <<u.configuration, other>>)
    BY <1>3, <1>7, <1>8, <2>1, <2>2
  <2>5. \A d \in Visited(u), other \in Targets : InPlace(rules, u, <<d, other>>)
    BY <1>1, <1>8, <2>2, <2>3 DEF UnderWay, PostUnderWay
  <2>6. PostUnderWay(rules, u)
    BY <1>3, <1>8, <2>1, <2>4, <2>5 DEF PostUnderWay
  <2> QED
    BY <1>8, <2>2, <2>6 DEF UnderWay, SavesSeen
<1>9. CASE Seen(s, k) # None /\ Seen(s, k).ruleset = tx[s].op.ruleset /\ Present(s, left, k)
  BY <1>1, <1>3, <1>5, <1>7, <1>9, PresentAlone
<1>10. CASE Continue(s, "insert", t)
  BY <1>1, <1>6, <1>8, <1>10, ContinueAlone DEF Statement
<1> QED
  BY <1>4, <1>9, <1>10

LEMMA FindOthersAlone ==
    ASSUME RulesInv, AloneInv, NEW s \in Sessions, FindOthers(s) PROVE AloneInv'
<1> DEFINE others == {<<k, Seen(s, k).id>> : k \in Others(s)}
           t == [tx[s] EXCEPT !.others = others]
<1>1. /\ tx[s] \in Transaction /\ tx[s].op \in Posts /\ tx[s].pc = "rule"
      /\ tx[s].targets = {} /\ tx[s].configuration \in Configurations
  BY TransactionTypes DEF FindOthers, Does, StatementInv
<1>2. ASSUME NEW o \in others
      PROVE  o[1][1] = tx[s].configuration /\ o[1][2] \notin DOMAIN tx[s].op.rules
  BY DEF Others
<1>3. ASSUME NEW target \in Targets \ DOMAIN tx[s].op.rules
      PROVE  LET k == <<tx[s].configuration, target>>
             IN  InPlace(rules, tx[s], k) \/ <<k, SeenIn(rules, tx[s], k).id>> \in others
  <2> DEFINE k == <<tx[s].configuration, target>>
  <2>1. k \in Keys /\ k[1] = tx[s].configuration /\ k[2] = target
    BY <1>1 DEF Keys
  <2>2. SeenIn(rules, tx[s], k) = Seen(s, k)
    BY DEF Seen, SeenIn
  <2> HIDE DEF k
  <2>3. ASSUME k \in Others(s) PROVE <<k, SeenIn(rules, tx[s], k).id>> \in others
    BY <2>2, <2>3
  <2>4. ASSUME k \notin Others(s) PROVE InPlace(rules, tx[s], k)
    BY <2>1, <2>2, <2>4 DEF Others, InPlace, Matches
  <2> QED
    BY <2>3, <2>4 DEF k
<1>4. others \subseteq Keys \X Ids
  <2>1. ASSUME NEW k \in Others(s) PROVE k \in Keys /\ Seen(s, k) # None
    BY DEF Others
  <2>2. ASSUME NEW k \in Others(s) PROVE <<k, Seen(s, k).id>> \in Keys \X Ids
    BY <2>1, SeenRule DEF Rule
  <2> QED
    BY <2>2
<1>5. Continue(s, "others", t)
  BY DEF FindOthers
<1> HIDE DEF others
<1>6. /\ t \in Transaction /\ t.op = tx[s].op /\ t.rows = tx[s].rows /\ t.alone = tx[s].alone
      /\ t.configurations = tx[s].configurations /\ t.configuration = tx[s].configuration
      /\ t.targets = tx[s].targets /\ t.others = others
  BY <1>1, <1>4 DEF Transaction
<1> HIDE DEF t
<1>7. ASSUME NEW u \in Transaction, UnderWay(rules, tx[s]), Kept(u, t), u.pc = "others"
      PROVE  UnderWay(rules, u)
  <2>1. /\ u.op = tx[s].op /\ u.rows = tx[s].rows
        /\ u.configurations = tx[s].configurations /\ u.configuration = tx[s].configuration
        /\ u.targets = {} /\ u.others = others
    BY <1>1, <1>6, <1>7 DEF Kept, SameBut
  <2>2. /\ WrittenLater(rules, u) /\ KeepsRules(u)
        /\ \A l : SeenIn(rules, u, l) = SeenIn(rules, tx[s], l)
        /\ \A l : InPlace(rules, u, l) <=> InPlace(rules, tx[s], l)
    BY <1>1, <1>7, <2>1, PostKeeps
  <2>3. Visited(u) = Visited(tx[s])
    BY <1>1, <1>7, <2>1 DEF Visited, Visiting
  <2>4. /\ \A d \in Visited(u), other \in Targets : InPlace(rules, u, <<d, other>>)
        /\ \A other \in DOMAIN u.op.rules : InPlace(rules, u, <<u.configuration, other>>)
    BY <1>1, <1>7, <2>1, <2>2, <2>3 DEF UnderWay, PostUnderWay, Visiting
  <2>5. PostUnderWay(rules, u)
    BY <1>2, <1>3, <1>7, <2>1, <2>2, <2>4 DEF PostUnderWay
  <2> QED
    BY <1>7, <2>2, <2>5 DEF UnderWay, SavesSeen
<1> QED
  BY <1>1, <1>5, <1>6, <1>7, ContinueAlone DEF Statement

(* A deletion, if there is something to delete.                            *)
LEMMA DeletedFields ==
    ASSUME NEW s \in Sessions, NEW t \in Transaction, NEW k \in Keys, NEW id
    PROVE  LET u == Deleted(s, t, k, id)
           IN  /\ u.op = t.op /\ u.alone = t.alone
               /\ u.configurations = t.configurations /\ u.configuration = t.configuration
               /\ u.targets = t.targets /\ u.others = t.others
               /\ \A l \in Keys \ {k} : u.rows[l] = t.rows[l]
               /\ u.rows[k] = IF Seen(s, k) # None /\ Seen(s, k).id = id THEN None ELSE t.rows[k]
<1> DEFINE row == IF Seen(s, k) # None /\ Seen(s, k).id = id THEN None ELSE t.rows[k]
           rows == [t.rows EXCEPT ![k] = row]
           u == Deleted(s, t, k, id)
<1>1. t.rows \in [Keys -> Rule \cup {None, Nothing}]
  BY DEF Transaction
<1>2. u = [t EXCEPT !.rows = rows]
  BY <1>1 DEF Deleted, Transaction
<1> HIDE DEF row
<1>3. rows[k] = row /\ \A l \in Keys \ {k} : rows[l] = t.rows[l]
  BY <1>1
<1> HIDE DEF rows, u
<1>4. /\ u.op = t.op /\ u.alone = t.alone
      /\ u.configurations = t.configurations /\ u.configuration = t.configuration
      /\ u.targets = t.targets /\ u.others = t.others /\ u.rows = rows
  BY <1>2 DEF Transaction
<1> QED
  BY <1>3, <1>4 DEF u, row

LEMMA DeleteOtherAlone ==
    ASSUME RulesInv, AloneInv, NEW s \in Sessions, DeleteOther(s) PROVE AloneInv'
<1>1. PICK o \in tx[s].others :
        Continue(s, "others", Deleted(s, [tx[s] EXCEPT !.others = @ \ {o}], o[1], o[2]))
  BY DEF DeleteOther
<1>2. /\ tx[s] \in Transaction /\ tx[s].op \in Posts /\ tx[s].others \subseteq Keys \X Ids
      /\ tx[s].pc = "others"
  BY TransactionTypes DEF DeleteOther, Does, StatementInv
<1> DEFINE others == tx[s].others \ {o}
           t == [tx[s] EXCEPT !.others = others]
           d == Deleted(s, t, o[1], o[2])
           k == o[1]
           row == Seen(s, k)
<1>3. k \in Keys /\ o = <<k, o[2]>> /\ others \subseteq Keys \X Ids
  BY <1>2
<1>4. Continue(s, "others", d)
  BY <1>1
<1>5. others = tx[s].others \ {o}
  OBVIOUS
<1>6. row = SeenIn(rules, tx[s], k)
  BY DEF Seen, SeenIn
<1> HIDE DEF others
<1>7. /\ t \in Transaction /\ t.op = tx[s].op /\ t.rows = tx[s].rows /\ t.alone = tx[s].alone
      /\ t.configurations = tx[s].configurations /\ t.configuration = tx[s].configuration
      /\ t.targets = tx[s].targets /\ t.others = others
  BY <1>2, <1>3 DEF Transaction
<1> HIDE DEF t
<1>0. d \in Transaction
  BY <1>3, <1>7, DeletedRows
<1>8. /\ d.op = t.op /\ d.alone = t.alone
      /\ d.configurations = t.configurations /\ d.configuration = t.configuration
      /\ d.targets = t.targets /\ d.others = t.others
      /\ \A l \in Keys \ {k} : d.rows[l] = t.rows[l]
      /\ d.rows[k] = IF row # None /\ row.id = o[2] THEN None ELSE t.rows[k]
  BY <1>3, <1>7, DeletedFields
<1> HIDE DEF d, row
<1>9. ASSUME NEW u \in Transaction, UnderWay(rules, tx[s]), Kept(u, d), u.pc = "others"
      PROVE  UnderWay(rules, u)
  <2>1. /\ u.op = tx[s].op /\ u.configurations = tx[s].configurations
        /\ u.configuration = tx[s].configuration /\ u.targets = tx[s].targets
        /\ u.others = others
        /\ \A l \in Keys \ {k} : u.rows[l] = tx[s].rows[l]
        /\ u.rows[k] = IF row # None /\ row.id = o[2] THEN None ELSE tx[s].rows[k]
    BY <1>7, <1>8, <1>9 DEF Kept, SameBut
  <2>2. /\ u.targets = {}
        /\ \A p \in tx[s].others : p[1][1] = u.configuration /\ p[1][2] \notin DOMAIN u.op.rules
        /\ \A target \in Targets \ DOMAIN u.op.rules :
             LET l == <<u.configuration, target>>
             IN  InPlace(rules, tx[s], l) \/ <<l, SeenIn(rules, tx[s], l).id>> \in tx[s].others
    BY <1>2, <1>9, <2>1 DEF UnderWay, PostUnderWay
  <2>3. k[1] = u.configuration /\ k[2] \notin DOMAIN u.op.rules
    BY <2>2
  <2>4. WrittenLater(rules, u)
    <3>1. Blank(u.rows[k]) \/ u.rows[k] = tx[s].rows[k]
      BY <2>1 DEF Blank
    <3> QED
      BY <1>9, <2>1, <3>1 DEF UnderWay, WrittenLater
  <2>5. KeepsRules(u)
    BY <1>2, <1>9, <2>1, <2>3, PostsAreNotForms DEF UnderWay, KeepsRules
  <2>6. \A l \in Keys \ {k} : SeenIn(rules, u, l) = SeenIn(rules, tx[s], l)
                              /\ (InPlace(rules, u, l) <=> InPlace(rules, tx[s], l))
    BY <2>1 DEF InPlace, SeenIn
  <2>7. \/ InPlace(rules, u, k)
        \/ /\ SeenIn(rules, u, k) = SeenIn(rules, tx[s], k)
           /\ SeenIn(rules, tx[s], k).id # o[2]
    <3>1. CASE row # None /\ row.id = o[2]
      BY <2>1, <2>3, <3>1, NoRowAssumption DEF InPlace, Matches, SeenIn
    <3>2. CASE row = None
      BY <1>6, <2>1, <2>3, <3>2 DEF InPlace, Matches, SeenIn
    <3>3. CASE row # None /\ row.id # o[2]
      BY <1>6, <2>1, <3>3 DEF SeenIn
    <3> QED
      BY <3>1, <3>2, <3>3
  <2>8. ASSUME NEW target \in Targets \ DOMAIN u.op.rules
        PROVE  LET l == <<u.configuration, target>>
               IN  InPlace(rules, u, l) \/ <<l, SeenIn(rules, u, l).id>> \in u.others
    <3> DEFINE l == <<u.configuration, target>>
    <3>1. l \in Keys
      BY <1>3, <2>3 DEF Keys
    <3>2. InPlace(rules, tx[s], l) \/ <<l, SeenIn(rules, tx[s], l).id>> \in tx[s].others
      BY <2>2
    <3> HIDE DEF l
    <3>3. ASSUME l # k PROVE InPlace(rules, u, l) \/ <<l, SeenIn(rules, u, l).id>> \in u.others
      <4>1. <<l, SeenIn(rules, tx[s], l).id>> # o
        BY <1>3, <3>3
      <4> QED
        BY <1>5, <2>1, <2>6, <3>1, <3>2, <3>3, <4>1
    <3>4. ASSUME l = k PROVE InPlace(rules, u, l) \/ <<l, SeenIn(rules, u, l).id>> \in u.others
      <4>1. CASE InPlace(rules, u, k)
        BY <3>4, <4>1
      <4>2. CASE /\ SeenIn(rules, u, k) = SeenIn(rules, tx[s], k)
                 /\ SeenIn(rules, tx[s], k).id # o[2]
        <5>1. InPlace(rules, u, k) <=> InPlace(rules, tx[s], k)
          BY <2>1, <4>2 DEF InPlace
        <5>2. <<k, SeenIn(rules, tx[s], k).id>> # o
          BY <1>3, <4>2
        <5> QED
          BY <1>5, <2>1, <3>2, <3>4, <4>2, <5>1, <5>2
      <4> QED
        BY <2>7, <4>1, <4>2
    <3> QED
      BY <3>3, <3>4 DEF l
  <2>9. Visited(u) = Visited(tx[s])
    BY <1>2, <1>9, <2>1 DEF Visited, Visiting
  <2>10. ASSUME NEW c \in Visited(u), NEW other \in Targets PROVE InPlace(rules, u, <<c, other>>)
    <3>1. InPlace(rules, tx[s], <<c, other>>)
      BY <1>2, <1>9, <2>9 DEF UnderWay, PostUnderWay
    <3>2. c # k[1] /\ <<c, other>> \in Keys
      BY <1>2, <1>9, <2>1, <2>3, PostEntries DEF Visited, Visiting, Keys
    <3> QED
      BY <2>6, <3>1, <3>2
  <2>11. ASSUME NEW other \in DOMAIN u.op.rules
         PROVE  InPlace(rules, u, <<u.configuration, other>>)
    <3>1. InPlace(rules, tx[s], <<u.configuration, other>>)
      BY <1>2, <1>9, <2>1, <2>2 DEF UnderWay, PostUnderWay, Visiting
    <3>2. other # k[2] /\ <<u.configuration, other>> \in Keys
      BY <1>2, <1>3, <2>1, <2>3, PostEntries DEF Keys
    <3>3. <<u.configuration, other>> # k
      BY <3>2
    <3> QED
      BY <2>6, <3>1, <3>2, <3>3
  <2>12. PostUnderWay(rules, u)
    BY <1>5, <1>9, <2>1, <2>2, <2>8, <2>10, <2>11 DEF PostUnderWay
  <2> QED
    BY <1>9, <2>4, <2>5, <2>12 DEF UnderWay, SavesSeen
<1> QED
  BY <1>0, <1>2, <1>4, <1>7, <1>8, <1>9, ContinueAlone DEF Statement

LEMMA EndConfigurationAlone ==
    ASSUME RulesInv, AloneInv, NEW s \in Sessions, EndConfiguration(s) PROVE AloneInv'
<1> DEFINE t == [tx[s] EXCEPT !.configuration = Nothing]
<1>1. /\ tx[s] \in Transaction /\ tx[s].op \in Posts /\ tx[s].pc = "others"
      /\ tx[s].others = {}
  BY TransactionTypes DEF EndConfiguration, Does, StatementInv
<1>2. /\ t \in Transaction /\ t.op = tx[s].op /\ t.rows = tx[s].rows /\ t.alone = tx[s].alone
      /\ t.configurations = tx[s].configurations
  BY <1>1 DEF Transaction
<1>3. PICK statement \in {"commit", "configuration"} :
        /\ Continue(s, statement, t)
        /\ statement = "commit" => tx[s].configurations = {}
  BY DEF EndConfiguration
<1> HIDE DEF t
<1>4. ASSUME NEW u \in Transaction, UnderWay(rules, tx[s]), Kept(u, t), u.pc = statement
      PROVE  UnderWay(rules, u)
  <2>1. /\ u.op = tx[s].op /\ u.rows = tx[s].rows
        /\ u.configurations = tx[s].configurations
    BY <1>2, <1>4 DEF Kept, SameBut
  <2>2. /\ WrittenLater(rules, u) /\ KeepsRules(u)
        /\ \A l : InPlace(rules, u, l) <=> InPlace(rules, tx[s], l)
    BY <1>1, <1>4, <2>1, PostKeeps
  <2>3. ASSUME NEW c \in Visited(u), NEW other \in Targets PROVE InPlace(rules, u, <<c, other>>)
    <3>1. CASE c = tx[s].configuration
      BY <1>1, <1>4, <2>1, <2>2, <3>1 DEF UnderWay, PostUnderWay, Visiting
    <3>2. CASE c # tx[s].configuration
      <4>1. c \in Visited(tx[s])
        BY <2>1, <3>2 DEF Visited
      <4> QED
        BY <1>1, <1>4, <2>2, <4>1 DEF UnderWay, PostUnderWay
    <3> QED
      BY <3>1, <3>2
  <2>4. PostUnderWay(rules, u)
    BY <1>3, <1>4, <2>1, <2>3 DEF PostUnderWay, Visiting
  <2> QED
    BY <1>4, <2>2, <2>4 DEF UnderWay, SavesSeen
<1> QED
  BY <1>1, <1>2, <1>3, <1>4, ContinueAlone DEF Statement

(* The forms: nothing is written before the only write.                    *)
LEMMA FormKeeps ==
    ASSUME NEW table, NEW t, NEW u, UnderWay(table, t), t.op \in Forms,
           t.pc \in {"start", "insert", "save"}, u.op = t.op, u.rows = t.rows
    PROVE  /\ \A k \in Keys : u.rows[k] = Nothing
           /\ u.pc # "save" => UnderWay(table, u)
           /\ SavesSeen(table, u) => UnderWay(table, u)
<1>1. (\A k \in Keys : u.rows[k] = Nothing) /\ u.op \notin Posts
  BY PostsAreNotForms DEF UnderWay, KeepsRules
<1>2. WrittenLater(table, u) /\ KeepsRules(u)
  BY <1>1 DEF WrittenLater, KeepsRules, Blank
<1> QED
  BY <1>1, <1>2 DEF UnderWay, SavesSeen

LEMMA CreateFormAlone ==
    ASSUME RulesInv, AloneInv, NEW s \in Sessions, CreateForm(s) PROVE AloneInv'
<1> DEFINE t == [tx[s] EXCEPT !.key = tx[s].op.key]
<1>1. /\ tx[s] \in Transaction /\ tx[s].op \in Forms /\ tx[s].op.key \in Keys
      /\ tx[s].pc = "start"
  <2>1. tx[s].op \in Posts \cup Forms /\ tx[s].op.type = "create" /\ tx[s].pc = "start"
    BY TransactionTypes DEF CreateForm, Does, StatementInv
  <2> QED
    BY <2>1, TransactionTypes, PostEntries, FormEntries
<1>2. t \in Transaction /\ t.op = tx[s].op /\ t.rows = tx[s].rows /\ t.alone = tx[s].alone
  BY <1>1 DEF Transaction
<1>3. PICK statement \in {"insert", "failed"} : Continue(s, statement, t)
  BY DEF CreateForm
<1> HIDE DEF t
<1>4. ASSUME NEW u \in Transaction, UnderWay(rules, tx[s]), Kept(u, t), u.pc = statement
      PROVE  UnderWay(rules, u)
  <2>1. u.op = tx[s].op /\ u.rows = tx[s].rows /\ u.pc # "save"
    BY <1>2, <1>3, <1>4 DEF Kept, SameBut
  <2> QED
    BY <1>1, <1>4, <2>1, FormKeeps
<1> QED
  BY <1>1, <1>2, <1>3, <1>4, ContinueAlone DEF Statement

LEMMA UpdateFormAlone ==
    ASSUME RulesInv, AloneInv, NEW s \in Sessions, UpdateForm(s) PROVE AloneInv'
<1> DEFINE op == tx[s].op
           row == rules[op.key]
           c == Changed(tx[s], op.key, row, op.entry)
<1>1. /\ tx[s] \in Transaction /\ op \in Forms /\ op.key \in Keys /\ op.entry \in UpdateEntries
      /\ tx[s].pc = "start"
  <2>1. op \in Posts \cup Forms /\ op.type = "update" /\ tx[s].pc = "start"
    BY TransactionTypes DEF UpdateForm, Does, StatementInv
  <2> QED
    BY <2>1, TransactionTypes, PostEntries, FormEntries
<1>2. ASSUME NEW statement \in {"failed", "commit"}, Continue(s, statement, tx[s])
      PROVE  AloneInv'
  <2>1. ASSUME NEW u \in Transaction, UnderWay(rules, tx[s]), Kept(u, tx[s]), u.pc = statement
        PROVE  UnderWay(rules, u)
    <3>1. u.op = tx[s].op /\ u.rows = tx[s].rows /\ u.pc # "save"
      BY <2>1, <1>2 DEF Kept, SameBut
    <3> QED
      BY <1>1, <2>1, <3>1, FormKeeps
  <2> QED
    BY <1>1, <1>2, <2>1, ContinueAlone DEF Statement
<1>3. CASE CanEdit(row) /\ Continue(s, "save", c)
  <2>1. row \in Rule /\ row # None
    BY <1>1, <1>3 DEF CanEdit, RulesInv, RulesetsTypeOK
  <2>2. /\ c \in Transaction /\ c.key = op.key /\ c.op = op /\ c.rows = tx[s].rows
        /\ c.alone = tx[s].alone /\ c.rule.id = row.id /\ c.rule.version = row.version
        /\ c.rule.custom_msg = op.entry.custom_msg
        /\ c.bump <=> row.custom_msg # op.entry.custom_msg
    BY <1>1, <2>1, ChangedFields
  <2> HIDE DEF c
  <2>3. ASSUME NEW u \in Transaction, UnderWay(rules, tx[s]), Kept(u, c), u.pc = "save"
        PROVE  UnderWay(rules, u)
    <3>1. /\ u.op = op /\ u.rows = tx[s].rows /\ u.key = op.key /\ u.rule = c.rule
          /\ u.bump = c.bump
      BY <2>2, <2>3 DEF Kept, SameBut
    <3>2. \A k \in Keys : u.rows[k] = Nothing
      BY <1>1, <2>3, <3>1, FormKeeps
    <3>3. SeenIn(rules, u, u.key) = row
      BY <1>1, <3>1, <3>2 DEF SeenIn
    <3>4. u.op \notin Posts
      BY <1>1, <3>1, PostsAreNotForms
    <3> HIDE DEF row, op
    <3>5. SavesSeen(rules, u)
      BY <2>1, <2>2, <3>1, <3>3, <3>4 DEF SavesSeen
    <3> QED
      BY <1>1, <2>3, <3>1, <3>5, FormKeeps DEF op
  <2> QED
    BY <1>1, <1>3, <2>2, <2>3, ContinueAlone DEF Statement
<1> QED
  BY <1>2, <1>3 DEF UpdateForm

LEMMA DeleteFormAlone ==
    ASSUME RulesInv, AloneInv, NEW s \in Sessions, DeleteForm(s) PROVE AloneInv'
<1> DEFINE k == tx[s].op.key
           row == rules[k]
           t == [tx[s] EXCEPT !.key = k, !.rule = row]
<1>1. tx[s] \in Transaction /\ tx[s].op \in Forms /\ k \in Keys /\ tx[s].pc = "start"
  <2>1. tx[s].op \in Posts \cup Forms /\ tx[s].op.type = "delete" /\ tx[s].pc = "start"
    BY TransactionTypes DEF DeleteForm, Does, StatementInv
  <2> QED
    BY <2>1, TransactionTypes, PostEntries, FormEntries
<1>2. row \in Rule \cup {None}
  BY <1>1 DEF RulesInv, RulesetsTypeOK
<1> HIDE DEF row
<1>3. t \in Transaction /\ t.op = tx[s].op /\ t.rows = tx[s].rows /\ t.alone = tx[s].alone
  BY <1>1, <1>2 DEF Transaction
<1>4. Continue(s, "delete", t) \/ Continue(s, "failed", tx[s])
  BY DEF DeleteForm, row
<1> HIDE DEF t
<1>5. ASSUME NEW u \in Transaction, UnderWay(rules, tx[s]), Kept(u, t), u.pc = "delete"
      PROVE  UnderWay(rules, u)
  <2>1. u.op = tx[s].op /\ u.rows = tx[s].rows /\ u.pc # "save"
    BY <1>3, <1>5 DEF Kept, SameBut
  <2> QED
    BY <1>1, <1>5, <2>1, FormKeeps
<1> QED
  BY <1>1, <1>3, <1>4, <1>5, ContinueAlone DEF Statement

LEMMA DeleteRuleAlone ==
    ASSUME RulesInv, AloneInv, NEW s \in Sessions, DeleteRule(s) PROVE AloneInv'
<1> DEFINE k == tx[s].key
           d == Deleted(s, tx[s], k, tx[s].rule.id)
<1>1. tx[s] \in Transaction /\ k \in Keys /\ tx[s].pc = "delete"
  BY TransactionTypes DEF DeleteRule, Does, StatementInv
<1>2. Continue(s, "commit", d)
  BY DEF DeleteRule
<1>3. d \in Transaction
  BY <1>1, DeletedRows
<1>4. /\ d.op = tx[s].op /\ d.alone = tx[s].alone
      /\ \A l \in Keys \ {k} : d.rows[l] = tx[s].rows[l]
      /\ d.rows[k] = None \/ d.rows[k] = tx[s].rows[k]
  BY <1>1, DeletedFields
<1> HIDE DEF d
<1>5. ASSUME NEW u \in Transaction, UnderWay(rules, tx[s]), Kept(u, d), u.pc = "commit"
      PROVE  UnderWay(rules, u)
  <2>1. u.op = tx[s].op /\ u.rows = d.rows
    BY <1>4, <1>5 DEF Kept, SameBut
  <2>2. u.op \notin Posts
    BY <1>1, <1>5, <2>1 DEF UnderWay, PostUnderWay
  <2>3. WrittenLater(rules, u)
    BY <1>1, <1>4, <1>5, <2>1 DEF UnderWay, WrittenLater, Blank
  <2> QED
    BY <1>5, <2>2, <2>3 DEF UnderWay, KeepsRules, SavesSeen
<1> QED
  BY <1>1, <1>2, <1>3, <1>4, <1>5, ContinueAlone DEF Statement

(* A rule that is written: the one that was seen, later.                   *)
LEMMA WrittenUnderWay ==
    ASSUME NEW table, NEW t \in Transaction, UnderWay(table, t), t.pc \in {"insert", "save"},
           t.op \in Posts \cup Forms, t.key \in Keys,
           NEW row \in Rule, table[t.key] # None => Later(table[t.key], row),
           t.op \in Posts => Matches(t.op, t.key[2], row),
           NEW u, u.op = t.op, u.rows = [t.rows EXCEPT ![t.key] = row],
           u.configurations = t.configurations, u.configuration = t.configuration,
           u.targets = t.targets, u.pc = IF t.op \in Posts THEN "rule" ELSE "commit"
    PROVE  UnderWay(table, u)
<1> DEFINE k == t.key
<1>1. u.rows[k] = row /\ \A l \in Keys \ {k} : u.rows[l] = t.rows[l]
  BY DEF Transaction
<1>2. row # Nothing /\ row # None
  BY NoRowAssumption
<1>3. WrittenLater(table, u)
  BY <1>1 DEF UnderWay, WrittenLater
<1>4. u.pc \notin {"start", "insert", "save"} /\ (t.op \in Posts => t.op \notin Forms)
  BY PostsAreNotForms
<1>5. KeepsRules(u)
  BY <1>1, <1>2, <1>4 DEF UnderWay, KeepsRules
<1>6. ASSUME t.op \in Posts PROVE PostUnderWay(table, u)
  <2>1. u.pc = "rule" /\ k[1] = u.configuration
    BY <1>6 DEF UnderWay, PostUnderWay
  <2>2. InPlace(table, u, k)
    BY <1>1, <1>2, <1>6 DEF InPlace, SeenIn
  <2>3. \A l \in Keys \ {k} : InPlace(table, t, l) => InPlace(table, u, l)
    BY <1>1 DEF InPlace, SeenIn
  <2>4. ASSUME NEW c \in Visited(u), NEW target \in Targets
        PROVE  InPlace(table, u, <<c, target>>)
    <3>1. c \in Visited(t)
      BY <2>1 DEF Visited, Visiting
    <3>2. c # k[1] /\ <<c, target>> \in Keys
      BY <1>6, <2>1, PostEntries DEF Visited, Visiting, Keys
    <3>3. InPlace(table, t, <<c, target>>)
      BY <1>6, <3>1 DEF UnderWay, PostUnderWay
    <3> QED
      BY <2>3, <3>2, <3>3
  <2>5. ASSUME NEW target \in DOMAIN u.op.rules \ u.targets
        PROVE  InPlace(table, u, <<u.configuration, target>>)
    <3>1. <<u.configuration, target>> \in Keys
      BY <1>6, <2>1, PostEntries DEF Keys
    <3>2. <<u.configuration, target>> = k \/ InPlace(table, t, <<u.configuration, target>>)
      BY <1>6 DEF UnderWay, PostUnderWay, Visiting
    <3> QED
      BY <2>2, <2>3, <3>1, <3>2
  <2> QED
    BY <2>1, <2>4, <2>5 DEF PostUnderWay
<1> QED
  BY <1>3, <1>4, <1>5, <1>6 DEF UnderWay, SavesSeen

LEMMA AfterWriteAlone ==
    ASSUME RulesInv, AloneInv, NEW s \in Sessions, tx[s].pc \in {"insert", "save"},
           NEW row \in Rule,
           UnderWay(rules, tx[s]) =>
             /\ rules[tx[s].key] # None => Later(rules[tx[s].key], row)
             /\ tx[s].op \in Posts => Matches(tx[s].op, tx[s].key[2], row),
           AfterWrite(s, [tx[s] EXCEPT !.rows[tx[s].key] = row])
    PROVE  AloneInv'
<1> DEFINE k == tx[s].key
           rows == [tx[s].rows EXCEPT ![k] = row]
           t == [tx[s] EXCEPT !.rows = rows]
           w == [t EXCEPT !.key = Nothing, !.rule = None, !.bump = FALSE]
           statement == IF tx[s].op \in Posts THEN "rule" ELSE "commit"
<1>1. /\ tx[s] \in Transaction /\ rows \in [Keys -> Rule \cup {None, Nothing}]
      /\ tx[s].op \in Posts \cup Forms /\ k \in Keys
  BY TransactionTypes DEF StatementInv
<1>2. Continue(s, statement, w)
  <2>1. t = [tx[s] EXCEPT !.rows[k] = row]
    BY <1>1 DEF Transaction
  <2>2. IsPost(s) <=> tx[s].op \in Posts
    BY <1>1, PostEntries, FormEntries DEF IsPost
  <2> QED
    BY <2>1, <2>2 DEF AfterWrite
<1>3. statement \in {"rule", "commit"}
  OBVIOUS
<1> HIDE DEF rows
<1>4. /\ t \in Transaction /\ t.op = tx[s].op /\ t.rows = rows /\ t.alone = tx[s].alone
      /\ t.configurations = tx[s].configurations
      /\ t.configuration = tx[s].configuration /\ t.targets = tx[s].targets
  BY <1>1 DEF Transaction
<1> HIDE DEF t
<1>5. /\ w \in Transaction /\ w.op = tx[s].op /\ w.rows = rows /\ w.alone = tx[s].alone
      /\ w.configurations = tx[s].configurations
      /\ w.configuration = tx[s].configuration /\ w.targets = tx[s].targets
  BY <1>4 DEF Transaction
<1> HIDE DEF w
<1>6. ASSUME NEW u \in Transaction, UnderWay(rules, tx[s]), Kept(u, w), u.pc = statement
      PROVE  UnderWay(rules, u)
  <2>1. /\ u.op = tx[s].op /\ u.rows = rows
        /\ u.configurations = tx[s].configurations
        /\ u.configuration = tx[s].configuration /\ u.targets = tx[s].targets
    BY <1>5, <1>6 DEF Kept, SameBut
  <2> QED
    BY <1>1, <1>6, <2>1, WrittenUnderWay DEF rows
<1> HIDE DEF statement
<1> QED
  BY <1>1, <1>2, <1>3, <1>5, <1>6, ContinueAlone DEF Statement

LEMMA InsertRuleAlone ==
    ASSUME RulesInv, AloneInv, NEW s \in Sessions, InsertRule(s) PROVE AloneInv'
<1> DEFINE k == tx[s].key
<1>1. /\ tx[s] \in Transaction /\ tx[s].op \in Posts \cup Forms /\ k \in Keys
      /\ tx[s].pc = "insert" /\ StatementInv(tx[s])
  BY TransactionTypes DEF InsertRule, Does, StatementInv
<1>2. /\ IsPost(s) <=> tx[s].op \in Posts
      /\ tx[s].op \in Posts => k[2] \in DOMAIN tx[s].op.rules
  BY <1>1, PostEntries, FormEntries DEF IsPost, StatementInv
<1>3. ASSUME Seen(s, k) = None, NEW i \in Ids,
             AfterWrite(s, [tx[s] EXCEPT !.rows[k] = Created(s, i)])
      PROVE  AloneInv'
  <2> DEFINE row == Created(s, i)
  <2>1. row \in Rule /\ row.ruleset = Own(s)
    BY <1>1, CreatedRule DEF Does
  <2>2. ASSUME UnderWay(rules, tx[s]) PROVE rules[k] = None
    <3>1. KeepsRules(tx[s])
      BY <2>2 DEF UnderWay
    <3>2. CASE tx[s].op \in Forms
      <4>1. tx[s].rows[k] = Nothing
        BY <1>1, <3>1, <3>2 DEF KeepsRules
      <4> QED
        BY <1>3, <4>1 DEF Seen
    <3>3. CASE tx[s].op \in Posts
      <4>1. tx[s].rows[k] # None
        BY <1>1, <1>2, <3>1, <3>3 DEF KeepsRules
      <4> QED
        BY <1>3, <4>1 DEF Seen
    <3> QED
      BY <1>1, <3>2, <3>3
  <2>3. ASSUME tx[s].op \in Posts PROVE Matches(tx[s].op, k[2], row)
    <3>1. Own(s) = tx[s].op.ruleset /\ row # None
      BY <2>1, <2>3, PostEntries, NoRowAssumption DEF Own, OwnerOf
    <3>2. /\ row.policy = tx[s].op.rules[k[2]].policy
          /\ row.custom_msg = tx[s].op.rules[k[2]].custom_msg
      BY <1>2, <2>3 DEF Created
    <3> HIDE DEF row
    <3> QED
      BY <1>2, <2>1, <2>3, <3>1, <3>2 DEF Matches
  <2> HIDE DEF row
  <2>4. AfterWrite(s, [tx[s] EXCEPT !.rows[k] = row])
    BY <1>3 DEF row
  <2> QED
    BY <1>1, <2>1, <2>2, <2>3, <2>4, AfterWriteAlone
<1>4. CASE IsPost(s) /\ Seen(s, k) # None /\ Seen(s, k).ruleset = tx[s].op.ruleset
           /\ Present(s, [tx[s] EXCEPT !.key = Nothing], k)
  <2> DEFINE t == [tx[s] EXCEPT !.key = Nothing]
             target == k[2]
  <2>1. /\ t \in Transaction /\ t.op = tx[s].op /\ t.rows = tx[s].rows /\ t.alone = tx[s].alone
        /\ t.configurations = tx[s].configurations /\ t.configuration = tx[s].configuration
        /\ t.targets = tx[s].targets
    BY <1>1 DEF Transaction
  <2>2. tx[s].op \in Posts /\ target \in DOMAIN tx[s].op.rules
    BY <1>2, <1>4
  <2>3. Present(s, t, k)
    BY <1>4
  <2> HIDE DEF t
  <2>4. ASSUME UnderWay(rules, tx[s])
        PROVE  /\ k = <<t.configuration, target>>
               /\ \A other \in DOMAIN tx[s].op.rules \ t.targets :
                    other = target \/ InPlace(rules, tx[s], <<t.configuration, other>>)
    <3>1. k[1] = t.configuration
      BY <1>1, <2>1, <2>2, <2>4 DEF UnderWay, PostUnderWay
    <3>2. k = <<t.configuration, target>>
      BY <1>1, <3>1 DEF Keys
    <3>3. ASSUME NEW other \in DOMAIN tx[s].op.rules \ t.targets
          PROVE  other = target \/ InPlace(rules, tx[s], <<t.configuration, other>>)
      <4>1. k = <<t.configuration, other>> \/ InPlace(rules, tx[s], <<t.configuration, other>>)
        BY <1>1, <2>1, <2>2, <2>4 DEF UnderWay, PostUnderWay, Visiting
      <4> QED
        BY <4>1
    <3> QED
      BY <3>2, <3>3
  <2> HIDE DEF target
  <2>5. k[2] = target
    BY DEF target
  <2> QED
    BY <1>1, <1>4, <2>1, <2>2, <2>3, <2>4, <2>5, PresentAlone
<1>5. CASE Continue(s, "failed", tx[s])
  BY <1>1, <1>5, ContinueAlone DEF Statement
<1> QED
  BY <1>3, <1>4, <1>5 DEF InsertRule

LEMMA SaveRuleAlone ==
    ASSUME RulesInv, AloneInv, NEW s \in Sessions, SaveRule(s) PROVE AloneInv'
<1> DEFINE k == tx[s].key
           rule == tx[s].rule
           seen == Seen(s, k)
<1>1. /\ tx[s] \in Transaction /\ tx[s].op \in Posts \cup Forms /\ k \in Keys /\ rule \in Rule
      /\ tx[s].pc = "save"
  BY TransactionTypes DEF SaveRule, Does, StatementInv
<1>2. ASSUME UnderWay(rules, tx[s])
      PROVE  /\ seen # None /\ seen.version = rule.version
             /\ tx[s].bump <=> seen.custom_msg # rule.custom_msg
             /\ tx[s].op \in Posts => Matches(tx[s].op, k[2], rule)
             /\ rules[k] # None => Later(rules[k], seen)
  <2>1. seen = SeenIn(rules, tx[s], k)
    BY DEF Seen, SeenIn
  <2>2. /\ seen # None /\ seen.version = rule.version
        /\ tx[s].bump <=> seen.custom_msg # rule.custom_msg
        /\ tx[s].op \in Posts => Matches(tx[s].op, k[2], rule)
    <3> HIDE DEF seen
    <3> QED
      BY <1>1, <1>2, <2>1 DEF UnderWay, SavesSeen
  <2>3. rules[k] \in Rule \cup {None}
    BY <1>1 DEF RulesInv, RulesetsTypeOK
  <2>4. ASSUME rules[k] # None PROVE Later(rules[k], seen)
    <3>1. CASE tx[s].rows[k] = Nothing
      BY <2>3, <2>4, <3>1 DEF Seen, Later, Rule
    <3>2. CASE tx[s].rows[k] # Nothing
      BY <1>1, <1>2, <2>2, <2>4, <3>2 DEF UnderWay, WrittenLater, Blank, Seen
    <3> QED
      BY <3>1, <3>2
  <2> QED
    BY <2>2, <2>4
<1>3. CASE seen # None /\ AfterWrite(s, [tx[s] EXCEPT !.rows[k] = Saved(tx[s], seen)])
  <2> DEFINE row == Saved(tx[s], seen)
             saved == [rule EXCEPT !.version = seen.version + 1]
  <2>1. seen \in Rule
    BY <1>1, <1>3, SeenRule
  <2>2. seen.version \in Nat \ {0} /\ seen.version + 1 \in Nat \ {0}
    BY <2>1 DEF Rule
  <2>3. /\ saved \in Rule /\ saved.version = seen.version + 1
        /\ saved.policy = rule.policy /\ saved.custom_msg = rule.custom_msg
        /\ saved.ruleset = rule.ruleset
    <3>1. \A r \in Rule, n \in Nat \ {0} :
            LET w == [r EXCEPT !.version = n]
            IN  /\ w \in Rule /\ w.version = n /\ w.policy = r.policy
                /\ w.custom_msg = r.custom_msg /\ w.ruleset = r.ruleset
      BY DEF Rule
    <3> QED
      BY <1>1, <2>2, <3>1, Zenon
  <2>4. (tx[s].bump /\ row = saved) \/ (~ tx[s].bump /\ row = rule)
    <3>1. CASE tx[s].bump
      BY <3>1, Zenon DEF Saved
    <3>2. CASE ~ tx[s].bump
      BY <3>2, Zenon DEF Saved
    <3> QED
      BY <3>1, <3>2
  <2> HIDE DEF row, saved
  <2>5. row \in Rule
    BY <1>1, <2>3, <2>4
  <2>6. ASSUME UnderWay(rules, tx[s]), rules[k] # None PROVE Later(rules[k], row)
    <3>1. rules[k].version \in Nat
      BY <1>1, <2>6 DEF RulesInv, RulesetsTypeOK, Rule
    <3>2. Later(rules[k], seen)
      BY <1>2, <2>6
    <3>3. /\ row.version \in {seen.version, seen.version + 1}
          /\ row.custom_msg # seen.custom_msg => row.version = seen.version + 1
      BY <1>2, <2>3, <2>4, <2>6
    <3> HIDE DEF seen
    <3> QED
      BY <2>2, <3>1, <3>2, <3>3 DEF Later
  <2>7. ASSUME UnderWay(rules, tx[s]), tx[s].op \in Posts PROVE Matches(tx[s].op, k[2], row)
    <3>1. Matches(tx[s].op, k[2], rule)
      BY <1>2, <2>7
    <3>2. /\ row.ruleset = rule.ruleset /\ row.policy = rule.policy
          /\ row.custom_msg = rule.custom_msg
      BY <2>3, <2>4
    <3>3. row # None /\ rule # None
      BY <1>1, <2>5, NoRowAssumption
    <3> HIDE DEF rule, k
    <3> QED
      BY <3>1, <3>2, <3>3 DEF Matches
  <2>8. AfterWrite(s, [tx[s] EXCEPT !.rows[k] = row])
    BY <1>3 DEF row
  <2> QED
    BY <1>1, <2>5, <2>6, <2>7, <2>8, AfterWriteAlone
<1>4. CASE seen = None /\ AfterWrite(s, [tx[s] EXCEPT !.rows[k] = rule])
  BY <1>1, <1>2, <1>4, AfterWriteAlone
<1>5. CASE Continue(s, "failed", tx[s])
  BY <1>1, <1>5, ContinueAlone DEF Statement
<1> QED
  BY <1>3, <1>4, <1>5 DEF SaveRule

LEMMA EndsAlone ==
    ASSUME RulesInv, AloneInv, NEW s \in Sessions, Abort(s) \/ Commit(s) \/ Fail(s)
    PROVE  AloneInv'
<1>1. CASE Abort(s)
  <2>1. tx[s].pc \in {"insert", "save", "delete", "others"}
    BY <1>1 DEF Abort, WaitsFor, Does
  <2>2. tx[s] \in Transaction /\ Continue(s, "failed", tx[s])
    BY <1>1, TransactionTypes DEF Abort
  <2> QED
    BY <2>1, <2>2, ContinueAlone DEF Statement
<1>2. CASE Commit(s)
  <2> SUFFICES ASSUME NEW q \in Sessions, tx'[q].pc # "idle" PROVE ~ tx'[q].alone
    BY DEF AloneInv
  <2>1. q # s
    BY <1>2, NoTxTypes DEF Commit
  <2>2. tx[q] \in Transaction
    BY TransactionTypes
  <2>3. tx'[q] = [tx[q] EXCEPT !.alone = FALSE]
    BY <1>2, <2>1 DEF Commit, Does
  <2> QED
    BY <2>2, <2>3 DEF Transaction
<1>3. CASE Fail(s)
  <2>1. tx'[s].pc = "idle" /\ (\A q \in Sessions \ {s} : tx'[q] = tx[q]) /\ rules' = rules
    BY <1>3, NoTxTypes DEF Fail, RulesInv, RulesetsTypeOK
  <2> QED
    BY <2>1 DEF AloneInv
<1> QED
  BY <1>1, <1>2, <1>3

LEMMA BeginAlone ==
    ASSUME RulesInv, AloneInv, NEW s \in Sessions, NEW request \in Posts \cup Forms,
           Begin(s, request)
    PROVE  AloneInv'
<1> DEFINE t == [NoTx EXCEPT !.op = request, !.pc = "start"]
<1>1. t.op = request /\ t.pc = "start" /\ \A k \in Keys : t.rows[k] = Nothing
  BY NoTxTypes DEF Transaction
<1>2. tx' = [tx EXCEPT ![s] = t] /\ rules' = rules
  BY DEF Begin
<1> HIDE DEF t
<1>3. tx'[s] = t /\ \A q \in Sessions \ {s} : tx'[q] = tx[q]
  BY <1>2 DEF RulesInv, RulesetsTypeOK
<1>4. UnderWay(rules, t)
  BY <1>1, NoRowAssumption
     DEF UnderWay, WrittenLater, KeepsRules, SavesSeen, PostUnderWay, Visiting, Blank
<1> QED
  BY <1>2, <1>3, <1>4 DEF AloneInv

LEMMA NextAlone == ASSUME RulesInv, AloneInv, [Next]_vars PROVE AloneInv'
<1>1. ASSUME NEW s \in Sessions, SessionNext(s) PROVE AloneInv'
  BY <1>1, ValidateAlone, GetRulesetAlone, NextConfigurationAlone, GetRuleAlone,
     FindOthersAlone, DeleteOtherAlone, EndConfigurationAlone, CreateFormAlone,
     UpdateFormAlone, DeleteFormAlone, DeleteRuleAlone, InsertRuleAlone, SaveRuleAlone,
     EndsAlone DEF SessionNext
<1>2. CASE RulesNext
  BY <1>1, <1>2, BeginAlone DEF RulesNext
<1>3. CASE UNCHANGED ruleVars
  BY <1>3 DEF ruleVars, AloneInv
<1> QED
  BY <1>2, <1>3 DEF Next, UploadsNext, vars

LEMMA AloneInvariant == Spec => []AloneInv
<1>1. Init => AloneInv
  BY NoTxTypes DEF Init, AloneInv
<1>2. RulesInv /\ AloneInv /\ [Next]_vars => AloneInv'
  BY NextAlone
<1> QED
  BY <1>1, <1>2, RulesInvariant, PTL DEF Spec

(* The transaction of a session ends with its commit.                      *)
LEMMA CommitStep ==
    ASSUME RulesInv, [Next]_vars, NEW s \in Sessions, Commits(s)
    PROVE  Commit(s)
<1>1. tx[s].op # Nothing /\ tx[s].pc = "commit" /\ tx'[s].op = Nothing
  BY TransactionTypes, RequestsAssumption DEF Commits, Does, StatementInv
<1>2. ~ UNCHANGED ruleVars
  BY <1>1 DEF ruleVars
<1>3. RulesNext
  BY <1>2 DEF Next, UploadsNext, vars
<1>4. PICK q \in Sessions : SessionNext(q) \/ \E request \in Posts \cup Forms : Begin(q, request)
  BY <1>3 DEF RulesNext
<1>5. CASE Commit(q)
  <2>1. ASSUME q # s PROVE FALSE
    <3>1. tx'[s] = [tx[s] EXCEPT !.alone = FALSE] \/ tx'[s] = tx[s]
      BY <1>5, <2>1 DEF Commit
    <3>2. tx[s] \in Transaction
      BY TransactionTypes
    <3>3. tx'[s].op = tx[s].op
      BY <3>1, <3>2 DEF Transaction
    <3> QED
      BY <1>1, <3>3
  <2> QED
    BY <1>5, <2>1
<1>6. CASE ~ Commit(q)
  <2>1. \A p \in Sessions \ {q} : tx'[p] = tx[p]
    BY <1>4, <1>6 DEF SessionNext, Validate, GetRuleset, NextConfiguration, GetRule, Present,
       FindOthers, DeleteOther, EndConfiguration, CreateForm, UpdateForm, DeleteForm, DeleteRule,
       InsertRule, SaveRule, AfterWrite, Abort, Fail, Continue, Begin, RulesInv, RulesetsTypeOK
  <2>2. q = s
    BY <1>1, <2>1
  <2> QED
    BY <1>1, <1>4, <1>6, <2>2 DEF SessionNext, Validate, GetRuleset, NextConfiguration, GetRule,
       FindOthers, DeleteOther, EndConfiguration, CreateForm, UpdateForm, DeleteForm, DeleteRule,
       InsertRule, SaveRule, Abort, WaitsFor, Fail, Does, Begin
<1> QED
  BY <1>5, <1>6

(* What the commit of a request that was alone makes of the rules.         *)
LEMMA AppliedStep ==
    ASSUME RulesInv, AloneInv, [Next]_vars, NEW s \in Sessions, Commits(s), tx[s].alone
    PROVE  NewVersions /\ (IsPost(s) => Match(tx[s].op, rules'))
<1>1. Commit(s) /\ tx[s].pc = "commit" /\ UnderWay(rules, tx[s])
  BY CommitStep DEF Commits, Does, AloneInv
<1>2. tx[s].op \in Posts \cup Forms
  BY <1>1, TransactionTypes DEF StatementInv
<1>3. \A k \in Keys : rules'[k] = SeenIn(rules, tx[s], k)
  BY <1>1 DEF Commit, Seen, SeenIn
<1>4. NewVersions
  <2> SUFFICES ASSUME NEW k \in Keys, rules[k] # None, rules'[k] # None,
                      rules'[k].custom_msg # rules[k].custom_msg
               PROVE  rules'[k].version > rules[k].version
    BY DEF NewVersions
  <2>1. rules'[k] = tx[s].rows[k] /\ ~ Blank(tx[s].rows[k])
    BY <1>3 DEF SeenIn, Blank
  <2>2. Later(rules[k], tx[s].rows[k])
    BY <1>1, <2>1 DEF UnderWay, WrittenLater
  <2> QED
    BY <2>1, <2>2 DEF Later
<1>5. ASSUME IsPost(s) PROVE Match(tx[s].op, rules')
  <2>1. tx[s].op \in Posts
    BY <1>2, <1>5, FormEntries DEF IsPost
  <2> SUFFICES ASSUME NEW c \in tx[s].op.configurations, NEW target \in Targets
               PROVE  Matches(tx[s].op, target, rules'[<<c, target>>])
    BY DEF Match
  <2>2. <<c, target>> \in Keys
    BY <2>1, PostEntries DEF Keys
  <2>3. c \in Visited(tx[s])
    BY <1>1, <2>1 DEF UnderWay, PostUnderWay, Visited, Visiting
  <2>4. InPlace(rules, tx[s], <<c, target>>)
    BY <1>1, <2>1, <2>3 DEF UnderWay, PostUnderWay
  <2> QED
    BY <1>3, <2>2, <2>4 DEF InPlace
<1> QED
  BY <1>4, <1>5

(* When a post is committed, the rules of its ruleset are those of the     *)
(* post, and any request gives a later version to a rule with another      *)
(* message, whatever was done before and whatever is done at the same      *)
(* time, as long as no other request is committed in between               *)
(* (RuleSetUpdate.post, UpdateRuleForm.save).                              *)
THEOREM RequestsMatch == Spec => RequestsApplied
<1>1. RulesInv /\ AloneInv /\ [Next]_vars =>
        [\A s \in Sessions :
           Commits(s) /\ tx[s].alone =>
             NewVersions /\ (IsPost(s) => Match(tx[s].op, rules'))]_vars
  BY AppliedStep
<1> QED
  BY <1>1, RulesInvariant, AloneInvariant, PTL DEF Spec, RequestsApplied

=============================================================================
