------------------------ MODULE SantaRuleSyncProofs ------------------------
(***************************************************************************)
(* Proofs about SantaRuleSync, for any rules, machines, batch size and     *)
(* number of lost or late messages.                                        *)
(***************************************************************************)
EXTENDS SantaRuleSync, FiniteSetTheorems, TLAPS

-----------------------------------------------------------------------------
(* The operators of the rule download.                                     *)

\* The rules in scope are expanded to rules on targets, which are not REMOVE:
\* the expanded_rules of the query.
LEMMA ExpandedType ==
    ASSUME rules \subseteq Rule, NEW tag_ids
    PROVE  \A e \in ExpandedRules(rules, tag_ids) :
              e \in Change /\ e.policy \in RulePolicies
<1>1. \A r \in rules : Expansion(r.target) \subseteq Targets
  BY BundleAssumption DEF Expansion, Rule
<1>2. ASSUME NEW r \in FilteredRules(rules, tag_ids), NEW t \in Expansion(r.target)
      PROVE  LET e == [target |-> t, policy |-> r.policy, custom_msg |-> r.custom_msg,
                       version |-> r.version, origin |-> r.target]
             IN e \in Change /\ e.policy \in RulePolicies
  <2>1. r \in rules /\ r \in Rule
    BY <1>2 DEF FilteredRules
  <2>2. t \in Targets
    BY <1>1, <1>2, <2>1
  <2>3. r.policy \in RulePolicies /\ r.version \in Nat
    BY <2>1, PolicyAssumption, BoundAssumption DEF Rule, Versions
  <2> QED
    BY <2>1, <2>2, <2>3 DEF Rule, Change
<1> QED
  BY <1>2 DEF ExpandedRules

\* A change is one of the expanded rules or the removal of a machine rule.
LEMMA ChangedType ==
    ASSUME NEW expanded \in SUBSET Change, NEW rows \in SUBSET MachineRule
    PROVE  ChangedRules(expanded, rows) \subseteq Change
<1>1. \A m \in rows : m.target \in Targets
  BY DEF MachineRule
<1> QED
  BY <1>1, MessageAssumption DEF ChangedRules, Change

\* A batch is made of changes, and is empty only when there is none.
LEMMA BatchOfChanges ==
    ASSUME NEW changed, NEW batch \in Batches(changed)
    PROVE  /\ batch \subseteq changed
           /\ batch = {} => changed = {}
<1>1. PICK page \in Pages(changed) : batch \in LastOfEach(page)
  BY DEF Batches
<1>2. page \subseteq changed /\ batch \subseteq page
  BY <1>1 DEF Pages, LastOfEach
<1>3. ASSUME batch = {} PROVE changed = {}
  <2>1. page = {}
    BY <1>1, <1>3 DEF LastOfEach
  <2>2. page # changed => Cardinality(page) = BatchSize
    BY <1>1 DEF Pages
  <2>3. Cardinality({}) = 0
    BY FS_EmptySet
  <2> QED
    BY <2>1, <2>2, <2>3, BoundAssumption
<1> QED
  BY <1>2, <1>3

\* The rows that are left once some are dropped and the batch of the cursor is
\* acknowledged.
LEMMA KeptRows ==
    ASSUME machine_rules \subseteq MachineRule, NEW request, NEW dropped,
           NEW m \in Kept(request, dropped)
    PROVE  \/ /\ m \in machine_rules \ dropped
              /\ request.cursor # NoCursor => m.cursor # request.cursor
           \/ /\ request.cursor # NoCursor
              /\ m.cursor = NoCursor
              /\ m.policy # REMOVE
              /\ m \in MachineRule
              /\ \E n \in machine_rules \ dropped : n.cursor = request.cursor /\ Tells(n, m)
<1> DEFINE rows == machine_rules \ dropped
           cursor == request.cursor
<1>1. CASE cursor = NoCursor
  BY <1>1 DEF Kept, Acknowledge
<1>2. CASE cursor # NoCursor /\ m \in {n \in rows : n.cursor # cursor}
  BY <1>2
<1>3. CASE /\ cursor # NoCursor
           /\ m \in {[n EXCEPT !.cursor = NoCursor]
                       : n \in {n \in rows : n.cursor = cursor /\ n.policy # REMOVE}}
  <2>1. PICK n \in rows : /\ n.cursor = cursor
                          /\ n.policy # REMOVE
                          /\ m = [n EXCEPT !.cursor = NoCursor]
    BY <1>3
  <2>2. n \in MachineRule
    OBVIOUS
  <2>3. /\ m.target = n.target /\ m.policy = n.policy /\ m.version = n.version
        /\ m.cursor = NoCursor /\ m \in MachineRule
    BY <2>1, <2>2 DEF MachineRule, REMOVE
  <2> QED
    BY <1>3, <2>1, <2>3 DEF Tells
<1> QED
  BY <1>1, <1>2, <1>3 DEF Kept, Acknowledge

\* A row is one of before, which the batch does not change, or comes from the
\* batch.
LEMMA StoredRows ==
    ASSUME NEW rows, NEW batch, NEW cursor, NEW m \in Store(rows, batch, cursor)
    PROVE  \/ m \in rows /\ \A e \in batch : e.target # m.target
           \/ /\ m.cursor = cursor
              /\ \E e \in batch : /\ Tells(e, m)
                                  /\ m = [target |-> e.target, policy |-> e.policy,
                                          version |-> e.version, cursor |-> cursor]
BY DEF Store, Tells

\* The cursor of a batch is nobody's.
LEMMA FreshCursor ==
    ASSUME NEW cursor \in Cursors \ UsedCursors
    PROVE  /\ cursor # NoCursor
           /\ \A m \in machine_rules : m.cursor # cursor
           /\ \A r \in late \cup {link} :
                 Downloading(r) \/ r.type = "rules" => r.cursor # cursor
BY CursorAssumption DEF UsedCursors

\* The server goes on with a request: where it was, the progress is.
LEMMA Progress ==
    ASSUME NEW request, NEW progress, Proceed(request, progress)
    PROVE  /\ \/ link = request /\ link' = progress /\ late' = late
              \/ /\ request \in late /\ link' = link
                 /\ late' = (late \ {request}) \cup {progress}
           /\ request \in late \cup {link}
BY DEF Proceed

-----------------------------------------------------------------------------
(* Type correctness.                                                       *)

\* A request that is processed is one the agent sent.
LEMMA RespondType ==
    ASSUME TypeOK, NEW request, NEW response \in Response,
           Respond(request, response)
    PROVE  link' \in Request \cup Response \cup {Idle} /\ late' \subseteq Request
BY DEF Respond, TypeOK

LEMMA CachedTagsType ==
    ASSUME TypeOK
    PROVE  CachedTags \in TagSets
BY DEF TypeOK, CachedTags

LEMMA StoreType ==
    ASSUME NEW rows \in SUBSET MachineRule, NEW batch \in SUBSET Change,
           NEW cursor \in Cursors
    PROVE  Store(rows, batch, cursor) \subseteq MachineRule
<1> SUFFICES ASSUME NEW m \in Store(rows, batch, cursor) PROVE m \in MachineRule
  OBVIOUS
<1>1. CASE m \in rows
  BY <1>1
<1>2. CASE \E e \in batch : m = [target |-> e.target, policy |-> e.policy,
                                 version |-> e.version, cursor |-> cursor]
  BY <1>2 DEF Change, MachineRule
<1> QED
  BY <1>1, <1>2, StoredRows

LEMMA KeptType ==
    ASSUME machine_rules \subseteq MachineRule, NEW request, NEW dropped
    PROVE  Kept(request, dropped) \subseteq MachineRule
BY KeptRows

LEMMA ProceedType ==
    ASSUME TypeOK, NEW request, NEW progress \in Download, Proceed(request, progress)
    PROVE  link' \in Request \cup Response \cup {Idle} /\ late' \subseteq Request
BY DEF Proceed, TypeOK, Request

\* A rule download is one of the stages, by its type.
LEMMA DownloadStages ==
    ASSUME TypeOK, NEW request \in late \cup {link}
    PROVE  /\ request.type = "ruledownload" => request \in Asked
           /\ request.type = "cleaned" => request \in Cleaned
           /\ request.type = "queried" => request \in Queried
<1>1. request \in Request \cup Response \cup {Idle}
  BY DEF TypeOK
<1> QED
  BY <1>1 DEF Request, Response, Idle, Download, Asked, Cleaned, Queried

LEMMA CleanUpType ==
    ASSUME TypeOK, NEW request \in late \cup {link}, CleanUp(request)
    PROVE  TypeOK'
<1> DEFINE progress == [type |-> "cleaned", cursor |-> request.cursor,
                        tag_ids |-> CachedTags, seen |-> Unacknowledged(request.cursor)]
<1>1. request \in Asked
  BY DownloadStages DEF CleanUp
<1>2. Unacknowledged(request.cursor) \subseteq MachineRule
  BY DEF Unacknowledged, TypeOK
<1>3. progress \in Download
  BY <1>1, <1>2, CachedTagsType DEF Asked, Cleaned, Download
<1>4. Proceed(request, progress)
  BY DEF CleanUp
<1> HIDE DEF progress
<1>5. link' \in Request \cup Response \cup {Idle} /\ late' \subseteq Request
  BY <1>3, <1>4, ProceedType
<1> QED
  BY <1>5, CachedTagsType DEF TypeOK, CleanUp, adminVars, agentVars

\* The next batch is a part of the changes, and none only if there is no change.
LEMMA QueryEffect ==
    ASSUME TypeOK, NEW request \in late \cup {link}, QueryRules(request)
    PROVE  \E dropped \in Dropped(request), batch \in SUBSET Change :
             LET changed == ChangedRules(ExpandedRules(rules, request.tag_ids),
                                         Kept(request, dropped))
             IN /\ batch \in Batches(changed)
                /\ batch \subseteq changed
                /\ batch = {} => changed = {}
                /\ Proceed(request, [type |-> "queried", cursor |-> request.cursor,
                                     dropped |-> dropped, rules |-> batch])
<1> DEFINE changed(dropped) == ChangedRules(ExpandedRules(rules, request.tag_ids),
                                            Kept(request, dropped))
<1>0. PICK dropped \in Dropped(request) : \E batch \in Batches(changed(dropped)) :
             Proceed(request, [type |-> "queried", cursor |-> request.cursor,
                               dropped |-> dropped, rules |-> batch])
  BY DEF QueryRules
<1>1. PICK batch \in Batches(changed(dropped)) :
             Proceed(request, [type |-> "queried", cursor |-> request.cursor,
                               dropped |-> dropped, rules |-> batch])
  BY <1>0
<1>2. changed(dropped) \subseteq Change
  <2>1. ExpandedRules(rules, request.tag_ids) \subseteq Change
    BY ExpandedType DEF TypeOK
  <2>2. Kept(request, dropped) \subseteq MachineRule
    BY KeptType DEF TypeOK
  <2> QED
    BY <2>1, <2>2, ChangedType
<1>3. batch \subseteq changed(dropped) /\ (batch = {} => changed(dropped) = {})
  <2> HIDE DEF changed
  <2> QED
    BY BatchOfChanges
<1>4. batch \in SUBSET Change
  <2> HIDE DEF changed
  <2> QED
    BY <1>2, <1>3
<1> QED
  BY <1>1, <1>3, <1>4

LEMMA QueryRulesType ==
    ASSUME TypeOK, NEW request \in late \cup {link}, QueryRules(request)
    PROVE  TypeOK'
<1>1. PICK dropped \in Dropped(request), batch \in SUBSET Change :
        Proceed(request, [type |-> "queried", cursor |-> request.cursor,
                          dropped |-> dropped, rules |-> batch])
  BY QueryEffect
<1> DEFINE progress == [type |-> "queried", cursor |-> request.cursor,
                        dropped |-> dropped, rules |-> batch]
<1>2. request \in Cleaned
  BY DownloadStages DEF QueryRules
<1>3. dropped \subseteq MachineRule
  BY <1>1 DEF Dropped, Unacknowledged, TypeOK
<1>4. progress \in Download
  BY <1>2, <1>3 DEF Cleaned, Queried, Download
<1>5. Proceed(request, progress)
  BY <1>1
<1> HIDE DEF progress
<1>6. link' \in Request \cup Response \cup {Idle} /\ late' \subseteq Request
  BY <1>4, <1>5, ProceedType
<1> QED
  BY <1>6 DEF TypeOK, QueryRules, adminVars, serverVars, agentVars

LEMMA StoreBatchType ==
    ASSUME TypeOK, NEW request \in late \cup {link}, StoreBatch(request)
    PROVE  TypeOK'
<1> DEFINE rows == Kept(request, request.dropped)
           Answer(cursor) ==
              [type |-> "rules", rules |-> request.rules,
               cursor |-> IF request.rules = {} THEN NoCursor ELSE cursor]
<1>1. PICK cursor \in Cursors \ UsedCursors :
        /\ machine_rules' = Store(rows, request.rules, cursor)
        /\ Respond(request, Answer(cursor))
  BY DEF StoreBatch
<1>2. request.rules \subseteq Change
  BY DownloadStages DEF StoreBatch, Queried
<1>3. rows \subseteq MachineRule
  BY KeptType DEF TypeOK
<1>4. machine_rules' \subseteq MachineRule
  BY <1>1, <1>2, <1>3, StoreType
<1>5. Answer(cursor) \in Response
  BY <1>2 DEF Response
<1>6. link' \in Request \cup Response \cup {Idle} /\ late' \subseteq Request
  <2> HIDE DEF Answer
  <2> QED
    BY <1>1, <1>5, RespondType
<1> QED
  BY <1>4, <1>6 DEF TypeOK, StoreBatch, adminVars, agentVars

LEMMA RuleDownloadType ==
    ASSUME TypeOK, NEW request \in late \cup {link}, RuleDownloadView(request)
    PROVE  TypeOK'
BY CleanUpType, QueryRulesType, StoreBatchType DEF RuleDownloadView

LEMMA ReceiveRulesType ==
    ASSUME TypeOK, ReceiveRules
    PROVE  TypeOK'
<1>1. link.rules \subseteq Change /\ link.cursor \in Cursors \cup {NoCursor}
  BY DEF TypeOK, ReceiveRules, Request, Download, Asked, Cleaned, Queried, Response, Idle
<1>2. ASSUME NEW database \in SUBSET Installed
      PROVE  Applied(database, link.rules) \subseteq Installed
  BY <1>1 DEF Applied, Installed, Change
<1>3. installed' \subseteq Installed
  BY <1>2 DEF TypeOK, ReceiveRules
<1>4. link' \in Request
  BY <1>1 DEF ReceiveRules, Request, Download, Asked
<1> QED
  BY <1>3, <1>4 DEF TypeOK, ReceiveRules, adminVars, serverVars

LEMMA AdminType ==
    ASSUME TypeOK, Admin
    PROVE  TypeOK'
<1> USE CounterAssumption DEF serverVars, netVars, agentVars, Edit, TypeOK
<1>0. edits < MaxEdits /\ edits \in 0 .. MaxEdits => edits + 1 \in 0 .. MaxEdits
  OBVIOUS
<1>1. ASSUME NEW t \in Targets, NEW p \in Policies, NEW msg \in Messages, NEW s \in Scopes,
             CreateRule(t, p, msg, s)
      PROVE  TypeOK'
  BY <1>0, <1>1, BoundAssumption DEF CreateRule, Rule, Versions
<1>2. ASSUME NEW r \in rules, NEW p \in Policies, NEW msg \in Messages, NEW s \in Scopes,
             UpdateRule(r, p, msg, s)
      PROVE  TypeOK'
  <2> DEFINE version == IF msg # r.custom_msg THEN r.version + 1 ELSE r.version
             updated == [target |-> r.target, policy |-> p, custom_msg |-> msg,
                         version |-> version, scope |-> s]
  <2>1. r \in Rule
    OBVIOUS
  <2>2. version \in Versions
    BY <1>2, <2>1, BoundAssumption DEF UpdateRule, Rule, Versions
  <2>3. updated \in Rule
    <3> HIDE DEF version
    <3> QED
      BY <2>1, <2>2 DEF Rule
  <2>4. rules' \subseteq Rule
    BY <1>2, <2>3 DEF UpdateRule
  <2> QED
    BY <1>0, <1>2, <2>4 DEF UpdateRule
<1>3. ASSUME NEW r \in rules, DeleteRule(r)
      PROVE  TypeOK'
  BY <1>0, <1>3 DEF DeleteRule
<1>4. ASSUME NEW tag_ids \in TagSets, SetTags(tag_ids)
      PROVE  TypeOK'
  BY <1>0, <1>4 DEF SetTags
<1>5. ASSUME ReEnroll
      PROVE  TypeOK'
  <2>1. LeftOvers \subseteq Installed
    BY MessageAssumption DEF LeftOvers, LeftOver, Installed, RulePolicies, BLOCKLIST
  <2> QED
    BY <1>0, <1>5, <2>1 DEF ReEnroll
<1> QED
  BY <1>1, <1>2, <1>3, <1>4, <1>5 DEF Admin

LEMMA OtherType ==
    ASSUME TypeOK, StartSync \/ ReceivePreflight \/ ReceivePostflight \/ CacheExpires
                   \/ GiveUp
    PROVE  TypeOK'
<1> USE CounterAssumption DEF TypeOK, adminVars, serverVars, agentVars, netVars
<1>1. CASE StartSync
  BY <1>1 DEF StartSync, Request
<1>2. CASE ReceivePreflight
  <2>1. link.clean_sync \in BOOLEAN
    BY <1>2 DEF ReceivePreflight, Request, Download, Asked, Cleaned, Queried, Response, Idle
  <2> QED
    BY <1>2, <2>1 DEF ReceivePreflight, Request, Download, Asked
<1>3. CASE ReceivePostflight
  BY <1>3 DEF ReceivePostflight
<1>4. CASE CacheExpires
  BY <1>4 DEF CacheExpires
<1>5. CASE GiveUp
  <2>1. late' \subseteq Request
    BY <1>5 DEF GiveUp
  <2>2. faults' \in 0 .. MaxFaults
    BY <1>5 DEF GiveUp
  <2>3. link' = Idle /\ clean' = FALSE
    BY <1>5 DEF GiveUp
  <2>4. UNCHANGED <<rules, tags, machine_rules, cache, installed, edits>>
    BY <1>5 DEF GiveUp
  <2> QED
    BY <2>1, <2>2, <2>3, <2>4
<1> QED
  BY <1>1, <1>2, <1>3, <1>4, <1>5

LEMMA PreflightType ==
    ASSUME TypeOK, NEW request \in late \cup {link},
           PreflightView(request) \/ PostflightView(request)
    PROVE  TypeOK'
<1> USE DEF adminVars, agentVars
<1>1. CASE PreflightView(request)
  <2> DEFINE clean_sync == request.request_clean_sync \/ machine_rules = {}
             response == [type |-> "preflight_response", clean_sync |-> clean_sync]
  <2>1. request.request_clean_sync \in BOOLEAN
    BY <1>1 DEF TypeOK, PreflightView, Request, Download, Asked, Cleaned, Queried, Response,
                Idle
  <2>2. response \in Response
    BY <2>1 DEF Response
  <2>3. Respond(request, response)
    BY <1>1 DEF PreflightView
  <2>4. link' \in Request \cup Response \cup {Idle} /\ late' \subseteq Request
    <3> HIDE DEF response
    <3> QED
      BY <2>2, <2>3, RespondType
  <2> QED
    BY <1>1, <2>4 DEF TypeOK, PreflightView, RefreshCache
<1>2. CASE PostflightView(request)
  <2>1. [type |-> "postflight_response"] \in Response
    BY DEF Response
  <2>2. link' \in Request \cup Response \cup {Idle} /\ late' \subseteq Request
    BY <1>2, <2>1, RespondType DEF PostflightView
  <2> QED
    BY <1>2, <2>2 DEF TypeOK, PostflightView
<1> QED
  BY <1>1, <1>2

-----------------------------------------------------------------------------
(* Acknowledged machine rules are rules of the agent.                      *)

\* What the stored batch makes of the machine rules, whoever asked: a row is new,
\* or it was there and the batch leaves it alone, or the request just acknowledged
\* it.
LEMMA StoreBatchEffect ==
    ASSUME TypeOK, NEW request \in late \cup {link}, StoreBatch(request)
    PROVE  \E cursor \in Cursors \ UsedCursors :
             /\ Respond(request,
                  [type |-> "rules", rules |-> request.rules,
                   cursor |-> IF request.rules = {} THEN NoCursor ELSE cursor])
             /\ \A m \in machine_rules' :
                  \/ m.cursor = cursor /\ \E e \in request.rules : Tells(e, m)
                  \/ /\ \A e \in request.rules : e.target # m.target
                     /\ m \in machine_rules
                  \/ /\ \A e \in request.rules : e.target # m.target
                     /\ m.cursor = NoCursor
                     /\ request.cursor # NoCursor
                     /\ m.policy # REMOVE
                     /\ \E n \in machine_rules : n.cursor = request.cursor /\ Tells(n, m)
<1> DEFINE rows == Kept(request, request.dropped)
           batch == request.rules
<1>1. PICK cursor \in Cursors \ UsedCursors :
        /\ machine_rules' = Store(rows, batch, cursor)
        /\ Respond(request,
             [type |-> "rules", rules |-> batch,
              cursor |-> IF batch = {} THEN NoCursor ELSE cursor])
  BY DEF StoreBatch
<1>2. ASSUME NEW m \in machine_rules'
      PROVE  \/ m.cursor = cursor /\ \E e \in batch : Tells(e, m)
             \/ /\ \A e \in batch : e.target # m.target
                /\ m \in machine_rules
             \/ /\ \A e \in batch : e.target # m.target
                /\ m.cursor = NoCursor
                /\ request.cursor # NoCursor
                /\ m.policy # REMOVE
                /\ \E n \in machine_rules : n.cursor = request.cursor /\ Tells(n, m)
  <2>1. CASE m.cursor = cursor /\ \E e \in batch : Tells(e, m)
    BY <2>1
  <2>2. CASE m \in rows /\ \A e \in batch : e.target # m.target
    BY <2>2, KeptRows DEF TypeOK
  <2> QED
    <3> HIDE DEF rows
    <3> QED
      BY <1>1, <1>2, <2>1, <2>2, StoredRows
<1> QED
  BY <1>1, <1>2

\* The clean up and the query show nothing of what they do: the request goes on
\* with its cursor.
LEMMA StatementInv ==
    ASSUME SyncInv, NEW request \in late \cup {link},
           CleanUp(request) \/ QueryRules(request)
    PROVE  SyncInv'
<1>0. TypeOK /\ TypeOK'
  BY CleanUpType, QueryRulesType DEF SyncInv
<1>1. machine_rules' = machine_rules /\ installed' = installed /\ clean' = clean
  BY DEF CleanUp, QueryRules, serverVars, agentVars
<1>2. PICK progress :
        /\ Proceed(request, progress)
        /\ progress.type \in {"cleaned", "queried"}
        /\ progress.cursor = request.cursor
  <2>1. CASE CleanUp(request)
    <3> DEFINE progress == [type |-> "cleaned", cursor |-> request.cursor,
                            tag_ids |-> CachedTags, seen |-> Unacknowledged(request.cursor)]
    <3>1. progress.type = "cleaned" /\ progress.cursor = request.cursor
      OBVIOUS
    <3>2. Proceed(request, progress)
      BY <2>1 DEF CleanUp
    <3> HIDE DEF progress
    <3> QED
      BY <3>1, <3>2
  <2>2. CASE QueryRules(request)
    <3>1. PICK dropped \in Dropped(request), batch \in SUBSET Change :
            Proceed(request, [type |-> "queried", cursor |-> request.cursor,
                              dropped |-> dropped, rules |-> batch])
      BY <1>0, <2>2, QueryEffect
    <3> DEFINE progress == [type |-> "queried", cursor |-> request.cursor,
                            dropped |-> dropped, rules |-> batch]
    <3>2. progress.type = "queried" /\ progress.cursor = request.cursor
      OBVIOUS
    <3>3. Proceed(request, progress)
      BY <3>1
    <3> HIDE DEF progress
    <3> QED
      BY <3>2, <3>3
  <2> QED
    BY <2>1, <2>2
<1>3. Downloading(request)
  BY DEF CleanUp, QueryRules, Downloading
<1>4. \A r \in late' : Downloading(r) =>
        \E q \in late : Downloading(q) /\ q.cursor = r.cursor
  BY <1>2, <1>3, Progress
<1>5. \/ link' = link
      \/ /\ Downloading(link) /\ link'.cursor = link.cursor
         /\ link'.type \in {"cleaned", "queried"}
  BY <1>2, <1>3, Progress
<1>6. AckedRulesInstalled'
  BY <1>1 DEF SyncInv, AckedRulesInstalled, Tells
<1>7. AskedRulesInstalled'
  <2> SUFFICES ASSUME NEW r \in late' \cup {link'}, NEW m \in machine_rules,
                      Downloading(r), r.cursor # NoCursor,
                      m.cursor = r.cursor, m.policy # REMOVE
               PROVE  \E i \in installed : Tells(i, m)
    BY <1>1 DEF AskedRulesInstalled, Tells, Downloading
  <2>1. PICK q \in late \cup {link} : Downloading(q) /\ q.cursor = r.cursor
    BY <1>4, <1>5
  <2> QED
    BY <2>1 DEF SyncInv, AskedRulesInstalled
<1>8. \A m : OnItsWay(m) => OnItsWay(m)'
  BY <1>4 DEF OnItsWay, Downloading
<1>9. SentRulesPending'
  BY <1>1, <1>5, <1>8 DEF SyncInv, SentRulesPending, Tells
<1>10. WipeSafe'
  <2>1. WipePending' => WipePending
    BY <1>1, <1>5 DEF WipePending
  <2>2. Downloading(link)' => Downloading(link) /\ link'.cursor = link.cursor
    BY <1>5 DEF Downloading
  <2> QED
    BY <1>1, <1>8, <2>1, <2>2 DEF SyncInv, WipeSafe
<1> QED
  BY <1>0, <1>6, <1>7, <1>9, <1>10 DEF SyncInv

\* Committing a batch, for the agent or for nobody, keeps the invariant.
LEMMA StoreBatchInv ==
    ASSUME SyncInv, NEW request \in late \cup {link}, StoreBatch(request)
    PROVE  SyncInv'
<1> DEFINE batch == request.rules
           Response_(cursor) ==
              [type |-> "rules", rules |-> batch,
               cursor |-> IF batch = {} THEN NoCursor ELSE cursor]
<1>0. TypeOK /\ TypeOK'
  BY StoreBatchType DEF SyncInv
<1>1. PICK cursor \in Cursors \ UsedCursors :
             /\ Respond(request, Response_(cursor))
             /\ \A m \in machine_rules' :
                  \/ m.cursor = cursor /\ \E e \in batch : Tells(e, m)
                  \/ /\ \A e \in batch : e.target # m.target
                     /\ m \in machine_rules
                  \/ /\ \A e \in batch : e.target # m.target
                     /\ m.cursor = NoCursor
                     /\ request.cursor # NoCursor
                     /\ m.policy # REMOVE
                     /\ \E n \in machine_rules : n.cursor = request.cursor /\ Tells(n, m)
  BY <1>0, StoreBatchEffect
<1>2. /\ cursor # NoCursor
      /\ \A m \in machine_rules : m.cursor # cursor
      /\ \A r \in late \cup {link} :
            Downloading(r) \/ r.type = "rules" => r.cursor # cursor
  BY FreshCursor
<1>3. installed' = installed /\ clean' = clean /\ Downloading(request)
  BY DEF StoreBatch, agentVars, Downloading
<1>4. /\ late' \subseteq late
      /\ \A r \in late' \cup {link'} : Downloading(r) => r \in late \cup {link}
      /\ \/ link = request /\ link' = Response_(cursor)
         \/ request \in late /\ link' = link
  BY <1>1 DEF Respond, Downloading
<1> HIDE DEF batch
<1>5. AckedRulesInstalled'
  <2> SUFFICES ASSUME NEW m \in machine_rules', m.cursor = NoCursor
               PROVE  \E i \in installed : Tells(i, m)
    BY <1>3 DEF AckedRulesInstalled, Tells
  <2>1. CASE m \in machine_rules
    BY <2>1 DEF SyncInv, AckedRulesInstalled
  <2>2. CASE /\ request.cursor # NoCursor
             /\ m.policy # REMOVE
             /\ \E n \in machine_rules : n.cursor = request.cursor /\ Tells(n, m)
    BY <2>2, <1>3 DEF SyncInv, AskedRulesInstalled, Tells
  <2> QED
    BY <1>1, <1>2, <2>1, <2>2
<1>6. AskedRulesInstalled'
  <2> SUFFICES ASSUME NEW r \in late' \cup {link'}, NEW m \in machine_rules',
                      Downloading(r), r.cursor # NoCursor,
                      m.cursor = r.cursor, m.policy # REMOVE
               PROVE  \E i \in installed : Tells(i, m)
    BY <1>3 DEF AskedRulesInstalled, Tells, Downloading
  <2>1. r \in late \cup {link} /\ r.cursor # cursor
    BY <1>2, <1>4
  <2>2. m \in machine_rules
    BY <1>1, <2>1
  <2> QED
    BY <2>1, <2>2 DEF SyncInv, AskedRulesInstalled
<1>7. SentRulesPending'
  <2>1. CASE link = request /\ link' = Response_(cursor)
    <3>1. /\ link'.rules = batch
          /\ link'.cursor = IF batch = {} THEN NoCursor ELSE cursor
      BY <2>1
    <3>2. ASSUME NEW m \in machine_rules', m.cursor = cursor
          PROVE  \E e \in batch : Tells(e, m)
      BY <1>1, <1>2, <3>2
    <3>3. ASSUME NEW m \in machine_rules', NEW e \in batch, e.target = m.target
          PROVE  OnItsWay(m)'
      <4>1. m.cursor = cursor
        BY <1>1, <3>3
      <4> QED
        BY <4>1, <1>2, <1>4 DEF OnItsWay, Downloading
    <3> HIDE DEF Response_
    <3> QED
      BY <3>1, <3>2, <3>3, <1>2 DEF SentRulesPending, Tells
  <2>2. CASE request \in late /\ link' = link /\ link.type = "rules"
    <3>1. ASSUME NEW m \in machine_rules', m.cursor = link.cursor, link.cursor # NoCursor
          PROVE  \E e \in link.rules : Tells(e, m)
      <4>1. m \in machine_rules
        BY <1>1, <1>2, <2>2, <3>1
      <4> QED
        BY <4>1, <3>1, <2>2 DEF SyncInv, SentRulesPending
    <3>2. ASSUME NEW m \in machine_rules', NEW e \in link.rules, e.target = m.target
          PROVE  OnItsWay(m)'
      <4>1. CASE m.cursor = cursor
        BY <4>1, <1>2, <1>4 DEF OnItsWay, Downloading
      <4>2. CASE m \in machine_rules
        BY <4>2, <2>2, <3>2, <1>4 DEF SyncInv, SentRulesPending, OnItsWay, Downloading
      <4>3. CASE \E n \in machine_rules : n.cursor = request.cursor /\ Tells(n, m)
        BY <4>3, <2>2, <3>2, <1>3 DEF SyncInv, SentRulesPending, OnItsWay, Tells
      <4> QED
        BY <1>1, <4>1, <4>2, <4>3
    <3> QED
      BY <2>2, <3>1, <3>2 DEF SyncInv, SentRulesPending, Tells
  <2> QED
    BY <1>4, <2>1, <2>2 DEF SentRulesPending
<1>8. WipeSafe'
  <2> SUFFICES ASSUME WipePending', NEW m \in machine_rules'
               PROVE  /\ OnItsWay(m)'
                      /\ Downloading(link') => link'.cursor # m.cursor
    BY DEF WipeSafe, Downloading
  <2>1. WipePending
    BY <1>3, <1>4 DEF WipePending
  <2>2. CASE m.cursor = cursor
    BY <2>2, <1>2, <1>4 DEF OnItsWay, Downloading
  <2>3. CASE m \in machine_rules
    BY <2>1, <2>3, <1>4 DEF SyncInv, WipeSafe, OnItsWay, Downloading
  <2>4. CASE \E n \in machine_rules : n.cursor = request.cursor /\ Tells(n, m)
    BY <2>1, <2>4, <1>3, <1>4 DEF SyncInv, WipeSafe, OnItsWay
  <2> QED
    BY <1>1, <2>2, <2>3, <2>4
<1> QED
  BY <1>0, <1>5, <1>6, <1>7, <1>8 DEF SyncInv

\* A preflight either leaves the machine rules alone or wipes them.
LEMMA PreflightInv ==
    ASSUME SyncInv, NEW request \in late \cup {link},
           PreflightView(request) \/ PostflightView(request)
    PROVE  SyncInv'
<1>0. TypeOK /\ TypeOK'
  BY PreflightType DEF SyncInv
<1>1. /\ installed' = installed /\ clean' = clean
      /\ machine_rules' = machine_rules \/ machine_rules' = {}
  BY DEF PreflightView, PostflightView, agentVars
<1>2. /\ late' \subseteq late
      /\ link' = link \/ link'.type \in {"preflight_response", "postflight_response"}
      /\ \A r \in late' \cup {link'} : Downloading(r) => r \in late \cup {link}
  BY DEF PreflightView, PostflightView, Respond, Downloading
<1>3. AckedRulesInstalled' /\ AskedRulesInstalled'
  BY <1>1, <1>2 DEF SyncInv, AckedRulesInstalled, AskedRulesInstalled, Tells, Downloading
<1>4. SentRulesPending'
  BY <1>1, <1>2 DEF SyncInv, SentRulesPending, OnItsWay, Tells, Downloading
<1>5. WipeSafe'
  <2> SUFFICES ASSUME WipePending', NEW m \in machine_rules'
               PROVE  /\ OnItsWay(m)'
                      /\ Downloading(link') => link'.cursor # m.cursor
    BY DEF WipeSafe, Downloading
  <2>1. WipePending
    <3>1. CASE link' = link
      BY <3>1, <1>1 DEF WipePending
    <3>2. CASE clean
      BY <3>2 DEF WipePending
    <3>3. CASE link' # link /\ ~clean
      <4>1. link'.type = "preflight_response" /\ link'.clean_sync
        BY <1>1, <3>3 DEF WipePending
      <4>2. PreflightView(request)
        BY <3>3, <4>1 DEF PostflightView, Respond
      <4>3. link' = [type |-> "preflight_response",
                     clean_sync |-> request.request_clean_sync \/ machine_rules = {}]
        BY <3>3, <4>2 DEF PreflightView, Respond
      <4>4. request.request_clean_sync \/ machine_rules = {}
        BY <4>1, <4>3, Zenon
      <4>5. machine_rules' = {}
        BY <4>2, <4>4 DEF PreflightView
      <4> QED
        BY <4>5
    <3> QED
      BY <3>1, <3>2, <3>3
  <2>2. m \in machine_rules
    BY <1>1
  <2> QED
    BY <2>1, <2>2, <1>2 DEF SyncInv, WipeSafe, OnItsWay, Downloading
<1> QED
  BY <1>0, <1>3, <1>4, <1>5 DEF SyncInv

\* Applying a batch keeps the rules it does not name, unless the database is
\* wiped, in which case no machine rule counted on them.
LEMMA ReceiveRulesInv ==
    ASSUME SyncInv, ReceiveRules
    PROVE  SyncInv'
<1>0. TypeOK'
  BY ReceiveRulesType DEF SyncInv
<1>1. /\ machine_rules' = machine_rules /\ late' = late /\ clean' = FALSE
      /\ link.type = "rules"
      /\ link' = IF link.cursor = NoCursor
                 THEN [type |-> "postflight"]
                 ELSE [type |-> "ruledownload", cursor |-> link.cursor]
  BY DEF ReceiveRules, serverVars
<1>2. ASSUME NEW m \in machine_rules, NEW i \in installed, Tells(i, m), ~clean,
             \A e \in link.rules : e.target # m.target
      PROVE  \E j \in installed' : Tells(j, m)
  <2>1. \A e \in link.rules : e.target # i.target
    BY <1>2 DEF Tells
  <2>2. i \in installed'
    BY <1>2, <2>1 DEF ReceiveRules, Applied
  <2> QED
    BY <1>2, <2>2
<1>3. ASSUME NEW m \in machine_rules, NEW e \in link.rules, Tells(e, m), m.policy # REMOVE
      PROVE  \E j \in installed' : Tells(j, m)
  <2> DEFINE new == [target |-> e.target, policy |-> e.policy,
                     custom_msg |-> e.custom_msg, version |-> e.version]
  <2>1. e.policy # REMOVE
    BY <1>3 DEF Tells
  <2>2. new \in installed'
    BY <2>1 DEF ReceiveRules, Applied
  <2>3. Tells(new, m)
    BY <1>3 DEF Tells
  <2> HIDE DEF new
  <2> QED
    BY <2>2, <2>3
<1>4. AckedRulesInstalled'
  <2> SUFFICES ASSUME NEW m \in machine_rules, m.cursor = NoCursor
               PROVE  \E j \in installed' : Tells(j, m)
    BY <1>1 DEF AckedRulesInstalled, Tells
  <2>1. ~clean
    BY DEF SyncInv, WipeSafe, WipePending, OnItsWay
  <2>2. \A e \in link.rules : e.target # m.target
    BY <1>1 DEF SyncInv, SentRulesPending, OnItsWay
  <2> QED
    BY <1>2, <2>1, <2>2 DEF SyncInv, AckedRulesInstalled
<1>5. AskedRulesInstalled'
  <2> SUFFICES ASSUME NEW r \in late \cup {link'}, NEW m \in machine_rules,
                      Downloading(r), r.cursor # NoCursor,
                      m.cursor = r.cursor, m.policy # REMOVE
               PROVE  \E j \in installed' : Tells(j, m)
    BY <1>1 DEF AskedRulesInstalled, Tells, Downloading
  <2>1. CASE r \in late
    <3>1. ~clean
      BY <2>1 DEF SyncInv, WipeSafe, WipePending, OnItsWay
    <3>2. \A e \in link.rules : e.target # m.target
      BY <1>1, <2>1 DEF SyncInv, SentRulesPending, OnItsWay
    <3> QED
      BY <1>2, <2>1, <3>1, <3>2 DEF SyncInv, AskedRulesInstalled
  <2>2. CASE r = link'
    <3>1. r.cursor = link.cursor
      <4>1. CASE link.cursor = NoCursor
        BY <1>1, <2>2, <4>1 DEF Downloading
      <4>2. CASE link.cursor # NoCursor
        <5>1. link' = [type |-> "ruledownload", cursor |-> link.cursor]
          BY <1>1, <4>2
        <5> QED
          BY <5>1, <2>2
      <4> QED
        BY <4>1, <4>2
    <3>2. \E e \in link.rules : Tells(e, m)
      BY <1>1, <3>1 DEF SyncInv, SentRulesPending
    <3> QED
      BY <1>3, <3>2
  <2> QED
    BY <2>1, <2>2
<1>6. SentRulesPending' /\ WipeSafe'
  BY <1>1 DEF SentRulesPending, WipeSafe, WipePending
<1> QED
  BY <1>0, <1>4, <1>5, <1>6 DEF SyncInv

\* The other steps: no machine rule appears, and a request is only ever taken
\* from the link to the late ones, or begins without a cursor.
LEMMA OtherInv ==
    ASSUME SyncInv, StartSync \/ ReceivePreflight \/ ReceivePostflight \/ CacheExpires
                    \/ GiveUp
    PROVE  SyncInv'
<1>0. TypeOK'
  BY OtherType DEF SyncInv
<1> USE DEF serverVars, agentVars, netVars
<1>1. machine_rules' = machine_rules /\ installed' = installed
  BY DEF StartSync, ReceivePreflight, ReceivePostflight, CacheExpires, GiveUp
<1>2. \A r \in late' \cup {link'} :
        Downloading(r) => r \in late \cup {link} \/ r.cursor = NoCursor
  BY DEF Downloading, StartSync, ReceivePreflight, ReceivePostflight, CacheExpires, GiveUp, Idle
<1>3. AckedRulesInstalled' /\ AskedRulesInstalled'
  BY <1>1, <1>2 DEF SyncInv, AckedRulesInstalled, AskedRulesInstalled, Tells, Downloading
<1>4. (link' = link /\ late' = late) \/ link'.type # "rules"
  BY DEF StartSync, ReceivePreflight, ReceivePostflight, CacheExpires, GiveUp, Idle
<1>5. SentRulesPending'
  BY <1>1, <1>4 DEF SyncInv, SentRulesPending, OnItsWay, Tells, Downloading
<1>6. WipeSafe'
  <2> SUFFICES ASSUME WipePending', NEW m \in machine_rules
               PROVE  /\ OnItsWay(m)'
                      /\ Downloading(link') => link'.cursor # m.cursor
    BY <1>1 DEF WipeSafe, Downloading
  <2>1. WipePending /\ late' = late
    BY DEF WipePending, StartSync, ReceivePreflight, ReceivePostflight, CacheExpires,
           GiveUp, Idle
  <2>2. OnItsWay(m)
    BY <2>1 DEF SyncInv, WipeSafe
  <2>3. Downloading(link') => link' = link \/ link'.cursor = NoCursor
    BY DEF Downloading, StartSync, ReceivePreflight, ReceivePostflight, CacheExpires, GiveUp, Idle
  <2> QED
    BY <2>1, <2>2, <2>3 DEF SyncInv, WipeSafe, OnItsWay, Downloading
<1> QED
  BY <1>0, <1>3, <1>5, <1>6 DEF SyncInv

\* The administrators do not touch what the agent and the server share, except
\* when the machine comes back without any machine rule.
LEMMA AdminInv ==
    ASSUME SyncInv, Admin
    PROVE  SyncInv'
<1>0. TypeOK'
  BY AdminType DEF SyncInv
<1>1. CASE UNCHANGED <<machine_rules, link, late, installed, clean>>
  BY <1>0, <1>1 DEF SyncInv, AckedRulesInstalled, AskedRulesInstalled,
                    SentRulesPending, WipeSafe, WipePending, OnItsWay, Tells,
                    Downloading
<1>2. CASE ReEnroll
  <2>1. machine_rules' = {} /\ link' = Idle
    BY <1>2 DEF ReEnroll, netVars
  <2> QED
    BY <1>0, <2>1 DEF SyncInv, AckedRulesInstalled, AskedRulesInstalled,
                      SentRulesPending, WipeSafe, Idle
<1>3. ReEnroll \/ UNCHANGED <<machine_rules, link, late, installed, clean>>
  BY DEF Admin, CreateRule, UpdateRule, DeleteRule, SetTags, serverVars, netVars, agentVars
<1> QED
  BY <1>1, <1>2, <1>3

-----------------------------------------------------------------------------
LEMMA InitInv == Init => SyncInv
<1> SUFFICES ASSUME Init PROVE SyncInv
  OBVIOUS
<1>1. LeftOvers \subseteq Installed
  BY MessageAssumption DEF LeftOvers, LeftOver, Installed, RulePolicies, BLOCKLIST
<1>2. TypeOK
  <2>1. installed = {} \/ installed = LeftOvers
    BY DEF Init
  <2>2. installed \subseteq Installed
    BY <1>1, <2>1
  <2>3. edits \in 0 .. MaxEdits /\ faults \in 0 .. MaxFaults
    BY CounterAssumption DEF Init
  <2>4. rules = {} /\ tags \in TagSets /\ machine_rules = {} /\ late = {}
    BY DEF Init
  <2>5. cache = NoCache /\ link = Idle /\ clean = FALSE
    BY DEF Init
  <2> QED
    BY <2>2, <2>3, <2>4, <2>5 DEF TypeOK
<1>3. machine_rules = {} /\ link.type = "idle"
  BY DEF Init, Idle
<1>4. AckedRulesInstalled /\ AskedRulesInstalled
  BY <1>3 DEF AckedRulesInstalled, AskedRulesInstalled
<1>5. SentRulesPending /\ WipeSafe
  BY <1>3 DEF SentRulesPending, WipeSafe
<1> QED
  BY <1>2, <1>4, <1>5 DEF SyncInv

LEMMA NextInv == SyncInv /\ [Next]_vars => SyncInv'
<1> SUFFICES ASSUME SyncInv, [Next]_vars PROVE SyncInv'
  OBVIOUS
<1>1. CASE Admin
  BY <1>1, AdminInv
<1>2. CASE \E request \in late \cup {link} : Serve(request)
  BY <1>2, PreflightInv, StatementInv, StoreBatchInv DEF Serve, RuleDownloadView
<1>3. CASE ReceiveRules
  BY <1>3, ReceiveRulesInv
<1>4. CASE StartSync \/ ReceivePreflight \/ ReceivePostflight \/ CacheExpires \/ GiveUp
  BY <1>4, OtherInv
<1>5. CASE UNCHANGED vars
  BY <1>5 DEF vars, SyncInv, TypeOK, AckedRulesInstalled, AskedRulesInstalled,
              SentRulesPending, WipeSafe, WipePending, OnItsWay, Tells, Downloading
<1> QED
  BY <1>1, <1>2, <1>3, <1>4, <1>5 DEF Next, Server, Agent, Receive

\* The inductive invariant: the row, the batch and the cursor disciplines of
\* get_next_rule_batch hold together, whatever is lost, late or re-enrolled.
THEOREM SyncInvariant == Spec => []SyncInv
BY InitInv, NextInv, PTL DEF Spec

\* All the variables keep their types: in particular a REMOVE machine rule is
\* never an acknowledged one.
THEOREM TypeCorrect == Spec => []TypeOK
<1>1. SyncInv => TypeOK
  BY DEF SyncInv
<1> QED
  BY <1>1, SyncInvariant, PTL

\* An acknowledged machine rule (no cursor) is a rule in the agent's database,
\* with the same policy and version.
THEOREM AckedRules == Spec => []AckedRulesInstalled
<1>1. SyncInv => AckedRulesInstalled
  BY DEF SyncInv
<1> QED
  BY <1>1, SyncInvariant, PTL

-----------------------------------------------------------------------------
(* The end of a sync.                                                      *)

\* The next batch of the agent is read for its request.
LEMMA NextBatchQuery ==
    ASSUME TypeOK, Next, NextBatch
    PROVE  QueryRules(link) /\ link' # link
<1>1. link.type = "cleaned" /\ link'.type = "queried" /\ link' # link
  BY DEF NextBatch
<1>2. ~Admin /\ ~CacheExpires /\ ~Agent
  BY <1>1 DEF Admin, CreateRule, UpdateRule, DeleteRule, SetTags, ReEnroll,
        CacheExpires, netVars, Agent, Receive, StartSync, ReceivePreflight, ReceiveRules,
        ReceivePostflight, GiveUp, Idle
<1>3. PICK request \in late \cup {link} : Serve(request)
  BY <1>2 DEF Next, Server
<1>4. ~ PreflightView(request) /\ ~ PostflightView(request)
  BY <1>1 DEF PreflightView, PostflightView, Respond
<1>5. ~ StoreBatch(request)
  BY <1>1 DEF StoreBatch, Respond
<1>6. ~ CleanUp(request)
  BY <1>1 DEF CleanUp, Proceed
<1>7. QueryRules(request)
  BY <1>3, <1>4, <1>5, <1>6 DEF Serve, RuleDownloadView
<1>8. request = link
  BY <1>1, <1>7 DEF QueryRules, Proceed
<1> QED
  BY <1>1, <1>7, <1>8

\* The batch is a part of the changes from the rows that are kept, and an empty
\* one means that there are none.
LEMMA NextBatchChanges ==
    ASSUME TypeOK, Next, NextBatch
    PROVE  \E dropped \in Dropped(link) :
             LET changed == ChangedRules(ExpandedRules(rules, link.tag_ids),
                                         Kept(link, dropped))
             IN /\ link'.rules \subseteq changed
                /\ link'.rules = {} => changed = {}
<1>1. QueryRules(link) /\ link' # link
  BY NextBatchQuery
<1> DEFINE changed(dropped) == ChangedRules(ExpandedRules(rules, link.tag_ids),
                                            Kept(link, dropped))
<1>2. PICK dropped \in Dropped(link), batch \in SUBSET Change :
        /\ batch \subseteq changed(dropped)
        /\ batch = {} => changed(dropped) = {}
        /\ Proceed(link, [type |-> "queried", cursor |-> link.cursor,
                          dropped |-> dropped, rules |-> batch])
  BY <1>1, QueryEffect
<1> HIDE DEF changed
<1>3. link' = [type |-> "queried", cursor |-> link.cursor,
               dropped |-> dropped, rules |-> batch]
  BY <1>1, <1>2 DEF Proceed
<1>4. link'.rules = batch
  BY <1>3
<1> QED
  BY <1>2, <1>4 DEF changed

\* When the server has nothing more to send, every expanded rule is a machine
\* rule, which is acknowledged, hence a rule of the agent, or has come after the
\* clean up.
LEMMA LastBatchInstalled ==
    ASSUME SyncInv, Next, LastBatch, NEW e \in ExpandedRules(rules, link.tag_ids)
    PROVE  Overtaken(e) \/ \E i \in Database : Tells(i, e)
<1>0. TypeOK /\ NextBatch /\ link'.rules = {} /\ Downloading(link)
  BY DEF SyncInv, LastBatch, NextBatch, Downloading
<1>1. PICK dropped \in Dropped(link) :
        ChangedRules(ExpandedRules(rules, link.tag_ids), Kept(link, dropped)) = {}
  BY <1>0, NextBatchChanges
<1>2. e.policy \in RulePolicies
  BY ExpandedType DEF SyncInv, TypeOK
<1>3. PICK m \in Kept(link, dropped) : /\ m.target = e.target
                                       /\ m.policy = e.policy
                                       /\ m.version = e.version
  BY <1>1 DEF ChangedRules
<1>4. m.policy # REMOVE /\ Tells(m, e)
  BY <1>2, <1>3 DEF RulePolicies, REMOVE, ALLOWLIST, BLOCKLIST, SILENT_BLOCKLIST,
                    ALLOWLIST_COMPILER, Tells
<1>5. CASE m \in machine_rules /\ m.cursor = NoCursor
  <2>1. PICK i \in installed : Tells(i, m)
    BY <1>5 DEF SyncInv, AckedRulesInstalled
  <2>2. ~ clean
    BY <1>5 DEF SyncInv, WipeSafe, WipePending, OnItsWay
  <2> QED
    BY <1>4, <2>1, <2>2 DEF Database, Tells
<1>6. CASE m \in machine_rules \ dropped /\ m.cursor \notin {NoCursor, link.cursor}
  <2>1. m \in Unacknowledged(link.cursor)
    BY <1>4, <1>6 DEF Unacknowledged
  <2>2. m \notin link.seen
    BY <1>6, <2>1 DEF Dropped
  <2> QED
    BY <1>4, <2>1, <2>2 DEF Overtaken
<1>7. ASSUME NEW n \in machine_rules, link.cursor # NoCursor, n.cursor = link.cursor,
             Tells(n, m)
      PROVE  \E i \in Database : Tells(i, e)
  <2>1. n.policy # REMOVE
    BY <1>4, <1>7 DEF Tells
  <2>2. PICK i \in installed : Tells(i, n)
    BY <1>0, <1>7, <2>1 DEF SyncInv, AskedRulesInstalled
  <2>3. ~ clean
    BY <1>0, <1>7 DEF SyncInv, WipeSafe, WipePending
  <2> QED
    BY <1>4, <1>7, <2>2, <2>3 DEF Database, Tells
<1>8. \/ m \in machine_rules /\ m.cursor = NoCursor
      \/ m \in machine_rules \ dropped /\ m.cursor \notin {NoCursor, link.cursor}
      \/ \E n \in machine_rules : link.cursor # NoCursor /\ n.cursor = link.cursor /\ Tells(n, m)
  BY <1>0, KeptRows DEF TypeOK
<1> QED
  BY <1>5, <1>6, <1>7, <1>8

\* The server ends a sync only when the agent has every rule in scope, in its
\* current version, but for those that another request of the machine, given up
\* by the agent, has told between the clean up and the query
\* (santa/models.py, get_next_rule_batch).
THEOREM DoneInstalledOrOvertaken == Spec => DoneMeansInstalledOrOvertaken
<1>1. SyncInv /\ [Next]_vars =>
        [LastBatch =>
            \A e \in Expected(link.tag_ids) :
                Overtaken(e) \/ \E i \in Database : Tells(i, e)]_vars
  BY LastBatchInstalled DEF Expected
<1> QED
  BY <1>1, SyncInvariant, PTL DEF Spec, DoneMeansInstalledOrOvertaken

\* Alone, a rule download has seen all that is not acknowledged.
SeenAll == link.type = "cleaned" => Unacknowledged(link.cursor) \subseteq link.seen

LEMMA SeenAllNext ==
    ASSUME TypeOK, SeenAll, late = {}, [Next]_vars
    PROVE  SeenAll'
<1> USE DEF serverVars, agentVars, adminVars, netVars
<1> SUFFICES ASSUME link'.type = "cleaned"
             PROVE  SeenAll'
  BY DEF SeenAll
<1>1. CASE UNCHANGED <<machine_rules, link>>
  BY <1>1 DEF SeenAll, Unacknowledged
<1>2. CASE Admin \/ CacheExpires \/ UNCHANGED vars
  <2>1. UNCHANGED <<machine_rules, link>>
    BY <1>2 DEF Admin, CreateRule, UpdateRule, DeleteRule, SetTags, ReEnroll, CacheExpires,
                vars, Idle
  <2> QED
    BY <2>1, <1>1
<1>3. CASE Agent
  BY <1>3 DEF Agent, Receive, StartSync, ReceivePreflight, ReceiveRules, ReceivePostflight,
              GiveUp, Idle
<1>4. CASE Serve(link)
  <2>1. CleanUp(link)
    <3>1. ~ PreflightView(link) /\ ~ PostflightView(link) /\ ~ StoreBatch(link)
      BY DEF PreflightView, PostflightView, StoreBatch, Respond
    <3>2. ~ QueryRules(link)
      BY DEF QueryRules, Proceed
    <3> QED
      BY <1>4, <3>1, <3>2 DEF Serve, RuleDownloadView
  <2>2. /\ machine_rules' = machine_rules
        /\ link' = [type |-> "cleaned", cursor |-> link.cursor,
                    tag_ids |-> CachedTags, seen |-> Unacknowledged(link.cursor)]
    BY <2>1 DEF CleanUp, Proceed
  <2> DEFINE left == Unacknowledged(link.cursor)
             reached == link'
  <2>3. reached.cursor = link.cursor /\ reached.seen = left
    BY <2>2
  <2>4. SeenAll' <=> (reached.type = "cleaned" =>
                        Unacknowledged(link.cursor)' \subseteq reached.seen)
    BY <2>3 DEF SeenAll, Unacknowledged
  <2> QED
    BY <2>2, <2>3, <2>4 DEF Unacknowledged
<1> QED
  BY <1>2, <1>3, <1>4 DEF Next, Server

\* As long as no abandoned request is processed, the server ends a sync only when
\* the agent has every rule in scope, in its current version
\* (santa/models.py, get_next_rule_batch).
THEOREM DoneInstalled == Spec /\ [](late = {}) => DoneMeansInstalled
<1>1. Init => SeenAll
  BY DEF Init, SeenAll, Idle
<1>2. TypeOK /\ SeenAll /\ late = {} /\ [Next]_vars => SeenAll'
  BY SeenAllNext
<1>3. SeenAll /\ LastBatch => \A e : ~ Overtaken(e)
  BY DEF SeenAll, LastBatch, NextBatch, Overtaken
<1>4. SyncInv /\ SeenAll /\ [Next]_vars =>
        [LastBatch =>
            \A e \in Expected(link.tag_ids) : \E i \in Database : Tells(i, e)]_vars
  BY <1>3, LastBatchInstalled DEF Expected
<1> QED
  BY <1>1, <1>2, <1>4, SyncInvariant, TypeCorrect, PTL DEF Spec, DoneMeansInstalled

-----------------------------------------------------------------------------
(* A sync without lost requests.                                           *)

\* A batch has one change for each target.
LEMMA BatchTargets ==
    ASSUME NEW changed, NEW batch \in Batches(changed), NEW e \in batch, NEW f \in batch,
           e.target = f.target
    PROVE  e = f
BY DEF Batches, LastOfEach

\* The expanded rules are not left-overs: their versions start at 1.
LEMMA ExpandedVersion ==
    ASSUME rules \subseteq Rule, NEW tag_ids, NEW e \in ExpandedRules(rules, tag_ids)
    PROVE  e.version \in Nat \ {0}
BY BoundAssumption DEF ExpandedRules, FilteredRules, Rule, Versions

LEMMA Removal ==
    /\ REMOVE \notin RulePolicies
    /\ \A m \in MachineRule : m.policy = REMOVE => m.cursor # NoCursor
<1>1. REMOVE \notin RulePolicies
  BY DEF RulePolicies, REMOVE, ALLOWLIST, BLOCKLIST, SILENT_BLOCKLIST, ALLOWLIST_COMPILER
<1> QED
  BY <1>1, CursorAssumption DEF MachineRule

\* A row that is not dropped is kept, unless the acknowledgment of the batch of
\* the cursor deletes it.
LEMMA KeptRow ==
    ASSUME machine_rules \subseteq MachineRule, NEW request, NEW dropped,
           NEW m \in machine_rules \ dropped,
           ~ (m.policy = REMOVE /\ m.cursor = request.cursor)
    PROVE  \E n \in Kept(request, dropped) : n.target = m.target
<1> DEFINE cursor == request.cursor
           rows == machine_rules \ dropped
<1>1. CASE cursor = NoCursor
  BY <1>1 DEF Kept, Acknowledge
<1>2. CASE cursor # NoCursor /\ m.cursor # cursor
  BY <1>2 DEF Kept, Acknowledge
<1>3. CASE cursor # NoCursor /\ m.cursor = cursor
  <2> DEFINE n == [m EXCEPT !.cursor = NoCursor]
  <2>1. n \in Acknowledge(rows, cursor)
    BY <1>3 DEF Acknowledge
  <2>2. n.target = m.target
    BY DEF MachineRule
  <2> HIDE DEF n
  <2> QED
    BY <2>1, <2>2 DEF Kept
<1> QED
  BY <1>1, <1>2, <1>3

\* No target loses its row when a batch is stored, and those of the batch have
\* one.
LEMMA StoredTargets ==
    ASSUME NEW rows, NEW batch, NEW cursor
    PROVE  /\ \A e \in batch : \E m \in Store(rows, batch, cursor) : m.target = e.target
           /\ \A n \in rows : \E m \in Store(rows, batch, cursor) : m.target = n.target
<1>1. ASSUME NEW e \in batch PROVE \E m \in Store(rows, batch, cursor) : m.target = e.target
  <2> DEFINE m == [target |-> e.target, policy |-> e.policy, version |-> e.version,
                   cursor |-> cursor]
  <2>1. m \in Store(rows, batch, cursor) /\ m.target = e.target
    BY DEF Store
  <2> HIDE DEF m
  <2> QED
    BY <2>1
<1>2. ASSUME NEW n \in rows, \A e \in batch : e.target # n.target
      PROVE  n \in Store(rows, batch, cursor)
  BY <1>2 DEF Store
<1> QED
  BY <1>1, <1>2

\* The clean up and the query change no row; the batch has one rule for each
\* target.
LEMMA FaultlessStatement ==
    ASSUME SyncInv, FaultlessInv, CleanUp(link) \/ QueryRules(link)
    PROVE  FaultlessInv'
<1> USE DEF serverVars, agentVars
<1>1. /\ machine_rules' = machine_rules /\ installed' = installed /\ clean' = clean
      /\ late = {} /\ Downloading(link) /\ TypeOK
  BY DEF CleanUp, QueryRules, FaultlessInv, BatchUnderWay, Downloading, SyncInv
<1>2. CASE CleanUp(link)
  <2>1. link' = [type |-> "cleaned", cursor |-> link.cursor,
                 tag_ids |-> CachedTags, seen |-> Unacknowledged(link.cursor)] /\ late' = {}
    BY <1>1, <1>2 DEF CleanUp, Proceed
  <2>2. link'.type = "cleaned" /\ link'.cursor = link.cursor
    BY <2>1
  <2>3. BatchUnderWay'
    BY <1>1, <2>1, <2>2 DEF FaultlessInv, BatchUnderWay, Downloading
  <2>4. BatchStored'
    BY <2>2 DEF BatchStored
  <2>5. RemovedTold'
    BY <1>1, <2>2 DEF FaultlessInv, RemovedTold, Database, Downloading
  <2>6. RulesKnown'
    BY <1>1, <2>2 DEF FaultlessInv, RulesKnown, WipePending, Known, Downloading
  <2> QED
    BY <2>3, <2>4, <2>5, <2>6 DEF FaultlessInv
<1>3. CASE QueryRules(link)
  <2> DEFINE changed(dropped) == ChangedRules(ExpandedRules(rules, link.tag_ids),
                                              Kept(link, dropped))
  <2>1. PICK dropped \in Dropped(link), batch \in SUBSET Change :
          /\ batch \in Batches(changed(dropped))
          /\ batch \subseteq changed(dropped)
          /\ Proceed(link, [type |-> "queried", cursor |-> link.cursor,
                            dropped |-> dropped, rules |-> batch])
    BY <1>1, <1>3, QueryEffect
  <2>2. link' = [type |-> "queried", cursor |-> link.cursor,
                 dropped |-> dropped, rules |-> batch] /\ late' = {}
    BY <1>1, <2>1 DEF Proceed
  <2>3. /\ link'.type = "queried" /\ link'.cursor = link.cursor
        /\ link'.dropped = dropped /\ link'.rules = batch
    BY <2>2
  <2>4. dropped \subseteq Unacknowledged(link.cursor)
    BY <2>1 DEF Dropped
  <2>5. BatchUnderWay'
    BY <1>1, <2>2, <2>3, <2>4 DEF FaultlessInv, BatchUnderWay, Downloading, Unacknowledged
  <2>6. \A e, f \in batch : f.target = e.target => f = e
    <3> HIDE DEF changed
    <3> QED
      BY <2>1, BatchTargets
  <2>7. ASSUME NEW e \in batch, e.policy # REMOVE PROVE e.version > 0
    <3>1. e \in ExpandedRules(rules, link.tag_ids)
      BY <2>1, <2>7 DEF ChangedRules
    <3>2. e.version \in Nat \ {0}
      BY <3>1, <1>1, ExpandedVersion DEF TypeOK
    <3> QED
      BY <3>2
  <2>8. BatchStored'
    BY <2>3, <2>6, <2>7 DEF BatchStored
  <2>9. RemovedTold'
    BY <1>1, <2>3 DEF FaultlessInv, RemovedTold, Database, Downloading
  <2>10. RulesKnown'
    BY <1>1, <2>3 DEF FaultlessInv, RulesKnown, WipePending, Known, Downloading
  <2> QED
    BY <2>5, <2>8, <2>9, <2>10 DEF FaultlessInv
<1> QED
  BY <1>2, <1>3

LEMMA FaultlessStore ==
    ASSUME SyncInv, FaultlessInv, StoreBatch(link)
    PROVE  FaultlessInv'
<1> DEFINE c == link.cursor
           batch == link.rules
           rows == Kept(link, link.dropped)
<1>1. PICK cursor \in Cursors \ UsedCursors :
        /\ machine_rules' = Store(rows, batch, cursor)
        /\ Respond(link,
             [type |-> "rules", rules |-> batch,
              cursor |-> IF batch = {} THEN NoCursor ELSE cursor])
  BY DEF StoreBatch
<1>2. /\ late = {} /\ link.type = "queried" /\ Downloading(link)
      /\ clean' = clean /\ installed' = installed
      /\ machine_rules \subseteq MachineRule
  BY DEF StoreBatch, SyncInv, TypeOK, FaultlessInv, BatchUnderWay, agentVars, Downloading
<1>3. /\ late' = {}
      /\ link' = [type |-> "rules", rules |-> batch,
                  cursor |-> IF batch = {} THEN NoCursor ELSE cursor]
  BY <1>1, <1>2 DEF Respond
<1>4. /\ link'.type = "rules" /\ link'.rules = batch
      /\ batch # {} => link'.cursor = cursor
  BY <1>3
<1>5. \A m \in machine_rules : m.cursor \in {NoCursor, c} /\ m \notin link.dropped
  BY <1>2 DEF FaultlessInv, BatchUnderWay
<1>6. ASSUME NEW m \in rows PROVE m.cursor = NoCursor /\ m.policy # REMOVE
  <2>1. CASE m \in machine_rules /\ (c # NoCursor => m.cursor # c)
    BY <2>1, <1>2, <1>5, Removal
  <2>2. CASE m.cursor = NoCursor /\ m.policy # REMOVE
    BY <2>2
  <2> QED
    BY <2>1, <2>2, <1>2, KeptRows
<1>7. ASSUME NEW m \in machine_rules'
      PROVE  \/ m.cursor = NoCursor /\ m.policy # REMOVE
             \/ m.cursor = cursor /\ \E e \in batch : Tells(e, m)
  <2> HIDE DEF rows
  <2> QED
    BY <1>1, <1>6, <1>7, StoredRows
<1> HIDE DEF rows, batch
<1>8. BatchUnderWay'
  BY <1>2, <1>3, <1>4, <1>7 DEF FaultlessInv, BatchUnderWay, Downloading
<1>9. BatchStored'
  <2>1. \A e \in batch : \E m \in machine_rules' : m.target = e.target
    BY <1>1, StoredTargets
  <2>2. \A e \in batch : /\ \A f \in batch : f.target = e.target => f = e
                         /\ e.policy # REMOVE => e.version > 0
    BY <1>2 DEF batch, FaultlessInv, BatchStored
  <2> QED
    BY <2>1, <2>2, <1>4 DEF BatchStored
<1>10. RemovedTold'
  BY <1>4, <1>7 DEF RemovedTold, Tells, Downloading
<1>11. RulesKnown'
  <2>1. CASE clean
    BY <2>1, <1>2 DEF RulesKnown, WipePending
  <2>2. CASE ~ clean
    <3>1. \A i \in installed : Known(i)
      BY <2>2, <1>2 DEF FaultlessInv, RulesKnown, WipePending
    <3>2. ASSUME NEW i \in installed
          PROVE  \E n \in machine_rules' : n.target = i.target
      <4>1. PICK m \in machine_rules : m.target = i.target
        BY <3>1 DEF Known
      <4>2. m.policy # REMOVE
        BY <2>2, <4>1, <1>2 DEF FaultlessInv, RemovedTold, Database
      <4>3. \E n \in rows : n.target = i.target
        BY <4>1, <4>2, <1>2, <1>5, KeptRow DEF rows
      <4> QED
        BY <4>3, <1>1, StoredTargets
    <3> QED
      BY <3>1, <3>2, <1>2 DEF RulesKnown, Known
  <2> QED
    BY <2>1, <2>2
<1> QED
  BY <1>8, <1>9, <1>10, <1>11 DEF FaultlessInv

LEMMA FaultlessReceive ==
    ASSUME SyncInv, FaultlessInv, ReceiveRules
    PROVE  FaultlessInv'
<1>1. /\ machine_rules' = machine_rules /\ late' = late /\ clean' = FALSE
      /\ link.type = "rules"
      /\ link' = IF link.cursor = NoCursor
                 THEN [type |-> "postflight"]
                 ELSE [type |-> "ruledownload", cursor |-> link.cursor]
      /\ machine_rules \subseteq MachineRule
  BY DEF ReceiveRules, serverVars, SyncInv, TypeOK
<1>2. ASSUME NEW i \in installed'
      PROVE  \/ i \in installed /\ ~ clean /\ \A e \in link.rules : e.target # i.target
             \/ \E e \in link.rules : /\ e.policy # REMOVE
                                      /\ i.target = e.target /\ i.version = e.version
  BY <1>2 DEF ReceiveRules, Applied
<1>3. BatchUnderWay'
  BY <1>1 DEF FaultlessInv, BatchUnderWay, Downloading
<1>4. BatchStored'
  BY <1>1 DEF BatchStored
<1>5. RemovedTold'
  <2> SUFFICES ASSUME NEW m \in machine_rules, m.policy = REMOVE,
                      NEW i \in installed', i.target = m.target
               PROVE  FALSE
    BY <1>1 DEF RemovedTold, Database, Downloading
  <2>1. PICK e \in link.rules : e.policy = REMOVE /\ e.target = m.target
    BY <1>1 DEF FaultlessInv, RemovedTold
  <2>2. \A f \in link.rules : f.target = e.target => f = e
    BY <1>1 DEF FaultlessInv, BatchStored
  <2> QED
    BY <2>1, <2>2, <1>2
<1>6. RulesKnown'
  <2> SUFFICES ASSUME NEW i \in installed' PROVE Known(i)
    BY <1>1 DEF RulesKnown, Known
  <2>1. CASE i \in installed /\ ~ clean
    BY <2>1, <1>1 DEF FaultlessInv, RulesKnown, WipePending
  <2>2. ASSUME NEW e \in link.rules, e.policy # REMOVE, i.target = e.target,
               i.version = e.version
        PROVE  Known(i)
    <3>1. i.version > 0 /\ \E m \in machine_rules : m.target = i.target
      BY <2>2, <1>1 DEF FaultlessInv, BatchStored
    <3> QED
      BY <3>1 DEF Known, LeftOvers, LeftOver
  <2> QED
    BY <2>1, <2>2, <1>2
<1> QED
  BY <1>3, <1>4, <1>5, <1>6 DEF FaultlessInv

\* The other messages: all the rows are acknowledged.
LEMMA FaultlessMessage ==
    ASSUME SyncInv, FaultlessInv,
           PreflightView(link) \/ PostflightView(link) \/ StartSync \/ ReceivePreflight
               \/ ReceivePostflight
    PROVE  FaultlessInv'
<1> USE DEF serverVars, agentVars, adminVars
<1>1. /\ late = {} /\ ~ clean /\ \A m \in machine_rules : m.cursor = NoCursor
      /\ machine_rules \subseteq MachineRule
      /\ ~ Downloading(link) /\ link.type # "rules"
  BY DEF PreflightView, PostflightView, StartSync, ReceivePreflight, ReceivePostflight,
         FaultlessInv, BatchUnderWay, SyncInv, TypeOK, Idle, Downloading
<1>2. /\ late' = {} /\ installed' = installed
      /\ machine_rules' = machine_rules \/ machine_rules' = {}
      /\ link'.type \in {"preflight", "preflight_response", "postflight_response",
                         "ruledownload", "idle"}
      /\ clean' => link'.type = "ruledownload"
  BY <1>1 DEF PreflightView, PostflightView, StartSync, ReceivePreflight, ReceivePostflight,
              Respond, Idle
<1>3. BatchUnderWay' /\ BatchStored'
  BY <1>1, <1>2 DEF BatchUnderWay, BatchStored, Downloading
<1>4. RemovedTold'
  BY <1>1, <1>2, Removal DEF RemovedTold
<1>5. RulesKnown'
  <2>1. CASE PreflightView(link)
    <3> DEFINE asked == link.request_clean_sync \/ machine_rules = {}
    <3>1. link' = [type |-> "preflight_response", clean_sync |-> asked]
      BY <2>1, <1>1 DEF PreflightView, Respond
    <3>2. link'.type = "preflight_response" /\ (link'.clean_sync <=> asked)
      <4> HIDE DEF asked
      <4> QED
        BY <3>1
    <3>3. CASE asked
      BY <3>2, <3>3 DEF RulesKnown, WipePending
    <3>4. CASE ~ asked
      <4>1. machine_rules # {} /\ machine_rules' = machine_rules
        BY <2>1, <3>4 DEF PreflightView
      <4>2. \A i \in installed : Known(i)
        BY <2>1, <4>1, <1>1 DEF PreflightView, FaultlessInv, RulesKnown, WipePending
      <4> QED
        BY <4>1, <4>2, <1>2 DEF RulesKnown, Known
    <3> QED
      BY <3>3, <3>4
  <2>2. CASE StartSync
    BY <2>2, <1>1 DEF StartSync, FaultlessInv, RulesKnown, WipePending, Known, Idle
  <2>3. CASE ReceivePreflight
    BY <2>3, <1>1 DEF ReceivePreflight, FaultlessInv, RulesKnown, WipePending, Known
  <2>4. CASE PostflightView(link) \/ ReceivePostflight
    BY <2>4, <1>1 DEF PostflightView, ReceivePostflight, FaultlessInv, RulesKnown, WipePending,
                      Known
  <2> QED
    BY <2>1, <2>2, <2>3, <2>4
<1> QED
  BY <1>3, <1>4, <1>5 DEF FaultlessInv

LEMMA FaultlessNext ==
    ASSUME SyncInv, FaultlessInv, [Next]_vars, faults' = 0
    PROVE  FaultlessInv'
<1> USE DEF serverVars, agentVars, adminVars, netVars
<1>1. CASE UNCHANGED <<machine_rules, link, late, installed, clean>>
  BY <1>1 DEF FaultlessInv, BatchUnderWay, BatchStored, RemovedTold, RulesKnown, WipePending,
              Known, Database, Downloading
<1>2. CASE ReEnroll
  <2>1. ~ clean /\ link = Idle /\ late = {}
    BY <1>2 DEF ReEnroll, FaultlessInv, BatchUnderWay, Idle, Downloading
  <2>2. machine_rules' = {} /\ link' = Idle /\ late' = {} /\ clean' = clean
    BY <1>2, <2>1 DEF ReEnroll
  <2> QED
    BY <2>1, <2>2 DEF FaultlessInv, BatchUnderWay, BatchStored, RemovedTold, RulesKnown, Idle,
                    Downloading
<1>3. CASE Admin
  <2>1. ReEnroll \/ UNCHANGED <<machine_rules, link, late, installed, clean>>
    BY <1>3 DEF Admin, CreateRule, UpdateRule, DeleteRule, SetTags
  <2> QED
    BY <2>1, <1>1, <1>2
<1>4. ASSUME NEW request \in late \cup {link}, Serve(request) PROVE FaultlessInv'
  <2>1. request = link
    BY <1>4 DEF FaultlessInv, BatchUnderWay, Downloading
  <2> QED
    BY <1>4, <2>1, FaultlessStatement, FaultlessStore, FaultlessMessage
       DEF Serve, RuleDownloadView
<1>5. CASE CacheExpires \/ UNCHANGED vars
  BY <1>5, <1>1 DEF CacheExpires, vars
<1>6. CASE GiveUp
  BY <1>6 DEF GiveUp, SyncInv, TypeOK
<1>7. CASE StartSync \/ Receive
  BY <1>7, FaultlessReceive, FaultlessMessage DEF Receive
<1> QED
  BY <1>3, <1>4, <1>5, <1>6, <1>7 DEF Next, Server, Agent

\* When there is nothing more to send, a rule of the agent is one of the
\* configuration.
LEMMA LastBatchKnown ==
    ASSUME SyncInv, FaultlessInv, Next, LastBatch, NEW i \in Database
    PROVE  /\ i \notin LeftOvers
           /\ \E e \in ExpandedRules(rules, link.tag_ids) : i.target = e.target
<1>0. TypeOK /\ NextBatch /\ link'.rules = {} /\ Downloading(link) /\ link.type = "cleaned"
  BY DEF SyncInv, LastBatch, NextBatch, Downloading
<1>1. PICK dropped \in Dropped(link) :
        ChangedRules(ExpandedRules(rules, link.tag_ids), Kept(link, dropped)) = {}
  BY <1>0, NextBatchChanges
<1>2. ~ clean /\ i \in installed
  BY DEF Database
<1>3. Known(i)
  BY <1>0, <1>2 DEF FaultlessInv, RulesKnown, WipePending
<1>4. PICK m \in machine_rules : m.target = i.target
  BY <1>3 DEF Known
<1>5. m.cursor \in {NoCursor, link.cursor} /\ m.policy # REMOVE
  BY <1>0, <1>4 DEF FaultlessInv, BatchUnderWay, RemovedTold
<1>6. m \notin dropped
  BY <1>1, <1>5 DEF Dropped, Unacknowledged
<1>7. PICK n \in Kept(link, dropped) : n.target = i.target
  BY <1>0, <1>4, <1>5, <1>6, KeptRow DEF TypeOK
<1>8. \E e \in ExpandedRules(rules, link.tag_ids) : e.target = n.target
  <2> DEFINE expanded == ExpandedRules(rules, link.tag_ids)
             rows == Kept(link, dropped)
             gone == {r \in rows : \A e \in expanded : e.target # r.target}
             Told(r) == [target |-> r.target, policy |-> REMOVE,
                         custom_msg |-> EmptyMessage, version |-> 1, origin |-> r.target]
  <2>1. {Told(r) : r \in gone} = {}
    BY <1>1 DEF ChangedRules
  <2> HIDE DEF Told
  <2>2. n \notin gone
    BY <2>1
  <2> QED
    BY <2>2, <1>7
<1> QED
  BY <1>3, <1>7, <1>8 DEF Known

LEMMA FaultlessInvariant == Spec /\ [](faults = 0) => []FaultlessInv
<1>1. Init => FaultlessInv
  BY DEF Init, FaultlessInv, BatchUnderWay, BatchStored, RemovedTold, RulesKnown, Idle,
         Downloading
<1>2. SyncInv /\ FaultlessInv /\ [Next]_vars /\ (faults = 0)' => FaultlessInv'
  BY FaultlessNext
<1> QED
  BY <1>1, <1>2, SyncInvariant, PTL DEF Spec

\* As long as no request has been given up, the server ends a sync only when
\* the agent has none of the rules that were deleted or left the scope of the
\* machine (santa/models.py, get_next_rule_batch).
THEOREM DoneRemoved == Spec /\ [](faults = 0) => DoneMeansRemoved
<1>1. SyncInv /\ FaultlessInv /\ [Next]_vars =>
        [LastBatch =>
            \A i \in Database \ LeftOvers :
                \E e \in Expected(link.tag_ids) : i.target = e.target]_vars
  BY LastBatchKnown DEF Expected
<1> QED
  BY <1>1, SyncInvariant, FaultlessInvariant, PTL DEF Spec, DoneMeansRemoved

\* As long as no request has been given up, nothing is left of the previous
\* configuration of the machine when a sync ends: a machine without machine
\* rules is asked for a clean sync (views of the preflight).
THEOREM DoneErased == Spec /\ [](faults = 0) => DoneMeansErased
<1>1. SyncInv /\ FaultlessInv /\ [Next]_vars =>
        [LastBatch => Database \cap LeftOvers = {}]_vars
  BY LastBatchKnown
<1> QED
  BY <1>1, SyncInvariant, FaultlessInvariant, PTL DEF Spec, DoneMeansErased

-----------------------------------------------------------------------------
(* A sync during which nothing changes comes to its end.                   *)

\* The agent gets rules only as the answer of the view to its request.
LEMMA RulesAnswer ==
    ASSUME Next, link.type = "queried", link'.type = "rules"
    PROVE  StoreBatch(link) /\ link' # link
<1>1. link' # link
  OBVIOUS
<1>2. ~Admin /\ ~CacheExpires /\ ~Agent
  BY <1>1 DEF Admin, CreateRule, UpdateRule, DeleteRule, SetTags, ReEnroll,
        CacheExpires, netVars, Agent, Receive, StartSync, ReceivePreflight, ReceiveRules,
        ReceivePostflight, GiveUp, Idle
<1>3. PICK request \in late \cup {link} : Serve(request)
  BY <1>2 DEF Next, Server
<1>4. ~ PreflightView(request) /\ ~ PostflightView(request)
  BY <1>1 DEF PreflightView, PostflightView, Respond
<1>5. ~ CleanUp(request) /\ ~ QueryRules(request)
  BY <1>1 DEF CleanUp, QueryRules, Proceed
<1>6. StoreBatch(request)
  BY <1>3, <1>4, <1>5 DEF Serve, RuleDownloadView
<1>7. request = link
  BY <1>1, <1>6 DEF StoreBatch, Respond
<1> QED
  BY <1>1, <1>6, <1>7

\* Without two rules about it, a target has one expanded rule.
LEMMA OneExpanded ==
    ASSUME OneRuleEach, NEW tag_ids, NEW e \in ExpandedRules(rules, tag_ids),
           NEW f \in ExpandedRules(rules, tag_ids), e.target = f.target
    PROVE  e = f
<1>1. PICK r \in rules : \E t \in Expansion(r.target) :
        e = [target |-> t, policy |-> r.policy, custom_msg |-> r.custom_msg,
             version |-> r.version, origin |-> r.target]
  BY DEF ExpandedRules, FilteredRules
<1>2. PICK q \in rules : \E t \in Expansion(q.target) :
        f = [target |-> t, policy |-> q.policy, custom_msg |-> q.custom_msg,
             version |-> q.version, origin |-> q.target]
  BY DEF ExpandedRules, FilteredRules
<1>3. e.target \in Expansion(r.target) /\ f.target \in Expansion(q.target)
  BY <1>1, <1>2
<1>4. r = q
  BY <1>3 DEF OneRuleEach
<1> QED
  BY <1>1, <1>2, <1>4

\* The rows once a batch is acknowledged: those of the targets it does not
\* change, and an acknowledged one for each of its rules that is not a removal.
RowsAfter(rows, batch, m) ==
    \/ m \in rows /\ \A e \in batch : e.target # m.target
    \/ \E e \in batch : /\ e.policy # REMOVE
                        /\ m = [target |-> e.target, policy |-> e.policy,
                                version |-> e.version, cursor |-> NoCursor]

\* Once a batch is acknowledged, what is left to send is what the batch left.
LEMMA ChangedAfter ==
    ASSUME NEW expanded, NEW rows, NEW after, NEW batch,
           batch \subseteq ChangedRules(expanded, rows),
           \A e, f \in expanded : e.target = f.target => e = f,
           \A e \in expanded : e.policy # REMOVE,
           \A m : m \in after <=> RowsAfter(rows, batch, m)
    PROVE  ChangedRules(expanded, after) = ChangedRules(expanded, rows) \ batch
<1> DEFINE Removed(t) == [target |-> t, policy |-> REMOVE, custom_msg |-> EmptyMessage,
                          version |-> 1, origin |-> t]
           Same(e, m) == m.target = e.target /\ m.policy = e.policy /\ m.version = e.version
<1>1. \A set, x : x \in ChangedRules(expanded, set) <=>
        \/ x \in expanded /\ \A m \in set : ~ Same(x, m)
        \/ \E m \in set : x = Removed(m.target) /\ \A e \in expanded : e.target # m.target
  BY DEF ChangedRules
<1>2. \A t : Removed(t).target = t /\ Removed(t).policy = REMOVE
  OBVIOUS
<1> HIDE DEF Removed
<1>3. ASSUME NEW e \in batch
      PROVE  \/ e \in expanded
             \/ e = Removed(e.target) /\ \A f \in expanded : f.target # e.target
  <2>1. e \in ChangedRules(expanded, rows)
    BY <1>3
  <2> QED
    BY <2>1, <1>1, <1>2
<1>4. ASSUME NEW e \in batch, e.policy # REMOVE
      PROVE  e \in expanded /\ \E m \in after : Same(e, m)
  <2> DEFINE m == [target |-> e.target, policy |-> e.policy, version |-> e.version,
                   cursor |-> NoCursor]
  <2>1. m \in after
    BY <1>4 DEF RowsAfter
  <2>2. Same(e, m)
    OBVIOUS
  <2> HIDE DEF m
  <2> QED
    BY <2>1, <2>2, <1>2, <1>3, <1>4
<1>5. ASSUME NEW x \in ChangedRules(expanded, after)
      PROVE  x \in ChangedRules(expanded, rows) /\ x \notin batch
  <2>1. CASE x \in expanded /\ \A m \in after : ~ Same(x, m)
    <3>1. x \notin batch
      BY <2>1, <1>4
    <3>2. \A e \in batch : e.target # x.target
      BY <2>1, <3>1, <1>3
    <3>3. \A m \in rows : ~ Same(x, m)
      BY <2>1, <3>2 DEF RowsAfter
    <3> QED
      BY <2>1, <3>1, <3>3, <1>1
  <2>2. ASSUME NEW m \in after, x = Removed(m.target),
               \A e \in expanded : e.target # m.target
        PROVE  x \in ChangedRules(expanded, rows) /\ x \notin batch
    <3>1. m \in rows /\ \A e \in batch : e.target # m.target
      <4>1. ASSUME NEW e \in batch, e.policy # REMOVE,
                   m = [target |-> e.target, policy |-> e.policy,
                        version |-> e.version, cursor |-> NoCursor]
            PROVE  FALSE
        <5>1. m.target = e.target
          BY <4>1
        <5> QED
          BY <5>1, <4>1, <1>4, <2>2
      <4> QED
        BY <4>1 DEF RowsAfter
    <3> QED
      BY <3>1, <2>2, <1>1, <1>2
  <2> QED
    BY <2>1, <2>2, <1>1, <1>5
<1>6. ASSUME NEW x \in ChangedRules(expanded, rows), x \notin batch
      PROVE  x \in ChangedRules(expanded, after)
  <2>1. CASE x \in expanded /\ \A m \in rows : ~ Same(x, m)
    <3>1. ASSUME NEW m \in after, Same(x, m) PROVE FALSE
      <4>1. PICK e \in batch : /\ e.policy # REMOVE
                               /\ m = [target |-> e.target, policy |-> e.policy,
                                       version |-> e.version, cursor |-> NoCursor]
        BY <3>1, <2>1 DEF RowsAfter
      <4>2. m.target = e.target
        BY <4>1
      <4>3. e \in expanded /\ e.target = x.target
        BY <4>1, <4>2, <3>1, <1>4
      <4> QED
        BY <4>3, <2>1, <1>6
    <3> QED
      BY <2>1, <3>1, <1>1
  <2>2. ASSUME NEW m \in rows, x = Removed(m.target),
               \A e \in expanded : e.target # m.target
        PROVE  x \in ChangedRules(expanded, after)
    <3>1. \A e \in batch : e.target # m.target
      BY <2>2, <1>3, <1>6
    <3>2. m \in after
      BY <3>1, <2>2 DEF RowsAfter
    <3> QED
      BY <3>2, <2>2, <1>1
  <2> QED
    BY <2>1, <2>2, <1>1, <1>6
<1> QED
  BY <1>5, <1>6

\* The rows of the batch are the only ones of its cursor, and the others are
\* acknowledged or REMOVE rows.
LEMMA AcknowledgedAfter ==
    ASSUME NEW rows, NEW batch, NEW cursor, cursor # NoCursor,
           \A m \in rows : m.cursor # cursor
    PROVE  \A m : m \in Acknowledge(Store(rows, batch, cursor), cursor)
                     <=> RowsAfter(rows, batch, m)
<1> DEFINE Row(e, c) == [target |-> e.target, policy |-> e.policy, version |-> e.version,
                         cursor |-> c]
           stored == Store(rows, batch, cursor)
<1>1. \A m : m \in stored <=> \/ m \in rows /\ \A e \in batch : e.target # m.target
                              \/ \E e \in batch : m = Row(e, cursor)
  BY DEF Store
<1>2. \A e : /\ Row(e, cursor).cursor = cursor
             /\ Row(e, cursor).policy = e.policy
             /\ [Row(e, cursor) EXCEPT !.cursor = NoCursor] = Row(e, NoCursor)
  OBVIOUS
<1>3. \A m : m \in Acknowledge(stored, cursor) <=>
        \/ m \in stored /\ m.cursor # cursor
        \/ \E n \in stored : /\ n.cursor = cursor /\ n.policy # REMOVE
                             /\ m = [n EXCEPT !.cursor = NoCursor]
  BY DEF Acknowledge
<1>4. \A m : RowsAfter(rows, batch, m) <=>
        \/ m \in rows /\ \A e \in batch : e.target # m.target
        \/ \E e \in batch : e.policy # REMOVE /\ m = Row(e, NoCursor)
  BY DEF RowsAfter
<1> HIDE DEF stored, Row
<1>5. \A m : m \in stored /\ m.cursor # cursor
               <=> m \in rows /\ \A e \in batch : e.target # m.target
  BY <1>1, <1>2
<1>6. \A n : n \in stored /\ n.cursor = cursor <=> \E e \in batch : n = Row(e, cursor)
  BY <1>1, <1>2
<1>7. ASSUME NEW m
      PROVE  (\E n \in stored : /\ n.cursor = cursor /\ n.policy # REMOVE
                                /\ m = [n EXCEPT !.cursor = NoCursor])
             <=> \E e \in batch : e.policy # REMOVE /\ m = Row(e, NoCursor)
  BY <1>2, <1>6
<1>8. \A m : m \in Acknowledge(stored, cursor) <=> RowsAfter(rows, batch, m)
  BY <1>3, <1>4, <1>5, <1>7
<1> QED
  BY <1>8 DEF stored

\* A batch that is read when all that was not acknowledged is cleaned up.
LEMMA BatchOfRest ==
    ASSUME TypeOK, Next, NextBatch, Unacknowledged(link.cursor) \subseteq link.seen
    PROVE  LET left == LeftToSend(link.tag_ids, Kept(link, Unacknowledged(link.cursor)))
           IN link'.rules \subseteq left /\ (link'.rules = {} => left = {})
<1>1. \A dropped \in Dropped(link) : dropped = Unacknowledged(link.cursor)
  BY DEF Dropped
<1> QED
  BY <1>1, NextBatchChanges DEF LeftToSend, Expected

\* A batch that is stored, and still to be sent.
LEMMA BatchLeavesRest ==
    ASSUME TypeOK, OneRuleEach, Next, link.type = "queried", link'.type = "rules",
           NEW tag_ids,
           link.rules \subseteq LeftToSend(tag_ids, Kept(link, link.dropped))
    PROVE  LeftToSend(tag_ids, Kept(link, {}))'
             = LeftToSend(tag_ids, Kept(link, link.dropped)) \ link.rules
<1> DEFINE rows == Kept(link, link.dropped)
           batch == link.rules
           expanded == ExpandedRules(rules, tag_ids)
           changed == ChangedRules(expanded, rows)
<1>0. StoreBatch(link) /\ link' # link
  BY RulesAnswer
<1>1. PICK cursor \in Cursors \ UsedCursors :
        /\ machine_rules' = Store(rows, batch, cursor)
        /\ Respond(link,
             [type |-> "rules", rules |-> batch,
              cursor |-> IF batch = {} THEN NoCursor ELSE cursor])
  BY <1>0 DEF StoreBatch
<1> DEFINE next == IF batch = {} THEN NoCursor ELSE cursor
<1>2. link' = [type |-> "rules", rules |-> batch, cursor |-> next]
  BY <1>0, <1>1 DEF Respond
<1>3. link'.cursor = next
  <2> HIDE DEF next
  <2> QED
    BY <1>2
<1>4. rules' = rules
  BY <1>0 DEF StoreBatch, adminVars
<1>5. \A m \in rows : m.cursor # cursor
  BY <1>1, FreshCursor, KeptRows DEF TypeOK
<1>6. cursor # NoCursor
  BY FreshCursor
<1>7. Kept(link, {})' = Acknowledge(machine_rules', next)
  <2> HIDE DEF next
  <2>1. machine_rules' \ {} = machine_rules'
    OBVIOUS
  <2> QED
    BY <1>3, <2>1 DEF Kept, Acknowledge
<1>8. LeftToSend(tag_ids, Kept(link, {}))'
        = ChangedRules(expanded, Acknowledge(machine_rules', next))
  <2> HIDE DEF next
  <2> QED
    BY <1>4, <1>7 DEF LeftToSend, Expected, ExpandedRules, FilteredRules
<1>9. batch \subseteq changed
  BY DEF LeftToSend, Expected
<1> HIDE DEF rows, batch
<1>10. CASE batch = {}
  <2>1. machine_rules' = rows
    BY <1>1, <1>10 DEF Store
  <2>2. Acknowledge(rows, next) = rows
    BY <1>10 DEF Acknowledge
  <2> HIDE DEF next, expanded
  <2> QED
    BY <1>8, <1>10, <2>1, <2>2 DEF rows, batch, LeftToSend, Expected, expanded
<1>11. CASE batch # {}
  <2> DEFINE after == Acknowledge(Store(rows, batch, cursor), cursor)
  <2>1. LeftToSend(tag_ids, Kept(link, {}))' = ChangedRules(expanded, after)
    <3> HIDE DEF expanded
    <3> QED
      BY <1>1, <1>8, <1>11
  <2>2. \A m : m \in after <=> RowsAfter(rows, batch, m)
    BY <1>5, <1>6, AcknowledgedAfter
  <2>3. \A e, f \in expanded : e.target = f.target => e = f
    BY OneExpanded
  <2>4. \A e \in expanded : e.policy # REMOVE
    BY ExpandedType, Removal DEF TypeOK
  <2> HIDE DEF after, expanded
  <2>5. ChangedRules(expanded, after) = changed \ batch
    BY <1>9, <2>2, <2>3, <2>4, ChangedAfter
  <2> QED
    BY <2>1, <2>5 DEF rows, batch, LeftToSend, Expected, expanded
<1> QED
  BY <1>10, <1>11

\* A batch that no other request overtakes is a part of the changes the machine
\* still lacks, not an empty one; and once it is stored, the next one starts from
\* the rest, if it is still to be sent then: the cursor neither skips a rule nor
\* sends one again, as long as no two rules are about the same target
\* (santa/models.py, get_next_rule_batch).
THEOREM BatchesLeaveRest == Spec => BatchesShrink
<1>1. TypeOK /\ [Next]_vars =>
    [OneRuleEach =>
        /\ NextBatch /\ Unacknowledged(link.cursor) \subseteq link.seen =>
              LET left == LeftToSend(link.tag_ids,
                                     Kept(link, Unacknowledged(link.cursor)))
              IN link'.rules \subseteq left /\ (link'.rules = {} => left = {})
        /\ link.type = "queried" /\ link'.type = "rules" =>
              \A tag_ids \in TagSets :
                 LET left == LeftToSend(tag_ids, Kept(link, link.dropped))
                 IN link.rules \subseteq left =>
                      LeftToSend(tag_ids, Kept(link, {}))' = left \ link.rules]_vars
  BY BatchOfRest, BatchLeavesRest
<1> QED
  BY <1>1, TypeCorrect, PTL DEF Spec, BatchesShrink

-----------------------------------------------------------------------------
(* The version stands for the message.                                     *)

\* A rule that is there for good is the one that was as new.
LEMMA AsNewRules ==
    ASSUME TypeOK, OneRuleEach, Admin,
           \A r \in rules : \E q \in rules' : q.target = r.target,
           NEW i, i.version \in Nat, AsNew(i)
    PROVE  AsNew(i)'
<1>1. PICK r \in rules : /\ i.target \in Expansion(r.target)
                         /\ i.version <= r.version
                         /\ i.version = r.version => i.custom_msg = r.custom_msg
  BY DEF AsNew
<1>2. r.version \in Nat
  BY BoundAssumption DEF TypeOK, Rule, Versions
<1>3. CASE r \in rules'
  BY <1>1, <1>3 DEF AsNew
<1>4. ASSUME NEW p \in Policies, NEW msg \in Messages, NEW s \in Scopes,
             UpdateRule(r, p, msg, s)
      PROVE  AsNew(i)'
  <2> DEFINE version == IF msg # r.custom_msg THEN r.version + 1 ELSE r.version
             updated == [target |-> r.target, policy |-> p, custom_msg |-> msg,
                         version |-> version, scope |-> s]
  <2>1. updated \in rules'
    BY <1>4 DEF UpdateRule
  <2>2. updated.target = r.target /\ updated.version = version /\ updated.custom_msg = msg
    <3> HIDE DEF version
    <3> QED
      OBVIOUS
  <2>3. /\ i.version <= version
        /\ i.version = version => msg = r.custom_msg /\ version = r.version
    BY <1>1, <1>2
  <2> HIDE DEF version, updated
  <2> QED
    BY <1>1, <2>1, <2>2, <2>3 DEF AsNew
<1>5. ASSUME DeleteRule(r) PROVE AsNew(i)'
  <2>1. PICK q \in rules' : q.target = r.target
    OBVIOUS
  <2>2. q \in rules /\ q # r
    BY <1>5, <2>1 DEF DeleteRule
  <2> QED
    BY <1>1, <2>1, <2>2 DEF OneRuleEach
<1>6. r \in rules' \/ DeleteRule(r)
      \/ \E p \in Policies, msg \in Messages, s \in Scopes : UpdateRule(r, p, msg, s)
  BY DEF Admin, CreateRule, UpdateRule, DeleteRule, SetTags, ReEnroll
<1> QED
  BY <1>3, <1>4, <1>5, <1>6

\* What is sent of a rule is the rule as it is now.
LEMMA ExpandedAsNew ==
    ASSUME rules \subseteq Rule, NEW tag_ids, NEW e \in ExpandedRules(rules, tag_ids)
    PROVE  AsNew(e)
<1>1. PICK r \in rules : \E t \in Expansion(r.target) :
        e = [target |-> t, policy |-> r.policy, custom_msg |-> r.custom_msg,
             version |-> r.version, origin |-> r.target]
  BY DEF ExpandedRules, FilteredRules
<1>2. r.version \in Nat
  BY BoundAssumption DEF Rule, Versions
<1>3. e.target \in Expansion(r.target) /\ e.version = r.version
      /\ e.custom_msg = r.custom_msg
  BY <1>1
<1> QED
  BY <1>2, <1>3 DEF AsNew

LEMMA MessagesDownload ==
    ASSUME TypeOK, MessagesTold, NEW request \in late \cup {link}, RuleDownloadView(request)
    PROVE  MessagesTold'
<1>1. rules' = rules /\ installed' = installed
  BY DEF RuleDownloadView, CleanUp, QueryRules, StoreBatch, adminVars, agentVars
<1>2. CASE link' = link
  BY <1>1, <1>2 DEF MessagesTold, AsNew
<1>3. CASE CleanUp(request) /\ link' # link
  <2>1. link'.type = "cleaned"
    BY <1>3 DEF CleanUp, Proceed
  <2> QED
    BY <1>1, <2>1 DEF MessagesTold, AsNew
<1>4. CASE QueryRules(request) /\ link' # link
  <2> DEFINE changed(dropped) == ChangedRules(ExpandedRules(rules, request.tag_ids),
                                              Kept(request, dropped))
  <2>1. PICK dropped \in Dropped(request), batch \in SUBSET Change :
          /\ batch \subseteq changed(dropped)
          /\ Proceed(request, [type |-> "queried", cursor |-> request.cursor,
                               dropped |-> dropped, rules |-> batch])
    BY <1>4, QueryEffect
  <2>2. ASSUME NEW e \in batch, e.policy # REMOVE PROVE AsNew(e)
    <3>1. e \in ExpandedRules(rules, request.tag_ids)
      BY <2>1, <2>2 DEF ChangedRules
    <3> QED
      BY <3>1, ExpandedAsNew DEF TypeOK
  <2>3. link'.rules = batch
    BY <1>4, <2>1 DEF Proceed
  <2> QED
    BY <1>1, <2>2, <2>3 DEF MessagesTold, AsNew
<1>5. CASE StoreBatch(request) /\ link' # link
  <2>1. request = link /\ link.type = "queried" /\ link'.rules = link.rules
    BY <1>5 DEF StoreBatch, Respond
  <2> QED
    BY <1>1, <2>1 DEF MessagesTold, AsNew
<1> QED
  BY <1>2, <1>3, <1>4, <1>5 DEF RuleDownloadView

LEMMA MessagesReceive ==
    ASSUME MessagesTold, ReceiveRules
    PROVE  MessagesTold'
<1>1. /\ rules' = rules /\ link.type = "rules"
      /\ link' = IF link.cursor = NoCursor
                 THEN [type |-> "postflight"]
                 ELSE [type |-> "ruledownload", cursor |-> link.cursor]
  BY DEF ReceiveRules, adminVars
<1>2. link'.type \notin {"queried", "rules"}
  BY <1>1
<1>3. ASSUME NEW i \in installed', i.version > 0 PROVE AsNew(i)
  <2>1. CASE i \in installed
    BY <1>3, <2>1 DEF MessagesTold
  <2>2. ASSUME NEW e \in link.rules, e.policy # REMOVE,
               i = [target |-> e.target, policy |-> e.policy,
                    custom_msg |-> e.custom_msg, version |-> e.version]
        PROVE  AsNew(i)
    <3>1. AsNew(e)
      BY <1>1, <2>2 DEF MessagesTold
    <3>2. i.target = e.target /\ i.version = e.version /\ i.custom_msg = e.custom_msg
      BY <2>2
    <3> QED
      BY <3>1, <3>2 DEF AsNew
  <2>3. i \in installed \/ \E e \in link.rules : e.policy # REMOVE
          /\ i = [target |-> e.target, policy |-> e.policy,
                  custom_msg |-> e.custom_msg, version |-> e.version]
    BY <1>3 DEF ReceiveRules, Applied
  <2> QED
    BY <2>1, <2>2, <2>3
<1> QED
  BY <1>1, <1>2, <1>3 DEF MessagesTold, AsNew

LEMMA MessagesNext ==
    ASSUME TypeOK, OneRuleEach, MessagesTold, [Next]_vars,
           [\A r \in rules : \E q \in rules' : q.target = r.target]_vars
    PROVE  MessagesTold'
<1> USE DEF serverVars, agentVars, adminVars, netVars
<1>1. CASE UNCHANGED <<rules, installed>> /\ (link' = link \/ link'.type \notin {"queried", "rules"})
  BY <1>1 DEF MessagesTold, AsNew
<1>2. CASE ReEnroll
  BY <1>2 DEF ReEnroll, MessagesTold, LeftOvers, LeftOver, Idle
<1>3. CASE Admin /\ ~ ReEnroll
  <2>1. installed' = installed /\ link' = link
    BY <1>3 DEF Admin, CreateRule, UpdateRule, DeleteRule, SetTags
  <2>2. vars' # vars
    BY <1>3, CounterAssumption DEF Admin, CreateRule, UpdateRule, DeleteRule, SetTags, Edit,
                                   vars, TypeOK
  <2>3. \A i \in installed : i.version \in Nat
    BY DEF TypeOK, Installed
  <2>4. link.type \in {"queried", "rules"} => \A e \in link.rules : e.version \in Nat
    BY DEF TypeOK, Request, Download, Asked, Cleaned, Queried, Response, Idle, Change
  <2>5. \A i : i.version \in Nat /\ AsNew(i) => AsNew(i)'
    BY <1>3, <2>2, AsNewRules
  <2> QED
    BY <2>1, <2>3, <2>4, <2>5 DEF MessagesTold
<1>4. CASE \E request \in late \cup {link} : RuleDownloadView(request)
  BY <1>4, MessagesDownload
<1>5. CASE \E request \in late \cup {link} : PreflightView(request) \/ PostflightView(request)
  BY <1>5, <1>1 DEF PreflightView, PostflightView, Respond
<1>6. CASE ReceiveRules
  BY <1>6, MessagesReceive
<1>7. CASE StartSync \/ ReceivePreflight \/ ReceivePostflight \/ CacheExpires \/ GiveUp
           \/ UNCHANGED vars
  BY <1>7, <1>1 DEF StartSync, ReceivePreflight, ReceivePostflight, CacheExpires, GiveUp,
                    Idle, vars
<1> QED
  BY <1>2, <1>3, <1>4, <1>5, <1>6, <1>7 DEF Next, Server, Serve, Agent, Receive

LEMMA MessagesInvariant == Spec /\ []OneRuleEach /\ NoRuleDeleted => []MessagesTold
<1>1. Init => MessagesTold
  BY DEF Init, MessagesTold, LeftOvers, LeftOver, Idle
<1>2. /\ TypeOK /\ OneRuleEach /\ MessagesTold /\ [Next]_vars
      /\ [\A r \in rules : \E q \in rules' : q.target = r.target]_vars
      => MessagesTold'
  BY MessagesNext
<1> QED
  BY <1>1, <1>2, TypeCorrect, PTL DEF Spec, NoRuleDeleted

LEMMA CurrentMessage ==
    ASSUME TypeOK, OneRuleEach, MessagesTold, NEW e \in ExpandedRules(rules, link.tag_ids),
           NEW i \in Database, Tells(i, e)
    PROVE  i.custom_msg = e.custom_msg
<1>1. PICK q \in rules : \E t \in Expansion(q.target) :
        e = [target |-> t, policy |-> q.policy, custom_msg |-> q.custom_msg,
             version |-> q.version, origin |-> q.target]
  BY DEF ExpandedRules, FilteredRules
<1>2. e.target \in Expansion(q.target) /\ e.version = q.version
      /\ e.custom_msg = q.custom_msg
  BY <1>1
<1>3. i \in installed /\ i.target = e.target /\ i.version = e.version
  BY DEF Database, Tells
<1>4. e.version \in Nat \ {0}
  BY ExpandedVersion DEF TypeOK
<1>5. PICK r \in rules : /\ i.target \in Expansion(r.target)
                         /\ i.version = r.version => i.custom_msg = r.custom_msg
  BY <1>3, <1>4 DEF MessagesTold, AsNew
<1>6. r = q
  BY <1>2, <1>3, <1>5 DEF OneRuleEach
<1> QED
  BY <1>2, <1>3, <1>5, <1>6

\* The version of a rule stands for its custom message, as UpdateRuleForm.save
\* has it: when a sync ends, an up-to-date rule of the agent has the current
\* message, as long as no two rules are about the same target and no rule is
\* deleted (a rule made again for the target starts at version 1).
THEOREM DoneCurrentMessage ==
    Spec /\ []OneRuleEach /\ NoRuleDeleted => DoneMeansCurrentMessage
<1>1. TypeOK /\ OneRuleEach /\ MessagesTold =>
        [LastBatch =>
            \A e \in Expected(link.tag_ids), i \in Database :
                Tells(i, e) => i.custom_msg = e.custom_msg]_vars
  BY CurrentMessage DEF Expected
<1> QED
  BY <1>1, TypeCorrect, MessagesInvariant, PTL DEF Spec, DoneMeansCurrentMessage
=============================================================================
