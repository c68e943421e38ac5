--------------------------- MODULE SantaRuleSync ---------------------------
(***************************************************************************)
(* The synchronization of the rules of one Santa configuration with one    *)
(* machine.  The administrators change the rules and the tags of the       *)
(* machine; the server keeps the machine rules, one row per target the     *)
(* machine was told about, with the cursor of the batch that told it until *)
(* that batch is acknowledged; the Santa agent (external, modelled from    *)
(* what the sync views expect of it) asks for batches with the cursor of   *)
(* the previous one, which acknowledges it, until a response has none.     *)
(*                                                                         *)
(* Each request is one transaction (ATOMIC_REQUESTS) of READ COMMITTED     *)
(* statements: a rule download cleans up, queries and stores, and what it  *)
(* writes shows when it commits.  The agent gives up on a request at any   *)
(* time: the response is lost, and the request may still be processed      *)
(* later, or go on, when nobody is waiting and next to other requests.     *)
(* (The select_for_update of get_next_rule_batch is never evaluated.  The  *)
(* rows a request deletes or updates are locked until it commits, which    *)
(* only delays the statements of the others: the model does without.)      *)
(***************************************************************************)
EXTENDS SantaRules

CONSTANTS
    TagSets,        \* the sets of tags the machine may have
    Cursors,        \* the random strings a batch can be named with
    NoCursor,
    NoCache,        \* the sync cache has no entry for the machine
    MaxEdits,       \* bound on the changes made by the administrators
    MaxFaults,      \* bound on the requests the agent gives up on
    MaxLate,        \* bound on the abandoned requests still on their way
    CanRemove       \* may the rules be deleted or leave the scope?

ASSUME CursorAssumption == NoCursor \notin Cursors
ASSUME CacheAssumption == NoCache \notin TagSets
ASSUME CounterAssumption == MaxEdits \in Nat /\ MaxFaults \in Nat /\ MaxLate \in Nat

VARIABLES
    rules,          \* santa_rule
    tags,           \* the tags of the machine
    machine_rules,  \* santa_machinerule
    cache,          \* the tag ids cached for the machine, or NoCache
    link,           \* what is between the agent and the server, in the sync
    late,           \* requests the agent does not wait for any more, with
                    \* what the server has done of them
    installed,      \* the rules in the agent's database
    clean,          \* the agent will wipe its database with the next batch
    edits, faults   \* counters, for the bounds

vars == <<rules, tags, machine_rules, cache, link, late, installed, clean,
          edits, faults>>
adminVars == <<rules, tags, edits>>
serverVars == <<machine_rules, cache>>
agentVars == <<installed, clean>>
netVars == <<link, late>>

MachineRule ==
    [target : Targets, policy : RulePolicies, version : Nat,
     cursor : Cursors \cup {NoCursor}]
    \cup [target : Targets, policy : {REMOVE}, version : Nat, cursor : Cursors]

Installed == [target : Targets, policy : RulePolicies, custom_msg : Messages,
              version : Nat]

\* A rule download that the server has not yet processed, that has cleaned up
\* (seen: the rows there were to delete), that has the next batch (dropped: the
\* rows it has deleted).
Asked == [type : {"ruledownload"}, cursor : Cursors \cup {NoCursor}]
Cleaned == [type : {"cleaned"}, cursor : Cursors \cup {NoCursor},
            tag_ids : TagSets, seen : SUBSET MachineRule]
Queried == [type : {"queried"}, cursor : Cursors \cup {NoCursor},
            dropped : SUBSET MachineRule, rules : SUBSET Change]
Download == Asked \cup Cleaned \cup Queried
Downloading(request) == request.type \in {"ruledownload", "cleaned", "queried"}

Request == [type : {"preflight"}, request_clean_sync : BOOLEAN]
           \cup Download
           \cup [type : {"postflight"}]

Response == [type : {"preflight_response"}, clean_sync : BOOLEAN]
            \cup [type : {"rules"}, rules : SUBSET Change,
                  cursor : Cursors \cup {NoCursor}]
            \cup [type : {"postflight_response"}]

Idle == [type |-> "idle"]

TypeOK ==
    /\ rules \subseteq Rule
    /\ tags \in TagSets
    /\ machine_rules \subseteq MachineRule
    /\ cache \in TagSets \cup {NoCache}
    /\ link \in Request \cup Response \cup {Idle}
    /\ late \subseteq Request
    /\ installed \subseteq Installed
    /\ clean \in BOOLEAN
    /\ edits \in 0 .. MaxEdits
    /\ faults \in 0 .. MaxFaults

\* The machine comes from another configuration, whose rules it still has.
LeftOver(target) == [target |-> target, policy |-> BLOCKLIST,
                     custom_msg |-> EmptyMessage, version |-> 0]
LeftOvers == {LeftOver(t) : t \in Targets \ Bundles}

Init ==
    /\ rules = {}
    /\ tags \in TagSets
    /\ machine_rules = {}
    /\ cache = NoCache
    /\ link = Idle
    /\ late = {}
    /\ installed \in {{}, LeftOvers}
    /\ clean = FALSE
    /\ edits = 0
    /\ faults = 0

-----------------------------------------------------------------------------
(* The administrators.                                                     *)

Edit == edits < MaxEdits /\ edits' = edits + 1

\* RuleForm.clean and RuleForm.save: at most one rule per target.
CreateRule(target, policy, custom_msg, scope) ==
    /\ Edit
    /\ \A r \in rules : r.target # target
    /\ ValidMessage(policy, custom_msg)
    /\ ValidBundlePolicy(target, policy)
    /\ rules' = rules \cup {[target |-> target, policy |-> policy,
                             custom_msg |-> custom_msg, version |-> 1,
                             scope |-> scope]}
    /\ UNCHANGED <<tags, serverVars, netVars, agentVars, faults>>

\* Variant: a new message does not bump the version.
UpdateRuleNoBump(rule, policy, custom_msg, scope) ==
    /\ Edit
    /\ ValidMessage(policy, custom_msg)
    /\ CanRemove \/ scope = rule.scope
    /\ rules' = (rules \ {rule}) \cup
                {[rule EXCEPT !.policy = policy, !.custom_msg = custom_msg,
                              !.scope = scope]}
    /\ UNCHANGED <<tags, serverVars, netVars, agentVars, faults>>

\* UpdateRuleForm.clean and UpdateRuleForm.save. Only a new message bumps the
\* version. The form has no target_type field: its check of the policy of a
\* bundle rule never applies.
UpdateRule(rule, policy, custom_msg, scope) ==
    /\ Edit
    /\ ValidMessage(policy, custom_msg)
    /\ CanRemove \/ scope = rule.scope
    /\ LET version == IF custom_msg # rule.custom_msg
                      THEN rule.version + 1 ELSE rule.version
       IN /\ version <= MaxVersion
          /\ rules' = (rules \ {rule}) \cup
                      {[target |-> rule.target, policy |-> policy,
                        custom_msg |-> custom_msg, version |-> version,
                        scope |-> scope]}
    /\ UNCHANGED <<tags, serverVars, netVars, agentVars, faults>>

DeleteRule(rule) ==
    /\ Edit
    /\ CanRemove
    /\ rules' = rules \ {rule}
    /\ UNCHANGED <<tags, serverVars, netVars, agentVars, faults>>

SetTags(tag_ids) ==
    /\ Edit
    /\ CanRemove
    /\ tag_ids # tags
    /\ tags' = tag_ids
    /\ UNCHANGED <<rules, serverVars, netVars, agentVars, faults>>

\* The machine was enrolled on another configuration, and comes back: the
\* other enrollment deleted this EnrolledMachine with its machine rules, and
\* enrolling again creates a new one. The agent has the rules of the other
\* configuration. A rule download in progress has nothing to write to any more.
ReEnroll ==
    /\ Edit
    /\ link = Idle
    /\ late' = {r \in late : r.type \notin {"cleaned", "queried"}}
    /\ machine_rules' = {}
    /\ cache' = NoCache
    /\ installed' = LeftOvers
    /\ UNCHANGED <<rules, tags, link, clean, faults>>

-----------------------------------------------------------------------------
(* The sync views.                                                         *)

\* The server goes on with a request.
Proceed(request, progress) ==
    \/ /\ link = request
       /\ link' = progress
       /\ UNCHANGED late
    \/ /\ request \in late
       /\ late' = (late \ {request}) \cup {progress}
       /\ UNCHANGED link

\* A request is processed: the agent gets the response, unless it gave up.
Respond(request, response) ==
    \/ /\ link = request
       /\ link' = response
       /\ UNCHANGED late
    \/ /\ request \in late
       /\ late' = late \ {request}
       /\ UNCHANGED link

\* BaseSyncView.post without a cached machine: its tags are read, and cached.
RefreshCache == cache' = tags

\* BaseSyncView.post with the cache.
CachedTags == IF cache = NoCache THEN tags ELSE cache

\* Variant for the sensitivity checks: only the agent can ask for a clean sync.
PreflightViewOnRequest(request) ==
    /\ request.type = "preflight"
    /\ RefreshCache
    /\ machine_rules' = IF request.request_clean_sync THEN {} ELSE machine_rules
    /\ Respond(request, [type |-> "preflight_response",
                         clean_sync |-> request.request_clean_sync])
    /\ UNCHANGED <<adminVars, agentVars, faults>>

\* The machine rules are wiped when the agent asks for a clean sync, and the
\* agent is told to wipe its database when there are none.
PreflightView(request) ==
    /\ request.type = "preflight"
    /\ RefreshCache
    /\ machine_rules' = IF request.request_clean_sync THEN {} ELSE machine_rules
    /\ Respond(request, [type |-> "preflight_response",
                         clean_sync |-> request.request_clean_sync \/ machine_rules = {}])
    /\ UNCHANGED <<adminVars, agentVars, faults>>

\* Variant: the batch of the cursor is not spared.
UnacknowledgedAny(cursor) ==
    {m \in machine_rules : m.policy # REMOVE /\ m.cursor # NoCursor}

\* The rows to clean up: those that are not acknowledged, but for the REMOVE ones
\* and the batch that is being acknowledged.
Unacknowledged(cursor) ==
    {m \in machine_rules : m.policy # REMOVE /\ m.cursor \notin {NoCursor, cursor}}

\* MachineRuleManager.get_next_rule_batch, the first statement.
CleanUp(request) ==
    /\ request.type = "ruledownload"
    /\ cache' = CachedTags
    /\ Proceed(request, [type |-> "cleaned", cursor |-> request.cursor,
                         tag_ids |-> CachedTags,
                         seen |-> Unacknowledged(request.cursor)])
    /\ UNCHANGED <<adminVars, machine_rules, agentVars, faults>>

\* Variant: no row is cleaned up.
DroppedNone(request) == {{}}

\* What the clean up has deleted: the rows it has seen that are still there. A
\* row that another request has changed in the meantime was deleted if the clean
\* up had to wait for this request, a new one was not.
Dropped(request) ==
    {dropped \in SUBSET Unacknowledged(request.cursor) :
        Unacknowledged(request.cursor) \cap request.seen \subseteq dropped}

\* Variants: the REMOVE rows of the batch are acknowledged like the others;
\* they stay as they are.
AcknowledgeRemove(rows, cursor) ==
    IF cursor = NoCursor
    THEN rows
    ELSE {[m EXCEPT !.cursor = IF @ = cursor THEN NoCursor ELSE @] : m \in rows}
AcknowledgeNoRemove(rows, cursor) ==
    IF cursor = NoCursor
    THEN rows
    ELSE {m \in rows : m.cursor # cursor \/ m.policy = REMOVE}
         \cup {[m EXCEPT !.cursor = NoCursor]
                 : m \in {m \in rows : m.cursor = cursor /\ m.policy # REMOVE}}

\* The batch of the request's cursor is acknowledged: its REMOVE rows are
\* deleted, the others lose their cursor.
Acknowledge(rows, cursor) ==
    IF cursor = NoCursor
    THEN rows
    ELSE {m \in rows : m.cursor # cursor}
         \cup {[m EXCEPT !.cursor = NoCursor]
                 : m \in {m \in rows : m.cursor = cursor /\ m.policy # REMOVE}}

\* Variant: the cursor is not among the values an existing row is updated with.
StoreKeepCursor(rows, batch, cursor) ==
    {m \in rows : \A e \in batch : e.target # m.target}
    \cup {[target |-> e.target, policy |-> e.policy, version |-> e.version,
           cursor |-> IF \E m \in rows : m.target = e.target
                      THEN (CHOOSE m \in rows : m.target = e.target).cursor
                      ELSE cursor] : e \in batch}

\* update_or_create for each rule of the batch.
Store(rows, batch, cursor) ==
    {m \in rows : \A e \in batch : e.target # m.target}
    \cup {[target |-> e.target, policy |-> e.policy, version |-> e.version,
           cursor |-> cursor] : e \in batch}

\* The rows as the request leaves them, once its cursor is acknowledged.
Kept(request, dropped) == Acknowledge(machine_rules \ dropped, request.cursor)

\* The cursor is acknowledged, and the next batch read: the rows of the other
\* requests are those they have committed.
QueryRules(request) ==
    /\ request.type = "cleaned"
    /\ \E dropped \in Dropped(request) :
         LET changed == ChangedRules(ExpandedRules(rules, request.tag_ids),
                                     Kept(request, dropped))
         IN \E batch \in Batches(changed) :
              Proceed(request, [type |-> "queried", cursor |-> request.cursor,
                                dropped |-> dropped, rules |-> batch])
    /\ UNCHANGED <<adminVars, serverVars, agentVars, faults>>

\* get_random_string: a cursor no one knows of.
RowsOf(request) == CASE request.type = "cleaned" -> request.seen
                     [] request.type = "queried" -> request.dropped
                     [] OTHER -> {}
UsedCursors ==
    {m.cursor : m \in machine_rules \cup UNION {RowsOf(r) : r \in late \cup {link}}}
    \cup {r.cursor : r \in {r \in late \cup {link} :
                                Downloading(r) \/ r.type = "rules"}}

\* The rows of the batch are written, and the transaction is committed.
StoreBatch(request) ==
    /\ request.type = "queried"
    /\ \E cursor \in Cursors \ UsedCursors :
         /\ machine_rules' = Store(Kept(request, request.dropped), request.rules, cursor)
         /\ Respond(request,
              [type |-> "rules", rules |-> request.rules,
               cursor |-> IF request.rules = {} THEN NoCursor ELSE cursor])
    /\ UNCHANGED <<adminVars, cache, agentVars, faults>>

RuleDownloadView(request) ==
    CleanUp(request) \/ QueryRules(request) \/ StoreBatch(request)

PostflightView(request) ==
    /\ request.type = "postflight"
    /\ cache' = NoCache
    /\ Respond(request, [type |-> "postflight_response"])
    /\ UNCHANGED <<adminVars, machine_rules, agentVars, faults>>

Serve(request) ==
    PreflightView(request) \/ RuleDownloadView(request) \/ PostflightView(request)

\* The cache entry times out.
CacheExpires ==
    /\ cache # NoCache
    /\ cache' = NoCache
    /\ UNCHANGED <<adminVars, machine_rules, netVars, agentVars, faults>>

-----------------------------------------------------------------------------
(* The Santa agent.                                                        *)

StartSync ==
    /\ link = Idle
    /\ \E clean_sync \in BOOLEAN :
         link' = [type |-> "preflight", request_clean_sync |-> clean_sync]
    /\ UNCHANGED <<adminVars, serverVars, late, agentVars, faults>>

ReceivePreflight ==
    /\ link.type = "preflight_response"
    /\ clean' = link.clean_sync
    /\ link' = [type |-> "ruledownload", cursor |-> NoCursor]
    /\ UNCHANGED <<adminVars, serverVars, late, installed, faults>>

\* The agent's database once it has applied a batch.
Applied(database, batch) ==
    {i \in database : \A e \in batch : e.target # i.target}
    \cup {[target |-> e.target, policy |-> e.policy,
           custom_msg |-> e.custom_msg, version |-> e.version]
            : e \in {e \in batch : e.policy # REMOVE}}

ReceiveRules ==
    /\ link.type = "rules"
    /\ installed' = Applied(IF clean THEN {} ELSE installed, link.rules)
    /\ clean' = FALSE
    /\ link' = IF link.cursor = NoCursor
               THEN [type |-> "postflight"]
               ELSE [type |-> "ruledownload", cursor |-> link.cursor]
    /\ UNCHANGED <<adminVars, serverVars, late, faults>>

ReceivePostflight ==
    /\ link.type = "postflight_response"
    /\ link' = Idle
    /\ UNCHANGED <<adminVars, serverVars, late, agentVars, faults>>

\* A timeout, a lost message or a crash of the agent: the sync stops, and so
\* does the clean sync the server asked for. A request that was not processed
\* is lost or still on its way, or goes on.
GiveUp ==
    /\ link # Idle
    /\ faults < MaxFaults
    /\ faults' = faults + 1
    /\ \/ UNCHANGED late
       \/ /\ link \in Request
          /\ Cardinality(late) < MaxLate
          /\ late' = late \cup {link}
    /\ link' = Idle
    /\ clean' = FALSE
    /\ UNCHANGED <<adminVars, serverVars, installed>>

-----------------------------------------------------------------------------
Admin ==
    \/ \E t \in Targets, p \in Policies, msg \in Messages, s \in Scopes :
         CreateRule(t, p, msg, s)
    \/ \E r \in rules, p \in Policies, msg \in Messages, s \in Scopes :
         UpdateRule(r, p, msg, s)
    \/ \E r \in rules : DeleteRule(r)
    \/ \E tag_ids \in TagSets : SetTags(tag_ids)
    \/ ReEnroll

Server == (\E request \in late \cup {link} : Serve(request)) \/ CacheExpires

Receive == ReceivePreflight \/ ReceiveRules \/ ReceivePostflight

Agent == StartSync \/ Receive \/ GiveUp

Next == Admin \/ Server \/ Agent

Spec == Init /\ [][Next]_vars

\* Santa syncs again and again, the server answers, and the agent goes on with
\* the sync when it has the answer.
Fairness ==
    /\ WF_vars(StartSync)
    /\ WF_vars(Serve(link))
    /\ WF_vars(Receive)

FairSpec == Spec /\ Fairness
-----------------------------------------------------------------------------
(* What the synchronization promises.                                      *)

Tells(i, m) == i.target = m.target /\ i.policy = m.policy /\ i.version = m.version

\* The rules the machine should have, and those it has (or will have, when the
\* next batch wipes the database).
Expected(tag_ids) == ExpandedRules(rules, tag_ids)
Database == IF clean THEN {} ELSE installed

\* The step in which the server reads the next batch for the agent, and the one
\* in which there is none: it tells the agent that there is nothing more.
NextBatch == link.type = "cleaned" /\ link'.type = "queried"
LastBatch == NextBatch /\ link'.rules = {}

\* An acknowledged machine rule is a rule the agent has, with this policy and
\* this version: what get_next_rule_batch calls the "last known OK state" is
\* the state of the agent, whatever was lost, abandoned or processed late.
AckedRulesInstalled ==
    \A m \in machine_rules :
        m.cursor = NoCursor => \E i \in installed : Tells(i, m)

\* Why it holds: no two parties wait for the same thing. A batch the agent has
\* asked to acknowledge is one it has applied ...
AskedRulesInstalled ==
    \A r \in late \cup {link}, m \in machine_rules :
        /\ Downloading(r)
        /\ r.cursor # NoCursor
        /\ m.cursor = r.cursor
        /\ m.policy # REMOVE
        => \E i \in installed : Tells(i, m)

\* ... a batch on its way to the agent is all there is under its cursor, and
\* the rules it changes cannot be acknowledged before it arrives ...
OnItsWay(m) == /\ m.cursor # NoCursor
               /\ \A r \in late : Downloading(r) => r.cursor # m.cursor

SentRulesPending ==
    link.type = "rules" =>
        /\ link.cursor = NoCursor => link.rules = {}
        /\ link.cursor # NoCursor =>
             \A m \in machine_rules :
                m.cursor = link.cursor => \E e \in link.rules : Tells(e, m)
        /\ \A m \in machine_rules, e \in link.rules :
             e.target = m.target => OnItsWay(m)

\* ... and when the agent is about to wipe its database, no machine rule is
\* acknowledged, and nobody is asking to acknowledge one.
WipePending == clean \/ (link.type = "preflight_response" /\ link.clean_sync)

WipeSafe ==
    WipePending =>
        \A m \in machine_rules :
            /\ OnItsWay(m)
            /\ Downloading(link) => link.cursor # m.cursor

\* The inductive invariant of the proofs.
SyncInv == /\ TypeOK
           /\ AckedRulesInstalled
           /\ AskedRulesInstalled
           /\ SentRulesPending
           /\ WipeSafe

\* The server ends a sync (no cursor in the response to the rule download)
\* only when the agent has every rule in scope, in its current version. It does
\* not, when another request commits rows between the clean up and the query.
DoneMeansInstalled ==
    [][LastBatch =>
        \A e \in Expected(link.tag_ids) : \E i \in Database : Tells(i, e)]_vars

\* What it does: a rule that is missing then was told by another request in the
\* meantime. Its row is not acknowledged: the next sync cleans it up, and sends
\* the rule again.
Overtaken(e) ==
    \E m \in Unacknowledged(link.cursor) \ link.seen : Tells(m, e)
DoneMeansInstalledOrOvertaken ==
    [][LastBatch =>
        \A e \in Expected(link.tag_ids) :
            Overtaken(e) \/ \E i \in Database : Tells(i, e)]_vars

\* When the server ends a sync, the custom message of each rule of the agent
\* is the current one: the version stands for the message.
DoneMeansCurrentMessage ==
    [][LastBatch =>
        \A e \in Expected(link.tag_ids), i \in Database :
            Tells(i, e) => i.custom_msg = e.custom_msg]_vars

\* When the server ends a sync, the agent has no rule of this configuration
\* that was deleted or left the scope of the machine.
DoneMeansRemoved ==
    [][LastBatch =>
        \A i \in Database \ LeftOvers :
            \E e \in Expected(link.tag_ids) : i.target = e.target]_vars

\* When the server ends a sync, nothing is left of the configuration the
\* machine was enrolled on before: the sync was a clean one.
DoneMeansErased == [][LastBatch => Database \cap LeftOvers = {}]_vars

\* Why the last two hold as long as no request is given up. A row that is not
\* acknowledged is of the batch under way, and a wipe is over with it ...
BatchUnderWay ==
    /\ late = {}
    /\ clean => Downloading(link) \/ link.type = "rules"
    /\ \A m \in machine_rules :
          \/ m.cursor = NoCursor
          \/ (Downloading(link) \/ link.type = "rules") /\ m.cursor = link.cursor
    /\ link.type = "queried" =>
          \A m \in link.dropped : m.cursor \notin {NoCursor, link.cursor}

\* ... whose rules all have a row, once it is stored, one for each target, ...
BatchStored ==
    link.type \in {"queried", "rules"} => \A e \in link.rules :
        /\ link.type = "rules" => \E m \in machine_rules : m.target = e.target
        /\ \A f \in link.rules : f.target = e.target => f = e
        /\ e.policy # REMOVE => e.version > 0

\* ... the agent removes the rules of the REMOVE rows with this batch, ...
RemovedTold ==
    \A m \in machine_rules : m.policy = REMOVE =>
        /\ link.type = "rules" =>
              \E e \in link.rules : e.policy = REMOVE /\ e.target = m.target
        /\ Downloading(link) => \A i \in Database : i.target # m.target

\* ... and has no rule without a row, but before the clean sync that an empty
\* machine asks for.
Known(i) == i \notin LeftOvers /\ \E m \in machine_rules : m.target = i.target
RulesKnown ==
    \/ WipePending
    \/ machine_rules = {} /\ link.type \in {"idle", "preflight"}
    \/ \A i \in installed : Known(i)

FaultlessInv == BatchUnderWay /\ BatchStored /\ RemovedTold /\ RulesKnown

\* Two rules are never about the same target, by their bundles or directly.
OneRuleEach ==
    \A r, q \in rules : Expansion(r.target) \cap Expansion(q.target) # {} => r = q

\* A rule that the administrators have made is there for good, maybe changed.
NoRuleDeleted ==
    [][\A r \in rules : \E q \in rules' : q.target = r.target]_vars

\* What the agent is told of a target is no newer than the rule for it, and has
\* its message when it is as new.
AsNew(i) ==
    \E r \in rules :
        /\ i.target \in Expansion(r.target)
        /\ i.version <= r.version
        /\ i.version = r.version => i.custom_msg = r.custom_msg
MessagesTold ==
    /\ \A i \in installed : i.version > 0 => AsNew(i)
    /\ link.type \in {"queried", "rules"} =>
          \A e \in link.rules : e.policy # REMOVE => AsNew(e)

\* What the server has still to send to the agent, with these machine rules.
LeftToSend(tag_ids, rows) == ChangedRules(Expected(tag_ids), rows)

\* Each batch is a part of what is left, and when it is empty, nothing is left:
\* of the changes there are when all that is not acknowledged is cleaned up, if
\* no other request has committed rows after the clean up. Storing the batch
\* leaves the rest (once it is acknowledged), if what it says is still to be
\* sent: a sync during which nothing changes comes to its end. Not when two
\* rules are about the same target, which then take turns.
BatchesShrink ==
    [][OneRuleEach =>
        /\ NextBatch /\ Unacknowledged(link.cursor) \subseteq link.seen =>
              LET left == LeftToSend(link.tag_ids,
                                     Kept(link, Unacknowledged(link.cursor)))
              IN link'.rules \subseteq left /\ (link'.rules = {} => left = {})
        /\ link.type = "queried" /\ link'.type = "rules" =>
              \A tag_ids \in TagSets :
                 LET left == LeftToSend(tag_ids, Kept(link, link.dropped))
                 IN link.rules \subseteq left =>
                      LeftToSend(tag_ids, Kept(link, {}))' = left \ link.rules]_vars

\* The rules of a bundle have one of the policies the forms allow for bundles.
BundlePolicies == \A r \in rules : ValidBundlePolicy(r.target, r.policy)

\* A rule is in scope if any serial number, primary user or tag of its scope is
\* one of the machine (and none is excluded).
AnyScope ==
    \A r \in rules :
        /\ \/ SerialNumber \in r.scope.serial_numbers
           \/ PrimaryUser \in r.scope.primary_users
           \/ tags \cap r.scope.tags # {}
        /\ SerialNumber \notin r.scope.excluded_serial_numbers
        /\ PrimaryUser \notin r.scope.excluded_primary_users
        /\ tags \cap r.scope.excluded_tags = {}
        => InScope(r.scope, tags)

\* A sync ends: the batches of rules come to an end.
SyncEnds == link.type = "ruledownload" ~> link = Idle

\* Once the administrators are done and messages are not lost any more, the
\* agent comes out of its syncs with all the rules in scope.
Converges ==
    <>[](link = Idle => \A e \in Expected(tags) : \E i \in installed : Tells(i, e))
=============================================================================
