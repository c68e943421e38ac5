-------------------------- MODULE InventoryCommits --------------------------
(***************************************************************************)
(* The inventory of one source: machine snapshots, their commits, the      *)
(* current snapshot of each machine, and the events of each commit.        *)
(*                                                                         *)
(* A tree (what a source says of a machine) is committed in two parts:     *)
(*  - MTObjectManager.commit gets or creates the rows of the objects of    *)
(*    the tree, then the row of the snapshot, all of them found by hash;   *)
(*  - commit_machine_snapshot_tree adds a version to the commits of the    *)
(*    machine when the tree has changed, and makes the snapshot current.   *)
(* The events of the new version are posted next, from the difference with *)
(* the version before.                                                     *)
(*                                                                         *)
(* Three kinds of processes commit trees. The inventory worker (Syncer)    *)
(* commits the whole list of a source, then removes the machines that are  *)
(* not in it. The Reporters commit the tree of one machine: the Munki      *)
(* reports, the Osquery results and the Puppet preprocessor outside of a   *)
(* transaction ("autocommit"), the Jamf webhooks in one that ends before   *)
(* the events are posted ("atomic"), the Osquery enrollments, the Santa    *)
(* and MDM views in the one of their request, which ends after             *)
(* ("request"). Transactions are READ COMMITTED: what one of them has      *)
(* written is seen by the others when it ends, and keeps a second writer   *)
(* of the same key waiting; foreign keys are checked at COMMIT.            *)
(*                                                                         *)
(* Two abstractions: the objects of a tree are got or created in one step  *)
(* (the deadlocks of transactions that create the same ones in another     *)
(* order, which the database breaks, are left out), and the transaction of *)
(* cleanup_inventory_history is one step.                                  *)
(***************************************************************************)
EXTENDS Naturals, FiniteSets, Sequences

CONSTANTS Machines,     \* serial numbers
          Items,        \* the objects a tree is made of: applications, disks...
          Reporters,    \* processes that commit the tree of one machine
          Syncer,       \* the inventory worker of the source
          Contents,     \* what a tree may be made of
          Reported,     \* the machines the reporters commit the trees of
          Initially,    \* what the source has at first
          None,
          MaxChanges,   \* bound on the changes of the trees
          MaxUpsets     \* bound on the archivings, cleanups, crashes and
                        \* failed requests, taken together

ASSUME InventoryAssumption ==
    /\ Syncer \notin Reporters
    /\ Contents \subseteq SUBSET Items
    /\ Reported \subseteq Machines
    /\ Initially \subseteq [Machines -> {None} \union [items: Contents, stamp: {0}]]
    /\ MaxChanges \in Nat
    /\ MaxUpsets \in Nat

Trees == [items: Contents, stamp: Nat]
Bases == [v: Nat \ {0}, items: Contents, stamp: Nat]

ASSUME NoneAssumption == None \notin Contents \union Trees \union Bases

VARIABLES
    real,       \* machine -> the tree the source has for it, or None
    items,      \* the rows of the objects
    snapshots,  \* the rows of MachineSnapshot: <<machine, items>>
    commits,    \* the rows of MachineSnapshotCommit
    current,    \* machine -> items of its row of CurrentMachineSnapshot, or None
    ops,        \* process -> the tree it commits
    sync,       \* the synchronization under way: trees, seen machines
    log,        \* history: machine -> the tree of each version ever committed
    posted,     \* history: machine -> the versions whose events are posted
    budget      \* changes, edits and faults so far

vars == <<real, items, snapshots, commits, current, ops, sync, log, posted, budget>>
tables == <<items, snapshots, commits, current>>
history == <<log, posted>>

Processes == Reporters \union {Syncer}
Modes == {"autocommit", "atomic", "request"}
Versions == [m: Machines, v: Nat \ {0}, items: Contents, stamp: Nat]

NoOp == [pc |-> "idle"]
NoSync == [on |-> FALSE]

Idle(p) == ops[p].pc = "idle"
Upsets == budget.edits + budget.faults
Busy == {p \in Processes : ~ Idle(p)}
At(p, pc) == ops[p].pc = pc
Content(p) == ops[p].tree.items
SnapshotOf(p) == <<ops[p].m, Content(p)>>

-----------------------------------------------------------------------------
(* Transactions                                                            *)

(* What p has written and not committed keeps another process waiting when *)
(* it writes the same key.                                                 *)
Others(p) == Busy \ {p}
ItemsTaken(p) == \E q \in Others(p) : ops[q].wItems \intersect Content(p) # {}
SnapshotTaken(p) == \E q \in Others(p) : ops[q].wSnapshot /\ SnapshotOf(q) = SnapshotOf(p)
VersionTaken(p) ==
    \E q \in Others(p) : ops[q].wVersion /\ ops[q].m = ops[p].m /\ ops[q].new = ops[p].new
CurrentTaken(m, procs) == \E q \in procs : ops[q].wCurrent /\ ops[q].m = m

(* The last version of a machine, among the committed ones. *)
OfMachine(m) == {c \in commits : c.m = m}
IsLast(c, cs) == \A d \in cs : d.m = c.m => d.v <= c.v
LastOf(m) == CHOOSE c \in OfMachine(m) : IsLast(c, commits)

NewVersion(o) ==
    [m |-> o.m, v |-> o.new, items |-> o.tree.items, stamp |-> o.tree.stamp]

(* COMMIT of what the operation o has written. *)
ApplyNewOnly(o) ==  \* Variant: a tree without a new version is not made current
    /\ items' = items \union o.wItems
    /\ snapshots' = snapshots \union (IF o.wSnapshot THEN {<<o.m, o.tree.items>>} ELSE {})
    /\ commits' = commits \union (IF o.wVersion THEN {NewVersion(o)} ELSE {})
    /\ log' = IF o.wVersion THEN [log EXCEPT ![o.m] = Append(@, o.tree)] ELSE log
    /\ current' = IF o.wVersion THEN [current EXCEPT ![o.m] = o.tree.items] ELSE current
Apply(o) ==
    /\ items' = items \union o.wItems
    /\ snapshots' = snapshots \union (IF o.wSnapshot THEN {<<o.m, o.tree.items>>} ELSE {})
    /\ commits' = commits \union (IF o.wVersion THEN {NewVersion(o)} ELSE {})
    /\ log' = IF o.wVersion THEN [log EXCEPT ![o.m] = Append(@, o.tree)] ELSE log
    /\ current' = IF o.wCurrent THEN [current EXCEPT ![o.m] = o.tree.items] ELSE current

NothingWritten == UNCHANGED <<items, snapshots, commits, current, log>>

(* The operation of p is over. The worker goes on with its next machine;   *)
(* a machine that could be committed tells it the source.                  *)
Leave(p, saved) ==
    /\ ops' = [ops EXCEPT ![p] = NoOp]
    /\ sync' = IF p = Syncer THEN [sync EXCEPT !.saved = @ \/ saved] ELSE sync

Goto(p, pc) == ops' = [ops EXCEPT ![p].pc = pc]

(* An exception of commit_machine_snapshot_tree, logged and put aside as a *)
(* dead letter by its callers. The savepoints are rolled back, not what a  *)
(* request has written before them; a transaction of a webhook is.         *)
Fail(p) ==
    /\ NothingWritten
    /\ UNCHANGED posted
    /\ IF ops[p].mode = "request"
       THEN /\ ops' = [ops EXCEPT ![p] = [@ EXCEPT !.pc = "end", !.new = 0,
                                                   !.wVersion = FALSE, !.wCurrent = FALSE]]
            /\ UNCHANGED sync
       ELSE Leave(p, FALSE)

-----------------------------------------------------------------------------
(* The objects of the tree                                                 *)

(* MTObjectManager.commit starts with a look for the snapshot's hash. *)
Operation(m, tree, mode) ==
    [pc |-> IF <<m, tree.items>> \in snapshots THEN "last" ELSE "items",
     mode |-> mode, m |-> m, tree |-> tree,
     base |-> None, new |-> 0, lost |-> FALSE, baseLost |-> FALSE,
     wItems |-> {}, wSnapshot |-> FALSE, wVersion |-> FALSE, wCurrent |-> FALSE]

(* A device, or a webhook of the source, reports a machine. *)
Report(p, m, mode) ==
    /\ p \in Reporters
    /\ m \in Reported
    /\ Idle(p)
    /\ real[m] # None
    /\ ops' = [ops EXCEPT ![p] = Operation(m, real[m], mode)]
    /\ UNCHANGED <<real, tables, sync, history, budget>>

(* get, else create, of the objects; a concurrent creation is waited for. *)
CommitObjects(p) ==
    /\ At(p, "items")
    /\ ~ ItemsTaken(p)
    /\ LET new == Content(p) \ items
       IN  IF ops[p].mode = "autocommit"
           THEN /\ items' = items \union new
                /\ Goto(p, "save")
           ELSE /\ ops' = [ops EXCEPT ![p] = [@ EXCEPT !.pc = "save", !.wItems = new]]
                /\ UNCHANGED items
    /\ UNCHANGED <<real, snapshots, commits, current, sync, history, budget>>

(* The snapshot is saved with its objects. When that fails, it is looked   *)
(* for again: another process may have created it.                         *)
SaveSnapshot(p) ==
    /\ At(p, "save")
    /\ ~ SnapshotTaken(p)
    /\ \/ /\ SnapshotOf(p) \in snapshots
          /\ ops' = [ops EXCEPT ![p] = [@ EXCEPT !.pc = "last", !.lost = FALSE]]
          /\ UNCHANGED <<tables, sync, history>>
       \/ /\ SnapshotOf(p) \notin snapshots
          /\ ops[p].mode = "autocommit"
          /\ ~ ops[p].lost
          /\ snapshots' = snapshots \union {SnapshotOf(p)}
          /\ Goto(p, "last")
          /\ UNCHANGED <<items, commits, current, sync, history>>
       \/ /\ SnapshotOf(p) \notin snapshots
          /\ ops[p].mode = "autocommit"
          /\ ops[p].lost
          /\ Fail(p)
       \/ /\ SnapshotOf(p) \notin snapshots
          /\ ops[p].mode # "autocommit"
          /\ ops' = [ops EXCEPT ![p] = [@ EXCEPT !.pc = "last", !.wSnapshot = TRUE]]
          /\ UNCHANGED <<tables, sync, history>>
    /\ UNCHANGED <<real, budget>>

-----------------------------------------------------------------------------
(* The version and the current snapshot                                    *)

Base(c) == [v |-> c.v, items |-> c.items, stamp |-> c.stamp]
ChangedAlways(tree, base) ==  \* Variant: a naive and an aware last_seen always differ
    TRUE
Changed(tree, base) == base = None \/ base.items # tree.items \/ base.stamp # tree.stamp
VersionAfterZero(base) ==  \* Variant: the versions start at 0
    IF base = None THEN 0 ELSE base.v + 1
VersionAfter(base) == IF base = None THEN 1 ELSE base.v + 1

(* The last commit of the machine, if any, gives the version to create. *)
ReadLast(p) ==
    /\ At(p, "last")
    /\ LET base == IF OfMachine(ops[p].m) = {} THEN None ELSE Base(LastOf(ops[p].m))
           changed == Changed(ops[p].tree, base)
       IN  ops' = [ops EXCEPT ![p] = [@ EXCEPT !.pc = IF changed THEN "insert" ELSE "current",
                                               !.base = base,
                                               !.new = IF changed THEN VersionAfter(base) ELSE 0]]
    /\ UNCHANGED <<real, tables, sync, history, budget>>

(* Another tree has the version. *)
OvertakenIgnored(p) ==  \* Variant: the tree is made current without a version
    /\ ops' = [ops EXCEPT ![p] = [@ EXCEPT !.pc = "current", !.new = 0]]
    /\ UNCHANGED <<tables, sync, history>>
Overtaken(p) == Fail(p)

(* The version may have been created since the last one was read: with the *)
(* same snapshot nothing is left to do, else the tree is dropped.          *)
Rival(p) == {c \in OfMachine(ops[p].m) : c.v = ops[p].new}
InsertVersion(p) ==
    /\ At(p, "insert")
    /\ ~ VersionTaken(p)
    /\ \/ /\ Rival(p) = {}
          /\ ops' = [ops EXCEPT ![p] = [@ EXCEPT !.pc = "current", !.wVersion = TRUE]]
          /\ UNCHANGED <<tables, sync, history>>
       \/ /\ \E c \in Rival(p) : c.items = Content(p) /\ ~ ops[p].lost
          /\ UNCHANGED <<tables, history>>
          /\ CASE ops[p].mode = "autocommit" -> Leave(p, TRUE)
               [] ops[p].mode = "atomic" ->
                    /\ ops' = [ops EXCEPT ![p] = [@ EXCEPT !.pc = "commit", !.new = 0]]
                    /\ UNCHANGED sync
               [] ops[p].mode = "request" ->
                    /\ ops' = [ops EXCEPT ![p] = [@ EXCEPT !.pc = "end", !.new = 0]]
                    /\ UNCHANGED sync
       \/ /\ \E c \in Rival(p) : c.items # Content(p) \/ ops[p].lost
          /\ Overtaken(p)
    /\ UNCHANGED <<real, budget>>

(* A new version has events. *)
PostsChanged(o) ==  \* Variant: no events when the snapshot is the current one
    o.new # 0 /\ current[o.m] # o.tree.items
Posts(o) == o.new # 0

(* update_or_create of the current snapshot. Outside of a transaction it   *)
(* is the end of the one of the version: a snapshot deleted since it was   *)
(* found fails it.                                                         *)
UpdateCurrent(p) ==
    /\ At(p, "current")
    /\ ~ CurrentTaken(ops[p].m, Others(p))
    /\ LET o == [ops[p] EXCEPT !.wCurrent = TRUE]
       IN  \/ /\ o.mode = "autocommit"
              /\ ~ o.lost
              /\ Apply(o)
              /\ IF ~ Posts(o)
                 THEN Leave(p, TRUE)
                 ELSE /\ ops' = [ops EXCEPT ![p] = [@ EXCEPT !.pc = "post", !.wVersion = FALSE]]
                      /\ UNCHANGED sync
              /\ UNCHANGED posted
           \/ /\ o.mode = "autocommit"
              /\ o.lost
              /\ Fail(p)
           \/ /\ o.mode # "autocommit"
              /\ ops' = [ops EXCEPT ![p] =
                    [o EXCEPT !.pc = CASE o.mode = "atomic" -> "commit"
                                       [] o.mode = "request" /\ Posts(o) -> "post"
                                       [] OTHER -> "end"]]
              /\ UNCHANGED <<tables, sync, history>>
    /\ UNCHANGED <<real, budget>>

(* A row that refers to one that is gone fails the transaction. *)
Dangling(o) == o.lost /\ (o.wSnapshot \/ o.wVersion \/ o.wCurrent)

(* The end of the transaction of a webhook. *)
Committed(o) == [o EXCEPT !.wItems = {}, !.wSnapshot = FALSE, !.wVersion = FALSE,
                          !.wCurrent = FALSE]
Commit(p) ==
    /\ At(p, "commit")
    /\ IF Dangling(ops[p])
       THEN Fail(p)
       ELSE /\ Apply(ops[p])
            /\ IF ~ Posts(ops[p])
               THEN Leave(p, TRUE)
               ELSE /\ ops' = [ops EXCEPT ![p] = [Committed(@) EXCEPT !.pc = "post"]]
                    /\ UNCHANGED sync
            /\ UNCHANGED posted
    /\ UNCHANGED <<real, budget>>

-----------------------------------------------------------------------------
(* The events                                                              *)

(* The difference is computed from the rows when the events are posted: a  *)
(* snapshot deleted in the meantime has no objects anymore.                *)
BaseItemsNow(p) ==  \* Variant: the difference with the last version now
    LastOf(ops[p].m).items
BaseItems(p) == IF ops[p].baseLost THEN {} ELSE ops[p].base.items
SameSnapshot(p) == ops[p].base.items = Content(p)
Added(p) == IF SameSnapshot(p) THEN {} ELSE Content(p) \ BaseItems(p)
Removed(p) == IF SameSnapshot(p) THEN {} ELSE BaseItems(p) \ Content(p)

(* add_machine for the first version, else the difference. *)
PostEvents(p) ==
    /\ At(p, "post")
    /\ posted' = [posted EXCEPT ![ops[p].m] = @ \union {ops[p].new}]
    /\ IF ops[p].mode = "request"
       THEN Goto(p, "end") /\ UNCHANGED sync
       ELSE Leave(p, TRUE)
    /\ UNCHANGED <<real, tables, log, budget>>

(* The request and its transaction end, with an error when a row it refers *)
(* to is gone. The events of a request that fails are posted already: they *)
(* are taken back here, "posted" is about the versions that stand.         *)
Withdrawn(p) ==
    IF ops[p].wVersion THEN [posted EXCEPT ![ops[p].m] = @ \ {ops[p].new}] ELSE posted
EndRequest(p) ==
    /\ At(p, "end")
    /\ IF Dangling(ops[p])
       THEN NothingWritten /\ posted' = Withdrawn(p)
       ELSE Apply(ops[p]) /\ UNCHANGED posted
    /\ ops' = [ops EXCEPT ![p] = NoOp]
    /\ UNCHANGED <<real, sync, budget>>

(* The process dies, or the request fails later on. *)
Crash(p) ==
    /\ ~ Idle(p) \/ (p = Syncer /\ sync.on)
    /\ Upsets < MaxUpsets
    /\ budget' = [budget EXCEPT !.faults = @ + 1]
    /\ posted' = IF Idle(p) THEN posted ELSE Withdrawn(p)
    /\ ops' = [ops EXCEPT ![p] = NoOp]
    /\ sync' = IF p = Syncer THEN NoSync ELSE sync
    /\ NothingWritten
    /\ UNCHANGED real

-----------------------------------------------------------------------------
(* The synchronization of a source                                         *)

(* get_machines: the trees of the source as they are now. *)
SyncStart ==
    /\ ~ sync.on
    /\ sync' = [on |-> TRUE, trees |-> real, seen |-> {}, saved |-> FALSE]
    /\ UNCHANGED <<real, tables, ops, history, budget>>

Found == {m \in Machines : sync.trees[m] # None}

(* The next machine. It is seen, whatever becomes of its commit. *)
SyncNext(m) ==
    /\ sync.on
    /\ Idle(Syncer)
    /\ m \in Found \ sync.seen
    /\ sync' = [sync EXCEPT !.seen = @ \union {m}]
    /\ ops' = [ops EXCEPT ![Syncer] = Operation(m, sync.trees[m], "autocommit")]
    /\ UNCHANGED <<real, tables, history, budget>>

SyncOverEarly ==  \* Variant: an error of get_machines is not passed on
    TRUE
SyncOver == sync.seen = Found

(* The machines not seen are removed, once one has been committed. *)
SyncEnd ==
    /\ sync.on
    /\ Idle(Syncer)
    /\ SyncOver
    /\ \A m \in Machines \ sync.seen : ~ CurrentTaken(m, Busy)
    /\ current' = IF sync.saved
                  THEN [m \in Machines |-> IF m \in sync.seen THEN current[m] ELSE None]
                  ELSE current
    /\ sync' = NoSync
    /\ UNCHANGED <<real, items, snapshots, commits, ops, history, budget>>

-----------------------------------------------------------------------------
(* The machines, the administrators and the time                           *)

(* The source has something else for a machine, or has it no longer. *)
Change(m) ==
    /\ budget.changes < MaxChanges
    /\ budget' = [budget EXCEPT !.changes = @ + 1]
    /\ \E s \in Contents, d \in 0..1 :
         real' = [real EXCEPT ![m] =
                    [items |-> s, stamp |-> IF @ = None THEN 0 ELSE @.stamp + d]]
    /\ real' # real
    /\ UNCHANGED <<tables, ops, sync, history>>

Unlist(m) ==
    /\ budget.changes < MaxChanges
    /\ real[m] # None
    /\ budget' = [budget EXCEPT !.changes = @ + 1]
    /\ real' = [real EXCEPT ![m] = None]
    /\ UNCHANGED <<tables, ops, sync, history>>

(* MetaMachine.archive *)
Archive(m) ==
    /\ Upsets < MaxUpsets
    /\ ~ CurrentTaken(m, Busy)
    /\ current[m] # None
    /\ budget' = [budget EXCEPT !.edits = @ + 1]
    /\ current' = [current EXCEPT ![m] = None]
    /\ UNCHANGED <<real, items, snapshots, commits, ops, sync, history>>

(* cleanup_inventory_history: the versions made before the retention days  *)
(* ("recent" are the others), but the last one of each machine; then the   *)
(* snapshots without a version, the objects without a snapshot. No commit  *)
(* lasts that long: the versions made since one read the last are recent.  *)
Fresh(c) == \E p \in Busy : ops[p].m = c.m /\ ops[p].new # 0 /\ ops[p].new <= c.v
RecentVersions ==
    {recent \in SUBSET commits :
        /\ {c \in commits : Fresh(c)} \subseteq recent
        /\ \A c \in commits, d \in recent : d.m = c.m /\ d.v < c.v => c \in recent}
KeptSnapshots(kept) == {s \in snapshots : \E c \in kept : s = <<c.m, c.items>>}
KeptItems(kept) == {i \in items : \E s \in KeptSnapshots(kept) : i \in s[2]}

(* The operations that hold a row that is deleted. *)
HeldGone(o, kept) ==
    \/ /\ o.pc = "save" \/ o.wSnapshot
       /\ ~ (o.tree.items \subseteq (KeptItems(kept) \union o.wItems))
    \/ /\ o.pc \notin {"items", "save"} /\ ~ o.wSnapshot
       /\ <<o.m, o.tree.items>> \notin KeptSnapshots(kept)
BaseGone(o, kept) == o.base # None /\ <<o.m, o.base.items>> \notin KeptSnapshots(kept)

KeptRecent(recent) ==  \* Variant: the date of the last version is not a limit
    recent
Kept(recent) == recent \union {c \in commits : IsLast(c, commits)}

(* It fails when a current snapshot would go. *)
Cleanup ==
    /\ Upsets < MaxUpsets
    /\ budget' = [budget EXCEPT !.edits = @ + 1]
    /\ \E recent \in RecentVersions :
         LET kept == Kept(recent)
         IN  /\ \A m \in Machines : current[m] # None => <<m, current[m]>> \in KeptSnapshots(kept)
             /\ commits' = kept
             /\ snapshots' = KeptSnapshots(kept)
             /\ items' = KeptItems(kept)
             /\ ops' = [p \in Processes |->
                          IF Idle(p) THEN ops[p]
                          ELSE [ops[p] EXCEPT !.lost = @ \/ HeldGone(ops[p], kept),
                                              !.baseLost = @ \/ BaseGone(ops[p], kept)]]
    /\ UNCHANGED <<real, current, sync, history>>

-----------------------------------------------------------------------------
Init ==
    /\ real \in Initially
    /\ items = {}
    /\ snapshots = {}
    /\ commits = {}
    /\ current = [m \in Machines |-> None]
    /\ ops = [p \in Processes |-> NoOp]
    /\ sync = NoSync
    /\ log = [m \in Machines |-> <<>>]
    /\ posted = [m \in Machines |-> {}]
    /\ budget = [changes |-> 0, edits |-> 0, faults |-> 0]

Step(p) ==
    \/ CommitObjects(p)
    \/ SaveSnapshot(p)
    \/ ReadLast(p)
    \/ InsertVersion(p)
    \/ UpdateCurrent(p)
    \/ Commit(p)
    \/ PostEvents(p)
    \/ EndRequest(p)

SyncStep == SyncStart \/ (\E m \in Machines : SyncNext(m)) \/ SyncEnd

Next ==
    \/ \E p \in Processes : Step(p) \/ Crash(p)
    \/ \E p \in Reporters, m \in Machines, mode \in Modes : Report(p, m, mode)
    \/ SyncStep
    \/ \E m \in Machines : Change(m) \/ Unlist(m) \/ Archive(m)
    \/ Cleanup

Spec == Init /\ [][Next]_vars

(* A process that commits a tree goes on, the inventory worker loops, and  *)
(* the transactions that wait for a row have it in turn.                   *)
Fairness == /\ \A p \in Processes : WF_vars(Step(p)) /\ SF_vars(UpdateCurrent(p))
            /\ WF_vars(SyncStep)
FairSpec == Spec /\ Fairness

-----------------------------------------------------------------------------
(* Properties                                                              *)

OpType ==
    [pc: {"items", "save", "last", "insert", "current", "commit", "post", "end"},
     mode: Modes, m: Machines, tree: Trees,
     base: {None} \union Bases,
     new: Nat, lost: BOOLEAN, baseLost: BOOLEAN,
     wItems: SUBSET Items, wSnapshot: BOOLEAN, wVersion: BOOLEAN, wCurrent: BOOLEAN]

RowsOK ==
    /\ items \subseteq Items
    /\ snapshots \subseteq Machines \X Contents
    /\ commits \subseteq Versions
    /\ current \in [Machines -> {None} \union Contents]
    /\ log \in [Machines -> Seq(Trees)]

SyncOK ==
    /\ sync \in {NoSync} \union
                 [on: {TRUE}, trees: [Machines -> {None} \union Trees],
                  seen: SUBSET Machines, saved: BOOLEAN]
    /\ sync.on => sync.seen \subseteq Found
    /\ ~ Idle(Syncer) => sync.on

(* The types of the variables; the worker commits trees while it synchronizes. *)
TypeOK ==
    /\ real \in [Machines -> {None} \union Trees]
    /\ RowsOK
    /\ ops \in [Processes -> {NoOp} \union OpType]
    /\ SyncOK
    /\ posted \in [Machines -> SUBSET Nat]
    /\ budget \in [changes: 0..MaxChanges, edits: 0..MaxUpsets, faults: 0..MaxUpsets]

(* The snapshot the inventory shows for a machine is one that was recorded *)
(* in a version of its history, whichever processes raced to commit it.    *)
CurrentRecorded ==
    \A m \in Machines :
        current[m] # None => \E v \in DOMAIN log[m] : log[m][v].items = current[m]

(* The cleanup keeps the last version of each machine, archived or not:    *)
(* the next one follows it, no version number is used twice.               *)
LastKept ==
    \A m \in Machines :
        /\ \A c \in OfMachine(m) : c.v <= Len(log[m])
        /\ log[m] # <<>> => \E c \in OfMachine(m) : c.v = Len(log[m])

(* A version is only made of something new, also when two processes have   *)
(* read the same last version.                                             *)
VersionsDiffer ==
    \A m \in Machines :
        \A v \in DOMAIN log[m] : v > 1 => log[m][v] # log[m][v - 1]

(* The events of a version are posted by the process that made it: each    *)
(* crash loses those of one version at most.                               *)
Silent(m) == {v \in DOMAIN log[m] : v \notin posted[m]}
InTheMaking(m, v) == \E p \in Busy : At(p, "post") /\ ops[p].m = m /\ ops[p].new = v
VersionsPosted ==
    Cardinality(UNION {{<<m, v>> : v \in {w \in Silent(m) : ~ InTheMaking(m, w)}} : m \in Machines})
        <= budget.faults

(* The events of a version are posted once. Added to and removed from the  *)
(* version before, they give the version, as long as the cleanup has not   *)
(* deleted the snapshot of the version before in the meantime.             *)
Describes(p) ==
    /\ ops[p].new \notin posted[ops[p].m]
    /\ IF ops[p].new = 1
       THEN ops[p].base = None
       ELSE LET before == log[ops[p].m][ops[p].new - 1].items
            IN  ~ ops[p].baseLost => (before \ Removed(p)) \union Added(p) = Content(p)
EventsDescribe ==
    [][\A p \in Processes : PostEvents(p) => Describes(p)]_vars

(* A machine disappears from the inventory when an administrator archives  *)
(* it, or at the end of a synchronization that did not find it: never for  *)
(* a commit that failed or a list that was cut short.                      *)
RemovedUnlisted ==
    [][\A m \in Machines :
         current[m] # None /\ current'[m] = None
             => \/ budget'.edits > budget.edits
                \/ sync.on /\ m \notin Found]_vars

Listed == {m \in Machines : real[m] # None}

(* Once the source does not change, its machines have their snapshots in   *)
(* the inventory for good, and the others have none, after all the races   *)
(* with late reports, archivings and cleanups (a source without machines   *)
(* removes none).                                                          *)
Converges ==
    <>[](Listed # {} =>
           \A m \in Machines :
              current[m] = IF m \in Listed THEN real[m].items ELSE None)

-----------------------------------------------------------------------------
(* The inductive invariant                                                 *)

TreeOf(c) == [items |-> c.items, stamp |-> c.stamp]
Recorded(m, content) == \E v \in DOMAIN log[m] : log[m][v].items = content

(* The rows of the versions are those of the history. *)
CommitsLogged ==
    \A c \in commits : c.v \in DOMAIN log[c.m] /\ log[c.m][c.v] = TreeOf(c)

(* A version in the making follows the version it was compared with. *)
Follows(o) ==
    /\ o.new = VersionAfter(o.base)
    /\ o.base # None => TreeOf(o.base) # o.tree

(* What an operation knows, and has written. *)
BaseLogged(o) ==
    o.base # None => /\ o.base.v \in DOMAIN log[o.m]
                     /\ log[o.m][o.base.v] = TreeOf(o.base)
NotRead(o) ==
    o.pc \in {"items", "save", "last"} =>
        o.new = 0 /\ o.base = None /\ ~ o.wVersion /\ ~ o.wCurrent
Inserting(o) ==
    o.pc = "insert" =>
        /\ Follows(o) /\ ~ o.wVersion /\ ~ o.wCurrent
        /\ \A v \in DOMAIN log[o.m] : o.new <= v => \E c \in OfMachine(o.m) : c.v = v
Updating(o) ==
    o.pc = "current" =>
        /\ IF o.new = 0 THEN Recorded(o.m, o.tree.items) ELSE o.wVersion
        /\ ~ o.wCurrent
Committing(o) == o.pc = "commit" => o.new = 0 \/ o.wVersion
Posting(o) ==
    o.pc = "post" =>
        /\ Follows(o)
        /\ o.wVersion => o.mode = "request"
        /\ ~ o.wVersion => o.new \in DOMAIN log[o.m] /\ log[o.m][o.new] = o.tree
        /\ o.new \notin posted[o.m]
WritingVersion(o) == o.wVersion => o.new = Len(log[o.m]) + 1 /\ Follows(o)
WritingCurrent(o) == o.wCurrent => o.wVersion \/ Recorded(o.m, o.tree.items)
OpInv(o) ==
    /\ BaseLogged(o) /\ NotRead(o) /\ Inserting(o) /\ Updating(o)
    /\ Committing(o) /\ Posting(o) /\ WritingVersion(o) /\ WritingCurrent(o)

(* A version is made by one process, and posted by the one that made it. *)
Makes(o) == o.wVersion \/ o.pc = "post"
OneMaker ==
    \A p, q \in Busy :
        Makes(ops[p]) /\ Makes(ops[q]) /\ ops[p].m = ops[q].m /\ ops[p].new = ops[q].new
            => p = q
PostedMade ==
    \A m \in Machines : \A v \in posted[m] :
        \/ v \in DOMAIN log[m]
        \/ \E p \in Busy : At(p, "end") /\ ops[p].wVersion /\ ops[p].m = m /\ ops[p].new = v

(* A request that ends with a new version has posted its events. *)
EndPosted ==
    \A p \in Busy : At(p, "end") /\ ops[p].wVersion => ops[p].new \in posted[ops[p].m]

InventoryInv ==
    /\ TypeOK /\ CommitsLogged /\ LastKept /\ CurrentRecorded /\ VersionsDiffer
    /\ \A p \in Busy : OpInv(ops[p])
    /\ OneMaker /\ PostedMade
=============================================================================
