----------------------- MODULE InventoryCommitsProofs -----------------------
(***************************************************************************)
(* Proofs about InventoryCommits, for any number of machines, objects,     *)
(* processes, changes, archivings, cleanups and crashes.                   *)
(***************************************************************************)
EXTENDS InventoryCommits, FiniteSetTheorems, TLAPS

-----------------------------------------------------------------------------
(* Operations                                                              *)

LEMMA BusyType ==
    ASSUME TypeOK, NEW p \in Processes
    PROVE  /\ p \in Busy <=> ops[p] # NoOp
           /\ p \in Busy => ops[p] \in OpType
           /\ p \notin Busy => ops[p] = NoOp
BY DEF TypeOK, Busy, Idle, OpType, NoOp

LEMMA VersionAfterType ==
    ASSUME NEW base \in {None} \union Bases
    PROVE  /\ VersionAfter(base) \in Nat \ {0}
           /\ base # None => base \in Bases /\ VersionAfter(base) = base.v + 1
           /\ base = None => VersionAfter(base) = 1
BY DEF VersionAfter, Bases

(* What an operation writes or forgets leaves an operation. *)
LEMMA OpTypeFields ==
    ASSUME NEW o \in OpType
    PROVE  /\ o.pc # "idle" /\ o.m \in Machines /\ o.tree \in Trees /\ o.new \in Nat
           /\ o.base \in {None} \union Bases /\ o.mode \in Modes
           /\ o.wVersion \in BOOLEAN /\ o.wCurrent \in BOOLEAN /\ o.lost \in BOOLEAN
           /\ o.wItems \subseteq Items /\ o.wSnapshot \in BOOLEAN /\ o.tree.items \in Contents
BY DEF OpType, Trees

-----------------------------------------------------------------------------
(* A step of one process that touches no row but those of the objects.     *)

OpStep(p, o) ==
    /\ UNCHANGED <<commits, current, log, posted>>
    /\ ops' = [ops EXCEPT ![p] = o]

\* The other operations see the same rows.
LEMMA SameRows ==
    ASSUME NEW o, UNCHANGED <<commits, log, posted>>
    PROVE  OpInv(o)' <=> OpInv(o)
BY DEF OpInv, BaseLogged, NotRead, Inserting, Updating, Committing, Posting, WritingVersion,
       WritingCurrent, Follows, Recorded, OfMachine

NewMaker(p, o) ==
    Makes(o) => \A q \in Busy \ {p} :
                   ~ (Makes(ops[q]) /\ ops[q].m = o.m /\ ops[q].new = o.new)
Witness(p) == At(p, "end") /\ ops[p].wVersion

LEMMA OpStepInv ==
    ASSUME InventoryInv, TypeOK', NEW p \in Processes, NEW o,
           OpStep(p, o),
           o # NoOp => OpInv(o) /\ NewMaker(p, o),
           p \in Busy => ~ Witness(p)
    PROVE  InventoryInv'
<1> USE DEF InventoryInv
<1>a. /\ ops \in [Processes -> {NoOp} \union OpType]
      /\ ops' \in [Processes -> {NoOp} \union OpType]
  BY DEF TypeOK
<1>b. ops'[p] = o /\ \A q \in Processes \ {p} : ops'[q] = ops[q]
  BY <1>a DEF OpStep
<1>c. /\ Busy' \subseteq Processes /\ Busy \subseteq Processes
      /\ \A q \in Processes \ {p} : q \in Busy' <=> q \in Busy
      /\ p \in Busy' <=> o # NoOp
  <2>1. p \in Busy' <=> ops'[p] # NoOp
    BY <1>a DEF Busy, Idle, OpType, NoOp
  <2> QED BY <2>1, <1>b DEF Busy, Idle
<1>1. CommitsLogged' /\ LastKept' /\ CurrentRecorded' /\ VersionsDiffer'
  BY DEF OpStep, CommitsLogged, LastKept, CurrentRecorded, VersionsDiffer, OfMachine
<1>2. ASSUME NEW q \in Busy' PROVE OpInv(ops[q])'
  <2>1. OpInv(ops'[q])
    <3>1. CASE q = p
      BY <3>1, <1>b, <1>c
    <3>2. CASE q # p
      BY <3>2, <1>b, <1>c
    <3> QED BY <3>1, <3>2
  <2> DEFINE x == ops'[q]
  <2>2. ASSUME NEW y, OpInv(y) PROVE OpInv(y)'
    BY <2>2, SameRows DEF OpStep
  <2> QED BY <2>1, <2>2, <1>c DEF OpStep, OpInv, BaseLogged, NotRead, Inserting, Updating,
       Committing, Posting, WritingVersion, WritingCurrent, Follows, Recorded, OfMachine
<1>3. OneMaker'
  <2> SUFFICES ASSUME NEW q \in Busy', NEW r \in Busy', q # r,
                      Makes(ops'[q]), Makes(ops'[r]), ops'[q].m = ops'[r].m,
                      ops'[q].new = ops'[r].new
               PROVE  FALSE
    BY DEF OneMaker, Makes
  <2>1. CASE q = p
    BY <2>1, <1>b, <1>c DEF NewMaker
  <2>2. CASE r = p
    BY <2>2, <1>b, <1>c DEF NewMaker
  <2>3. CASE q # p /\ r # p
    BY <2>3, <1>b, <1>c DEF OneMaker
  <2> QED BY <2>1, <2>2, <2>3
<1>4. PostedMade'
  <2> SUFFICES ASSUME NEW m \in Machines, NEW v \in posted[m], v \notin DOMAIN log[m]
               PROVE  \E q \in Busy' : /\ ops'[q].pc = "end" /\ ops'[q].wVersion
                                       /\ ops'[q].m = m /\ ops'[q].new = v
    BY DEF OpStep, PostedMade, At
  <2>1. PICK q \in Busy : At(q, "end") /\ ops[q].wVersion /\ ops[q].m = m /\ ops[q].new = v
    BY DEF PostedMade
  <2>2. q # p
    BY <2>1 DEF Witness
  <2> QED BY <2>1, <2>2, <1>b, <1>c DEF At
<1> QED BY <1>1, <1>2, <1>3, <1>4

-----------------------------------------------------------------------------
(* Types                                                                   *)

\* The end of an operation.
LEMMA LeaveType ==
    ASSUME TypeOK, NEW p \in Busy, NEW saved \in BOOLEAN, Leave(p, saved)
    PROVE  ops' \in [Processes -> {NoOp} \union OpType] /\ SyncOK'
<1>1. ops \in [Processes -> {NoOp} \union OpType] /\ SyncOK
  BY DEF TypeOK
<1>2. /\ ops' \in [Processes -> {NoOp} \union OpType]
      /\ p \in Processes /\ ops'[p] = NoOp
      /\ \A q \in Processes \ {p} : ops'[q] = ops[q]
  BY <1>1 DEF Leave, Busy
<1>3. CASE p = Syncer
  <2>1. sync.on
    BY <1>1, <1>3 DEF SyncOK, Found, Busy
  <2>2. sync # NoSync
    BY <2>1 DEF NoSync
  <2>3. sync \in [on: {TRUE}, trees: [Machines -> {None} \union Trees],
                  seen: SUBSET Machines, saved: BOOLEAN]
    BY <1>1, <2>2 DEF SyncOK, Found
  <2>4. sync' = [sync EXCEPT !.saved = sync.saved \/ saved]
    BY <1>3 DEF Leave
  <2>5. /\ sync' \in [on: {TRUE}, trees: [Machines -> {None} \union Trees],
                       seen: SUBSET Machines, saved: BOOLEAN]
        /\ sync'.seen = sync.seen /\ sync'.trees = sync.trees /\ sync'.on
    BY <2>3, <2>4, <2>1
  <2> QED BY <1>1, <1>2, <2>1, <2>5 DEF SyncOK, Found
<1>4. CASE p # Syncer
  <2>1. sync' = sync
    BY <1>4 DEF Leave
  <2>2. Idle(Syncer)' <=> Idle(Syncer)
    BY <1>2, <1>4 DEF Idle, Processes
  <2> QED BY <1>1, <1>2, <2>1, <2>2 DEF SyncOK, Found
<1> QED BY <1>3, <1>4

\* The operation of a process goes on.
LEMMA GoOnType ==
    ASSUME TypeOK, NEW p \in Busy, NEW o \in OpType,
           ops' = [ops EXCEPT ![p] = o], UNCHANGED sync
    PROVE  ops' \in [Processes -> {NoOp} \union OpType] /\ SyncOK'
<1>1. ops \in [Processes -> {NoOp} \union OpType] /\ SyncOK
  BY DEF TypeOK
<1>2. /\ ops' \in [Processes -> {NoOp} \union OpType]
      /\ \A q \in Processes \ {p} : ops'[q] = ops[q]
  BY <1>1 DEF Busy
<1>3. ~ Idle(Syncer)' => ~ Idle(Syncer)
  BY <1>2 DEF Idle, Processes, Busy
<1> QED BY <1>1, <1>2, <1>3 DEF SyncOK, Found

LEMMA FailType ==
    ASSUME TypeOK, NEW p \in Busy, Fail(p)
    PROVE  RowsOK' /\ ops' \in [Processes -> {NoOp} \union OpType] /\ SyncOK'
<1>1. RowsOK'
  BY DEF TypeOK, RowsOK, Fail, NothingWritten
<1>2. ops[p] \in OpType
  BY BusyType DEF Busy
<1>3. CASE ops[p].mode = "request"
  <2> DEFINE o == [ops[p] EXCEPT !.pc = "end", !.new = 0, !.wVersion = FALSE, !.wCurrent = FALSE]
  <2>1. o \in OpType
    BY <1>2 DEF OpType
  <2>2. ops' = [ops EXCEPT ![p] = o] /\ UNCHANGED sync
    BY <1>3 DEF Fail
  <2> HIDE DEF o
  <2> QED BY <1>1, <2>1, <2>2, GoOnType
<1>4. CASE ops[p].mode # "request"
  BY <1>1, <1>4, LeaveType DEF Fail
<1> QED BY <1>3, <1>4

\* COMMIT
LEMMA ApplyType ==
    ASSUME TypeOK, NEW o \in OpType, Apply(o), o.wVersion => o.new > 0
    PROVE  RowsOK'
<1>1. RowsOK
  BY DEF TypeOK
<1>2. /\ o.m \in Machines /\ o.tree \in Trees /\ o.new \in Nat /\ o.wItems \subseteq Items
      /\ o.tree.items \in Contents /\ o.tree.stamp \in Nat
  BY DEF OpType, Trees
<1>3. items' \subseteq Items
  BY <1>1, <1>2 DEF RowsOK, Apply
<1>4. snapshots' \subseteq Machines \X Contents
  BY <1>1, <1>2 DEF RowsOK, Apply
<1>5. commits' \subseteq Versions
  BY <1>1, <1>2 DEF RowsOK, Apply, NewVersion, Versions
<1>6. current' \in [Machines -> {None} \union Contents]
  BY <1>1, <1>2 DEF RowsOK, Apply
<1>7. log' \in [Machines -> Seq(Trees)]
  BY <1>1, <1>2 DEF RowsOK, Apply
<1> QED BY <1>3, <1>4, <1>5, <1>6, <1>7 DEF RowsOK

\* A process goes on, or leaves, without another row.
LEMMA GoOnTypeOK ==
    ASSUME TypeOK, NEW p \in Busy, NEW o \in OpType,
           ops' = [ops EXCEPT ![p] = o], UNCHANGED <<real, sync, posted, budget>>, RowsOK'
    PROVE  TypeOK'
<1>1. ops' \in [Processes -> {NoOp} \union OpType] /\ SyncOK'
  BY GoOnType
<1> QED BY <1>1 DEF TypeOK

LEMMA LeaveTypeOK ==
    ASSUME TypeOK, NEW p \in Busy, NEW saved \in BOOLEAN, Leave(p, saved),
           UNCHANGED <<real, posted, budget>>, RowsOK'
    PROVE  TypeOK'
<1>1. ops' \in [Processes -> {NoOp} \union OpType] /\ SyncOK'
  BY LeaveType
<1> QED BY <1>1 DEF TypeOK

LEMMA SameRowsOK ==
    ASSUME RowsOK, UNCHANGED <<tables, log>>
    PROVE  RowsOK'
BY DEF RowsOK, tables

-----------------------------------------------------------------------------
(* The steps of a process                                                  *)

LEMMA LeaveInv ==
    ASSUME InventoryInv, NEW p \in Busy, NEW saved \in BOOLEAN, Leave(p, saved),
           ops[p].pc # "end", UNCHANGED <<real, tables, history, budget>>
    PROVE  InventoryInv'
<1>1. TypeOK'
  BY LeaveTypeOK, SameRowsOK DEF InventoryInv, TypeOK, tables, history
<1>2. OpStep(p, NoOp)
  BY DEF OpStep, Leave, tables, history
<1> QED BY <1>1, <1>2, OpStepInv DEF Busy, Witness, At

LEMMA FailInv ==
    ASSUME InventoryInv, NEW p \in Busy, Fail(p), ops[p].pc # "end",
           UNCHANGED <<real, budget>>
    PROVE  InventoryInv'
<1>1. TypeOK'
  BY FailType DEF InventoryInv, TypeOK, Fail
<1>2. ops[p] \in OpType /\ OpInv(ops[p])
  BY BusyType DEF InventoryInv, Busy
<1>3. CASE ops[p].mode = "request"
  <2> DEFINE o == [ops[p] EXCEPT !.pc = "end", !.new = 0, !.wVersion = FALSE, !.wCurrent = FALSE]
  <2>1. OpStep(p, o)
    BY <1>3 DEF Fail, OpStep, NothingWritten
  <2>2. OpInv(o)
    BY <1>2 DEF OpInv, OpType, BaseLogged, NotRead, Inserting, Updating, Committing, Posting,
                WritingVersion, WritingCurrent
  <2>3. ~ Makes(o)
    BY <1>2 DEF OpType, Makes
  <2> HIDE DEF o
  <2> QED BY <1>1, <2>1, <2>2, <2>3, OpStepInv DEF Busy, Witness, At, NewMaker
<1>4. CASE ops[p].mode # "request"
  <2>1. OpStep(p, NoOp)
    BY <1>4 DEF Fail, OpStep, NothingWritten, Leave
  <2> QED BY <1>1, <2>1, OpStepInv DEF Busy, Witness, At
<1> QED BY <1>3, <1>4

\* The process p, busy, goes on as o.
LEMMA GoOnInv ==
    ASSUME InventoryInv, NEW p \in Busy, NEW o \in OpType,
           ops' = [ops EXCEPT ![p] = o], ops[p].pc # "end",
           UNCHANGED <<real, sync, history, budget, commits, current>>,
           items' \subseteq Items, snapshots' \subseteq Machines \X Contents,
           OpInv(o), NewMaker(p, o)
    PROVE  InventoryInv'
<1>1. RowsOK'
  BY DEF InventoryInv, TypeOK, RowsOK, history
<1>2. TypeOK'
  BY <1>1, GoOnTypeOK DEF InventoryInv, history
<1>3. OpStep(p, o)
  BY DEF OpStep, history
<1> QED BY <1>2, <1>3, OpStepInv DEF Busy, Witness, At

LEMMA CommitObjectsInv ==
    ASSUME InventoryInv, NEW p \in Processes, CommitObjects(p)
    PROVE  InventoryInv'
<1>1. p \in Busy
  BY DEF CommitObjects, At, Busy, Idle
<1>2. ops[p] \in OpType /\ OpInv(ops[p]) /\ ops[p].pc = "items"
  BY <1>1, BusyType DEF InventoryInv, CommitObjects, At, Busy
<1>3. RowsOK
  BY DEF InventoryInv, TypeOK
<1> DEFINE new == Content(p) \ items
           o == [ops[p] EXCEPT !.pc = "save"]
           ow == [ops[p] EXCEPT !.pc = "save", !.wItems = new]
<1>4. Content(p) \subseteq Items
  BY <1>2, OpTypeFields, InventoryAssumption DEF Content
<1>5. o \in OpType /\ ow \in OpType
  BY <1>2, <1>4 DEF OpType
<1>6. OpInv(o) /\ ~ Makes(o)
  BY <1>2 DEF OpInv, OpType, BaseLogged, NotRead, Inserting, Updating, Committing, Posting,
              WritingVersion, WritingCurrent, Makes
<1>7. OpInv(ow) /\ ~ Makes(ow)
  BY <1>2 DEF OpInv, OpType, BaseLogged, NotRead, Inserting, Updating, Committing, Posting,
              WritingVersion, WritingCurrent, Makes
<1>8. items' \subseteq Items /\ snapshots' \subseteq Machines \X Contents
  BY <1>3, <1>4 DEF CommitObjects, RowsOK
<1>9. /\ ops' = [ops EXCEPT ![p] = o] \/ ops' = [ops EXCEPT ![p] = ow]
      /\ UNCHANGED <<real, sync, history, budget, commits, current>>
  BY DEF CommitObjects, Goto
<1> HIDE DEF o, ow
<1>10. CASE ops' = [ops EXCEPT ![p] = o]
  BY <1>1, <1>2, <1>5, <1>6, <1>8, <1>9, <1>10, GoOnInv DEF NewMaker
<1>11. CASE ops' = [ops EXCEPT ![p] = ow]
  BY <1>1, <1>2, <1>5, <1>7, <1>8, <1>9, <1>11, GoOnInv DEF NewMaker
<1> QED BY <1>9, <1>10, <1>11

LEMMA SaveSnapshotInv ==
    ASSUME InventoryInv, NEW p \in Processes, SaveSnapshot(p)
    PROVE  InventoryInv'
<1>1. p \in Busy
  BY DEF SaveSnapshot, At, Busy, Idle
<1>2. ops[p] \in OpType /\ OpInv(ops[p]) /\ ops[p].pc = "save"
  BY <1>1, BusyType DEF InventoryInv, SaveSnapshot, At, Busy
<1>3. RowsOK
  BY DEF InventoryInv, TypeOK
<1> DEFINE found == [ops[p] EXCEPT !.pc = "last", !.lost = FALSE]
           saved == [ops[p] EXCEPT !.pc = "last"]
           written == [ops[p] EXCEPT !.pc = "last", !.wSnapshot = TRUE]
<1>4. found \in OpType /\ saved \in OpType /\ written \in OpType
  BY <1>2 DEF OpType
<1>5. OpInv(found) /\ ~ Makes(found)
  BY <1>2 DEF OpInv, OpType, BaseLogged, NotRead, Inserting, Updating, Committing, Posting,
              WritingVersion, WritingCurrent, Makes
<1>6. OpInv(saved) /\ ~ Makes(saved)
  BY <1>2 DEF OpInv, OpType, BaseLogged, NotRead, Inserting, Updating, Committing, Posting,
              WritingVersion, WritingCurrent, Makes
<1>7. OpInv(written) /\ ~ Makes(written)
  BY <1>2 DEF OpInv, OpType, BaseLogged, NotRead, Inserting, Updating, Committing, Posting,
              WritingVersion, WritingCurrent, Makes
<1>8. SnapshotOf(p) \in Machines \X Contents
  BY <1>2, OpTypeFields DEF SnapshotOf, Content
<1>9. \/ /\ \/ ops' = [ops EXCEPT ![p] = found]
            \/ ops' = [ops EXCEPT ![p] = saved]
            \/ ops' = [ops EXCEPT ![p] = written]
         /\ UNCHANGED <<real, sync, history, budget, items, commits, current>>
         /\ snapshots' \subseteq snapshots \union {SnapshotOf(p)}
      \/ Fail(p) /\ UNCHANGED <<real, budget>>
  BY DEF SaveSnapshot, Goto, tables
<1>10. CASE Fail(p) /\ UNCHANGED <<real, budget>>
  BY <1>1, <1>2, <1>10, FailInv
<1>11. CASE ~ Fail(p)
  <2>1. items' \subseteq Items /\ snapshots' \subseteq Machines \X Contents
    BY <1>3, <1>8, <1>9, <1>11 DEF RowsOK
  <2>2. UNCHANGED <<real, sync, history, budget, commits, current>>
    BY <1>9, <1>11
  <2> HIDE DEF found, saved, written
  <2>3. CASE ops' = [ops EXCEPT ![p] = found]
    BY <1>1, <1>2, <1>4, <1>5, <2>1, <2>2, <2>3, GoOnInv DEF NewMaker
  <2>4. CASE ops' = [ops EXCEPT ![p] = saved]
    BY <1>1, <1>2, <1>4, <1>6, <2>1, <2>2, <2>4, GoOnInv DEF NewMaker
  <2>5. CASE ops' = [ops EXCEPT ![p] = written]
    BY <1>1, <1>2, <1>4, <1>7, <2>1, <2>2, <2>5, GoOnInv DEF NewMaker
  <2> QED BY <1>9, <1>11, <2>3, <2>4, <2>5
<1> QED BY <1>9, <1>10, <1>11

\* The last version of a machine is the last one of its history.
LEMMA LastOfFact ==
    ASSUME InventoryInv, NEW m \in Machines
    PROVE  /\ OfMachine(m) = {} => Len(log[m]) = 0
           /\ OfMachine(m) # {} => LastOf(m) \in OfMachine(m) /\ LastOf(m).v = Len(log[m])
<1>1. /\ commits \subseteq Versions /\ log[m] \in Seq(Trees)
      /\ CommitsLogged /\ LastKept
  BY DEF InventoryInv, TypeOK, RowsOK
<1>2. Len(log[m]) \in Nat /\ DOMAIN log[m] = 1..Len(log[m])
  BY <1>1
<1>3. CASE OfMachine(m) = {}
  <2>1. log[m] = <<>>
    BY <1>1, <1>3 DEF LastKept
  <2> QED BY <2>1, <1>3
<1>4. CASE OfMachine(m) # {}
  <2>1. PICK d \in OfMachine(m) : TRUE
    BY <1>4
  <2>2. d.v \in DOMAIN log[m]
    BY <2>1, <1>1 DEF CommitsLogged, OfMachine
  <2>3. log[m] # <<>>
    BY <2>2, <1>2
  <2>4. PICK c \in OfMachine(m) : c.v = Len(log[m])
    BY <2>3, <1>1 DEF LastKept
  <2>5. \A e \in commits : e.m = m => e.v \in Nat /\ e.v <= Len(log[m])
    BY <1>1 DEF LastKept, OfMachine, Versions
  <2>6. IsLast(c, commits)
    BY <2>4, <2>5 DEF IsLast, OfMachine
  <2>7. LastOf(m) \in OfMachine(m) /\ IsLast(LastOf(m), commits)
    BY <2>4, <2>6 DEF LastOf
  <2>8. c.v <= LastOf(m).v
    BY <2>7, <2>4 DEF IsLast, OfMachine
  <2> QED BY <1>4, <2>7, <2>8, <2>4, <2>5, <1>2 DEF OfMachine
<1> QED BY <1>3, <1>4

LEMMA ReadLastInv ==
    ASSUME InventoryInv, NEW p \in Processes, ReadLast(p)
    PROVE  InventoryInv'
<1>1. p \in Busy
  BY DEF ReadLast, At, Busy, Idle
<1>2. /\ ops[p] \in OpType /\ OpInv(ops[p]) /\ ops[p].pc = "last"
      /\ ops[p].m \in Machines /\ ops[p].tree \in Trees
  BY <1>1, BusyType, OpTypeFields DEF InventoryInv, ReadLast, At, Busy
<1>3. commits \subseteq Versions /\ log[ops[p].m] \in Seq(Trees) /\ CommitsLogged /\ RowsOK
  BY <1>2 DEF InventoryInv, TypeOK, RowsOK
<1> DEFINE m == ops[p].m
           tree == ops[p].tree
           base == IF OfMachine(m) = {} THEN None ELSE Base(LastOf(m))
           changed == Changed(tree, base)
           new == IF changed THEN VersionAfter(base) ELSE 0
           o == [ops[p] EXCEPT !.pc = IF changed THEN "insert" ELSE "current",
                               !.base = base, !.new = new]
<1>4. DOMAIN log[m] = 1..Len(log[m]) /\ Len(log[m]) \in Nat
  BY <1>3
<1>5. base # None => /\ base \in Bases /\ base.v = Len(log[m])
                     /\ base.v \in DOMAIN log[m] /\ log[m][base.v] = TreeOf(base)
  <2>1. SUFFICES ASSUME OfMachine(m) # {}
                 PROVE  /\ base \in Bases /\ base.v = Len(log[m])
                        /\ base.v \in DOMAIN log[m] /\ log[m][base.v] = TreeOf(base)
    OBVIOUS
  <2>2. LastOf(m) \in OfMachine(m) /\ LastOf(m).v = Len(log[m])
    BY <2>1, <1>2, LastOfFact
  <2>3. LastOf(m) \in Versions /\ LastOf(m) \in commits /\ LastOf(m).m = m
    BY <2>2, <1>3 DEF OfMachine
  <2>4. base = Base(LastOf(m))
    BY <2>1
  <2>5. base \in Bases /\ base.v = Len(log[m])
    BY <2>2, <2>3, <2>4 DEF Base, Bases, Versions
  <2>6. LastOf(m).v \in DOMAIN log[m] /\ log[m][LastOf(m).v] = TreeOf(LastOf(m))
    BY <2>3, <1>3 DEF CommitsLogged
  <2>7. TreeOf(base) = TreeOf(LastOf(m)) /\ base.v = LastOf(m).v
    BY <2>4 DEF TreeOf, Base
  <2> QED BY <2>5, <2>6, <2>7
<1>6. base = None => Len(log[m]) = 0
  <2>1. OfMachine(m) # {} => Base(LastOf(m)) # None
    <3> SUFFICES ASSUME OfMachine(m) # {} PROVE Base(LastOf(m)) # None
      OBVIOUS
    <3>1. LastOf(m) \in Versions
      BY <1>2, <1>3, LastOfFact DEF OfMachine
    <3>2. Base(LastOf(m)) \in Bases
      BY <3>1 DEF Base, Bases, Versions
    <3> QED BY <3>2, NoneAssumption
  <2> QED BY <2>1, <1>2, LastOfFact
<1>7. VersionAfter(base) = Len(log[m]) + 1
  BY <1>4, <1>5, <1>6 DEF VersionAfter
<1>8. changed => new = VersionAfter(base) /\ (base # None => TreeOf(base) # tree)
  BY <1>2 DEF Changed, TreeOf, Trees
<1>9. ~ changed => /\ new = 0 /\ base # None /\ base.items = tree.items
  BY DEF Changed
<1>10. /\ ops' = [ops EXCEPT ![p] = o]
       /\ UNCHANGED <<real, sync, history, budget, items, snapshots, commits, current>>
  BY DEF ReadLast, tables
<1>11. base \in {None} \union Bases /\ new \in Nat
  BY <1>5, <1>7, <1>4
<1> HIDE DEF base, changed, new
<1>12. o \in OpType
  BY <1>2, <1>11 DEF OpType
<1>13. /\ o.m = m /\ o.tree = tree /\ o.base = base /\ o.new = new
       /\ o.pc = (IF changed THEN "insert" ELSE "current")
       /\ o.wVersion = ops[p].wVersion /\ o.wCurrent = ops[p].wCurrent
       /\ ~ o.wVersion /\ ~ o.wCurrent
  BY <1>2 DEF OpType, OpInv, NotRead
<1> HIDE DEF o
<1>14. OpInv(o)
  <2>1. BaseLogged(o)
    BY <1>13, <1>5 DEF BaseLogged
  <2>2. NotRead(o) /\ Committing(o) /\ Posting(o) /\ WritingVersion(o) /\ WritingCurrent(o)
    BY <1>13 DEF NotRead, Committing, Posting, WritingVersion, WritingCurrent
  <2>3. Inserting(o)
    BY <1>13, <1>7, <1>8, <1>4 DEF Inserting, Follows
  <2>4. Updating(o)
    <3>1. CASE ~ changed
      <4>1. log[m][base.v].items = base.items /\ base.v \in DOMAIN log[m]
        BY <1>5, <1>9, <3>1 DEF TreeOf
      <4> QED BY <4>1, <1>9, <1>13, <3>1 DEF Updating, Recorded
    <3>2. CASE changed
      BY <1>13, <3>2 DEF Updating
    <3> QED BY <3>1, <3>2
  <2> QED BY <2>1, <2>2, <2>3, <2>4 DEF OpInv
<1>15. ~ Makes(o)
  BY <1>13 DEF Makes
<1>16. items' \subseteq Items /\ snapshots' \subseteq Machines \X Contents
  BY <1>3, <1>10 DEF RowsOK
<1> QED BY <1>1, <1>2, <1>10, <1>12, <1>14, <1>15, <1>16, GoOnInv DEF NewMaker

LEMMA InsertVersionInv ==
    ASSUME InventoryInv, NEW p \in Processes, InsertVersion(p)
    PROVE  InventoryInv'
<1>1. p \in Busy
  BY DEF InsertVersion, At, Busy, Idle
<1>2. /\ ops[p] \in OpType /\ OpInv(ops[p]) /\ ops[p].pc = "insert"
      /\ ops[p].m \in Machines /\ ops[p].new \in Nat /\ ops[p].base \in {None} \union Bases
      /\ ops[p].mode \in Modes
  BY <1>1, BusyType, OpTypeFields DEF InventoryInv, InsertVersion, At, Busy
<1>3. log[ops[p].m] \in Seq(Trees) /\ RowsOK
  BY <1>2 DEF InventoryInv, TypeOK, RowsOK
<1>a. items \subseteq Items /\ snapshots \subseteq Machines \X Contents
  BY <1>3 DEF RowsOK
<1> DEFINE m == ops[p].m
           made == [ops[p] EXCEPT !.pc = "current", !.wVersion = TRUE]
           commit == [ops[p] EXCEPT !.pc = "commit", !.new = 0]
           end == [ops[p] EXCEPT !.pc = "end", !.new = 0]
<1>4. made \in OpType /\ commit \in OpType /\ end \in OpType
  BY <1>2 DEF OpType
<1>5. DOMAIN log[m] = 1..Len(log[m]) /\ Len(log[m]) \in Nat
  BY <1>3
<1>6. /\ Follows(ops[p]) /\ ~ ops[p].wVersion /\ ~ ops[p].wCurrent /\ BaseLogged(ops[p])
      /\ \A v \in DOMAIN log[m] : ops[p].new <= v => \E c \in OfMachine(m) : c.v = v
  BY <1>2 DEF OpInv, Inserting
<1>7. CASE Rival(p) = {} /\ ops' = [ops EXCEPT ![p] = made] /\ UNCHANGED <<tables, sync, history>>
  <2>1. ops[p].new \notin DOMAIN log[m]
    BY <1>7, <1>6, <1>2 DEF Rival
  <2>2. ops[p].new = VersionAfter(ops[p].base)
    BY <1>6 DEF Follows
  <2>3. ops[p].new > 0 /\ ops[p].new <= Len(log[m]) + 1
    <3>1. CASE ops[p].base = None
      BY <3>1, <2>2, <1>5 DEF VersionAfter
    <3>2. CASE ops[p].base # None
      <4>1. ops[p].base.v \in 1..Len(log[m])
        BY <3>2, <1>6, <1>5 DEF BaseLogged
      <4> QED BY <4>1, <3>2, <2>2, <1>5 DEF VersionAfter
    <3> QED BY <3>1, <3>2
  <2>4. ops[p].new = Len(log[m]) + 1
    BY <2>1, <2>3, <1>5, <1>2
  <2>5. /\ made.pc = "current" /\ made.wVersion /\ ~ made.wCurrent /\ made.new = ops[p].new
        /\ made.base = ops[p].base /\ made.m = m /\ made.tree = ops[p].tree
    BY <1>2, <1>6 DEF OpType
  <2> HIDE DEF made
  <2>6. OpInv(made)
    BY <2>5, <1>6, <2>3, <2>4 DEF OpInv, BaseLogged, NotRead, Inserting, Updating, Committing,
                             Posting, WritingVersion, WritingCurrent, Follows
  <2>7. NewMaker(p, made)
    <3> SUFFICES ASSUME NEW q \in Busy \ {p}, Makes(ops[q]), ops[q].m = m,
                        ops[q].new = ops[p].new
                 PROVE  FALSE
      BY <2>5 DEF NewMaker
    <3>1. OpInv(ops[q])
      BY DEF InventoryInv
    <3>2. ~ ops[q].wVersion
      BY DEF InsertVersion, VersionTaken, Others
    <3>3. ops[q].pc = "post" /\ ops[q].new \in DOMAIN log[m]
      BY <3>1, <3>2 DEF Makes, OpInv, Posting
    <3> QED BY <3>3, <2>1
  <2>8. UNCHANGED <<real, sync, history, budget, items, snapshots, commits, current>>
    BY <1>7 DEF tables, InsertVersion
  <2> QED BY <1>1, <1>2, <1>4, <1>7, <1>a, <2>6, <2>7, <2>8, GoOnInv
<1>8. CASE /\ Rival(p) # {}
           /\ ops' = [ops EXCEPT ![p] = commit] \/ ops' = [ops EXCEPT ![p] = end]
           /\ UNCHANGED <<tables, sync, history>>
  <2>1. OpInv(commit) /\ ~ Makes(commit)
    BY <1>2, <1>6 DEF OpInv, OpType, BaseLogged, NotRead, Inserting, Updating, Committing, Posting,
                WritingVersion, WritingCurrent, Makes
  <2>2. OpInv(end) /\ ~ Makes(end)
    BY <1>2, <1>6 DEF OpInv, OpType, BaseLogged, NotRead, Inserting, Updating, Committing, Posting,
                WritingVersion, WritingCurrent, Makes
  <2>3. UNCHANGED <<real, sync, history, budget, items, snapshots, commits, current>>
    BY <1>8 DEF tables, InsertVersion
  <2> HIDE DEF commit, end
  <2>4. CASE ops' = [ops EXCEPT ![p] = commit]
    BY <1>1, <1>2, <1>4, <1>a, <2>1, <2>3, <2>4, GoOnInv DEF NewMaker
  <2>5. CASE ops' = [ops EXCEPT ![p] = end]
    BY <1>1, <1>2, <1>4, <1>a, <2>2, <2>3, <2>5, GoOnInv DEF NewMaker
  <2> QED BY <1>8, <2>4, <2>5
<1>9. CASE Leave(p, TRUE) /\ UNCHANGED <<tables, history>>
  BY <1>1, <1>2, <1>9, LeaveInv DEF InsertVersion
<1>10. CASE Fail(p)
  BY <1>1, <1>2, <1>10, FailInv DEF InsertVersion
<1>11. \/ Rival(p) = {} /\ ops' = [ops EXCEPT ![p] = made] /\ UNCHANGED <<tables, sync, history>>
       \/ /\ Rival(p) # {}
          /\ ops' = [ops EXCEPT ![p] = commit] \/ ops' = [ops EXCEPT ![p] = end]
          /\ UNCHANGED <<tables, sync, history>>
       \/ Leave(p, TRUE) /\ UNCHANGED <<tables, history>>
       \/ Fail(p)
  BY <1>2 DEF InsertVersion, Overtaken, Modes
<1> QED BY <1>7, <1>8, <1>9, <1>10, <1>11

-----------------------------------------------------------------------------
(* COMMIT                                                                  *)

\* The rows after a commit.
LEMMA ApplyRows ==
    ASSUME InventoryInv, NEW o \in OpType, Apply(o), WritingVersion(o),
           o.wVersion => BaseLogged(o),
           o.wCurrent => o.wVersion \/ Recorded(o.m, o.tree.items)
    PROVE  /\ CommitsLogged' /\ LastKept' /\ CurrentRecorded' /\ VersionsDiffer'
           /\ \A m \in Machines :
                 /\ OfMachine(m) \subseteq OfMachine(m)'
                 /\ \A v \in DOMAIN log[m] : v \in DOMAIN log'[m] /\ log'[m][v] = log[m][v]
                 /\ ~ (o.wVersion /\ m = o.m) => log'[m] = log[m]
           /\ o.wVersion => /\ log'[o.m] = Append(log[o.m], o.tree)
                            /\ NewVersion(o) \in commits'
<1>1. /\ commits \subseteq Versions /\ log \in [Machines -> Seq(Trees)]
      /\ CommitsLogged /\ LastKept /\ CurrentRecorded /\ VersionsDiffer
      /\ current \in [Machines -> {None} \union Contents]
  BY DEF InventoryInv, TypeOK, RowsOK
<1>2. o.m \in Machines /\ o.tree \in Trees /\ o.new \in Nat
  BY OpTypeFields
<1>a. \A m \in Machines : DOMAIN log[m] = 1..Len(log[m]) /\ Len(log[m]) \in Nat
  BY <1>1
<1>3. CASE ~ o.wVersion
  <2>1. commits' = commits /\ log' = log
    BY <1>3 DEF Apply
  <2>2. CommitsLogged' /\ LastKept' /\ VersionsDiffer'
    BY <1>1, <2>1 DEF CommitsLogged, LastKept, VersionsDiffer, OfMachine
  <2>3. CurrentRecorded'
    BY <1>1, <1>2, <1>3, <2>1 DEF CurrentRecorded, Apply, Recorded
  <2> QED BY <2>1, <2>2, <2>3, <1>3 DEF OfMachine
<1>4. CASE o.wVersion
  <2> DEFINE l == Append(log[o.m], o.tree)
             n == Len(log[o.m]) + 1
  <2>1. /\ commits' = commits \union {NewVersion(o)}
        /\ log' = [log EXCEPT ![o.m] = l]
    BY <1>4 DEF Apply
  <2>2. /\ log'[o.m] = l /\ \A m \in Machines \ {o.m} : log'[m] = log[m]
    BY <1>1, <1>2, <2>1
  <2>3. /\ DOMAIN l = 1..n /\ Len(l) = n /\ l[n] = o.tree
        /\ \A v \in DOMAIN log[o.m] : v \in DOMAIN l /\ l[v] = log[o.m][v]
    BY <1>1, <1>2, <1>a
  <2>4. o.new = n /\ Follows(o)
    BY <1>4 DEF WritingVersion
  <2>5. /\ NewVersion(o).m = o.m /\ NewVersion(o).v = n /\ TreeOf(NewVersion(o)) = o.tree
    BY <1>2, <2>4 DEF NewVersion, TreeOf, Trees
  <2>6. \A m \in Machines : \A v \in DOMAIN log[m] : v \in DOMAIN log'[m] /\ log'[m][v] = log[m][v]
    BY <2>2, <2>3
  <2> HIDE DEF l
  <2>a. n \in DOMAIN l /\ n \in Nat
    BY <2>3, <1>a, <1>2
  <2>7. CommitsLogged'
    <3> SUFFICES ASSUME NEW c \in commits \union {NewVersion(o)}
                 PROVE  c.v \in DOMAIN log'[c.m] /\ log'[c.m][c.v] = TreeOf(c)
      BY <2>1 DEF CommitsLogged, TreeOf
    <3>1. CASE c \in commits
      BY <3>1, <1>1, <2>6 DEF CommitsLogged, Versions
    <3>2. CASE c = NewVersion(o)
      BY <3>2, <2>2, <2>3, <2>5, <2>a
    <3> QED BY <3>1, <3>2
  <2>8. LastKept'
    <3> SUFFICES ASSUME NEW m \in Machines
                 PROVE  /\ \A c \in commits' : c.m = m => c.v <= Len(log'[m])
                        /\ log'[m] # <<>> => \E c \in commits' : c.m = m /\ c.v = Len(log'[m])
      BY DEF LastKept, OfMachine
    <3>0. /\ \A c \in commits : c.m = m => c.v <= Len(log[m]) /\ c.v \in Nat
          /\ log[m] # <<>> => \E c \in commits : c.m = m /\ c.v = Len(log[m])
      BY <1>1 DEF LastKept, OfMachine, Versions
    <3>1. CASE m = o.m
      BY <3>0, <3>1, <2>1, <2>2, <2>3, <2>5, <1>a
    <3>2. CASE m # o.m
      BY <3>0, <3>2, <2>1, <2>2, <2>5
    <3> QED BY <3>1, <3>2
  <2>9. CurrentRecorded'
    <3> SUFFICES ASSUME NEW m \in Machines, current'[m] # None
                 PROVE  \E v \in DOMAIN log'[m] : log'[m][v].items = current'[m]
      BY DEF CurrentRecorded
    <3>1. CASE current'[m] = current[m]
      BY <3>1, <1>1, <2>6 DEF CurrentRecorded
    <3>2. CASE current'[m] # current[m]
      <4>1. m = o.m /\ current'[m] = o.tree.items
        BY <3>2, <1>1, <1>2 DEF Apply
      <4> QED BY <4>1, <2>2, <2>3, <2>a
    <3> QED BY <3>1, <3>2
  <2>10. VersionsDiffer'
    <3> SUFFICES ASSUME NEW m \in Machines, NEW v \in DOMAIN log'[m], v > 1
                 PROVE  log'[m][v] # log'[m][v - 1]
      BY DEF VersionsDiffer
    <3>1. CASE v \in DOMAIN log[m]
      <4>1. v - 1 \in DOMAIN log[m]
        BY <3>1, <1>a
      <4> QED BY <3>1, <4>1, <2>6, <1>1 DEF VersionsDiffer
    <3>2. CASE v \notin DOMAIN log[m]
      <4>1. m = o.m
        BY <3>2, <2>2
      <4>2. v = n
        BY <3>2, <4>1, <2>2, <2>3, <1>a, <1>2
      <4>3. o.base # None
        BY <4>2, <2>4 DEF Follows, VersionAfter
      <4>4. o.base \in Bases /\ o.new = o.base.v + 1
        BY <4>3, <2>4 DEF OpType, Follows, VersionAfter
      <4>5. o.base.v = v - 1 /\ v - 1 \in DOMAIN log[m] /\ log[m][v - 1] = TreeOf(o.base)
        BY <4>1, <4>2, <4>3, <4>4, <2>4, <1>4, <1>a, <1>2 DEF BaseLogged, Bases
      <4>6. log'[m][v - 1] = TreeOf(o.base) /\ log'[m][v] = o.tree
        BY <4>1, <4>2, <4>5, <2>2, <2>3, <2>6
      <4> QED BY <4>6, <4>3, <2>4 DEF Follows
    <3> QED BY <3>1, <3>2
  <2>11. \A m \in Machines : OfMachine(m) \subseteq OfMachine(m)'
    BY <2>1 DEF OfMachine
  <2> QED BY <2>1, <2>2, <2>6, <2>7, <2>8, <2>9, <2>10, <2>11, <1>4 DEF l
<1> QED BY <1>3, <1>4

\* The other operations after a commit of p.
LEMMA ApplyOther ==
    ASSUME InventoryInv, NEW p \in Busy, NEW o \in OpType, Apply(o),
           o.m = ops[p].m, o.new = ops[p].new, o.wVersion = ops[p].wVersion,
           WritingVersion(o), o.wVersion => BaseLogged(o),
           o.wCurrent => o.wVersion \/ Recorded(o.m, o.tree.items),
           UNCHANGED posted, NEW q \in Busy, q # p, ops'[q] = ops[q]
    PROVE  OpInv(ops[q])'
<1>1. OpInv(ops[q]) /\ ops[q] \in OpType /\ ops[q].m \in Machines
  BY BusyType, OpTypeFields DEF InventoryInv, Busy
<1> DEFINE m == ops[q].m
<1>2. /\ OfMachine(m) \subseteq OfMachine(m)'
      /\ \A v \in DOMAIN log[m] : v \in DOMAIN log'[m] /\ log'[m][v] = log[m][v]
      /\ ~ (o.wVersion /\ m = o.m) => log'[m] = log[m]
      /\ o.wVersion => /\ log'[o.m] = Append(log[o.m], o.tree)
                       /\ NewVersion(o) \in commits'
  BY <1>1, ApplyRows
<1>3. log[m] \in Seq(Trees) /\ o.tree \in Trees
  BY <1>1, OpTypeFields DEF InventoryInv, TypeOK, RowsOK
<1>4. BaseLogged(ops[q])'
  BY <1>1, <1>2 DEF OpInv, BaseLogged, TreeOf
<1>5. NotRead(ops[q])' /\ Committing(ops[q])'
  BY <1>1 DEF OpInv, NotRead, Committing
<1>6. Inserting(ops[q])'
  <2> SUFFICES ASSUME ops[q].pc = "insert"
               PROVE  /\ Follows(ops[q]) /\ ~ ops[q].wVersion /\ ~ ops[q].wCurrent
                      /\ \A v \in DOMAIN log'[m] : ops[q].new <= v => \E c \in OfMachine(m)' : c.v = v
    BY DEF Inserting, Follows
  <2>1. /\ Follows(ops[q]) /\ ~ ops[q].wVersion /\ ~ ops[q].wCurrent
        /\ \A v \in DOMAIN log[m] : ops[q].new <= v => \E c \in OfMachine(m) : c.v = v
    BY <1>1 DEF OpInv, Inserting
  <2>2. ASSUME NEW v \in DOMAIN log'[m], ops[q].new <= v, v \notin DOMAIN log[m]
        PROVE  \E c \in OfMachine(m)' : c.v = v
    <3>1. o.wVersion /\ m = o.m
      BY <1>2, <2>2
    <3>2. log'[m] = Append(log[m], o.tree)
      BY <1>2, <3>1
    <3>3. v = Len(log[m]) + 1
      BY <3>2, <2>2, <1>3
    <3>4. o.new = v
      BY <3>1, <3>3 DEF WritingVersion
    <3>5. NewVersion(o) \in commits' /\ NewVersion(o).m = m /\ NewVersion(o).v = v
      BY <1>2, <3>1, <3>4 DEF NewVersion
    <3> QED BY <3>5 DEF OfMachine
  <2> QED BY <2>1, <2>2, <1>2
<1>7. Updating(ops[q])' /\ WritingCurrent(ops[q])'
  BY <1>1, <1>2 DEF OpInv, Updating, WritingCurrent, Recorded
<1>8. Posting(ops[q])'
  BY <1>1, <1>2 DEF OpInv, Posting, Follows
<1>9. WritingVersion(ops[q])'
  <2> SUFFICES ASSUME ops[q].wVersion
               PROVE  ops[q].new = Len(log'[m]) + 1 /\ Follows(ops[q])
    BY DEF WritingVersion, Follows
  <2>1. ops[q].new = Len(log[m]) + 1 /\ Follows(ops[q])
    BY <1>1 DEF OpInv, WritingVersion
  <2>2. ~ (o.wVersion /\ m = o.m)
    <3> SUFFICES ASSUME o.wVersion, m = o.m PROVE FALSE
      OBVIOUS
    <3>1. o.new = ops[q].new
      BY <2>1 DEF WritingVersion
    <3> QED BY <3>1 DEF InventoryInv, OneMaker, Makes
  <2> QED BY <2>1, <2>2, <1>2
<1> QED BY <1>4, <1>5, <1>6, <1>7, <1>8, <1>9 DEF OpInv

\* What the operation of p has become when it has events to post.
ToPost(p, x) ==
    /\ x.pc = "post" /\ x.m = ops[p].m /\ x.new = ops[p].new /\ x.tree = ops[p].tree
    /\ x.base = ops[p].base /\ ~ x.wVersion /\ ~ x.wCurrent
    /\ ops[p].wVersion /\ ops[p].pc # "end"

LEMMA ApplyInv ==
    ASSUME InventoryInv, TypeOK', NEW p \in Busy, NEW o \in OpType, Apply(o), NEW x,
           o.m = ops[p].m, o.new = ops[p].new, o.wVersion = ops[p].wVersion,
           o.base = ops[p].base, o.tree = ops[p].tree,
           o.wCurrent => o.wVersion \/ Recorded(o.m, o.tree.items),
           UNCHANGED posted, ops' = [ops EXCEPT ![p] = x],
           x # NoOp => ToPost(p, x)
    PROVE  InventoryInv'
<1>a. /\ ops \in [Processes -> {NoOp} \union OpType]
      /\ ops' \in [Processes -> {NoOp} \union OpType]
      /\ p \in Processes
  BY DEF InventoryInv, TypeOK, Busy
<1>b. ops'[p] = x /\ \A q \in Processes \ {p} : ops'[q] = ops[q]
  BY <1>a
<1>c. /\ Busy' \subseteq Processes /\ Busy \subseteq Processes
      /\ \A q \in Processes \ {p} : q \in Busy' <=> q \in Busy
      /\ p \in Busy' <=> x # NoOp
  <2>1. p \in Busy' <=> ops'[p] # NoOp
    BY <1>a DEF Busy, Idle, OpType, NoOp
  <2> QED BY <2>1, <1>b DEF Busy, Idle
<1>d. OpInv(ops[p]) /\ ops[p] \in OpType
  BY BusyType, <1>a DEF InventoryInv
<1>e. WritingVersion(o) /\ BaseLogged(o)
  BY <1>d DEF OpInv, WritingVersion, BaseLogged, Follows
<1>f. o.m \in Machines /\ o.tree \in Trees /\ log[o.m] \in Seq(Trees)
  BY OpTypeFields DEF InventoryInv, TypeOK, RowsOK
<1>1. CommitsLogged' /\ LastKept' /\ CurrentRecorded' /\ VersionsDiffer'
  BY <1>e, ApplyRows
<1>2. \A m \in Machines : \A v \in DOMAIN log[m] : v \in DOMAIN log'[m]
  BY <1>e, ApplyRows
<1>3. o.wVersion => /\ log'[o.m] = Append(log[o.m], o.tree)
                    /\ o.new = Len(log[o.m]) + 1 /\ Follows(o)
  <2>1. o.wVersion => log'[o.m] = Append(log[o.m], o.tree)
    BY <1>e, ApplyRows
  <2> QED BY <2>1, <1>e DEF WritingVersion
<1>4. o.wVersion => /\ o.new \in DOMAIN log'[o.m] /\ log'[o.m][o.new] = o.tree
                    /\ o.new \notin DOMAIN log[o.m]
  BY <1>3, <1>f
<1>5. ASSUME x # NoOp PROVE OpInv(x)'
  <2>1. ToPost(p, x)
    BY <1>5
  <2>2. o.new \notin posted[o.m]
    <3> SUFFICES ASSUME o.new \in posted[o.m] PROVE FALSE
      OBVIOUS
    <3>1. PICK q \in Busy : /\ At(q, "end") /\ ops[q].wVersion
                            /\ ops[q].m = o.m /\ ops[q].new = o.new
      BY <1>4, <1>f, <2>1 DEF InventoryInv, PostedMade, ToPost
    <3>2. q = p
      BY <3>1, <2>1 DEF InventoryInv, OneMaker, Makes, ToPost
    <3> QED BY <3>1, <3>2, <2>1 DEF ToPost, At
  <2>3. BaseLogged(x)'
    <3>1. o.base # None => /\ o.base.v \in DOMAIN log[o.m]
                           /\ log[o.m][o.base.v] = TreeOf(o.base)
      BY <1>e DEF BaseLogged
    <3>2. \A v \in DOMAIN log[o.m] : v \in DOMAIN log'[o.m] /\ log'[o.m][v] = log[o.m][v]
      BY <1>e, <1>f, ApplyRows
    <3> QED BY <3>1, <3>2, <2>1 DEF BaseLogged, ToPost, TreeOf
  <2>4. Posting(x)'
    BY <2>1, <2>2, <1>3, <1>4 DEF Posting, ToPost, Follows
  <2> QED BY <2>1, <2>3, <2>4 DEF OpInv, ToPost, NotRead, Inserting, Updating, Committing,
                             WritingVersion, WritingCurrent
<1>6. ASSUME NEW q \in Busy' PROVE OpInv(ops[q])'
  <2>1. CASE q = p
    <3>1. x # NoOp /\ ops'[q] = x
      BY <2>1, <1>b, <1>c
    <3>2. OpInv(x)'
      BY <3>1, <1>5
    <3> QED BY <3>1, <3>2 DEF OpInv, BaseLogged, NotRead, Inserting, Updating,
       Committing, Posting, WritingVersion, WritingCurrent, Follows, Recorded, OfMachine
  <2>2. CASE q # p
    <3>1. q \in Busy /\ ops'[q] = ops[q]
      BY <2>2, <1>b, <1>c
    <3> QED BY <3>1, <2>2, <1>e, ApplyOther
  <2> QED BY <2>1, <2>2
<1>7. OneMaker'
  <2> SUFFICES ASSUME NEW q \in Busy', NEW r \in Busy', q # r,
                      Makes(ops'[q]), Makes(ops'[r]), ops'[q].m = ops'[r].m,
                      ops'[q].new = ops'[r].new
               PROVE  FALSE
    BY DEF OneMaker, Makes
  <2>1. q = p => x # NoOp /\ ToPost(p, x) /\ ops'[q] = x
    BY <1>b, <1>c
  <2>2. r = p => x # NoOp /\ ToPost(p, x) /\ ops'[r] = x
    BY <1>b, <1>c
  <2>3. /\ q \in Busy /\ Makes(ops[q]) /\ ops[q].m = ops'[q].m /\ ops[q].new = ops'[q].new
    BY <2>1, <1>b, <1>c DEF ToPost, Makes
  <2>4. /\ r \in Busy /\ Makes(ops[r]) /\ ops[r].m = ops'[r].m /\ ops[r].new = ops'[r].new
    BY <2>2, <1>b, <1>c DEF ToPost, Makes
  <2> QED BY <2>3, <2>4 DEF InventoryInv, OneMaker
<1>8. PostedMade'
  <2> SUFFICES ASSUME NEW m \in Machines, NEW v \in posted[m], v \notin DOMAIN log'[m]
               PROVE  \E q \in Busy' : /\ ops'[q].pc = "end" /\ ops'[q].wVersion
                                       /\ ops'[q].m = m /\ ops'[q].new = v
    BY DEF PostedMade, At
  <2>1. PICK q \in Busy : At(q, "end") /\ ops[q].wVersion /\ ops[q].m = m /\ ops[q].new = v
    BY <1>2 DEF InventoryInv, PostedMade
  <2>2. q # p
    BY <2>1, <1>4
  <2> QED BY <2>1, <2>2, <1>b, <1>c DEF At
<1> QED BY <1>1, <1>6, <1>7, <1>8 DEF InventoryInv

\* The version and the current snapshot, committed or written.
LEMMA UpdateCurrentInv ==
    ASSUME InventoryInv, NEW p \in Processes, UpdateCurrent(p)
    PROVE  InventoryInv'
<1>1. p \in Busy
  BY DEF UpdateCurrent, At, Busy, Idle
<1>2. /\ ops[p] \in OpType /\ OpInv(ops[p]) /\ ops[p].pc = "current"
      /\ ops[p].m \in Machines /\ ops[p].new \in Nat /\ ops[p].mode \in Modes
  BY <1>1, BusyType, OpTypeFields DEF InventoryInv, UpdateCurrent, At, Busy
<1>3. RowsOK
  BY DEF InventoryInv, TypeOK
<1>4. /\ IF ops[p].new = 0 THEN Recorded(ops[p].m, ops[p].tree.items) ELSE ops[p].wVersion
      /\ ~ ops[p].wCurrent
  BY <1>2 DEF OpInv, Updating
<1>5. WritingVersion(ops[p]) /\ BaseLogged(ops[p])
  BY <1>2 DEF OpInv
<1>6. ops[p].wVersion => ops[p].new # 0 /\ ops[p].new \notin DOMAIN log[ops[p].m]
  <2>1. log[ops[p].m] \in Seq(Trees)
    BY <1>2, <1>3 DEF RowsOK
  <2> QED BY <2>1, <1>5 DEF WritingVersion
<1> DEFINE o == [ops[p] EXCEPT !.wCurrent = TRUE]
           x == [ops[p] EXCEPT !.pc = "post", !.wVersion = FALSE]
<1>7. /\ o \in OpType /\ o.m = ops[p].m /\ o.new = ops[p].new /\ o.wVersion = ops[p].wVersion
      /\ o.base = ops[p].base /\ o.tree = ops[p].tree /\ o.mode = ops[p].mode /\ o.lost = ops[p].lost
      /\ o.wCurrent
  BY <1>2 DEF OpType
<1>8. x \in OpType
  BY <1>2 DEF OpType
<1>9. CASE ops[p].mode = "autocommit" /\ ~ ops[p].lost /\ Apply(o) /\ UNCHANGED <<posted, real, budget>>
           /\ \/ ops[p].new = 0 /\ Leave(p, TRUE)
              \/ ops[p].new # 0 /\ ops' = [ops EXCEPT ![p] = x] /\ UNCHANGED sync
  <2> HIDE DEF o
  <2>1. RowsOK'
    BY <1>6, <1>7, <1>9, <1>2, ApplyType DEF InventoryInv
  <2>2. CASE ops[p].new = 0 /\ Leave(p, TRUE)
    <3>1. TypeOK'
      BY <2>1, <2>2, <1>1, <1>9, LeaveTypeOK DEF InventoryInv
    <3>2. ops' = [ops EXCEPT ![p] = NoOp]
      BY <2>2 DEF Leave
    <3> QED BY <3>1, <3>2, <1>1, <1>4, <1>7, <1>9, <2>2, ApplyInv
  <2>3. CASE ops[p].new # 0 /\ ops' = [ops EXCEPT ![p] = x] /\ UNCHANGED sync
    <3>1. ToPost(p, x)
      BY <2>3, <1>2, <1>4 DEF ToPost, OpType
    <3> HIDE DEF x
    <3>2. TypeOK'
      BY <2>1, <2>3, <1>1, <1>8, <1>9, GoOnTypeOK DEF InventoryInv
    <3> QED BY <3>1, <3>2, <1>1, <1>4, <1>7, <1>9, <2>3, ApplyInv
  <2> QED BY <1>9, <2>2, <2>3
<1>10. CASE Fail(p) /\ UNCHANGED <<real, budget>>
  BY <1>1, <1>2, <1>10, FailInv
<1> DEFINE pc == CASE o.mode = "atomic" -> "commit"
                   [] o.mode = "request" /\ Posts(o) -> "post"
                   [] OTHER -> "end"
           y == [o EXCEPT !.pc = pc]
<1>11. CASE /\ ops[p].mode # "autocommit" /\ ops' = [ops EXCEPT ![p] = y]
            /\ UNCHANGED <<tables, sync, history, real, budget>>
  <2>1. /\ pc \in {"commit", "post", "end"}
        /\ pc = "post" => ops[p].mode = "request" /\ ops[p].new # 0
    BY <1>7 DEF Posts
  <2> HIDE DEF pc
  <2>2. /\ y \in OpType /\ y.pc = pc /\ y.m = ops[p].m /\ y.new = ops[p].new
        /\ y.wVersion = ops[p].wVersion /\ y.base = ops[p].base /\ y.tree = ops[p].tree
        /\ y.mode = ops[p].mode /\ y.wCurrent
    BY <1>2, <2>1 DEF OpType
  <2> HIDE DEF y
  <2>3. pc = "post" => y.new \notin posted[y.m]
    <3> SUFFICES ASSUME pc = "post", y.new \in posted[y.m] PROVE FALSE
      OBVIOUS
    <3>1. ops[p].wVersion
      BY <2>1, <1>4
    <3>2. PICK q \in Busy : /\ At(q, "end") /\ ops[q].wVersion
                            /\ ops[q].m = ops[p].m /\ ops[q].new = ops[p].new
      BY <3>1, <2>2, <1>2, <1>6 DEF InventoryInv, PostedMade
    <3>3. q = p
      BY <3>1, <3>2, <1>1 DEF InventoryInv, OneMaker, Makes
    <3> QED BY <3>2, <3>3, <1>2 DEF At
  <2>4. OpInv(y)
    <3>1. BaseLogged(y) /\ WritingVersion(y)
      BY <1>5, <2>2 DEF BaseLogged, WritingVersion, Follows
    <3>2. NotRead(y) /\ Inserting(y) /\ Updating(y)
      BY <2>1, <2>2 DEF NotRead, Inserting, Updating
    <3>3. Committing(y) /\ WritingCurrent(y)
      BY <1>4, <2>2 DEF Committing, WritingCurrent
    <3>4. Posting(y)
      <4> SUFFICES ASSUME pc = "post" PROVE Posting(y)
        BY <2>2 DEF Posting
      <4>1. ops[p].wVersion /\ y.mode = "request"
        BY <2>1, <2>2, <1>4
      <4>2. Follows(y)
        BY <4>1, <3>1, <2>2 DEF WritingVersion
      <4> QED BY <4>1, <4>2, <2>2, <2>3 DEF Posting
    <3> QED BY <3>1, <3>2, <3>3, <3>4 DEF OpInv
  <2>5. NewMaker(p, y)
    <3>1. Makes(y) => Makes(ops[p])
      BY <2>1, <2>2, <1>4 DEF Makes
    <3> QED BY <3>1, <2>2, <1>1 DEF NewMaker, InventoryInv, OneMaker
  <2>6. /\ items' \subseteq Items /\ snapshots' \subseteq Machines \X Contents
        /\ UNCHANGED <<real, sync, history, budget, commits, current>>
    BY <1>3, <1>11 DEF tables, RowsOK
  <2> QED BY <1>1, <1>2, <1>11, <2>2, <2>4, <2>5, <2>6, GoOnInv
<1>12. \/ /\ ops[p].mode = "autocommit" /\ ~ ops[p].lost /\ Apply(o) /\ UNCHANGED <<posted, real, budget>>
          /\ \/ ops[p].new = 0 /\ Leave(p, TRUE)
             \/ ops[p].new # 0 /\ ops' = [ops EXCEPT ![p] = x] /\ UNCHANGED sync
       \/ Fail(p) /\ UNCHANGED <<real, budget>>
       \/ /\ ops[p].mode # "autocommit" /\ ops' = [ops EXCEPT ![p] = y]
          /\ UNCHANGED <<tables, sync, history, real, budget>>
  BY <1>7 DEF UpdateCurrent, Posts
<1> QED BY <1>9, <1>10, <1>11, <1>12

LEMMA CommitInv ==
    ASSUME InventoryInv, NEW p \in Processes, Commit(p)
    PROVE  InventoryInv'
<1>1. p \in Busy
  BY DEF Commit, At, Busy, Idle
<1>2. /\ ops[p] \in OpType /\ OpInv(ops[p]) /\ ops[p].pc = "commit" /\ ops[p].new \in Nat
      /\ ops[p].m \in Machines
  BY <1>1, BusyType, OpTypeFields DEF InventoryInv, Commit, At, Busy
<1>3. WritingCurrent(ops[p]) /\ Committing(ops[p])
  BY <1>2 DEF OpInv
<1>4. ops[p].wVersion => ops[p].new > 0
  <2>1. log[ops[p].m] \in Seq(Trees)
    BY <1>2 DEF InventoryInv, TypeOK, RowsOK
  <2> QED BY <2>1, <1>2 DEF OpInv, WritingVersion
<1> DEFINE x == [Committed(ops[p]) EXCEPT !.pc = "post"]
<1>5. x \in OpType
  BY <1>2 DEF OpType, Committed
<1>6. CASE Dangling(ops[p])
  BY <1>1, <1>2, <1>6, FailInv DEF Commit
<1>7. CASE ~ Dangling(ops[p])
  <2>1. /\ Apply(ops[p]) /\ UNCHANGED <<posted, real, budget>>
        /\ \/ ops[p].new = 0 /\ Leave(p, TRUE)
           \/ ops[p].new # 0 /\ ops' = [ops EXCEPT ![p] = x] /\ UNCHANGED sync
    BY <1>7 DEF Commit, Posts
  <2>2. RowsOK'
    BY <2>1, <1>2, <1>4, ApplyType DEF InventoryInv
  <2>3. CASE ops[p].new = 0 /\ Leave(p, TRUE)
    <3>1. TypeOK'
      BY <2>1, <2>2, <2>3, <1>1, LeaveTypeOK DEF InventoryInv
    <3>2. ops' = [ops EXCEPT ![p] = NoOp]
      BY <2>3 DEF Leave
    <3> QED BY <3>1, <3>2, <1>1, <1>2, <1>3, <2>1, ApplyInv DEF WritingCurrent
  <2>4. CASE ops[p].new # 0 /\ ops' = [ops EXCEPT ![p] = x] /\ UNCHANGED sync
    <3>1. ToPost(p, x)
      BY <2>4, <1>2, <1>3 DEF ToPost, OpType, Committed, Committing
    <3> HIDE DEF x
    <3>2. TypeOK'
      BY <2>1, <2>2, <2>4, <1>1, <1>5, GoOnTypeOK DEF InventoryInv
    <3> QED BY <3>1, <3>2, <1>1, <1>2, <1>3, <2>1, <2>4, ApplyInv DEF WritingCurrent
  <2> QED BY <2>1, <2>3, <2>4
<1> QED BY <1>6, <1>7

-----------------------------------------------------------------------------
(* The events, the ends of requests and the crashes                        *)

LEMMA PostEventsInv ==
    ASSUME InventoryInv, NEW p \in Processes, PostEvents(p)
    PROVE  InventoryInv'
<1>1. p \in Busy
  BY DEF PostEvents, At, Busy, Idle
<1> DEFINE m == ops[p].m
           n == ops[p].new
           end == [ops[p] EXCEPT !.pc = "end"]
           request == ops[p].mode = "request"
           x == IF request THEN end ELSE NoOp
<1>2. /\ ops[p] \in OpType /\ OpInv(ops[p]) /\ ops[p].pc = "post" /\ n \in Nat
      /\ m \in Machines
  BY <1>1, BusyType, OpTypeFields DEF InventoryInv, PostEvents, At, Busy
<1>3. /\ ops \in [Processes -> {NoOp} \union OpType] /\ p \in Processes
      /\ posted \in [Machines -> SUBSET Nat] /\ RowsOK
      /\ UNCHANGED <<real, tables, log, budget>>
      /\ posted' = [posted EXCEPT ![m] = @ \union {n}]
  BY DEF InventoryInv, TypeOK, PostEvents
<1>4. ops' = [ops EXCEPT ![p] = x]
  BY DEF PostEvents, Goto, Leave
<1>5. /\ end \in OpType /\ end.pc = "end" /\ end.wVersion = ops[p].wVersion /\ end.m = m
      /\ end.new = n /\ end.base = ops[p].base /\ end.tree = ops[p].tree
      /\ end.wCurrent = ops[p].wCurrent
  BY <1>2 DEF OpType
<1> HIDE DEF end, request
<1>6. TypeOK'
  <2>1. RowsOK'
    BY <1>3, SameRowsOK DEF tables
  <2>2. posted' \in [Machines -> SUBSET Nat]
    BY <1>2, <1>3
  <2>3. ops' \in [Processes -> {NoOp} \union OpType] /\ SyncOK'
    <3>1. CASE request
      BY <3>1, <1>1, <1>4, <1>5, GoOnType DEF InventoryInv, PostEvents, request
    <3>2. CASE ~ request
      BY <3>2, <1>1, LeaveType DEF InventoryInv, PostEvents, request
    <3> QED BY <3>1, <3>2
  <2> QED BY <2>1, <2>2, <2>3, <1>3 DEF InventoryInv, TypeOK
<1>b. ops'[p] = x /\ \A q \in Processes \ {p} : ops'[q] = ops[q]
  BY <1>3, <1>4
<1>c. /\ Busy' \subseteq Processes /\ Busy \subseteq Processes
      /\ \A q \in Processes \ {p} : q \in Busy' <=> q \in Busy
      /\ p \in Busy' <=> request
  <2>1. p \in Busy' <=> ops'[p] # NoOp
    BY <1>3, <1>6, BusyType DEF TypeOK, Busy, Idle, OpType, NoOp
  <2>2. end # NoOp
    BY <1>5 DEF OpType, NoOp
  <2> QED BY <2>1, <2>2, <1>b DEF Busy, Idle
<1>d. /\ posted'[m] = posted[m] \union {n}
      /\ \A k \in Machines \ {m} : posted'[k] = posted[k]
  BY <1>2, <1>3
<1>e. commits' = commits /\ log' = log /\ current' = current
  BY <1>3 DEF tables
<1>7. CommitsLogged' /\ LastKept' /\ CurrentRecorded' /\ VersionsDiffer'
  BY <1>e DEF InventoryInv, CommitsLogged, LastKept, CurrentRecorded, VersionsDiffer, OfMachine, TreeOf
<1>8. ASSUME NEW q \in Busy' PROVE OpInv(ops[q])'
  <2>1. CASE q = p
    <3>1. ops'[q] = end
      BY <2>1, <1>b, <1>c
    <3>2. /\ BaseLogged(ops[p]) /\ WritingVersion(ops[p]) /\ WritingCurrent(ops[p])
      BY <1>2 DEF OpInv
    <3>3. BaseLogged(ops[q])' /\ WritingVersion(ops[q])' /\ WritingCurrent(ops[q])'
      BY <3>1, <3>2, <1>5, <1>e DEF BaseLogged, WritingVersion, WritingCurrent, Follows, Recorded, TreeOf
    <3>4. NotRead(ops[q])' /\ Inserting(ops[q])' /\ Updating(ops[q])' /\ Committing(ops[q])'
          /\ Posting(ops[q])'
      BY <3>1, <1>5 DEF NotRead, Inserting, Updating, Committing, Posting
    <3> QED BY <3>3, <3>4 DEF OpInv
  <2>2. CASE q # p
    <3>1. /\ q \in Busy /\ ops'[q] = ops[q] /\ OpInv(ops[q]) /\ ops[q].m \in Machines
      BY <2>2, <1>b, <1>c, BusyType, OpTypeFields DEF InventoryInv
    <3>2. Posting(ops[q])'
      <4> SUFFICES ASSUME ops[q].pc = "post" PROVE Posting(ops[q])'
        BY <3>1 DEF Posting
      <4>1. Posting(ops[q])
        BY <3>1 DEF OpInv
      <4>2. ~ (ops[q].m = m /\ ops[q].new = n)
        BY <1>1, <1>2, <2>2, <3>1 DEF InventoryInv, OneMaker, Makes
      <4>3. ops[q].new \notin posted'[ops[q].m]
        BY <4>1, <4>2, <3>1, <1>d DEF Posting
      <4> QED BY <4>1, <4>3, <3>1, <1>e DEF Posting, Follows
    <3> QED BY <3>1, <3>2, <1>e DEF OpInv, BaseLogged, NotRead, Inserting, Updating, Committing,
              WritingVersion, WritingCurrent, Follows, Recorded, OfMachine, TreeOf
  <2> QED BY <2>1, <2>2
<1>9. OneMaker'
  <2> SUFFICES ASSUME NEW q \in Busy', NEW r \in Busy',
                      Makes(ops'[q]), Makes(ops'[r]), ops'[q].m = ops'[r].m,
                      ops'[q].new = ops'[r].new
               PROVE  q = r
    BY DEF OneMaker, Makes
  <2>1. \A s \in Busy' : Makes(ops'[s]) => /\ s \in Busy /\ Makes(ops[s])
                                           /\ ops[s].m = ops'[s].m /\ ops[s].new = ops'[s].new
    BY <1>1, <1>2, <1>b, <1>c, <1>5 DEF Makes
  <2> QED BY <2>1 DEF InventoryInv, OneMaker
<1>10. PostedMade'
  <2> SUFFICES ASSUME NEW k \in Machines, NEW v \in posted'[k], v \notin DOMAIN log[k]
               PROVE  \E q \in Busy' : /\ ops'[q].pc = "end" /\ ops'[q].wVersion
                                       /\ ops'[q].m = k /\ ops'[q].new = v
    BY <1>e DEF PostedMade, At
  <2>1. CASE k = m /\ v = n
    <3>1. ops[p].wVersion /\ request
      BY <2>1, <1>2 DEF OpInv, Posting, request
    <3> QED BY <2>1, <3>1, <1>1, <1>b, <1>c, <1>5
  <2>2. CASE ~ (k = m /\ v = n)
    <3>1. v \in posted[k]
      BY <2>2, <1>d
    <3>2. PICK q \in Busy : At(q, "end") /\ ops[q].wVersion /\ ops[q].m = k /\ ops[q].new = v
      BY <3>1 DEF InventoryInv, PostedMade
    <3>3. q # p
      BY <3>2, <1>2 DEF At
    <3> QED BY <3>2, <3>3, <1>b, <1>c DEF At
  <2> QED BY <2>1, <2>2
<1> QED BY <1>6, <1>7, <1>8, <1>9, <1>10 DEF InventoryInv

\* The operation of p is dropped with what it has written.
LEMMA DropInv ==
    ASSUME InventoryInv, TypeOK', NEW p \in Processes,
           UNCHANGED <<commits, current, log>>,
           ops' = [ops EXCEPT ![p] = NoOp],
           posted' = IF Idle(p) THEN posted ELSE Withdrawn(p)
    PROVE  InventoryInv'
<1>1. /\ ops \in [Processes -> {NoOp} \union OpType]
      /\ posted \in [Machines -> SUBSET Nat]
  BY DEF InventoryInv, TypeOK
<1>b. ops'[p] = NoOp /\ \A q \in Processes \ {p} : ops'[q] = ops[q]
  BY <1>1
<1>c. /\ Busy' = Busy \ {p} /\ Busy \subseteq Processes
  BY <1>b DEF Busy, Idle, NoOp
<1>2. \A k \in Machines : /\ posted'[k] \subseteq posted[k]
                          /\ p \in Busy /\ ops[p].wVersion /\ ops[p].m = k
                                => ops[p].new \notin posted'[k]
  BY <1>1 DEF Withdrawn, Busy
<1>3. CommitsLogged' /\ LastKept' /\ CurrentRecorded' /\ VersionsDiffer'
  BY DEF InventoryInv, CommitsLogged, LastKept, CurrentRecorded, VersionsDiffer, OfMachine, TreeOf
<1>4. ASSUME NEW q \in Busy' PROVE OpInv(ops[q])'
  <2>1. /\ q \in Busy /\ ops'[q] = ops[q] /\ OpInv(ops[q]) /\ ops[q].m \in Machines
    BY <1>b, <1>c, BusyType, OpTypeFields DEF InventoryInv
  <2>2. Posting(ops[q])'
    BY <2>1, <1>2 DEF OpInv, Posting, Follows
  <2> QED BY <2>1, <2>2 DEF OpInv, BaseLogged, NotRead, Inserting, Updating, Committing,
              WritingVersion, WritingCurrent, Follows, Recorded, OfMachine, TreeOf
<1>5. OneMaker'
  BY <1>b, <1>c DEF InventoryInv, OneMaker, Makes
<1>6. PostedMade'
  <2> SUFFICES ASSUME NEW k \in Machines, NEW v \in posted'[k], v \notin DOMAIN log[k]
               PROVE  \E q \in Busy' : /\ ops'[q].pc = "end" /\ ops'[q].wVersion
                                       /\ ops'[q].m = k /\ ops'[q].new = v
    BY DEF PostedMade, At
  <2>1. PICK q \in Busy : At(q, "end") /\ ops[q].wVersion /\ ops[q].m = k /\ ops[q].new = v
    BY <1>2 DEF InventoryInv, PostedMade
  <2>2. q # p
    BY <2>1, <1>2
  <2> QED BY <2>1, <2>2, <1>b, <1>c DEF At
<1> QED BY <1>3, <1>4, <1>5, <1>6 DEF InventoryInv

\* What is posted after a rollback.
LEMMA WithdrawnType ==
    ASSUME TypeOK, NEW p \in Processes
    PROVE  Withdrawn(p) \in [Machines -> SUBSET Nat]
BY DEF TypeOK, Withdrawn

LEMMA EndRequestInv ==
    ASSUME InventoryInv, NEW p \in Processes, EndRequest(p)
    PROVE  InventoryInv'
<1>1. p \in Busy
  BY DEF EndRequest, At, Busy, Idle
<1>2. /\ ops[p] \in OpType /\ OpInv(ops[p]) /\ ops[p].pc = "end" /\ ops[p].new \in Nat
      /\ ops[p].m \in Machines
  BY <1>1, BusyType, OpTypeFields DEF InventoryInv, EndRequest, At, Busy
<1>3. WritingCurrent(ops[p]) /\ (ops[p].wVersion => ops[p].new > 0)
  <2>1. log[ops[p].m] \in Seq(Trees)
    BY <1>2 DEF InventoryInv, TypeOK, RowsOK
  <2> QED BY <2>1, <1>2 DEF OpInv, WritingVersion
<1>4. /\ ops \in [Processes -> {NoOp} \union OpType] /\ SyncOK
      /\ ops' = [ops EXCEPT ![p] = NoOp] /\ UNCHANGED <<real, sync, budget>>
  BY DEF InventoryInv, TypeOK, EndRequest
<1>5. ops' \in [Processes -> {NoOp} \union OpType]
  BY <1>4
<1>6. SyncOK'
  <2>1. ~ Idle(Syncer)' => ~ Idle(Syncer)
    BY <1>4 DEF Idle, NoOp, Processes
  <2> QED BY <1>4, <2>1 DEF SyncOK, Found
<1>7. CASE Dangling(ops[p])
  <2>1. NothingWritten /\ posted' = Withdrawn(p)
    BY <1>7 DEF EndRequest
  <2>2. RowsOK'
    BY <2>1, SameRowsOK DEF InventoryInv, TypeOK, NothingWritten, tables
  <2>3. TypeOK'
    BY <2>1, <2>2, <1>4, <1>5, <1>6, WithdrawnType DEF InventoryInv, TypeOK
  <2> QED BY <2>1, <2>3, <1>1, <1>4, DropInv DEF NothingWritten, Busy
<1>8. CASE ~ Dangling(ops[p])
  <2>1. Apply(ops[p]) /\ UNCHANGED posted
    BY <1>8 DEF EndRequest
  <2>2. RowsOK'
    BY <2>1, <1>2, <1>3, ApplyType DEF InventoryInv
  <2>3. TypeOK'
    BY <2>1, <2>2, <1>4, <1>5, <1>6 DEF InventoryInv, TypeOK
  <2> QED BY <2>1, <2>3, <1>1, <1>2, <1>3, <1>4, ApplyInv DEF WritingCurrent
<1> QED BY <1>7, <1>8

\* The bounds of the counters.
LEMMA BudgetType ==
    ASSUME TypeOK, Upsets < MaxUpsets
    PROVE  /\ [budget EXCEPT !.edits = @ + 1] \in
                 [changes: 0..MaxChanges, edits: 0..MaxUpsets, faults: 0..MaxUpsets]
           /\ [budget EXCEPT !.faults = @ + 1] \in
                 [changes: 0..MaxChanges, edits: 0..MaxUpsets, faults: 0..MaxUpsets]
<1>1. /\ budget \in [changes: 0..MaxChanges, edits: 0..MaxUpsets, faults: 0..MaxUpsets]
  BY DEF TypeOK
<1>2. budget.edits \in 0..MaxUpsets /\ budget.faults \in 0..MaxUpsets /\ MaxUpsets \in Nat
  BY <1>1, InventoryAssumption
<1>3. budget.edits + 1 \in 0..MaxUpsets /\ budget.faults + 1 \in 0..MaxUpsets
  BY <1>2 DEF Upsets
<1> QED BY <1>1, <1>3

LEMMA CrashInv ==
    ASSUME InventoryInv, NEW p \in Processes, Crash(p)
    PROVE  InventoryInv'
<1>1. /\ ops \in [Processes -> {NoOp} \union OpType] /\ SyncOK /\ RowsOK
      /\ posted \in [Machines -> SUBSET Nat]
      /\ ops' = [ops EXCEPT ![p] = NoOp] /\ UNCHANGED real
      /\ UNCHANGED <<items, snapshots, commits, current, log>>
      /\ posted' = IF Idle(p) THEN posted ELSE Withdrawn(p)
      /\ sync' = IF p = Syncer THEN NoSync ELSE sync
  BY DEF InventoryInv, TypeOK, Crash, NothingWritten
<1>2. ops' \in [Processes -> {NoOp} \union OpType]
  BY <1>1
<1>3. SyncOK'
  <2>1. CASE p = Syncer
    BY <2>1, <1>1 DEF SyncOK, Found, NoSync, Idle, NoOp, Processes
  <2>2. CASE p # Syncer
    <3>1. Idle(Syncer)' <=> Idle(Syncer)
      BY <2>2, <1>1 DEF Idle, Processes
    <3> QED BY <2>2, <3>1, <1>1 DEF SyncOK, Found
  <2> QED BY <2>1, <2>2
<1>4. budget' \in [changes: 0..MaxChanges, edits: 0..MaxUpsets, faults: 0..MaxUpsets]
  BY BudgetType DEF InventoryInv, Crash
<1>5. RowsOK'
  BY <1>1, SameRowsOK DEF tables
<1>6. TypeOK'
  BY <1>1, <1>2, <1>3, <1>4, <1>5, WithdrawnType DEF InventoryInv, TypeOK
<1> QED BY <1>1, <1>6, DropInv

-----------------------------------------------------------------------------
(* The starts of operations                                                *)

\* The operation p starts with: nothing read, nothing written.
LEMMA StartInv ==
    ASSUME InventoryInv, NEW p \in Processes, Idle(p), NEW m \in Machines, NEW tree \in Trees,
           NEW mode \in Modes, ops' = [ops EXCEPT ![p] = Operation(m, tree, mode)],
           UNCHANGED <<real, tables, history, budget>>, SyncOK'
    PROVE  InventoryInv'
<1> DEFINE o == Operation(m, tree, mode)
<1>1. o \in OpType
  BY DEF Operation, OpType, Trees
<1>2. OpInv(o) /\ ~ Makes(o)
  BY DEF Operation, OpInv, BaseLogged, NotRead, Inserting, Updating, Committing, Posting,
         WritingVersion, WritingCurrent, Makes
<1>a. ops' = [ops EXCEPT ![p] = o]
  OBVIOUS
<1> HIDE DEF o
<1>3. ops' \in [Processes -> {NoOp} \union OpType]
  BY <1>1, <1>a DEF InventoryInv, TypeOK
<1>4. RowsOK'
  BY SameRowsOK DEF InventoryInv, TypeOK, history
<1>5. TypeOK'
  BY <1>3, <1>4 DEF InventoryInv, TypeOK, history
<1>6. OpStep(p, o)
  BY <1>a DEF OpStep, tables, history
<1> QED BY <1>2, <1>5, <1>6, OpStepInv DEF NewMaker, Busy

LEMMA ReportInv ==
    ASSUME InventoryInv, NEW p \in Reporters, NEW m \in Machines, NEW mode \in Modes,
           Report(p, m, mode)
    PROVE  InventoryInv'
<1>1. p \in Processes /\ p # Syncer
  BY InventoryAssumption DEF Processes
<1>2. real[m] \in Trees
  BY DEF Report, InventoryInv, TypeOK
<1>3. ops' = [ops EXCEPT ![p] = Operation(m, real[m], mode)] /\ sync' = sync
      /\ UNCHANGED <<real, tables, history, budget>> /\ Idle(p)
  BY DEF Report
<1>4. Idle(Syncer)' <=> Idle(Syncer)
  BY <1>1, <1>3 DEF InventoryInv, TypeOK, Idle, Processes
<1>5. SyncOK'
  BY <1>3, <1>4 DEF InventoryInv, TypeOK, SyncOK, Found
<1> QED BY <1>1, <1>2, <1>3, <1>5, StartInv

\* A synchronization under way.
LEMMA SyncOn ==
    ASSUME SyncOK, sync.on
    PROVE  sync \in [on: {TRUE}, trees: [Machines -> {None} \union Trees],
                     seen: SUBSET Machines, saved: BOOLEAN]
<1>1. sync # NoSync
  BY DEF NoSync
<1> QED BY <1>1 DEF SyncOK, Found

LEMMA SyncNextInv ==
    ASSUME InventoryInv, NEW m \in Machines, SyncNext(m)
    PROVE  InventoryInv'
<1>1. /\ sync.on /\ SyncOK /\ Idle(Syncer) /\ m \in Found
      /\ sync' = [sync EXCEPT !.seen = @ \union {m}]
      /\ ops' = [ops EXCEPT ![Syncer] = Operation(m, sync.trees[m], "autocommit")]
      /\ UNCHANGED <<real, tables, history, budget>>
  BY DEF SyncNext, InventoryInv, TypeOK
<1>2. sync \in [on: {TRUE}, trees: [Machines -> {None} \union Trees],
                seen: SUBSET Machines, saved: BOOLEAN]
  BY <1>1, SyncOn
<1>3. sync.trees[m] \in Trees
  BY <1>1, <1>2 DEF Found
<1>4. SyncOK'
  <2>1. sync' \in [on: {TRUE}, trees: [Machines -> {None} \union Trees],
                   seen: SUBSET Machines, saved: BOOLEAN]
    BY <1>1, <1>2
  <2>2. sync'.on /\ sync'.trees = sync.trees /\ sync'.seen = sync.seen \union {m}
    BY <1>1, <1>2
  <2>3. sync'.seen \subseteq Found'
    BY <1>1, <2>2 DEF SyncOK, Found
  <2> QED BY <2>1, <2>2, <2>3 DEF SyncOK, Found
<1> QED BY <1>1, <1>3, <1>4, StartInv DEF Processes, Modes

-----------------------------------------------------------------------------
(* The steps that leave the operations alone                               *)

LEMMA QuietInv ==
    ASSUME InventoryInv, TypeOK', CurrentRecorded', UNCHANGED <<commits, ops, history>>
    PROVE  InventoryInv'
<1>1. CommitsLogged' /\ LastKept' /\ VersionsDiffer' /\ OneMaker' /\ PostedMade'
  BY DEF InventoryInv, CommitsLogged, LastKept, VersionsDiffer, OfMachine, TreeOf, OneMaker,
         PostedMade, Busy, Idle, At, Makes, history
<1>2. ASSUME NEW q \in Busy' PROVE OpInv(ops[q])'
  <2>1. q \in Busy /\ OpInv(ops[q])
    BY DEF InventoryInv, Busy, Idle
  <2> QED BY <2>1 DEF OpInv, BaseLogged, NotRead, Inserting, Updating, Committing, Posting,
              WritingVersion, WritingCurrent, Follows, Recorded, OfMachine, TreeOf, history
<1> QED BY <1>1, <1>2 DEF InventoryInv

\* Current snapshots are removed.
LEMMA RemovedRecorded ==
    ASSUME InventoryInv, UNCHANGED log,
           \A m \in Machines : current'[m] \in {current[m], None}
    PROVE  CurrentRecorded'
BY DEF InventoryInv, CurrentRecorded

LEMMA SyncStartInv ==
    ASSUME InventoryInv, SyncStart
    PROVE  InventoryInv'
<1>1. /\ real \in [Machines -> {None} \union Trees] /\ SyncOK /\ RowsOK
      /\ sync' = [on |-> TRUE, trees |-> real, seen |-> {}, saved |-> FALSE]
      /\ UNCHANGED <<real, tables, ops, history, budget>>
  BY DEF InventoryInv, TypeOK, SyncStart
<1>3. SyncOK'
  BY <1>1 DEF SyncOK, Found
<1>4. TypeOK'
  BY <1>1, <1>3, SameRowsOK DEF InventoryInv, TypeOK, history
<1>5. CurrentRecorded'
  BY <1>1, RemovedRecorded DEF tables, history
<1> QED BY <1>1, <1>4, <1>5, QuietInv DEF tables

LEMMA SyncEndInv ==
    ASSUME InventoryInv, SyncEnd
    PROVE  InventoryInv'
<1>1. /\ SyncOK /\ RowsOK /\ Idle(Syncer) /\ sync' = NoSync
      /\ UNCHANGED <<real, items, snapshots, commits, ops, history, budget>>
      /\ current' = IF sync.saved
                    THEN [m \in Machines |-> IF m \in sync.seen THEN current[m] ELSE None]
                    ELSE current
  BY DEF InventoryInv, TypeOK, SyncEnd
<1>2. SyncOK'
  BY <1>1 DEF SyncOK, Found, NoSync, Idle
<1>3. current' \in [Machines -> {None} \union Contents]
  BY <1>1 DEF RowsOK
<1>4. TypeOK'
  BY <1>1, <1>2, <1>3 DEF InventoryInv, TypeOK, RowsOK, history
<1>5. CurrentRecorded'
  BY <1>1, RemovedRecorded DEF history
<1> QED BY <1>1, <1>4, <1>5, QuietInv

LEMMA ChangeInv ==
    ASSUME InventoryInv, NEW m \in Machines, Change(m) \/ Unlist(m)
    PROVE  InventoryInv'
<1>1. /\ real \in [Machines -> {None} \union Trees] /\ SyncOK /\ RowsOK
      /\ budget \in [changes: 0..MaxChanges, edits: 0..MaxUpsets, faults: 0..MaxUpsets]
      /\ budget' = [budget EXCEPT !.changes = @ + 1] /\ budget.changes < MaxChanges
      /\ UNCHANGED <<tables, ops, sync, history>>
  BY DEF InventoryInv, TypeOK, Change, Unlist
<1>2. budget' \in [changes: 0..MaxChanges, edits: 0..MaxUpsets, faults: 0..MaxUpsets]
  BY <1>1, InventoryAssumption
<1>3. SyncOK'
  BY <1>1 DEF SyncOK, Found, Idle
<1>4. RowsOK'
  BY <1>1, SameRowsOK DEF history
<1>5. CurrentRecorded'
  BY <1>1, RemovedRecorded DEF tables, history
<1>6. real' \in [Machines -> {None} \union Trees]
  <2>1. CASE Unlist(m)
    BY <1>1, <2>1 DEF Unlist
  <2>2. CASE Change(m)
    <3>1. PICK s \in Contents, d \in 0..1 :
            real' = [real EXCEPT ![m] =
                       [items |-> s, stamp |-> IF real[m] = None THEN 0 ELSE real[m].stamp + d]]
      BY <2>2 DEF Change
    <3>2. (IF real[m] = None THEN 0 ELSE real[m].stamp + d) \in Nat
      BY <1>1 DEF Trees
    <3>3. [items |-> s, stamp |-> IF real[m] = None THEN 0 ELSE real[m].stamp + d] \in Trees
      BY <3>2 DEF Trees
    <3> QED BY <1>1, <3>1, <3>3
  <2> QED BY <2>1, <2>2
<1>7. TypeOK'
  BY <1>1, <1>2, <1>3, <1>4, <1>6 DEF InventoryInv, TypeOK, history
<1> QED BY <1>1, <1>5, <1>7, QuietInv DEF tables

LEMMA ArchiveInv ==
    ASSUME InventoryInv, NEW m \in Machines, Archive(m)
    PROVE  InventoryInv'
<1>1. /\ SyncOK /\ RowsOK /\ current' = [current EXCEPT ![m] = None]
      /\ UNCHANGED <<real, items, snapshots, commits, ops, sync, history>>
  BY DEF InventoryInv, TypeOK, Archive
<1>2. budget' \in [changes: 0..MaxChanges, edits: 0..MaxUpsets, faults: 0..MaxUpsets]
  BY BudgetType DEF InventoryInv, Archive
<1>3. SyncOK'
  BY <1>1 DEF SyncOK, Found, Idle
<1>4. current \in [Machines -> {None} \union Contents]
  BY <1>1 DEF RowsOK
<1>5. current' \in [Machines -> {None} \union Contents]
  BY <1>1, <1>4
<1>6. TypeOK'
  BY <1>1, <1>2, <1>3, <1>5 DEF InventoryInv, TypeOK, RowsOK, history
<1>7. CurrentRecorded'
  BY <1>1, <1>4, RemovedRecorded DEF history
<1> QED BY <1>1, <1>6, <1>7, QuietInv

LEMMA CleanupInv ==
    ASSUME InventoryInv, Cleanup
    PROVE  InventoryInv'
<1>1. PICK recent \in RecentVersions :
        LET kept == Kept(recent)
        IN  /\ commits' = kept
            /\ snapshots' = KeptSnapshots(kept)
            /\ items' = KeptItems(kept)
            /\ ops' = [p \in Processes |->
                          IF Idle(p) THEN ops[p]
                          ELSE [ops[p] EXCEPT !.lost = @ \/ HeldGone(ops[p], kept),
                                              !.baseLost = @ \/ BaseGone(ops[p], kept)]]
  BY DEF Cleanup
<1> DEFINE kept == Kept(recent)
           after(p) == [ops[p] EXCEPT !.lost = @ \/ HeldGone(ops[p], kept),
                                      !.baseLost = @ \/ BaseGone(ops[p], kept)]
<1>2. /\ commits' = kept /\ snapshots' = KeptSnapshots(kept) /\ items' = KeptItems(kept)
      /\ ops' = [p \in Processes |-> IF Idle(p) THEN ops[p] ELSE after(p)]
      /\ UNCHANGED <<real, current, sync, history>>
  BY <1>1 DEF Cleanup
<1>3. /\ ops \in [Processes -> {NoOp} \union OpType] /\ SyncOK /\ RowsOK
  BY DEF InventoryInv, TypeOK
<1>4. /\ kept \subseteq commits /\ {c \in commits : Fresh(c)} \subseteq kept
      /\ {c \in commits : IsLast(c, commits)} \subseteq kept
  BY DEF Kept, RecentVersions
<1> HIDE DEF kept
<1>5. ASSUME NEW p \in Busy
      PROVE  /\ ops'[p] = after(p) /\ after(p) \in OpType
             /\ after(p).pc = ops[p].pc /\ after(p).m = ops[p].m /\ after(p).tree = ops[p].tree
             /\ after(p).base = ops[p].base /\ after(p).new = ops[p].new
             /\ after(p).mode = ops[p].mode /\ after(p).wVersion = ops[p].wVersion
             /\ after(p).wCurrent = ops[p].wCurrent
  <2>1. p \in Processes /\ ~ Idle(p) /\ ops[p] \in OpType
    BY BusyType DEF InventoryInv, Busy
  <2>2. HeldGone(ops[p], kept) \in BOOLEAN /\ BaseGone(ops[p], kept) \in BOOLEAN
    BY DEF HeldGone, BaseGone
  <2> DEFINE held == HeldGone(ops[p], kept)
             gone == BaseGone(ops[p], kept)
  <2> HIDE DEF held, gone
  <2>3. /\ (ops[p].lost \/ held) \in BOOLEAN /\ (ops[p].baseLost \/ gone) \in BOOLEAN
    OBVIOUS
  <2>4. after(p) = [ops[p] EXCEPT !.lost = ops[p].lost \/ held, !.baseLost = ops[p].baseLost \/ gone]
    BY DEF held, gone
  <2> HIDE DEF after
  <2>5. ops'[p] = after(p)
    BY <2>1, <1>2
  <2> QED BY <2>1, <2>3, <2>4, <2>5 DEF OpType
<1> HIDE DEF after
<1>6. Busy' = Busy
  <2>1. \A p \in Processes \ Busy : ops'[p] = ops[p]
    BY <1>2 DEF Busy
  <2>2. \A p \in Busy : ops'[p].pc # "idle"
    BY <1>5, OpTypeFields
  <2> QED BY <2>1, <2>2 DEF Busy, Idle
<1>7. TypeOK'
  <2>1. ops' \in [Processes -> {NoOp} \union OpType]
    <3>1. \A p \in Processes : (IF Idle(p) THEN ops[p] ELSE after(p)) \in {NoOp} \union OpType
      BY <1>3, <1>5 DEF Busy
    <3> QED BY <3>1, <1>2
  <2>2. SyncOK'
    BY <1>2, <1>3, <1>6 DEF SyncOK, Found, Busy, Processes
  <2>3. RowsOK'
    BY <1>2, <1>3, <1>4 DEF RowsOK, KeptSnapshots, KeptItems, history
  <2>4. budget' \in [changes: 0..MaxChanges, edits: 0..MaxUpsets, faults: 0..MaxUpsets]
    BY BudgetType DEF InventoryInv, Cleanup
  <2> QED BY <2>1, <2>2, <2>3, <2>4, <1>2 DEF InventoryInv, TypeOK, history
<1>8. CommitsLogged' /\ CurrentRecorded' /\ VersionsDiffer'
  BY <1>2, <1>4 DEF InventoryInv, CommitsLogged, CurrentRecorded, VersionsDiffer, TreeOf, history
<1>9. LastKept'
  <2> SUFFICES ASSUME NEW m \in Machines
               PROVE  /\ \A c \in kept : c.m = m => c.v <= Len(log[m])
                      /\ log[m] # <<>> => \E c \in kept : c.m = m /\ c.v = Len(log[m])
    BY <1>2 DEF LastKept, OfMachine, history
  <2>1. /\ \A c \in commits : c.m = m => c.v <= Len(log[m])
        /\ log[m] # <<>> => \E c \in commits : c.m = m /\ c.v = Len(log[m])
    BY DEF InventoryInv, LastKept, OfMachine
  <2>2. \A c \in commits : c.m = m /\ c.v = Len(log[m]) => c \in kept
    BY <2>1, <1>4 DEF IsLast
  <2> QED BY <2>1, <2>2, <1>4
<1>10. ASSUME NEW q \in Busy' PROVE OpInv(ops[q])'
  <2>1. q \in Busy /\ OpInv(ops[q]) /\ ops[q] \in OpType
    BY <1>6, BusyType DEF InventoryInv, Busy
  <2>a. /\ ops'[q].pc = ops[q].pc /\ ops'[q].m = ops[q].m /\ ops'[q].tree = ops[q].tree
        /\ ops'[q].base = ops[q].base /\ ops'[q].new = ops[q].new
        /\ ops'[q].mode = ops[q].mode /\ ops'[q].wVersion = ops[q].wVersion
        /\ ops'[q].wCurrent = ops[q].wCurrent
    BY <2>1, <1>5
  <2>b. log' = log /\ posted' = posted
    BY <1>2 DEF history
  <2>2. Inserting(ops[q])'
    <3> SUFFICES ASSUME ops[q].pc = "insert"
                 PROVE  Inserting(ops[q])'
      BY <2>a DEF Inserting
    <3>1. /\ Follows(ops[q]) /\ ~ ops[q].wVersion /\ ~ ops[q].wCurrent
          /\ \A v \in DOMAIN log[ops[q].m] : ops[q].new <= v =>
                \E c \in OfMachine(ops[q].m) : c.v = v
      BY <2>1 DEF OpInv, Inserting
    <3>2. ops[q].new # 0
      BY <2>1, <3>1, OpTypeFields, VersionAfterType DEF Follows
    <3>3. \A c \in OfMachine(ops[q].m) : ops[q].new <= c.v => c \in kept
      BY <2>1, <3>2, <1>4 DEF Fresh, OfMachine
    <3>4. \A v \in DOMAIN log[ops[q].m] : ops[q].new <= v =>
             \E c \in kept : c.m = ops[q].m /\ c.v = v
      BY <3>1, <3>3 DEF OfMachine
    <3>5. Follows(ops[q])'
      BY <3>1, <2>a DEF Follows
    <3>6. \A v \in DOMAIN log'[ops'[q].m] : ops'[q].new <= v =>
             \E c \in commits' : c.m = ops'[q].m /\ c.v = v
      BY <3>4, <2>a, <2>b, <1>2
    <3> QED BY <3>1, <3>5, <3>6, <2>a DEF Inserting, OfMachine
  <2> QED BY <2>1, <2>2, <2>a, <2>b DEF OpInv, BaseLogged, NotRead, Updating, Committing, Posting,
              WritingVersion, WritingCurrent, Follows, Recorded, TreeOf
<1>11. OneMaker'
  BY <1>5, <1>6 DEF InventoryInv, OneMaker, Makes
<1>12. PostedMade'
  <2> SUFFICES ASSUME NEW m \in Machines, NEW v \in posted[m], v \notin DOMAIN log[m]
               PROVE  \E q \in Busy' : /\ ops'[q].pc = "end" /\ ops'[q].wVersion
                                       /\ ops'[q].m = m /\ ops'[q].new = v
    BY <1>2 DEF PostedMade, At, history
  <2>1. PICK q \in Busy : At(q, "end") /\ ops[q].wVersion /\ ops[q].m = m /\ ops[q].new = v
    BY DEF InventoryInv, PostedMade
  <2> QED BY <2>1, <1>5, <1>6 DEF At
<1> QED BY <1>7, <1>8, <1>9, <1>10, <1>11, <1>12 DEF InventoryInv

-----------------------------------------------------------------------------
(* The inductive invariant                                                 *)

LEMMA InitInv == Init => InventoryInv
<1> SUFFICES ASSUME Init PROVE InventoryInv
  OBVIOUS
<1>1. Busy = {}
  BY DEF Init, Busy, Idle, NoOp
<1>2. real \in [Machines -> {None} \union Trees]
  <2>1. real \in [Machines -> {None} \union [items: Contents, stamp: {0}]]
    BY InventoryAssumption DEF Init
  <2>2. {None} \union [items: Contents, stamp: {0}] \subseteq {None} \union Trees
    BY DEF Trees
  <2> QED BY <2>1, <2>2
<1>3. RowsOK
  BY DEF Init, RowsOK
<1>4. SyncOK
  <2>1. Idle(Syncer) /\ sync = NoSync
    BY DEF Init, Idle, NoOp, Processes
  <2> QED BY <2>1 DEF SyncOK, Found, NoSync
<1>5. budget \in [changes: 0..MaxChanges, edits: 0..MaxUpsets, faults: 0..MaxUpsets]
  BY InventoryAssumption DEF Init
<1>6. posted \in [Machines -> SUBSET Nat] /\ ops \in [Processes -> {NoOp} \union OpType]
  BY DEF Init
<1>7. TypeOK
  BY <1>2, <1>3, <1>4, <1>5, <1>6 DEF TypeOK
<1>8. CommitsLogged /\ LastKept /\ CurrentRecorded /\ VersionsDiffer
  BY DEF Init, CommitsLogged, LastKept, CurrentRecorded, VersionsDiffer, OfMachine
<1>9. OneMaker /\ PostedMade
  BY <1>1 DEF Init, OneMaker, PostedMade
<1> QED BY <1>1, <1>7, <1>8, <1>9 DEF InventoryInv

LEMMA NextInv == InventoryInv /\ [Next]_vars => InventoryInv'
<1> SUFFICES ASSUME InventoryInv, [Next]_vars PROVE InventoryInv'
  OBVIOUS
<1>1. ASSUME NEW p \in Processes, Step(p) PROVE InventoryInv'
  <2>1. CASE CommitObjects(p)
    BY <2>1, CommitObjectsInv
  <2>2. CASE SaveSnapshot(p)
    BY <2>2, SaveSnapshotInv
  <2>3. CASE ReadLast(p)
    BY <2>3, ReadLastInv
  <2>4. CASE InsertVersion(p)
    BY <2>4, InsertVersionInv
  <2>5. CASE UpdateCurrent(p)
    BY <2>5, UpdateCurrentInv
  <2>6. CASE Commit(p)
    BY <2>6, CommitInv
  <2>7. CASE PostEvents(p)
    BY <2>7, PostEventsInv
  <2>8. CASE EndRequest(p)
    BY <2>8, EndRequestInv
  <2> QED BY <1>1, <2>1, <2>2, <2>3, <2>4, <2>5, <2>6, <2>7, <2>8 DEF Step
<1>2. ASSUME NEW p \in Processes, Crash(p) PROVE InventoryInv'
  BY <1>2, CrashInv
<1>3. ASSUME NEW p \in Reporters, NEW m \in Machines, NEW mode \in Modes, Report(p, m, mode)
      PROVE  InventoryInv'
  BY <1>3, ReportInv
<1>4. CASE SyncStart
  BY <1>4, SyncStartInv
<1>5. ASSUME NEW m \in Machines, SyncNext(m) PROVE InventoryInv'
  BY <1>5, SyncNextInv
<1>6. CASE SyncEnd
  BY <1>6, SyncEndInv
<1>7. ASSUME NEW m \in Machines, Change(m) \/ Unlist(m) PROVE InventoryInv'
  BY <1>7, ChangeInv
<1>8. ASSUME NEW m \in Machines, Archive(m) PROVE InventoryInv'
  BY <1>8, ArchiveInv
<1>9. CASE Cleanup
  BY <1>9, CleanupInv
<1>10. CASE UNCHANGED vars
  <2>1. UNCHANGED <<real, tables, ops, sync, history, budget, commits, current, log>>
    BY <1>10 DEF vars, tables, history
  <2>2. SyncOK'
    BY <2>1 DEF InventoryInv, TypeOK, SyncOK, Found, Idle
  <2>3. TypeOK'
    BY <2>1, <2>2, SameRowsOK DEF InventoryInv, TypeOK, history
  <2>4. CurrentRecorded'
    BY <2>1, RemovedRecorded
  <2> QED BY <2>1, <2>3, <2>4, QuietInv
<1> QED BY <1>1, <1>2, <1>3, <1>4, <1>5, <1>6, <1>7, <1>8, <1>9, <1>10 DEF Next, SyncStep

(* The inductive invariant of the commits of trees: what each operation    *)
(* has read and written, against the history of the machine.               *)
THEOREM InventoryInvariant == Spec => []InventoryInv
BY InitInv, NextInv, PTL DEF Spec

(* The variables have their types, in every transaction mode; the worker   *)
(* commits trees during a synchronization only.                            *)
THEOREM InventoryTyped == Spec => []TypeOK
<1>1. InventoryInv => TypeOK
  BY DEF InventoryInv
<1> QED BY <1>1, InventoryInvariant, PTL

(* cleanup_inventory_history and the writers of new versions agree: no     *)
(* version number of a machine is ever used for two trees.                 *)
THEOREM LastVersionsKept == Spec => []LastKept
<1>1. InventoryInv => LastKept
  BY DEF InventoryInv
<1> QED BY <1>1, InventoryInvariant, PTL

(* commit_machine_snapshot_tree never makes current a snapshot that is not *)
(* in the history of its machine, whoever else commits it.                 *)
THEOREM CurrentSnapshotsRecorded == Spec => []CurrentRecorded
<1>1. InventoryInv => CurrentRecorded
  BY DEF InventoryInv
<1> QED BY <1>1, InventoryInvariant, PTL

(* No version repeats the one before it, although the last version is read *)
(* outside of the transaction that makes the next one.                     *)
THEOREM VersionsAreChanges == Spec => []VersionsDiffer
<1>1. InventoryInv => VersionsDiffer
  BY DEF InventoryInv
<1> QED BY <1>1, InventoryInvariant, PTL

-----------------------------------------------------------------------------
(* The events                                                              *)

(* The events of a version are posted once, and give the version when they *)
(* are applied to the one before it, unless the cleanup has deleted the    *)
(* objects of that one since.                                              *)
THEOREM EventsAreDifferences == Spec => EventsDescribe
<1> DEFINE Described == \A p \in Processes : PostEvents(p) => Describes(p)
<1>1. InventoryInv /\ [Next]_vars => [Described]_vars
  <2> SUFFICES ASSUME InventoryInv, NEW p \in Processes, PostEvents(p)
               PROVE  Describes(p)
    OBVIOUS
  <2>1. p \in Busy
    BY DEF PostEvents, At, Busy, Idle
  <2>2. /\ ops[p] \in OpType /\ OpInv(ops[p]) /\ ops[p].pc = "post" /\ ops[p].new \in Nat
        /\ ops[p].base \in {None} \union Bases
    BY <2>1, BusyType, OpTypeFields DEF InventoryInv, PostEvents, At, Busy
  <2>3. /\ ops[p].new = VersionAfter(ops[p].base) /\ ops[p].new \notin posted[ops[p].m]
    BY <2>2 DEF OpInv, Posting, Follows
  <2>4. ops[p].new = 1 => ops[p].base = None
    BY <2>2, <2>3 DEF VersionAfter, Bases
  <2>5. ASSUME ops[p].new # 1
        PROVE  log[ops[p].m][ops[p].new - 1].items = ops[p].base.items
    <3>1. ops[p].base # None
      BY <2>3, <2>5 DEF VersionAfter
    <3>2. ops[p].base \in Bases /\ ops[p].base.v = ops[p].new - 1
      BY <3>1, <2>2, <2>3 DEF VersionAfter, Bases
    <3>3. log[ops[p].m][ops[p].base.v] = TreeOf(ops[p].base)
      BY <3>1, <2>2 DEF OpInv, BaseLogged
    <3> QED BY <3>2, <3>3 DEF TreeOf
  <2>6. ASSUME ~ ops[p].baseLost
        PROVE  (ops[p].base.items \ Removed(p)) \union Added(p) = Content(p)
    BY <2>6 DEF Removed, Added, SameSnapshot, BaseItems
  <2> QED BY <2>3, <2>4, <2>5, <2>6 DEF Describes
<1> QED BY <1>1, InventoryInvariant, PTL DEF Spec, EventsDescribe

-----------------------------------------------------------------------------
(* The machines that disappear                                             *)

\* A commit makes a snapshot current, or leaves the one there is.
LEMMA ApplyCurrent ==
    ASSUME TypeOK, NEW o, o.m \in Machines, o.tree \in Trees, Apply(o), NEW m \in Machines
    PROVE  current'[m] \in {current[m]} \union Contents
<1>1. o.tree.items \in Contents
  BY DEF Trees
<1>2. current \in [Machines -> {None} \union Contents]
  BY DEF TypeOK, RowsOK
<1> QED BY <1>1, <1>2 DEF Apply

LEMMA StepCurrent ==
    ASSUME TypeOK, NEW p \in Processes, Step(p), NEW m \in Machines
    PROVE  current'[m] \in {current[m]} \union Contents
<1>1. ASSUME At(p, "current") \/ At(p, "commit") \/ At(p, "end")
      PROVE  ops[p].m \in Machines /\ ops[p].tree \in Trees /\ ops[p] \in OpType
  <2>1. p \in Busy
    BY <1>1 DEF At, Busy, Idle
  <2> QED BY <2>1, BusyType, OpTypeFields
<1>2. CASE UpdateCurrent(p)
  <2> DEFINE o == [ops[p] EXCEPT !.wCurrent = TRUE]
  <2>1. /\ ops[p].m \in Machines /\ ops[p].tree \in Trees
        /\ o.m = ops[p].m /\ o.tree = ops[p].tree
    BY <1>1, <1>2 DEF UpdateCurrent, OpType
  <2>2. Apply(o) \/ current' = current
    BY <1>2 DEF UpdateCurrent, Fail, NothingWritten, tables
  <2> HIDE DEF o
  <2> QED BY <2>1, <2>2, ApplyCurrent
<1>3. CASE Commit(p)
  BY <1>1, <1>3, ApplyCurrent DEF Commit, Fail, NothingWritten
<1>4. CASE EndRequest(p)
  BY <1>1, <1>4, ApplyCurrent DEF EndRequest, NothingWritten
<1>5. CASE CommitObjects(p) \/ SaveSnapshot(p) \/ ReadLast(p) \/ InsertVersion(p) \/ PostEvents(p)
  BY <1>5 DEF CommitObjects, SaveSnapshot, ReadLast, InsertVersion, PostEvents, Overtaken, Fail,
              NothingWritten, tables
<1> QED BY <1>2, <1>3, <1>4, <1>5 DEF Step

(* A machine leaves the inventory when it is archived, or at the end of a  *)
(* synchronization whose list did not have it: _sync_inventory compares    *)
(* with the machines seen, those whose commit failed included.             *)
THEOREM OnlyUnlistedRemoved == Spec => RemovedUnlisted
<1> DEFINE Unlisted == \A m \in Machines :
                          current[m] # None /\ current'[m] = None
                              => \/ budget'.edits > budget.edits
                                 \/ sync.on /\ m \notin Found
<1>1. InventoryInv /\ [Next]_vars => [Unlisted]_vars
  <2> SUFFICES ASSUME InventoryInv, Next, NEW m \in Machines,
                      current[m] # None, current'[m] = None
               PROVE  \/ budget'.edits > budget.edits
                      \/ sync.on /\ m \notin Found
    OBVIOUS
  <2>0. TypeOK
    BY DEF InventoryInv
  <2>1. ASSUME current' = current PROVE FALSE
    BY <2>1
  <2>2. ASSUME NEW p \in Processes, Step(p) PROVE FALSE
    <3>1. current'[m] \in {current[m]} \union Contents
      BY <2>0, <2>2, StepCurrent
    <3> QED BY <3>1, NoneAssumption
  <2>3. ASSUME NEW p \in Processes, Crash(p) PROVE FALSE
    BY <2>1, <2>3 DEF Crash, NothingWritten
  <2>4. ASSUME NEW p \in Reporters, NEW k \in Machines, NEW mode \in Modes, Report(p, k, mode)
        PROVE  FALSE
    BY <2>1, <2>4 DEF Report, tables
  <2>5. ASSUME SyncStart \/ \E k \in Machines : SyncNext(k) \/ Change(k) \/ Unlist(k)
        PROVE  FALSE
    BY <2>1, <2>5 DEF SyncStart, SyncNext, Change, Unlist, tables
  <2>6. CASE SyncEnd
    <3>1. m \notin sync.seen
      BY <2>6 DEF SyncEnd
    <3> QED BY <2>6, <3>1 DEF SyncEnd, SyncOver
  <2>7. ASSUME NEW k \in Machines, Archive(k) PROVE budget'.edits > budget.edits
    BY <2>0, <2>7 DEF Archive, TypeOK
  <2>8. CASE Cleanup
    BY <2>1, <2>8 DEF Cleanup
  <2> QED BY <2>2, <2>3, <2>4, <2>5, <2>6, <2>7, <2>8 DEF Next, SyncStep
<1> QED BY <1>1, InventoryInvariant, PTL DEF Spec, RemovedUnlisted

-----------------------------------------------------------------------------
(* The versions without events                                             *)

(* The versions without events that nobody is about to post. *)
Lost ==
    {x \in Machines \X Nat :
        /\ x[2] \in DOMAIN log[x[1]]
        /\ x[2] \notin posted[x[1]]
        /\ ~ InTheMaking(x[1], x[2])}

LostInv == IsFiniteSet(Lost) /\ Cardinality(Lost) <= budget.faults /\ EndPosted

\* For "post" and "end", an operation is what follows.
SameStage(q) ==
    /\ ops'[q].pc = ops[q].pc /\ ops'[q].m = ops[q].m /\ ops'[q].new = ops[q].new
    /\ ops'[q].wVersion = ops[q].wVersion

LEMMA AtBusy ==
    ASSUME NEW p \in Processes, At(p, "post") \/ Witness(p)
    PROVE  p \in Busy
BY DEF At, Witness, Busy, Idle

\* A step that makes no version and posts none.
LEMMA NothingLost ==
    ASSUME EndPosted, UNCHANGED <<log, posted>>,
           \A q \in Processes : SameStage(q) \/ (~ At(q, "post") /\ ~ Witness(q)')
    PROVE  Lost' \subseteq Lost /\ EndPosted'
<1>1. EndPosted'
  BY DEF EndPosted, Witness, At, Busy, Idle, SameStage
<1>2. ASSUME NEW m \in Machines, NEW v \in Nat, InTheMaking(m, v) PROVE InTheMaking(m, v)'
  BY <1>2 DEF InTheMaking, At, Busy, Idle, SameStage
<1>3. Lost' \subseteq Lost
  BY <1>2 DEF Lost
<1> QED BY <1>1, <1>3

\* A version that p commits is posted already, or p is about to post it.
LEMMA CommitLost ==
    ASSUME InventoryInv, EndPosted, NEW p \in Busy, NEW o \in OpType, Apply(o),
           WritingVersion(o), UNCHANGED posted,
           ~ At(p, "post"), ~ Witness(p)', \A q \in Processes \ {p} : ops'[q] = ops[q],
           o.wVersion => \/ o.new \in posted[o.m]
                         \/ At(p, "post")' /\ ops'[p].m = o.m /\ ops'[p].new = o.new
    PROVE  Lost' \subseteq Lost /\ EndPosted'
<1>0. p \in Processes /\ o.m \in Machines /\ o.tree \in Trees /\ log \in [Machines -> Seq(Trees)]
  BY OpTypeFields DEF Busy, InventoryInv, TypeOK, RowsOK
<1>1. EndPosted'
  BY <1>0 DEF EndPosted, Witness, At, Busy, Idle
<1>2. ASSUME NEW m \in Machines, NEW v \in Nat, InTheMaking(m, v) PROVE InTheMaking(m, v)'
  BY <1>0, <1>2 DEF InTheMaking, At, Busy, Idle
<1>3. ASSUME NEW m \in Machines, NEW v \in DOMAIN log'[m], v \notin DOMAIN log[m]
      PROVE  o.wVersion /\ m = o.m /\ v = o.new
  <2>1. o.wVersion /\ log' = [log EXCEPT ![o.m] = Append(@, o.tree)]
    BY <1>3 DEF Apply
  <2>2. m = o.m /\ log'[m] = Append(log[m], o.tree)
    BY <2>1, <1>0, <1>3
  <2>3. v = Len(log[m]) + 1
    BY <2>2, <1>0, <1>3
  <2> QED BY <2>1, <2>2, <2>3 DEF WritingVersion
<1>4. At(p, "post")' => p \in Busy'
  BY <1>0 DEF At, Busy, Idle
<1>5. \A m \in Machines, v \in Nat :
         v \in DOMAIN log'[m] /\ v \notin posted[m] /\ ~ InTheMaking(m, v)' => v \in DOMAIN log[m]
  BY <1>3, <1>4 DEF InTheMaking
<1>6. Lost' \subseteq Lost
  BY <1>2, <1>5 DEF Lost
<1> QED BY <1>1, <1>6

\* The events of a version are posted.
LEMMA PostLost ==
    ASSUME InventoryInv, EndPosted, NEW p \in Processes, PostEvents(p)
    PROVE  Lost' \subseteq Lost /\ EndPosted'
<1> DEFINE m == ops[p].m
           n == ops[p].new
<1>1. p \in Busy /\ ops[p].pc = "post"
  BY AtBusy DEF PostEvents, At
<1>2. ops[p] \in OpType /\ m \in Machines /\ n \in Nat
  BY <1>1, BusyType, OpTypeFields DEF InventoryInv
<1>3. /\ ops \in [Processes -> {NoOp} \union OpType] /\ posted \in [Machines -> SUBSET Nat]
      /\ log' = log /\ posted' = [posted EXCEPT ![m] = @ \union {n}]
  BY DEF InventoryInv, TypeOK, PostEvents
<1>4. /\ \A q \in Processes \ {p} : ops'[q] = ops[q]
      /\ \/ ops'[p] = NoOp
         \/ ops'[p].m = m /\ ops'[p].new = n
  BY <1>2, <1>3 DEF PostEvents, Goto, Leave, OpType
<1>5. /\ n \in posted'[m]
      /\ \A k \in Machines : posted[k] \subseteq posted'[k]
  BY <1>2, <1>3
<1>6. EndPosted'
  <2> SUFFICES ASSUME NEW q \in Processes, Witness(q)' PROVE ops'[q].new \in posted'[ops'[q].m]
    BY DEF EndPosted, Witness, At, Busy, Idle
  <2>1. CASE q = p
    BY <2>1, <1>4, <1>5 DEF Witness, At, NoOp
  <2>2. CASE q # p
    <3>1. Witness(q) /\ ops'[q] = ops[q]
      BY <2>2, <1>4 DEF Witness, At
    <3>2. ops[q].m \in Machines
      BY <3>1, AtBusy, BusyType, OpTypeFields DEF InventoryInv
    <3> QED BY <3>1, <3>2, <1>5 DEF EndPosted, Witness, At, Busy, Idle
  <2> QED BY <2>1, <2>2
<1>7. ASSUME NEW k \in Machines, NEW v \in Nat, InTheMaking(k, v), v \notin posted'[k]
      PROVE  InTheMaking(k, v)'
  <2>1. PICK q \in Busy : At(q, "post") /\ ops[q].m = k /\ ops[q].new = v
    BY <1>7 DEF InTheMaking
  <2>2. q # p /\ q \in Processes
    BY <2>1, <1>5, <1>7 DEF Busy
  <2>3. ops'[q] = ops[q]
    BY <2>2, <1>4
  <2> QED BY <2>1, <2>2, <2>3 DEF InTheMaking, At, Busy, Idle
<1>8. Lost' \subseteq Lost
  BY <1>3, <1>5, <1>7 DEF Lost
<1> QED BY <1>6, <1>8

\* The operation of p is dropped: the version it was to post, if any, is lost.
LEMMA DropLost ==
    ASSUME InventoryInv, EndPosted, NEW p \in Processes, log' = log,
           ops' = [ops EXCEPT ![p] = NoOp],
           posted' = IF Idle(p) THEN posted ELSE Withdrawn(p)
    PROVE  /\ Lost' \subseteq Lost \union {<<ops[p].m, ops[p].new>>}
           /\ ~ At(p, "post") => Lost' \subseteq Lost
           /\ EndPosted'
<1>1. /\ ops \in [Processes -> {NoOp} \union OpType]
      /\ posted \in [Machines -> SUBSET Nat] /\ log \in [Machines -> Seq(Trees)]
  BY DEF InventoryInv, TypeOK, RowsOK
<1>2. ops'[p] = NoOp /\ \A q \in Processes \ {p} : ops'[q] = ops[q]
  BY <1>1
<1>3. ASSUME NEW k \in Machines, NEW v \in posted[k], v \notin posted'[k]
      PROVE  p \in Busy /\ ops[p].wVersion /\ k = ops[p].m /\ v = ops[p].new
  BY <1>1, <1>3 DEF Withdrawn, Busy
<1>4. ASSUME p \in Busy, ops[p].wVersion
      PROVE  ops[p].new \notin DOMAIN log[ops[p].m]
  <2>1. ops[p].m \in Machines /\ WritingVersion(ops[p])
    BY <1>4, BusyType, OpTypeFields DEF InventoryInv, OpInv
  <2>2. ops[p].new = Len(log[ops[p].m]) + 1
    BY <2>1, <1>4 DEF WritingVersion
  <2> QED BY <2>1, <2>2, <1>1
<1>5. EndPosted'
  <2> SUFFICES ASSUME NEW q \in Processes, Witness(q)' PROVE ops'[q].new \in posted'[ops'[q].m]
    BY DEF EndPosted, Witness, At, Busy, Idle
  <2>1. q # p
    BY <1>2 DEF Witness, At, NoOp
  <2>2. ops'[q] = ops[q] /\ Witness(q)
    BY <2>1, <1>2 DEF Witness, At
  <2>3. q \in Busy /\ ops[q].m \in Machines /\ ops[q].new \in posted[ops[q].m]
    BY <2>2, AtBusy, BusyType, OpTypeFields DEF InventoryInv, EndPosted, Witness, At
  <2>4. ASSUME ops[q].new \notin posted'[ops[q].m] PROVE FALSE
    <3>1. p \in Busy /\ ops[p].wVersion /\ ops[p].m = ops[q].m /\ ops[p].new = ops[q].new
      BY <2>3, <2>4, <1>3
    <3> QED BY <3>1, <2>1, <2>2, <2>3 DEF InventoryInv, OneMaker, Makes, Witness
  <2> QED BY <2>2, <2>4
<1>6. ASSUME NEW k \in Machines, NEW v \in Nat, InTheMaking(k, v),
             ~ (At(p, "post") /\ k = ops[p].m /\ v = ops[p].new)
      PROVE  InTheMaking(k, v)'
  <2>1. PICK q \in Busy : At(q, "post") /\ ops[q].m = k /\ ops[q].new = v
    BY <1>6 DEF InTheMaking
  <2>2. q # p /\ q \in Processes
    BY <2>1, <1>6 DEF Busy
  <2>3. ops'[q] = ops[q]
    BY <2>2, <1>2
  <2> QED BY <2>1, <2>2, <2>3 DEF InTheMaking, At, Busy, Idle
<1>7. ASSUME NEW x \in Lost', ~ (At(p, "post") /\ x = <<ops[p].m, ops[p].new>>)
      PROVE  x \in Lost
  <2>1. /\ x \in Machines \X Nat /\ x[2] \in DOMAIN log[x[1]] /\ x[2] \notin posted'[x[1]]
        /\ ~ InTheMaking(x[1], x[2])'
    BY <1>7 DEF Lost
  <2>2. x[1] \in Machines /\ x[2] \in Nat /\ x = <<x[1], x[2]>>
    BY <2>1
  <2>3. x[2] \notin posted[x[1]]
    BY <2>1, <2>2, <1>3, <1>4
  <2>4. ~ InTheMaking(x[1], x[2])
    BY <2>1, <2>2, <1>6, <1>7
  <2> QED BY <2>1, <2>3, <2>4 DEF Lost
<1> QED BY <1>5, <1>7

\* What an operation of the other kinds of steps knows of its version.
LEMMA OpFacts ==
    ASSUME InventoryInv, NEW p \in Processes, ~ Idle(p)
    PROVE  /\ p \in Busy /\ ops[p] \in OpType /\ OpInv(ops[p]) /\ ops[p].m \in Machines
           /\ ops \in [Processes -> {NoOp} \union OpType]
           /\ ops[p].wVersion => ops[p].new # 0
<1>1. p \in Busy
  BY DEF Busy
<1>2. /\ ops[p] \in OpType /\ OpInv(ops[p]) /\ ops[p].m \in Machines
      /\ ops \in [Processes -> {NoOp} \union OpType] /\ log \in [Machines -> Seq(Trees)]
  BY <1>1, BusyType, OpTypeFields DEF InventoryInv, TypeOK, RowsOK
<1>3. ops[p].wVersion => ops[p].new = Len(log[ops[p].m]) + 1
  BY <1>2 DEF OpInv, WritingVersion
<1>4. Len(log[ops[p].m]) \in Nat
  BY <1>2
<1> QED BY <1>1, <1>2, <1>3, <1>4

\* A step of p alone, that makes no version.
LEMMA OneStepLost ==
    ASSUME EndPosted, NEW p \in Processes, NEW x, ops \in [Processes -> {NoOp} \union OpType],
           UNCHANGED <<log, posted>>, ops' = [ops EXCEPT ![p] = x],
           ~ At(p, "post"), x = NoOp \/ x.pc # "end" \/ ~ x.wVersion
    PROVE  Lost' \subseteq Lost /\ EndPosted'
<1>1. ops'[p] = x /\ \A q \in Processes \ {p} : ops'[q] = ops[q]
  OBVIOUS
<1>2. ~ Witness(p)'
  BY <1>1 DEF Witness, At, NoOp
<1> QED BY <1>1, <1>2, NothingLost DEF SameStage

LEMMA FailLost ==
    ASSUME InventoryInv, EndPosted, NEW p \in Processes, ~ Idle(p), ~ At(p, "post"), Fail(p)
    PROVE  Lost' \subseteq Lost /\ EndPosted'
<1> DEFINE end == [ops[p] EXCEPT !.pc = "end", !.new = 0, !.wVersion = FALSE, !.wCurrent = FALSE]
<1>1. ops[p] \in OpType /\ ops \in [Processes -> {NoOp} \union OpType]
  BY OpFacts
<1>2. UNCHANGED <<log, posted>>
  BY DEF Fail, NothingWritten
<1>3. ~ end.wVersion
  BY <1>1 DEF OpType
<1>4. ops' = [ops EXCEPT ![p] = end] \/ ops' = [ops EXCEPT ![p] = NoOp]
  BY DEF Fail, Leave
<1> HIDE DEF end
<1>5. CASE ops' = [ops EXCEPT ![p] = end]
  BY <1>1, <1>2, <1>3, <1>5, OneStepLost
<1>6. CASE ops' = [ops EXCEPT ![p] = NoOp]
  BY <1>1, <1>2, <1>6, OneStepLost
<1> QED BY <1>4, <1>5, <1>6

\* The steps before the update of the current snapshot.
LEMMA EarlyLost ==
    ASSUME InventoryInv, EndPosted, NEW p \in Processes,
           CommitObjects(p) \/ SaveSnapshot(p) \/ ReadLast(p) \/ InsertVersion(p)
    PROVE  Lost' \subseteq Lost /\ EndPosted'
<1>1. ~ Idle(p) /\ ~ At(p, "post") /\ ~ At(p, "end")
  BY DEF CommitObjects, SaveSnapshot, ReadLast, InsertVersion, At, Idle
<1>2. /\ ops[p] \in OpType /\ OpInv(ops[p]) /\ ops \in [Processes -> {NoOp} \union OpType]
  BY <1>1, OpFacts
<1>3. CASE Fail(p)
  BY <1>1, <1>3, FailLost
<1>4. CASE ~ Fail(p)
  <2>1. UNCHANGED <<log, posted>>
    BY <1>4 DEF CommitObjects, SaveSnapshot, ReadLast, InsertVersion, Overtaken, history, Leave
  <2>2. \E x : /\ ops' = [ops EXCEPT ![p] = x]
               /\ x = NoOp \/ x.pc # "end" \/ ~ x.wVersion
    <3>1. CASE CommitObjects(p)
      <4> DEFINE new == Content(p) \ items
                 x == [ops[p] EXCEPT !.pc = "save"]
                 y == [ops[p] EXCEPT !.pc = "save", !.wItems = new]
      <4>1. x.pc = "save" /\ y.pc = "save"
        BY <1>2 DEF OpType
      <4>2. ops' = [ops EXCEPT ![p] = x] \/ ops' = [ops EXCEPT ![p] = y]
        BY <3>1 DEF CommitObjects, Goto
      <4> HIDE DEF x, y
      <4> QED BY <4>1, <4>2
    <3>2. CASE SaveSnapshot(p)
      <4> DEFINE x == [ops[p] EXCEPT !.pc = "last"]
                 y == [ops[p] EXCEPT !.pc = "last", !.lost = FALSE]
                 z == [ops[p] EXCEPT !.pc = "last", !.wSnapshot = TRUE]
      <4>1. x.pc = "last" /\ y.pc = "last" /\ z.pc = "last"
        BY <1>2 DEF OpType
      <4>2. \/ ops' = [ops EXCEPT ![p] = x]
            \/ ops' = [ops EXCEPT ![p] = y]
            \/ ops' = [ops EXCEPT ![p] = z]
        BY <3>2, <1>4 DEF SaveSnapshot, Goto
      <4> HIDE DEF x, y, z
      <4> QED BY <4>1, <4>2
    <3>3. CASE ReadLast(p)
      <4>1. PICK base, new, pc :
               /\ ops' = [ops EXCEPT ![p] = [@ EXCEPT !.pc = pc, !.base = base, !.new = new]]
               /\ pc \in {"insert", "current"}
        BY <3>3 DEF ReadLast
      <4> DEFINE x == [ops[p] EXCEPT !.pc = pc, !.base = base, !.new = new]
      <4>2. x.pc = pc
        BY <1>2 DEF OpType
      <4>3. ops' = [ops EXCEPT ![p] = x]
        BY <4>1
      <4> HIDE DEF x
      <4> QED BY <4>1, <4>2, <4>3
    <3>4. CASE InsertVersion(p)
      <4> DEFINE x == [ops[p] EXCEPT !.pc = "current", !.wVersion = TRUE]
                 y == [ops[p] EXCEPT !.pc = "commit", !.new = 0]
                 z == [ops[p] EXCEPT !.pc = "end", !.new = 0]
      <4>1. ~ ops[p].wVersion
        BY <3>4, <1>2 DEF InsertVersion, At, OpInv, Inserting
      <4>2. x.pc = "current" /\ y.pc = "commit" /\ ~ z.wVersion
        BY <4>1, <1>2 DEF OpType
      <4>3. ops[p].mode \in {"autocommit", "atomic", "request"}
        BY <1>2 DEF OpType, Modes
      <4>4. \/ ops' = [ops EXCEPT ![p] = x]
            \/ ops' = [ops EXCEPT ![p] = y]
            \/ ops' = [ops EXCEPT ![p] = z]
            \/ ops' = [ops EXCEPT ![p] = NoOp]
        BY <3>4, <4>3, <1>4 DEF InsertVersion, Overtaken, Leave
      <4> HIDE DEF x, y, z
      <4> QED BY <4>2, <4>4
    <3> QED BY <3>1, <3>2, <3>3, <3>4
  <2> QED BY <2>1, <2>2, <1>1, <1>2, OneStepLost
<1> QED BY <1>3, <1>4

LEMMA UpdateLost ==
    ASSUME InventoryInv, EndPosted, NEW p \in Processes, UpdateCurrent(p)
    PROVE  Lost' \subseteq Lost /\ EndPosted'
<1> DEFINE o == [ops[p] EXCEPT !.wCurrent = TRUE]
           post == [ops[p] EXCEPT !.pc = "post", !.wVersion = FALSE]
           next == [o EXCEPT !.pc = CASE o.mode = "atomic" -> "commit"
                                      [] o.mode = "request" /\ Posts(o) -> "post"
                                      [] OTHER -> "end"]
<1>1. ~ Idle(p) /\ ~ At(p, "post") /\ At(p, "current")
  BY DEF UpdateCurrent, At, Idle
<1>2. /\ p \in Busy /\ ops[p] \in OpType /\ OpInv(ops[p]) /\ ops[p].m \in Machines
      /\ ops \in [Processes -> {NoOp} \union OpType] /\ (ops[p].wVersion => ops[p].new # 0)
  BY <1>1, OpFacts
<1>3. /\ o \in OpType /\ o.m = ops[p].m /\ o.new = ops[p].new /\ o.wVersion = ops[p].wVersion
      /\ o.mode = ops[p].mode /\ o.base = ops[p].base /\ o.tree = ops[p].tree
  BY <1>2 DEF OpType
<1>4. CASE Fail(p)
  BY <1>1, <1>4, FailLost
<1>5. CASE Apply(o) /\ UNCHANGED posted /\ ~ Posts(o) /\ Leave(p, TRUE)
  <2>1. ops' = [ops EXCEPT ![p] = NoOp]
    BY <1>5 DEF Leave
  <2>2. ~ o.wVersion
    BY <1>2, <1>3, <1>5 DEF Posts
  <2>3. WritingVersion(o)
    BY <2>2 DEF WritingVersion
  <2>4. ~ Witness(p)' /\ \A q \in Processes \ {p} : ops'[q] = ops[q]
    BY <2>1, <1>2 DEF Witness, At, NoOp
  <2> HIDE DEF o
  <2> QED BY <1>1, <1>2, <1>3, <1>5, <2>2, <2>3, <2>4, CommitLost
<1>6. CASE Apply(o) /\ UNCHANGED posted /\ ops' = [ops EXCEPT ![p] = post]
  <2>1. post.pc = "post" /\ post.m = o.m /\ post.new = o.new
    BY <1>2, <1>3 DEF OpType
  <2>2. WritingVersion(o)
    BY <1>2, <1>3 DEF OpInv, WritingVersion, Follows
  <2>3. ops'[p] = post /\ \A q \in Processes \ {p} : ops'[q] = ops[q]
    BY <1>2, <1>6
  <2> HIDE DEF o, post
  <2>4. ~ Witness(p)' /\ At(p, "post")' /\ ops'[p].m = o.m /\ ops'[p].new = o.new
    BY <2>1, <2>3 DEF Witness, At
  <2> QED BY <1>1, <1>2, <1>3, <1>6, <2>2, <2>3, <2>4, CommitLost
<1>7. CASE o.mode # "autocommit" /\ ops' = [ops EXCEPT ![p] = next] /\ UNCHANGED <<log, posted>>
  <2>1. next.wVersion = ops[p].wVersion
    BY <1>2, <1>3 DEF OpType
  <2>2. next.pc # "end" \/ ~ next.wVersion
    <3>1. CASE o.mode = "atomic"
      BY <3>1, <1>3 DEF OpType
    <3>2. CASE o.mode = "request" /\ o.new # 0
      BY <3>2, <1>3 DEF OpType, Posts
    <3>3. CASE o.new = 0
      BY <3>3, <2>1, <1>2, <1>3
    <3> QED BY <3>1, <3>2, <3>3, <1>7, <1>3 DEF OpType, Modes
  <2> HIDE DEF o, next
  <2> QED BY <1>1, <1>2, <1>7, <2>2, OneStepLost
<1>8. \/ Fail(p)
      \/ Apply(o) /\ UNCHANGED posted /\ ~ Posts(o) /\ Leave(p, TRUE)
      \/ Apply(o) /\ UNCHANGED posted /\ ops' = [ops EXCEPT ![p] = post]
      \/ o.mode # "autocommit" /\ ops' = [ops EXCEPT ![p] = next] /\ UNCHANGED <<log, posted>>
  BY DEF UpdateCurrent, history
<1> QED BY <1>4, <1>5, <1>6, <1>7, <1>8

LEMMA CommitStepLost ==
    ASSUME InventoryInv, EndPosted, NEW p \in Processes, Commit(p)
    PROVE  Lost' \subseteq Lost /\ EndPosted'
<1> DEFINE post == [Committed(ops[p]) EXCEPT !.pc = "post"]
<1>1. ~ Idle(p) /\ ~ At(p, "post") /\ At(p, "commit")
  BY DEF Commit, At, Idle
<1>2. /\ p \in Busy /\ ops[p] \in OpType /\ OpInv(ops[p]) /\ ops[p].m \in Machines
      /\ ops \in [Processes -> {NoOp} \union OpType] /\ (ops[p].wVersion => ops[p].new # 0)
  BY <1>1, OpFacts
<1>3. WritingVersion(ops[p])
  BY <1>2 DEF OpInv
<1>4. CASE Fail(p)
  BY <1>1, <1>4, FailLost
<1>5. CASE Apply(ops[p]) /\ UNCHANGED posted /\ ~ Posts(ops[p]) /\ Leave(p, TRUE)
  <2>1. ~ Witness(p)' /\ \A q \in Processes \ {p} : ops'[q] = ops[q]
    BY <1>5, <1>2 DEF Leave, Witness, At, NoOp
  <2>2. ~ ops[p].wVersion
    BY <1>2, <1>5 DEF Posts
  <2> QED BY <1>1, <1>2, <1>3, <1>5, <2>1, <2>2, CommitLost
<1>6. CASE Apply(ops[p]) /\ UNCHANGED posted /\ ops' = [ops EXCEPT ![p] = post]
  <2>1. post.pc = "post" /\ post.m = ops[p].m /\ post.new = ops[p].new
    BY <1>2 DEF OpType, Committed
  <2>2. ops'[p] = post /\ \A q \in Processes \ {p} : ops'[q] = ops[q]
    BY <1>2, <1>6
  <2> HIDE DEF post
  <2>3. /\ ~ Witness(p)' /\ At(p, "post")'
        /\ ops'[p].m = ops[p].m /\ ops'[p].new = ops[p].new
    BY <2>1, <2>2 DEF Witness, At
  <2> QED BY <1>1, <1>2, <1>3, <1>6, <2>2, <2>3, CommitLost
<1> QED BY <1>4, <1>5, <1>6 DEF Commit

LEMMA EndRequestLost ==
    ASSUME InventoryInv, EndPosted, NEW p \in Processes, EndRequest(p)
    PROVE  Lost' \subseteq Lost /\ EndPosted'
<1>1. ~ Idle(p) /\ ~ At(p, "post") /\ At(p, "end")
  BY DEF EndRequest, At, Idle
<1>2. /\ p \in Busy /\ ops[p] \in OpType /\ OpInv(ops[p])
      /\ ops \in [Processes -> {NoOp} \union OpType]
      /\ ops' = [ops EXCEPT ![p] = NoOp]
  BY <1>1, OpFacts DEF EndRequest
<1>3. CASE Dangling(ops[p])
  BY <1>1, <1>2, <1>3, DropLost DEF EndRequest, NothingWritten
<1>4. CASE ~ Dangling(ops[p])
  <2>1. Apply(ops[p]) /\ UNCHANGED posted
    BY <1>4 DEF EndRequest
  <2>2. WritingVersion(ops[p])
    BY <1>2 DEF OpInv
  <2>3. ops[p].wVersion => ops[p].new \in posted[ops[p].m]
    BY <1>1 DEF EndPosted, Witness, At, Busy, Idle
  <2>4. ~ Witness(p)' /\ \A q \in Processes \ {p} : ops'[q] = ops[q]
    BY <1>2 DEF Witness, At, NoOp
  <2> QED BY <1>1, <1>2, <2>1, <2>2, <2>3, <2>4, CommitLost
<1> QED BY <1>3, <1>4

\* A new operation has nothing to post.
LEMMA StartLost ==
    ASSUME InventoryInv, EndPosted, NEW p \in Processes, Idle(p), NEW m, NEW tree, NEW mode,
           ops' = [ops EXCEPT ![p] = Operation(m, tree, mode)], UNCHANGED <<log, posted>>
    PROVE  Lost' \subseteq Lost /\ EndPosted'
<1>1. ops \in [Processes -> {NoOp} \union OpType]
  BY DEF InventoryInv, TypeOK
<1>2. Operation(m, tree, mode).pc # "end"
  BY DEF Operation
<1>3. ~ At(p, "post")
  BY DEF Idle, At
<1> QED BY <1>1, <1>2, <1>3, OneStepLost

\* The cleanup keeps the stages of the operations.
LEMMA CleanupLost ==
    ASSUME InventoryInv, EndPosted, Cleanup
    PROVE  Lost' \subseteq Lost /\ EndPosted'
<1>1. \A p \in Processes : ops[p] \in {NoOp} \union OpType
  BY DEF InventoryInv, TypeOK
<1>2. PICK kept \in {Kept(recent) : recent \in RecentVersions} :
         ops' = [p \in Processes |->
                   IF Idle(p) THEN ops[p]
                   ELSE [ops[p] EXCEPT !.lost = @ \/ HeldGone(ops[p], kept),
                                       !.baseLost = @ \/ BaseGone(ops[p], kept)]]
  BY DEF Cleanup
<1>3. \A p \in Processes : SameStage(p)
  BY <1>1, <1>2 DEF SameStage, OpType, NoOp, Idle
<1> QED BY <1>3, NothingLost DEF Cleanup, history

LEMMA NextLost ==
    ASSUME InventoryInv, EndPosted, [Next]_vars
    PROVE  /\ EndPosted'
           /\ \/ Lost' \subseteq Lost /\ budget'.faults = budget.faults
              \/ \E x : Lost' \subseteq Lost \union {x} /\ budget'.faults = budget.faults + 1
<1>0. budget \in [changes: 0..MaxChanges, edits: 0..MaxUpsets, faults: 0..MaxUpsets]
  BY DEF InventoryInv, TypeOK
<1>1. ASSUME NEW p \in Processes, Step(p)
      PROVE  Lost' \subseteq Lost /\ EndPosted' /\ budget' = budget
  <2>1. Lost' \subseteq Lost /\ EndPosted'
    BY <1>1, EarlyLost, UpdateLost, CommitStepLost, PostLost, EndRequestLost DEF Step
  <2>2. budget' = budget
    BY <1>1 DEF Step, CommitObjects, SaveSnapshot, ReadLast, InsertVersion, UpdateCurrent, Commit,
                PostEvents, EndRequest
  <2> QED BY <2>1, <2>2
<1>2. ASSUME NEW p \in Processes, Crash(p)
      PROVE  /\ EndPosted' /\ Lost' \subseteq Lost \union {<<ops[p].m, ops[p].new>>}
             /\ budget'.faults = budget.faults + 1
  <2>1. budget'.faults = budget.faults + 1
    BY <1>0, <1>2 DEF Crash
  <2> QED BY <1>2, <2>1, DropLost DEF Crash, NothingWritten
<1>3. ASSUME NEW p \in Reporters, NEW m \in Machines, NEW mode \in Modes, Report(p, m, mode)
      PROVE  Lost' \subseteq Lost /\ EndPosted' /\ budget' = budget
  BY <1>3, StartLost DEF Report, Processes, history
<1>4. ASSUME NEW m \in Machines, SyncNext(m)
      PROVE  Lost' \subseteq Lost /\ EndPosted' /\ budget' = budget
  BY <1>4, StartLost DEF SyncNext, Processes, history
<1>5. CASE UNCHANGED <<ops, log, posted>> /\ budget'.faults = budget.faults
  BY <1>5, NothingLost DEF SameStage
<1>6. ASSUME \/ SyncStart \/ SyncEnd \/ UNCHANGED vars
             \/ \E m \in Machines : Change(m) \/ Unlist(m) \/ Archive(m)
      PROVE  UNCHANGED <<ops, log, posted>> /\ budget'.faults = budget.faults
  BY <1>0, <1>6 DEF SyncStart, SyncEnd, vars, Change, Unlist, Archive, history
<1>7. CASE Cleanup
  <2>1. budget'.faults = budget.faults
    BY <1>0, <1>7 DEF Cleanup
  <2> QED BY <1>7, <2>1, CleanupLost
<1> QED BY <1>1, <1>2, <1>3, <1>4, <1>5, <1>6, <1>7 DEF Next, SyncStep

\* A crash adds a version at most to the ones that are lost.
LEMMA LostCounted ==
    ASSUME InventoryInv, LostInv, [Next]_vars
    PROVE  LostInv'
<1>1. budget.faults \in Nat
  BY InventoryAssumption DEF InventoryInv, TypeOK
<1>2. /\ IsFiniteSet(Lost) /\ Cardinality(Lost) <= budget.faults /\ Cardinality(Lost) \in Nat
  BY FS_CardinalityType DEF LostInv
<1>3. EndPosted'
  BY NextLost DEF LostInv
<1>4. CASE Lost' \subseteq Lost /\ budget'.faults = budget.faults
  <2>1. /\ IsFiniteSet(Lost') /\ Cardinality(Lost') <= Cardinality(Lost)
        /\ Cardinality(Lost') \in Nat
    BY <1>2, <1>4, FS_Subset, FS_CardinalityType
  <2> QED BY <1>1, <1>2, <1>3, <1>4, <2>1 DEF LostInv
<1>5. ASSUME NEW x, Lost' \subseteq Lost \union {x}, budget'.faults = budget.faults + 1
      PROVE  LostInv'
  <2> DEFINE n == Cardinality(Lost \union {x})
  <2>1. IsFiniteSet(Lost \union {x}) /\ n <= Cardinality(Lost) + 1 /\ n \in Nat
    <3>1. /\ IsFiniteSet(Lost \union {x})
          /\ n = IF x \in Lost THEN Cardinality(Lost) ELSE Cardinality(Lost) + 1
      BY <1>2, FS_AddElement
    <3> HIDE DEF n
    <3> QED BY <3>1, <1>2
  <2>2. /\ IsFiniteSet(Lost') /\ Cardinality(Lost') <= n /\ Cardinality(Lost') \in Nat
    BY <1>5, <2>1, FS_Subset, FS_CardinalityType
  <2> HIDE DEF n
  <2> QED BY <1>1, <1>2, <1>3, <1>5, <2>1, <2>2 DEF LostInv
<1> QED BY <1>4, <1>5, NextLost DEF LostInv

\* The versions the property counts.
LEMMA LostSilent ==
    ASSUME TypeOK
    PROVE  Lost = UNION {{<<m, v>> : v \in {w \in Silent(m) : ~ InTheMaking(m, w)}} : m \in Machines}
<1>1. \A m \in Machines : log[m] \in Seq(Trees)
  BY DEF TypeOK, RowsOK
<1>2. \A m \in Machines : DOMAIN log[m] \subseteq Nat
  BY <1>1
<1> QED BY <1>2 DEF Lost, Silent

(* The events of a version of a machine are posted by the process that     *)
(* commits it, after the transaction or within the one of its request:     *)
(* only a crash between the two leaves a version without events, and one   *)
(* crash leaves one at most, whichever processes commit the same machines. *)
THEOREM VersionsHaveEvents == Spec => []VersionsPosted
<1>1. Init => LostInv
  <2> SUFFICES ASSUME Init PROVE LostInv
    OBVIOUS
  <2>1. Lost = {}
    BY DEF Init, Lost
  <2>2. EndPosted
    BY DEF Init, EndPosted, At, Busy, Idle, NoOp
  <2>3. budget.faults = 0
    BY DEF Init
  <2> QED BY <2>1, <2>2, <2>3, FS_EmptySet DEF LostInv
<1>2. InventoryInv /\ LostInv /\ [Next]_vars => LostInv'
  BY LostCounted
<1>3. InventoryInv /\ LostInv => VersionsPosted
  BY LostSilent DEF InventoryInv, LostInv, VersionsPosted
<1> QED BY <1>1, <1>2, <1>3, InventoryInvariant, PTL DEF Spec
=============================================================================
