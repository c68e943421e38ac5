-------------------------- MODULE ProbeViewsProofs --------------------------
(***************************************************************************)
(* Proofs about ProbeViews, for any number of threads, lists, changes and  *)
(* database errors.                                                        *)
(***************************************************************************)
EXTENDS ProbeViews, FiniteSetTheorems, TLAPS

WorkersInv == \A w \in Workers : WorkerInv(w)

\* The views, and what names them.
LEMMA ViewNames ==
    /\ Dict \in Views /\ Root \in Views /\ Children \subseteq Views
    /\ Views = Children \cup {Dict, Root}
    /\ Dict # Root /\ Dict \notin Children /\ Root \notin Children
    /\ None \notin Views /\ None \notin Workers /\ None # Sync
    /\ Sync \notin Workers /\ None \notin Nat
BY NameAssumption DEF Views

\* A worker that is not idle has a view, which is not the parent.
LEMMA ViewOfWorker ==
    ASSUME TypeOK, WorkersInv, NEW w \in Workers, pc[w] # "idle"
    PROVE  view[w] \in Views \ {Root}
BY DEF TypeOK, WorkersInv, WorkerInv

\* The initial state.
LEMMA InitViews == Init => ViewsInv
<1> SUFFICES ASSUME Init PROVE ViewsInv
    OBVIOUS
<1> USE ViewNames, BoundsAssumption
<1>1. IsFiniteSet(members)
    BY FS_Singleton DEF Init
<1>2. TypeOK
    <2>1. /\ db \in 0 .. MaxChanges /\ signals \in 0 .. db
          /\ size \in Nat /\ faults \in 0 .. MaxFaults
        BY DEF Init
    <2>2. /\ probes \in [Views -> Nat \cup {None}]
          /\ lock \in [Views -> Workers \cup {Sync, None}]
          /\ pc \in [Workers -> {"idle", "lock", "load", "read", "use"}]
          /\ view \in [Workers -> Views \cup {None}]
        BY DEF Init
    <2>3. /\ error_state \in BOOLEAN /\ notified \in BOOLEAN /\ missed \in BOOLEAN
          /\ to_clear \subseteq Views /\ clearing \in Views \cup {None}
          /\ members \subseteq Views /\ removals \subseteq members
          /\ sync = "none"
        BY DEF Init
    <2> QED
        BY <2>1, <2>2, <2>3 DEF TypeOK
<1>3. \A w \in Workers : WorkerInv(w)
    <2> SUFFICES ASSUME NEW w \in Workers PROVE WorkerInv(w)
        OBVIOUS
    <2>1. pc[w] = "idle" /\ view[w] = None
        BY DEF Init
    <2> QED
        BY <2>1 DEF WorkerInv
<1>4. LoadedInv /\ IterationInv /\ ClearInv
    BY <1>1 DEF Init, LoadedInv, IterationInv, ClearInv, Iterating
<1>5. ProbesInUse /\ OutdatedViewsCleared /\ SameAsParent
    BY DEF Init, ProbesInUse, OutdatedViewsCleared, SameAsParent
<1> QED
    BY <1>2, <1>3, <1>4, <1>5 DEF ViewsInv

-----------------------------------------------------------------------------
(* The changes of the probes.                                              *)

\* A step that neither looks up nor clears preserves what the locks protect.
LEMMA ViewsUnchanged ==
    ASSUME ViewsInv, UNCHANGED <<probes, lock, workers, set>>
    PROVE  /\ \A w \in Workers : WorkerInv(w)'
           /\ LoadedInv' /\ ProbesInUse'
           /\ (missed => missed') => SameAsParent'
BY DEF ViewsInv, workers, set, WorkerInv, LoadedInv, ProbesInUse, SameAsParent

LEMMA ChangeProbesStep == ASSUME ViewsInv, ChangeProbes PROVE ViewsInv'
<1> USE DEF ViewsInv, ChangeProbes, workers, thread, iteration, set
<1>1. TypeOK'
    BY BoundsAssumption DEF TypeOK
<1>2. IterationInv' /\ ClearInv'
    BY DEF IterationInv, ClearInv, Iterating
<1>3. OutdatedViewsCleared'
    BY DEF OutdatedViewsCleared, ClearExpected, TypeOK
<1> QED
    BY <1>1, <1>2, <1>3, ViewsUnchanged

LEMMA SignalProbeChangeStep == ASSUME ViewsInv, SignalProbeChange PROVE ViewsInv'
<1> USE DEF ViewsInv, SignalProbeChange, workers, iteration, set
<1>1. TypeOK'
    BY BoundsAssumption DEF TypeOK, Subscribed
<1>2. IterationInv' /\ ClearInv'
    BY DEF TypeOK, IterationInv, ClearInv, Iterating, Subscribed
<1>3. OutdatedViewsCleared'
    BY DEF OutdatedViewsCleared, ClearExpected, TypeOK, Subscribed
<1> QED
    BY <1>1, <1>2, <1>3, ViewsUnchanged

LEMMA CouldNotSignalStep == ASSUME ViewsInv, CouldNotSignal PROVE ViewsInv'
<1> USE DEF ViewsInv, CouldNotSignal, workers, thread, iteration, set
<1>1. TypeOK'
    BY BoundsAssumption DEF TypeOK
<1>2. IterationInv' /\ ClearInv'
    BY DEF IterationInv, ClearInv, Iterating
<1>3. OutdatedViewsCleared'
    BY DEF OutdatedViewsCleared
<1> QED
    BY <1>1, <1>2, <1>3, ViewsUnchanged

-----------------------------------------------------------------------------
(* The lookups.                                                            *)

\* A step of a worker that leaves the thread and the probes alone.
LEMMA ThreadUnchanged ==
    ASSUME ViewsInv, UNCHANGED <<database, probes, thread, iteration, missed>>
    PROVE  OutdatedViewsCleared' /\ SameAsParent'
BY DEF ViewsInv, database, thread, iteration, OutdatedViewsCleared, ClearExpected,
       SameAsParent

LEMMA StartLookupStep == ASSUME ViewsInv, NEW w \in Workers, StartLookup(w) PROVE ViewsInv'
<1> USE ViewNames DEF ViewsInv, StartLookup, Goto, database, thread, iteration, set
<1>1. TypeOK'
    BY DEF TypeOK
<1>2. \A u \in Workers : WorkerInv(u)'
    BY DEF TypeOK, WorkerInv
<1>3. LoadedInv' /\ IterationInv' /\ ClearInv'
    BY DEF TypeOK, WorkerInv, LoadedInv, IterationInv, ClearInv, Iterating
<1>4. ProbesInUse'
    BY DEF TypeOK, ProbesInUse
<1> QED
    BY <1>1, <1>2, <1>3, <1>4, ThreadUnchanged

LEMMA StartFilterStep == ASSUME ViewsInv, NEW w \in Workers, StartFilter(w) PROVE ViewsInv'
<1> USE ViewNames DEF ViewsInv, StartFilter, Goto, database, thread, iteration
<1>1. PICK v \in Children \ members :
        members' = (members \ removals) \cup {v} /\ view' = [view EXCEPT ![w] = v]
    OBVIOUS
<1>2. TypeOK'
    BY <1>1 DEF TypeOK
<1>3. \A u \in Workers : view[u] # v
    BY <1>1 DEF WorkerInv
<1>4. \A u \in Workers : WorkerInv(u)'
    BY <1>1, <1>3 DEF TypeOK, WorkerInv
<1>5. IsFiniteSet(members')
    BY <1>1, FS_Subset, FS_AddElement DEF LoadedInv
<1>6. LoadedInv' /\ IterationInv' /\ ClearInv'
    BY <1>1, <1>5 DEF TypeOK, WorkerInv, LoadedInv, IterationInv, ClearInv, Iterating
<1>7. ProbesInUse'
    BY <1>1 DEF TypeOK, ProbesInUse
<1> QED
    BY <1>2, <1>4, <1>6, <1>7, ThreadUnchanged

LEMMA LockViewStep == ASSUME ViewsInv, NEW w \in Workers, LockView(w) PROVE ViewsInv'
<1> USE ViewNames DEF ViewsInv, LockView, Goto, database, thread, iteration, set
<1>1. view[w] \in Views \ {Root}
    BY ViewOfWorker DEF WorkersInv
<1>2. TypeOK'
    BY <1>1 DEF TypeOK
<1>3. \A u \in Workers : WorkerInv(u)'
    BY <1>1 DEF TypeOK, WorkerInv
<1>4. LoadedInv' /\ IterationInv' /\ ClearInv'
    BY <1>1 DEF TypeOK, LoadedInv, IterationInv, ClearInv, Iterating
<1>5. ProbesInUse'
    BY <1>1 DEF TypeOK, ProbesInUse
<1> QED
    BY <1>2, <1>3, <1>4, <1>5, ThreadUnchanged

LEMMA LockParentStep == ASSUME ViewsInv, NEW w \in Workers, LockParent(w) PROVE ViewsInv'
<1> USE ViewNames DEF ViewsInv, LockParent, Goto, database, thread, iteration, set
<1>1. view[w] \in Views \ {Root}
    BY ViewOfWorker DEF WorkersInv
<1>2. TypeOK'
    BY <1>1 DEF TypeOK
<1>3. \A u \in Workers : WorkerInv(u)'
    BY <1>1 DEF TypeOK, WorkerInv
<1>4. ~Iterating /\ ~Iterating'
    BY DEF TypeOK, ClearInv, Iterating
<1>5. LoadedInv' /\ IterationInv' /\ ClearInv'
    BY <1>1, <1>4 DEF TypeOK, LoadedInv, IterationInv, ClearInv, Iterating
<1>6. ProbesInUse' /\ SameAsParent'
    BY <1>1 DEF TypeOK, ProbesInUse, SameAsParent
<1>7. OutdatedViewsCleared'
    BY DEF ClearInv, OutdatedViewsCleared, ClearExpected
<1> QED
    BY <1>2, <1>3, <1>5, <1>6, <1>7

LEMMA LoadViewStep == ASSUME ViewsInv, NEW w \in Workers, LoadView(w) PROVE ViewsInv'
<1> USE ViewNames DEF ViewsInv, LoadView, Goto, database, thread, iteration, set
<1> DEFINE version == IF probes[Root] = None THEN db ELSE probes[Root]
<1>1. view[w] \in Views \ {Root}
    BY ViewOfWorker DEF WorkersInv
<1>2. version \in Nat /\ version # None
    BY DEF TypeOK
<1>3. probes' = [v \in Views |-> IF v \in {Root, view[w]} THEN version ELSE probes[v]]
    BY <1>1 DEF TypeOK
<1>4. lock[Root] = w /\ ~Iterating
    BY DEF TypeOK, WorkerInv, ClearInv, Iterating
<1> HIDE DEF version
<1>5. TypeOK'
    BY <1>1, <1>2, <1>3 DEF TypeOK
<1>6. \A u \in Workers : WorkerInv(u)'
    BY <1>1, <1>4 DEF TypeOK, WorkerInv
<1>7. LoadedInv' /\ IterationInv' /\ ClearInv'
    BY <1>1, <1>2, <1>3, <1>4 DEF TypeOK, LoadedInv, IterationInv, ClearInv, Iterating
<1>8. ProbesInUse'
    BY <1>1, <1>2, <1>3 DEF TypeOK, WorkerInv, ProbesInUse
<1>9. OutdatedViewsCleared'
    BY <1>1, <1>3 DEF version, OutdatedViewsCleared, ClearExpected
<1>10. SameAsParent'
    BY <1>1, <1>3, <1>4 DEF version, SameAsParent, ClearInv
<1> QED
    BY <1>5, <1>6, <1>7, <1>8, <1>9, <1>10

\* A dead child was nobody's, and is not the one that is cleared.
LEMMA EndLookupStep == ASSUME ViewsInv, NEW w \in Workers, EndLookup(w) PROVE ViewsInv'
<1> USE ViewNames DEF ViewsInv, EndLookup, Goto, database, thread, iteration
<1>1. view[w] \in Views \ {Root} /\ lock[view[w]] = w
    BY ViewOfWorker DEF WorkersInv, WorkerInv
<1>2. view[w] # Dict => \A u \in Workers \ {w} : view[u] # view[w]
    BY <1>1 DEF WorkerInv
<1>3. probes' = [v \in Views |-> IF v = view[w] /\ v # Dict THEN None ELSE probes[v]]
    BY <1>1 DEF TypeOK
<1>4. /\ members' \subseteq members /\ removals' \subseteq members'
      /\ (members \ removals) \ {view[w]} \subseteq members' \ removals'
      /\ view[w] \in {Dict, clearing} => UNCHANGED set
    BY <1>1 DEF TypeOK, WorkerInv, Dies, set
<1>5. TypeOK'
    <2>1. members' \subseteq Views /\ removals' \subseteq members'
        BY <1>4 DEF TypeOK
    <2>2. probes' \in [Views -> Nat \cup {None}]
        BY <1>3 DEF TypeOK
    <2>3. /\ lock' \in [Views -> Workers \cup {Sync, None}]
          /\ pc' \in [Workers -> {"idle", "lock", "load", "read", "use"}]
          /\ view' \in [Workers -> Views \cup {None}]
        BY <1>1 DEF TypeOK
    <2> QED
        BY <2>1, <2>2, <2>3 DEF TypeOK
<1>6. ASSUME NEW u \in Workers
      PROVE  WorkerInv(u)'
    <2>1. CASE u = w
        <3>1. pc'[u] = "idle" /\ view'[u] = None
            BY <2>1 DEF TypeOK
        <3> QED
            BY <3>1 DEF WorkerInv
    <2>2. CASE u # w
        <3>1. /\ pc'[u] = pc[u] /\ view'[u] = view[u] /\ WorkerInv(u)
              /\ \A t \in Workers : view'[t] \in {view[t], None}
            BY <2>2 DEF TypeOK
        <3>2. \A v \in Views : lock[v] = u => lock'[v] = u
            BY <1>1, <2>2 DEF TypeOK
        <3>3. view[u] \in Children => view[u] # view[w]
            BY <1>2, <2>2
        <3> QED
            BY <1>4, <3>1, <3>2, <3>3 DEF TypeOK, WorkerInv
    <2> QED
        BY <2>1, <2>2
<1>7. IsFiniteSet(members')
    BY <1>4, FS_Subset DEF LoadedInv
<1>8. LoadedInv' /\ IterationInv'
    BY <1>1, <1>2, <1>3, <1>4, <1>7 DEF TypeOK, LoadedInv, IterationInv, Iterating, set
<1>9. ClearInv'
    BY <1>1, <1>3 DEF TypeOK, ClearInv, Iterating
<1>10. ProbesInUse'
    BY <1>1, <1>2, <1>3 DEF TypeOK, ProbesInUse
<1>11. OutdatedViewsCleared' /\ SameAsParent'
    BY <1>1, <1>3 DEF OutdatedViewsCleared, ClearExpected, SameAsParent
<1> QED
    BY <1>5, <1>6, <1>8, <1>9, <1>10, <1>11

-----------------------------------------------------------------------------
(* The sync thread.                                                        *)

LEMMA ListenStep == ASSUME ViewsInv, Listen PROVE ViewsInv'
<1> USE DEF ViewsInv, Listen, database, workers, iteration, set
<1>1. TypeOK'
    BY DEF TypeOK
<1>2. IterationInv' /\ ClearInv'
    BY DEF IterationInv, ClearInv, Iterating
<1>3. OutdatedViewsCleared'
    BY DEF OutdatedViewsCleared, ClearExpected
<1> QED
    BY <1>1, <1>2, <1>3, ViewsUnchanged

LEMMA ConnectionErrorStep == ASSUME ViewsInv, ConnectionError PROVE ViewsInv'
<1> USE DEF ViewsInv, ConnectionError, database, workers, iteration, set
<1>1. TypeOK'
    <2>1. faults' \in 0 .. MaxFaults
        BY BoundsAssumption DEF TypeOK
    <2>2. error_state' \in BOOLEAN /\ notified' \in BOOLEAN
        OBVIOUS
    <2> QED
        BY <2>1, <2>2 DEF TypeOK
<1>2. ~Iterating /\ ~Iterating' /\ sync' = "listen"
    BY DEF Iterating
<1>3. IterationInv' /\ ClearInv'
    BY <1>2 DEF IterationInv, ClearInv
<1>4. OutdatedViewsCleared'
    BY DEF OutdatedViewsCleared, ClearExpected
<1> QED
    BY <1>1, <1>3, <1>4, ViewsUnchanged

LEMMA ReceiveNotificationStep == ASSUME ViewsInv, ReceiveNotification PROVE ViewsInv'
<1> USE DEF ViewsInv, ReceiveNotification, database, workers, iteration, set
<1>1. TypeOK'
    BY DEF TypeOK
<1>2. IterationInv' /\ ClearInv'
    BY DEF IterationInv, ClearInv, Iterating
<1>3. OutdatedViewsCleared'
    BY DEF OutdatedViewsCleared, ClearExpected
<1> QED
    BY <1>1, <1>2, <1>3, ViewsUnchanged

\* From now on, what is loaded is to be cleared.
LEMMA ClearRootStep == ASSUME ViewsInv, ClearRoot PROVE ViewsInv'
<1> USE ViewNames DEF ViewsInv, ClearRoot, database, workers, set
<1>1. ~Iterating /\ clearing = None
    BY DEF IterationInv, Iterating
<1>2. size' \in Nat
    BY FS_CardinalityType DEF LoadedInv
<1>3. TypeOK'
    BY <1>2 DEF TypeOK
<1>4. \A w \in Workers : WorkerInv(w)'
    BY DEF TypeOK, WorkerInv
<1>5. \A v \in Views \ {Root} : probes[v] # None => v \in members
    BY DEF WorkerInv, LoadedInv
<1>6. LoadedInv' /\ IterationInv'
    BY <1>1 DEF TypeOK, LoadedInv, IterationInv
<1>7. ClearInv'
    BY <1>1, <1>5 DEF TypeOK, ClearInv, Iterating
<1>8. ProbesInUse'
    BY DEF TypeOK, WorkerInv, ProbesInUse
<1>9. OutdatedViewsCleared' /\ SameAsParent'
    BY DEF TypeOK, OutdatedViewsCleared, ClearExpected, SameAsParent
<1> QED
    BY <1>3, <1>4, <1>6, <1>7, <1>8, <1>9

\* A child that is skipped is dead, and has no probes.
LEMMA NextChildStep == ASSUME ViewsInv, NextChild PROVE ViewsInv'
<1> USE ViewNames DEF ViewsInv, NextChild, database, workers
<1>1. PICK v \in to_clear :
        /\ to_clear' = to_clear \ {v}
        /\ IF v \notin members \ removals
           THEN UNCHANGED <<sync, clearing, removals>>
           ELSE sync' = "clear_child" /\ clearing' = v /\ removals' = Dead
    OBVIOUS
<1>2. /\ removals' \subseteq members
      /\ \A w \in Workers : view[w] \notin removals' \ removals
      /\ Dict \notin removals' \ removals
      /\ clearing' # None => clearing' \in members \ (removals' \cup to_clear')
    BY <1>1 DEF TypeOK, IterationInv, Dead
<1>3. TypeOK'
    BY <1>1, <1>2 DEF TypeOK
<1>4. \A w \in Workers : WorkerInv(w)'
    BY <1>2 DEF WorkerInv
<1>5. LoadedInv' /\ IterationInv'
    BY <1>1, <1>2 DEF TypeOK, LoadedInv, IterationInv, Iterating
<1>6. \A u \in Views \ {Root} : probes[u] # None => u \in members \ removals
    BY DEF WorkerInv, LoadedInv
<1>7. ClearInv'
    BY <1>1, <1>6 DEF TypeOK, ClearInv, Iterating
<1>8. ProbesInUse' /\ OutdatedViewsCleared' /\ SameAsParent'
    BY <1>1 DEF ProbesInUse, OutdatedViewsCleared, ClearExpected, SameAsParent
<1> QED
    BY <1>3, <1>4, <1>5, <1>7, <1>8

\* The lock of the child is free: nobody uses its probes.
LEMMA ClearChildStep == ASSUME ViewsInv, ClearChild PROVE ViewsInv'
<1> USE ViewNames DEF ViewsInv, ClearChild, database, workers, iteration, set
<1>1. probes' = [v \in Views |-> IF v = clearing THEN None ELSE probes[v]]
    BY DEF TypeOK
<1>2. TypeOK'
    BY <1>1 DEF TypeOK
<1>3. \A w \in Workers : WorkerInv(w)'
    BY DEF WorkerInv
<1>4. LoadedInv' /\ IterationInv'
    BY <1>1 DEF LoadedInv, IterationInv, Iterating
<1>5. ClearInv'
    BY <1>1 DEF ClearInv, Iterating
<1>6. ProbesInUse'
    BY <1>1 DEF TypeOK, WorkerInv, ProbesInUse
<1>7. OutdatedViewsCleared' /\ SameAsParent'
    BY <1>1 DEF OutdatedViewsCleared, ClearExpected, SameAsParent
<1> QED
    BY <1>2, <1>3, <1>4, <1>5, <1>6, <1>7

\* At its end, the iteration leaves the lock, and the set without the dead.
LEMMA IterationEnds ==
    ASSUME ViewsInv, Iterating, EndIteration,
           UNCHANGED <<database, probes, workers, faults>>
    PROVE  /\ lock' \in [Views -> Workers \cup {Sync, None}]
           /\ members' \subseteq Views /\ removals' \subseteq members'
           /\ to_clear' = {} /\ clearing' = None /\ size' \in Nat
           /\ \A w \in Workers : WorkerInv(w)'
           /\ LoadedInv' /\ ProbesInUse'
<1> USE ViewNames DEF ViewsInv, EndIteration, workers
<1>1. /\ members' \subseteq members /\ removals' = {}
      /\ \A w \in Workers : view[w] \in members \ removals => view[w] \in members'
      /\ Dict \in members'
    BY DEF LoadedInv, Dead
<1>2. IsFiniteSet(members')
    BY <1>1, FS_Subset DEF LoadedInv
<1>3. \A w \in Workers : pc[w] # "read"
    BY DEF WorkerInv, ClearInv
<1>4. \A w \in Workers : WorkerInv(w)'
    BY <1>1, <1>3 DEF TypeOK, WorkerInv
<1>5. LoadedInv' /\ ProbesInUse'
    BY <1>1, <1>2 DEF LoadedInv, ProbesInUse
<1> QED
    BY <1>1, <1>4, <1>5 DEF TypeOK

LEMMA ViewsClearedStep == ASSUME ViewsInv, ViewsCleared PROVE ViewsInv'
<1> USE ViewNames DEF ViewsInv, ViewsCleared
<1>1. Iterating
    BY DEF Iterating
<1>2. \A v \in Views : probes'[v] = None
    BY <1>1 DEF ClearInv
<1>3. TypeOK'
    BY <1>1, IterationEnds DEF TypeOK, database, workers
<1>4. IterationInv' /\ ClearInv'
    BY <1>1, <1>2, IterationEnds DEF IterationInv, ClearInv, Iterating
<1>5. OutdatedViewsCleared' /\ SameAsParent'
    BY <1>2 DEF OutdatedViewsCleared, SameAsParent
<1> QED
    BY <1>1, <1>3, <1>4, <1>5, IterationEnds

LEMMA ThreadDiesStep == ASSUME ViewsInv, ThreadDies PROVE ViewsInv'
<1> USE ViewNames DEF ViewsInv, ThreadDies
<1>1. Iterating
    BY DEF Iterating
<1>2. TypeOK'
    BY <1>1, IterationEnds DEF TypeOK, database, workers
<1>3. IterationInv' /\ ClearInv'
    BY <1>1, IterationEnds DEF IterationInv, ClearInv, Iterating
<1>4. OutdatedViewsCleared' /\ SameAsParent'
    BY DEF OutdatedViewsCleared, SameAsParent
<1> QED
    BY <1>1, <1>2, <1>3, <1>4, IterationEnds

LEMMA StutterStep == ASSUME ViewsInv, UNCHANGED vars PROVE ViewsInv'
<1> USE DEF ViewsInv, vars, database, workers, thread, iteration, set
<1>1. TypeOK'
    BY DEF TypeOK
<1>2. IterationInv' /\ ClearInv' /\ OutdatedViewsCleared'
    BY DEF IterationInv, ClearInv, Iterating, OutdatedViewsCleared, ClearExpected
<1> QED
    BY <1>1, <1>2, ViewsUnchanged

-----------------------------------------------------------------------------
(* The theorems.                                                           *)

\* The inductive invariant: a worker has the locks it needs, what is loaded is
\* a member that lives, and while the sync thread iterates on the children,
\* under the lock of the parent, what is loaded has not had its turn.
THEOREM ViewsInvariant == Spec => []ViewsInv
<1>1. ASSUME ViewsInv, [Next]_vars
      PROVE  ViewsInv'
    <2>1. ASSUME NEW w \in Workers, StartLookup(w) \/ StartFilter(w) \/ Lookup(w)
          PROVE  ViewsInv'
        BY <1>1, <2>1, StartLookupStep, StartFilterStep, LockViewStep,
           LockParentStep, LoadViewStep, EndLookupStep DEF Lookup
    <2>2. CASE SyncThread
        BY <1>1, <2>2, ListenStep, ReceiveNotificationStep, ClearRootStep,
           NextChildStep, ClearChildStep, ViewsClearedStep, ThreadDiesStep
           DEF SyncThread
    <2>3. CASE ChangeProbes \/ SignalProbeChange \/ CouldNotSignal \/ ConnectionError
        BY <1>1, <2>3, ChangeProbesStep, SignalProbeChangeStep,
           CouldNotSignalStep, ConnectionErrorStep
    <2>4. CASE UNCHANGED vars
        BY <1>1, <2>4, StutterStep
    <2> QED
        BY <1>1, <2>1, <2>2, <2>3, <2>4 DEF Next
<1> QED
    BY InitViews, <1>1, PTL DEF Spec

\* The views, their locks and the set of the children keep their types; the
\* size of the set is known, since there are finitely many.
THEOREM ViewsTypeCorrect == Spec => []TypeOK
<1>1. ViewsInv => TypeOK
    BY DEF ViewsInv
<1> QED
    BY <1>1, ViewsInvariant, PTL

\* ProbeView.__iter__, ProbesDict.__getitem__: probes in use are not cleared.
THEOREM ProbesStayInUse == Spec => []ProbesInUse
<1>1. ViewsInv => ProbesInUse
    BY DEF ViewsInv
<1> QED
    BY <1>1, ViewsInvariant, PTL

\* ProbeViewSync.run: no view stays out of date, unless a change was missed.
THEOREM OutdatedCleared == Spec => []OutdatedViewsCleared
<1>1. ViewsInv => OutdatedViewsCleared
    BY DEF ViewsInv
<1> QED
    BY <1>1, ViewsInvariant, PTL

\* ProbeList.clear, ProbeList._load: a child and its parent agree.
THEOREM ParentAgrees == Spec => []SameAsParent
<1>1. ViewsInv => SameAsParent
    BY DEF ViewsInv
<1> QED
    BY <1>1, ViewsInvariant, PTL
=============================================================================
