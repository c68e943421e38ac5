---------------------------- MODULE ProbeViews ----------------------------
(***************************************************************************)
(* The views the threads of a worker have of the active probes: the list   *)
(* all_probes, loaded from the database, and its children, loaded from it: *)
(* the dict all_probes_dict, and the list an event is filtered with, which *)
(* lives as long as the event is enriched.  Each view has a lock.  A sync  *)
(* thread listens to the changes of the probes, and clears the views.      *)
(*                                                                         *)
(* A view is its version: the number of changes it reflects.               *)
(***************************************************************************)
EXTENDS Naturals, FiniteSets

CONSTANTS
    Workers,        \* the threads that look probes up
    Lookups,        \* what they do: "dict" and "filter"
    Dict,           \* all_probes_dict
    Children,       \* the lists of the events
    Root,           \* all_probes
    Sync,           \* the sync thread, whichever is the last one
    None,           \* nothing loaded, nobody, no view
    MaxChanges,     \* bound on the changes of the probes
    MaxFaults       \* bound on the database errors

ASSUME LookupAssumption == Lookups \subseteq {"dict", "filter"}
ASSUME NameAssumption ==
    /\ Dict \notin Children
    /\ Root \notin Children \cup {Dict}
    /\ None \notin Children \cup {Dict, Root, Sync} \cup Workers
    /\ Sync \notin Workers
    /\ None \notin Nat
ASSUME BoundsAssumption == MaxChanges \in Nat /\ MaxFaults \in Nat

Views == Children \cup {Dict, Root}

VARIABLES
    db,             \* the version of the probes in the database
    signals,        \* the committed changes that are not signaled yet
    probes,         \* ProbeView._probes, by view
    lock,           \* ProbeView._lock, by view: who holds it
    pc, view,       \* what a worker does, with which view
    sync,           \* what the sync thread does
    error_state,    \* ProbeViewSync.error_state
    notified,       \* the connection of the sync thread has notifications
    to_clear,       \* the children the thread has not cleared yet
    clearing,       \* the one it clears
    members,        \* the members of the WeakSet all_probes._children
    removals,       \* those that are dead, and removed when it changes
    size,           \* the size of the set when the iteration started
    faults,         \* a counter, for the bound
    missed          \* history: a change nobody will tell this process about

database == <<db, signals>>
workers == <<pc, view>>
thread == <<sync, error_state, notified>>
iteration == <<to_clear, clearing, size>>
set == <<members, removals>>
vars == <<database, probes, lock, workers, thread, iteration, set, faults, missed>>

Subscribed == sync \in {"wait", "clear", "next_child", "clear_child"}
Iterating == sync \in {"next_child", "clear_child"}

TypeOK ==
    /\ db \in 0 .. MaxChanges
    /\ signals \in 0 .. db
    /\ probes \in [Views -> Nat \cup {None}]
    /\ lock \in [Views -> Workers \cup {Sync, None}]
    /\ pc \in [Workers -> {"idle", "lock", "load", "read", "use"}]
    /\ view \in [Workers -> Views \cup {None}]
    /\ sync \in {"none", "listen", "wait", "clear", "next_child",
                "clear_child", "dead"}
    /\ error_state \in BOOLEAN /\ notified \in BOOLEAN /\ missed \in BOOLEAN
    /\ to_clear \subseteq Views /\ clearing \in Views \cup {None}
    /\ members \subseteq Views /\ removals \subseteq members
    /\ size \in Nat
    /\ faults \in 0 .. MaxFaults

Init ==
    /\ db = 0 /\ signals = 0
    /\ probes = [v \in Views |-> None]
    /\ lock = [v \in Views |-> None]
    /\ pc = [w \in Workers |-> "idle"]
    /\ view = [w \in Workers |-> None]
    /\ sync = "none" /\ error_state = FALSE /\ notified = FALSE
    /\ to_clear = {} /\ clearing = None /\ size = 0
    /\ members = {Dict} /\ removals = {}
    /\ faults = 0
    /\ missed = FALSE

-----------------------------------------------------------------------------
(* The probes are changed, by other processes.                             *)

\* ProbeSource.save or ProbeSource.delete, and the commit.
ChangeProbes ==
    /\ db < MaxChanges
    /\ db' = db + 1
    /\ signals' = signals + 1
    /\ UNCHANGED <<probes, lock, workers, thread, iteration, set, faults, missed>>

\* transaction.on_commit(signal_probe_change): the connections that listen get
\* a notification. A thread that recovers from an error will clear the views.
SignalProbeChange ==
    /\ signals > 0
    /\ signals' = signals - 1
    /\ notified' = (notified \/ Subscribed)
    /\ missed' = (missed \/ (~Subscribed /\ ~error_state))
    /\ UNCHANGED <<db, probes, lock, workers, sync, error_state, iteration, set, faults>>

\* It only logs its errors.
CouldNotSignal ==
    /\ signals > 0
    /\ faults < MaxFaults
    /\ faults' = faults + 1
    /\ signals' = signals - 1
    /\ missed' = TRUE
    /\ UNCHANGED <<db, probes, lock, workers, thread, iteration, set>>

-----------------------------------------------------------------------------
(* The lookups of the workers.                                             *)

Goto(w, next) == pc' = [pc EXCEPT ![w] = next]

\* all_probes_dict[pk]
StartLookup(w) ==
    /\ pc[w] = "idle"
    /\ "dict" \in Lookups
    /\ view' = [view EXCEPT ![w] = Dict]
    /\ Goto(w, "lock")
    /\ UNCHANGED <<database, probes, lock, thread, iteration, set, faults, missed>>

\* Variant: the dead children are removed from the set, but not forgotten.
StartFilterKeep(w) ==
    /\ pc[w] = "idle"
    /\ "filter" \in Lookups
    /\ \E v \in Children \ members :
         /\ members' = (members \ removals) \cup {v}
         /\ view' = [view EXCEPT ![w] = v]
    /\ Goto(w, "lock")
    /\ UNCHANGED <<database, probes, lock, thread, iteration, removals, faults, missed>>

\* all_probes.event_filtered(event): a new child, added without the lock.
\* The dead ones are removed from the set first.
StartFilter(w) ==
    /\ pc[w] = "idle"
    /\ "filter" \in Lookups
    /\ \E v \in Children \ members :
         /\ members' = (members \ removals) \cup {v}
         /\ view' = [view EXCEPT ![w] = v]
    /\ removals' = {}
    /\ Goto(w, "lock")
    /\ UNCHANGED <<database, probes, lock, thread, iteration, faults, missed>>

\* The lock of the view is held until the worker is done with the probes.
LockView(w) ==
    /\ pc[w] = "lock"
    /\ lock[view[w]] = None
    /\ lock' = [lock EXCEPT ![view[w]] = w]
    /\ Goto(w, IF probes[view[w]] = None THEN "load" ELSE "use")
    /\ UNCHANGED <<database, probes, view, thread, iteration, set, faults, missed>>

\* iter(self.parent): the parent is locked, and makes sure that there is a
\* sync thread. A new one does not know what the other one has missed.
LockParent(w) ==
    /\ pc[w] = "load"
    /\ lock[Root] = None
    /\ lock' = [lock EXCEPT ![Root] = w]
    /\ IF sync \in {"none", "dead"}
       THEN sync' = "listen" /\ error_state' = FALSE /\ notified' = FALSE
       ELSE UNCHANGED thread
    /\ Goto(w, "read")
    /\ UNCHANGED <<database, probes, view, iteration, set, faults, missed>>

\* The parent is loaded, the view is loaded from it, and the parent released.
LoadView(w) ==
    /\ pc[w] = "read"
    /\ LET version == IF probes[Root] = None THEN db ELSE probes[Root]
       IN probes' = [probes EXCEPT ![Root] = version, ![view[w]] = version]
    /\ lock' = [lock EXCEPT ![Root] = None]
    /\ Goto(w, "use")
    /\ UNCHANGED <<database, view, thread, iteration, set, faults, missed>>


\* A list nobody refers to dies. It stays in the set while the set is iterated on.
Dies(v) ==
    IF Iterating
    THEN removals' = removals \cup {v} /\ UNCHANGED members
    ELSE members' = members \ {v} /\ UNCHANGED removals

\* The end of a lookup. The list of an event dies, unless the sync thread is
\* clearing it.
EndLookup(w) ==
    /\ pc[w] = "use"
    /\ lock' = [lock EXCEPT ![view[w]] = None]
    /\ probes' = IF view[w] = Dict THEN probes ELSE [probes EXCEPT ![view[w]] = None]
    /\ IF view[w] \in {Dict, clearing} THEN UNCHANGED set ELSE Dies(view[w])
    /\ view' = [view EXCEPT ![w] = None]
    /\ Goto(w, "idle")
    /\ UNCHANGED <<database, thread, iteration, faults, missed>>

-----------------------------------------------------------------------------
(* The sync thread.                                                        *)

\* Variant: after an error, the thread only listens again.
ListenOnly ==
    /\ sync = "listen"
    /\ sync' = "wait"
    /\ error_state' = FALSE
    /\ UNCHANGED <<database, probes, lock, workers, notified, iteration, set, faults, missed>>

\* The LISTEN query. After an error, updates might have been missed: the views
\* are cleared.
Listen ==
    /\ sync = "listen"
    /\ sync' = IF error_state THEN "clear" ELSE "wait"
    /\ UNCHANGED <<database, probes, lock, workers, error_state, notified,
                   iteration, set, faults, missed>>

\* The query, or later poll(), raises an exception.
ConnectionError ==
    /\ sync \in {"listen", "wait"}
    /\ faults < MaxFaults
    /\ faults' = faults + 1
    /\ sync' = "listen"
    /\ error_state' = TRUE
    /\ notified' = FALSE
    /\ UNCHANGED <<database, probes, lock, workers, iteration, set, missed>>

ReceiveNotification ==
    /\ sync = "wait"
    /\ notified
    /\ notified' = FALSE
    /\ sync' = "clear"
    /\ UNCHANGED <<database, probes, lock, workers, error_state, iteration, set, faults, missed>>

\* Variant: the lock is released before the children are cleared.
ClearRootReleased ==
    /\ sync = "clear"
    /\ lock[Root] = None
    /\ probes' = [probes EXCEPT ![Root] = None]
    /\ to_clear' = members
    /\ size' = Cardinality(members)
    /\ sync' = "next_child"
    /\ UNCHANGED <<database, lock, workers, error_state, notified, clearing, set, faults, missed>>

\* ProbeList.clear: the lock is held until the children are cleared, too.
ClearRoot ==
    /\ sync = "clear"
    /\ lock[Root] = None
    /\ lock' = [lock EXCEPT ![Root] = Sync]
    /\ probes' = [probes EXCEPT ![Root] = None]
    /\ to_clear' = members
    /\ size' = Cardinality(members)
    /\ sync' = "next_child"
    /\ UNCHANGED <<database, workers, error_state, notified, clearing, set, faults, missed>>

\* The children that are dead when the iteration goes on, or ends.
Dead == removals \cup {v \in {clearing} \ {None, Dict} : \A w \in Workers : view[w] # v}

\* The next child that is alive. There is none for a dead one.
NextChild ==
    /\ sync = "next_child"
    /\ Cardinality(members) = size
    /\ \E v \in to_clear :
         /\ to_clear' = to_clear \ {v}
         /\ IF v \notin members \ removals
            THEN UNCHANGED <<sync, clearing, removals>>
            ELSE sync' = "clear_child" /\ clearing' = v /\ removals' = Dead
    /\ UNCHANGED <<database, probes, lock, workers, error_state, notified, size,
                   members, faults, missed>>

\* Variant: the lock of the child is not taken.
ClearChildUnlocked ==
    /\ sync = "clear_child"
    /\ probes' = [probes EXCEPT ![clearing] = None]
    /\ sync' = "next_child"
    /\ UNCHANGED <<database, lock, workers, error_state, notified, iteration, set, faults, missed>>

\* child.clear()
ClearChild ==
    /\ sync = "clear_child"
    /\ lock[clearing] = None
    /\ probes' = [probes EXCEPT ![clearing] = None]
    /\ sync' = "next_child"
    /\ UNCHANGED <<database, lock, workers, error_state, notified, iteration, set, faults, missed>>

EndIteration ==
    /\ lock' = [lock EXCEPT ![Root] = None]
    /\ members' = members \ Dead
    /\ removals' = {}
    /\ to_clear' = {} /\ clearing' = None /\ size' = 0

\* Nothing that the views reflect is out of date.
ViewsCleared ==
    /\ sync = "next_child"
    /\ Cardinality(members) = size
    /\ to_clear = {}
    /\ EndIteration
    /\ sync' = "wait"
    /\ error_state' = FALSE
    /\ missed' = FALSE
    /\ UNCHANGED <<database, probes, workers, notified, faults>>

\* RuntimeError, the set has changed size during the iteration: this ends the
\* thread, and what it was about to clear is not cleared.
ThreadDies ==
    /\ sync = "next_child"
    /\ Cardinality(members) # size
    /\ EndIteration
    /\ sync' = "dead"
    /\ error_state' = FALSE /\ notified' = FALSE
    /\ missed' = TRUE
    /\ UNCHANGED <<database, probes, workers, faults>>

-----------------------------------------------------------------------------
Lookup(w) == LockView(w) \/ LockParent(w) \/ LoadView(w) \/ EndLookup(w)

SyncThread ==
    \/ Listen \/ ReceiveNotification
    \/ ClearRoot \/ NextChild \/ ClearChild \/ ViewsCleared \/ ThreadDies

Next ==
    \/ ChangeProbes \/ SignalProbeChange \/ CouldNotSignal
    \/ \E w \in Workers : StartLookup(w) \/ StartFilter(w) \/ Lookup(w)
    \/ SyncThread \/ ConnectionError

Spec == Init /\ [][Next]_vars

\* The threads are scheduled, and those that wait for a lock get it if it is
\* released again and again.
FairSpec == /\ Spec
            /\ WF_vars(SignalProbeChange)
            /\ \A w \in Workers : SF_vars(Lookup(w))
            /\ SF_vars(SyncThread)

-----------------------------------------------------------------------------
(* What the views promise.                                                 *)

\* A worker that iterates over the probes of a view, or looks one up, has them
\* all: they are not cleared under its feet.
ProbesInUse == \A w \in Workers : pc[w] = "use" => probes[view[w]] # None

\* The change of the probes is on its way to this process, or the thread is
\* about to clear the views.
ClearExpected ==
    signals > 0 \/ notified \/ error_state \/ sync \in {"clear", "next_child", "clear_child"}

\* A view that is out of date is about to be cleared, unless the process was
\* not told about a change because its thread was not listening yet, had died,
\* or because the signal was lost. The changes made while the connection of the
\* thread is broken are not missed.
OutdatedViewsCleared ==
    missed \/ ClearExpected \/ \A v \in Views : probes[v] \in {None, db}

\* A child has the probes of its parent: it cannot be loaded from it while the
\* children are cleared, before or after its turn.
SameAsParent ==
    \A v \in Views \ {Root} :
        probes[v] # None /\ probes[Root] # None => missed \/ probes[v] = probes[Root]

\* Why: a worker has the lock of its view, and the parent's when it loads it ...
WorkerInv(w) ==
    /\ pc[w] = "idle" <=> view[w] = None
    /\ view[w] # Root
    /\ pc[w] \in {"load", "read", "use"} => lock[view[w]] = w
    /\ pc[w] = "read" => lock[Root] = w
    /\ view[w] \in Children =>
         /\ view[w] \in members \ removals
         /\ \A u \in Workers : view[u] = view[w] => u = w

\* ... a view that is loaded is a member the iteration does not leave out ...
LoadedInv ==
    /\ IsFiniteSet(members)
    /\ Dict \in members \ removals
    /\ \A v \in Children : probes[v] # None => \E w \in Workers : view[w] = v

\* ... the child that is cleared is alive, and had its turn ...
IterationInv ==
    /\ ~Iterating => clearing = None
    /\ sync = "clear_child" => clearing # None
    /\ clearing # None => clearing \in members \ (removals \cup to_clear)

\* ... and the parent's lock keeps it from being loaded again before all the
\* views are cleared.
ClearInv ==
    /\ sync \in {"none", "dead"} => ~error_state /\ ~notified
    /\ Iterating =>
         /\ lock[Root] = Sync
         /\ probes[Root] = None
         /\ \A v \in Views \ {Root} :
              probes[v] # None => v \in to_clear \/ (sync = "clear_child" /\ v = clearing)
    /\ ~Iterating /\ probes[Root] = None =>
         missed \/ \A v \in Views : probes[v] = None

\* The inductive invariant of the proofs.
ViewsInv ==
    /\ TypeOK
    /\ \A w \in Workers : WorkerInv(w)
    /\ LoadedInv
    /\ IterationInv
    /\ ClearInv
    /\ ProbesInUse
    /\ OutdatedViewsCleared
    /\ SameAsParent

\* A lookup ends.
LookupsEnd == \A w \in Workers : pc[w] = "lock" ~> pc[w] = "idle"

\* When the probes do not change any more, the lookups see the last version.
ViewsUpToDate == <>[](\A v \in Views : probes[v] \in {None, db})
=============================================================================
