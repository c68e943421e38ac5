----------------------------- MODULE Incidents -----------------------------
(***************************************************************************)
(* The incidents of the probes and the machine incidents they are made of, *)
(* opened and closed by the enrich workers when events match a probe, and  *)
(* updated by the users.  Each operation is a READ COMMITTED transaction   *)
(* of a database session.  A session's writes are its own until it commits *)
(* them; the others see the committed rows, wait for the rows it has       *)
(* locked, and for it when they write something its rows may conflict with.*)
(* An action is a statement, together with the computations and the writes *)
(* that follow it in the transaction.                                      *)
(***************************************************************************)
EXTENDS Naturals

CONSTANTS
    Sessions,       \* the database sessions of the workers and of the users
    Probes,         \* the probe sources
    NoProbe,        \* the probe of an incident whose probe was deleted
    Serials,        \* the serial numbers of the machines
    NoSerial,       \* the events that are not about a machine
    Severities,     \* the severities of the probes
    Ids,            \* primary keys
    None,           \* no row
    MaxOps,         \* bound on the number of operations
    MaxFaults       \* bound on the workers that crash

ASSUME NoProbeAssumption == NoProbe \notin Probes
ASSUME NoSerialAssumption == NoSerial \notin Serials
ASSUME SeverityAssumption == Severities \subseteq Nat \ {0}
ASSUME BoundsAssumption == MaxOps \in Nat /\ MaxFaults \in Nat

OPEN_STATUSES == {"OPEN", "IN_PROGRESS", "REOPENED"}
CLOSED_STATUSES == {"CLOSED", "RESOLVED"}
Statuses == OPEN_STATUSES \cup CLOSED_STATUSES

Incident == [id : Ids, probe : Probes \cup {NoProbe}, severity : Severities,
             status : Statuses]
MachineIncident == [id : Ids, incident : Ids, serial : Serials, status : Statuses]

ASSUME NoneAssumption == None \notin Incident /\ None \notin MachineIncident

\* What a session works on. A detection is an event that matches a probe with
\* a severity, a recovery one with the severity 0; both come from a worker. An
\* update is a user's request.
Detection == [type : {"detection"}, probe : Probes, severity : Severities,
              serial : Serials \cup {NoSerial}]
Recovery == [type : {"recovery"}, probe : Probes, serial : Serials]
Update == [type : {"update"}, id : Ids, status : Statuses]
MachineUpdate == [type : {"machine_update"}, id : Ids, status : Statuses]
Idle == [type |-> "idle"]

VARIABLES
    probes,             \* the probe sources that are not deleted
    incidents,          \* incidents_incident, the committed rows
    machine_incidents,  \* incidents_machineincident, the committed rows
    op,                 \* what each session works on
    pc,                 \* its next statement
    found,              \* the incident it has read, as it was then
    machine_found,      \* the machine incident it has read
    locked,             \* the rows of incidents it has locked
    machine_locked,     \* the rows of machine_incidents it has locked
    wrote,              \* the rows of incidents it has written
    machine_wrote,      \* the rows of machine_incidents it has written
    ops, faults         \* counters, for the bounds

tables == <<incidents, machine_incidents>>
reads == <<found, machine_found>>
locks == <<locked, machine_locked>>
writes == <<wrote, machine_wrote>>
counters == <<ops, faults>>
vars == <<probes, tables, op, pc, reads, locks, writes, counters>>

\* The primary keys and the foreign keys.
Keys ==
    /\ \A i, j \in incidents : i.id = j.id => i = j
    /\ \A m, n \in machine_incidents : m.id = n.id => m = n
    /\ \A i \in incidents : i.probe \in probes \cup {NoProbe}
    /\ \A m \in machine_incidents : \E i \in incidents : i.id = m.incident

TypeOK ==
    /\ Keys
    /\ probes \subseteq Probes
    /\ incidents \subseteq Incident
    /\ machine_incidents \subseteq MachineIncident
    /\ op \in [Sessions -> Detection \cup Recovery \cup Update \cup MachineUpdate \cup {Idle}]
    /\ pc \in [Sessions -> {"idle", "select", "lock_machine", "lock", "create",
                            "write", "commit", "failed"}]
    /\ found \in [Sessions -> Incident \cup {None}]
    /\ machine_found \in [Sessions -> MachineIncident \cup {None}]
    /\ locked \in [Sessions -> SUBSET Ids]
    /\ machine_locked \in [Sessions -> SUBSET Ids]
    /\ wrote \in [Sessions -> SUBSET Incident]
    /\ machine_wrote \in [Sessions -> SUBSET MachineIncident]
    /\ ops \in 0 .. MaxOps
    /\ faults \in 0 .. MaxFaults

Init ==
    /\ probes = Probes
    /\ incidents = {}
    /\ machine_incidents = {}
    /\ op = [s \in Sessions |-> Idle]
    /\ pc = [s \in Sessions |-> "idle"]
    /\ found = [s \in Sessions |-> None]
    /\ machine_found = [s \in Sessions |-> None]
    /\ locked = [s \in Sessions |-> {}]
    /\ machine_locked = [s \in Sessions |-> {}]
    /\ wrote = [s \in Sessions |-> {}]
    /\ machine_wrote = [s \in Sessions |-> {}]
    /\ ops = 0
    /\ faults = 0

-----------------------------------------------------------------------------
\* The rows once the writes of a transaction are applied, and those a session sees.
Overlay(rows, written) ==
    {r \in rows : \A w \in written : w.id # r.id} \cup written

Visible(s) == Overlay(incidents, wrote[s])
MachineVisible(s) == Overlay(machine_incidents, machine_wrote[s])

\* get_next_statuses
NextStatuses(status) ==
    CASE status \in {"OPEN", "REOPENED"} -> {"IN_PROGRESS", "CLOSED", "RESOLVED"}
      [] status = "IN_PROGRESS" -> {"CLOSED", "RESOLVED"}
      [] status \in CLOSED_STATUSES -> {"REOPENED"}

OpenMachineIncidents(rows, incident) ==
    {m \in rows : m.incident = incident.id /\ m.status \in OPEN_STATUSES}

\* Variant: the machine incidents are not looked at.
IncidentNextStatusesAny(s, incident) == NextStatuses(incident.status)

\* Incident.get_next_statuses: not closed while a machine incident is open.
IncidentNextStatuses(s, incident) ==
    IF OpenMachineIncidents(MachineVisible(s), incident) = {}
    THEN NextStatuses(incident.status)
    ELSE NextStatuses(incident.status) \ CLOSED_STATUSES

\* Variant: the condition of the constraint is the status OPEN.
RefusedIfOpen(incident) ==
    /\ incident.status = "OPEN"
    /\ incident.probe # NoProbe
    /\ \E i \in incidents : /\ i.id # incident.id
                            /\ i.probe = incident.probe
                            /\ i.status = "OPEN"

\* The constraint one_open_incident_per_probe: a written row waits for the
\* uncommitted rows of its probe, and is refused if another one is open.
Waits(s, incident) ==
    \E t \in Sessions \ {s} : \E w \in wrote[t] : w.probe = incident.probe

Refused(incident) ==
    /\ incident.status \in OPEN_STATUSES
    /\ incident.probe # NoProbe
    /\ \E i \in incidents : /\ i.id # incident.id
                            /\ i.probe = incident.probe
                            /\ i.status \in OPEN_STATUSES

\* The constraint one_open_machine_incident_per_incident.
MachineRefused(machine_incident) ==
    /\ machine_incident.status \in OPEN_STATUSES
    /\ \E m \in machine_incidents : /\ m.id # machine_incident.id
                                    /\ m.incident = machine_incident.incident
                                    /\ m.serial = machine_incident.serial
                                    /\ m.status \in OPEN_STATUSES

FreeIds(rows, written) ==
    {id \in Ids : /\ \A r \in rows : r.id # id
                  /\ \A s \in Sessions : \A w \in written[s] : w.id # id}

-----------------------------------------------------------------------------
(* The ends of a transaction.                                              *)

Step(s, next) == pc' = [pc EXCEPT ![s] = next]

Release(s) ==
    /\ found' = [found EXCEPT ![s] = None]
    /\ machine_found' = [machine_found EXCEPT ![s] = None]
    /\ locked' = [locked EXCEPT ![s] = {}]
    /\ machine_locked' = [machine_locked EXCEPT ![s] = {}]
    /\ wrote' = [wrote EXCEPT ![s] = {}]
    /\ machine_wrote' = [machine_wrote EXCEPT ![s] = {}]

\* The transaction ends, and with it the operation.
Finish(s) ==
    /\ Step(s, "idle")
    /\ op' = [op EXCEPT ![s] = Idle]
    /\ Release(s)

Commit(s) ==
    /\ pc[s] = "commit"
    /\ incidents' = Visible(s)
    /\ machine_incidents' = MachineVisible(s)
    /\ Finish(s)
    /\ UNCHANGED <<probes, counters>>

\* An exception: the transaction is rolled back. The event goes back to the
\* queue of the worker, the user gets an error.
RollBack(s) ==
    /\ IF op[s].type \in {"detection", "recovery"}
       THEN Step(s, "failed") /\ op' = op
       ELSE Step(s, "idle") /\ op' = [op EXCEPT ![s] = Idle]
    /\ Release(s)

\* The event is delivered again. It does not match the probe if it was deleted.
Redeliver(s) ==
    /\ pc[s] = "failed"
    /\ IF op[s].probe \in probes
       THEN Step(s, "select") /\ op' = op
       ELSE Step(s, "idle") /\ op' = [op EXCEPT ![s] = Idle]
    /\ UNCHANGED <<probes, tables, reads, locks, writes, counters>>

Crash(s) ==
    /\ faults < MaxFaults
    /\ pc[s] \notin {"idle", "failed"}
    /\ faults' = faults + 1
    /\ RollBack(s)
    /\ UNCHANGED <<probes, tables, ops>>

-----------------------------------------------------------------------------
(* The statements.                                                         *)

Worker(o) == o \in Detection \cup Recovery

\* An event matches a probe, or a user submits a status form: the statuses of
\* the form are those of the row when it was displayed, hence any status.
Start(s, o) ==
    /\ pc[s] = "idle"
    /\ ops < MaxOps
    /\ Worker(o) => o.probe \in probes
    /\ ops' = ops + 1
    /\ op' = [op EXCEPT ![s] = o]
    /\ Step(s, "select")
    /\ UNCHANGED <<probes, tables, reads, locks, writes, faults>>

\* Variant: the lookup is on the status OPEN.
MatchesOpen(o, i) ==
    CASE o.type = "detection" -> i.probe = o.probe /\ i.status = "OPEN"
      [] o.type = "recovery" -> i.probe = o.probe
      [] o.type = "update" -> i.id = o.id
      [] o.type = "machine_update" -> TRUE

\* Is this the incident a query is looking for?
Matches(o, i) ==
    CASE o.type = "detection" -> i.probe = o.probe /\ i.status \in OPEN_STATUSES
      [] o.type = "recovery" -> i.probe = o.probe
      [] o.type = "update" -> i.id = o.id
      [] o.type = "machine_update" -> TRUE

MachineMatches(o, m) ==
    CASE o.type = "recovery" -> m.serial = o.serial /\ m.status = "OPEN"
      [] o.type = "machine_update" -> m.id = o.id

Queried(s) == {i \in incidents : Matches(op[s], i)}

MachineQueried(s) ==
    {m \in machine_incidents :
        /\ MachineMatches(op[s], m)
        /\ \E i \in incidents : i.id = m.incident /\ Matches(op[s], i)}

\* Incident.objects.select_for_update().get(): the committed row it will lock.
SelectIncident(s) ==
    /\ pc[s] = "select"
    /\ op[s].type \in {"detection", "update"}
    /\ \/ \E i \in Queried(s) :
            /\ found' = [found EXCEPT ![s] = i]
            /\ Step(s, "lock")
            /\ UNCHANGED <<op, machine_found, locks, writes>>
       \/ /\ Queried(s) = {}
          /\ op[s].type = "detection"
          /\ Step(s, "create")
          /\ UNCHANGED <<op, reads, locks, writes>>
       \/ /\ Queried(s) = {}
          /\ op[s].type = "update"
          /\ Finish(s)
    /\ UNCHANGED <<probes, tables, counters>>

\* MachineIncident.objects.select_for_update().select_related("incident").get():
\* both rows will be locked.
SelectMachineIncident(s) ==
    /\ pc[s] = "select"
    /\ op[s].type \in {"recovery", "machine_update"}
    /\ \/ \E m \in MachineQueried(s), i \in incidents :
            /\ i.id = m.incident
            /\ found' = [found EXCEPT ![s] = i]
            /\ machine_found' = [machine_found EXCEPT ![s] = m]
            /\ Step(s, "lock_machine")
            /\ UNCHANGED <<op, locks, writes>>
       \/ MachineQueried(s) = {} /\ Finish(s)
    /\ UNCHANGED <<probes, tables, counters>>

LockMachineIncident(s) ==
    /\ pc[s] = "lock_machine"
    /\ \A t \in Sessions \ {s} : machine_found[s].id \notin machine_locked[t]
    /\ machine_locked' = [machine_locked EXCEPT ![s] = @ \cup {machine_found[s].id}]
    /\ Step(s, "lock")
    /\ UNCHANGED <<probes, tables, op, reads, locked, writes, counters>>

\* Variant: select_for_update(of=("self",)), only the machine incident is locked.
MustWaitOfSelf(s) ==
    /\ op[s].type \in {"detection", "update"}
    /\ \E t \in Sessions \ {s} : found[s].id \in locked[t]

\* The row of the incident is locked by another session.
MustWait(s) == \E t \in Sessions \ {s} : found[s].id \in locked[t]

\* Variant: the row the session writes is the one it has read before it waited.
RereadNot(s, incident) == found[s]
\* A row is read again once it is locked.
Reread(s, incident) == incident

\* The row is locked and read again: it may not match any more, and then there
\* is no row.
LockIncident(s) ==
    /\ pc[s] = "lock"
    /\ ~MustWait(s)
    /\ \E i \in incidents :
         /\ i.id = found[s].id
         /\ \/ /\ Matches(op[s], i)
               /\ found' = [found EXCEPT ![s] = Reread(s, i)]
               /\ locked' = [locked EXCEPT ![s] = @ \cup {i.id}]
               /\ \/ /\ op[s].type \in {"detection", "update"}
                     /\ Step(s, "write")
                     /\ UNCHANGED <<op, machine_found, machine_locked, writes>>
                  \/ /\ op[s].type \in {"recovery", "machine_update"}
                     /\ \E m \in machine_incidents :
                          /\ m.id = machine_found[s].id
                          /\ MachineMatches(op[s], m)
                          /\ machine_found' = [machine_found EXCEPT ![s] = m]
                     /\ Step(s, "write")
                     /\ UNCHANGED <<op, machine_locked, writes>>
            \/ /\ op[s].type = "detection"
               /\ ~Matches(op[s], i)
               /\ found' = [found EXCEPT ![s] = None]
               /\ Step(s, "create")
               /\ UNCHANGED <<op, machine_found, locks, writes>>
            \/ /\ op[s].type = "recovery"
               /\ ~Matches(op[s], i) \/ \A m \in machine_incidents :
                    m.id = machine_found[s].id => ~MachineMatches(op[s], m)
               /\ Finish(s)
    /\ UNCHANGED <<probes, tables, counters>>

\* Incident.objects.create(), refused if the probe is gone, or if another
\* session has opened an incident in the meantime.
CreateIncident(s) ==
    /\ pc[s] = "create"
    /\ \E id \in FreeIds(incidents, wrote) :
         LET incident == [id |-> id, probe |-> op[s].probe,
                          severity |-> op[s].severity, status |-> "OPEN"]
         IN /\ ~Waits(s, incident)
            /\ \/ /\ Refused(incident) \/ op[s].probe \notin probes
                  /\ RollBack(s)
               \/ /\ ~Refused(incident)
                  /\ op[s].probe \in probes
                  /\ found' = [found EXCEPT ![s] = incident]
                  /\ wrote' = [wrote EXCEPT ![s] = {incident}]
                  /\ Step(s, "write")
                  /\ UNCHANGED <<op, machine_found, locks, machine_wrote>>
    /\ UNCHANGED <<probes, tables, counters>>

\* The open machine incident of the machine.
Existing(s) == {m \in MachineVisible(s) : /\ m.incident = found[s].id
                                          /\ m.serial = op[s].serial
                                          /\ m.status \in OPEN_STATUSES}

\* The rest of _update_or_create_open_incident, the severity is only raised,
\* and MachineIncident.objects.get_or_create().
Detect(s) ==
    /\ pc[s] = "write"
    /\ op[s].type = "detection"
    /\ wrote' = IF found[s].severity < op[s].severity
                THEN [wrote EXCEPT ![s] = {[found[s] EXCEPT !.severity = op[s].severity]}]
                ELSE wrote
    /\ \/ /\ op[s].serial = NoSerial \/ Existing(s) # {}
          /\ UNCHANGED machine_wrote
       \/ /\ op[s].serial # NoSerial
          /\ Existing(s) = {}
          /\ \E id \in FreeIds(machine_incidents, machine_wrote) :
               machine_wrote' = [machine_wrote EXCEPT ![s] =
                   {[id |-> id, incident |-> found[s].id, serial |-> op[s].serial,
                     status |-> "OPEN"]}]
    /\ Step(s, "commit")
    /\ UNCHANGED <<probes, tables, op, reads, locks, counters>>

\* The machine incident is closed, and so is its incident if nobody has taken
\* it over and no other machine incident is open.
Recover(s) ==
    /\ pc[s] = "write"
    /\ op[s].type = "recovery"
    /\ LET closed == [machine_found[s] EXCEPT !.status = "CLOSED"]
           remaining == Overlay(machine_incidents, {closed})
       IN /\ machine_wrote' = [machine_wrote EXCEPT ![s] = {closed}]
          /\ wrote' = IF /\ found[s].status = "OPEN"
                         /\ OpenMachineIncidents(remaining, found[s]) = {}
                      THEN [wrote EXCEPT ![s] = {[found[s] EXCEPT !.status = "CLOSED"]}]
                      ELSE wrote
    /\ Step(s, "commit")
    /\ UNCHANGED <<probes, tables, op, reads, locks, counters>>

\* The incident of a deleted probe cannot be serialized.
UpdateIncident(s) ==
    /\ pc[s] = "write"
    /\ op[s].type = "update"
    /\ LET updated == [found[s] EXCEPT !.status = op[s].status]
       IN \/ /\ op[s].status \notin IncidentNextStatuses(s, found[s])
             /\ Finish(s)
          \/ /\ op[s].status \in IncidentNextStatuses(s, found[s])
             /\ op[s].status \in OPEN_STATUSES => ~Waits(s, updated)
             /\ \/ /\ Refused(updated) \/ updated.probe = NoProbe
                   /\ RollBack(s)
                \/ /\ ~Refused(updated)
                   /\ updated.probe # NoProbe
                   /\ wrote' = [wrote EXCEPT ![s] = {updated}]
                   /\ Step(s, "commit")
                   /\ UNCHANGED <<op, reads, locks, machine_wrote>>
    /\ UNCHANGED <<probes, tables, counters>>

UpdateMachineIncident(s) ==
    /\ pc[s] = "write"
    /\ op[s].type = "machine_update"
    /\ LET updated == [machine_found[s] EXCEPT !.status = op[s].status]
       IN \/ /\ op[s].status \notin NextStatuses(machine_found[s].status)
             /\ Finish(s)
          \/ /\ op[s].status \in NextStatuses(machine_found[s].status)
             /\ \/ /\ MachineRefused(updated) \/ found[s].probe = NoProbe
                   /\ RollBack(s)
                \/ /\ ~MachineRefused(updated)
                   /\ found[s].probe # NoProbe
                   /\ machine_wrote' = [machine_wrote EXCEPT ![s] = {updated}]
                   /\ Step(s, "commit")
                   /\ UNCHANGED <<op, reads, locks, wrote>>
    /\ UNCHANGED <<probes, tables, counters>>

\* Variant: the foreign key is left as it is.
DeleteProbeOnly(p) ==
    /\ p \in probes
    /\ probes' = probes \ {p}
    /\ UNCHANGED <<tables, op, pc, reads, locks, writes, counters>>

\* The incidents of a deleted probe stay, without probe. Their rows are locked
\* for that.
DeleteProbe(p) ==
    /\ p \in probes
    /\ \A s \in Sessions :
         /\ \A w \in wrote[s] : w.probe # p
         /\ \A i \in incidents : i.probe = p => i.id \notin locked[s]
    /\ probes' = probes \ {p}
    /\ incidents' = {i \in incidents : i.probe # p}
                    \cup {[i EXCEPT !.probe = NoProbe] : i \in {i \in incidents : i.probe = p}}
    /\ UNCHANGED <<machine_incidents, op, pc, reads, locks, writes, counters>>

-----------------------------------------------------------------------------
Statement(s) ==
    \/ SelectIncident(s) \/ SelectMachineIncident(s)
    \/ LockMachineIncident(s) \/ LockIncident(s)
    \/ CreateIncident(s) \/ Detect(s) \/ Recover(s)
    \/ UpdateIncident(s) \/ UpdateMachineIncident(s)
    \/ Commit(s) \/ Redeliver(s)

Operation == Detection \cup Recovery \cup Update \cup MachineUpdate

Next ==
    \/ \E s \in Sessions : \/ \E o \in Operation : Start(s, o)
                           \/ Statement(s)
                           \/ Crash(s)
    \/ \E p \in Probes : DeleteProbe(p)

Spec == Init /\ [][Next]_vars

\* The database runs the statement of a session as soon as nothing is in its
\* way, and an event that was not processed is delivered again.
FairSpec == Spec /\ \A s \in Sessions : WF_vars(Statement(s))
-----------------------------------------------------------------------------
(* What the incidents promise.                                             *)

\* A probe has one open incident: a match goes there, whoever is writing.
OneOpenIncident ==
    \A i, j \in incidents :
        /\ i.probe = j.probe /\ i.probe # NoProbe
        /\ i.status \in OPEN_STATUSES /\ j.status \in OPEN_STATUSES
        => i = j

\* A machine incident that nobody has touched is on an open incident. This is
\* why "Closed an open machine incident on a closed incident !!!" is never
\* logged ...
OpenOnOpenIncident ==
    \A m \in machine_incidents :
        m.status = "OPEN" => \E i \in incidents :
            i.id = m.incident /\ i.status \in OPEN_STATUSES

\* ... and why there is at most one machine incident to close when a machine
\* recovers: get() does not raise MultipleObjectsReturned.
OneToClose ==
    \A m, n \in machine_incidents, i, j \in incidents :
        /\ m.status = "OPEN" /\ n.status = "OPEN" /\ m.serial = n.serial
        /\ i.id = m.incident /\ j.id = n.incident
        /\ i.probe = j.probe /\ i.probe # NoProbe
        => m = n

\* An incident is closed, by a recovery or by a user, only when no machine
\* incident is open, whatever is detected at the same time.
ClosedWithMachineIncidents ==
    [][\A i \in incidents, j \in incidents' :
        /\ i.id = j.id
        /\ i.status \in OPEN_STATUSES
        /\ j.status \in CLOSED_STATUSES
        => OpenMachineIncidents(machine_incidents', j) = {}]_vars

\* The rows are saved whole: no session overwrites the status or the severity
\* another one has saved. A status is only replaced by one of its next
\* statuses, a severity by a higher one.
NoLostUpdate ==
    [][\A i \in incidents, j \in incidents' :
        i.id = j.id => /\ j.severity >= i.severity
                       /\ j.status = i.status \/ j.status \in NextStatuses(i.status)]_vars

\* Why: a session that has found its incident has it for itself, its row as it
\* was committed, or the new row that nobody else sees ...
Holds(s) == pc[s] \in {"write", "commit"}

HeldIncident(s) ==
    IF Holds(s)
    THEN /\ found[s] \in Incident
         /\ \/ found[s] \in incidents /\ found[s].id \in locked[s]
            \/ /\ \A i \in incidents : i.id # found[s].id
               /\ found[s].probe \in probes /\ found[s].status = "OPEN"
               /\ wrote[s] # {}
         /\ op[s].type = "detection" => found[s].status \in OPEN_STATUSES
         /\ \A t \in Sessions \ {s} : Holds(t) => found[t].id # found[s].id
    ELSE /\ wrote[s] = {} /\ machine_wrote[s] = {} /\ locked[s] = {}
         /\ pc[s] = "create" => op[s].type = "detection"

\* ... what it writes follows from what it has found, and may be committed at
\* any time: the constraints have been checked, and nobody else can write an
\* open row of the same probe ...
WrittenIncident(s) ==
    /\ pc[s] = "write" =>
         /\ wrote[s] \subseteq IF op[s].type = "detection" THEN {found[s]} ELSE {}
         /\ machine_wrote[s] = {}
    /\ \A w, v \in wrote[s] : w = v
    /\ \A w \in wrote[s] :
         /\ w.id = found[s].id /\ w.probe = found[s].probe
         /\ w.severity >= found[s].severity
         /\ w.status = found[s].status \/ w.status \in NextStatuses(found[s].status)
         /\ w.status \in CLOSED_STATUSES =>
              OpenMachineIncidents(MachineVisible(s), w) = {}
         /\ ~Refused(w)
         /\ w.status \in OPEN_STATUSES /\ w.probe # NoProbe =>
              \A t \in Sessions \ {s} : \A v \in wrote[t] :
                  v.status \in OPEN_STATUSES => v.probe # w.probe

\* ... its machine incident is one of its incident ...
FoundMachineIncident(s) ==
    \/ pc[s] = "lock_machine"
    \/ pc[s] \in {"lock", "write"} /\ op[s].type \in {"recovery", "machine_update"}
    => /\ machine_found[s] \in MachineIncident
       /\ found[s] \in Incident
       /\ machine_found[s].incident = found[s].id
       /\ \E m \in machine_incidents : /\ m.id = machine_found[s].id
                                        /\ m.incident = found[s].id

\* ... and so is the one it writes.
WrittenMachineIncident(s) ==
    /\ \A m, n \in machine_wrote[s] : m = n
    /\ \A m \in machine_wrote[s] :
         /\ m.incident = found[s].id
         /\ ~MachineRefused(m)
         /\ m.status = "OPEN" => /\ found[s].status \in OPEN_STATUSES
                                 /\ \A w \in wrote[s] : w.status = found[s].status
         /\ \A n \in machine_incidents : n.id = m.id => n.incident = m.incident
         /\ \A t \in Sessions \ {s} : \A n \in machine_wrote[t] : n.id # m.id

OneOpenMachineIncident ==
    \A m, n \in machine_incidents :
        /\ m.incident = n.incident /\ m.serial = n.serial
        /\ m.status \in OPEN_STATUSES /\ n.status \in OPEN_STATUSES
        => m = n

\* The inductive invariant of the proofs.
IncidentsInv ==
    /\ TypeOK
    /\ OneOpenIncident
    /\ OneOpenMachineIncident
    /\ OpenOnOpenIncident
    /\ \A s \in Sessions : /\ HeldIncident(s) /\ WrittenIncident(s)
                           /\ FoundMachineIncident(s) /\ WrittenMachineIncident(s)

\* Each operation ends. The one of a worker ends when its transaction is
\* committed: sooner or later, every match is recorded.
OperationsEnd == \A s \in Sessions : pc[s] # "idle" ~> pc[s] = "idle"

\* A status that is one of the next statuses of the incident, those the form
\* offers, is saved: reopening a closed incident does not raise IntegrityError.
OfferedStatusSaved ==
    [][\A s \in Sessions :
        /\ UpdateIncident(s)
        /\ found[s].probe # NoProbe
        /\ op[s].status \in IncidentNextStatuses(s, found[s])
        => pc'[s] = "commit"]_vars

\* It is saved for the incidents whose probe was deleted, too.
StatusSavedWithoutProbe ==
    [][\A s \in Sessions :
        /\ UpdateIncident(s)
        /\ found[s].probe = NoProbe
        /\ op[s].status \in IncidentNextStatuses(s, found[s])
        => pc'[s] = "commit"]_vars
=============================================================================
