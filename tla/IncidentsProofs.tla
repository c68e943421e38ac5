-------------------------- MODULE IncidentsProofs --------------------------
(***************************************************************************)
(* Proofs about Incidents, for any number of sessions, probes, machines,   *)
(* operations and crashes.                                                 *)
(***************************************************************************)
EXTENDS Incidents, TLAPS

-----------------------------------------------------------------------------
(* The statuses, and the rows that are written.                            *)

\* A next status is a status, and never OPEN: only a detection opens.
LEMMA NextStatusesType ==
    ASSUME NEW status \in Statuses
    PROVE  /\ NextStatuses(status) \subseteq Statuses
           /\ "OPEN" \notin NextStatuses(status)
BY DEF NextStatuses, Statuses, OPEN_STATUSES, CLOSED_STATUSES

\* A status is open or closed.
LEMMA OpenOrClosed ==
    /\ \A status \in Statuses : status \in OPEN_STATUSES <=> status \notin CLOSED_STATUSES
    /\ "OPEN" \in OPEN_STATUSES /\ "CLOSED" \in CLOSED_STATUSES
    /\ OPEN_STATUSES \subseteq Statuses /\ CLOSED_STATUSES \subseteq Statuses
BY DEF Statuses, OPEN_STATUSES, CLOSED_STATUSES

\* incident.status = ... ; incident.save()
LEMMA SavedStatus ==
    ASSUME NEW i \in Incident, NEW status \in Statuses
    PROVE  LET j == [i EXCEPT !.status = status]
           IN /\ j \in Incident /\ j.id = i.id /\ j.probe = i.probe
              /\ j.severity = i.severity /\ j.status = status
BY DEF Incident

\* incident.severity = ... ; incident.save()
LEMMA SavedSeverity ==
    ASSUME NEW i \in Incident, NEW severity \in Severities
    PROVE  LET j == [i EXCEPT !.severity = severity]
           IN /\ j \in Incident /\ j.id = i.id /\ j.probe = i.probe
              /\ j.severity = severity /\ j.status = i.status
BY DEF Incident

LEMMA SavedMachineStatus ==
    ASSUME NEW m \in MachineIncident, NEW status \in Statuses
    PROVE  LET n == [m EXCEPT !.status = status]
           IN /\ n \in MachineIncident /\ n.id = m.id /\ n.incident = m.incident
              /\ n.serial = m.serial /\ n.status = status
BY DEF MachineIncident

\* ON DELETE SET NULL
LEMMA SavedProbe ==
    ASSUME NEW i \in Incident
    PROVE  LET j == [i EXCEPT !.probe = NoProbe]
           IN /\ j \in Incident /\ j.id = i.id /\ j.probe = NoProbe
              /\ j.severity = i.severity /\ j.status = i.status
BY DEF Incident

-----------------------------------------------------------------------------
(* A step of a session, other than a commit, leaves the others as they are *)
(* if what it finds and writes is not theirs.                              *)

SessionInv(s) == /\ HeldIncident(s) /\ WrittenIncident(s)
                 /\ FoundMachineIncident(s) /\ WrittenMachineIncident(s)

SessionStep(s) ==
    /\ UNCHANGED <<incidents, machine_incidents, probes>>
    /\ \A t \in Sessions \ {s} :
         /\ pc'[t] = pc[t] /\ op'[t] = op[t]
         /\ found'[t] = found[t] /\ machine_found'[t] = machine_found[t]
         /\ locked'[t] = locked[t]
         /\ wrote'[t] = wrote[t] /\ machine_wrote'[t] = machine_wrote[t]

LEMMA OtherSessions ==
    ASSUME IncidentsInv, NEW s \in Sessions, SessionStep(s), TypeOK', SessionInv(s)'
    PROVE  IncidentsInv'
<1>1. OneOpenIncident' /\ OneOpenMachineIncident' /\ OpenOnOpenIncident'
  BY DEF IncidentsInv, SessionStep, OneOpenIncident, OneOpenMachineIncident, OpenOnOpenIncident
<1> SUFFICES ASSUME NEW t \in Sessions \ {s} PROVE SessionInv(t)'
  BY <1>1 DEF IncidentsInv, SessionInv
<1>2. SessionInv(t)
  BY DEF IncidentsInv, SessionInv
<1>3. HeldIncident(t)'
  BY <1>2 DEF SessionInv, SessionStep, HeldIncident, Holds
<1>4. WrittenIncident(t)'
  <2>1. ASSUME NEW w \in wrote[t], NEW v \in wrote'[s],
               w.status \in OPEN_STATUSES, w.probe # NoProbe, v.status \in OPEN_STATUSES
        PROVE  v.probe # w.probe
    BY <2>1 DEF SessionInv, SessionStep, WrittenIncident
  <2> QED
    BY <1>2, <2>1 DEF SessionInv, SessionStep, WrittenIncident, MachineVisible, Refused
<1>5. FoundMachineIncident(t)'
  BY <1>2 DEF SessionInv, SessionStep, FoundMachineIncident
<1>6. WrittenMachineIncident(t)'
  <2>1. ASSUME NEW m \in machine_wrote[t], NEW n \in machine_wrote'[s]
        PROVE  n.id # m.id
    BY <2>1 DEF SessionInv, SessionStep, WrittenMachineIncident
  <2> QED
    BY <1>2, <2>1 DEF SessionInv, SessionStep, WrittenMachineIncident, MachineRefused
<1> QED
  BY <1>3, <1>4, <1>5, <1>6 DEF SessionInv

\* A session that ends its transaction, without a commit, holds nothing.
LEMMA Released ==
    ASSUME IncidentsInv, NEW s \in Sessions, Release(s), NEW next \in {"idle", "failed"},
           Step(s, next), op' \in [Sessions -> Operation \cup {Idle}],
           \A t \in Sessions \ {s} : op'[t] = op[t],
           UNCHANGED <<incidents, machine_incidents, probes>>,
           ops' \in 0 .. MaxOps, faults' \in 0 .. MaxFaults
    PROVE  IncidentsInv'
<1>1. TypeOK
  BY DEF IncidentsInv
<1>2. TypeOK'
  BY <1>1 DEF TypeOK, Keys, Release, Step, Operation
<1>3. /\ pc'[s] = next /\ wrote'[s] = {} /\ machine_wrote'[s] = {} /\ locked'[s] = {}
  BY <1>1 DEF TypeOK, Release, Step
<1>4. SessionInv(s)'
  BY <1>3 DEF SessionInv, HeldIncident, Holds, WrittenIncident, FoundMachineIncident,
              WrittenMachineIncident
<1>5. SessionStep(s)
  BY <1>1 DEF SessionStep, TypeOK, Release, Step
<1> QED
  BY <1>2, <1>4, <1>5, OtherSessions

LEMMA FinishKeeps ==
    ASSUME IncidentsInv, NEW s \in Sessions, Finish(s),
           UNCHANGED <<incidents, machine_incidents, probes, counters>>
    PROVE  IncidentsInv'
<1>1. TypeOK
  BY DEF IncidentsInv
<1>2. op' \in [Sessions -> Operation \cup {Idle}] /\ \A t \in Sessions \ {s} : op'[t] = op[t]
  BY <1>1 DEF TypeOK, Finish, Operation
<1>3. ops' \in 0 .. MaxOps /\ faults' \in 0 .. MaxFaults
  BY <1>1 DEF TypeOK, counters
<1> QED
  BY <1>2, <1>3, Released DEF Finish

LEMMA RollBackKeeps ==
    ASSUME IncidentsInv, NEW s \in Sessions, RollBack(s),
           UNCHANGED <<incidents, machine_incidents, probes>>,
           ops' \in 0 .. MaxOps, faults' \in 0 .. MaxFaults
    PROVE  IncidentsInv'
<1>1. TypeOK
  BY DEF IncidentsInv
<1>2. op' \in [Sessions -> Operation \cup {Idle}] /\ \A t \in Sessions \ {s} : op'[t] = op[t]
  BY <1>1 DEF TypeOK, RollBack, Operation
<1>3. PICK next \in {"idle", "failed"} : Step(s, next)
  BY DEF RollBack
<1>4. Release(s)
  BY DEF RollBack
<1> QED
  BY <1>2, <1>3, <1>4, Released

-----------------------------------------------------------------------------
(* One lemma per action.                                                   *)

LEMMA StartKeeps ==
    ASSUME IncidentsInv, NEW s \in Sessions, NEW o \in Operation, Start(s, o)
    PROVE  IncidentsInv'
<1>1. TypeOK
  BY DEF IncidentsInv
<1>2. TypeOK'
  BY <1>1, BoundsAssumption
  DEF TypeOK, Keys, Start, Step, Operation, tables, reads, locks, writes
<1>3. pc'[s] = "select" /\ pc[s] = "idle" /\ SessionStep(s)
  BY <1>1 DEF SessionStep, TypeOK, Start, Step, tables, reads, locks, writes
<1>4. HeldIncident(s)
  BY DEF IncidentsInv
<1>5. SessionInv(s)'
  BY <1>3, <1>4 DEF Start, reads, locks, writes, SessionInv, HeldIncident, Holds,
                    WrittenIncident, FoundMachineIncident, WrittenMachineIncident
<1> QED
  BY <1>2, <1>3, <1>5, OtherSessions

LEMMA RedeliverKeeps ==
    ASSUME IncidentsInv, NEW s \in Sessions, Redeliver(s)
    PROVE  IncidentsInv'
<1>1. TypeOK
  BY DEF IncidentsInv
<1>2. TypeOK'
  BY <1>1 DEF TypeOK, Keys, Redeliver, Step, tables, reads, locks, writes, counters
<1>3. pc'[s] \in {"idle", "select"} /\ pc[s] = "failed" /\ SessionStep(s)
  BY <1>1 DEF SessionStep, TypeOK, Redeliver, Step, tables, reads, locks, writes
<1>4. HeldIncident(s)
  BY DEF IncidentsInv
<1>5. SessionInv(s)'
  BY <1>3, <1>4 DEF Redeliver, reads, locks, writes, SessionInv, HeldIncident, Holds,
                    WrittenIncident, FoundMachineIncident, WrittenMachineIncident
<1> QED
  BY <1>2, <1>3, <1>5, OtherSessions

LEMMA CrashKeeps ==
    ASSUME IncidentsInv, NEW s \in Sessions, Crash(s)
    PROVE  IncidentsInv'
<1>1. ops \in 0 .. MaxOps /\ faults \in 0 .. MaxFaults
  BY DEF IncidentsInv, TypeOK
<1>2. ops' \in 0 .. MaxOps /\ faults' \in 0 .. MaxFaults
  BY <1>1, BoundsAssumption DEF Crash
<1>3. RollBack(s) /\ UNCHANGED <<incidents, machine_incidents, probes>>
  BY DEF Crash, tables
<1> QED
  BY <1>2, <1>3, RollBackKeeps

LEMMA SelectIncidentKeeps ==
    ASSUME IncidentsInv, NEW s \in Sessions, SelectIncident(s)
    PROVE  IncidentsInv'
<1>1. TypeOK /\ HeldIncident(s)
  BY DEF IncidentsInv
<1>2. UNCHANGED <<incidents, machine_incidents, probes, counters>>
  BY DEF SelectIncident, tables
<1>3. CASE Finish(s)
  BY <1>2, <1>3, FinishKeeps
<1>4. CASE /\ \/ \E i \in Queried(s) : found' = [found EXCEPT ![s] = i] /\ Step(s, "lock")
              \/ found' = found /\ Step(s, "create") /\ op[s].type = "detection"
           /\ UNCHANGED <<op, machine_found, locks, writes>>
  <2>1. TypeOK'
    BY <1>1, <1>2, <1>4 DEF TypeOK, Keys, Step, Queried, locks, writes, counters
  <2>2. SessionStep(s)
    BY <1>1, <1>2, <1>4 DEF SessionStep, TypeOK, Step, locks, writes
  <2>3. pc[s] = "select" /\ pc'[s] \in {"lock", "create"}
    BY <1>1, <1>4 DEF TypeOK, Step, SelectIncident
  <2>4. /\ op'[s].type \in {"detection", "update"}
        /\ pc'[s] = "create" => op'[s].type = "detection"
    BY <1>1, <1>4 DEF TypeOK, Step, SelectIncident
  <2>5. wrote'[s] = {} /\ machine_wrote'[s] = {} /\ locked'[s] = {}
    BY <1>1, <1>4, <2>3 DEF HeldIncident, Holds, locks, writes
  <2>6. SessionInv(s)'
    BY <2>3, <2>4, <2>5 DEF SessionInv, HeldIncident, Holds, WrittenIncident,
                            FoundMachineIncident, WrittenMachineIncident
  <2> QED
    BY <2>1, <2>2, <2>6, OtherSessions
<1> QED
  BY <1>3, <1>4 DEF SelectIncident, reads

LEMMA SelectMachineIncidentKeeps ==
    ASSUME IncidentsInv, NEW s \in Sessions, SelectMachineIncident(s)
    PROVE  IncidentsInv'
<1>1. TypeOK /\ HeldIncident(s)
  BY DEF IncidentsInv
<1>2. UNCHANGED <<incidents, machine_incidents, probes, counters>>
  BY DEF SelectMachineIncident, tables
<1>3. CASE Finish(s)
  BY <1>2, <1>3, FinishKeeps
<1>4. ASSUME NEW m \in MachineQueried(s), NEW i \in incidents, i.id = m.incident,
             found' = [found EXCEPT ![s] = i],
             machine_found' = [machine_found EXCEPT ![s] = m],
             Step(s, "lock_machine"), UNCHANGED <<op, locks, writes>>
      PROVE  IncidentsInv'
  <2>1. m \in machine_incidents /\ m \in MachineIncident /\ i \in Incident
    BY <1>1 DEF MachineQueried, TypeOK
  <2>2. TypeOK'
    BY <1>1, <1>2, <1>4, <2>1 DEF TypeOK, Keys, Step, locks, writes, counters
  <2>3. SessionStep(s)
    BY <1>1, <1>2, <1>4 DEF SessionStep, TypeOK, Step, locks, writes
  <2>4. pc[s] = "select" /\ pc'[s] = "lock_machine"
    BY <1>1, <1>4 DEF TypeOK, Step, SelectMachineIncident
  <2>5. found'[s] = i /\ machine_found'[s] = m
    BY <1>1, <1>4 DEF TypeOK
  <2>6. wrote'[s] = {} /\ machine_wrote'[s] = {} /\ locked'[s] = {}
    BY <1>1, <1>4, <2>4 DEF HeldIncident, Holds, locks, writes
  <2>7. FoundMachineIncident(s)'
    BY <1>2, <1>4, <2>1, <2>5 DEF FoundMachineIncident
  <2>8. SessionInv(s)'
    BY <2>4, <2>6, <2>7 DEF SessionInv, HeldIncident, Holds, WrittenIncident,
                            WrittenMachineIncident
  <2> QED
    BY <2>2, <2>3, <2>8, OtherSessions
<1> QED
  BY <1>3, <1>4 DEF SelectMachineIncident

LEMMA LockMachineIncidentKeeps ==
    ASSUME IncidentsInv, NEW s \in Sessions, LockMachineIncident(s)
    PROVE  IncidentsInv'
<1>1. TypeOK /\ HeldIncident(s) /\ FoundMachineIncident(s)
  BY DEF IncidentsInv
<1>3. UNCHANGED <<probes, incidents, machine_incidents, op, found, machine_found, locked,
                  wrote, machine_wrote, ops, faults>>
  BY DEF LockMachineIncident, tables, reads, writes, counters
<1>4. pc[s] = "lock_machine" /\ pc'[s] = "lock"
  BY <1>1 DEF TypeOK, Step, LockMachineIncident
<1>5. machine_found[s].id \in Ids
  BY <1>1, <1>4 DEF FoundMachineIncident, MachineIncident
<1>6. TypeOK'
  BY <1>1, <1>3, <1>5 DEF TypeOK, Keys, LockMachineIncident, Step
<1>7. SessionStep(s)
  BY <1>1, <1>3 DEF SessionStep, TypeOK, Step, LockMachineIncident
<1>8. FoundMachineIncident(s)'
  BY <1>1, <1>3, <1>4 DEF FoundMachineIncident
<1>9. SessionInv(s)'
  BY <1>1, <1>3, <1>4, <1>8 DEF SessionInv, HeldIncident, Holds, WrittenIncident,
                          WrittenMachineIncident
<1> QED
  BY <1>6, <1>7, <1>9, OtherSessions

\* What an operation of each type is made of.
LEMMA OperationType ==
    ASSUME TypeOK, NEW s \in Sessions
    PROVE  /\ op[s].type = "detection" => op[s] \in Detection
           /\ op[s].type = "recovery" => op[s] \in Recovery
           /\ op[s].type = "update" => op[s] \in Update
           /\ op[s].type = "machine_update" => op[s] \in MachineUpdate
           /\ op[s].type \in {"detection", "recovery", "update", "machine_update", "idle"}
BY DEF TypeOK, Detection, Recovery, Update, MachineUpdate, Idle

\* The incident is locked: nobody else holds it.
LEMMA LockedIncident ==
    ASSUME IncidentsInv, NEW s \in Sessions, ~MustWait(s), pc[s] = "lock",
           NEW i \in incidents, i.id = found[s].id, Matches(op[s], i),
           SessionStep(s), pc'[s] = "write", op'[s] = op[s], found'[s] = i,
           wrote'[s] = wrote[s], machine_wrote'[s] = machine_wrote[s],
           i.id \in locked'[s]
    PROVE  HeldIncident(s)' /\ WrittenIncident(s)' /\ WrittenMachineIncident(s)'
<1>1. TypeOK /\ \A t \in Sessions : HeldIncident(t)
  BY DEF IncidentsInv
<1>2. wrote'[s] = {} /\ machine_wrote'[s] = {}
  BY <1>1 DEF HeldIncident, Holds
<1>3. WrittenIncident(s)' /\ WrittenMachineIncident(s)'
  BY <1>2 DEF WrittenIncident, WrittenMachineIncident
<1>4. i \in Incident /\ i \in incidents'
  BY <1>1 DEF TypeOK, SessionStep
<1>5. op[s].type = "detection" => i.status \in OPEN_STATUSES
  BY DEF Matches
<1>6. \A t \in Sessions \ {s} : Holds(t) => found[t].id # i.id
  BY <1>1 DEF MustWait, HeldIncident
<1> QED
  BY <1>3, <1>4, <1>5, <1>6 DEF HeldIncident, Holds, SessionStep

LEMMA LockIncidentKeeps ==
    ASSUME IncidentsInv, NEW s \in Sessions, LockIncident(s)
    PROVE  IncidentsInv'
<1>1. TypeOK /\ HeldIncident(s) /\ FoundMachineIncident(s)
  BY DEF IncidentsInv
<1>2. UNCHANGED <<incidents, machine_incidents, probes, counters>> /\ pc[s] = "lock"
  BY DEF LockIncident, tables
<1>3. PICK i \in incidents :
        /\ i.id = found[s].id
        /\ \/ /\ Matches(op[s], i)
              /\ found' = [found EXCEPT ![s] = i]
              /\ locked' = [locked EXCEPT ![s] = @ \cup {i.id}]
              /\ \/ /\ op[s].type \in {"detection", "update"}
                    /\ Step(s, "write")
                    /\ UNCHANGED <<op, machine_found, machine_locked, writes>>
                 \/ /\ op[s].type \in {"recovery", "machine_update"}
                    /\ \E m \in machine_incidents :
                         /\ m.id = machine_found[s].id
                         /\ MachineMatches(op[s], m)
                         /\ machine_found' = [machine_found EXCEPT ![s] = m]
                    /\ Step(s, "write")
                    /\ UNCHANGED <<op, machine_locked, writes>>
           \/ /\ op[s].type = "detection"
              /\ ~Matches(op[s], i)
              /\ found' = [found EXCEPT ![s] = None]
              /\ Step(s, "create")
              /\ UNCHANGED <<op, machine_found, locks, writes>>
           \/ Finish(s)
  BY DEF LockIncident, Reread
<1>4. i \in Incident
  BY <1>1 DEF TypeOK
<1>5. CASE Finish(s)
  BY <1>2, <1>5, FinishKeeps
<1>6. CASE /\ op[s].type = "detection"
           /\ found' = [found EXCEPT ![s] = None]
           /\ Step(s, "create")
           /\ UNCHANGED <<op, machine_found, locks, writes>>
  <2>1. TypeOK'
    BY <1>1, <1>2, <1>6 DEF TypeOK, Keys, Step, locks, writes, counters
  <2>2. SessionStep(s) /\ pc'[s] = "create"
    BY <1>1, <1>2, <1>6 DEF SessionStep, TypeOK, Step, locks, writes
  <2>3. SessionInv(s)'
    BY <1>1, <1>2, <1>6, <2>2 DEF SessionInv, HeldIncident, Holds, WrittenIncident,
          FoundMachineIncident, WrittenMachineIncident, locks, writes
  <2> QED
    BY <2>1, <2>2, <2>3, OtherSessions
<1>7. CASE /\ Matches(op[s], i)
           /\ found' = [found EXCEPT ![s] = i]
           /\ locked' = [locked EXCEPT ![s] = @ \cup {i.id}]
           /\ op[s].type \in {"detection", "update"}
           /\ Step(s, "write")
           /\ UNCHANGED <<op, machine_found, machine_locked, writes>>
  <2>1. TypeOK'
    BY <1>1, <1>2, <1>4, <1>7 DEF TypeOK, Keys, Step, writes, counters, Incident
  <2>2. /\ SessionStep(s) /\ pc'[s] = "write" /\ found'[s] = i
        /\ i.id \in locked'[s] /\ op'[s] = op[s]
    BY <1>1, <1>2, <1>7 DEF SessionStep, TypeOK, Step, writes
  <2>3. SessionInv(s)'
    <3>1. HeldIncident(s)' /\ WrittenIncident(s)' /\ WrittenMachineIncident(s)'
      BY <1>2, <1>3, <1>7, <2>2, LockedIncident DEF LockIncident, writes
    <3> QED
      BY <1>7, <2>2, <3>1 DEF SessionInv, FoundMachineIncident
  <2> QED
    BY <2>1, <2>2, <2>3, OtherSessions
<1>8. ASSUME Matches(op[s], i),
             found' = [found EXCEPT ![s] = i],
             locked' = [locked EXCEPT ![s] = @ \cup {i.id}],
             op[s].type \in {"recovery", "machine_update"},
             NEW m \in machine_incidents,
             m.id = machine_found[s].id,
             machine_found' = [machine_found EXCEPT ![s] = m],
             Step(s, "write"),
             UNCHANGED <<op, machine_locked, writes>>
      PROVE  IncidentsInv'
  <2>1. TypeOK'
    BY <1>1, <1>2, <1>4, <1>8 DEF TypeOK, Keys, Step, writes, counters, Incident
  <2>2. /\ SessionStep(s) /\ pc'[s] = "write" /\ found'[s] = i
        /\ i.id \in locked'[s] /\ op'[s] = op[s] /\ machine_found'[s] = m
    BY <1>1, <1>2, <1>8 DEF SessionStep, TypeOK, Step, writes
  <2>3. m.incident = i.id /\ m \in MachineIncident
    BY <1>1, <1>2, <1>3, <1>8 DEF FoundMachineIncident, TypeOK, Keys
  <2>4. FoundMachineIncident(s)'
    BY <1>2, <1>4, <1>8, <2>2, <2>3 DEF FoundMachineIncident
  <2>5. HeldIncident(s)' /\ WrittenIncident(s)' /\ WrittenMachineIncident(s)'
    BY <1>2, <1>3, <1>8, <2>2, LockedIncident DEF LockIncident, writes
  <2> QED
    BY <2>1, <2>2, <2>4, <2>5, OtherSessions DEF SessionInv
<1> QED
  BY <1>3, <1>5, <1>6, <1>7, <1>8

\* A new incident: its key is nobody's, and no open row of its probe is there
\* or about to be.
LEMMA CreateIncidentKeeps ==
    ASSUME IncidentsInv, NEW s \in Sessions, CreateIncident(s)
    PROVE  IncidentsInv'
<1>1. TypeOK /\ \A t \in Sessions : HeldIncident(t) /\ WrittenIncident(t)
  BY DEF IncidentsInv
<1>2. UNCHANGED <<incidents, machine_incidents, probes, counters>> /\ pc[s] = "create"
  BY DEF CreateIncident, tables
<1>3. op[s] \in Detection /\ op[s].type = "detection"
  BY <1>1, <1>2, OperationType DEF HeldIncident, Holds
<1>4. PICK id \in FreeIds(incidents, wrote) :
        LET incident == [id |-> id, probe |-> op[s].probe,
                         severity |-> op[s].severity, status |-> "OPEN"]
        IN /\ ~Waits(s, incident)
           /\ \/ RollBack(s)
              \/ /\ ~Refused(incident)
                 /\ op[s].probe \in probes
                 /\ found' = [found EXCEPT ![s] = incident]
                 /\ wrote' = [wrote EXCEPT ![s] = {incident}]
                 /\ Step(s, "write")
                 /\ UNCHANGED <<op, machine_found, locks, machine_wrote>>
  BY DEF CreateIncident
<1> DEFINE incident == [id |-> id, probe |-> op[s].probe,
                        severity |-> op[s].severity, status |-> "OPEN"]
<1>5. /\ incident \in Incident /\ incident.id = id /\ incident.probe = op[s].probe
      /\ incident.status = "OPEN" /\ incident.severity \in Nat
  BY <1>3, SeverityAssumption DEF Incident, Detection, FreeIds, Statuses, OPEN_STATUSES
<1>6. CASE RollBack(s)
  BY <1>1, <1>2, <1>6, RollBackKeeps DEF TypeOK, counters
<1>7. CASE /\ ~Refused(incident)
           /\ op[s].probe \in probes
           /\ found' = [found EXCEPT ![s] = incident]
           /\ wrote' = [wrote EXCEPT ![s] = {incident}]
           /\ Step(s, "write")
           /\ UNCHANGED <<op, machine_found, locks, machine_wrote>>
  <2> HIDE DEF incident
  <2>1. TypeOK'
    BY <1>1, <1>2, <1>5, <1>7 DEF TypeOK, Keys, Step, locks, counters
  <2>2. /\ SessionStep(s) /\ pc'[s] = "write" /\ found'[s] = incident
        /\ wrote'[s] = {incident} /\ op'[s] = op[s]
    BY <1>1, <1>2, <1>7 DEF SessionStep, TypeOK, Step, locks
  <2>3. machine_wrote'[s] = {}
    BY <1>1, <1>2, <1>7 DEF HeldIncident, Holds
  <2>4. \A i \in incidents : i.id # incident.id
    BY <1>4, <1>5 DEF FreeIds
  <2>5. ASSUME NEW t \in Sessions \ {s}, Holds(t)
        PROVE  found[t].id # incident.id
    <3>1. CASE found[t] \in incidents
      BY <2>4, <3>1
    <3>2. CASE wrote[t] # {}
      <4>1. PICK w \in wrote[t] : w.id = found[t].id
        BY <1>1, <3>2 DEF WrittenIncident
      <4>2. w.id # id
        BY <1>4 DEF FreeIds
      <4> QED
        BY <1>5, <4>1, <4>2
    <3> QED
      BY <1>1, <2>5, <3>1, <3>2 DEF HeldIncident
  <2>6. HeldIncident(s)'
    BY <1>2, <1>3, <1>5, <1>7, <2>2, <2>4, <2>5, OpenOrClosed DEF HeldIncident, Holds, SessionStep
  <2>7. \A t \in Sessions \ {s} : \A v \in wrote[t] : v.probe # incident.probe
    BY <1>4 DEF Waits, incident
  <2>8. WrittenIncident(s)'
    <3>1. \A w \in wrote'[s] : ~Refused(w)'
      BY <1>2, <1>7, <2>2 DEF Refused
    <3>2. incident.status \notin CLOSED_STATUSES
      BY <1>5 DEF CLOSED_STATUSES
    <3>3. incident.severity >= incident.severity
      BY <1>5
    <3> QED
      BY <1>3, <2>2, <2>3, <2>7, <3>1, <3>2, <3>3 DEF WrittenIncident, SessionStep
  <2>9. FoundMachineIncident(s)' /\ WrittenMachineIncident(s)'
    BY <1>3, <2>2, <2>3 DEF FoundMachineIncident, WrittenMachineIncident
  <2> QED
    BY <2>1, <2>2, <2>6, <2>8, <2>9, OtherSessions DEF SessionInv
<1> QED
  BY <1>4, <1>6, <1>7

\* The open incident of a detection is the only open row of its probe, committed
\* or about to be.
LEMMA DetectedIncident ==
    ASSUME IncidentsInv, NEW s \in Sessions, pc[s] = "write", op[s].type = "detection",
           NEW w \in Incident, w.id = found[s].id, w.probe = found[s].probe,
           w.status = found[s].status
    PROVE  /\ w.status \in OPEN_STATUSES
           /\ ~Refused(w)
           /\ w.probe # NoProbe =>
                \A t \in Sessions \ {s} : \A v \in wrote[t] :
                    v.status \in OPEN_STATUSES => v.probe # w.probe
<1>1. /\ TypeOK /\ OneOpenIncident
      /\ \A t \in Sessions : HeldIncident(t) /\ WrittenIncident(t)
  BY DEF IncidentsInv
<1>2. found[s].status \in OPEN_STATUSES
  BY <1>1 DEF HeldIncident, Holds
<1>3. CASE found[s] \in incidents
  <2>1. ~Refused(w)
    BY <1>1, <1>2, <1>3 DEF Refused, OneOpenIncident
  <2>2. ASSUME NEW t \in Sessions \ {s}, NEW v \in wrote[t], w.probe # NoProbe,
               v.status \in OPEN_STATUSES, v.probe = w.probe
        PROVE  FALSE
    <3>1. Holds(t) /\ found[t].id # found[s].id
      BY <1>1, <2>2 DEF HeldIncident, Holds
    <3>2. v.id = found[t].id /\ ~Refused(v)
      BY <1>1, <2>2 DEF WrittenIncident
    <3> QED
      BY <1>2, <1>3, <2>2, <3>1, <3>2 DEF Refused
  <2> QED
    BY <1>2, <2>1, <2>2
<1>4. CASE found[s] \notin incidents
  <2>1. found[s] \in wrote[s]
    BY <1>1, <1>4 DEF HeldIncident, WrittenIncident, Holds
  <2> QED
    BY <1>1, <1>2, <2>1 DEF WrittenIncident, Refused
<1> QED
  BY <1>3, <1>4

LEMMA DetectKeeps ==
    ASSUME IncidentsInv, NEW s \in Sessions, Detect(s)
    PROVE  IncidentsInv'
<1>1. /\ TypeOK /\ \A t \in Sessions : HeldIncident(t) /\ WrittenIncident(t)
      /\ WrittenMachineIncident(s)
  BY DEF IncidentsInv
<1>2. /\ UNCHANGED <<incidents, machine_incidents, probes, counters, op, found, machine_found,
                     locked, machine_locked>>
      /\ pc[s] = "write" /\ op[s].type = "detection" /\ pc' = [pc EXCEPT ![s] = "commit"]
  BY DEF Detect, tables, reads, locks, Step
<1>3. /\ op[s] \in Detection /\ found[s] \in Incident
      /\ op[s].severity \in Severities
      /\ op[s].severity \in Nat /\ found[s].severity \in Nat
  BY <1>1, <1>2, OperationType, SeverityAssumption
  DEF HeldIncident, Holds, Detection, Incident
<1> DEFINE raised == [found[s] EXCEPT !.severity = op[s].severity]
<1>4. /\ raised \in Incident /\ raised.id = found[s].id /\ raised.probe = found[s].probe
      /\ raised.severity = op[s].severity /\ raised.status = found[s].status
  BY <1>3, SavedSeverity
<1>5. \/ /\ found[s].severity < op[s].severity
         /\ wrote' = [wrote EXCEPT ![s] = {raised}]
      \/ wrote' = wrote
  BY DEF Detect
<1> HIDE DEF raised
<1>6. /\ \A w, v \in wrote'[s] : w = v
      /\ wrote[s] # {} => wrote'[s] # {}
      /\ \A w \in wrote'[s] : /\ w \in Incident
                              /\ w.id = found[s].id /\ w.probe = found[s].probe
                              /\ w.severity >= found[s].severity
                              /\ w.status = found[s].status
  <2>1. CASE wrote' = wrote
    BY <1>1, <1>2, <1>3, <2>1 DEF WrittenIncident
  <2>2. CASE found[s].severity < op[s].severity /\ wrote' = [wrote EXCEPT ![s] = {raised}]
    <3>1. wrote'[s] = {raised}
      BY <1>1, <2>2 DEF TypeOK
    <3>2. op[s].severity >= found[s].severity
      BY <1>3, <2>2
    <3> QED
      BY <1>4, <3>1, <3>2
  <2> QED
    BY <1>5, <2>1, <2>2
<1>7. PICK id \in Ids \cup {None} :
        \/ machine_wrote' = machine_wrote
        \/ /\ id \in FreeIds(machine_incidents, machine_wrote)
           /\ op[s].serial # NoSerial /\ Existing(s) = {}
           /\ machine_wrote' = [machine_wrote EXCEPT ![s] =
                {[id |-> id, incident |-> found[s].id, serial |-> op[s].serial,
                  status |-> "OPEN"]}]
  BY DEF Detect, FreeIds
<1> DEFINE new == [id |-> id, incident |-> found[s].id, serial |-> op[s].serial,
                   status |-> "OPEN"]
<1>8. machine_wrote'[s] = {} \/ machine_wrote'[s] = {new}
  BY <1>1, <1>2, <1>7 DEF WrittenIncident, TypeOK
<1>9. machine_wrote'[s] = {new} => new \in MachineIncident
  <2> SUFFICES ASSUME machine_wrote'[s] = {new} PROVE new \in MachineIncident
    OBVIOUS
  <2>1. machine_wrote[s] = {}
    BY <1>1, <1>2 DEF WrittenIncident
  <2>2. id \in Ids /\ op[s].serial \in Serials
    BY <1>3, <1>7, <2>1 DEF FreeIds, Detection
  <2> QED
    BY <1>3, <2>2 DEF MachineIncident, Incident, Statuses, OPEN_STATUSES
<1>10. TypeOK'
  <2>1. wrote' \in [Sessions -> SUBSET Incident]
    BY <1>1, <1>4, <1>5 DEF TypeOK
  <2>2. machine_wrote' \in [Sessions -> SUBSET MachineIncident]
    BY <1>1, <1>7, <1>8, <1>9 DEF TypeOK
  <2> QED
    BY <1>1, <1>2, <2>1, <2>2 DEF TypeOK, Keys, counters
<1>11. SessionStep(s) /\ pc'[s] = "commit"
  BY <1>1, <1>2, <1>5, <1>7 DEF SessionStep, TypeOK
<1>12. HeldIncident(s)'
  BY <1>1, <1>2, <1>6, <1>11 DEF HeldIncident, Holds, SessionStep
<1>13. WrittenIncident(s)'
  <2>1. ASSUME NEW w \in wrote'[s]
        PROVE  /\ w.status \in OPEN_STATUSES /\ ~Refused(w)'
               /\ w.probe # NoProbe =>
                    \A t \in Sessions \ {s} : \A v \in wrote'[t] :
                        v.status \in OPEN_STATUSES => v.probe # w.probe
    <3>1. w \in Incident /\ w.id = found[s].id /\ w.probe = found[s].probe
                         /\ w.status = found[s].status
      BY <1>6
    <3>2. Refused(w)' <=> Refused(w)
      BY <1>2 DEF Refused
    <3> QED
      BY <1>2, <1>11, <3>1, <3>2, DetectedIncident DEF SessionStep
  <2>2. \A w \in wrote'[s] : w.status \notin CLOSED_STATUSES
    BY <2>1 DEF OPEN_STATUSES, CLOSED_STATUSES
  <2> QED
    BY <1>2, <1>6, <1>11, <2>1, <2>2 DEF WrittenIncident
<1>14. FoundMachineIncident(s)'
  BY <1>11 DEF FoundMachineIncident
<1>15. WrittenMachineIncident(s)'
  <2>1. CASE machine_wrote'[s] = {}
    BY <2>1 DEF WrittenMachineIncident
  <2>2. CASE machine_wrote'[s] = {new}
    <3>1. machine_wrote[s] = {}
      BY <1>1, <1>2 DEF WrittenIncident
    <3>2. id \in FreeIds(machine_incidents, machine_wrote) /\ Existing(s) = {}
      BY <1>7, <2>2, <3>1
    <3>3. MachineVisible(s) = machine_incidents
      BY <3>1 DEF MachineVisible, Overlay
    <3>4. \A m \in machine_wrote'[s] : ~MachineRefused(m)'
      BY <1>2, <2>2, <3>2, <3>3 DEF MachineRefused, Existing
    <3>5. \A n \in machine_incidents : n.id # id
      BY <3>2 DEF FreeIds
    <3>6. \A t \in Sessions \ {s} : \A n \in machine_wrote[t] : n.id # id
      BY <3>2 DEF FreeIds
    <3>7. found[s].status \in OPEN_STATUSES
      BY <1>1, <1>2 DEF HeldIncident, Holds
    <3>8. \A m \in machine_wrote'[s] : m.id = id /\ m.incident = found[s].id
      BY <2>2
    <3>9. \A m, n \in machine_wrote'[s] : m = n
      BY <2>2
    <3> HIDE DEF new
    <3> QED
      BY <1>2, <1>6, <1>11, <3>4, <3>5, <3>6, <3>7, <3>8, <3>9
      DEF WrittenMachineIncident, SessionStep
  <2> QED
    BY <1>8, <2>1, <2>2
<1> QED
  BY <1>10, <1>11, <1>12, <1>13, <1>14, <1>15, OtherSessions DEF SessionInv

\* The machine incident a session writes has kept its incident, and is nobody
\* else's.
LEMMA OwnMachineIncident ==
    ASSUME IncidentsInv, NEW s \in Sessions, pc[s] = "write",
           op[s].type \in {"recovery", "machine_update"}
    PROVE  /\ machine_found[s] \in MachineIncident
           /\ machine_found[s].incident = found[s].id
           /\ \A n \in machine_incidents :
                n.id = machine_found[s].id => n.incident = found[s].id
           /\ \A t \in Sessions \ {s} : \A n \in machine_wrote[t] : n.id # machine_found[s].id
<1>1. /\ TypeOK /\ FoundMachineIncident(s)
      /\ \A t \in Sessions : HeldIncident(t) /\ WrittenMachineIncident(t)
  BY DEF IncidentsInv
<1>2. PICK r \in machine_incidents : r.id = machine_found[s].id /\ r.incident = found[s].id
  BY <1>1 DEF FoundMachineIncident
<1>3. \A n \in machine_incidents : n.id = machine_found[s].id => n = r
  BY <1>1, <1>2 DEF TypeOK, Keys
<1>4. ASSUME NEW t \in Sessions \ {s}, NEW n \in machine_wrote[t], n.id = machine_found[s].id
      PROVE  FALSE
  <2>1. Holds(t) /\ Holds(s)
    BY <1>1 DEF HeldIncident, Holds
  <2>2. n.incident = found[t].id
    BY <1>1 DEF WrittenMachineIncident
  <2>3. r.incident = n.incident
    BY <1>1, <1>2, <1>4 DEF WrittenMachineIncident
  <2>4. found[t].id # found[s].id
    BY <1>1, <2>1 DEF HeldIncident
  <2> QED
    BY <1>2, <2>2, <2>3, <2>4
<1> QED
  BY <1>1, <1>2, <1>3, <1>4 DEF FoundMachineIncident

LEMMA RecoverKeeps ==
    ASSUME IncidentsInv, NEW s \in Sessions, Recover(s)
    PROVE  IncidentsInv'
<1>1. TypeOK /\ HeldIncident(s) /\ WrittenIncident(s)
  BY DEF IncidentsInv
<1>2. /\ UNCHANGED <<incidents, machine_incidents, probes, counters, op, found, machine_found,
                     locked, machine_locked>>
      /\ pc[s] = "write" /\ op[s].type = "recovery" /\ pc' = [pc EXCEPT ![s] = "commit"]
  BY DEF Recover, tables, reads, locks, Step
<1> DEFINE closed == [machine_found[s] EXCEPT !.status = "CLOSED"]
           updated == [found[s] EXCEPT !.status = "CLOSED"]
<1>3. /\ found[s] \in Incident /\ found[s].severity \in Nat
      /\ wrote[s] = {} /\ machine_wrote[s] = {}
  BY <1>1, <1>2, SeverityAssumption DEF HeldIncident, Holds, WrittenIncident, Incident
<1>4. /\ closed \in MachineIncident /\ closed.id = machine_found[s].id
      /\ closed.incident = found[s].id /\ closed.status = "CLOSED"
  BY <1>2, OwnMachineIncident, SavedMachineStatus, OpenOrClosed
<1>5. /\ updated \in Incident /\ updated.id = found[s].id /\ updated.probe = found[s].probe
      /\ updated.severity = found[s].severity /\ updated.status = "CLOSED"
  BY <1>3, SavedStatus, OpenOrClosed
<1>6. machine_wrote' = [machine_wrote EXCEPT ![s] = {closed}]
  BY DEF Recover
<1>7. \/ /\ found[s].status = "OPEN"
         /\ OpenMachineIncidents(Overlay(machine_incidents, {closed}), found[s]) = {}
         /\ wrote' = [wrote EXCEPT ![s] = {updated}]
      \/ wrote' = wrote
  BY DEF Recover
<1> HIDE DEF closed, updated
<1>8. TypeOK'
  <2>1. wrote' \in [Sessions -> SUBSET Incident]
    BY <1>1, <1>5, <1>7 DEF TypeOK
  <2>2. machine_wrote' \in [Sessions -> SUBSET MachineIncident]
    BY <1>1, <1>4, <1>6 DEF TypeOK
  <2> QED
    BY <1>1, <1>2, <2>1, <2>2 DEF TypeOK, Keys, counters
<1>9. SessionStep(s) /\ pc'[s] = "commit" /\ machine_wrote'[s] = {closed}
  BY <1>1, <1>2, <1>6, <1>7 DEF SessionStep, TypeOK
<1>10. HeldIncident(s)'
  BY <1>1, <1>2, <1>3, <1>9 DEF HeldIncident, Holds, SessionStep
<1>11. WrittenIncident(s)'
  <2>1. CASE wrote' = wrote
    BY <1>3, <1>9, <2>1 DEF WrittenIncident
  <2>2. CASE /\ found[s].status = "OPEN"
             /\ OpenMachineIncidents(Overlay(machine_incidents, {closed}), found[s]) = {}
             /\ wrote' = [wrote EXCEPT ![s] = {updated}]
    <3>1. wrote'[s] = {updated}
      BY <1>1, <2>2 DEF TypeOK
    <3>2. MachineVisible(s)' = Overlay(machine_incidents, {closed})
      BY <1>2, <1>9 DEF MachineVisible
    <3>3. \A w \in wrote'[s] : OpenMachineIncidents(MachineVisible(s)', w) = {}
      BY <1>5, <2>2, <3>1, <3>2 DEF OpenMachineIncidents
    <3>4. updated.status \in NextStatuses(found[s].status) /\ updated.status \notin OPEN_STATUSES
      BY <1>5, <2>2 DEF NextStatuses, OPEN_STATUSES, CLOSED_STATUSES
    <3>5. \A w \in wrote'[s] : ~Refused(w)'
      BY <3>1, <3>4 DEF Refused
    <3>6. updated.severity >= found[s].severity
      BY <1>3, <1>5
    <3> QED
      BY <1>2, <1>5, <1>9, <3>1, <3>3, <3>4, <3>5, <3>6 DEF WrittenIncident, OpenMachineIncidents
  <2> QED
    BY <1>7, <2>1, <2>2
<1>12. FoundMachineIncident(s)'
  BY <1>9 DEF FoundMachineIncident
<1>13. WrittenMachineIncident(s)'
  <2>1. \A m \in machine_wrote'[s] : ~MachineRefused(m)' /\ m.status # "OPEN"
    BY <1>4, <1>9 DEF MachineRefused, OPEN_STATUSES
  <2> QED
    BY <1>2, <1>4, <1>9, <2>1, OwnMachineIncident DEF WrittenMachineIncident, SessionStep
<1> QED
  BY <1>8, <1>9, <1>10, <1>11, <1>12, <1>13, OtherSessions DEF SessionInv

LEMMA UpdateIncidentKeeps ==
    ASSUME IncidentsInv, NEW s \in Sessions, UpdateIncident(s)
    PROVE  IncidentsInv'
<1>1. TypeOK /\ HeldIncident(s) /\ WrittenIncident(s)
  BY DEF IncidentsInv
<1>2. /\ UNCHANGED <<incidents, machine_incidents, probes, counters>>
      /\ pc[s] = "write" /\ op[s].type = "update"
  BY DEF UpdateIncident, tables
<1>3. /\ found[s] \in Incident /\ found[s].severity \in Nat /\ op[s].status \in Statuses
      /\ wrote[s] = {} /\ machine_wrote[s] = {}
  BY <1>1, <1>2, OperationType, SeverityAssumption
  DEF HeldIncident, Holds, WrittenIncident, Incident, Update
<1> DEFINE updated == [found[s] EXCEPT !.status = op[s].status]
<1>4. /\ updated \in Incident /\ updated.id = found[s].id /\ updated.probe = found[s].probe
      /\ updated.severity = found[s].severity /\ updated.status = op[s].status
  BY <1>3, SavedStatus
<1>5. CASE Finish(s)
  BY <1>2, <1>5, FinishKeeps
<1>6. CASE RollBack(s)
  BY <1>1, <1>2, <1>6, RollBackKeeps DEF TypeOK, counters
<1>7. CASE /\ op[s].status \in IncidentNextStatuses(s, found[s])
           /\ op[s].status \in OPEN_STATUSES => ~Waits(s, updated)
           /\ ~Refused(updated)
           /\ wrote' = [wrote EXCEPT ![s] = {updated}]
           /\ Step(s, "commit")
           /\ UNCHANGED <<op, reads, locks, machine_wrote>>
  <2>1. TypeOK'
    BY <1>1, <1>2, <1>4, <1>7 DEF TypeOK, Keys, Step, reads, locks, counters
  <2>2. /\ SessionStep(s) /\ pc'[s] = "commit" /\ wrote'[s] = {updated}
        /\ found'[s] = found[s] /\ op'[s] = op[s] /\ locked'[s] = locked[s]
        /\ machine_wrote'[s] = {}
    BY <1>1, <1>2, <1>3, <1>7 DEF SessionStep, TypeOK, Step, reads, locks
  <2>3. HeldIncident(s)'
    BY <1>1, <1>2, <1>3, <2>2 DEF HeldIncident, Holds, SessionStep
  <2>4. WrittenIncident(s)'
    <3>1. \A w \in wrote'[s] : ~Refused(w)'
      BY <1>2, <1>7, <2>2 DEF Refused
    <3>2. op[s].status \in OPEN_STATUSES =>
            \A t \in Sessions \ {s} : \A v \in wrote'[t] : v.probe # updated.probe
      BY <1>7, <2>2 DEF Waits, SessionStep
    <3>3. op[s].status \in NextStatuses(found[s].status)
      BY <1>7 DEF IncidentNextStatuses
    <3>4. op[s].status \in CLOSED_STATUSES =>
            OpenMachineIncidents(MachineVisible(s), found[s]) = {}
      BY <1>7 DEF IncidentNextStatuses
    <3>5. MachineVisible(s)' = MachineVisible(s)
      BY <1>2, <1>3, <2>2 DEF MachineVisible
    <3>6. op[s].status \in CLOSED_STATUSES =>
            OpenMachineIncidents(MachineVisible(s)', updated) = {}
      BY <1>4, <3>4, <3>5 DEF OpenMachineIncidents
    <3>7. updated.severity >= found[s].severity
      BY <1>3, <1>4
    <3> HIDE DEF updated
    <3>8. \A w \in wrote'[s] :
            w.status \in CLOSED_STATUSES => OpenMachineIncidents(MachineVisible(s)', w) = {}
      BY <1>4, <2>2, <3>6
    <3> QED
      BY <1>4, <2>2, <3>1, <3>2, <3>3, <3>7, <3>8 DEF WrittenIncident, OpenMachineIncidents
  <2>5. FoundMachineIncident(s)' /\ WrittenMachineIncident(s)'
    BY <2>2 DEF FoundMachineIncident, WrittenMachineIncident
  <2> QED
    BY <2>1, <2>2, <2>3, <2>4, <2>5, OtherSessions DEF SessionInv
<1> QED
  BY <1>5, <1>6, <1>7 DEF UpdateIncident

LEMMA UpdateMachineIncidentKeeps ==
    ASSUME IncidentsInv, NEW s \in Sessions, UpdateMachineIncident(s)
    PROVE  IncidentsInv'
<1>1. TypeOK /\ HeldIncident(s) /\ WrittenIncident(s)
  BY DEF IncidentsInv
<1>2. /\ UNCHANGED <<incidents, machine_incidents, probes, counters>>
      /\ pc[s] = "write" /\ op[s].type = "machine_update"
  BY DEF UpdateMachineIncident, tables
<1>3. op[s].status \in Statuses /\ wrote[s] = {} /\ machine_wrote[s] = {}
  BY <1>1, <1>2, OperationType DEF WrittenIncident, MachineUpdate
<1> DEFINE updated == [machine_found[s] EXCEPT !.status = op[s].status]
<1>4. /\ machine_found[s].status \in Statuses
      /\ updated \in MachineIncident /\ updated.id = machine_found[s].id
      /\ updated.incident = found[s].id /\ updated.status = op[s].status
  BY <1>2, <1>3, OwnMachineIncident, SavedMachineStatus DEF MachineIncident
<1>5. CASE Finish(s)
  BY <1>2, <1>5, FinishKeeps
<1>6. CASE RollBack(s)
  BY <1>1, <1>2, <1>6, RollBackKeeps DEF TypeOK, counters
<1>7. CASE /\ op[s].status \in NextStatuses(machine_found[s].status)
           /\ ~MachineRefused(updated)
           /\ machine_wrote' = [machine_wrote EXCEPT ![s] = {updated}]
           /\ Step(s, "commit")
           /\ UNCHANGED <<op, reads, locks, wrote>>
  <2>1. TypeOK'
    BY <1>1, <1>2, <1>4, <1>7 DEF TypeOK, Keys, Step, reads, locks, counters
  <2>2. /\ SessionStep(s) /\ pc'[s] = "commit" /\ wrote'[s] = {}
        /\ found'[s] = found[s] /\ op'[s] = op[s] /\ locked'[s] = locked[s]
        /\ machine_wrote'[s] = {updated}
    BY <1>1, <1>2, <1>3, <1>7 DEF SessionStep, TypeOK, Step, reads, locks
  <2>3. HeldIncident(s)'
    BY <1>1, <1>2, <1>3, <2>2 DEF HeldIncident, Holds, SessionStep
  <2>4. WrittenIncident(s)' /\ FoundMachineIncident(s)'
    BY <2>2 DEF WrittenIncident, FoundMachineIncident
  <2>5. WrittenMachineIncident(s)'
    <3>1. \A m \in machine_wrote'[s] : ~MachineRefused(m)'
      BY <1>2, <1>7, <2>2 DEF MachineRefused
    <3>2. updated.status # "OPEN"
      BY <1>4, <1>7, NextStatusesType
    <3> HIDE DEF updated
    <3> QED
      BY <1>2, <1>4, <2>2, <3>1, <3>2, OwnMachineIncident
      DEF WrittenMachineIncident, SessionStep
  <2> QED
    BY <2>1, <2>2, <2>3, <2>4, <2>5, OtherSessions DEF SessionInv
<1> QED
  BY <1>5, <1>6, <1>7 DEF UpdateMachineIncident

\* A transaction may be committed at any time once it has written.
LEMMA CommitKeepsTables ==
    ASSUME IncidentsInv, NEW s \in Sessions, Commit(s)
    PROVE  /\ TypeOK' /\ OneOpenIncident' /\ OneOpenMachineIncident' /\ OpenOnOpenIncident'
<1>1. /\ TypeOK /\ HeldIncident(s) /\ WrittenIncident(s) /\ WrittenMachineIncident(s)
      /\ OneOpenIncident /\ OneOpenMachineIncident /\ OpenOnOpenIncident
  BY DEF IncidentsInv
<1>2. /\ incidents' = Overlay(incidents, wrote[s])
      /\ machine_incidents' = Overlay(machine_incidents, machine_wrote[s])
      /\ Finish(s) /\ UNCHANGED <<probes, ops, faults>> /\ Holds(s)
  BY DEF Commit, Visible, MachineVisible, counters, Holds
<1>3. \A i \in incidents' :
        \/ i \in wrote[s]
        \/ i \in incidents /\ \A w \in wrote[s] : w.id # i.id
  BY <1>2 DEF Overlay
<1>4. \A m \in machine_incidents' :
        \/ m \in machine_wrote[s]
        \/ m \in machine_incidents /\ \A w \in machine_wrote[s] : w.id # m.id
  BY <1>2 DEF Overlay
<1>5. ASSUME NEW i, i \in incidents \/ (i = found[s] /\ wrote[s] # {})
      PROVE  i \in incidents' \/ \E w \in wrote[s] : w \in incidents' /\ w.id = i.id
  <2>1. CASE i \in incidents
    BY <1>2, <2>1 DEF Overlay
  <2>2. CASE wrote[s] # {} /\ i = found[s]
    BY <1>1, <1>2, <2>2 DEF WrittenIncident, Overlay
  <2> QED
    BY <1>5, <2>1, <2>2
<1>6. TypeOK'
  <2>1. incidents' \subseteq Incident /\ machine_incidents' \subseteq MachineIncident
    BY <1>1, <1>3, <1>4 DEF TypeOK
  <2>2. \A i, j \in incidents' : i.id = j.id => i = j
    BY <1>1, <1>3 DEF TypeOK, Keys, WrittenIncident
  <2>3. \A m, n \in machine_incidents' : m.id = n.id => m = n
    BY <1>1, <1>4 DEF TypeOK, Keys, WrittenMachineIncident
  <2>4. \A i \in incidents' : i.probe \in probes \cup {NoProbe}
    BY <1>1, <1>2, <1>3 DEF TypeOK, Keys, WrittenIncident, HeldIncident
  <2>5. \A m \in machine_incidents' : \E i \in incidents' : i.id = m.incident
    <3> SUFFICES ASSUME NEW m \in machine_incidents'
                 PROVE  \E i \in incidents' : i.id = m.incident
      OBVIOUS
    <3>1. CASE m \in machine_wrote[s]
      <4>1. m.incident = found[s].id
        BY <1>1, <3>1 DEF WrittenMachineIncident
      <4>2. found[s] \in incidents \/ wrote[s] # {}
        BY <1>1, <1>2 DEF HeldIncident
      <4> QED
        BY <1>5, <4>1, <4>2
    <3>2. CASE m \in machine_incidents
      <4>1. PICK i \in incidents : i.id = m.incident
        BY <1>1, <3>2 DEF TypeOK, Keys
      <4> QED
        BY <1>5, <4>1
    <3> QED
      BY <1>4, <3>1, <3>2
  <2> QED
    BY <1>1, <1>2, <2>1, <2>2, <2>3, <2>4, <2>5 DEF TypeOK, Keys, Finish, Step, Release
<1>7. OneOpenIncident'
  <2> SUFFICES ASSUME NEW i \in incidents', NEW j \in incidents',
                      i.probe = j.probe, i.probe # NoProbe,
                      i.status \in OPEN_STATUSES, j.status \in OPEN_STATUSES
               PROVE  i = j
    BY DEF OneOpenIncident
  <2>1. CASE i \in wrote[s] /\ j \in wrote[s]
    BY <1>1, <2>1 DEF WrittenIncident
  <2>2. CASE i \in wrote[s] /\ j \in incidents /\ j.id # i.id
    BY <1>1, <2>2 DEF WrittenIncident, Refused
  <2>3. CASE j \in wrote[s] /\ i \in incidents /\ j.id # i.id
    BY <1>1, <2>3 DEF WrittenIncident, Refused
  <2>4. CASE i \in incidents /\ j \in incidents
    BY <1>1, <2>4 DEF OneOpenIncident
  <2> QED
    BY <1>3, <2>1, <2>2, <2>3, <2>4
<1>8. OneOpenMachineIncident'
  <2> SUFFICES ASSUME NEW m \in machine_incidents', NEW n \in machine_incidents',
                      m.incident = n.incident, m.serial = n.serial,
                      m.status \in OPEN_STATUSES, n.status \in OPEN_STATUSES
               PROVE  m = n
    BY DEF OneOpenMachineIncident
  <2>1. CASE m \in machine_wrote[s] /\ n \in machine_wrote[s]
    BY <1>1, <2>1 DEF WrittenMachineIncident
  <2>2. CASE m \in machine_wrote[s] /\ n \in machine_incidents /\ n.id # m.id
    BY <1>1, <2>2 DEF WrittenMachineIncident, MachineRefused
  <2>3. CASE n \in machine_wrote[s] /\ m \in machine_incidents /\ n.id # m.id
    BY <1>1, <2>3 DEF WrittenMachineIncident, MachineRefused
  <2>4. CASE m \in machine_incidents /\ n \in machine_incidents
    BY <1>1, <2>4 DEF OneOpenMachineIncident
  <2> QED
    BY <1>4, <2>1, <2>2, <2>3, <2>4
<1>9. OpenOnOpenIncident'
  <2> SUFFICES ASSUME NEW m \in machine_incidents', m.status = "OPEN"
               PROVE  \E i \in incidents' : i.id = m.incident /\ i.status \in OPEN_STATUSES
    BY DEF OpenOnOpenIncident
  <2>1. CASE m \in machine_wrote[s]
    <3>1. /\ m.incident = found[s].id /\ found[s].status \in OPEN_STATUSES
          /\ \A w \in wrote[s] : w.status = found[s].status
      BY <1>1, <2>1 DEF WrittenMachineIncident
    <3>2. found[s] \in incidents \/ wrote[s] # {}
      BY <1>1, <1>2 DEF HeldIncident
    <3> QED
      BY <1>5, <3>1, <3>2
  <2>2. CASE m \in machine_incidents /\ \A w \in machine_wrote[s] : w.id # m.id
    <3>1. PICK i \in incidents : i.id = m.incident /\ i.status \in OPEN_STATUSES
      BY <1>1, <2>2 DEF OpenOnOpenIncident
    <3>2. CASE i \in incidents'
      BY <3>1, <3>2
    <3>3. ASSUME NEW w \in wrote[s], w \in incidents', w.id = i.id
          PROVE  w.status \in OPEN_STATUSES
      <4>1. m \in MachineVisible(s)
        BY <2>2 DEF MachineVisible, Overlay
      <4>2. m \in OpenMachineIncidents(MachineVisible(s), w)
        BY <2>2, <3>1, <3>3, <4>1, OpenOrClosed DEF OpenMachineIncidents
      <4>3. w.status \notin CLOSED_STATUSES
        BY <1>1, <4>2 DEF WrittenIncident
      <4>4. w.status \in Statuses
        BY <1>1 DEF TypeOK, Incident
      <4> QED
        BY <4>3, <4>4, OpenOrClosed
    <3> QED
      BY <1>5, <3>1, <3>2, <3>3
  <2> QED
    BY <1>4, <2>1, <2>2
<1> QED
  BY <1>6, <1>7, <1>8, <1>9

\* What another session has found and written is as good after the commit.
LEMMA CommitKeepsOthers ==
    ASSUME IncidentsInv, NEW s \in Sessions, Commit(s), NEW t \in Sessions \ {s}
    PROVE  SessionInv(t)'
<1>1. /\ TypeOK
      /\ HeldIncident(s) /\ WrittenIncident(s) /\ WrittenMachineIncident(s)
      /\ HeldIncident(t) /\ WrittenIncident(t)
      /\ FoundMachineIncident(t) /\ WrittenMachineIncident(t)
  BY DEF IncidentsInv
<1>2. /\ incidents' = Overlay(incidents, wrote[s])
      /\ machine_incidents' = Overlay(machine_incidents, machine_wrote[s])
      /\ UNCHANGED <<probes, ops, faults>> /\ Holds(s)
  BY DEF Commit, Visible, MachineVisible, counters, Holds
<1>3. /\ pc'[t] = pc[t] /\ op'[t] = op[t]
      /\ found'[t] = found[t] /\ machine_found'[t] = machine_found[t]
      /\ locked'[t] = locked[t]
      /\ wrote'[t] = wrote[t] /\ machine_wrote'[t] = machine_wrote[t]
  BY <1>1 DEF TypeOK, Commit, Finish, Step, Release
<1>4. \A i \in incidents' : i \in wrote[s] \/ i \in incidents
  BY <1>2 DEF Overlay
<1>5. \A m \in machine_incidents' : m \in machine_wrote[s] \/ m \in machine_incidents
  BY <1>2 DEF Overlay
<1>6. /\ pc'[s] = "idle" /\ wrote'[s] = {} /\ machine_wrote'[s] = {}
      /\ \A u \in Sessions \ {s} :
           /\ pc'[u] = pc[u] /\ found'[u] = found[u]
           /\ wrote'[u] = wrote[u] /\ machine_wrote'[u] = machine_wrote[u]
  BY <1>1 DEF TypeOK, Commit, Finish, Step, Release
<1>7. Holds(t) => /\ found[t].id # found[s].id
                  /\ \A w \in wrote[s] : w.id # found[t].id
                  /\ \A m \in machine_wrote[s] : m.incident # found[t].id
  BY <1>1, <1>2 DEF HeldIncident, WrittenIncident, WrittenMachineIncident
<1>8. (wrote[t] # {} \/ machine_wrote[t] # {}) => Holds(t)
  BY <1>1 DEF HeldIncident
<1>9. HeldIncident(t)'
  <2>1. CASE ~Holds(t)
    BY <1>1, <1>3, <2>1 DEF HeldIncident, Holds
  <2>2. CASE Holds(t) /\ found[t] \in incidents
    <3>1. found[t] \in incidents'
      BY <1>2, <1>7, <2>2 DEF Overlay
    <3> QED
      BY <1>1, <1>2, <1>3, <1>6, <2>2, <3>1 DEF HeldIncident, Holds
  <2>3. CASE Holds(t) /\ found[t] \notin incidents
    <3>1. \A i \in incidents' : i.id # found[t].id
      BY <1>1, <1>4, <1>7, <2>3 DEF HeldIncident
    <3> QED
      BY <1>1, <1>2, <1>3, <1>6, <2>3, <3>1 DEF HeldIncident, Holds
  <2> QED
    BY <2>1, <2>2, <2>3
<1>10. WrittenIncident(t)'
  <2>1. ASSUME NEW w \in wrote[t]
        PROVE  /\ ~Refused(w)'
               /\ w.status \in CLOSED_STATUSES =>
                    OpenMachineIncidents(MachineVisible(t)', w) = {}
    <3>1. Holds(t) /\ w.id = found[t].id /\ ~Refused(w)
      BY <1>1, <1>8 DEF WrittenIncident
    <3>2. ASSUME NEW i \in wrote[s], i.probe = w.probe, i.probe # NoProbe,
                 i.status \in OPEN_STATUSES, w.status \in OPEN_STATUSES
          PROVE  FALSE
      BY <1>1, <3>2 DEF WrittenIncident
    <3>3. ~Refused(w)'
      BY <1>4, <3>1, <3>2 DEF Refused
    <3>4. \A m \in MachineVisible(t)' : m.incident = w.id => m \in MachineVisible(t)
      <4>1. \A m \in machine_wrote[s] : m.incident # w.id
        BY <1>7, <3>1
      <4>2. MachineVisible(t)' = Overlay(machine_incidents', machine_wrote[t])
        BY <1>3 DEF MachineVisible
      <4> QED
        BY <1>5, <4>1, <4>2 DEF MachineVisible, Overlay
    <3>5. w.status \in CLOSED_STATUSES => OpenMachineIncidents(MachineVisible(t), w) = {}
      BY <1>1 DEF WrittenIncident
    <3>6. w.status \in CLOSED_STATUSES => OpenMachineIncidents(MachineVisible(t)', w) = {}
      BY <3>4, <3>5 DEF OpenMachineIncidents
    <3> QED
      BY <3>3, <3>6
  <2>2. \A u \in Sessions \ {t} : \A v \in wrote'[u] : v \in wrote[u]
    BY <1>6
  <2> QED
    BY <1>1, <1>3, <2>1, <2>2 DEF WrittenIncident, OpenMachineIncidents
<1>11. FoundMachineIncident(t)'
  <2>1. ASSUME NEW m \in machine_incidents
        PROVE  \E n \in machine_incidents' : n.id = m.id /\ n.incident = m.incident
    <3>1. CASE m \in machine_incidents'
      BY <3>1
    <3>2. CASE m \notin machine_incidents'
      <4>1. PICK n \in machine_wrote[s] : n.id = m.id
        BY <1>2, <3>2 DEF Overlay
      <4>2. n \in machine_incidents' /\ n.incident = m.incident
        BY <1>1, <1>2, <4>1 DEF Overlay, WrittenMachineIncident
      <4> QED
        BY <4>1, <4>2
    <3> QED
      BY <3>1, <3>2
  <2> QED
    BY <1>1, <1>3, <2>1 DEF FoundMachineIncident
<1>12. WrittenMachineIncident(t)'
  <2>1. ASSUME NEW m \in machine_wrote[t]
        PROVE  /\ ~MachineRefused(m)'
               /\ \A n \in machine_incidents' : n.id = m.id => n.incident = m.incident
    <3>1. Holds(t) /\ m.incident = found[t].id /\ ~MachineRefused(m)
      BY <1>1, <1>8 DEF WrittenMachineIncident
    <3>2. ~MachineRefused(m)'
      <4>1. \A n \in machine_wrote[s] : n.incident # m.incident
        BY <1>7, <3>1
      <4> QED
        BY <1>5, <3>1, <4>1 DEF MachineRefused
    <3>3. \A n \in machine_wrote[s] : n.id # m.id
      BY <1>1 DEF WrittenMachineIncident
    <3> QED
      BY <1>1, <1>5, <3>2, <3>3 DEF WrittenMachineIncident
  <2>2. \A u \in Sessions \ {t} : \A n \in machine_wrote'[u] : n \in machine_wrote[u]
    BY <1>6
  <2> QED
    BY <1>1, <1>3, <2>1, <2>2 DEF WrittenMachineIncident
<1> QED
  BY <1>9, <1>10, <1>11, <1>12 DEF SessionInv

LEMMA CommitKeeps ==
    ASSUME IncidentsInv, NEW s \in Sessions, Commit(s)
    PROVE  IncidentsInv'
<1>1. TypeOK' /\ OneOpenIncident' /\ OneOpenMachineIncident' /\ OpenOnOpenIncident'
  BY CommitKeepsTables
<1>2. /\ pc'[s] = "idle" /\ wrote'[s] = {} /\ machine_wrote'[s] = {} /\ locked'[s] = {}
  BY DEF IncidentsInv, TypeOK, Commit, Finish, Step, Release
<1>3. SessionInv(s)'
  BY <1>2 DEF SessionInv, HeldIncident, Holds, WrittenIncident, FoundMachineIncident,
              WrittenMachineIncident
<1>4. \A t \in Sessions \ {s} : SessionInv(t)'
  BY CommitKeepsOthers
<1> QED
  BY <1>1, <1>3, <1>4 DEF IncidentsInv, SessionInv

\* The incidents of the probe lose it, the others are left alone, and so is
\* what the sessions work on.
LEMMA DeleteProbeKeeps ==
    ASSUME IncidentsInv, NEW p \in Probes, DeleteProbe(p)
    PROVE  IncidentsInv'
<1>1. /\ TypeOK /\ OneOpenIncident /\ OneOpenMachineIncident /\ OpenOnOpenIncident
      /\ \A s \in Sessions : SessionInv(s)
  BY DEF IncidentsInv, SessionInv
<1>2. /\ probes' = probes \ {p}
      /\ UNCHANGED <<machine_incidents, op, pc, found, machine_found, locked, machine_locked,
                     wrote, machine_wrote, ops, faults>>
      /\ \A s \in Sessions :
           /\ \A w \in wrote[s] : w.probe # p
           /\ \A i \in incidents : i.probe = p => i.id \notin locked[s]
  BY DEF DeleteProbe, reads, locks, writes, counters
<1> DEFINE Without(i) == IF i.probe = p THEN [i EXCEPT !.probe = NoProbe] ELSE i
<1>3. ASSUME NEW j \in incidents'
      PROVE  \E i \in incidents :
                /\ j = Without(i)
                /\ j \in Incident /\ j.id = i.id /\ j.status = i.status
                /\ j.probe = NoProbe \/ (j = i /\ i.probe # p)
  <2>1. CASE j \in {i \in incidents : i.probe # p}
    BY <1>1, <2>1 DEF TypeOK
  <2>2. CASE j \in {[i EXCEPT !.probe = NoProbe] : i \in {i \in incidents : i.probe = p}}
    <3>1. PICK i \in incidents : i.probe = p /\ j = [i EXCEPT !.probe = NoProbe]
      BY <2>2
    <3>2. i \in Incident
      BY <1>1 DEF TypeOK
    <3> QED
      BY <3>1, <3>2, SavedProbe
  <2> QED
    BY <2>1, <2>2 DEF DeleteProbe
<1>4. ASSUME NEW i \in incidents
      PROVE  /\ i.probe # p => i \in incidents'
             /\ \E j \in incidents' : j.id = i.id /\ j.status = i.status
  <2>1. CASE i.probe # p
    BY <2>1 DEF DeleteProbe
  <2>2. CASE i.probe = p
    <3>1. [i EXCEPT !.probe = NoProbe] \in incidents'
      BY <2>2 DEF DeleteProbe
    <3>2. i \in Incident
      BY <1>1 DEF TypeOK
    <3> QED
      BY <2>2, <3>1, <3>2, SavedProbe
  <2> QED
    BY <2>1, <2>2
<1>5. TypeOK'
  <2>1. incidents' \subseteq Incident
    BY <1>3
  <2>2. \A i, j \in incidents' : i.id = j.id => i = j
    <3> SUFFICES ASSUME NEW i \in incidents', NEW j \in incidents', i.id = j.id PROVE i = j
      OBVIOUS
    <3>1. PICK k \in incidents : k.id = i.id /\ i = Without(k)
      BY <1>3
    <3>2. PICK l \in incidents : l.id = j.id /\ j = Without(l)
      BY <1>3
    <3>3. k = l
      BY <1>1, <3>1, <3>2 DEF TypeOK, Keys
    <3> QED
      BY <3>1, <3>2, <3>3
  <2>3. \A i \in incidents' : i.probe \in probes' \cup {NoProbe}
    BY <1>1, <1>2, <1>3 DEF TypeOK, Keys
  <2>4. \A m \in machine_incidents : \E i \in incidents' : i.id = m.incident
    BY <1>1, <1>4 DEF TypeOK, Keys
  <2> QED
    BY <1>1, <1>2, <2>1, <2>2, <2>3, <2>4 DEF TypeOK, Keys
<1>6. OneOpenIncident'
  BY <1>1, <1>3 DEF OneOpenIncident
<1>7. OneOpenMachineIncident' /\ OpenOnOpenIncident'
  BY <1>1, <1>2, <1>4 DEF OneOpenMachineIncident, OpenOnOpenIncident
<1>8. ASSUME NEW s \in Sessions PROVE SessionInv(s)'
  <2>1. SessionInv(s)
    BY <1>1
  <2>2. HeldIncident(s)'
    <3>1. CASE ~Holds(s)
      BY <1>2, <2>1, <3>1 DEF SessionInv, HeldIncident, Holds
    <3>2. CASE Holds(s) /\ found[s] \in incidents
      <4>1. found[s].id \in locked[s]
        BY <2>1, <3>2 DEF SessionInv, HeldIncident
      <4>2. found[s] \in incidents'
        BY <1>2, <1>4, <3>2, <4>1
      <4> QED
        BY <1>2, <2>1, <3>2, <4>1, <4>2 DEF SessionInv, HeldIncident, Holds
    <3>3. CASE Holds(s) /\ found[s] \notin incidents
      <4>1. found[s].probe # p
        BY <1>2, <2>1, <3>3 DEF SessionInv, HeldIncident, WrittenIncident
      <4>2. \A j \in incidents' : j.id # found[s].id
        BY <1>3, <2>1, <3>3 DEF SessionInv, HeldIncident
      <4> QED
        BY <1>2, <2>1, <3>3, <4>1, <4>2 DEF SessionInv, HeldIncident, Holds
    <3> QED
      BY <3>1, <3>2, <3>3
  <2>3. \A w \in wrote[s] : ~Refused(w)'
    BY <1>3, <2>1 DEF SessionInv, WrittenIncident, Refused
  <2>4. WrittenIncident(s)'
    BY <1>2, <2>1, <2>3 DEF SessionInv, WrittenIncident, MachineVisible, OpenMachineIncidents
  <2>5. FoundMachineIncident(s)' /\ WrittenMachineIncident(s)'
    BY <1>2, <2>1 DEF SessionInv, FoundMachineIncident, WrittenMachineIncident, MachineRefused
  <2> QED
    BY <2>2, <2>4, <2>5 DEF SessionInv
<1> QED
  BY <1>5, <1>6, <1>7, <1>8 DEF IncidentsInv, SessionInv

-----------------------------------------------------------------------------
(* The theorems.                                                           *)

LEMMA InitInv == Init => IncidentsInv
<1> SUFFICES ASSUME Init PROVE IncidentsInv
  OBVIOUS
<1>1. TypeOK
  BY BoundsAssumption DEF Init, TypeOK, Keys
<1>2. \A s \in Sessions : SessionInv(s)
  BY DEF Init, SessionInv, HeldIncident, Holds, WrittenIncident, FoundMachineIncident,
         WrittenMachineIncident
<1>3. OneOpenIncident /\ OneOpenMachineIncident /\ OpenOnOpenIncident
  BY DEF Init, OneOpenIncident, OneOpenMachineIncident, OpenOnOpenIncident
<1> QED
  BY <1>1, <1>2, <1>3 DEF IncidentsInv, SessionInv

LEMMA NextInv == IncidentsInv /\ [Next]_vars => IncidentsInv'
<1> SUFFICES ASSUME IncidentsInv, [Next]_vars PROVE IncidentsInv'
  OBVIOUS
<1>1. ASSUME NEW s \in Sessions, Statement(s) PROVE IncidentsInv'
  <2>1. CASE SelectIncident(s)
    BY <2>1, SelectIncidentKeeps
  <2>2. CASE SelectMachineIncident(s)
    BY <2>2, SelectMachineIncidentKeeps
  <2>3. CASE LockMachineIncident(s)
    BY <2>3, LockMachineIncidentKeeps
  <2>4. CASE LockIncident(s)
    BY <2>4, LockIncidentKeeps
  <2>5. CASE CreateIncident(s)
    BY <2>5, CreateIncidentKeeps
  <2>6. CASE Detect(s)
    BY <2>6, DetectKeeps
  <2>7. CASE Recover(s)
    BY <2>7, RecoverKeeps
  <2>8. CASE UpdateIncident(s)
    BY <2>8, UpdateIncidentKeeps
  <2>9. CASE UpdateMachineIncident(s)
    BY <2>9, UpdateMachineIncidentKeeps
  <2>10. CASE Commit(s)
    BY <2>10, CommitKeeps
  <2>11. CASE Redeliver(s)
    BY <2>11, RedeliverKeeps
  <2> QED
    BY <1>1, <2>1, <2>2, <2>3, <2>4, <2>5, <2>6, <2>7, <2>8, <2>9, <2>10, <2>11 DEF Statement
<1>2. ASSUME NEW s \in Sessions, NEW o \in Operation, Start(s, o) PROVE IncidentsInv'
  BY <1>2, StartKeeps
<1>3. ASSUME NEW s \in Sessions, Crash(s) PROVE IncidentsInv'
  BY <1>3, CrashKeeps
<1>4. ASSUME NEW p \in Probes, DeleteProbe(p) PROVE IncidentsInv'
  BY <1>4, DeleteProbeKeeps
<1>5. ASSUME UNCHANGED vars PROVE IncidentsInv'
  <2>1. UNCHANGED <<probes, incidents, machine_incidents, op, pc, found, machine_found, locked,
                    machine_locked, wrote, machine_wrote, ops, faults>>
    BY <1>5 DEF vars, tables, reads, locks, writes, counters
  <2>2. TypeOK' /\ OneOpenIncident' /\ OneOpenMachineIncident' /\ OpenOnOpenIncident'
    BY <2>1 DEF IncidentsInv, TypeOK, Keys, OneOpenIncident, OneOpenMachineIncident,
                OpenOnOpenIncident
  <2>3. ASSUME NEW s \in Sessions PROVE SessionInv(s)'
    BY <2>1 DEF IncidentsInv, SessionInv, HeldIncident, Holds, WrittenIncident,
                FoundMachineIncident, WrittenMachineIncident, MachineVisible, Refused,
                MachineRefused
  <2> QED
    BY <2>2, <2>3 DEF IncidentsInv, SessionInv
<1> QED
  BY <1>1, <1>2, <1>3, <1>4, <1>5 DEF Next

\* The inductive invariant: what a session has found is its own, and what it
\* has written may be committed, whatever the others do.
THEOREM IncidentsInvariant == Spec => []IncidentsInv
BY InitInv, NextInv, PTL DEF Spec

\* The keys, and the types of the rows (update_or_create_open_incident, ...).
THEOREM IncidentsTypeCorrect == Spec => []TypeOK
<1>1. IncidentsInv => TypeOK
  BY DEF IncidentsInv
<1> QED
  BY <1>1, IncidentsInvariant, PTL

\* A probe has one open incident, whatever the workers and the users do
\* at the same time.
THEOREM OneOpen == Spec => []OneOpenIncident
<1>1. IncidentsInv => OneOpenIncident
  BY DEF IncidentsInv
<1> QED
  BY <1>1, IncidentsInvariant, PTL

\* An open machine incident nobody has touched is on an open incident: the
\* error that update_or_create_open_machine_incident logs cannot happen.
THEOREM OpenOnOpen == Spec => []OpenOnOpenIncident
<1>1. IncidentsInv => OpenOnOpenIncident
  BY DEF IncidentsInv
<1> QED
  BY <1>1, IncidentsInvariant, PTL

\* There is at most one machine incident to close when a machine recovers: the
\* get() of update_or_create_open_machine_incident finds one row.
THEOREM OneFound == Spec => []OneToClose
<1>1. IncidentsInv => OneToClose
  <2> SUFFICES ASSUME IncidentsInv,
                      NEW m \in machine_incidents, NEW n \in machine_incidents,
                      NEW i \in incidents, NEW j \in incidents,
                      m.status = "OPEN", n.status = "OPEN", m.serial = n.serial,
                      i.id = m.incident, j.id = n.incident,
                      i.probe = j.probe, i.probe # NoProbe
               PROVE  m = n
    BY DEF OneToClose
  <2>1. i.status \in OPEN_STATUSES /\ j.status \in OPEN_STATUSES
    BY DEF IncidentsInv, OpenOnOpenIncident, TypeOK, Keys
  <2>2. i = j
    BY <2>1 DEF IncidentsInv, OneOpenIncident
  <2> QED
    BY <2>2, OpenOrClosed DEF IncidentsInv, OneOpenMachineIncident
<1> QED
  BY <1>1, IncidentsInvariant, PTL

\* A step that changes an incident is a commit of a session that has it, or the
\* deletion of its probe.
LEMMA ChangedIncident ==
    ASSUME IncidentsInv, [Next]_vars,
           NEW i \in incidents, NEW j \in incidents', i.id = j.id
    PROVE  \/ j.status = i.status /\ j.severity = i.severity
           \/ \E s \in Sessions : Commit(s) /\ i = found[s] /\ j \in wrote[s]
<1>1. TypeOK /\ \A s \in Sessions : HeldIncident(s) /\ WrittenIncident(s)
  BY DEF IncidentsInv
<1>2. CASE incidents' = incidents
  BY <1>1, <1>2 DEF TypeOK, Keys
<1>3. ASSUME NEW s \in Sessions, Commit(s)
      PROVE  j = i \/ (i = found[s] /\ j \in wrote[s])
  <2>1. j \in wrote[s] \/ j \in incidents
    BY <1>3 DEF Commit, Visible, Overlay
  <2>2. CASE j \in incidents
    BY <1>1, <2>2 DEF TypeOK, Keys
  <2>3. CASE j \in wrote[s]
    <3>1. found[s].id = i.id /\ Holds(s)
      BY <1>1, <1>3, <2>3 DEF WrittenIncident, Commit, Holds
    <3>2. found[s] \in incidents
      BY <1>1, <3>1 DEF HeldIncident
    <3> QED
      BY <1>1, <2>3, <3>1, <3>2 DEF TypeOK, Keys
  <2> QED
    BY <2>1, <2>2, <2>3
<1>4. ASSUME NEW p \in Probes, DeleteProbe(p)
      PROVE  j.status = i.status /\ j.severity = i.severity
  <2>1. CASE j \in incidents
    BY <1>1, <2>1 DEF TypeOK, Keys
  <2>2. ASSUME NEW k \in incidents, j = [k EXCEPT !.probe = NoProbe]
        PROVE  j.status = i.status /\ j.severity = i.severity
    <3>1. k \in Incident
      BY <1>1 DEF TypeOK
    <3>2. j.id = k.id /\ j.status = k.status /\ j.severity = k.severity
      BY <2>2, <3>1, SavedProbe
    <3> QED
      BY <1>1, <3>2 DEF TypeOK, Keys
  <2> QED
    BY <1>4, <2>1, <2>2 DEF DeleteProbe
<1> QED
  BY <1>2, <1>3, <1>4 DEF Next, Statement, Start, Crash, SelectIncident,
     SelectMachineIncident, LockMachineIncident, LockIncident, CreateIncident, Detect,
     Recover, UpdateIncident, UpdateMachineIncident, Redeliver, vars, tables

\* An incident is closed only when none of its machine incidents is open:
\* nobody adds one between the check (the count of Incident.get_next_statuses
\* and of update_or_create_open_machine_incident) and the commit.
THEOREM ClosedSafely == Spec => ClosedWithMachineIncidents
<1> DEFINE ClosedStep ==
             \A i \in incidents, j \in incidents' :
                /\ i.id = j.id
                /\ i.status \in OPEN_STATUSES
                /\ j.status \in CLOSED_STATUSES
                => OpenMachineIncidents(machine_incidents', j) = {}
<1>1. IncidentsInv /\ [Next]_vars => ClosedStep
  <2> SUFFICES ASSUME IncidentsInv, [Next]_vars,
                      NEW i \in incidents, NEW j \in incidents',
                      i.id = j.id, i.status \in OPEN_STATUSES, j.status \in CLOSED_STATUSES
               PROVE  OpenMachineIncidents(machine_incidents', j) = {}
    OBVIOUS
  <2>1. j.status # i.status
    BY DEF OPEN_STATUSES, CLOSED_STATUSES
  <2>2. PICK s \in Sessions : Commit(s) /\ i = found[s] /\ j \in wrote[s]
    BY <2>1, ChangedIncident
  <2>3. OpenMachineIncidents(MachineVisible(s), j) = {}
    BY <2>2 DEF IncidentsInv, WrittenIncident
  <2> QED
    BY <2>2, <2>3 DEF Commit, OpenMachineIncidents
<1> QED
  BY <1>1, IncidentsInvariant, PTL DEF Spec, ClosedWithMachineIncidents

\* No update is lost: a row is replaced by one that was computed from it, with
\* a next status, or a higher severity (incident.save() writes all columns).
THEOREM NoUpdateLost == Spec => NoLostUpdate
<1> DEFINE SavedStep ==
             \A i \in incidents, j \in incidents' :
                i.id = j.id => /\ j.severity >= i.severity
                               /\ j.status = i.status \/ j.status \in NextStatuses(i.status)
<1>1. IncidentsInv /\ [Next]_vars => SavedStep
  <2> SUFFICES ASSUME IncidentsInv, [Next]_vars,
                      NEW i \in incidents, NEW j \in incidents', i.id = j.id
               PROVE  /\ j.severity >= i.severity
                      /\ j.status = i.status \/ j.status \in NextStatuses(i.status)
    OBVIOUS
  <2>1. CASE j.status = i.status /\ j.severity = i.severity
    <3>1. i.severity \in Nat
      BY SeverityAssumption DEF IncidentsInv, TypeOK, Incident
    <3> QED
      BY <2>1, <3>1
  <2>2. CASE \E s \in Sessions : Commit(s) /\ i = found[s] /\ j \in wrote[s]
    BY <2>2 DEF IncidentsInv, WrittenIncident
  <2> QED
    BY <2>1, <2>2, ChangedIncident
<1> QED
  BY <1>1, IncidentsInvariant, PTL DEF Spec, NoLostUpdate
=============================================================================
