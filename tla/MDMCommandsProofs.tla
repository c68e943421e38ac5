------------------------- MODULE MDMCommandsProofs -------------------------
(* Proofs about the commands of a device, for any catalog, any number of    *)
(* operations of the administrators and any number of faults.               *)
(*                                                                          *)
(* The inductive invariant is CommandsInv of MDMCommands. Its heart is      *)
(* OneManagement: as long as no outdated row has been saved, a device that  *)
(* has declarations has no command to install or remove a profile. Effects  *)
(* is what the result of a command does to the tables, Known what is then   *)
(* known of the device, Sent the possible answers to it; every other step   *)
(* keeps the rows (RowsKept) or leaves a clean device (CleanStep), but      *)
(* Execute, Decline, DeclarativeSync and StatusReport.                      *)
EXTENDS MDMCommands, FiniteSetTheorems, SequenceTheorems, WellFoundedInduction, TLAPS

-----------------------------------------------------------------------------
(* A set of natural numbers has a least element, a bounded one a greatest.  *)

LEMMA LeastNatural ==
    ASSUME NEW T \in SUBSET Nat, T # {}
    PROVE  \E x \in T : \A y \in T : x <= y
<1> DEFINE R == OpToRel(<, Nat)
<1>1. IsWellFoundedOn(R, Nat)
  BY NatLessThanWellFounded
<1>2. PICK x \in T : \A y \in T : ~(<<y, x>> \in R)
  <2> HIDE DEF R
  <2> QED  BY <1>1, WFMin
<1>3. \A y \in T : ~(y < x)
  <2> TAKE y \in T
  <2>1. <<y, x>> \in Nat \X Nat
    OBVIOUS
  <2>2. <<y, x>>[1] = y /\ <<y, x>>[2] = x
    OBVIOUS
  <2> QED  BY <1>2, <2>1, <2>2 DEF OpToRel
<1> QED  BY <1>3

LEMMA MinInSet ==
    ASSUME NEW T \in SUBSET Nat, T # {}
    PROVE  Min(T) \in T /\ \A y \in T : Min(T) <= y
<1>1. PICK x \in T : \A y \in T : x <= y
  BY LeastNatural
<1> QED  BY <1>1 DEF Min

LEMMA MaxInSet ==
    ASSUME NEW n \in Nat, NEW T \in SUBSET (0 .. n), T # {}
    PROVE  Max(T) \in T /\ \A y \in T : Max(T) >= y
<1> DEFINE U == {n - y : y \in T}
<1>1. U \in SUBSET Nat /\ U # {}
  <2>1. \A y \in T : n - y \in Nat
    OBVIOUS
  <2> QED  BY <2>1
<1>2. PICK u \in U : \A y \in U : u <= y
  <2> HIDE DEF U
  <2> QED  BY <1>1, LeastNatural
<1>3. PICK x \in T : u = n - x
  OBVIOUS
<1>4. \A y \in T : x >= y
  <2> TAKE y \in T
  <2>1. n - y \in U
    OBVIOUS
  <2>2. u <= n - y
    BY <2>1, <1>2
  <2> QED  BY <2>2, <1>3
<1> QED  BY <1>4 DEF Max

-----------------------------------------------------------------------------
(* The operators of the model.                                              *)

LEMMA SimpleCommand ==
    ASSUME CommandsAssumption, NEW name \in CommandNames \cup {"none"}
    PROVE  /\ Simple(name) \in Commands
           /\ Simple(name).name = name
           /\ Simple(name).artifact = NoArtifact
           /\ ~Simple(name).delayed
BY DEF Simple, Command, Commands, CommandsAssumption

LEMMA VersionCommand ==
    ASSUME CommandsAssumption, NEW name \in CommandNames, NEW a \in Artifacts,
           NEW v \in 0 .. MaxVersion
    PROVE  /\ Command(name, a, v) \in Commands
           /\ Command(name, a, v).name = name
           /\ Command(name, a, v).artifact = a
           /\ Command(name, a, v).version = v
BY DEF Command, Commands, CommandsAssumption

LEMMA CheckCommand ==
    ASSUME CommandsAssumption, NEW c \in Commands, c.artifact \in Artifacts, c.version # 0,
           NEW n \in 0 .. MaxRetries
    PROVE  /\ Check(c, n) \in Commands
           /\ Check(c, n).name = "InstalledApplicationList"
           /\ Check(c, n).artifact = c.artifact
           /\ Check(c, n).version = c.version
           /\ Check(c, n).delayed
BY DEF Check, Command, Commands, CommandsAssumption, CommandNames

LEMMA TargetVersionKnown ==
    ASSUME CommandsAssumption, NEW d \in Tables, NEW a \in Artifacts
    PROVE  /\ TargetVersion(d, a) \in 0 .. MaxVersion
           /\ TargetVersion(d, a) # 0 =>
                \E r \in d.rows : r.artifact = a /\ r.version = TargetVersion(d, a)
<1> DEFINE T == {0} \cup {r.version : r \in {r \in d.rows : r.artifact = a}}
<1>1. MaxVersion \in Nat
  BY DEF CommandsAssumption
<1>2. \A r \in d.rows : r.version \in 0 .. MaxVersion
  BY <1>1 DEF Tables, DeviceArtifact, Versions
<1>3. T \in SUBSET (0 .. MaxVersion) /\ T # {}
  BY <1>1, <1>2
<1>4. Max(T) \in T
  <2> HIDE DEF T
  <2> QED  BY <1>1, <1>3, MaxInSet
<1>5. TargetVersion(d, a) \in T
  BY <1>4 DEF TargetVersion
<1> QED  BY <1>3, <1>5

LEMMA DueKnown ==
    ASSUME NEW d \in Tables, Due(d) # {}
    PROVE  /\ Min(Due(d)) \in 1 .. Len(d.queue)
           /\ Min(Due(d)) \in DOMAIN d.queue
           /\ ~d.queue[Min(Due(d))].delayed
<1>1. d.queue \in Seq(Commands)
  BY DEF Tables
<1>2. Due(d) \in SUBSET Nat
  BY <1>1 DEF Due
<1>3. Min(Due(d)) \in Due(d)
  BY <1>2, MinInSet
<1> QED  BY <1>1, <1>3 DEF Due

LEMMA RemovedAt ==
    ASSUME NEW q \in Seq(Commands), NEW i \in 1 .. Len(q)
    PROVE  /\ RemoveAt(q, i) \in Seq(Commands)
           /\ \A j \in DOMAIN RemoveAt(q, i) : \E k \in DOMAIN q : RemoveAt(q, i)[j] = q[k]
<1> DEFINE a == SubSeq(q, 1, i - 1)
           b == SubSeq(q, i + 1, Len(q))
<1>1. /\ a \in Seq(Commands) /\ Len(a) = i - 1
      /\ \A j \in 1 .. Len(a) : a[j] = q[j]
  BY SubSeqProperties
<1>2. /\ b \in Seq(Commands) /\ Len(b) = Len(q) - i
      /\ \A j \in 1 .. Len(b) : b[j] = q[i + j]
  BY SubSeqProperties
<1>3. RemoveAt(q, i) = a \o b
  BY DEF RemoveAt
<1> HIDE DEF a, b
<1>4. /\ a \o b \in Seq(Commands) /\ Len(a \o b) = Len(a) + Len(b)
      /\ \A j \in 1 .. Len(a) + Len(b) :
           (a \o b)[j] = IF j <= Len(a) THEN a[j] ELSE b[j - Len(a)]
  BY <1>1, <1>2, ConcatProperties
<1>5. ASSUME NEW j \in DOMAIN (a \o b)
      PROVE  \E k \in DOMAIN q : (a \o b)[j] = q[k]
  <2>1. j \in 1 .. Len(a) + Len(b)
    BY <1>4, <1>5
  <2>2. CASE j <= Len(a)
    BY <1>1, <1>4, <2>1, <2>2
  <2>3. CASE j > Len(a)
    <3>1. j - Len(a) \in 1 .. Len(b) /\ i + (j - Len(a)) \in DOMAIN q
      BY <1>1, <1>2, <2>1, <2>3
    <3>2. b[j - Len(a)] = q[i + (j - Len(a))]
      BY <1>2, <3>1
    <3>3. (a \o b)[j] = b[j - Len(a)]
      BY <1>1, <1>4, <2>1, <2>3
    <3> QED  BY <3>1, <3>2, <3>3
  <2> QED  BY <1>1, <2>1, <2>2, <2>3
<1> QED  BY <1>3, <1>4, <1>5

-----------------------------------------------------------------------------
(* What the result of a command changes.                                    *)

RowsShape(rows) ==
    \A r, s \in rows :
        /\ r.artifact = s.artifact
        /\ \/ r.artifact \in Profiles
           \/ r.status # "AwaitingConfirmation" /\ s.status # "AwaitingConfirmation"
        => r = s

RowsFollow(rows) ==
    /\ \A r \in rows : r.artifact \in Profiles =>
          IF Done("InstallProfile") /\ r.artifact = command.artifact
          THEN r.version = command.version
          ELSE r \in db.rows /\ ~(Done("RemoveProfile") /\ r.artifact = command.artifact)
    /\ Done("InstallProfile") => \E r \in rows : r.artifact = command.artifact
    /\ \A r \in db.rows : r.artifact \in Profiles =>
          \/ \E s \in rows : s.artifact = r.artifact
          \/ Done("RemoveProfile") /\ r.artifact = command.artifact

Effects(d) ==
    /\ d \in Tables
    /\ QueueShape(d.queue)
    /\ Declares(d.queue) => Declares(db.queue)
    /\ RowsShape(d.rows)
    /\ RowsFollow(d.rows)
    /\ d.device.blueprint = db.device.blueprint
    /\ d.device.declarative_management
         <=> db.device.declarative_management \/ Done("DeclarativeManagement")

Before ==
    /\ CommandsAssumption
    /\ db \in Tables /\ items \in Items /\ command \in Commands
    /\ QueueShape(db.queue)
    /\ CommandShape(command)
    /\ RowsShape(db.rows)

LEMMA DisjointArtifacts ==
    ASSUME CommandsAssumption
    PROVE  /\ \A a \in Profiles : a \in Artifacts /\ a \notin Apps /\ a # NoArtifact
           /\ \A a \in Apps : a \in Artifacts /\ a \notin Profiles /\ a # NoArtifact
           /\ NoArtifact \notin Profiles /\ NoArtifact \notin Apps
BY DEF CommandsAssumption, Artifacts

LEMMA CommandVersion ==
    ASSUME Before, command.artifact \in Artifacts
    PROVE  command.version \in Versions
BY DEF Before, CommandShape, Commands, Versions, CommandsAssumption

RowStatuses == {"Acknowledged", "AwaitingConfirmation", "Installed"}

LEMMA OnlyRowKnown ==
    ASSUME Before, command.artifact \in Artifacts,
           NEW st \in RowStatuses
    PROVE  /\ OnlyRow(db, command, st) \in SUBSET DeviceArtifact
           /\ RowsShape(OnlyRow(db, command, st))
           /\ \A r \in OnlyRow(db, command, st) :
                \/ r \in db.rows /\ r.artifact # command.artifact
                \/ r.artifact = command.artifact /\ r.version = command.version
           /\ \E r \in OnlyRow(db, command, st) : r.artifact = command.artifact
           /\ \A r \in db.rows : \E s \in OnlyRow(db, command, st) : s.artifact = r.artifact
<1> DEFINE n == Row(command, st)
           R == OnlyRow(db, command, st)
<1>1. n \in DeviceArtifact /\ n.artifact = command.artifact /\ n.version = command.version
  BY CommandVersion DEF Row, DeviceArtifact, RowStatuses
<1>2. db.rows \in SUBSET DeviceArtifact
  BY DEF Before, Tables
<1>3. R = {r \in db.rows : r.artifact # command.artifact} \cup {n}
  BY DEF OnlyRow, RowsOf
<1> HIDE DEF n, R
<1>4. \A r \in R : r = n \/ (r \in db.rows /\ r.artifact # command.artifact)
  BY <1>3
<1>5. RowsShape(R)
  <2> SUFFICES ASSUME NEW r \in R, NEW s \in R, r.artifact = s.artifact,
                      \/ r.artifact \in Profiles
                      \/ r.status # "AwaitingConfirmation" /\ s.status # "AwaitingConfirmation"
               PROVE  r = s
    BY DEF RowsShape
  <2>1. RowsShape(db.rows)
    BY DEF Before
  <2> QED  BY <1>1, <1>4, <2>1 DEF RowsShape
<1>6. R \in SUBSET DeviceArtifact /\ n \in R
  BY <1>1, <1>2, <1>3
<1>7. \A r \in db.rows : \E s \in R : s.artifact = r.artifact
  BY <1>1, <1>3
<1>8. \A r \in R : \/ r \in db.rows /\ r.artifact # command.artifact
                   \/ r.artifact = command.artifact /\ r.version = command.version
  BY <1>1, <1>4
<1> QED  BY <1>1, <1>5, <1>6, <1>7, <1>8 DEF R

LEMMA FewerRows ==
    ASSUME Before, NEW R \in SUBSET db.rows
    PROVE  R \in SUBSET DeviceArtifact /\ RowsShape(R)
BY DEF Before, Tables, RowsShape

\* The installation of an app with bundles has to be confirmed.
LEMMA AddedRowKnown ==
    ASSUME Before, command.artifact \in Apps
    PROVE  /\ AddedRow(db, command, "AwaitingConfirmation") \in SUBSET DeviceArtifact
           /\ RowsShape(AddedRow(db, command, "AwaitingConfirmation"))
           /\ \A r \in AddedRow(db, command, "AwaitingConfirmation") :
                r \in db.rows \/ r.artifact = command.artifact
           /\ \A r \in db.rows :
                \E s \in AddedRow(db, command, "AwaitingConfirmation") : s.artifact = r.artifact
<1> DEFINE n == Row(command, "AwaitingConfirmation")
           R == AddedRow(db, command, "AwaitingConfirmation")
<1>0. command.artifact \in Artifacts /\ command.artifact \notin Profiles
  BY DisjointArtifacts DEF Before
<1>1. /\ n \in DeviceArtifact /\ n.artifact = command.artifact /\ n.version = command.version
      /\ n.status = "AwaitingConfirmation"
  BY <1>0, CommandVersion DEF Row, DeviceArtifact
<1>2. db.rows \in SUBSET DeviceArtifact /\ RowsShape(db.rows)
  BY DEF Before, Tables
<1>3. R = {r \in db.rows : r.artifact # command.artifact \/ r.version # command.version}
          \cup {n}
  BY DEF AddedRow
<1> HIDE DEF n, R
<1>4. RowsShape(R)
  <2> SUFFICES ASSUME NEW r \in R, NEW s \in R, r.artifact = s.artifact,
                      \/ r.artifact \in Profiles
                      \/ r.status # "AwaitingConfirmation" /\ s.status # "AwaitingConfirmation"
               PROVE  r = s
    BY DEF RowsShape
  <2>1. r # n /\ s # n
    BY <1>0, <1>1
  <2> QED  BY <1>2, <1>3, <2>1 DEF RowsShape
<1>5. R \in SUBSET DeviceArtifact
  BY <1>1, <1>2, <1>3
<1>6. \A r \in R : r \in db.rows \/ r.artifact = command.artifact
  BY <1>1, <1>3
<1>7. \A r \in db.rows : \E s \in R : s.artifact = r.artifact
  BY <1>1, <1>3
<1> QED  BY <1>4, <1>5, <1>6, <1>7 DEF R

LEMMA CheckQueued ==
    ASSUME Before, command.artifact \in Apps, NEW n \in 0 .. MaxRetries
    PROVE  LET q == Append(db.queue, Check(command, n))
           IN /\ q \in Seq(Commands)
              /\ QueueShape(q)
              /\ Declares(q) => Declares(db.queue)
<1> DEFINE c == Check(command, n)
           q == Append(db.queue, c)
<1>0. command.artifact \in Artifacts /\ command.artifact \notin Profiles
  BY DisjointArtifacts DEF Before
<1>1. /\ c \in Commands /\ c.name = "InstalledApplicationList"
      /\ c.artifact = command.artifact /\ c.version = command.version
  <2>1. command.version # 0 /\ command \in Commands /\ CommandsAssumption
    BY <1>0 DEF Before, CommandShape
  <2> QED  BY <1>0, <2>1, CheckCommand
<1>2. CommandShape(c)
  <2>1. command.version # 0
    BY <1>0 DEF Before, CommandShape
  <2> QED  BY <1>0, <1>1, <2>1 DEF CommandShape
<1>3. db.queue \in Seq(Commands) /\ QueueShape(db.queue)
  BY DEF Before, Tables
<1> HIDE DEF c
<1>4. /\ q \in Seq(Commands) /\ Len(q) = Len(db.queue) + 1
      /\ \A i \in 1 .. Len(db.queue) : q[i] = db.queue[i]
      /\ q[Len(q)] = c
  BY <1>1, <1>3
<1>5. \A i \in DOMAIN q : q[i] = c \/ (i \in DOMAIN db.queue /\ q[i] = db.queue[i])
  BY <1>3, <1>4
<1> HIDE DEF q
<1>6. QueueShape(q)
  BY <1>1, <1>2, <1>3, <1>5 DEF QueueShape
<1>7. Declares(q) => Declares(db.queue)
  BY <1>1, <1>5 DEF Declares
<1> QED  BY <1>4, <1>6, <1>7 DEF q, c

LEMMA RowEffects ==
    ASSUME Before, ~Done("DeclarativeManagement"),
           NEW R \in SUBSET DeviceArtifact, RowsShape(R), RowsFollow(R)
    PROVE  Effects([db EXCEPT !.rows = R])
<1> DEFINE d == [db EXCEPT !.rows = R]
<1>1. d \in Tables /\ d.queue = db.queue /\ d.device = db.device /\ d.rows = R
  BY DEF Before, Tables
<1> HIDE DEF d
<1>2. Effects(d)
  BY <1>1 DEF Effects, Before
<1> QED  BY <1>2 DEF d

LEMMA QueueEffects ==
    ASSUME Before, ~Done("DeclarativeManagement"),
           NEW R \in SUBSET DeviceArtifact, RowsShape(R), RowsFollow(R),
           command.artifact \in Apps, NEW n \in 0 .. MaxRetries
    PROVE  /\ Effects([db EXCEPT !.rows = R, !.queue = Append(@, Check(command, n))])
           /\ RowsFollow(db.rows) =>
                Effects([db EXCEPT !.queue = Append(@, Check(command, n))])
<1> DEFINE q == Append(db.queue, Check(command, n))
           d == [db EXCEPT !.rows = R, !.queue = q]
           e == [db EXCEPT !.queue = q]
<1>1. q \in Seq(Commands) /\ QueueShape(q) /\ (Declares(q) => Declares(db.queue))
  BY CheckQueued
<1> HIDE DEF q
<1>2. d \in Tables /\ d.queue = q /\ d.device = db.device /\ d.rows = R
  BY <1>1 DEF Before, Tables
<1>3. e \in Tables /\ e.queue = q /\ e.device = db.device /\ e.rows = db.rows
  BY <1>1 DEF Before, Tables
<1> HIDE DEF d, e
<1>4. Effects(d)
  BY <1>1, <1>2 DEF Effects
<1>5. RowsFollow(db.rows) => Effects(e)
  BY <1>1, <1>3 DEF Effects, Before
<1> QED  BY <1>4, <1>5 DEF d, e, q

\* Nothing changes in the rows of the profiles.
LEMMA OtherRows ==
    ASSUME Before, ~Done("InstallProfile"), ~Done("RemoveProfile"),
           NEW R, \A r \in R : r.artifact \in Profiles => r \in db.rows,
           \A r \in db.rows : r.artifact \in Profiles => \E s \in R : s.artifact = r.artifact
    PROVE  RowsFollow(R)
BY DEF RowsFollow

LEMMA NoEffect ==
    ASSUME Before, ~Done("InstallProfile"), ~Done("RemoveProfile"),
           ~Done("DeclarativeManagement")
    PROVE  Effects(db) /\ RowsFollow(db.rows)
<1>1. RowsFollow(db.rows)
  BY OtherRows
<1>2. db.rows \in SUBSET DeviceArtifact
  BY DEF Before, Tables
<1> QED  BY <1>1, <1>2 DEF Effects, Before

LEMMA ProfileStatusKnown ==
    ASSUME Before, NEW p \in Artifacts
    PROVE  ProfileStatus(db, p) \in RowStatuses
<1>1. CASE RowsOf(db, p) = {}
  BY <1>1 DEF ProfileStatus, RowStatuses
<1>2. CASE RowsOf(db, p) # {}
  <2>1. RowsOf(db, p) \in SUBSET DeviceArtifact
    BY DEF RowsOf, Before, Tables
  <2>2. (CHOOSE r \in RowsOf(db, p) : TRUE) \in RowsOf(db, p)
    BY <1>2
  <2>3. ProfileStatus(db, p) = (CHOOSE r \in RowsOf(db, p) : TRUE).status
    BY <1>2 DEF ProfileStatus
  <2> QED  BY <2>1, <2>2, <2>3 DEF DeviceArtifact, RowStatuses
<1> QED  BY <1>1, <1>2

LEMMA InstallProfileEffects ==
    ASSUME Before, Done("InstallProfile")
    PROVE  Effects(Acknowledged(db, command))
<1> DEFINE R == OnlyRow(db, command, ProfileStatus(db, command.artifact))
<1>1. command.artifact \in Profiles /\ command.artifact \in Artifacts
  BY DisjointArtifacts DEF Before, CommandShape, Done
<1>2. /\ R \in SUBSET DeviceArtifact
      /\ RowsShape(R)
      /\ \A r \in R : \/ r \in db.rows /\ r.artifact # command.artifact
                      \/ r.artifact = command.artifact /\ r.version = command.version
      /\ \E r \in R : r.artifact = command.artifact
      /\ \A r \in db.rows : \E s \in R : s.artifact = r.artifact
  BY <1>1, ProfileStatusKnown, OnlyRowKnown
<1>3. Acknowledged(db, command) = [db EXCEPT !.rows = R]
  BY DEF Acknowledged, Done
<1> HIDE DEF R
<1>4. RowsFollow(R)
  BY <1>1, <1>2 DEF RowsFollow, Done
<1> QED  BY <1>2, <1>3, <1>4, RowEffects DEF Done

LEMMA RemoveProfileEffects ==
    ASSUME Before, Done("RemoveProfile")
    PROVE  Effects(Acknowledged(db, command))
<1> DEFINE R == db.rows \ RowsOf(db, command.artifact)
<1>1. R \in SUBSET db.rows
  OBVIOUS
<1>2. R \in SUBSET DeviceArtifact /\ RowsShape(R)
  BY <1>1, FewerRows
<1>3. Acknowledged(db, command) = [db EXCEPT !.rows = R]
  BY DEF Acknowledged, Done
<1>4. RowsFollow(R)
  BY DEF RowsFollow, Done, RowsOf
<1> HIDE DEF R
<1> QED  BY <1>2, <1>3, <1>4, RowEffects DEF Done

LEMMA InstallAppEffects ==
    ASSUME Before, Done("InstallEnterpriseApplication")
    PROVE  Effects(Acknowledged(db, command))
<1>1. /\ command.artifact \in Apps /\ command.artifact \in Artifacts
      /\ command.artifact \notin Profiles
  BY DisjointArtifacts DEF Before, CommandShape, Done
<1>2. ~Done("InstallProfile") /\ ~Done("RemoveProfile") /\ ~Done("DeclarativeManagement")
  BY DEF Done
<1>3. CASE command.artifact \in Bundled
  <2> DEFINE R == AddedRow(db, command, "AwaitingConfirmation")
  <2>1. /\ R \in SUBSET DeviceArtifact
        /\ RowsShape(R)
        /\ \A r \in R : r \in db.rows \/ r.artifact = command.artifact
        /\ \A r \in db.rows : \E s \in R : s.artifact = r.artifact
    BY <1>1, AddedRowKnown
  <2>2. Acknowledged(db, command)
          = [db EXCEPT !.rows = R, !.queue = Append(@, Check(command, 0))]
    BY <1>3 DEF Acknowledged, Done
  <2> HIDE DEF R
  <2>3. RowsFollow(R)
    BY <1>1, <1>2, <2>1, OtherRows
  <2>4. 0 \in 0 .. MaxRetries
    BY DEF Before, CommandsAssumption
  <2> QED  BY <1>1, <1>2, <2>1, <2>2, <2>3, <2>4, QueueEffects
<1>4. CASE command.artifact \notin Bundled
  <2> DEFINE R == OnlyRow(db, command, "Acknowledged")
  <2>1. /\ R \in SUBSET DeviceArtifact
        /\ RowsShape(R)
        /\ \A r \in R : \/ r \in db.rows /\ r.artifact # command.artifact
                        \/ r.artifact = command.artifact /\ r.version = command.version
        /\ \A r \in db.rows : \E s \in R : s.artifact = r.artifact
    BY <1>1, OnlyRowKnown DEF RowStatuses
  <2>2. Acknowledged(db, command) = [db EXCEPT !.rows = R]
    BY <1>4 DEF Acknowledged, Done
  <2> HIDE DEF R
  <2>3. RowsFollow(R)
    BY <1>1, <1>2, <2>1, OtherRows
  <2> QED  BY <1>2, <2>1, <2>2, <2>3, RowEffects
<1> QED  BY <1>3, <1>4

LEMMA AppListEffects ==
    ASSUME Before, Done("InstalledApplicationList")
    PROVE  Effects(Acknowledged(db, command))
<1>1. /\ command.artifact \in Apps /\ command.artifact \in Artifacts
      /\ command.artifact \notin Profiles
  BY DisjointArtifacts DEF Before, CommandShape, Done
<1>2. ~Done("InstallProfile") /\ ~Done("RemoveProfile") /\ ~Done("DeclarativeManagement")
  BY DEF Done
<1>3. Acknowledged(db, command) = AppListed(db, command)
  BY DEF Acknowledged, Done
<1>4. CASE list \in {"installed", "failed"}
  <2> DEFINE R == OnlyRow(db, command, "Installed")
  <2>1. /\ R \in SUBSET DeviceArtifact
        /\ RowsShape(R)
        /\ \A r \in R : \/ r \in db.rows /\ r.artifact # command.artifact
                        \/ r.artifact = command.artifact /\ r.version = command.version
        /\ \A r \in db.rows : \E s \in R : s.artifact = r.artifact
    BY <1>1, OnlyRowKnown DEF RowStatuses
  <2>2. AppListed(db, command) = [db EXCEPT !.rows = R]
    BY <1>4 DEF AppListed
  <2> HIDE DEF R
  <2>3. RowsFollow(R)
    BY <1>1, <1>2, <2>1, OtherRows
  <2> QED  BY <1>2, <1>3, <2>1, <2>2, <2>3, RowEffects
<1>5. CASE list = "failed_and_installing"
  <2> DEFINE R == NoRow(db, command)
  <2>1. R \in SUBSET db.rows
    BY DEF NoRow
  <2>2. AppListed(db, command) = [db EXCEPT !.rows = R]
    BY <1>5 DEF AppListed
  <2>3. \A r \in db.rows : r.artifact \in Profiles => \E s \in R : s.artifact = r.artifact
    BY <1>1 DEF NoRow
  <2> HIDE DEF R
  <2>4. RowsFollow(R)
    BY <1>2, <2>1, <2>3, OtherRows
  <2>5. R \in SUBSET DeviceArtifact /\ RowsShape(R)
    BY <2>1, FewerRows
  <2> QED  BY <1>2, <1>3, <2>2, <2>4, <2>5, RowEffects
<1>6. CASE list \in {"missing", "installing"} /\ command.retries < MaxRetries
  <2>1. AppListed(db, command) = [db EXCEPT !.queue = Append(@, Check(command, command.retries + 1))]
    BY <1>6 DEF AppListed
  <2>2. command.retries + 1 \in 0 .. MaxRetries
    BY <1>6 DEF Before, Commands, CommandsAssumption
  <2>3. RowsFollow(db.rows)
    BY <1>2, NoEffect
  <2>4. db.rows \in SUBSET DeviceArtifact /\ RowsShape(db.rows)
    BY DEF Before, Tables
  <2> QED  BY <1>1, <1>2, <1>3, <2>1, <2>2, <2>3, <2>4, QueueEffects
<1>7. CASE /\ list \notin {"installed", "failed", "failed_and_installing"}
           /\ ~(list \in {"missing", "installing"} /\ command.retries < MaxRetries)
  <2>1. AppListed(db, command) = db
    BY <1>7 DEF AppListed
  <2> QED  BY <1>2, <1>3, <2>1, NoEffect
<1> QED  BY <1>4, <1>5, <1>6, <1>7

LEMMA DeclarativeEffects ==
    ASSUME Before, Done("DeclarativeManagement")
    PROVE  Effects(Acknowledged(db, command))
<1> DEFINE u == [db.device EXCEPT !.declarative_management = TRUE,
                                  !.declarations_token =
                                     IF db.device.blueprint THEN items.token ELSE @]
           d == [db EXCEPT !.device = u]
<1>1. db.device \in EnrolledDevice /\ items.token \in Nat
  BY DEF Before, Tables, Items
<1>2. u \in EnrolledDevice /\ u.declarative_management /\ u.blueprint = db.device.blueprint
  BY <1>1 DEF EnrolledDevice
<1>3. Acknowledged(db, command) = d
  BY DEF Acknowledged, Done
<1> HIDE DEF u
<1>4. /\ d \in Tables /\ d.queue = db.queue /\ d.device = u /\ d.rows = db.rows
  BY <1>2 DEF Before, Tables
<1> HIDE DEF d
<1>5. RowsFollow(db.rows)
  BY DEF RowsFollow, Done
<1> QED  BY <1>2, <1>3, <1>4, <1>5 DEF Effects, Before

LEMMA SetupEffects ==
    ASSUME Before, Done("DeviceConfigured")
    PROVE  Effects(Acknowledged(db, command))
<1> DEFINE u == [db.device EXCEPT !.awaiting_configuration = FALSE]
           d == [db EXCEPT !.device = u]
<1>1. u \in EnrolledDevice /\ u.blueprint = db.device.blueprint
      /\ u.declarative_management = db.device.declarative_management
  BY DEF EnrolledDevice, Before, Tables
<1>2. Acknowledged(db, command) = d
  BY DEF Acknowledged, Done
<1> HIDE DEF u
<1>3. d \in Tables /\ d.queue = db.queue /\ d.device = u /\ d.rows = db.rows
  BY <1>1 DEF Before, Tables
<1> HIDE DEF d
<1>4. RowsFollow(db.rows) /\ ~Done("DeclarativeManagement")
  BY DEF RowsFollow, Done
<1> QED  BY <1>1, <1>2, <1>3, <1>4 DEF Effects, Before

LEMMA AccountEffects ==
    ASSUME Before, Done("AccountConfiguration")
    PROVE  Effects(Acknowledged(db, command))
<1> DEFINE d == [db EXCEPT !.accounts = TRUE]
<1>1. d \in Tables /\ d.queue = db.queue /\ d.device = db.device /\ d.rows = db.rows
  BY DEF Before, Tables
<1>2. Acknowledged(db, command) = d
  BY DEF Acknowledged, Done
<1> HIDE DEF d
<1>3. RowsFollow(db.rows) /\ ~Done("DeclarativeManagement")
  BY DEF RowsFollow, Done
<1> QED  BY <1>1, <1>2, <1>3 DEF Effects, Before

LEMMA AcknowledgedEffects ==
    ASSUME Before, status = "Acknowledged"
    PROVE  Effects(Acknowledged(db, command))
<1>1. CASE command.name \in {"DeviceInformation", "none"}
  <2>1. Acknowledged(db, command) = db
    BY <1>1 DEF Acknowledged
  <2> QED  BY <1>1, <2>1, NoEffect DEF Done
<1>2. command.name \in CommandNames \cup {"none"}
  BY DEF Before, Commands
<1> QED  BY <1>1, <1>2, InstallProfileEffects, RemoveProfileEffects, InstallAppEffects,
            AppListEffects, DeclarativeEffects, SetupEffects, AccountEffects
         DEF CommandNames, Done

LEMMA RecordedEffects ==
    ASSUME Before
    PROVE  Effects(Recorded(db, command, status))
<1>1. CASE status = "Acknowledged"
  BY <1>1, AcknowledgedEffects DEF Recorded
<1>2. CASE status = "Error" /\ IsOperation(command)
  <2> DEFINE f == [operation |-> Operation(command), artifact |-> command.artifact,
                   version |-> command.version]
             F == db.failed \cup {f}
             d == [db EXCEPT !.failed = F]
  <2>1. command.artifact \in Artifacts
    BY <1>2, DisjointArtifacts DEF Before, CommandShape, IsOperation
  <2>2. f \in Failure
    BY <2>1, CommandVersion DEF Failure, Operation
  <2>3. Recorded(db, command, status) = d
    BY <1>2 DEF Recorded
  <2>4. F \in SUBSET Failure
    BY <2>2 DEF Before, Tables
  <2> HIDE DEF F
  <2>5. d \in Tables /\ d.queue = db.queue /\ d.device = db.device /\ d.rows = db.rows
    BY <2>4 DEF Before, Tables
  <2> HIDE DEF d
  <2>6. RowsFollow(db.rows) /\ ~Done("DeclarativeManagement")
    BY <1>2 DEF RowsFollow, Done
  <2> QED  BY <2>3, <2>5, <2>6 DEF Effects, Before
<1>3. CASE status # "Acknowledged" /\ ~(status = "Error" /\ IsOperation(command))
  <2>1. Recorded(db, command, status) = db
    BY <1>3 DEF Recorded
  <2> QED  BY <1>3, <2>1, NoEffect DEF Done
<1> QED  BY <1>1, <1>2, <1>3

-----------------------------------------------------------------------------
(* What the server knows once the request of the device is processed.       *)

Known(d) ==
    /\ d \in Tables
    /\ QueueShape(d.queue)
    /\ Declares(d.queue) => Declares(db.queue)
    /\ RowsShape(d.rows)
    /\ d.device.declarative_management
         <=> db.device.declarative_management \/ (live /\ Done("DeclarativeManagement"))
    /\ \A r \in d.rows : r.artifact \in Profiles =>
          \/ MixedManagement
          \/ \E q \in profiles : q.artifact = r.artifact /\ q.version = r.version
          \/ ddm \in {"outdated", "changed"}
    /\ \A q \in profiles :
          \/ MixedManagement
          \/ \E r \in d.rows : r.artifact = q.artifact
          \/ ddm \in {"outdated", "changed"}

LEMMA InvBefore ==
    ASSUME CommandsAssumption, CommandsInv
    PROVE  Before
BY DEF Before, CommandsInv, TypeOK, AgentShape, RowsShape, OneRowPerProfile, OneConfirmedApp

LEMMA ProcessedKnown ==
    ASSUME CommandsAssumption, CommandsInv, phase = "enrolled"
    PROVE  Known(Processed)
<1>0. Before
  BY InvBefore
<1>1. /\ BelievedInstalled /\ InstalledKnown /\ OneManagement /\ profiles \subseteq Profile
      /\ CommandShape(command)
  BY DEF CommandsInv, TypeOK, AgentShape
<1>2. CASE ~live
  <2>1. Processed = db
    BY <1>2 DEF Processed
  <2> QED  BY <1>0, <1>1, <1>2, <2>1
        DEF Known, Before, BelievedInstalled, InstalledKnown, ToBeReported
<1>3. CASE live
  <2> DEFINE d == Processed
  <2>1. Effects(d)
    BY <1>0, <1>3, RecordedEffects DEF Processed
  <2> HIDE DEF d
  <2>2. ASSUME NEW r \in d.rows, r.artifact \in Profiles, ~MixedManagement
        PROVE  \/ \E q \in profiles : q.artifact = r.artifact /\ q.version = r.version
               \/ ddm \in {"outdated", "changed"}
    <3>1. CASE Done("InstallProfile") /\ r.artifact = command.artifact
      BY <1>1, <1>3, <2>1, <2>2, <3>1 DEF Effects, RowsFollow, OneManagement
    <3>2. CASE ~(Done("InstallProfile") /\ r.artifact = command.artifact)
      <4>1. r \in db.rows /\ ~(Done("RemoveProfile") /\ r.artifact = command.artifact)
        BY <2>1, <2>2, <3>2 DEF Effects, RowsFollow
      <4>2. ~(status = "Acknowledged" /\ r.artifact = command.artifact)
        BY <1>1, <2>2, <3>2, <4>1 DEF Done, CommandShape
      <4> QED  BY <1>1, <2>2, <4>1, <4>2, phase = "enrolled" DEF BelievedInstalled, ToBeReported
    <3> QED  BY <3>1, <3>2
  <2>3. ASSUME NEW q \in profiles, ~MixedManagement
        PROVE  \/ \E r \in d.rows : r.artifact = q.artifact
               \/ ddm \in {"outdated", "changed"}
    <3>0. q.artifact \in Profiles
      BY <1>1, <2>3 DEF Profile
    <3>1. CASE status = "Acknowledged" /\ command.artifact = q.artifact
      <4>1. Done("InstallProfile") \/ Done("RemoveProfile")
        BY <1>1, <3>0, <3>1 DEF Done, CommandShape
      <4>2. ~Done("RemoveProfile")
        BY <1>1, <1>3, <2>3, <3>1 DEF OneManagement
      <4> QED  BY <2>1, <3>1, <4>1, <4>2 DEF Effects, RowsFollow
    <3>2. CASE ~(status = "Acknowledged" /\ command.artifact = q.artifact)
      <4>1. \/ \E r \in db.rows : r.artifact = q.artifact
            \/ ddm \in {"outdated", "changed"}
        BY <1>1, <2>3, <3>2 DEF InstalledKnown, ToBeReported
      <4> QED  BY <2>1, <3>0, <3>2, <4>1 DEF Effects, RowsFollow, Done
    <3> QED  BY <3>1, <3>2
  <2>4. Known(d)
    BY <1>3, <2>1, <2>2, <2>3 DEF Known, Effects
  <2> QED  BY <2>4 DEF d
<1> QED  BY <1>2, <1>3

Sent(d, c) ==
    /\ c \in Commands
    /\ CommandShape(c)
    /\ c.name \in {"InstallProfile", "RemoveProfile"} =>
          ~d.device.declarative_management /\ ~Declares(d.queue)
    /\ c.name = "DeclarativeManagement" =>
          Declares(d.queue) \/ d.device.declarative_management
    /\ c.name = "DeviceConfigured" =>
          /\ Due(d) = {}
          /\ ~AccountsMissing(d) /\ d.device.awaiting_configuration
          /\ ~d.device.declarative_management => NextToInstall(d) = {}

LEMMA SimpleSent ==
    ASSUME CommandsAssumption, NEW name \in CommandNames \cup {"none"},
           name \notin {"InstallProfile", "RemoveProfile", "InstallEnterpriseApplication",
                        "InstalledApplicationList"}
    PROVE  CommandShape(Simple(name))
<1>1. /\ Simple(name).name = name /\ Simple(name).artifact = NoArtifact
  BY SimpleCommand
<1>2. NoArtifact \notin Artifacts /\ NoArtifact \notin Profiles /\ NoArtifact \notin Apps
  BY DisjointArtifacts DEF CommandsAssumption
<1>3. name = "none" => Simple(name) = NoCommand
  BY DEF NoCommand
<1> HIDE DEF NoCommand
<1> QED  BY <1>1, <1>2, <1>3 DEF CommandShape

LEMMA InstallationSent ==
    ASSUME CommandsAssumption, latest \in [Artifacts -> Versions], NEW a \in Artifacts
    PROVE  /\ Installation(a) \in Commands
           /\ CommandShape(Installation(a))
           /\ Installation(a).name \in {"InstallProfile", "InstallEnterpriseApplication"}
<1> DEFINE name == IF a \in Profiles THEN "InstallProfile" ELSE "InstallEnterpriseApplication"
           c == Command(name, a, latest[a])
<1>1. latest[a] \in 0 .. MaxVersion /\ latest[a] # 0 /\ name \in CommandNames
  BY DEF Versions, CommandNames, CommandsAssumption
<1>2. /\ c \in Commands /\ c.name = name /\ c.artifact = a /\ c.version = latest[a]
  BY <1>1, VersionCommand
<1>3. Installation(a) = c
  BY DEF Installation
<1>4. /\ a \in Profiles => a \notin Apps
      /\ a \in Profiles \/ a \in Apps
  BY DisjointArtifacts DEF Artifacts
<1> HIDE DEF c
<1> QED  BY <1>1, <1>2, <1>3, <1>4 DEF CommandShape

LEMMA RemovalSent ==
    ASSUME CommandsAssumption, NEW p \in Profiles, NEW v \in Versions
    PROVE  /\ Command("RemoveProfile", p, v) \in Commands
           /\ CommandShape(Command("RemoveProfile", p, v))
           /\ Command("RemoveProfile", p, v).name = "RemoveProfile"
<1> DEFINE c == Command("RemoveProfile", p, v)
<1>1. p \in Artifacts /\ p \notin Apps /\ v \in 0 .. MaxVersion /\ v # 0
  BY DisjointArtifacts DEF Versions, CommandsAssumption
<1>2. c \in Commands /\ c.name = "RemoveProfile" /\ c.artifact = p /\ c.version = v
  BY <1>1, VersionCommand DEF CommandNames
<1> HIDE DEF c
<1>3. c \in Commands /\ CommandShape(c) /\ c.name = "RemoveProfile"
  BY <1>1, <1>2 DEF CommandShape
<1> QED  BY <1>3 DEF c

LEMMA DueCommandSent ==
    ASSUME NEW d, Known(d), Due(d) # {}
    PROVE  Sent(d, d.queue[Min(Due(d))])
<1> DEFINE i == Min(Due(d))
<1>1. i \in DOMAIN d.queue /\ i \in 1 .. Len(d.queue)
  BY DueKnown DEF Known
<1> HIDE DEF i
<1>2. d.queue[i] \in Commands
  BY <1>1 DEF Known, Tables
<1>3. Sent(d, d.queue[i])
  BY <1>1, <1>2 DEF Sent, Known, QueueShape, Declares
<1> QED  BY <1>3 DEF i

LEMMA NextCommandsSent ==
    ASSUME CommandsAssumption, TypeOK, NEW d, Known(d), NEW c \in NextCommands(d)
    PROVE  Sent(d, c)
<1>1. CASE Due(d) # {}
  <2>1. c = d.queue[Min(Due(d))]
    BY <1>1 DEF NextCommands
  <2> QED  BY <1>1, <2>1, DueCommandSent
<1>2. ASSUME NEW name \in {"AccountConfiguration", "DeclarativeManagement",
                           "DeviceConfigured", "none"},
             c = Simple(name),
             name = "DeclarativeManagement" => d.device.declarative_management,
             name = "DeviceConfigured" =>
                /\ Due(d) = {}
                /\ ~AccountsMissing(d) /\ d.device.awaiting_configuration
                /\ ~d.device.declarative_management => NextToInstall(d) = {}
      PROVE  Sent(d, c)
  <2>1. name \in CommandNames \cup {"none"}
    BY <1>2 DEF CommandNames
  <2>2. /\ Simple(name) \in Commands /\ Simple(name).name = name
    BY <2>1, SimpleCommand
  <2>3. CommandShape(Simple(name))
    BY <1>2, <2>1, SimpleSent
  <2> QED  BY <1>2, <2>2, <2>3 DEF Sent
<1>3. CASE Due(d) = {} /\ AccountsMissing(d)
  <2>1. c = Simple("AccountConfiguration")
    BY <1>3 DEF NextCommands
  <2> QED  BY <1>2, <2>1
<1>4. CASE Due(d) = {} /\ ~AccountsMissing(d)
  <2> DEFINE install == IF d.device.declarative_management THEN {} ELSE NextToInstall(d)
             remove == IF d.device.declarative_management THEN {} ELSE NextToRemove(d)
  <2>0. ~Declares(d.queue)
    BY <1>4 DEF Due, Declares, Known, QueueShape
  <2>1. c \in (CASE install # {} -> {Installation(a) : a \in install}
                 [] install = {} /\ remove # {} ->
                      {Command("RemoveProfile", p, TargetVersion(d, p)) : p \in remove}
                 [] install = {} /\ remove = {} /\ Undeclared(d) ->
                      {x \in {Simple("DeclarativeManagement")} : items.token # 0}
                 [] OTHER -> {IF d.device.awaiting_configuration
                              THEN Simple("DeviceConfigured") ELSE NoCommand})
    BY <1>4 DEF NextCommands
  <2>2. CASE install # {}
    <3>1. PICK a \in install : c = Installation(a)
      BY <2>1, <2>2
    <3>2. ~d.device.declarative_management /\ a \in Artifacts
      BY <3>1 DEF NextToInstall
    <3> HIDE DEF install, remove
    <3> QED  BY <2>0, <3>1, <3>2, InstallationSent DEF Sent, TypeOK
  <2>3. CASE install = {} /\ remove # {}
    <3>1. PICK p \in remove : c = Command("RemoveProfile", p, TargetVersion(d, p))
      BY <2>1, <2>3
    <3>2. ~d.device.declarative_management /\ p \in Profiles /\ TargetVersion(d, p) # 0
      BY <3>1 DEF NextToRemove
    <3>3. TargetVersion(d, p) \in Versions
      <4>1. TargetVersion(d, p) \in 0 .. MaxVersion
        BY <3>2, DisjointArtifacts, TargetVersionKnown DEF Known
      <4> QED  BY <3>2, <4>1 DEF Versions, CommandsAssumption
    <3> HIDE DEF install, remove
    <3> QED  BY <2>0, <3>1, <3>2, <3>3, RemovalSent DEF Sent
  <2>4. CASE install = {} /\ remove = {} /\ Undeclared(d)
    <3>1. c = Simple("DeclarativeManagement")
      BY <2>1, <2>4
    <3>2. d.device.declarative_management
      BY <2>4 DEF Undeclared
    <3> QED  BY <1>2, <3>1, <3>2
  <2>5. CASE install = {} /\ remove = {} /\ ~Undeclared(d)
    <3>1. c = IF d.device.awaiting_configuration THEN Simple("DeviceConfigured") ELSE NoCommand
      BY <2>1, <2>5
    <3>2. ~d.device.declarative_management => NextToInstall(d) = {}
      BY <2>5
    <3> HIDE DEF install, remove
    <3>3. CASE d.device.awaiting_configuration
      BY <1>2, <1>4, <3>1, <3>2, <3>3
    <3>4. CASE ~d.device.awaiting_configuration
      BY <1>2, <3>1, <3>4 DEF NoCommand
    <3> QED  BY <3>3, <3>4
  <2> QED  BY <2>2, <2>3, <2>4, <2>5
<1> QED  BY <1>1, <1>3, <1>4

LEMMA DequeuedKnown ==
    ASSUME NEW d, Known(d)
    PROVE  /\ Known(Dequeued(d))
           /\ Declares(Dequeued(d).queue) => Declares(d.queue)
           /\ Dequeued(d).device = d.device
           /\ Dequeued(d).rows = d.rows
           /\ Dequeued(d).accounts = d.accounts
           /\ Dequeued(d).failed = d.failed
<1>1. CASE Due(d) = {}
  <2>1. Dequeued(d) = d
    BY <1>1 DEF Dequeued
  <2> QED  BY <2>1
<1>2. CASE Due(d) # {}
  <2> DEFINE q == RemoveAt(d.queue, Min(Due(d)))
             e == [d EXCEPT !.queue = q]
  <2>1. d \in Tables /\ d.queue \in Seq(Commands)
    BY DEF Known, Tables
  <2>2. /\ q \in Seq(Commands)
        /\ \A j \in DOMAIN q : \E k \in DOMAIN d.queue : q[j] = d.queue[k]
    <3>1. Min(Due(d)) \in 1 .. Len(d.queue)
      BY <1>2, <2>1, DueKnown
    <3> QED  BY <2>1, <3>1, RemovedAt
  <2>3. Dequeued(d) = e
    BY <1>2 DEF Dequeued
  <2> HIDE DEF q
  <2>4. /\ e \in Tables /\ e.queue = q /\ e.device = d.device /\ e.rows = d.rows
        /\ e.accounts = d.accounts /\ e.failed = d.failed
    BY <2>1, <2>2 DEF Tables
  <2> HIDE DEF e
  <2>5. QueueShape(q) /\ (Declares(q) => Declares(d.queue))
    BY <2>2 DEF Known, QueueShape, Declares
  <2>6. Known(e)
    BY <2>4, <2>5 DEF Known
  <2> QED  BY <2>3, <2>4, <2>5, <2>6
<1> QED  BY <1>1, <1>2

LEMMA DeliveredType ==
    ASSUME CommandsAssumption, TypeOK, NEW received \in BOOLEAN, Delivered(received)
    PROVE  edits' \in 0 .. MaxEdits /\ faults' \in 0 .. MaxFaults
BY DEF Delivered, Fault, bounds, TypeOK, CommandsAssumption

LEMMA EditType ==
    ASSUME CommandsAssumption, TypeOK, Edit
    PROVE  edits' \in 0 .. MaxEdits /\ faults' \in 0 .. MaxFaults
BY DEF Edit, TypeOK, CommandsAssumption

LEMMA FaultType ==
    ASSUME CommandsAssumption, TypeOK, Fault
    PROVE  edits' \in 0 .. MaxEdits /\ faults' \in 0 .. MaxFaults
BY DEF Fault, TypeOK, CommandsAssumption

LEMMA NoCommandShape ==
    ASSUME CommandsAssumption
    PROVE  /\ NoCommand \in Commands /\ NoCommand.name = "none"
           /\ CommandShape(NoCommand)
BY SimpleCommand, SimpleSent DEF NoCommand

LEMMA RespondStep ==
    ASSUME CommandsAssumption, CommandsInv, phase = "enrolled", status # "received",
           NEW d, NEW e, Known(d), Known(e), e.device = d.device,
           Declares(e.queue) => Declares(d.queue),
           NEW c, Sent(d, c),
           c.name = "DeclarativeManagement" => platform # "macOS",
           NEW received \in BOOLEAN, Respond(e, c, received)
    PROVE  CommandsInv'
<1> USE DEF CommandsInv
<1>1. /\ db' = e
      /\ live' = (received /\ c # NoCommand)
      /\ received => /\ command' = c
                     /\ status' = IF c = NoCommand THEN "Idle" ELSE "received"
                     /\ poked' \in BOOLEAN
      /\ ~received => command' = command /\ status' = status /\ poked' = poked
  BY DEF Respond
<1>2. /\ UNCHANGED <<latest, blueprint, items, form, overwritten, session, notify, platform,
                     phase, setup, profiles, apps, list, ddm>>
      /\ Delivered(received)
  BY DEF Respond, catalog
<1>3. c \in Commands /\ CommandShape(c) /\ e \in Tables
  BY DEF Sent, Known
<1>4. TypeOK'
  <2>1. edits' \in 0 .. MaxEdits /\ faults' \in 0 .. MaxFaults
    BY <1>2, DeliveredType
  <2>2. command' \in Commands /\ live' \in BOOLEAN /\ poked' \in BOOLEAN
        /\ status' \in {"Idle", "received", "Acknowledged", "NotNow"} \cup Errors
    BY <1>1, <1>3 DEF TypeOK
  <2> QED  BY <1>1, <1>2, <1>3, <2>1, <2>2 DEF TypeOK
<1>5. QueueShape(db.queue)'
  BY <1>1 DEF Known, QueueShape, CommandShape, NoCommand
<1>6. AgentShape'
  BY <1>1, <1>2, <1>3, NoCommandShape DEF AgentShape, CommandShape
<1>7. MixedManagement' <=> MixedManagement
  BY <1>2 DEF MixedManagement
<1>8. NoDeclarations'
  <2> SUFFICES ASSUME platform = "macOS"
               PROVE  /\ ~Declares(e.queue)
                      /\ command'.name # "DeclarativeManagement"
                      /\ ~e.device.declarative_management
                      /\ form # NoForm => ~form.declarative_management
                      /\ ddm = "off"
    BY <1>1, <1>2 DEF NoDeclarations, Declares
  <2> QED  BY <1>1 DEF NoDeclarations, Known, Done
<1>9. OneManagement'
  <2> SUFFICES ASSUME ~MixedManagement PROVE OneManagement'
    BY <1>7 DEF OneManagement
  <2>1. live' => status' = "received"
    BY <1>1
  <2>2. d.device.declarative_management
          <=> db.device.declarative_management \/ (live /\ Done("DeclarativeManagement"))
    BY DEF Known
  <2>3. Declares(e.queue) => Declares(db.queue)
    BY DEF Known
  <2>4. ddm # "off" => d.device.declarative_management
    BY <2>2 DEF OneManagement
  <2>5. Declares(d.queue) \/ d.device.declarative_management => Declaring
    BY <2>2 DEF Known, Declaring, Working, Done
  <2>6. Working("DeclarativeManagement")' =>
           Declares(d.queue) \/ d.device.declarative_management
    BY <1>1, <2>1 DEF Working, Sent
  <2>7. Declaring' => Declaring
    BY <1>1, <1>2, <2>2, <2>3, <2>5, <2>6 DEF Declaring, Declares
  <2>8. ASSUME Declaring', Working("InstallProfile")' \/ Working("RemoveProfile")'
        PROVE  FALSE
    <3>1. ~d.device.declarative_management /\ ~Declares(d.queue)
      BY <1>1, <2>8 DEF Working, Sent
    <3>2. ~Working("DeclarativeManagement")'
      BY <2>8 DEF Working
    <3>3. Declares(e.queue) \/ e.device.declarative_management \/ ddm # "off"
      BY <1>1, <1>2, <2>8, <3>2 DEF Declaring, Declares
    <3> QED  BY <2>3, <2>4, <3>1, <3>3
  <2> QED  BY <1>1, <1>2, <1>7, <2>1, <2>4, <2>7, <2>8 DEF OneManagement, Done
<1>10. OneRowPerProfile' /\ OneConfirmedApp'
  BY <1>1 DEF Known, RowsShape, OneRowPerProfile, OneConfirmedApp
<1>11. BelievedInstalled' /\ InstalledKnown'
  BY <1>1, <1>2, <1>7 DEF Known, BelievedInstalled, InstalledKnown, ToBeReported
<1> QED  BY <1>4, <1>5, <1>6, <1>8, <1>9, <1>10, <1>11

LEMMA ConnectStep ==
    ASSUME CommandsAssumption, CommandsInv, NEW received \in BOOLEAN, Connect(received)
    PROVE  CommandsInv'
<1> DEFINE d == Processed
<1>1. phase = "enrolled" /\ status # "received"
  BY DEF Connect
<1>2. Known(d)
  BY <1>1, ProcessedKnown
<1>3. \A c : Sent(d, c) /\ c.name = "DeclarativeManagement" => platform # "macOS"
  <2> HIDE DEF d
  <2> QED  BY <1>2 DEF Sent, Known, CommandsInv, NoDeclarations, Done
<1>4. CASE status = "NotNow"
  <2>1. Respond(d, NoCommand, received)
    BY <1>4 DEF Connect
  <2> HIDE DEF d
  <2>2. Sent(d, NoCommand)
    BY NoCommandShape DEF Sent
  <2> QED  BY <1>1, <1>2, <1>3, <2>1, <2>2, RespondStep
<1>5. CASE status # "NotNow"
  <2>1. PICK c \in NextCommands(d) : Respond(Dequeued(d), c, received)
    BY <1>5 DEF Connect
  <2> HIDE DEF d
  <2>2. Sent(d, c)
    BY <1>2, NextCommandsSent DEF CommandsInv
  <2>3. /\ Known(Dequeued(d)) /\ Dequeued(d).device = d.device
        /\ Declares(Dequeued(d).queue) => Declares(d.queue)
    BY <1>2, DequeuedKnown
  <2> QED  BY <1>1, <1>2, <1>3, <2>1, <2>2, <2>3, RespondStep
<1> QED  BY <1>4, <1>5

-----------------------------------------------------------------------------
(* The steps that leave the profiles and the rows alone.                    *)

LEMMA RowsKept ==
    ASSUME CommandsInv, TypeOK',
           UNCHANGED <<platform, phase, profiles, command, status, live, ddm>>,
           MixedManagement => MixedManagement',
           QueueShape(db.queue)',
           Declares(db.queue)' => Declares(db.queue),
           db'.rows = db.rows,
           ~MixedManagement' =>
              (db'.device.declarative_management <=> db.device.declarative_management),
           NoDeclarations'
    PROVE  CommandsInv'
<1> USE DEF CommandsInv
<1>1. AgentShape'
  BY DEF AgentShape, Clean, CommandShape, NoCommand, Simple, Command
<1>2. OneManagement'
  <2> SUFFICES ASSUME ~MixedManagement' PROVE OneManagement'
    BY DEF OneManagement
  <2>1. Declaring' => Declaring
    BY DEF Declaring, Working
  <2> QED  BY <2>1 DEF OneManagement, Done, Working
<1>3. OneRowPerProfile' /\ OneConfirmedApp'
  BY DEF OneRowPerProfile, OneConfirmedApp
<1>4. BelievedInstalled' /\ InstalledKnown'
  BY DEF BelievedInstalled, InstalledKnown, ToBeReported
<1> QED  BY <1>1, <1>2, <1>3, <1>4

\* Nothing of the device, or of what the server knows of it, changes.
LEMMA ServerKept ==
    ASSUME CommandsInv, TypeOK',
           UNCHANGED <<platform, phase, profiles, command, status, live, ddm, db, overwritten>>,
           form' = form \/ form' = db.device \/ form' = NoForm
    PROVE  CommandsInv'
<1>1. QueueShape(db.queue)'
  BY DEF CommandsInv, QueueShape, CommandShape, NoCommand, Simple, Command
<1>2. NoDeclarations'
  BY DEF CommandsInv, NoDeclarations, Declares
<1>3. MixedManagement <=> MixedManagement'
  BY DEF MixedManagement
<1>4. Declares(db.queue)' => Declares(db.queue)
  BY DEF Declares
<1> QED  BY <1>1, <1>2, <1>3, <1>4, RowsKept

LEMMA DeclarationsType ==
    ASSUME NEW old \in Items, NEW bp, NEW versions \in [Artifacts -> Versions]
    PROVE  Declarations(old, bp, versions) \in Items
<1> DEFINE new == {[artifact |-> p, version |-> versions[p]] :
                     p \in {p \in Profiles : bp[p].present}}
<1>1. new \in SUBSET ArtifactVersion
  BY DEF ArtifactVersion, Artifacts
<1>2. Declarations(old, bp, versions)
        = IF old.token # 0 /\ old.versions = new
          THEN old ELSE [token |-> old.token + 1, versions |-> new]
  BY DEF Declarations
<1> HIDE DEF new
<1> QED  BY <1>1, <1>2 DEF Items

LEMMA UploadVersionStep ==
    ASSUME CommandsAssumption, CommandsInv, NEW a \in Artifacts, UploadVersion(a)
    PROVE  CommandsInv'
<1>1. TypeOK /\ UNCHANGED <<blueprint, form, overwritten, server, agent>>
  BY DEF UploadVersion, CommandsInv
<1>2. latest' \in [Artifacts -> Versions]
  BY <1>1 DEF UploadVersion, TypeOK, Versions, CommandsAssumption
<1>3. items' \in Items
  BY <1>1, <1>2, DeclarationsType DEF UploadVersion, TypeOK
<1>4. edits' \in 0 .. MaxEdits /\ faults' \in 0 .. MaxFaults
  BY <1>1, EditType DEF UploadVersion
<1>5. notify' \in BOOLEAN
  BY DEF UploadVersion
<1>6. TypeOK'
  BY <1>1, <1>2, <1>3, <1>4, <1>5 DEF TypeOK, server, agent
<1> QED  BY <1>1, <1>6, ServerKept DEF server, agent

LEMMA SetBlueprintArtifactStep ==
    ASSUME CommandsAssumption, CommandsInv, NEW a \in Artifacts,
           NEW ba \in BlueprintArtifact \cup {Absent}, SetBlueprintArtifact(a, ba)
    PROVE  CommandsInv'
<1>1. TypeOK /\ UNCHANGED <<latest, form, overwritten, server, agent>>
  BY DEF SetBlueprintArtifact, CommandsInv
<1>2. blueprint' \in [Artifacts -> BlueprintArtifact \cup {Absent}]
  BY <1>1 DEF SetBlueprintArtifact, TypeOK
<1>3. items' \in Items
  BY <1>1, DeclarationsType DEF SetBlueprintArtifact, TypeOK
<1>4. edits' \in 0 .. MaxEdits /\ faults' \in 0 .. MaxFaults
  BY <1>1, EditType DEF SetBlueprintArtifact
<1>5. TypeOK'
  BY <1>1, <1>2, <1>3, <1>4 DEF TypeOK, server, agent, SetBlueprintArtifact
<1> QED  BY <1>1, <1>5, ServerKept DEF server, agent

LEMMA UpdateBlueprintArtifactStep ==
    ASSUME CommandsAssumption, CommandsInv, NEW a \in Artifacts,
           NEW ba \in BlueprintArtifact \cup {Absent}, blueprint' = [blueprint EXCEPT ![a] = ba],
           Edit, notify' = TRUE,
           UNCHANGED <<latest, items, form, overwritten, server, agent>>
    PROVE  CommandsInv'
<1>1. TypeOK
  BY DEF CommandsInv
<1>2. blueprint' \in [Artifacts -> BlueprintArtifact \cup {Absent}]
  BY <1>1 DEF TypeOK
<1>3. edits' \in 0 .. MaxEdits /\ faults' \in 0 .. MaxFaults
  BY <1>1, EditType
<1>4. TypeOK'
  BY <1>1, <1>2, <1>3 DEF TypeOK, server, agent
<1> QED  BY <1>4, ServerKept DEF server, agent

LEMMA OpenFormStep ==
    ASSUME CommandsAssumption, CommandsInv, OpenForm
    PROVE  CommandsInv'
<1>1. TypeOK /\ form' = db.device
  BY DEF OpenForm, CommandsInv
<1>2. form' \in EnrolledDevice \cup {NoForm}
  BY <1>1 DEF TypeOK, Tables
<1>3. edits' \in 0 .. MaxEdits /\ faults' \in 0 .. MaxFaults
  BY <1>1, EditType DEF OpenForm
<1>4. TypeOK'
  BY <1>1, <1>2, <1>3 DEF TypeOK, server, agent, OpenForm
<1> QED  BY <1>1, <1>4, ServerKept DEF server, agent, OpenForm

LEMMA SendNotificationStep ==
    ASSUME CommandsInv, SendNotification
    PROVE  CommandsInv'
<1>1. poked' \in BOOLEAN
  <2>1. poked' = (poked \/ (db.device.token /\ phase = "enrolled"))
    BY DEF SendNotification
  <2> QED  BY <2>1
<1>2. TypeOK'
  <2>1. /\ UNCHANGED <<latest, blueprint, items, form, overwritten, session, db, platform, phase,
                       setup, profiles, apps, command, status, list, live, ddm, edits, faults>>
        /\ notify' = FALSE
    BY DEF SendNotification, catalog, server, bounds
  <2>2. TypeOK /\ notify' \in BOOLEAN
    BY <2>1 DEF CommandsInv
  <2> QED  BY <1>1, <2>1, <2>2 DEF TypeOK
<1> QED  BY <1>2, ServerKept DEF SendNotification, catalog, server

\* The row of the device is saved, with the queue and the rows as they are.
LEMMA DeviceSaved ==
    ASSUME NEW d \in Tables, NEW u \in EnrolledDevice
    PROVE  /\ [d EXCEPT !.device = u] \in Tables
           /\ [d EXCEPT !.device = u].device = u
           /\ [d EXCEPT !.device = u].queue = d.queue
           /\ [d EXCEPT !.device = u].rows = d.rows
BY DEF Tables

LEMMA SaveFormStep ==
    ASSUME CommandsAssumption, CommandsInv, SaveForm
    PROVE  CommandsInv'
<1> DEFINE u == [form EXCEPT !.blueprint = ~form.blueprint]
<1>1. TypeOK /\ UNCHANGED <<latest, blueprint, items, session, agent, bounds>>
      /\ form # NoForm /\ form' = NoForm
  BY DEF SaveForm, CommandsInv
<1>2. form \in EnrolledDevice /\ db \in Tables
  BY <1>1 DEF TypeOK
<1>3. u \in EnrolledDevice /\ u.declarative_management = form.declarative_management
  BY <1>2 DEF EnrolledDevice
<1>4. db' = [db EXCEPT !.device = u]
  BY DEF SaveForm
<1> HIDE DEF u
<1>5. db' \in Tables /\ db'.device = u /\ db'.queue = db.queue /\ db'.rows = db.rows
  BY <1>2, <1>3, <1>4, DeviceSaved
<1>6. overwritten' \in BOOLEAN /\ notify' \in BOOLEAN
      /\ (overwritten => overwritten')
      /\ (~overwritten' => form = db.device)
  BY <1>1 DEF SaveForm, TypeOK
<1>7. TypeOK'
  BY <1>1, <1>5, <1>6 DEF TypeOK, agent, bounds
<1>8. UNCHANGED <<platform, phase, profiles, command, status, live, ddm>>
  BY <1>1 DEF agent
<1>9. platform \in {"macOS", "iOS"}
  BY <1>1 DEF TypeOK, CommandsAssumption
<1>10. platform = "macOS" => ~u.declarative_management /\ ~db.device.declarative_management
  BY <1>1, <1>3 DEF CommandsInv, NoDeclarations
<1>11. (MixedManagement => MixedManagement')
       /\ (~MixedManagement' =>
             (db'.device.declarative_management <=> db.device.declarative_management))
  BY <1>3, <1>5, <1>6, <1>8, <1>9, <1>10 DEF MixedManagement
<1>12. QueueShape(db.queue)' /\ (Declares(db.queue)' => Declares(db.queue))
  BY <1>5 DEF CommandsInv, QueueShape, CommandShape, NoCommand, Simple, Command, Declares
<1>13. NoDeclarations'
  BY <1>1, <1>5, <1>8, <1>10 DEF CommandsInv, NoDeclarations, Declares
<1> QED  BY <1>5, <1>7, <1>8, <1>11, <1>12, <1>13, RowsKept

LEMMA DelayPassesStep ==
    ASSUME CommandsAssumption, CommandsInv, DelayPasses
    PROVE  CommandsInv'
<1>1. TypeOK /\ UNCHANGED <<catalog, session, agent, bounds>> /\ notify' = TRUE
  BY DEF DelayPasses, CommandsInv
<1>2. PICK i \in DOMAIN db.queue :
         db.queue[i].delayed /\ db' = [db EXCEPT !.queue[i].delayed = FALSE]
  BY DEF DelayPasses
<1> DEFINE c == [db.queue[i] EXCEPT !.delayed = FALSE]
           q == [db.queue EXCEPT ![i] = c]
<1>3. db.queue \in Seq(Commands) /\ db \in Tables /\ QueueShape(db.queue)
  BY <1>1 DEF TypeOK, Tables, CommandsInv
<1>4. /\ c \in Commands /\ c.name = db.queue[i].name /\ c.artifact = db.queue[i].artifact
      /\ c.version = db.queue[i].version
  <2>1. db.queue[i] \in Commands
    BY <1>3
  <2> QED  BY <2>1 DEF Commands
<1>5. CommandShape(c) /\ c.name # "none"
  BY <1>2, <1>3, <1>4 DEF QueueShape, CommandShape
<1>6. db' = [db EXCEPT !.queue = q]
  BY <1>2
<1> HIDE DEF c
<1>7. /\ q \in Seq(Commands) /\ DOMAIN q = DOMAIN db.queue
      /\ \A j \in DOMAIN q : q[j] = IF j = i THEN c ELSE db.queue[j]
  BY <1>3, <1>4
<1> HIDE DEF q
<1>8. db' \in Tables /\ db'.queue = q /\ db'.device = db.device /\ db'.rows = db.rows
  BY <1>3, <1>6, <1>7 DEF Tables
<1>9. TypeOK'
  BY <1>1, <1>8 DEF TypeOK, catalog, agent, bounds
<1>10. UNCHANGED <<platform, phase, profiles, command, status, live, ddm, form, overwritten>>
  BY <1>1 DEF agent, catalog
<1>11. c.name = "InstalledApplicationList"
  BY <1>2, <1>3, <1>4 DEF QueueShape
<1>12. QueueShape(q)
  BY <1>3, <1>5, <1>7, <1>11 DEF QueueShape
<1>13. Declares(q) => Declares(db.queue)
  BY <1>7, <1>11 DEF Declares
<1>14. QueueShape(db.queue)' /\ (Declares(db.queue)' => Declares(q))
  BY <1>8, <1>12 DEF QueueShape, CommandShape, NoCommand, Simple, Command, Declares
<1>15. (MixedManagement <=> MixedManagement')
  BY <1>10 DEF MixedManagement
<1>16. NoDeclarations'
  <2>1. platform' = "macOS" => ~Declares(q)
    BY <1>10, <1>13 DEF CommandsInv, NoDeclarations
  <2> QED  BY <1>8, <1>10, <1>14, <2>1 DEF CommandsInv, NoDeclarations
<1> QED  BY <1>8, <1>9, <1>10, <1>13, <1>14, <1>15, <1>16, RowsKept

LEMMA SetBootstrapTokenStep ==
    ASSUME CommandsAssumption, CommandsInv, SetBootstrapToken
    PROVE  CommandsInv'
<1> DEFINE u == [db.device EXCEPT !.awaiting_configuration = setup]
<1>1. TypeOK /\ UNCHANGED <<catalog, session, notify, agent, bounds>>
  BY DEF SetBootstrapToken, CommandsInv
<1>2. db \in Tables /\ db.device \in EnrolledDevice /\ setup \in BOOLEAN
  BY <1>1 DEF TypeOK, Tables
<1>3. u \in EnrolledDevice
      /\ u.declarative_management = db.device.declarative_management
  BY <1>2 DEF EnrolledDevice
<1>4. db' = [db EXCEPT !.device = u]
  BY DEF SetBootstrapToken
<1> HIDE DEF u
<1>5. db' \in Tables /\ db'.device = u /\ db'.queue = db.queue /\ db'.rows = db.rows
  BY <1>2, <1>3, <1>4, DeviceSaved
<1>6. TypeOK'
  BY <1>1, <1>5 DEF TypeOK, catalog, agent, bounds
<1>7. UNCHANGED <<platform, phase, profiles, command, status, live, ddm, form, overwritten>>
  BY <1>1 DEF agent, catalog
<1>8. QueueShape(db.queue)' /\ (Declares(db.queue)' => Declares(db.queue))
  BY <1>5 DEF CommandsInv, QueueShape, CommandShape, NoCommand, Simple, Command, Declares
<1>9. NoDeclarations' /\ (MixedManagement <=> MixedManagement')
  BY <1>3, <1>5, <1>7 DEF CommandsInv, NoDeclarations, Declares, MixedManagement
<1> QED  BY <1>3, <1>5, <1>6, <1>7, <1>8, <1>9, RowsKept

LEMMA AppFinishesStep ==
    ASSUME CommandsAssumption, CommandsInv, NEW a \in Apps,
           NEW state \in {"installed", "failed"}, AppFinishes(a, state)
    PROVE  CommandsInv'
<1>1. /\ TypeOK
      /\ UNCHANGED <<catalog, server, notify, platform, phase, setup, profiles, command, status,
                     list, live, poked, ddm>>
  BY DEF AppFinishes, CommandsInv
<1>2. edits' \in 0 .. MaxEdits /\ faults' \in 0 .. MaxFaults
  BY <1>1, FaultType DEF AppFinishes, bounds, TypeOK
<1> DEFINE u == [apps[a] EXCEPT !.state = state]
<1>3. apps' = [apps EXCEPT ![a] = u]
  BY DEF AppFinishes
<1>4. u \in App
  BY <1>1 DEF TypeOK, App
<1> HIDE DEF u
<1>5. apps' \in [Apps -> App]
  BY <1>1, <1>3, <1>4 DEF TypeOK
<1>6. TypeOK'
  BY <1>1, <1>2, <1>5 DEF TypeOK, catalog, server
<1> QED  BY <1>1, <1>6, ServerKept DEF catalog, server

-----------------------------------------------------------------------------
(* The enrollments.                                                         *)

LEMMA PurgedKnown ==
    ASSUME NEW d \in Tables
    PROVE  /\ Purged(d) \in Tables
           /\ Purged(d).queue = <<>>
           /\ Purged(d).rows = {}
           /\ ~Purged(d).device.declarative_management
<1> DEFINE u == [d.device EXCEPT !.declarative_management = FALSE]
           q == <<>>
           r == {}
           e == [d EXCEPT !.device = u, !.queue = q, !.failed = r, !.accounts = FALSE,
                          !.rows = r]
<1>1. u \in EnrolledDevice /\ ~u.declarative_management
  BY DEF Tables, EnrolledDevice
<1>2. Purged(d) = e
  BY DEF Purged
<1>3. q \in Seq(Commands) /\ r \in SUBSET Failure /\ r \in SUBSET DeviceArtifact
  OBVIOUS
<1> HIDE DEF u, q, r
<1>4. e \in Tables /\ e.queue = q /\ e.rows = r /\ e.device = u
  BY <1>1, <1>3 DEF Tables
<1> HIDE DEF e
<1> QED  BY <1>1, <1>2, <1>4 DEF q, r

\* A device that is not enrolled has forgotten everything.
LEMMA CleanStep ==
    ASSUME CommandsAssumption, TypeOK', phase' # "enrolled", Clean',
           QueueShape(db.queue)', NoDeclarations', OneRowPerProfile', OneConfirmedApp',
           BelievedInstalled'
    PROVE  CommandsInv'
<1>1. CommandShape(command)'
  <2>1. command' = NoCommand
    BY DEF Clean, NoCommand, Simple, Command
  <2> QED  BY <2>1, NoCommandShape DEF CommandShape, NoCommand, Simple, Command
<1>2. AgentShape'
  BY <1>1 DEF AgentShape, Clean
<1>3. OneManagement' /\ InstalledKnown'
  BY DEF OneManagement, InstalledKnown, Clean
<1> QED  BY <1>2, <1>3 DEF CommandsInv

LEMMA AuthenticateStep ==
    ASSUME CommandsAssumption, CommandsInv, NEW received \in BOOLEAN, Authenticate(received)
    PROVE  CommandsInv'
<1> DEFINE i == Simple("DeviceInformation")
           m == Simple("DeclarativeManagement")
           q == <<i>> \o (IF platform = "iOS" THEN <<m>> ELSE <<>>)
           P == Purged(db)
           u == [P.device EXCEPT !.token = FALSE, !.awaiting_configuration = FALSE]
<1>1. /\ TypeOK /\ Clean /\ phase = "authenticate" /\ session' \in EnrollmentSession
      /\ UNCHANGED <<catalog, notify, platform, setup, profiles, apps, command, status, list,
                     live, poked, ddm>>
      /\ Delivered(received)
      /\ phase' = IF received THEN "token_update" ELSE phase
  BY DEF Authenticate, CommandsInv, AgentShape, TypeOK, EnrollmentSession
<1>2. /\ i \in Commands /\ i.name = "DeviceInformation" /\ ~i.delayed /\ CommandShape(i)
      /\ m \in Commands /\ m.name = "DeclarativeManagement" /\ ~m.delayed /\ CommandShape(m)
  BY SimpleCommand, SimpleSent DEF CommandNames
<1>3. db' = [P EXCEPT !.created = TRUE, !.device = u, !.queue = q]
  BY DEF Authenticate
<1>4. P \in Tables /\ P.rows = {} /\ P.device \in EnrolledDevice
      /\ ~P.device.declarative_management
  BY <1>1, PurgedKnown DEF TypeOK, Tables
<1>5. u \in EnrolledDevice /\ ~u.declarative_management
  BY <1>4 DEF EnrolledDevice
<1> HIDE DEF i, m, P, u
<1>6. /\ q \in Seq(Commands)
      /\ \A j \in DOMAIN q : q[j] = i \/ (q[j] = m /\ platform = "iOS")
  <2> DEFINE t == IF platform = "iOS" THEN <<m>> ELSE <<>>
             h == <<i>>
  <2>1. h \in Seq(Commands) /\ Len(h) = 1 /\ h[1] = i
    BY <1>2
  <2>2. t \in Seq(Commands) /\ \A j \in 1 .. Len(t) : t[j] = m /\ platform = "iOS"
    BY <1>2
  <2>3. q = h \o t
    OBVIOUS
  <2> HIDE DEF h, t, q
  <2>4. /\ h \o t \in Seq(Commands) /\ Len(h \o t) = Len(h) + Len(t)
        /\ \A j \in 1 .. Len(h) + Len(t) :
             (h \o t)[j] = IF j <= Len(h) THEN h[j] ELSE t[j - Len(h)]
    BY <2>1, <2>2, ConcatProperties
  <2>5. ASSUME NEW j \in DOMAIN (h \o t), j # 1
        PROVE  (h \o t)[j] = m /\ platform = "iOS"
    <3>1. j - 1 \in 1 .. Len(t) /\ (h \o t)[j] = t[j - 1]
      BY <2>1, <2>2, <2>4, <2>5
    <3> QED  BY <2>2, <3>1
  <2>6. (h \o t)[1] = i
    BY <2>1, <2>2, <2>4
  <2> QED  BY <2>3, <2>4, <2>5, <2>6
<1> HIDE DEF q
<1>7. db' \in Tables /\ db'.queue = q /\ db'.rows = {} /\ db'.device = u
  BY <1>3, <1>4, <1>5, <1>6 DEF Tables
<1>8. edits' \in 0 .. MaxEdits /\ faults' \in 0 .. MaxFaults
  BY <1>1, DeliveredType
<1>9. TypeOK'
  BY <1>1, <1>7, <1>8 DEF TypeOK, catalog
<1>10. QueueShape(q) /\ (platform = "macOS" => ~Declares(q))
  BY <1>2, <1>6 DEF QueueShape, Declares
<1>11. QueueShape(db.queue)'
  BY <1>7, <1>10 DEF QueueShape, CommandShape, NoCommand, Simple, Command
<1>12. NoDeclarations'
  <2>1. platform = "macOS" => ~Declares(db'.queue) /\ ~db'.device.declarative_management
    BY <1>5, <1>7, <1>10
  <2> QED  BY <1>1, <2>1 DEF catalog, CommandsInv, NoDeclarations, Declares
<1>13. Clean' /\ phase' # "enrolled"
  BY <1>1 DEF Clean, NoCommand, Simple, Command
<1>14. OneRowPerProfile' /\ OneConfirmedApp' /\ BelievedInstalled'
  BY <1>7 DEF OneRowPerProfile, OneConfirmedApp, BelievedInstalled
<1> QED  BY <1>9, <1>11, <1>12, <1>13, <1>14, CleanStep

LEMMA TokenUpdateStep ==
    ASSUME CommandsAssumption, CommandsInv, NEW received \in BOOLEAN, TokenUpdate(received)
    PROVE  CommandsInv'
<1> DEFINE u == [db.device EXCEPT !.token = TRUE, !.blueprint = TRUE,
                                  !.awaiting_configuration = setup]
<1>1. /\ TypeOK /\ phase \in {"token_update", "enrolled"} /\ session' \in EnrollmentSession
      /\ notify' = TRUE
      /\ UNCHANGED <<catalog, platform, setup, profiles, apps, command, status, list, live,
                     poked, ddm>>
      /\ Delivered(received)
      /\ phase' = IF received THEN "enrolled" ELSE phase
  BY DEF TokenUpdate, CommandsInv, TypeOK, EnrollmentSession
<1>2. db \in Tables /\ db.device \in EnrolledDevice /\ setup \in BOOLEAN
  BY <1>1 DEF TypeOK, Tables
<1>3. u \in EnrolledDevice
      /\ u.declarative_management = db.device.declarative_management
  BY <1>2 DEF EnrolledDevice
<1>4. db' = [db EXCEPT !.device = u]
  BY DEF TokenUpdate
<1> HIDE DEF u
<1>5. db' \in Tables /\ db'.device = u /\ db'.queue = db.queue /\ db'.rows = db.rows
  BY <1>2, <1>3, <1>4, DeviceSaved
<1>6. edits' \in 0 .. MaxEdits /\ faults' \in 0 .. MaxFaults
  BY <1>1, DeliveredType
<1>7. TypeOK'
  BY <1>1, <1>5, <1>6 DEF TypeOK, catalog
<1>8. UNCHANGED <<platform, profiles, command, status, live, ddm, form, overwritten>>
  BY <1>1 DEF catalog
<1>9. QueueShape(db.queue)' /\ (Declares(db.queue)' => Declares(db.queue))
  BY <1>5 DEF CommandsInv, QueueShape, CommandShape, NoCommand, Simple, Command, Declares
<1>10. NoDeclarations' /\ (MixedManagement <=> MixedManagement')
  BY <1>3, <1>5, <1>8 DEF CommandsInv, NoDeclarations, Declares, MixedManagement
<1>11. CASE phase' = phase
  BY <1>3, <1>5, <1>7, <1>8, <1>9, <1>10, <1>11, RowsKept
<1>12. CASE phase' # phase
  <2>1. phase = "token_update" /\ phase' = "enrolled" /\ Clean
    BY <1>1, <1>12 DEF CommandsInv, AgentShape
  <2>2. AgentShape'
    BY <1>8, <2>1 DEF CommandsInv, AgentShape, Clean, CommandShape, NoCommand, Simple, Command
  <2>3. OneManagement' /\ InstalledKnown'
    BY <1>8, <2>1 DEF OneManagement, InstalledKnown, Clean, Working
  <2>4. OneRowPerProfile' /\ OneConfirmedApp' /\ BelievedInstalled'
    BY <1>5, <1>8, <1>10, <2>1
    DEF CommandsInv, OneRowPerProfile, OneConfirmedApp, BelievedInstalled, ToBeReported
  <2> QED  BY <1>7, <1>9, <1>10, <2>2, <2>3, <2>4 DEF CommandsInv
<1> QED  BY <1>11, <1>12

LEMMA ForgetClean ==
    ASSUME CommandsAssumption, Forget
    PROVE  /\ Clean'
           /\ apps' \in [Apps -> App] /\ list' = "missing" /\ poked' = FALSE
           /\ command' \in Commands
<1>1. Clean'
  BY DEF Forget, Clean, NoCommand, Simple, Command
<1>2. apps' \in [Apps -> App]
  BY DEF Forget, App, CommandsAssumption
<1>3. command' \in Commands
  BY NoCommandShape DEF Forget
<1> QED  BY <1>1, <1>2, <1>3 DEF Forget

LEMMA CheckOutStep ==
    ASSUME CommandsAssumption, CommandsInv, NEW received \in BOOLEAN, CheckOut(received)
    PROVE  CommandsInv'
<1> DEFINE P == Purged(db)
           u == [P.device EXCEPT !.token = FALSE]
<1>1. /\ TypeOK /\ phase' = "unenrolled" /\ Forget /\ Delivered(received)
      /\ UNCHANGED <<catalog, session, notify, platform, setup>>
      /\ db' = IF received THEN [P EXCEPT !.device = u] ELSE db
  BY DEF CheckOut, CommandsInv
<1>2. P \in Tables /\ P.rows = {} /\ P.queue = <<>> /\ P.device \in EnrolledDevice
      /\ ~P.device.declarative_management /\ db \in Tables
  BY <1>1, PurgedKnown DEF TypeOK, Tables
<1>3. u \in EnrolledDevice /\ ~u.declarative_management
  BY <1>2 DEF EnrolledDevice
<1> HIDE DEF P, u
<1>4. \/ db' = db
      \/ db' \in Tables /\ db'.rows = {} /\ db'.queue = <<>> /\ db'.device = u
  BY <1>1, <1>2, <1>3, DeviceSaved
<1>5. edits' \in 0 .. MaxEdits /\ faults' \in 0 .. MaxFaults
  BY <1>1, DeliveredType
<1>6. /\ Clean'
      /\ apps' \in [Apps -> App] /\ list' = "missing" /\ poked' = FALSE
      /\ command' \in Commands
  BY <1>1, ForgetClean
<1>7. TypeOK'
  <2>1. db' \in Tables
    BY <1>2, <1>4
  <2>2. profiles' = {} /\ status' = "Idle" /\ live' = FALSE /\ ddm' = "off"
    BY <1>1 DEF Forget
  <2> QED  BY <1>1, <1>5, <1>6, <2>1, <2>2 DEF TypeOK, catalog
<1>8. QueueShape(db.queue)'
  BY <1>4 DEF CommandsInv, QueueShape, CommandShape, NoCommand, Simple, Command
<1>9. NoDeclarations'
  <2>1. platform = "macOS" => ~Declares(db'.queue) /\ ~db'.device.declarative_management
    BY <1>3, <1>4 DEF CommandsInv, NoDeclarations, Declares
  <2>2. ddm' = "off" /\ command'.name # "DeclarativeManagement"
    BY <1>1 DEF Forget, NoCommand, Simple, Command
  <2> QED  BY <1>1, <2>1, <2>2 DEF catalog, CommandsInv, NoDeclarations, Declares
<1>10. OneRowPerProfile' /\ OneConfirmedApp'
  BY <1>4 DEF CommandsInv, OneRowPerProfile, OneConfirmedApp
<1>11. BelievedInstalled' /\ phase' # "enrolled"
  BY <1>1 DEF BelievedInstalled
<1> QED  BY <1>6, <1>7, <1>8, <1>9, <1>10, <1>11, CleanStep

LEMMA EnrollStep ==
    ASSUME CommandsAssumption, CommandsInv, Enroll
    PROVE  CommandsInv'
<1>1. /\ TypeOK /\ phase' = "authenticate" /\ session' \in EnrollmentSession /\ Forget /\ Edit
      /\ setup' \in BOOLEAN
      /\ UNCHANGED <<catalog, db, notify, platform>>
  BY DEF Enroll, CommandsInv, NewSession, EnrollmentSession
<1>2. edits' \in 0 .. MaxEdits /\ faults' \in 0 .. MaxFaults
  BY <1>1, EditType
<1>3. /\ Clean'
      /\ apps' \in [Apps -> App] /\ list' = "missing" /\ poked' = FALSE
      /\ command' \in Commands
  BY <1>1, ForgetClean
<1>4. profiles' = {} /\ status' = "Idle" /\ live' = FALSE /\ ddm' = "off"
      /\ command'.name # "DeclarativeManagement"
  BY <1>1 DEF Forget, NoCommand, Simple, Command
<1>5. TypeOK'
  BY <1>1, <1>2, <1>3, <1>4 DEF TypeOK, catalog
<1>6. QueueShape(db.queue)' /\ NoDeclarations'
  BY <1>1, <1>4 DEF CommandsInv, QueueShape, CommandShape, NoCommand, Simple, Command,
                    NoDeclarations, Declares, catalog
<1>7. OneRowPerProfile' /\ OneConfirmedApp' /\ BelievedInstalled' /\ phase' # "enrolled"
  BY <1>1 DEF CommandsInv, OneRowPerProfile, OneConfirmedApp, BelievedInstalled
<1> QED  BY <1>3, <1>5, <1>6, <1>7, CleanStep

-----------------------------------------------------------------------------
(* The device.                                                              *)

\* The profiles once a command is done.
LEMMA ExecutedProfiles ==
    ASSUME CommandsAssumption, CommandsInv, Execute
    PROVE  /\ profiles' \in SUBSET Profile
           /\ \A q, r \in profiles' : q.artifact = r.artifact => q = r
           /\ \A q \in profiles' :
                \/ /\ command.name = "InstallProfile"
                   /\ q.artifact = command.artifact /\ q.version = command.version
                \/ /\ q \in profiles
                   /\ command.name \in {"InstallProfile", "RemoveProfile"} =>
                         q.artifact # command.artifact
           /\ command.name = "InstallProfile" =>
                \E q \in profiles' : q.artifact = command.artifact /\ q.version = command.version
           /\ \A q \in profiles :
                \/ q \in profiles'
                \/ /\ command.name \in {"InstallProfile", "RemoveProfile"}
                   /\ q.artifact = command.artifact
<1> DEFINE others == {q \in profiles : q.artifact # command.artifact}
           n == [artifact |-> command.artifact, version |-> command.version, ddm |-> FALSE]
<1>1. /\ profiles \in SUBSET Profile /\ CommandShape(command) /\ Before
      /\ \A q, r \in profiles : q.artifact = r.artifact => q = r
  BY InvBefore DEF CommandsInv, TypeOK, AgentShape
<1>2. profiles' = CASE command.name = "InstallProfile" -> others \cup {n}
                    [] command.name = "RemoveProfile" -> others
                    [] OTHER -> profiles
  BY DEF Execute
<1>3. CASE command.name = "InstallProfile"
  <2>1. command.artifact \in Profiles /\ command.artifact \in Artifacts
    BY <1>1, <1>3, DisjointArtifacts DEF CommandShape
  <2>2. command.version \in Versions
    BY <1>1, <2>1, CommandVersion
  <2>3. n \in Profile /\ n.artifact = command.artifact /\ n.version = command.version
    BY <2>1, <2>2 DEF Profile
  <2>4. profiles' = others \cup {n}
    BY <1>2, <1>3
  <2> HIDE DEF n
  <2> QED  BY <1>1, <1>3, <2>3, <2>4
<1>4. CASE command.name = "RemoveProfile"
  <2>1. profiles' = others
    BY <1>2, <1>4
  <2> QED  BY <1>1, <1>4, <2>1
<1>5. CASE command.name \notin {"InstallProfile", "RemoveProfile"}
  <2>1. profiles' = profiles
    BY <1>2, <1>5
  <2> QED  BY <1>1, <1>5, <2>1
<1> QED  BY <1>3, <1>4, <1>5

LEMMA ExecutedApps ==
    ASSUME CommandsAssumption, CommandsInv, Execute
    PROVE  /\ apps' \in [Apps -> App]
           /\ list' \in {"missing", "installing", "installed", "failed", "failed_and_installing"}
           /\ ddm' = ddm \/ (ddm' = "outdated" /\ command.name = "DeclarativeManagement")
           /\ command.name = "DeclarativeManagement" => ddm' = "outdated"
<1>1. apps \in [Apps -> App] /\ CommandShape(command) /\ command \in Commands
  BY DEF CommandsInv, TypeOK, AgentShape
<1>2. apps' \in [Apps -> App]
  <2> DEFINE u == [version |-> command.version, state |-> "installing"]
  <2>1. u \in App
    BY <1>1 DEF App, Commands
  <2>2. CASE command.name = "InstallEnterpriseApplication"
    <3>1. apps' = [apps EXCEPT ![command.artifact] = u]
      BY <2>2 DEF Execute
    <3> HIDE DEF u
    <3> QED  BY <1>1, <2>1, <3>1
  <2>3. CASE command.name # "InstallEnterpriseApplication"
    BY <1>1, <2>3 DEF Execute
  <2> QED  BY <2>2, <2>3
<1>3. list' \in {"missing", "installing", "installed", "failed", "failed_and_installing"}
  <2>1. CASE command.name = "InstalledApplicationList"
    <3>1. command.artifact \in Apps
      BY <1>1, <2>1 DEF CommandShape
    <3>2. apps[command.artifact].state \in {"none", "installing", "installed", "failed"}
      BY <1>1, <3>1 DEF App
    <3> QED  BY <2>1, <3>2 DEF Execute
  <2>2. CASE command.name # "InstalledApplicationList"
    BY <2>2 DEF Execute
  <2> QED  BY <2>1, <2>2
<1> QED  BY <1>2, <1>3 DEF Execute

LEMMA ExecuteStep ==
    ASSUME CommandsAssumption, CommandsInv, Execute
    PROVE  CommandsInv'
<1>1. /\ TypeOK /\ AgentShape /\ OneManagement /\ BelievedInstalled /\ InstalledKnown
      /\ status = "received" /\ status' = "Acknowledged"
      /\ setup' = (setup /\ command.name # "DeviceConfigured")
      /\ UNCHANGED <<catalog, server, notify, platform, phase, command, live, poked, bounds>>
  BY DEF Execute, CommandsInv
<1>2. live /\ phase = "enrolled" /\ CommandShape(command)
  BY <1>1 DEF AgentShape, Clean
<1>3. UNCHANGED <<db, form, overwritten, platform, phase, command, live>>
  BY <1>1 DEF catalog, server
<1>4. TypeOK'
  <2>1. setup' \in BOOLEAN /\ ddm' \in {"off", "outdated", "changed", "reported"}
    <3>1. setup' \in BOOLEAN
      BY <1>1
    <3>2. ddm \in {"off", "outdated", "changed", "reported"}
      BY <1>1 DEF TypeOK
    <3> QED  BY <3>1, <3>2, ExecutedApps
  <2> QED  BY <1>1, <2>1, ExecutedProfiles, ExecutedApps DEF TypeOK, catalog, server, bounds
<1>5. QueueShape(db.queue)' /\ OneRowPerProfile' /\ OneConfirmedApp'
  BY <1>3 DEF CommandsInv, QueueShape, CommandShape, NoCommand, Simple, Command,
              OneRowPerProfile, OneConfirmedApp
<1>6. AgentShape'
  <2>1. CommandShape(command)'
    BY <1>2, <1>3 DEF CommandShape, NoCommand, Simple, Command
  <2> QED  BY <1>1, <1>2, <1>3, <2>1, ExecutedProfiles DEF AgentShape
<1>7. NoDeclarations'
  BY <1>3, ExecutedApps DEF CommandsInv, NoDeclarations, Declares
<1>8. MixedManagement <=> MixedManagement'
  BY <1>3 DEF MixedManagement
<1>9. OneManagement'
  <2> SUFFICES ASSUME ~MixedManagement PROVE OneManagement'
    BY <1>8 DEF OneManagement
  <2>1. ASSUME ddm' # "off"
        PROVE  \/ db.device.declarative_management
               \/ live /\ command.name = "DeclarativeManagement"
    BY <1>1, <1>2, <2>1, ExecutedApps DEF OneManagement, Done
  <2>2. Declaring' => Declaring
    BY <1>1, <1>2, <1>3, ExecutedApps DEF Declaring, Declares, Working
  <2>3. ASSUME Declaring
        PROVE  /\ \A q \in profiles' : q.ddm
               /\ command.name \notin {"InstallProfile", "RemoveProfile"}
    <3>1. command.name \notin {"InstallProfile", "RemoveProfile"}
      BY <1>1, <1>2, <2>3 DEF OneManagement, Working
    <3>2. \A q \in profiles : q.ddm
      BY <1>1, <1>2, <2>3 DEF OneManagement
    <3> QED  BY <3>1, <3>2, ExecutedProfiles
  <2>4. command.name = "RemoveProfile" => \A q \in profiles' : q.artifact # command.artifact
    BY ExecutedProfiles
  <2> QED  BY <1>1, <1>3, <2>1, <2>2, <2>3, <2>4, ExecutedProfiles
           DEF OneManagement, Done, Working
<1>10. ASSUME NEW a \in Profiles
       PROVE  /\ ToBeReported(a) => ToBeReported(a)'
              /\ command.name \in {"InstallProfile", "RemoveProfile"} /\ a = command.artifact =>
                    ToBeReported(a)'
  BY <1>1, <1>2, <1>3, ExecutedApps DEF ToBeReported
<1>11. BelievedInstalled'
  <2> SUFFICES ASSUME NEW r \in db.rows, r.artifact \in Profiles, ~MixedManagement
               PROVE  \/ \E q \in profiles' : q.artifact = r.artifact /\ q.version = r.version
                      \/ ToBeReported(r.artifact)'
    BY <1>3, <1>8 DEF BelievedInstalled
  <2>1. CASE ToBeReported(r.artifact)
    BY <1>10, <2>1
  <2>2. CASE ~ToBeReported(r.artifact)
    <3>1. PICK q \in profiles : q.artifact = r.artifact /\ q.version = r.version
      BY <1>1, <1>2, <2>2 DEF BelievedInstalled
    <3>2. CASE q \in profiles'
      BY <3>1, <3>2
    <3>3. CASE q \notin profiles'
      <4>1. command.name \in {"InstallProfile", "RemoveProfile"} /\ q.artifact = command.artifact
        BY <3>3, ExecutedProfiles
      <4> QED  BY <1>10, <3>1, <4>1
    <3> QED  BY <3>2, <3>3
  <2> QED  BY <2>1, <2>2
<1>12. InstalledKnown'
  <2> SUFFICES ASSUME NEW q \in profiles', ~MixedManagement
               PROVE  \/ \E r \in db.rows : r.artifact = q.artifact
                      \/ ToBeReported(q.artifact)'
    BY <1>3, <1>8 DEF InstalledKnown
  <2>0. q.artifact \in Profiles
    BY ExecutedProfiles DEF Profile
  <2>1. CASE q \in profiles
    BY <1>1, <1>10, <2>0, <2>1 DEF InstalledKnown
  <2>2. CASE q \notin profiles
    <3>1. command.name = "InstallProfile" /\ q.artifact = command.artifact
      BY <2>2, ExecutedProfiles
    <3> QED  BY <1>10, <2>0, <3>1
  <2> QED  BY <2>1, <2>2
<1> QED  BY <1>4, <1>5, <1>6, <1>7, <1>9, <1>11, <1>12 DEF CommandsInv

LEMMA DeclineStep ==
    ASSUME CommandsAssumption, CommandsInv, NEW result \in Errors \cup {"NotNow"},
           Decline(result)
    PROVE  CommandsInv'
<1>1. /\ TypeOK /\ AgentShape /\ OneManagement /\ BelievedInstalled /\ InstalledKnown
      /\ status = "received" /\ status' = result
      /\ UNCHANGED <<catalog, server, notify, platform, phase, setup, profiles, apps, command,
                     list, live, poked, ddm>>
  BY DEF Decline, CommandsInv
<1>2. UNCHANGED <<db, form, overwritten, platform, phase, profiles, command, live, ddm>>
      /\ status' \notin {"Idle", "received", "Acknowledged"}
  BY <1>1 DEF catalog, server, Errors
<1>3. TypeOK'
  <2>1. edits' \in 0 .. MaxEdits /\ faults' \in 0 .. MaxFaults
    BY <1>1, FaultType DEF Decline, bounds, TypeOK
  <2>2. status' \in {"Idle", "received", "Acknowledged", "NotNow"} \cup Errors
    BY <1>1
  <2> QED  BY <1>1, <2>1, <2>2 DEF TypeOK, catalog, server
<1>4. QueueShape(db.queue)' /\ OneRowPerProfile' /\ OneConfirmedApp' /\ NoDeclarations'
  BY <1>2 DEF CommandsInv, QueueShape, CommandShape, NoCommand, Simple, Command,
              OneRowPerProfile, OneConfirmedApp, NoDeclarations, Declares
<1>5. MixedManagement <=> MixedManagement'
  BY <1>2 DEF MixedManagement
<1>6. AgentShape'
  BY <1>1, <1>2 DEF AgentShape, Clean, CommandShape, NoCommand, Simple, Command
<1>7. OneManagement'
  <2>1. Declaring' => Declaring
    BY <1>2 DEF Declaring, Declares, Working
  <2> QED  BY <1>1, <1>2, <1>5, <2>1 DEF OneManagement, Done, Working
<1>8. BelievedInstalled' /\ InstalledKnown'
  BY <1>1, <1>2, <1>5 DEF BelievedInstalled, InstalledKnown, ToBeReported
<1> QED  BY <1>3, <1>4, <1>6, <1>7, <1>8 DEF CommandsInv

LEMMA DeclaredProfiles ==
    ASSUME TypeOK
    PROVE  /\ Declared \in SUBSET Profile
           /\ \A q, r \in Declared : q.artifact = r.artifact => q = r
           /\ \A q \in Declared : q.ddm
<1>1. latest \in [Artifacts -> Versions] /\ Profiles \subseteq Artifacts
  BY DEF TypeOK, Artifacts
<1>2. \A q \in Declared :
         /\ q.artifact \in Profiles
         /\ q = [artifact |-> q.artifact, version |-> latest[q.artifact], ddm |-> TRUE]
  <2> TAKE q \in Declared
  <2>1. PICK p \in Profiles : q = [artifact |-> p, version |-> latest[p], ddm |-> TRUE]
    BY DEF Declared
  <2>2. q.artifact = p
    BY <2>1
  <2> QED  BY <2>1, <2>2
<1>3. \A p \in Profiles :
         /\ [artifact |-> p, version |-> latest[p], ddm |-> TRUE] \in Profile
         /\ [artifact |-> p, version |-> latest[p], ddm |-> TRUE].ddm
  BY <1>1 DEF Profile
<1> QED  BY <1>2, <1>3

LEMMA DeclarativeSyncStep ==
    ASSUME CommandsAssumption, CommandsInv, DeclarativeSync
    PROVE  CommandsInv'
<1>1. /\ TypeOK /\ AgentShape /\ OneManagement
      /\ phase = "enrolled" /\ ddm = "outdated" /\ ddm' = "changed"
      /\ profiles' = {q \in profiles : ~q.ddm /\ \A n \in Declared : n.artifact # q.artifact}
                     \cup Declared
      /\ UNCHANGED <<catalog, server, notify, platform, phase, setup, apps, command, status, list,
                     live, poked, bounds>>
  BY DEF DeclarativeSync, CommandsInv
<1>2. UNCHANGED <<db, form, overwritten, platform, phase, command, status, live>>
  BY <1>1 DEF catalog, server
<1>3. profiles' \in SUBSET Profile
  BY <1>1, DeclaredProfiles DEF TypeOK
<1>4. TypeOK'
  BY <1>1, <1>3 DEF TypeOK, catalog, server, bounds
<1>5. QueueShape(db.queue)' /\ OneRowPerProfile' /\ OneConfirmedApp' /\ NoDeclarations'
  BY <1>1, <1>2 DEF CommandsInv, QueueShape, CommandShape, NoCommand, Simple, Command,
                    OneRowPerProfile, OneConfirmedApp, NoDeclarations, Declares
<1>6. AgentShape'
  <2>1. CommandShape(command)'
    BY <1>1, <1>2 DEF AgentShape, CommandShape, NoCommand, Simple, Command
  <2>2. \A q, r \in profiles' : q.artifact = r.artifact => q = r
    BY <1>1, DeclaredProfiles DEF AgentShape
  <2> QED  BY <1>1, <1>2, <2>1, <2>2 DEF AgentShape
<1>7. MixedManagement <=> MixedManagement'
  BY <1>2 DEF MixedManagement
<1>8. OneManagement'
  <2> SUFFICES ASSUME ~MixedManagement PROVE OneManagement'
    BY <1>7 DEF OneManagement
  <2>1. /\ \A q \in profiles : q.ddm
        /\ ~Working("InstallProfile") /\ ~Working("RemoveProfile")
        /\ db.device.declarative_management \/ (live /\ Done("DeclarativeManagement"))
    BY <1>1 DEF OneManagement, Declaring
  <2>2. \A q \in profiles' : q.ddm
    BY <1>1, <2>1, DeclaredProfiles
  <2> QED  BY <1>2, <2>1, <2>2 DEF OneManagement, Working, Done
<1>9. BelievedInstalled' /\ InstalledKnown'
  BY <1>1 DEF BelievedInstalled, InstalledKnown, ToBeReported
<1> QED  BY <1>4, <1>5, <1>6, <1>8, <1>9 DEF CommandsInv

LEMMA StatusReportStep ==
    ASSUME CommandsAssumption, CommandsInv, StatusReport
    PROVE  CommandsInv'
<1> DEFINE appRows == {r \in db.rows : r.artifact \in Apps}
           reported(q) == [artifact |-> q.artifact, version |-> q.version, status |-> "Installed"]
           profileRows == {reported(q) : q \in {q \in profiles : q.ddm}}
           R == appRows \cup profileRows
<1>1. /\ TypeOK /\ AgentShape /\ OneManagement
      /\ phase = "enrolled" /\ ddm = "changed" /\ ddm' = "reported"
      /\ db' = [db EXCEPT !.rows = R]
      /\ UNCHANGED <<catalog, session, notify, platform, phase, setup, profiles, apps, command,
                     status, list, live, poked, bounds>>
  BY DEF StatusReport, CommandsInv
<1>2. db \in Tables /\ db.rows \in SUBSET DeviceArtifact /\ profiles \in SUBSET Profile
      /\ RowsShape(db.rows)
  BY <1>1, InvBefore DEF TypeOK, Tables, Before
<1>3. \A q \in profiles : /\ reported(q) \in DeviceArtifact
                          /\ reported(q).artifact = q.artifact
                          /\ reported(q).version = q.version
                          /\ q.artifact \in Profiles
  BY <1>2 DEF Profile, DeviceArtifact, Artifacts
<1>4. \A r \in profileRows :
        /\ r \in DeviceArtifact /\ r.artifact \in Profiles /\ r.artifact \notin Apps
        /\ \E q \in profiles : q.ddm /\ r = reported(q)
  <2> SUFFICES ASSUME NEW q \in profiles, q.ddm
               PROVE  /\ reported(q) \in DeviceArtifact
                      /\ reported(q).artifact \in Profiles /\ reported(q).artifact \notin Apps
    OBVIOUS
  <2> HIDE DEF reported
  <2> QED  BY <1>3, DisjointArtifacts
<1>5. RowsShape(R)
  <2> SUFFICES ASSUME NEW r \in R, NEW s \in R, r.artifact = s.artifact,
                      \/ r.artifact \in Profiles
                      \/ r.status # "AwaitingConfirmation" /\ s.status # "AwaitingConfirmation"
               PROVE  r = s
    BY DEF RowsShape
  <2> HIDE DEF reported, profileRows
  <2>1. CASE r.artifact \in Apps
    <3>1. r \in db.rows /\ s \in db.rows
      BY <1>4, <2>1
    <3> QED  BY <1>2, <3>1 DEF RowsShape
  <2>2. CASE r.artifact \notin Apps
    <3>1. r \in profileRows /\ s \in profileRows
      BY <2>2
    <3>2. PICK q \in profiles : r = reported(q)
      BY <1>4, <3>1
    <3>3. PICK p \in profiles : s = reported(p)
      BY <1>4, <3>1
    <3>4. q = p
      BY <1>1, <1>3, <3>2, <3>3 DEF AgentShape
    <3> QED  BY <3>2, <3>3, <3>4
  <2> QED  BY <2>1, <2>2
<1>6. \A r \in R : r.artifact \in Profiles =>
         \E q \in profiles : q.artifact = r.artifact /\ q.version = r.version
  <2> HIDE DEF reported, profileRows
  <2> QED  BY <1>3, <1>4, DisjointArtifacts
<1>7. \A q \in profiles : q.ddm => \E r \in R : r.artifact = q.artifact
  <2> TAKE q \in profiles
  <2>1. q.ddm => reported(q) \in R /\ reported(q).artifact = q.artifact
    OBVIOUS
  <2> HIDE DEF reported, R
  <2> QED  BY <2>1
<1>8. R \in SUBSET DeviceArtifact
  <2> HIDE DEF reported, profileRows
  <2> QED  BY <1>2, <1>4
<1> HIDE DEF R
<1>9. db' \in Tables /\ db'.rows = R /\ db'.queue = db.queue /\ db'.device = db.device
  BY <1>1, <1>2, <1>8 DEF Tables
<1>10. UNCHANGED <<form, overwritten, platform, phase, profiles, command, status, live>>
  BY <1>1 DEF catalog
<1>11. TypeOK'
  BY <1>1, <1>9 DEF TypeOK, catalog, bounds
<1>12. QueueShape(db.queue)' /\ NoDeclarations'
  BY <1>1, <1>9, <1>10 DEF CommandsInv, QueueShape, CommandShape, NoCommand, Simple, Command,
                           NoDeclarations, Declares
<1>13. AgentShape'
  BY <1>1, <1>10 DEF AgentShape, Clean, CommandShape, NoCommand, Simple, Command
<1>14. MixedManagement <=> MixedManagement'
  BY <1>10 DEF MixedManagement
<1>15. OneManagement'
  <2> SUFFICES ASSUME ~MixedManagement PROVE OneManagement'
    BY <1>14 DEF OneManagement
  <2>1. /\ \A q \in profiles : q.ddm
        /\ ~Working("InstallProfile") /\ ~Working("RemoveProfile")
        /\ db.device.declarative_management \/ (live /\ Done("DeclarativeManagement"))
    BY <1>1 DEF OneManagement, Declaring
  <2> QED  BY <1>9, <1>10, <2>1 DEF OneManagement, Working, Done
<1>16. OneRowPerProfile' /\ OneConfirmedApp'
  BY <1>5, <1>9 DEF RowsShape, OneRowPerProfile, OneConfirmedApp
<1>17. BelievedInstalled'
  BY <1>6, <1>9, <1>10 DEF BelievedInstalled
<1>18. InstalledKnown'
  <2> SUFFICES ASSUME NEW q \in profiles, ~MixedManagement
               PROVE  \E r \in R : r.artifact = q.artifact
    BY <1>9, <1>10, <1>14 DEF InstalledKnown
  <2>1. q.ddm
    BY <1>1 DEF OneManagement, Declaring
  <2> QED  BY <1>7, <2>1
<1> QED  BY <1>11, <1>12, <1>13, <1>15, <1>16, <1>17, <1>18 DEF CommandsInv

-----------------------------------------------------------------------------
(* The theorems.                                                            *)

LEMMA InitInv == Init => CommandsInv
<1> SUFFICES ASSUME Init PROVE CommandsInv
  OBVIOUS
<1> USE CommandsAssumption
<1>1. latest \in [Artifacts -> Versions]
  BY DEF Init, Versions, CommandsAssumption
<1>2. NoItems \in Items
  BY DEF NoItems, Items
<1>3. items \in Items
  BY <1>1, <1>2, DeclarationsType DEF Init
<1> DEFINE u == [token |-> FALSE, awaiting_configuration |-> FALSE,
                 declarative_management |-> FALSE, declarations_token |-> 0,
                 blueprint |-> FALSE]
<1>4. u \in EnrolledDevice /\ ~u.declarative_management
  BY DEF EnrolledDevice
<1>5. db = [device |-> u, created |-> FALSE, queue |-> <<>>, failed |-> {},
            accounts |-> FALSE, rows |-> {}]
  BY DEF Init
<1> HIDE DEF u
<1>6. db \in Tables /\ db.device = u /\ db.queue = <<>> /\ db.rows = {}
  BY <1>4, <1>5 DEF Tables
<1>7. NoCommand \in Commands /\ NoCommand.name = "none" /\ CommandShape(NoCommand)
  BY NoCommandShape
<1>8. apps \in [Apps -> App]
  BY DEF Init, App, CommandsAssumption
<1>9. TypeOK
  <2>1. /\ blueprint \in [Artifacts -> BlueprintArtifact \cup {Absent}]
        /\ form = NoForm /\ overwritten = FALSE /\ session \in EnrollmentSession
        /\ notify = FALSE /\ platform \in Platforms /\ phase = "authenticate"
        /\ setup \in BOOLEAN /\ profiles = {} /\ command = NoCommand /\ status = "Idle"
        /\ list = "missing" /\ live = FALSE /\ poked = FALSE /\ ddm = "off"
    BY DEF Init, NewSession, EnrollmentSession
  <2>2. edits \in 0 .. MaxEdits /\ faults \in 0 .. MaxFaults
    BY DEF Init, CommandsAssumption
  <2> QED  BY <1>1, <1>3, <1>6, <1>7, <1>8, <2>1, <2>2 DEF TypeOK
<1>10. QueueShape(db.queue) /\ ~Declares(db.queue)
  BY <1>6 DEF QueueShape, Declares
<1>11. AgentShape
  BY <1>7 DEF Init, AgentShape, Clean
<1>12. NoDeclarations
  BY <1>4, <1>6, <1>7, <1>10 DEF Init, NoDeclarations
<1>13. OneManagement
  BY DEF Init, OneManagement
<1>14. OneRowPerProfile /\ OneConfirmedApp /\ BelievedInstalled /\ InstalledKnown
  BY <1>6 DEF Init, OneRowPerProfile, OneConfirmedApp, BelievedInstalled, InstalledKnown
<1> QED  BY <1>9, <1>10, <1>11, <1>12, <1>13, <1>14 DEF CommandsInv

LEMMA AdministratorStep ==
    ASSUME CommandsAssumption, CommandsInv, Administrator
    PROVE  CommandsInv'
<1>1. ASSUME NEW a \in Artifacts, UploadVersion(a) PROVE CommandsInv'
  BY <1>1, UploadVersionStep
<1>2. ASSUME NEW a \in Artifacts, NEW ba \in BlueprintArtifact \cup {Absent},
             SetBlueprintArtifact(a, ba)
      PROVE  CommandsInv'
  BY <1>2, SetBlueprintArtifactStep
<1>3. ASSUME NEW a \in Artifacts, NEW ba \in BlueprintArtifact, UpdateBlueprintArtifact(a, ba)
      PROVE  CommandsInv'
  BY <1>3, UpdateBlueprintArtifactStep DEF UpdateBlueprintArtifact
<1>4. ASSUME NEW a \in Artifacts, TrashArtifact(a) PROVE CommandsInv'
  BY <1>4, UpdateBlueprintArtifactStep DEF TrashArtifact
<1> QED  BY <1>1, <1>2, <1>3, <1>4, OpenFormStep DEF Administrator

LEMMA DeviceStep ==
    ASSUME CommandsAssumption, CommandsInv, Device
    PROVE  CommandsInv'
BY AuthenticateStep, TokenUpdateStep, CheckOutStep, ConnectStep, SetBootstrapTokenStep,
   EnrollStep, ExecuteStep, DeclineStep, AppFinishesStep, DeclarativeSyncStep, StatusReportStep
DEF Device

LEMMA NextInv ==
    ASSUME CommandsInv, [Next]_vars
    PROVE  CommandsInv'
<1>1. CASE UNCHANGED vars
  <2>1. UNCHANGED <<latest, blueprint, items, form, overwritten, session, db, notify, platform,
                    phase, setup, profiles, apps, command, status, list, live, poked, ddm,
                    edits, faults>>
    BY <1>1 DEF vars, catalog, server, agent, bounds
  <2>2. TypeOK'
    BY <2>1 DEF CommandsInv, TypeOK
  <2> QED  BY <2>1, <2>2, ServerKept
<1> QED
  BY <1>1, CommandsAssumption, AdministratorStep, SaveFormStep, SendNotificationStep,
     DelayPassesStep, DeviceStep
  DEF Next

\* What the server, the queue and the device agree on, through commands,
\* declarations and new enrollments (commands/base.py, views/mdm.py).
THEOREM CommandsInvariant == Spec => []CommandsInv
<1>1. CommandsInv /\ [Next]_vars => CommandsInv'
  BY NextInv
<1> QED  BY InitInv, <1>1, PTL DEF Spec

\* The variables keep their types: the commands, the rows and the failures are
\* of versions that exist, and no confirmation is asked more than MaxRetries times.
THEOREM CommandTypes == Spec => []TypeOK
<1>1. CommandsInv => TypeOK
  BY DEF CommandsInv
<1> QED  BY CommandsInvariant, <1>1, PTL

\* update_or_create never finds two rows of a profile (commands/install_profile.py,
\* declarations.py).
THEOREM RowPerProfile == Spec => []OneRowPerProfile
<1>1. CommandsInv => OneRowPerProfile
  BY DEF CommandsInv
<1> QED  BY CommandsInvariant, <1>1, PTL

\* The confirmation of an app replaces the rows of its other versions
\* (commands/installed_application_list.py).
THEOREM ConfirmedAppRow == Spec => []OneConfirmedApp
<1>1. CommandsInv => OneConfirmedApp
  BY DEF CommandsInv
<1> QED  BY CommandsInvariant, <1>1, PTL

\* What the server believes of the profiles is true, or a result is on its way.
THEOREM RowsBelieved == Spec => []BelievedInstalled
<1>1. CommandsInv => BelievedInstalled
  BY DEF CommandsInv
<1> QED  BY CommandsInvariant, <1>1, PTL

\* The server knows of the profiles of the device, or a result is on its way.
THEOREM ProfilesKnown == Spec => []InstalledKnown
<1>1. CommandsInv => InstalledKnown
  BY DEF CommandsInv
<1> QED  BY CommandsInvariant, <1>1, PTL

\* Only the response to a request gives a command to the device.
LEMMA OnlyConnect ==
    ASSUME SetupEnds, Next
    PROVE  Connect(TRUE)
<1>1. status' = "received" /\ status # "received"
  BY DEF SetupEnds
<1>2. ~UNCHANGED status
  BY <1>1
<1>3. CASE Administrator \/ SaveForm \/ SendNotification \/ DelayPasses
  BY <1>2, <1>3 DEF Administrator, UploadVersion, SetBlueprintArtifact, UpdateBlueprintArtifact,
     TrashArtifact, OpenForm, SaveForm, SendNotification, DelayPasses, agent
<1>4. ~Forget
  BY <1>1 DEF Forget
<1>5. CASE SetBootstrapToken \/ Enroll \/ Execute \/ DeclarativeSync \/ StatusReport
  <2>1. CASE SetBootstrapToken
    BY <1>2, <2>1 DEF SetBootstrapToken, agent
  <2>2. CASE Enroll
    BY <1>4, <2>2 DEF Enroll
  <2>3. CASE Execute
    BY <1>1, <2>3 DEF Execute
  <2>4. CASE DeclarativeSync
    BY <1>2, <2>4 DEF DeclarativeSync
  <2>5. CASE StatusReport
    BY <1>2, <2>5 DEF StatusReport
  <2> QED  BY <1>5, <2>1, <2>2, <2>3, <2>4, <2>5
<1>6. ASSUME NEW received \in BOOLEAN,
             Authenticate(received) \/ TokenUpdate(received) \/ CheckOut(received)
      PROVE  FALSE
  BY <1>2, <1>4, <1>6 DEF Authenticate, TokenUpdate, CheckOut
<1>7. ASSUME NEW result \in Errors \cup {"NotNow"}, Decline(result) PROVE FALSE
  BY <1>1, <1>7 DEF Decline
<1>8. ASSUME NEW a \in Apps, NEW state \in {"installed", "failed"}, AppFinishes(a, state)
      PROVE  FALSE
  BY <1>2, <1>8 DEF AppFinishes
<1>9. ~Connect(FALSE)
  BY <1>2 DEF Connect, Respond
<1> QED  BY <1>3, <1>5, <1>6, <1>7, <1>8, <1>9 DEF Next, Device

LEMMA SetupEndsStep ==
    ASSUME CommandsInv, SetupEnds, ~overwritten, Connect(TRUE)
    PROVE  /\ platform \in RequiresAccounts /\ session.realm_user => db.accounts'
           /\ ~db'.device.declarative_management /\ db'.device.blueprint =>
                \A p \in Profiles :
                   blueprint[p].present /\ blueprint[p].install_before_setup_assistant =>
                      \/ \E q \in profiles : q.artifact = p
                      \/ \E v \in Versions : Failed(db', "Installation", p, v)
<1> DEFINE d == Processed
<1>1. Known(d)
  BY CommandsAssumption, ProcessedKnown DEF Connect
<1>2. status # "NotNow"
  BY DEF Connect, Respond, SetupEnds, NoCommand, Simple, Command
<1>3. PICK c \in NextCommands(d) : Respond(Dequeued(d), c, TRUE)
  BY <1>2 DEF Connect
<1> HIDE DEF d
<1>4. Sent(d, c)
  BY <1>1, CommandsAssumption, NextCommandsSent DEF CommandsInv
<1>5. c.name = "DeviceConfigured" /\ db' = Dequeued(d)
  BY <1>3 DEF Respond, SetupEnds
<1>6. /\ Due(d) = {} /\ ~AccountsMissing(d) /\ d.device.awaiting_configuration
      /\ ~d.device.declarative_management => NextToInstall(d) = {}
  BY <1>4, <1>5 DEF Sent
<1>7. db' = d
  BY <1>5, <1>6 DEF Dequeued
<1>8. platform \in RequiresAccounts /\ session.realm_user => db'.accounts
  BY <1>6, <1>7 DEF AccountsMissing
<1>9. ASSUME ~d.device.declarative_management, d.device.blueprint, NEW p \in Profiles,
             blueprint[p].present, blueprint[p].install_before_setup_assistant
      PROVE  \/ \E q \in profiles : q.artifact = p
             \/ \E v \in Versions : Failed(d, "Installation", p, v)
  <2>1. p \in Artifacts /\ p \notin Apps
    BY CommandsAssumption, DisjointArtifacts
  <2>2. InBlueprint(d, p)
    BY <1>9, <2>1 DEF InBlueprint
  <2>3. latest[p] \in Versions
    BY <2>1 DEF CommandsInv, TypeOK
  <2>4. CASE Failed(d, "Installation", p, latest[p])
    BY <2>3, <2>4
  <2>5. CASE ~Failed(d, "Installation", p, latest[p])
    <3>1. TargetVersion(d, p) # 0
      BY <1>6, <1>9, <2>1, <2>2, <2>5 DEF NextToInstall
    <3>2. PICK r \in d.rows : r.artifact = p
      BY <1>1, <2>1, <3>1, CommandsAssumption, TargetVersionKnown DEF Known
    <3>3. ~MixedManagement
      BY DEF MixedManagement
    <3>4. ddm = "off"
      BY <1>1, <1>9, <3>3 DEF Known, CommandsInv, OneManagement
    <3> QED  BY <1>1, <3>2, <3>3, <3>4 DEF Known
  <2> QED  BY <2>4, <2>5
<1>10. db.accounts' = db'.accounts
  OBVIOUS
<1> QED  BY <1>7, <1>8, <1>9, <1>10

\* The device leaves the setup assistant last (models.py, the next artifact of
\* a device that awaits its configuration, and commands/device_configured.py).
THEOREM SetupLast == Spec => DeviceConfiguredLast
<1>1. ASSUME CommandsInv, [Next]_vars, SetupEnds, ~overwritten
      PROVE  /\ platform \in RequiresAccounts /\ session.realm_user => db.accounts'
             /\ ~db'.device.declarative_management /\ db'.device.blueprint =>
                  \A p \in Profiles :
                     blueprint[p].present /\ blueprint[p].install_before_setup_assistant =>
                        \/ \E q \in profiles : q.artifact = p
                        \/ \E v \in Versions : Failed(db', "Installation", p, v)
  <2>1. CASE UNCHANGED vars
    BY <1>1, <2>1 DEF SetupEnds, vars, agent
  <2>2. CASE Next
    BY <1>1, <2>2, OnlyConnect, SetupEndsStep
  <2> QED  BY <1>1, <2>1, <2>2
<1>2. CommandsInv /\ [Next]_vars =>
        [SetupEnds /\ ~overwritten =>
           /\ platform \in RequiresAccounts /\ session.realm_user => db.accounts'
           /\ ~db'.device.declarative_management /\ db'.device.blueprint =>
                \A p \in Profiles :
                   blueprint[p].present /\ blueprint[p].install_before_setup_assistant =>
                      \/ \E q \in profiles : q.artifact = p
                      \/ \E v \in Versions : Failed(db', "Installation", p, v)]_vars
  BY <1>1
<1> QED  BY CommandsInvariant, <1>2, PTL DEF Spec, DeviceConfiguredLast
=============================================================================
