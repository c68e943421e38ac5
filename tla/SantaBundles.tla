--------------------------- MODULE SantaBundles ---------------------------
(***************************************************************************)
(* A bundle and its binaries, as the agents upload them: an agent that     *)
(* blocks a binary of a bundle sends an event with the hash of the bundle, *)
(* the server asks for the binaries of the bundles it does not know, and   *)
(* the agent sends them in several requests.  The bundle is for the rules  *)
(* once the server has all its binaries.  Bundles share nothing: there is  *)
(* one.                                                                    *)
(*                                                                         *)
(* A request is a READ COMMITTED transaction, each of its actions a        *)
(* statement and what follows it.  The targets of the bundle and of the    *)
(* binaries, which are never deleted, are left out, as are the files and   *)
(* the events that a request stores besides.                               *)
(***************************************************************************)
EXTENDS Naturals, FiniteSets

CONSTANTS
    Agents,        \* the machines that have the bundle
    Requests,      \* the event uploads that are processed at a time
    Binaries,      \* the binaries of the bundle
    Counts,        \* what the events say of their number: it, or 0 for nothing
    BatchSize,     \* the number of binaries of a request
    None,          \* no row, no agent
    MaxLost        \* bound on the connections and the requests that are lost

ASSUME BinariesAssumption == IsFiniteSet(Binaries) /\ Binaries # {}
ASSUME CountsAssumption == Counts \subseteq {0, Cardinality(Binaries)}
ASSUME BatchSizeAssumption == BatchSize \in Nat \ {0} /\ MaxLost \in Nat

Bundle == [binary_count : Counts \cup {Cardinality(Binaries)}, uploaded : BOOLEAN]

ASSUME NoneAssumption == None \notin Bundle \cup Agents

VARIABLES
    bundle,          \* the row of the bundle, without its binaries
    binary_targets,  \* the binaries of the bundle
    todo,            \* the binaries the server has asked each agent for
    upload,          \* the requests that are being processed
    step,              \* their next statement
    read,            \* the bundle they have read, as it was then
    missing,         \* the binaries they have to add to it
    added,           \* those they have added
    written,         \* the row they have written
    lost             \* a counter, for the bound

agentVars == <<todo, upload>>
txVars == <<read, missing, added, written>>
bundleVars == <<bundle, binary_targets, agentVars, step, txVars, lost>>

\* What a request holds: whether it has the event of a blocked binary, the
\* binaries of the bundle, and the number of binaries its events tell.
Upload == [agent : Agents \cup {None}, event : BOOLEAN,
           binaries : SUBSET Binaries, count : Counts \cup {Cardinality(Binaries)}]
NoUpload == [agent |-> None, event |-> FALSE, binaries |-> {}, count |-> 0]

BundlesTypeOK ==
    /\ bundle \in Bundle \cup {None}
    /\ binary_targets \subseteq Binaries
    /\ todo \in [Agents -> SUBSET Binaries]
    /\ upload \in [Requests -> Upload \cup {NoUpload}]
    /\ step \in [Requests -> {"idle", "event", "create", "get", "add", "insert",
                            "save", "commit", "failed"}]
    /\ read \in [Requests -> Bundle \cup {None}]
    /\ missing \in [Requests -> SUBSET Binaries]
    /\ added \in [Requests -> SUBSET Binaries]
    /\ written \in [Requests -> Bundle \cup {None}]
    /\ lost \in 0 .. MaxLost

\* Nothing has been uploaded, or all the binaries have.
BundlesInit ==
    /\ \/ bundle = None /\ binary_targets = {}
       \/ /\ bundle = [binary_count |-> Cardinality(Binaries), uploaded |-> TRUE]
          /\ binary_targets = Binaries
    /\ todo = [a \in Agents |-> {}]
    /\ upload = [r \in Requests |-> NoUpload]
    /\ step = [r \in Requests |-> "idle"]
    /\ read = [r \in Requests |-> None]
    /\ missing = [r \in Requests |-> {}]
    /\ added = [r \in Requests |-> {}]
    /\ written = [r \in Requests |-> None]
    /\ lost = 0

-----------------------------------------------------------------------------
\* The agents, from what the server expects of them.

Waits(a) == \E r \in Requests : upload[r].agent = a

Send(r, a, request) ==
    /\ step[r] = "idle"
    /\ ~ Waits(a)
    /\ upload' = [upload EXCEPT ![r] = request]
    /\ step' = [step EXCEPT ![r] = "event"]
    /\ UNCHANGED <<bundle, binary_targets, todo, txVars, lost>>

\* A binary of the bundle is blocked.
Block(r, a) ==
    \E count \in Counts :
        Send(r, a, [agent |-> a, event |-> TRUE, binaries |-> {}, count |-> count])

\* The next binaries the server has asked for, b and others.
UploadBinaries(r, a, b) ==
    \E batch \in SUBSET todo[a] :
        /\ b \in batch
        /\ Cardinality(batch) <= BatchSize
        /\ Send(r, a, [agent |-> a, event |-> FALSE, binaries |-> batch,
                       count |-> Cardinality(Binaries)])

\* The connection of an agent is lost, it does not wait for the reply any more.
GiveUp(r) ==
    /\ lost < MaxLost
    /\ upload[r].agent # None
    /\ upload' = [upload EXCEPT ![r].agent = None]
    /\ lost' = lost + 1
    /\ UNCHANGED <<bundle, binary_targets, todo, step, txVars>>

\* An agent does not go on with the upload.
Forget(a) ==
    /\ lost < MaxLost
    /\ todo[a] # {}
    /\ todo' = [todo EXCEPT ![a] = {}]
    /\ lost' = lost + 1
    /\ UNCHANGED <<bundle, binary_targets, upload, step, txVars>>

-----------------------------------------------------------------------------
\* The rows a request sees.
SeenBundle(r) == IF written[r] # None THEN written[r] ELSE bundle
SeenBinaries(r) == binary_targets \cup added[r]

At(r, statement) == step[r] = statement
Goto(r, statement) == step' = [step EXCEPT ![r] = statement]

\* Another request has written the bundle, and is not finished yet.
Written(r) == \E q \in Requests \ {r} : written[q] # None

\* _create_missing_bundles: the bundles of the events that are not uploaded
\* are asked for, and get_or_create looks for their rows.
FindBundle(r) ==
    /\ At(r, "event")
    /\ Goto(r, IF upload[r].event /\ bundle = None THEN "create" ELSE "get")
    /\ read' = [read EXCEPT ![r] = IF upload[r].event THEN bundle ELSE None]
    /\ UNCHANGED <<bundle, binary_targets, agentVars, missing, added, written, lost>>

\* get_or_create: a row that was created in the meantime is found.
CreateBundle(r) ==
    /\ At(r, "create")
    /\ ~ Written(r)
    /\ written' = [written EXCEPT ![r] =
                     IF bundle # None THEN None
                     ELSE [binary_count |-> upload[r].count, uploaded |-> FALSE]]
    /\ Goto(r, "get")
    /\ UNCHANGED <<bundle, binary_targets, agentVars, read, missing, added, lost>>

\* Variant: the binaries are asked for when the bundle is created.
UnknownNew(r) == upload[r].event /\ read[r] = None
\* A request is asked for the binaries unless the bundle was uploaded when the
\* request looked for it, "to recover from blocked uploads".
Unknown(r) == upload[r].event /\ (read[r] = None \/ ~ read[r].uploaded)

\* _create_bundle_binaries: the binaries of unknown and of uploaded bundles are
\* ignored.
GetBundle(r) ==
    /\ At(r, "get")
    /\ IF \/ upload[r].binaries = {}
          \/ SeenBundle(r) = None
          \/ SeenBundle(r) # None /\ SeenBundle(r).uploaded
       THEN /\ Goto(r, "commit")
            /\ UNCHANGED read
       ELSE /\ Goto(r, "add")
            /\ read' = [read EXCEPT ![r] = SeenBundle(r)]
    /\ UNCHANGED <<bundle, binary_targets, agentVars, missing, added, written, lost>>

\* binary_targets.add: the rows that are missing are looked for...
FindMissing(r) ==
    /\ At(r, "add")
    /\ missing' = [missing EXCEPT ![r] = upload[r].binaries \ SeenBinaries(r)]
    /\ Goto(r, "insert")
    /\ UNCHANGED <<bundle, binary_targets, agentVars, read, added, written, lost>>

\* ... and inserted.  The one that is not committed yet in another transaction
\* has to be waited for.
InsertBinary(r, b) ==
    /\ At(r, "insert")
    /\ b \in missing[r]
    /\ \A q \in Requests \ {r} : b \notin added[q]
    /\ missing' = [missing EXCEPT ![r] = @ \ {b}]
    /\ added' = [added EXCEPT ![r] = (@ \cup {b}) \ binary_targets]
    /\ UNCHANGED <<bundle, binary_targets, agentVars, step, read, written, lost>>

\* The one that was committed in the meantime is ignored, as above, or is an
\* error if the database is not told to ignore the conflicts.
Conflict(r) ==
    /\ At(r, "insert")
    /\ missing[r] \cap binary_targets # {}
    /\ Goto(r, "failed")
    /\ UNCHANGED <<bundle, binary_targets, agentVars, txVars, lost>>

\* Two requests that wait for each other: the database aborts one of them.
Deadlocked(r) ==
    /\ At(r, "insert")
    /\ \E q \in Requests \ {r} : At(q, "insert") /\ added[q] \cap missing[r] # {}
                                                 /\ added[r] \cap missing[q] # {}
    /\ Goto(r, "failed")
    /\ UNCHANGED <<bundle, binary_targets, agentVars, txVars, lost>>

\* Variant: the binaries of the request are counted again.
CompleteTwice(r, count) == Cardinality(binary_targets) + Cardinality(upload[r].binaries) = count
Complete(r, count) == Cardinality(SeenBinaries(r)) = count

\* The number of binaries, then the comparison with the count of the bundle, or
\* with the one of the request if the bundle has none.
CountBinaries(r) ==
    LET count == IF read[r].binary_count # 0 THEN read[r].binary_count ELSE upload[r].count
        complete == count # 0 /\ Complete(r, count)
    IN  /\ At(r, "insert")
        /\ missing[r] = {}
        /\ read' = [read EXCEPT ![r] = [binary_count |-> count,
                                        uploaded |-> complete]]
        /\ Goto(r, IF complete \/ count # read[r].binary_count THEN "save" ELSE "commit")
        /\ UNCHANGED <<bundle, binary_targets, agentVars, missing, added, written, lost>>

\* bundle.save() writes the whole row.
SaveBundle(r) ==
    /\ At(r, "save")
    /\ ~ Written(r)
    /\ written' = [written EXCEPT ![r] = read[r]]
    /\ Goto(r, "commit")
    /\ UNCHANGED <<bundle, binary_targets, agentVars, read, missing, added, lost>>

Finish(r) ==
    /\ upload' = [upload EXCEPT ![r] = NoUpload]
    /\ Goto(r, "idle")
    /\ read' = [read EXCEPT ![r] = None]
    /\ missing' = [missing EXCEPT ![r] = {}]
    /\ added' = [added EXCEPT ![r] = {}]
    /\ written' = [written EXCEPT ![r] = None]
    /\ UNCHANGED lost

\* The agent, if it still waits, has the reply: the binaries are requested, or
\* have been received.
CommitUpload(r) ==
    /\ At(r, "commit")
    /\ bundle' = SeenBundle(r)
    /\ binary_targets' = SeenBinaries(r)
    /\ todo' = [a \in Agents |->
                  IF a # upload[r].agent THEN todo[a]
                  ELSE IF Unknown(r) THEN Binaries
                  ELSE todo[a] \ upload[r].binaries]
    /\ Finish(r)

\* The transaction is rolled back.
FailUpload(r) ==
    /\ At(r, "failed")
    /\ Finish(r)
    /\ UNCHANGED <<bundle, binary_targets, todo>>

ProcessUpload(r) ==
    \/ FindBundle(r) \/ CreateBundle(r) \/ GetBundle(r) \/ FindMissing(r)
    \/ \E b \in Binaries : InsertBinary(r, b)
    \/ Conflict(r) \/ Deadlocked(r) \/ CountBinaries(r) \/ SaveBundle(r)
    \/ CommitUpload(r) \/ FailUpload(r)

BundlesNext ==
    \/ \E r \in Requests, a \in Agents :
         Block(r, a) \/ \E b \in Binaries : UploadBinaries(r, a, b)
    \/ \E r \in Requests : GiveUp(r) \/ ProcessUpload(r)
    \/ \E a \in Agents : Forget(a)

-----------------------------------------------------------------------------
\* A bundle that is for the rules has all its binaries: uploaded_at is set when
\* they have been counted, in whatever requests they came.
UploadedComplete == bundle # None /\ bundle.uploaded => binary_targets = Binaries

\* A bundle that is for the rules stays so.  bundle.save() of another request,
\* which has read it before, may write its old uploaded_at.
UploadedStays == [][bundle # None /\ bundle.uploaded => bundle'.uploaded]_bundleVars

\* A bundle that is blocked again and again gets uploaded in the end, whatever
\* uploads were given up and whatever writes were lost: the filter of
\* _create_missing_bundles is there "to recover from blocked uploads".
GetsUploaded == <>[](bundle # None /\ bundle.uploaded)

\* The inductive invariant: who holds an uploaded bundle sees all its binaries.
BundleInv ==
    /\ BundlesTypeOK
    /\ UploadedComplete
    /\ \A r \in Requests :
         /\ step[r] # "idle" => upload[r] \in Upload
         /\ step[r] \in {"add", "insert", "save"} => read[r] # None
         /\ read[r] # None /\ read[r].uploaded => SeenBinaries(r) = Binaries
         /\ written[r] # None /\ written[r].uploaded => SeenBinaries(r) = Binaries

=============================================================================
