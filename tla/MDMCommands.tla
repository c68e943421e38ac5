---------------------------- MODULE MDMCommands ----------------------------
(* The MDM commands of a device: what the server sends it when it connects, *)
(* what it keeps of its answers, and the artifacts of its blueprint.        *)
(* zentral/contrib/mdm: commands/, views/mdm.py, views/management.py,       *)
(* declarations.py, and the choice of the next artifact in models.py.       *)
(*                                                                          *)
(* One device, its channel (not the one of its users), and one blueprint.   *)
(* The requests of a device take a lock on its enrollment session and are   *)
(* transactions: each is one step, and a failed one changes nothing.        *)
EXTENDS Integers, FiniteSets, Sequences, SequencesExt

CONSTANTS
    Profiles,         \* the artifacts of type Profile
    Apps,             \* the artifacts of type EnterpriseApp
    Bundled,          \* the apps with bundles: their installation is confirmed
    MaxVersion,       \* bound of the version of an artifact
    Rejected,         \* the artifact versions the device cannot install
    Platforms,        \* the platforms of the device
    RequiresAccounts, \* the platforms dep_enrollment.requires_account_configuration() on
    MaxRetries,       \* retries of InstalledApplicationList, 10 in the code
    NoArtifact,
    NoForm,
    MaxEdits,         \* bound of the operations of the administrators and of the
                      \* new enrollments of the device
    MaxFaults         \* bound of the lost responses and of the failures

Artifacts == Profiles \cup Apps
Versions == 1 .. MaxVersion
ArtifactVersion == [artifact : Artifacts, version : Versions]

ASSUME CommandsAssumption ==
    /\ Bundled \subseteq Apps
    /\ Profiles \cap Apps = {}
    /\ NoArtifact \notin Artifacts
    /\ MaxVersion \in Nat \ {0} /\ MaxRetries \in Nat
    /\ MaxEdits \in Nat /\ MaxFaults \in Nat
    /\ Rejected \subseteq ArtifactVersion
    /\ Platforms \subseteq {"macOS", "iOS"}
    /\ RequiresAccounts \subseteq Platforms

VARIABLES
    latest,       \* the last version of each artifact
    blueprint,    \* the BlueprintArtifact rows, by artifact
    items,        \* declaration_items of the blueprint
    form,         \* the row an administrator is changing the blueprint of
    overwritten,  \* history: such a row has replaced what the device had changed
    session,      \* the enrollment session of the device
    db,           \* the EnrolledDevice row, its commands and DeviceArtifact rows
    notify,       \* a notification task is scheduled
    platform, phase, setup, profiles, apps, command, status, list, live, poked, ddm,
                  \* the device: see below
    edits, faults

catalog == <<latest, blueprint, items, form, overwritten>>
server == <<session, db>>
agent == <<platform, phase, setup, profiles, apps, command, status, list, live, poked, ddm>>
bounds == <<edits, faults>>
vars == <<catalog, server, notify, agent, bounds>>

-----------------------------------------------------------------------------
(* The tables.                                                             *)

Absent == [present |-> FALSE, install_before_setup_assistant |-> FALSE, auto_update |-> FALSE]
BlueprintArtifact ==
    [present : {TRUE}, install_before_setup_assistant : BOOLEAN, auto_update : BOOLEAN]

\* realm_user: the session has one. A device in its setup assistant has a
\* session of a DEP enrollment.
EnrollmentSession ==
    [status : {"SCEP_VERIFIED", "AUTHENTICATED", "COMPLETED"}, realm_user : BOOLEAN]
NewSession == [status : {"SCEP_VERIFIED"}, realm_user : BOOLEAN]

EnrolledDevice ==
    [token : BOOLEAN, awaiting_configuration : BOOLEAN, declarative_management : BOOLEAN,
     declarations_token : Nat, blueprint : BOOLEAN]

DeviceArtifact ==
    [artifact : Artifacts, version : Versions,
     status : {"Acknowledged", "AwaitingConfirmation", "Installed"}]

CommandNames ==
    {"DeviceInformation", "AccountConfiguration", "InstallProfile",
     "InstallEnterpriseApplication", "InstalledApplicationList", "RemoveProfile",
     "DeclarativeManagement", "DeviceConfigured"}

\* delayed: not_before is in the future.
Command(name, artifact, version) ==
    [name |-> name, artifact |-> artifact, version |-> version,
     retries |-> 0, delayed |-> FALSE]
Simple(name) == Command(name, NoArtifact, 0)
NoCommand == Simple("none")

Commands ==
    [name : CommandNames \cup {"none"}, artifact : Artifacts \cup {NoArtifact},
     version : 0 .. MaxVersion, retries : 0 .. MaxRetries, delayed : BOOLEAN]

\* The commands with a status Error, for the artifact operations.
Failure == [operation : {"Installation", "Removal"}, artifact : Artifacts, version : Versions]

Operation(c) == IF c.name = "RemoveProfile" THEN "Removal" ELSE "Installation"
IsOperation(c) ==
    c.name \in {"InstallProfile", "InstallEnterpriseApplication", "RemoveProfile"}

Errors == {"Error", "CommandFormatError"}

Tables ==
    [device : EnrolledDevice, created : BOOLEAN, queue : Seq(Commands),
     failed : SUBSET Failure, accounts : BOOLEAN, rows : SUBSET DeviceArtifact]
Items == [token : Nat, versions : SUBSET ArtifactVersion]
Profile == [artifact : Profiles, version : Versions, ddm : BOOLEAN]
App == [version : 0 .. MaxVersion, state : {"none", "installing", "installed", "failed"}]

TypeOK ==
    /\ latest \in [Artifacts -> Versions]
    /\ blueprint \in [Artifacts -> BlueprintArtifact \cup {Absent}]
    /\ items \in Items
    /\ form \in EnrolledDevice \cup {NoForm} /\ overwritten \in BOOLEAN
    /\ session \in EnrollmentSession
    /\ db \in Tables
    /\ notify \in BOOLEAN
    /\ platform \in Platforms
    /\ phase \in {"authenticate", "token_update", "enrolled", "unenrolled"}
    /\ setup \in BOOLEAN /\ live \in BOOLEAN /\ poked \in BOOLEAN
    /\ profiles \subseteq Profile
    /\ apps \in [Apps -> App]
    /\ command \in Commands
    /\ status \in {"Idle", "received", "Acknowledged", "NotNow"} \cup Errors
    /\ list \in {"missing", "installing", "installed", "failed", "failed_and_installing"}
    /\ ddm \in {"off", "outdated", "changed", "reported"}
    /\ edits \in 0 .. MaxEdits /\ faults \in 0 .. MaxFaults

\* update_blueprint_activation and update_blueprint_declaration_items: a new
\* token when the declarations of the profiles of the blueprint change.
Declarations(old, bp, versions) ==
    LET new == {[artifact |-> p, version |-> versions[p]] : p \in {p \in Profiles : bp[p].present}}
    IN IF old.token # 0 /\ old.versions = new
       THEN old
       ELSE [token |-> old.token + 1, versions |-> new]

\* The declarations of a blueprint that never had an artifact.
NoItems == [token |-> 0, versions |-> {}]

Init ==
    /\ latest = [a \in Artifacts |-> 1]
    /\ blueprint \in [Artifacts -> BlueprintArtifact \cup {Absent}]
    /\ items = IF \E a \in Artifacts : blueprint[a].present
               THEN Declarations(NoItems, blueprint, latest)
               ELSE NoItems
    /\ form = NoForm /\ overwritten = FALSE
    /\ session \in NewSession
    /\ db = [device |-> [token |-> FALSE, awaiting_configuration |-> FALSE,
                         declarative_management |-> FALSE, declarations_token |-> 0,
                         blueprint |-> FALSE],
             created |-> FALSE, queue |-> <<>>, failed |-> {}, accounts |-> FALSE, rows |-> {}]
    /\ notify = FALSE
    /\ platform \in Platforms
    /\ phase = "authenticate" /\ setup \in BOOLEAN
    /\ profiles = {} /\ apps = [a \in Apps |-> [version |-> 0, state |-> "none"]]
    /\ command = NoCommand /\ status = "Idle" /\ list = "missing"
    /\ live = FALSE /\ poked = FALSE /\ ddm = "off"
    /\ edits = 0 /\ faults = 0

Edit == edits < MaxEdits /\ edits' = edits + 1 /\ UNCHANGED faults
Fault == faults < MaxFaults /\ faults' = faults + 1 /\ UNCHANGED edits

\* A response is received, or lost.
Delivered(received) == IF received THEN UNCHANGED bounds ELSE Fault

-----------------------------------------------------------------------------
(* The administrators. The notifications are sent once the transaction is  *)
(* committed.                                                              *)

\* UploadProfileForm.save, UploadEnterpriseAppForm.save: the next version.
UploadVersion(a) ==
    /\ Edit
    /\ latest[a] < MaxVersion
    /\ latest' = [latest EXCEPT ![a] = @ + 1]
    /\ items' = IF a \in Profiles /\ blueprint[a].present
                THEN Declarations(items, blueprint, latest')
                ELSE items
    /\ notify' = (notify \/ blueprint[a].present)
    /\ UNCHANGED <<blueprint, form, overwritten, server, agent>>

\* Variant: the devices are not notified.
SetBlueprintArtifactSilently(a, ba) ==
    /\ Edit
    /\ blueprint[a].present # ba.present
    /\ blueprint' = [blueprint EXCEPT ![a] = ba]
    /\ items' = Declarations(items, blueprint', latest)
    /\ UNCHANGED <<latest, form, overwritten, server, notify, agent>>

\* CreateBlueprintArtifactView and DeleteBlueprintArtifactView.
SetBlueprintArtifact(a, ba) ==
    /\ Edit
    /\ blueprint[a].present # ba.present
    /\ blueprint' = [blueprint EXCEPT ![a] = ba]
    /\ items' = Declarations(items, blueprint', latest)
    /\ notify' = TRUE
    /\ UNCHANGED <<latest, form, overwritten, server, agent>>

\* UpdateBlueprintArtifactView: the declarations are not updated.
UpdateBlueprintArtifact(a, ba) ==
    /\ Edit
    /\ blueprint[a].present /\ ba.present /\ ba # blueprint[a]
    /\ blueprint' = [blueprint EXCEPT ![a] = ba]
    /\ notify' = TRUE
    /\ UNCHANGED <<latest, items, form, overwritten, server, agent>>

\* TrashArtifactView: the declarations are not updated.
TrashArtifact(a) ==
    /\ Edit
    /\ blueprint[a].present
    /\ blueprint' = [blueprint EXCEPT ![a] = Absent]
    /\ notify' = TRUE
    /\ UNCHANGED <<latest, items, form, overwritten, server, agent>>

\* ChangeEnrolledDeviceBlueprintView reads the row of the device without a lock...
OpenForm ==
    /\ Edit
    /\ form = NoForm
    /\ db.created
    /\ form' = db.device
    /\ UNCHANGED <<latest, blueprint, items, overwritten, server, notify, agent>>

\* ... and saves all of it, with the new blueprint.
SaveForm ==
    /\ form # NoForm
    /\ db' = [db EXCEPT !.device = [form EXCEPT !.blueprint = ~form.blueprint]]
    /\ notify' = (notify \/ db.device.blueprint = form.blueprint)
    /\ form' = NoForm
    /\ overwritten' = (overwritten \/ form # db.device)
    /\ UNCHANGED <<latest, blueprint, items, session, agent, bounds>>

Administrator ==
    \/ \E a \in Artifacts :
         \/ UploadVersion(a)
         \/ \E ba \in BlueprintArtifact \cup {Absent} : SetBlueprintArtifact(a, ba)
         \/ \E ba \in BlueprintArtifact : UpdateBlueprintArtifact(a, ba)
         \/ TrashArtifact(a)
    \/ OpenForm

-----------------------------------------------------------------------------
(* Notifications.                                                          *)

\* _send_enrolled_device_notification, in a task. The notification service
\* keeps the notification until the device is there.
SendNotification ==
    /\ notify
    /\ notify' = FALSE
    /\ poked' = (poked \/ (db.device.token /\ phase = "enrolled"))
    /\ UNCHANGED <<catalog, server, platform, phase, setup, profiles, apps, command, status,
                   list, live, ddm, bounds>>

\* The not_before of a queued command is over. Its notification was delayed too.
DelayPasses ==
    /\ \E i \in DOMAIN db.queue :
         /\ db.queue[i].delayed
         /\ db' = [db EXCEPT !.queue[i].delayed = FALSE]
    /\ notify' = TRUE
    /\ UNCHANGED <<catalog, session, agent, bounds>>

-----------------------------------------------------------------------------
(* CheckinView.                                                            *)

\* Variant: only the commands are deleted.
PurgedCommands(d) ==
    [d EXCEPT !.device.declarative_management = FALSE,
              !.queue = <<>>, !.failed = {}, !.accounts = FALSE]

\* EnrolledDevice.purge_state, and the commands and rows deleted with it.
Purged(d) ==
    [d EXCEPT !.device.declarative_management = FALSE,
              !.queue = <<>>, !.failed = {}, !.accounts = FALSE, !.rows = {}]

\* do_authenticate. A session authenticates once: the second time, the
\* transaction is rolled back.
Authenticate(received) ==
    /\ phase = "authenticate"
    /\ session.status = "SCEP_VERIFIED"
    /\ session' = [session EXCEPT !.status = "AUTHENTICATED"]
    /\ db' = [Purged(db) EXCEPT
                !.created = TRUE,
                !.device.token = FALSE,
                !.device.awaiting_configuration = FALSE,
                !.queue = <<Simple("DeviceInformation")>>
                          \o IF platform = "iOS" THEN <<Simple("DeclarativeManagement")>> ELSE <<>>]
    /\ Delivered(received)
    /\ phase' = IF received THEN "token_update" ELSE phase
    /\ UNCHANGED <<catalog, notify, platform, setup, profiles, apps, command, status, list,
                   live, poked, ddm>>

\* do_token_update: the device gets the blueprint of its enrollment back.
TokenUpdate(received) ==
    /\ phase \in {"token_update", "enrolled"}
    /\ session' = [session EXCEPT !.status = "COMPLETED"]
    /\ db' = [db EXCEPT !.device.token = TRUE,
                        !.device.blueprint = TRUE,
                        !.device.awaiting_configuration = setup]
    /\ notify' = TRUE
    /\ Delivered(received)
    /\ phase' = IF received THEN "enrolled" ELSE phase
    /\ UNCHANGED <<catalog, platform, setup, profiles, apps, command, status, list, live,
                   poked, ddm>>

\* do_set_bootstrap_token.
SetBootstrapToken ==
    /\ phase = "enrolled"
    /\ db.device.awaiting_configuration # setup
    /\ db' = [db EXCEPT !.device.awaiting_configuration = setup]
    /\ UNCHANGED <<catalog, session, notify, agent, bounds>>

\* The device forgets its profiles, its apps and the command it has.
Forget ==
    /\ profiles' = {}
    /\ apps' = [a \in Apps |-> [version |-> 0, state |-> "none"]]
    /\ command' = NoCommand /\ status' = "Idle" /\ list' = "missing"
    /\ live' = FALSE /\ poked' = FALSE /\ ddm' = "off"

\* The enrollment is removed on the device. The CheckOut message may be lost.
CheckOut(received) ==
    /\ phase = "enrolled"
    /\ Delivered(received)
    /\ db' = IF received THEN [Purged(db) EXCEPT !.device.token = FALSE] ELSE db
    /\ phase' = "unenrolled"
    /\ Forget
    /\ UNCHANGED <<catalog, session, notify, platform, setup>>

\* The device enrolls again, with a new session.
Enroll ==
    /\ Edit
    /\ session' \in NewSession
    /\ phase' = "authenticate"
    /\ setup' \in BOOLEAN
    /\ Forget
    /\ UNCHANGED <<catalog, db, notify, platform>>

-----------------------------------------------------------------------------
(* The next command.                                                       *)

\* Variant: during the setup assistant, the artifacts that are installed after it.
InBlueprintAfter(d, a) ==
    /\ d.device.blueprint
    /\ blueprint[a].present
    /\ a \in Apps => platform = "macOS"
    /\ blueprint[a].install_before_setup_assistant => ~d.device.awaiting_configuration

\* The artifacts of the blueprint that count: before the end of the setup
\* assistant, only those that are installed before it.
InBlueprint(d, a) ==
    /\ d.device.blueprint
    /\ blueprint[a].present
    /\ a \in Apps => platform = "macOS"
    /\ d.device.awaiting_configuration => blueprint[a].install_before_setup_assistant

\* The version of an artifact the device is known to have, 0 for none.
TargetVersion(d, a) == Max({0} \cup {r.version : r \in {r \in d.rows : r.artifact = a}})

Failed(d, operation, a, v) ==
    [operation |-> operation, artifact |-> a, version |-> v] \in d.failed

\* ArtifactVersionManager.next_to_install, in any order of priority.
NextToInstall(d) ==
    {a \in Artifacts :
       /\ InBlueprint(d, a)
       /\ ~Failed(d, "Installation", a, latest[a])
       /\ \/ TargetVersion(d, a) = 0
          \/ TargetVersion(d, a) # latest[a] /\ blueprint[a].auto_update}

\* ArtifactVersionManager.next_to_remove.
NextToRemove(d) ==
    {p \in Profiles :
       /\ TargetVersion(d, p) # 0
       /\ ~Failed(d, "Removal", p, TargetVersion(d, p))
       /\ ~InBlueprint(d, p)}

Installation(a) ==
    Command(IF a \in Profiles THEN "InstallProfile" ELSE "InstallEnterpriseApplication",
            a, latest[a])

Due(d) == {i \in DOMAIN d.queue : ~d.queue[i].delayed}

\* Variant: the accounts are not configured with a realm user.
AccountsMissingAdmin(d) ==
    /\ d.device.awaiting_configuration
    /\ platform \in RequiresAccounts
    /\ ~session.realm_user
    /\ ~d.accounts

\* _configure_dep_enrollment_accounts. Without a realm user, an error is logged
\* and the accounts are left out, also when the enrollment requires them for the
\* administrator that it has.
AccountsMissing(d) ==
    /\ d.device.awaiting_configuration
    /\ platform \in RequiresAccounts
    /\ session.realm_user
    /\ ~d.accounts

\* _trigger_declarative_management.
Undeclared(d) ==
    /\ d.device.declarative_management
    /\ d.device.blueprint
    /\ d.device.declarations_token # items.token

\* get_next_command_response: the possible commands; the empty set when the
\* code raises an exception, and the transaction is rolled back.
NextCommands(d) ==
    CASE Due(d) # {} -> {d.queue[Min(Due(d))]}
      [] Due(d) = {} /\ AccountsMissing(d) ->
           \* AccountConfiguration is for macOS: create_for_device raises.
           {c \in {Simple("AccountConfiguration")} : platform = "macOS"}
      [] OTHER ->
           LET install == IF d.device.declarative_management THEN {} ELSE NextToInstall(d)
               remove == IF d.device.declarative_management THEN {} ELSE NextToRemove(d)
           IN CASE install # {} -> {Installation(a) : a \in install}
                [] install = {} /\ remove # {} ->
                     {Command("RemoveProfile", p, TargetVersion(d, p)) : p \in remove}
                [] install = {} /\ remove = {} /\ Undeclared(d) ->
                     \* declarations_token raises KeyError when there are none.
                     {c \in {Simple("DeclarativeManagement")} : items.token # 0}
                [] OTHER -> {IF d.device.awaiting_configuration
                             THEN Simple("DeviceConfigured") ELSE NoCommand}

\* _get_next_queued_command sets the time of the command: it is not sent again.
Dequeued(d) == IF Due(d) = {} THEN d ELSE [d EXCEPT !.queue = RemoveAt(@, Min(Due(d)))]

-----------------------------------------------------------------------------
(* ConnectView: the result of a command, and the next command.             *)

Row(c, row_status) == [artifact |-> c.artifact, version |-> c.version, status |-> row_status]
RowsOf(d, a) == {r \in d.rows : r.artifact = a}

\* The status of a row is not in the defaults of InstallProfile: a row that
\* exists keeps its own.
ProfileStatus(d, p) ==
    IF RowsOf(d, p) = {} THEN "Acknowledged" ELSE (CHOOSE r \in RowsOf(d, p) : TRUE).status

\* update_or_create of the row of a version, and the deletion of the other
\* versions before it. Without the deletion, AddedRow is a variant of OnlyRow.
AddedRow(d, c, row_status) ==
    {r \in d.rows : r.artifact # c.artifact \/ r.version # c.version} \cup {Row(c, row_status)}
OnlyRow(d, c, row_status) == (d.rows \ RowsOf(d, c.artifact)) \cup {Row(c, row_status)}
NoRow(d, c) == {r \in d.rows : r.artifact # c.artifact \/ r.version # c.version}

Check(c, n) == [Command("InstalledApplicationList", c.artifact, c.version) EXCEPT
                  !.retries = n, !.delayed = TRUE]

\* Variant: the checks are never given up.
AppListedForever(d, c) ==
    IF list \in {"missing", "installing"}
    THEN [d EXCEPT !.queue = Append(@, Check(c, c.retries + 1))]
    ELSE d

\* InstalledApplicationList.command_acknowledged. An app whose download has
\* failed is found, and nothing says that it is not installed, unless another
\* app of the package is still being installed.
AppListed(d, c) ==
    CASE list \in {"installed", "failed"} -> [d EXCEPT !.rows = OnlyRow(d, c, "Installed")]
      [] list = "failed_and_installing" -> [d EXCEPT !.rows = NoRow(d, c)]
      [] list \in {"missing", "installing"} /\ c.retries < MaxRetries ->
           [d EXCEPT !.queue = Append(@, Check(c, c.retries + 1))]
      [] OTHER -> d

\* command_acknowledged.
Acknowledged(d, c) ==
    CASE c.name = "InstallProfile" ->
           [d EXCEPT !.rows = OnlyRow(d, c, ProfileStatus(d, c.artifact))]
      [] c.name = "RemoveProfile" -> [d EXCEPT !.rows = @ \ RowsOf(d, c.artifact)]
      [] c.name = "InstallEnterpriseApplication" /\ c.artifact \in Bundled ->
           [d EXCEPT !.rows = AddedRow(d, c, "AwaitingConfirmation"),
                     !.queue = Append(@, Check(c, 0))]
      [] c.name = "InstallEnterpriseApplication" /\ c.artifact \notin Bundled ->
           [d EXCEPT !.rows = OnlyRow(d, c, "Acknowledged")]
      [] c.name = "InstalledApplicationList" -> AppListed(d, c)
      [] c.name = "DeclarativeManagement" ->
           [d EXCEPT !.device.declarative_management = TRUE,
                     !.device.declarations_token =
                        IF d.device.blueprint THEN items.token ELSE @]
      [] c.name = "DeviceConfigured" -> [d EXCEPT !.device.awaiting_configuration = FALSE]
      [] c.name = "AccountConfiguration" -> [d EXCEPT !.accounts = TRUE]
      [] OTHER -> d

\* declarations_token raises KeyError when the blueprint has no declarations.
Raises(d, c, result) ==
    /\ c.name = "DeclarativeManagement" /\ result = "Acknowledged"
    /\ d.device.blueprint /\ items.token = 0

\* process_response. Only the operations with the status Error are failures.
Recorded(d, c, result) ==
    CASE result = "Acknowledged" -> Acknowledged(d, c)
      [] result = "Error" /\ IsOperation(c) ->
           [d EXCEPT !.failed = @ \cup {[operation |-> Operation(c), artifact |-> c.artifact,
                                         version |-> c.version]}]
      [] OTHER -> d

\* What is known once the request of the device is processed: a command that
\* already has a result, or that is unknown, is ignored.
Processed == IF live THEN Recorded(db, command, status) ELSE db

\* The device keeps its request until it has the response to it.
Respond(d, c, received) ==
    /\ Delivered(received)
    /\ db' = d
    /\ live' = (received /\ c # NoCommand)
    /\ IF received
       THEN /\ command' = c
            /\ status' = IF c = NoCommand THEN "Idle" ELSE "received"
            /\ poked' = (status = "NotNow" \/ (poked /\ status # "Idle"))
       ELSE UNCHANGED <<command, status, poked>>
    /\ UNCHANGED <<catalog, session, notify, platform, phase, setup, profiles, apps, list, ddm>>

\* ConnectView.do_put: a device that answers NotNow connects again by itself.
Connect(received) ==
    /\ phase = "enrolled"
    /\ status # "received"
    /\ status = "Idle" => poked
    /\ ~(live /\ Raises(db, command, status))
    /\ IF status = "NotNow"
       THEN Respond(Processed, NoCommand, received)
       ELSE \E c \in NextCommands(Processed) : Respond(Dequeued(Processed), c, received)

-----------------------------------------------------------------------------
(* The device.                                                             *)

\* The device does what the command says.
Execute ==
    /\ status = "received"
    /\ IsOperation(command) /\ command.name # "RemoveProfile"
         => [artifact |-> command.artifact, version |-> command.version] \notin Rejected
    /\ status' = "Acknowledged"
    /\ LET others == {q \in profiles : q.artifact # command.artifact}
       IN profiles' =
            CASE command.name = "InstallProfile" ->
                   others \cup {[artifact |-> command.artifact, version |-> command.version,
                                 ddm |-> FALSE]}
              [] command.name = "RemoveProfile" -> others
              [] OTHER -> profiles
    /\ apps' = IF command.name = "InstallEnterpriseApplication"
               THEN [apps EXCEPT ![command.artifact] =
                       [version |-> command.version, state |-> "installing"]]
               ELSE apps
    /\ IF command.name = "InstalledApplicationList"
       THEN CASE apps[command.artifact].state = "none" -> list' = "missing"
              [] apps[command.artifact].state = "failed" ->
                   list' \in {"failed", "failed_and_installing"}
              [] OTHER -> list' = apps[command.artifact].state
       ELSE list' = "missing"
    /\ setup' = (setup /\ command.name # "DeviceConfigured")
    /\ ddm' = IF command.name = "DeclarativeManagement" THEN "outdated" ELSE ddm
    /\ UNCHANGED <<catalog, server, notify, platform, phase, command, live, poked, bounds>>

\* The device does not do it: never, or not now, or it fails this time.
Decline(result) ==
    /\ status = "received"
    /\ \/ /\ result = "Error"
          /\ IsOperation(command) /\ command.name # "RemoveProfile"
          /\ [artifact |-> command.artifact, version |-> command.version] \in Rejected
          /\ UNCHANGED bounds
       \/ Fault
    /\ status' = result
    /\ UNCHANGED <<catalog, server, notify, platform, phase, setup, profiles, apps, command,
                   list, live, poked, ddm>>

\* The package of an app is downloaded and installed, or not.
AppFinishes(a, state) ==
    /\ apps[a].state = "installing"
    /\ apps' = [apps EXCEPT ![a].state = state]
    /\ IF state = "failed" THEN Fault ELSE UNCHANGED bounds
    /\ UNCHANGED <<catalog, server, notify, platform, phase, setup, profiles, command, status,
                   list, live, poked, ddm>>

\* build_legacy_profile: the last version of a declared profile that is still
\* in the blueprint, 404 otherwise.
Declared ==
    {[artifact |-> p, version |-> latest[p], ddm |-> TRUE] :
       p \in {p \in Profiles :
              /\ blueprint[p].present
              /\ \E v \in items.versions : v.artifact = p
              /\ [artifact |-> p, version |-> latest[p]] \notin Rejected}}

\* The declaration-items and declaration endpoints: the device gets the
\* declarations, installs the new profiles and removes the others.
DeclarativeSync ==
    /\ phase = "enrolled"
    /\ ddm = "outdated"
    /\ db.device.blueprint /\ items.token # 0
    /\ profiles' = {q \in profiles : ~q.ddm /\ \A n \in Declared : n.artifact # q.artifact}
                   \cup Declared
    /\ ddm' = "changed"
    /\ UNCHANGED <<catalog, server, notify, platform, phase, setup, apps, command, status, list,
                   live, poked, bounds>>

\* Variant: the rows that are not reported are deleted, the others not created.
StatusReportCleanup ==
    /\ phase = "enrolled"
    /\ ddm = "changed"
    /\ db.device.blueprint
    /\ db' = [db EXCEPT !.rows =
                 {r \in @ : r.artifact \in Apps \/ \E q \in profiles : q.artifact = r.artifact}]
    /\ ddm' = "reported"
    /\ UNCHANGED <<catalog, session, notify, platform, phase, setup, profiles, apps, command,
                   status, list, live, poked, bounds>>

\* The status endpoint, update_enrolled_device_artifacts: the rows of the
\* profiles become the declarations that the device reports.
StatusReport ==
    /\ phase = "enrolled"
    /\ ddm = "changed"
    /\ db.device.blueprint
    /\ db' = [db EXCEPT !.rows =
                 {r \in @ : r.artifact \in Apps}
                 \cup {[artifact |-> q.artifact, version |-> q.version, status |-> "Installed"] :
                         q \in {q \in profiles : q.ddm}}]
    /\ ddm' = "reported"
    /\ UNCHANGED <<catalog, session, notify, platform, phase, setup, profiles, apps, command,
                   status, list, live, poked, bounds>>

Device ==
    \/ \E received \in BOOLEAN :
         \/ Authenticate(received)
         \/ TokenUpdate(received)
         \/ CheckOut(received)
         \/ Connect(received)
    \/ SetBootstrapToken
    \/ Enroll
    \/ Execute
    \/ \E result \in Errors \cup {"NotNow"} : Decline(result)
    \/ \E a \in Apps, state \in {"installed", "failed"} : AppFinishes(a, state)
    \/ DeclarativeSync
    \/ StatusReport

Next == Administrator \/ SaveForm \/ SendNotification \/ DelayPasses \/ Device

Spec == Init /\ [][Next]_vars

\* The device and the task queue keep trying; the administrators and the
\* faults are not fair.
Fairness ==
    /\ WF_vars(SaveForm)
    /\ WF_vars(SendNotification)
    /\ WF_vars(DelayPasses)
    /\ WF_vars(Authenticate(TRUE))
    /\ WF_vars(phase = "token_update" /\ TokenUpdate(TRUE))
    /\ WF_vars(Connect(TRUE))
    /\ WF_vars(Execute)
    /\ WF_vars(status = "received" /\ UNCHANGED bounds /\ Decline("Error"))
    /\ WF_vars(\E a \in Apps : AppFinishes(a, "installed"))
    /\ WF_vars(DeclarativeSync)
    /\ WF_vars(StatusReport)

FairSpec == Spec /\ Fairness

-----------------------------------------------------------------------------
(* Properties.                                                             *)

\* The install of a profile updates the row of its artifact, and a status
\* report the row of a version: there is never a second row, which would make
\* update_or_create raise MultipleObjectsReturned.
OneRowPerProfile ==
    \A r, s \in db.rows : r.artifact = s.artifact /\ r.artifact \in Profiles => r = s

\* The confirmation of the install of an app replaces the row of the version
\* that was there before.
OneConfirmedApp ==
    \A r, s \in db.rows :
        /\ r.artifact = s.artifact
        /\ r.status # "AwaitingConfirmation" /\ s.status # "AwaitingConfirmation"
        => r = s

\* The device has done something with an artifact that the server will know
\* when it gets the result, or the status report, that is on its way.
ToBeReported(a) ==
    \/ live /\ status = "Acknowledged" /\ command.artifact = a
    \/ ddm \in {"outdated", "changed"}

\* An app whose download has failed is not believed to be installed: its row is
\* removed, to install it again.
FailedAppForgotten ==
    \A r \in db.rows :
        r.artifact \in Bundled /\ r.status = "Installed" =>
            apps[r.artifact] # [version |-> r.version, state |-> "failed"]

\* An administrator has saved an outdated row, and may have switched declarative
\* management off while the device has it on: both sides install profiles.
MixedManagement == platform = "iOS" /\ overwritten

\* A row says that the device has this version of a profile, through
\* installs, removals, lost responses and enrollments. With both managements,
\* the result of an install is recorded after the status report of the
\* declaration that has replaced the profile.
BelievedInstalled ==
    phase \in {"token_update", "enrolled"} =>
        \A r \in db.rows :
            r.artifact \in Profiles =>
                \/ MixedManagement
                \/ \E q \in profiles : q.artifact = r.artifact /\ q.version = r.version
                \/ ToBeReported(r.artifact)

\* A profile on the device has a row, without which it would not be removed. The
\* status reports of iOS only have the declared profiles: the others are lost
\* when declarative management was switched off by an administrator.
InstalledKnown ==
    \A q \in profiles :
        \/ MixedManagement
        \/ \E r \in db.rows : r.artifact = q.artifact
        \/ ToBeReported(q.artifact)

\* What the properties rest on. The commands are those of the catalog, and the
\* queue has no operation on a profile.
CommandShape(c) ==
    /\ c.name \in {"InstallProfile", "RemoveProfile"} <=> c.artifact \in Profiles
    /\ c.name \in {"InstallEnterpriseApplication", "InstalledApplicationList"}
         <=> c.artifact \in Apps
    /\ c.artifact \in Artifacts => c.version # 0
    /\ c.name = "none" => c = NoCommand
QueueShape(queue) ==
    \A i \in DOMAIN queue :
        /\ CommandShape(queue[i])
        /\ queue[i].name \in
             {"DeviceInformation", "DeclarativeManagement", "InstalledApplicationList"}
        /\ queue[i].delayed => queue[i].name = "InstalledApplicationList"

\* The device has something of a management only while it is enrolled, and a
\* command that it has not answered has no result.
Clean ==
    /\ profiles = {} /\ command = NoCommand /\ status = "Idle"
    /\ ~live /\ ddm = "off"
AgentShape ==
    /\ CommandShape(command)
    /\ phase # "enrolled" => Clean
    /\ status = "received" => live
    /\ status = "Idle" => ~live
    /\ \A q, r \in profiles : q.artifact = r.artifact => q = r

\* Declarative management is for iOS.
Declares(queue) == \E i \in DOMAIN queue : queue[i].name = "DeclarativeManagement"
NoDeclarations ==
    platform = "macOS" =>
        /\ ~Declares(db.queue)
        /\ command.name # "DeclarativeManagement"
        /\ ~db.device.declarative_management
        /\ form # NoForm => ~form.declarative_management
        /\ ddm = "off"

\* A device is managed with commands, or with declarations: when it knows of
\* declarations, the server knows, and has not asked for an operation.
Done(name) == status = "Acknowledged" /\ command.name = name
Working(name) == live /\ (status = "received" \/ status = "Acknowledged") /\ command.name = name
Declaring ==
    \/ Declares(db.queue)
    \/ Working("DeclarativeManagement")
    \/ db.device.declarative_management
    \/ ddm # "off"
OneManagement ==
    ~MixedManagement =>
        /\ ddm # "off" =>
             \/ db.device.declarative_management
             \/ live /\ Done("DeclarativeManagement")
        /\ phase = "enrolled" /\ Declaring =>
             /\ \A q \in profiles : q.ddm
             /\ ~Working("InstallProfile") /\ ~Working("RemoveProfile")
        /\ live /\ Done("InstallProfile") =>
             \E q \in profiles : q.artifact = command.artifact /\ q.version = command.version
        /\ live /\ Done("RemoveProfile") => \A q \in profiles : q.artifact # command.artifact

CommandsInv ==
    /\ TypeOK
    /\ QueueShape(db.queue)
    /\ AgentShape
    /\ NoDeclarations
    /\ OneManagement
    /\ OneRowPerProfile
    /\ OneConfirmedApp
    /\ BelievedInstalled
    /\ InstalledKnown

SetupEnds ==
    status # "received" /\ status' = "received" /\ command'.name = "DeviceConfigured"

\* The device is only told to leave the setup assistant when its accounts are
\* configured, if its user is known, and it has the profiles that are installed
\* before, those that failed excepted.
DeviceConfiguredLast ==
    [][SetupEnds /\ ~overwritten =>
         /\ platform \in RequiresAccounts /\ session.realm_user => db.accounts'
         /\ ~db'.device.declarative_management /\ db'.device.blueprint =>
              \A p \in Profiles :
                 blueprint[p].present /\ blueprint[p].install_before_setup_assistant =>
                    \/ \E q \in profiles : q.artifact = p
                    \/ \E v \in Versions : Failed(db', "Installation", p, v)]_vars

\* What a comment promises, "should never happen" (commands/utils.py:88): a
\* device whose enrollment requires accounts has them when its setup ends. It does
\* not hold: an enrollment with an administrator requires them without a realm.
AccountsConfigured ==
    [][SetupEnds /\ ~overwritten /\ platform \in RequiresAccounts => db.accounts']_vars

\* The profiles of the device are those of its blueprint.
InSync ==
    \A p \in Profiles :
        LET installed == {q.version : q \in {q \in profiles : q.artifact = p}}
        IN IF db.device.blueprint /\ blueprint[p].present
           THEN \/ latest[p] \in installed
                \/ installed # {} /\ ~blueprint[p].auto_update
                \/ Failed(db, "Installation", p, latest[p])
           ELSE \/ installed = {}
                \/ \E v \in installed : Failed(db, "Removal", p, v)

\* A device that is enrolled, and that can be notified, gets the profiles of
\* its blueprint and leaves the setup assistant. Declarative management is only
\* for iOS, and needs a blueprint that has declarations.
ProfilesConverge ==
    <>[](/\ phase = "enrolled"
         /\ db.device.token
         /\ ~overwritten
         /\ ~db.device.declarative_management
         /\ platform = "iOS" => items.token # 0
         => InSync /\ ~db.device.awaiting_configuration /\ ~setup)

=============================================================================
