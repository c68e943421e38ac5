# A verification project for Zentral

Zentral collects events from machines and services, matches them with probes,
and configures agents (Santa, Osquery, Munki, MDM). It is a Django application
with PostgreSQL, and a few worker processes connected by message queues. This
directory has TLA+ modules that model its parts, TLC configurations that check
them on small instances, and proofs that TLAPS checks.

- `<Name>.tla`: a component; `MC<Name>.tla`: its instances for TLC;
  `<Name>Proofs.tla`: theorems.
- `tlc -config MCX.cfg MC<Name>` runs a model, `tlapm <Name>Proofs.tla`
  checks the proofs.
- `PROJECT.json` lists the runs, the source lines each definition models, the
  hazards and the properties they are covered by, and for each property a
  mutation of the model that it detects.

## 1. Inventory

### How the parts interact

Web processes answer the agents and the users. Each request is one database
transaction (`ATOMIC_REQUESTS`, `server/server/settings.py:169`). They post raw
events and events to message queues. The *preprocess worker* turns raw events
into events, the *enrich worker* looks for the probes an event matches, opens
or closes incidents, and publishes the enriched event; the *process worker*
triggers the actions of the probes, the *store workers* write the events to the
stores. Probes are cached by each process, and the caches cleared by PostgreSQL
notifications.

    agents, users --> views --> queues --> preprocess --> enrich --> process, store
                       |                                   |  |
                  santa tables                probe views <+  +--> incidents tables

### Components

| component | state | operations | hard behaviours | what makes it correct |
|---|---|---|---|---|
| Santa rule synchronization (`contrib/santa`: models, views, forms) | rules with scopes and versions, machine rules with cursors, tag cache; the agent's rules | rule forms, preflight, rule download, postflight, enrollment | lost, late and repeated requests, rules and tags that change during a sync, interrupted clean syncs | an acknowledged machine rule is a rule of the agent; a sync ends, and ends with the right rules |
| Santa rulesets API (`api_views.py`, `serializers.py`) | rulesets, their rules, tags, targets | post of a ruleset | concurrent posts, unique constraints, a lock that is not taken | a request changes its own rules only, and alone has its effect |
| Santa events and bundles (`events/__init__.py`) | bundles, their binaries | event upload | a bundle in several requests, in any order, twice, given up | a bundle is uploaded when all its binaries are known, and gets uploaded |
| Queue workers, AWS (`core/queues/backends/aws_sns_sqs`) | messages, receipt handles, bounded queues between threads | receive, generate, publish, count, delete, stop | threads, partial failures, redelivery, crash, shutdown | a message is deleted after its events are published, and sooner or later |
| Queue workers, Kombu and Google Pub/Sub | messages, futures, batches | the same | acknowledgement, prefetch, errors of futures | the same |
| Incidents (`core/incidents`) | incidents, machine incidents, row locks | match, recovery, status updates, probe deletion | concurrent transactions in READ COMMITTED, unique constraints, redelivery | one open incident per probe, closed only with its machine incidents, no lost update |
| Probe views (`core/probes/conf.py`, `sync.py`) | the cached probes, one lock per view, the sync thread | lookup, filter, clear, NOTIFY, LISTEN | threads, lock order, weak references, broken connections | lookups end, and see the changes of the probes |
| Probes, feeds, actions, events | probe sources, event metadata | forms, matching, serialization | feeds that are synchronized | mostly pure |
| Stores | batches of events | store, bulk store | partial failures | each event is stored |
| Inventory (`contrib/inventory`, `utils/mt_models.py`) | objects found by hash, snapshots, their versions, current snapshots | commit of a tree, synchronization of a source, events, archive, cleanup of the history | three kinds of transactions that race for the same rows, deletions under a commit, crashes between a commit and its events | the current snapshot is one of the history, versions differ, the events lead from one to the next, the inventory becomes what the source has |
| MDM enrollments (`contrib/mdm`: sessions, `views/{ota,dep,user,scep,mdm}.py`; `realms`) | sessions, their secrets with quotas, requests, realm users, devices | web and account-driven log in, profiles, SCEP verifications, Authenticate, TokenUpdate, CheckOut | lost replies, shared profiles, expired and revoked secrets, views without locks | one device per session, statuses go forward, an enrollment ends |
| MDM commands (`contrib/mdm`: commands, declarations, artifacts, blueprints) | devices, artifact rows, commands, declaration tokens | check-in, results, status reports, queue, forms, notifications | retries, `NotNow`, lost replies, edits between a command and its result | the rows are what the device has, the artifacts are installed and removed in the end |
| MDM: DEP | virtual servers, devices, cursor | synchronization, profiles | cursor errors | - |
| Osquery | queries, packs, distributed queries, file carvings | config, distributed read and write, carve blocks | repeated and concurrent blocks | a query is sent once to a machine |
| Monolith, Munki | repositories, catalogs, manifests | sync, manifests, reports | a sync during requests | a manifest refers to what exists |
| Realms, accounts | authentication sessions, users, devices | log in, finalize | a callback twice | a session is finalized once |
| Secret engines, configuration, other integrations | settings | encrypt, fetch, webhooks | external services | - |

`PROJECT.json` has the complete list with sources and status, and the hazards
line by line.

## 2. Modules

| module | models | extends |
|---|---|---|
| `SantaRules` | rules, scopes, expansion of bundles, the query of `MachineRuleManager._iter_new_rules` as operators on sets of rows | |
| `SantaRuleSync` | the synchronization of one configuration with one machine | `SantaRules` |
| `SantaRuleSyncProofs` | its theorems | `SantaRuleSync` |
| `SantaBundles` | the uploads of the binaries of a bundle | |
| `SantaRulesets` | the posts of the rulesets and the rule forms, statement by statement | `SantaBundles` |
| `SantaRulesetsProofs` | the theorems of the two | `SantaRulesets` |
| `ConsumerProducer` | a worker: its threads, queues and counts, SQS, crashes | instance of `EventDelivery` |
| `ConsumerProducerProofs` | its theorems | `ConsumerProducer` |
| `EventDelivery` | what a worker promises: a message is deleted after its events are published | |
| `Incidents` | the transactions on incidents and machine incidents | |
| `IncidentsProofs` | its theorems | `Incidents` |
| `ProbeViews` | the views of the probes of a process and their sync thread | |
| `ProbeViewsProofs` | its theorems | `ProbeViews` |
| `MDMEnrollment` | the enrollment sessions of OTA, DEP and user enrollments, from the log in to the token of the device | |
| `MDMEnrollmentProofs` | its theorems | `MDMEnrollment` |
| `MDMCommands` | an enrolled device: its commands, its artifacts, declarative management | |
| `MDMCommandsProofs` | its theorems | `MDMCommands` |
| `InventoryCommits` | the commits of the trees of a source, their versions and events, the cleanup | |
| `InventoryCommitsProofs` | its theorems | `InventoryCommits` |

`MDMEnrollment` ends where `MDMCommands` starts: at the `TokenUpdate` of the
device. They share no module: the first one is about several devices and their
sessions, the second one about the device channel of one.

### Santa rules

The tables are sets of records. A rule download is one transaction of several
READ COMMITTED statements, and nothing keeps two of the same machine apart: the
queryset with `select_for_update()` (`models.py:578`) is never evaluated. It has
three actions. `CleanUp` takes what the first `DELETE` sees (`seen`) and the tags.
`QueryRules` acknowledges the cursor of the request, computes the changes from
the rows it has then, those that other requests have committed included, and
chooses a page. `StoreBatch` writes the rows of the page, commits and answers.
What was deleted is settled at `QueryRules`: a row that was seen is, one that
another request has changed meanwhile may be (`Dropped`). The writes are applied
at the commit, and nobody else sees them before. `PreflightView` is one step: it has
one statement about the machine rules. `SantaRules` has one operator per
subquery, with the same names. `Pages` leaves the order of the rows of one target
open, as SQL does.

The Santa agent is external. It is modelled from what the views expect: it
sends a preflight, then rule downloads with the cursor of the previous response
until there is none, then a postflight; it applies a batch before it asks for
the next one; it wipes its database with the first batch of a clean sync. It
does not remember across syncs that the server asked for a clean one. At any
time it gives up: the response is lost, and the request may reach the server, or
be in the middle of its statements there, later (`late`), in any order with the
statements of the next ones.

`ReEnroll` is a machine that was enrolled on another configuration and is back:
a new enrolled machine, without machine rules, and an agent with other rules
(`LeftOvers`, version 0); a rule download that is under way then has no machine
to write rules for. `PreflightView` refreshes the tag cache and
`PostflightView` deletes it: each of the two makes the other one redundant.

`SantaRuleSync` has the rule forms as one step each, since the synchronization
only sees what is committed. `SantaRulesets` has their statements, and those of
the posts. A transaction is a record (`tx[s]`): its request, its next statement,
what it has read and the rows it has written. It sees the committed rows and its
own; it waits for the rows that others have written (`Locked`), also for one
that it may not insert a second time; two that wait for each other are broken by
the database (`Abort`). `Saved` is `rule.save()`: all the columns as they were
read, the version too unless it is `F("version") + 1`; `SaveRule` shows what
Django does when the row is gone, an insert, or an error with `F`.
`select_for_update` at `api_views.py:80` is not a statement of the model, because
its queryset is never evaluated.

`SantaBundles` is one bundle. An agent tells of it with a blocked binary, then
uploads the binaries the server has asked for, a batch per request. The server
may see two requests at a time, of two agents, or of one that has lost the
connection (`GiveUp`). Whether the insertion of a binary that another request
has just committed is ignored or fails depends on the version of Django
(`Conflict`): both are possible. The server asks again for a bundle that is not
uploaded: an agent that gives up (`Forget`) is replaced by the next event. The
two parts of `SantaRulesets` share the bundle only, which is then a target for
the rules; `Parties` says who takes part, so that a run does not have to
interleave uploads with posts that do not look at them. `BundlesInit` has the
bundle unknown or uploaded.

### Queue workers

One module for both workers. The enrich worker has several SNS threads that
publish one event each (`BatchSize` 1), the preprocess worker one SQS thread
that sends batches; `Publish` publishes any part of a batch, in any order, the
rest is dropped, and only the handles of what is published are put in the queue
of the final thread. A deletion that fails, in whole or in part, is only logged
(`CouldNotDelete`): the messages come back. `in_flight` is the `OrderedDict` of the counts: a sequence
of entries without two of the same handle, the oldest first, and `Incremented`
evicts this one when there are more than `MaxInFlight`. Getting nothing
from a queue is a step of its own (`"empty"`), since the stop events are looked
at after it. `VisibilityTimeout` makes a message visible again: messages that
the worker has lost without bound, those it still has `MaxTimeouts` times.
`Crash` and `Restart` start a new process with empty queues; a worker that does
not come to an end after a stop is killed by `Restart`.

`EventDelivery` is the abstract specification. The refinement maps `deleted` to
the messages SQS has deleted, and `published` to itself.

### Incidents

An action is a statement, with the computations and the writes that follow it
until the next one. A session sees the committed rows and its own; it waits for
rows that are locked; a row it has waited for is read again, and may not match
any more (READ COMMITTED). The unique constraints wait for uncommitted rows of
the same probe, then refuse. An exception rolls everything back, and the event
of a worker is delivered again. `select_for_update().select_related("incident")`
locks both rows: this is why the branch that logs "Closed an open machine
incident on a closed incident" is never taken (`OpenOnOpenIncident`). No probe
class of the repository has the severity 0 that closes machine incidents; it is
modelled because `update_or_create_open_machine_incident` and its tests handle
it.

### Probe views

A view is reduced to its version, the number of changes it reflects. A lookup
locks its view until it is done (`yield from` in the `with` block), and, if the
view is not loaded, the parent's. The list an event is filtered with is a weak
child of `all_probes`: `members` and `removals` follow `weakref.WeakSet`, whose
dead members are kept while it is iterated on, and which raises `RuntimeError`
when it grows. `missed` is a history variable: a change was signaled when
nobody of this process could hear of it. It separates what the code promises
(`OutdatedViewsCleared`) from what it does not.

### MDM enrollments

A device holds one item at a time (`attempt[d]`: a link, a profile, a
certificate...), and starts again with another one when it is refused. The
request and the transaction of a view are one step; its reply may be lost
(`Reply`), with the session left where the view has brought it. Two views of the
devices take no lock and are two steps, a read and a save (`posts`):
`user_enroll_callback` and the second post of `EnrollUserView`, whose first one
ends the row lock of the secret. So are those of the administrators: an update, or
`revoke()`, reads the enrollment and its secret (`Read`), and later saves both
whole rows (`SaveForm`); `forms` are those that are under way, at the same time as
the verifications and as each other. The history variables `saved` and `overwritten` say which stale
saves happened. The UDID is the serial number; the enrollment id of a user
enrollment is the device. A few counts of the code are worth a note, since the
properties had to be stated with them: an account-driven enrollment counts
twice in the quota of its enrollment (`views/user.py:43`), OTA enrollments with
a realm and user enrollments in a browser do not count at all; the secrets of DEP sessions expire after an hour, that of a
DEP enrollment has no quota and is not revoked; `dep_web_enroll_callback`
does not look at the secret again.

`is_valid()` returns a tuple (`inventory/models.py:1316`), so that the checks of
`views/management.py:258`, `362` and `536` never refuse: the model has no guard in
`DownloadPayload`, `OTAWebLogin`, `OTAWebEnroll` and `UserForm`. Only the locked
verification (`Verified`) looks at the secret of an enrollment. The callback of
the log in of an OTA enrollment sets the key of the web session, then builds a URL
with two arguments for a pattern with one (`views/management.py:350`,
`urls.py:81`): `FinalizeLogin` leaves the user with an error page (`Nothing`), and
the next visit finds the key.

### MDM commands

One device, its device channel, and one blueprint. The state of the server is
one record (`db`), because a request is one transaction, and a view that raises
leaves it unchanged. The session of the device may have a realm user or not: the
accounts are only configured with one (`AccountsMissing`). The device has profiles, applications and a declarations
token; it connects when it is notified, or when it wants to, and answers a
command once, or again when the reply was lost. macOS never has declarative
management (`commands/declarative_management.py`). The order of the artifacts
of one priority is left open. `overwritten` is a history variable: a form of a
device saved the whole row as it was read
(`ChangeEnrolledDeviceBlueprintView`). `Enroll` counts as an edit, an operation
of an administrator or a user. The rows of an artifact that is put in the trash
stay.

### Inventory

One source. A process is between two statements of
`commit_machine_snapshot_tree`, and `mode` says what a transaction is for it:
every statement (Munki reports, the Osquery results, Puppet, the worker), the
commit (Jamf), or the request, events included (Osquery enrollments, Santa, MDM).
What a transaction has written is in its record (`wItems`, `wSnapshot`,
`wVersion`, `wCurrent`), keeps writers of the same keys waiting, and is seen by
the others at `Apply`. Foreign keys are deferred: a transaction that refers to a
row that is gone fails at its end (`Dangling`). The objects of a tree are got or
created in one step, so that the deadlocks of transactions that create them in
another order, which the database breaks by an error, are left out; the cleanup
is one step too. No commit lasts as long as the retention of the history: the
versions made since a running commit has read the last one are not deleted
(`Fresh`). `log` and `posted` are history variables; events posted by a request
that is rolled back are taken out of `posted`.

## 3. What is checked

Every run finishes with no bound reached in the middle of an operation other
than the named ones (`MaxEdits`, `MaxFaults`...), which only stop new
operations, faults or signals.

| run | instance | shows |
|---|---|---|
| `santa_faults` | 2 binaries and their bundle, batches of 1, 2 changes, 2 faults, 1 late request, statement by statement | `AckedRulesInstalled`, `DoneMeansInstalledOrOvertaken` |
| `santa_no_fault` | the same targets, a tag, 4 changes, no fault | `DoneMeansRemoved`, `DoneMeansErased` |
| `santa_converge` | 2 binaries, a tag, 2 changes, 1 fault, 1 late request, fairness | `SyncEnds`, `Converges` |
| `santa_rulesets` | either 2 sessions, 1 ruleset, a bundle and another target, 3 requests of the API and the forms, or 2 agents, 2 requests at a time, 2 binaries in batches of 1, 1 lost request, fairness | `OwnRules`, `RequestsApplied`, `MessagesOfBlocklist`, `UploadedComplete`, `BlockedBundleUploaded` |
| `consumer_counts` | messages of 2 and 0 events, 2 SNS threads, 1 fault, 1 redelivery of a message the worker has | `EventsCounted` |
| `consumer_live` | 2 messages of 1 event, batches of 2, deletion in batches of 3, 1 fault, 1 signal, fairness | `EventsDelivered` (refinement), `MessagesDeleted` |
| `incidents` | 2 sessions, 1 probe, 2 machines, 2 severities, 3 operations, 1 crash, fairness | `OneOpenIncident`, `OneToClose`, `ClosedWithMachineIncidents`, `NoLostUpdate`, `OperationsEnd` |
| `mdm_enrollment` | 2 devices, 2 sessions, the three enrollments, quotas 0 and 1, 1 edit, 1 lost reply, fairness | `OneDevice`, `QuotaSuffices`, `SessionsExplained`, `Forward`, `EnrollmentEnds` |
| `mdm_commands` | a macOS or iOS device, a profile and an application of 2 versions, 1 edit, 1 fault, fairness | `OneRowPerProfile`, `BelievedInstalled`, `InstalledKnown`, `DeviceConfiguredLast`, `ProfilesConverge` |
| `inventory_commits` | the worker and a reporter, 2 machines, 2 objects, 1 change, 1 archiving, cleanup, crash or failed request, fairness | `CurrentRecorded`, `VersionsDiffer`, `VersionsPosted`, `EventsDescribe`, `RemovedUnlisted`, `Converges` |
| `probe_views` | 2 workers, 3 lists, 3 changes, 2 database errors | `ProbesInUse`, `OutdatedViewsCleared` |
| `probe_views_deadlock` | violation | the sync thread and a lookup wait for each other |

Each `MC...More.cfg` checks, on the instance of the run without `More`, further
safety properties of the module, and its inductive invariant where it is proved:
`SyncInv`, `IncidentsInv` and `OpenOnOpenIncident`, `ViewsInv` and
`SameAsParent`, `InventoryInv` and `LastKept`. Of the workers, the commands and
the enrollments, `NoMoreUnpublishedEvents`, `OneConfirmedApp`,
`EnrolledCompleted`, `RequestsRecorded`, `SessionsCounted`, `LoginRequired` and
the inductive invariants `WorkerInv`, `ReturnedPublished`, `CommandsInv`,
`EnrollmentInv`, `CountedInv` and `ExplainedInv`, and `FaultlessInv` of the Santa
synchronization, have no configuration any more: TLC has checked
them on the instances of the runs before they were proved. To check one again, add it to the configuration of the run.
`MCSantaFaultsMore` has 3 changes, and also checks `BatchesShrink` (1.8M states).
`MCSantaRulesetsMore` has two configurations and two rulesets, and the three
inductive invariants, `BundleInv`, `RulesInv` and `AloneInv` (4 minutes); the type invariants of the modules with proofs are there, too.
`MCSantaMessages` checks `DoneMeansCurrentMessage`, the version stands for the
message as long as no rule is deleted, and its inductive invariant
`MessagesTold`: 2 binaries, messages, 1 fault.
They are to be run by hand after a change of their module: the runs above check
what the system promises, these the lemmas behind it and the less likely bugs.
The other configurations that are not in the table refute a property; see
"Disagreements found".

Why these bounds: the hard cases of the synchronization need a batch boundary
(batches of 1 with two binaries), a change before and in a sync (2; a third one,
after it, in `MCSantaFaultsMore`), and a lost response followed by a late request
(2 faults), which stops before each of its statements while the next sync goes on. The counts need two
events of a message in two threads, and a second delivery. The posts
need a second request in every window between check and write, and a third one
for the rules they find; the bundle a second agent that uploads what the first
one has uploaded already. The incidents need a
second session in every window between read, lock, write and commit, and a
first incident that is closed before the next one. The views
need a list added and one that dies while the set is iterated on, and a change
during the iteration. The enrollments need a second device with the profile of
the first one, and a second session for a device that starts again; the
commands a second version while the first one is being installed; the
inventory two writers of a machine, one that is only in the list of the worker,
and two snapshots that share an object. The counters in the guards are the only
cuts.

Larger instances were checked once, too long for every day:
the safety of `MDMEnrollment` and its three inductive invariants with 1 device, 4
sessions, 2 lost replies and 1 edit (1.2M states), with 2 devices, 4 sessions, 2
lost replies and no edit (2.6M), with 2 devices, 4 sessions, 1 edit, the quotas 0
and 2 and no lost reply (0.8M), with 2 devices, 3 sessions, 1 lost reply and 1 edit
(4.6M), and with 2 devices, 2 sessions, 2 edits and no lost reply (1.3M): two
administrators that save outdated rows; `MDMCommands` without application, on both
platforms, with 2 edits and 2 faults (1.8M states, with liveness);
`InventoryCommits` with 2 reporters and no fault (4.3M states).

Deadlock is checked, except for `SantaRulesets`, `Incidents`, `MDMEnrollment`, `MDMCommands`
and `InventoryCommits`, which stop when the administrators and the devices have
nothing more to do, and `ProbeViews`, which really has a deadlock.

Fairness: the agent syncs periodically, and the server answers (`WF` of
`StartSync`, `Serve`, `Receive`); nothing is assumed of the administrators, and
faults are only possible, finitely often. The threads of a worker run (`WF`);
sending and deleting a batch, which is only sometimes enabled between two
handles, is `SF`, because a batch that gets old is handled at the next pause of
its queue; SQS makes messages visible again, and a supervisor restarts a
worker. The database runs a statement that nothing blocks. Locks are granted to
those that wait for them again and again (`SF` of lookups and sync thread).
A device that enrolls goes on, and a device that is enrolled and has a token is
notified by the task of a change, and connects. The inventory worker loops, a
process that commits a tree goes on, and those that wait for the row of the
current snapshot of a machine have it in turn (`SF` of `UpdateCurrent`).
An event upload is processed; the binaries of the bundle are blocked again and
again, and an agent goes on with an upload as often as it may (`SF` of `Block`
and `UploadBinaries`). Nothing is assumed of the users, administrators and
sources.

`SantaRuleSync.Converges` is stated when the agent is between two syncs: a clean
sync empties the database for a while, every time the agent asks for one.
`ProfilesConverge` leaves out devices that cannot be notified, and those whose
row was overwritten by a stale form. `InventoryCommits.Converges` leaves out a
source that has lost all its machines: the worker then removes none.

### Disagreements found

One is a run of the project (above). The others were met while modelling, and
their configurations are kept:

| configuration | property | what the code does |
|---|---|---|
| `MCSantaStaleRule` | `DoneMeansRemoved` | with one fault, a rule that is applied, not acknowledged, then deleted stays on the machine (`models.py:583`) |
| `MCSantaRulesetsPosts` | `PostsAlwaysMatch` | two posts of a ruleset interleave, the ruleset is what neither of them says: the lock is never taken (`api_views.py:80`; `docs/apps/santa.md:285`) |
| `MCSantaBundleLost` | `UploadedStays` | a request that has read the bundle before it was uploaded saves it later: it is not uploaded any more, until the next event (`events/__init__.py:229`) |
| `MCSantaFaults` | `DoneMeansInstalled` | an abandoned rule download commits its rows between the cleanup and the query of the next one, which takes them for rules of the agent: the sync ends without a rule, until the next one. The comment of the cleanup says "this will ultimately refresh all the rules that haven't been acknowleged", and the lock of `models.py:578` is never taken (`models.py:580`) |
| `MCMDMCommands` | `AccountsConfigured` | an enrollment with the information of an administrator and no realm requires the configuration of accounts, but the session has no realm user: the server logs an error, at a place commented "should never happen", and sends `DeviceConfigured` without it (`commands/utils.py:88`; `models.py:637`) |
| `MCConsumerDeleted` | `DeletedPublished` | a message of 2 events is deleted when only the first one was generated and published (`consumer.py:306`) |
| `MCMDMFailedApp` | `FailedAppForgotten` | the row of an application stays when the device says that its install failed (`commands/installed_application_list.py`) |
| `MCSantaLeftOver` | `DoneMeansErased` | with one lost response, the rules of the previous configuration stay (`views.py:645`; `docs/apps/santa.md:41`) |
| `MCSantaMessages`, `CanRemove = TRUE` | `DoneMeansCurrentMessage` | a rule deleted and created again has version 1 again: its message is not sent (`forms.py:228`) |
| `MCSantaBundleConflict` | `SyncEnds` | a bundle rule and a rule for one of its binaries replace each other forever (`models.py:505`; `docs/apps/santa.md:117`) |
| `MCSantaBundlePolicy` | `BundlePolicies` | `UpdateRuleForm` has no `target_type`: any policy is accepted for a bundle (`forms.py:255`) |
| `MCSantaAnyScope` | `AnyScope` | all the conditions of a scope must match, not any (`models.py:545`; `docs/apps/santa.md:159`) |
| `MCConsumerStop` | `StopsGracefully` | the final thread may stop before the publish threads, which then wait forever for a full queue (`consumer.py:57`) |
| `MCIncidentsReopen` | `OfferedStatusSaved` | reopening an incident while another one is open raises `IntegrityError` (`core/incidents/models.py:60`) |
| `MCIncidentsNoProbe` | `StatusSavedWithoutProbe` | the status of an incident without probe cannot be changed (`core/incidents/models.py:76`) |
| `MCProbeViewsOutdated` | `ViewsUpToDate` | the probes are loaded before the thread listens: a change in between is missed (`conf.py:63`) |

The configurations `MCSantaFaults` and `MCMDMCommands` are those of runs: replace
their properties with the one of the table.

Two more are facts of the model, and no property is about them. An OTA enrollment
with a realm, or a user enrollment in a browser, that is revoked, expired or used
up still gives out profiles and sessions: the check commented "should not happen"
(`views/management.py:363`, `537`) is on a tuple. And the log in of an OTA
enrollment always ends with an error page, although it was a success
(`views/management.py:350`): the enrollment goes on when its page is visited
again. `SessionsExplained` and `EnrollmentEnds` are stated for what the code does.

## 4. What is proved

### Santa rules (`SantaRuleSyncProofs`)

For every set of targets, bundles, rules, scopes, tags and cursors, every batch
size and every value of the bounds:

- `SyncInvariant`: `Spec => []SyncInv`;
- `TypeCorrect`: `Spec => []TypeOK`;
- `AckedRules`: `Spec => []AckedRulesInstalled`, an acknowledged machine rule is
  a rule of the agent, with its policy and its version;
- `DoneInstalledOrOvertaken`: `Spec => DoneMeansInstalledOrOvertaken`, a rule
  download response without cursor is only sent when the agent has all the rules in
  scope, but for those that another request has written an unacknowledged row for,
  after the cleanup of this one;
- `DoneInstalled`: `Spec /\ [](late = {}) => DoneMeansInstalled`, there is no such
  exception as long as no request was given up;
- `DoneRemoved`: `Spec /\ [](faults = 0) => DoneMeansRemoved`, and has no other
  ones, and `DoneErased`: `Spec /\ [](faults = 0) => DoneMeansErased`, none of
  another configuration either;
- `BatchesLeaveRest`: `Spec => BatchesShrink`, each batch is a part of what the
  agent lacks, if no other request has committed rows after the cleanup, and leaves
  the rest for the next one;
- `DoneCurrentMessage`: `Spec /\ []OneRuleEach /\ NoRuleDeleted =>
  DoneMeansCurrentMessage`.

`AckedRulesInstalled` is not inductive: a row becomes acknowledged when a
request with its cursor is processed, which may be a late one. The
strengthening says who may acknowledge what. `AskedRulesInstalled`: the rows
under a cursor that is on its way to the server are rules the agent has.
`SentRulesPending`: the rows of a batch that is on its way to the agent are
those of the response, and nobody is asking to acknowledge them, so that a late
request cannot acknowledge what the agent has not applied. `WipeSafe`: before
the agent wipes its database, no row is acknowledged and nobody is asking for
it. New cursors are new (`get_random_string`): this is the assumption in
`UsedCursors`. It does not say that a statement sees what the one before has left:
each of the four parts holds between any two statements of two requests. The proof
has one lemma per action for each of them. `DoneInstalledOrOvertaken` follows
because an empty page means that no expanded rule differs from the rows that are
left: those are acknowledged, hence rules of the agent, or were not among those
that the cleanup has seen (`Overtaken`). For `DoneInstalled`, without requests
that were given up, all the rows that are not acknowledged were there at the
cleanup (`BatchUnderWay`).

`DoneRemoved` and `DoneErased` are about what the agent has too much, and the
server only knows that from its rows: `FaultlessInv` says that they are complete
as long as no request was given up. `RulesKnown`: each rule of the agent has a
row, of the current configuration, but before the clean sync of a machine without
rows. That depends on the others: the only cursor there is is the one under way
(`BatchUnderWay`), each rule of a batch has a row (`BatchStored`), and a `REMOVE`
row, which is deleted when it is acknowledged, is only acknowledged when the rule
is gone (`RemovedTold`). The hypothesis `faults = 0` cannot be left out:
`MCSantaStaleRule` and `MCSantaLeftOver` refute both properties with one fault.

`BatchesShrink` is the step of the argument for the end of a sync, whose liveness
TLC checks. `LeftToSend` is what the query would return with given rows. When the
rows are those that the cleanup has seen, and no others have come since, the batch
is a part of it, and empty only when nothing is left; when a batch that is a part of
it is stored, `LeftToSend` loses exactly this batch, once it is acknowledged. An
overlapping request can make the server tell less, but what it hides then is cleaned
up and told in the next sync. It says so when no two rules are about one target
(`OneRuleEach`): with a bundle rule and a rule of one of its binaries there is no
end (`MCSantaBundleConflict`).

`DoneCurrentMessage` compares a message the agent has with a rule it knows the
version of only. `MessagesTold`: what the agent has, or is told, is no newer than
the rule, and has its message when it is as new; versions only grow. Two rules of
one target, or a rule made again, which starts at version 1, break this: TLC
refutes it with the targets of `MCSantaBundleConflict`, 3 changes and two messages,
and with `CanRemove = TRUE` in `MCSantaMessages`. Hence the two hypotheses.

### Incidents (`IncidentsProofs`)

For every number of sessions, probes, machines, operations and crashes:

- `IncidentsInvariant`: `Spec => []IncidentsInv`, and from it
  `IncidentsTypeCorrect`, `OneOpen` (one open incident per probe), `OpenOnOpen`
  (no open machine incident on a closed incident), `OneFound` (a recovery finds
  one machine incident);
- `ClosedSafely`: `Spec => ClosedWithMachineIncidents`;
- `NoUpdateLost`: `Spec => NoLostUpdate`.

None of the five is inductive: they are about committed rows, and a commit is
far from the checks it relies on. `IncidentsInv` says that a commit is always
safe. `HeldIncident`: from the lock, or from the `INSERT`, to the commit, the
incident a session has found is its own: it is the committed row, locked, or a
new row nobody else sees. `WrittenIncident`: the row it writes has a next
status, passes the constraint now, and no other session writes an open row of
the same probe (the unique index waits), so that it will pass it at the
commit; if it is closed, no machine incident of it that the session sees is
open. `WrittenMachineIncident`: the machine incidents written are of the
incident that is held, so the ones of an incident cannot change between the
count and the commit of its closing. `FoundMachineIncident`: a machine incident
never changes its incident, hence what was read before the wait for a lock
still tells which row to lock. The proof has one lemma per statement and per
part.

### Probe views (`ProbeViewsProofs`)

For every number of threads, lists, changes and database errors:

- `ViewsInvariant`: `Spec => []ViewsInv`, and from it `ViewsTypeCorrect`,
  `ProbesStayInUse`, `OutdatedCleared` and `ParentAgrees`.

`WorkerInv` gives the owners of the locks: a worker holds the one of its view
from the load to the end of its lookup, and the parent's when it loads from it.
`LoadedInv`: a list that is loaded is the view of a worker, hence alive, and a
member of the set that the iteration does not skip. `IterationInv`: the child
that is cleared is alive and has had its turn. `ClearInv`: while the sync
thread iterates, it holds the parent's lock, the parent is not loaded, and
what is loaded has not had its turn; otherwise, if the parent is not loaded,
nothing is, or a change was missed. Without `ClearInv` a list could be loaded
behind the back of the iteration.

### Inventory (`InventoryCommitsProofs`)

For every number of machines, objects, reporters, changes, archivings, cleanups
and crashes:

- `InventoryInvariant`: `Spec => []InventoryInv`, and from it `InventoryTyped`,
  `LastVersionsKept` (`LastKept`), `CurrentSnapshotsRecorded`
  (`CurrentRecorded`) and `VersionsAreChanges` (`VersionsDiffer`);
- `EventsAreDifferences`: `Spec => EventsDescribe`;
- `OnlyUnlistedRemoved`: `Spec => RemovedUnlisted`;
- `VersionsHaveEvents`: `Spec => []VersionsPosted`.

The version of a machine is read in one statement, made in another, committed
in a third and posted in a fourth, with other commits and a cleanup in between.
`CommitsLogged` says that the rows are those of the history. `OpInv` follows an
operation: what it was compared with is in the history (`BaseLogged`); until it
inserts its version, any version made since is still a row, so that the unique
constraint sees it (`Inserting`: this is where the retention is needed); once it
is written and not committed its number is the next one (`WritingVersion`), and
nobody else makes it (`OneMaker`: the constraint makes the others wait);
what it makes current is a version of its own or one of the history
(`Updating`, `WritingCurrent`). `PostedMade` says that events are only posted of
versions that are committed, or that a request is about to commit. The proof has
one lemma per action, and one, `ApplyInv`, for the three ways to commit.

`VersionsPosted` counts: `Lost` is the set of the versions without events that
nobody is about to post, and `LostInv` says that it is finite and not larger
than the number of crashes. No step but a crash adds to it: a version that is
committed outside of a request leaves its process at the posting, and one that
a request commits is posted already (`EndPosted`; TLC has checked it in
`MCInventoryCommitsMore`). A crash adds the version of its own process at most,
and a rollback takes back events of a version that was not committed
(`WritingVersion`) and of no other one (`OneMaker`).

### Santa rulesets and bundles (`SantaRulesetsProofs`)

For any number of agents, uploads, sessions, configurations, targets, rulesets
and ids, and every size of a batch:

- `BundleComplete`: `Spec => []UploadedComplete`;
- `MessagesValidated`: `Spec => []MessagesOfBlocklist`;
- `RequestsOwnRules`: `Spec => OwnRules`;
- `RequestsMatch`: `Spec => RequestsApplied`;
- `RulesetsTypes`: `Spec => []TypeOK`.

`UploadedComplete` is about a count: `BundleInv` says that whoever holds a row of
the bundle with `uploaded_at`, read or written, sees all its binaries. The
binaries are never deleted, so that what is seen by one request is still there
when another one has committed; the count of a subset is that of all the
binaries for all of them only (`AllCounted`).

`OwnRules` relates the check of a request with a write some statements later,
when the row may have been deleted and another one created for the same target.
`RulesInv` has the three reasons why this is safe: a row is written by one
session at a time (`LocksInv`), in a session the rows to be written are those of
its ruleset (`OwnersInv`), and a primary key, in whatever transaction and whether
its row is deleted or not, tells one ruleset (`IdsInv`): the writes are by
primary key, and a key is not used again. `MessagesInv` has the messages of the
rows in all transactions. `StepOK` is what a statement may do to its transaction,
`StepInv` shows that this is enough, and there is one lemma per statement; the
commit has its own.

`RequestsApplied` is about all the statements of a post at its commit, so its
invariant follows a post from its beginning: `AloneInv` says of a transaction that
no other commit has overlapped that it is `UnderWay`. The configurations it is
done with have the rules of the post, the one it is in has them but for those it
has still to visit or to delete (`PostUnderWay`); the rule to be saved is still as
it was read, so that the comparison of the messages is of the rule that is
replaced (`SavesSeen`); and no rule is deleted and inserted again in one post,
which would start at version 1 (`KeepsRules`, `WrittenLater`). A commit ends
the claim for the other transactions, and gives `Match` and `NewVersions` for its
own. `MCSantaRulesetsPosts` refutes the same of overlapping posts.

### MDM enrollments (`MDMEnrollmentProofs`)

For every number of devices, sessions, edits and lost replies, and all quotas:

- `EnrollmentInvariant`: `Spec => []EnrollmentInv`, and from it
  `EnrollmentTypes`, `DeviceOfSession` (`OneDevice`), `QuotaOfSession`
  (`QuotaSuffices`), `RequestsOfSession` (`RequestsRecorded`) and
  `SessionOfDevice` (`EnrolledCompleted`);
- `SessionsForward`: `Spec => Forward`, and `SessionsLogged`:
  `Spec => LoginRequired`;
- `CountedSessions`: `Spec => []SessionsCounted`;
- `SessionsAreExplained`: `Spec => []SessionsExplained`.

A view looks at the status of a session and at the quota of its secret, but not
at the device that asks: the profile, with its secret, can be copied. `OneDevice`
holds because what a device has in hand tells how far its session is.
`Certificates`: a certificate of the MDM means that the session has been through
its last verification. `RequestsOnce`: a session that is not that far has not
done the verification yet, and a session that has is not at the status of the
verification again, so that the next device is refused. `QuotaSuffices` needs
both directions, and so does `RequestsRecorded`. Two parts are there for the two
views without a lock. `AccountSessions`: an account-driven session is in the
hands of one device. `PostedRows` and `WaitingPosts`: a row that one of these
views has read, and not saved yet, is of such a session, never takes it back
unless its own device is enrolled already (then `overwritten` has it), and only
one device waits for it. The proof has one lemma for each kind of step (a step
that keeps the sessions, adds one, or changes the one of a device) and one that
shows the kind of each action. `SessionsCounted` has an invariant of its own,
`CountedInv`: the first request of a DEP log in is counted before the session
exists, so these logins are counted too. The count of the secret itself is the
number of its requests only until a form or a revocation saves a row that is not
the current one any more (`saved`); the requests are never lost. It is about cardinalities; `Logins` is
finite because each has a request, so that this proof does without
`CountingAssumption`.

`SessionsExplained` bounds the sessions by the devices that have started and the
mishaps so far, and says nothing of which device had which. `ExplainedInv` has the
balance that every step keeps: the sessions, plus the devices that may still
create one (`Starting`), plus one for each device while a form is open, are no
more than the devices, the lost replies, all the devices for each edit, the
expired secrets, and all the devices once more when the secret of the enrollment is
not valid. A device is not in `Starting` when it `GoesOn`: it alone has its
session, no request that it has given up will be saved over it (`OwnSession`), the
secret of the session is not revoked, not expired, for this device and has quota
for all that is still to come (`UsableKey`), and the session is at the status that
the view of the next request requires (`Ready`). The proof shows that such a
request is accepted and that the device goes on after it, in each of the views.
`Beside` is what a request leaves to the other devices, which therefore all go on;
hence it adds its own device to `Starting` at most, and only when its reply is
lost; the creation of a session takes its device out of it (`CreationStep`).
An edit may add all the devices, an expiry the one whose session it is; `ExplainedInv`
reserves all the devices for each form that is open, because its save may replace
the secret with an older row at any time. A device that has still to verify the
secret of the enrollment (`Awaiting`, in an account-driven enrollment) does not go
on once this secret is not valid: the last bound of the balance is for these. The
other devices go on with a secret that is not valid, since no view looks at it
again, and so do those that get a session without a verification. That of a DEP
enrollment stays valid (`ExplainedInv` says so of its row and of the rows that are
about to be saved), so that a log in that was counted still creates its session.
`CountingAssumption` is needed here: finitely many devices, and `AccountQuota > 1`.
The quota is 10 in the code (`models.py`); with a quota of 1 the log in would use
up the secret, and every device of an account-driven enrollment start again.

### MDM commands (`MDMCommandsProofs`)

For every set of profiles and applications, every number of versions, retries,
edits and faults, on both platforms:

- `CommandsInvariant`: `Spec => []CommandsInv`, and from it `CommandTypes`,
  `RowPerProfile` (`OneRowPerProfile`), `ConfirmedAppRow` (`OneConfirmedApp`),
  `RowsBelieved` (`BelievedInstalled`) and `ProfilesKnown` (`InstalledKnown`);
- `SetupLast`: `Spec => DeviceConfiguredLast`: the first profiles are on the device,
  and the accounts if its session has a realm user (without one they are never
  configured, see `AccountsConfigured` above).

The server learns what the device has from two sources, the results of the
commands and the status reports of declarative management, and replaces its rows
with what it learns. `OneManagement` is the reason why an old result does not
contradict a newer report: a device that has declarations, or is about to have
them, has no command for a profile in hand, and all its profiles are declared;
an acknowledged install or removal that is not recorded yet is still true of the
device. `CommandShape` and `QueueShape` say which commands there are, and that no
operation on a profile waits in the queue, `NoDeclarations` that macOS has no
declarations, `AgentShape` that the device is clean until it is enrolled.

`BelievedInstalled` and `InstalledKnown` leave out `MixedManagement`: on iOS, an
administrator has saved the outdated row of a device, which may switch declarative
management off while the device has it on. The install command that follows is
then answered after the status report of the declaration that has replaced the
profile. `BelievedInstalled` was first stated without this case; with two edits
TLC refutes that, and the induction fails there.

### Queue workers (`ConsumerProducerProofs`)

For every set of messages and of publish threads, all sizes of the batches, the
queues and `in_flight`, and any number of faults, redeliveries and signals:

- `ThreadsInvariant`: `Spec => []WorkerInv`, and from it `WorkerTypes` (`TypeOK`);
- `WorkerDelivers`: `SingleEvent => (Spec => EventsDelivered)`, the refinement of
  `EventDelivery`, and `DeletedArePublished`: `SingleEvent => (Spec => []DeletedPublished)`;
- `CountedEvents`: `Spec /\ []EvictsUnused => []EventsCounted`, and
  `LastEventCounted`: `Spec /\ []EvictsUnused => NoMoreUnpublishedEvents`.

`ThreadsInv` says what each thread has in hand: an event under way has one of
the indexes of its message, a message on its way to be deleted without event has
none, a thread that puts something has something to put. The refinement needs to
know that a message in `delete_message_queue`, or on its way there, is published.
`ReturnedPublished` says it of all the handles that have passed a publish thread.
It is inductive when no message generates several events, the hypothesis
`SingleEvent`: an enrich worker satisfies it while no incident changes, since an
event then generates itself only, enriched. Without it `MCConsumerDeleted`
refutes the promise. Then each step maps to one of
`EventDelivery`: `Publish` to its `Publish`, `DeleteEntries` and `CouldNotDelete` to
its `Delete`,
every other one to none.

The counts are those of messages with any number of events. `UncountedEvents`
adds five cardinalities, one per part of the worker, and each step moves an
event from one part to the next: `Shifted`, `OneMore` and `Disjoint` bound what
a part loses and the next one gains (`Publish` may lose events, never add some),
and `Moved` puts the parts together. `in_flight` is handled by `OthersKept`,
`MovedLast` and `OldestEvicted`, lemmas about ordered dictionaries. The
hypothesis `EvictsUnused` says that the handle that a new event evicts has no
event under way: the eviction is "to avoid memory issues in case of a bug"
(`consumer.py:261`). It cannot be left out, TLC refutes `EventsCounted` with
`MaxInFlight` = 1, and it holds in the run `consumer_counts`.

### Assumptions, and what is only model-checked

The assumptions on the constants are those named in the modules (a bundle
contains binaries, `NoCursor` is not a cursor, names differ, bounds are
naturals, there are finitely many messages, threads and devices, an account-driven
session has the quota for its two verifications); TLC evaluates them in every run.
`SingleEvent`, `EvictsUnused`, `[](faults = 0)`, `[](late = {})`, `OneRuleEach` and `NoRuleDeleted`
are hypotheses of the theorems that need them, not assumptions; TLC refutes the
properties without them.

Every safety property of the runs is proved: `EventsDelivered`, `EventsCounted`,
`DoneMeansRemoved` and `DoneMeansErased` under these hypotheses, the other ones
without any. Only model-checked is all the liveness
(`SyncEnds`, both `Converges`, `MessagesDeleted`, `OperationsEnd`,
`EnrollmentEnds`, `ProfilesConverge`, `BlockedBundleUploaded`), which is out of
reach of the prover with its fairness and `ENABLED`.

## 5. What is not modelled

- In the Santa modules: the configuration sent by the preflight, the events and
  their files, the scopes and tags of the rules of a post; in `SantaRuleSync`,
  bundles that are not uploaded yet, several configurations at once (the other
  one is `ReEnroll`), several machines (they share nothing but the rules).
- In the workers: the bodies of the messages, receive errors (which only delay),
  in the runs, the eviction of receipt handles (`MaxInFlight` is never reached;
  the theorems have it).
- In the incidents: events, names, metrics, severity forms.
- In the probe views: the probes and their filters, the errors of their queries,
  connections that hang without error.
- In the MDM enrollments: the serial numbers and UDIDs that restrict the secret
  of an enrollment itself, a business unit that does not match, the certificates.
- In the MDM commands: the channel of the users, the content of the payloads,
  the priorities of artifacts; requests that the server processes after the device
  has given them up. A status report (`declarations.py:123`) tells what the device
  has when it is processed, or is lost; a late one, or a late result of a command of
  a previous enrollment, can write rows for profiles that the device does not have
  any more, and the properties about the rows do not cover that.
- In the inventory: several sources, the tree of objects (a set here), the
  deadlocks of transactions, the meta machines, tags and queries.
- Hazards without a property in a run: a rule of a bundle and one of its binaries
  (`santa/models.py:505`, refuted by `MCSantaBundleConflict`); the confirmation
  of an application (`mdm/commands/install_enterprise_application.py:40`), two
  posts of a log in (`realms/backends/ldap/views.py:20`) and a realm set after
  the profile (`mdm/views/dep.py:69`), which the theorems `ConfirmedAppRow`,
  `CountedSessions` and `SessionsLogged` are about; an incident that is reopened
  (`incidents/models.py:60`), a database error while a view is loaded
  (`probes/conf.py:104`), the eviction of receipt handles (`consumer.py:264`),
  two deliveries of an event in a batch of a store worker
  (`aws_sns_sqs/__init__.py:301`) and a store that fails in the middle of one
  (`consumer.py:204`).
- The components with the status `not_modelled`, for the reasons given there.

## 6. Plan

In this order, the most important behaviour first:

1. `StoreWorkers`: `Consumer`, `ConcurrentConsumer`, `BatchConsumer`, refining
   `EventDelivery`; Kombu and Pub/Sub after them.
2. The DEP cursor, `DistributedQueries` (Osquery), and Monolith.
