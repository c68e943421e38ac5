--------------------------- MODULE MDMEnrollment ---------------------------
(* The enrollment of the devices in the MDM: the sessions of one OTA, DEP   *)
(* or user enrollment, their secrets, the login of the user in the realm,   *)
(* and the first two messages of a device.                                  *)
(* zentral/contrib/mdm: models.py and views/, inventory/models.py           *)
(* (EnrollmentSecret), utils/api_views.py (SCEP), server/realms/backends.   *)
(*                                                                          *)
(* A request is a transaction: it is one step, and changes nothing when it  *)
(* is refused, unless it changes a row it has read without a lock.          *)
EXTENDS Integers, FiniteSets, Sequences

CONSTANTS
    Devices,       \* a device stands for its serial number and its UDID
    NoDevice,
    MaxSessions,   \* bound of the number of sessions
    Quotas,        \* the quotas of the enrollment secret, 0 for no quota
    AccountQuota,  \* quota of the secret of an account driven session, 10 in the code
    MaxEdits,      \* bound of the operations of the administrators, of the copies
                   \* of profiles and of the devices leaving
    MaxFaults      \* bound of the lost responses

ASSUME EnrollmentAssumption ==
    /\ NoDevice \notin Devices
    /\ MaxSessions \in Nat /\ MaxEdits \in Nat /\ MaxFaults \in Nat
    /\ AccountQuota \in Nat \ {0}
    /\ Quotas \subseteq Nat

\* What is needed to count the sessions of the devices: an account driven session
\* needs two verifications of its secret.
ASSUME CountingAssumption == IsFiniteSet(Devices) /\ AccountQuota > 1

VARIABLES
    enrollment,  \* its type, whether it has a realm, whether the realm is LDAP
    secret,      \* its secret
    requests,    \* number of EnrollmentSecretRequest rows of its secret
    forms,       \* what the requests of the administrators have read, and not saved yet
    saved,       \* history: one of them has been saved over later changes
    session,     \* the rows of the sessions, in the order of their creation
    key,         \* the secrets of the sessions
    browser,     \* the keys of the web sessions: <<device, session or 0>>
    enrolled,    \* the EnrolledDevice rows: "token" when they can be notified
    posts,       \* the requests that have read rows without a lock
    overwritten, \* history: sessions saved from an outdated row
    attempt,     \* what each device has received last
    edits, faults

tables == <<secret, requests, session, key, enrolled>>
admin == <<enrollment, forms, saved, edits>>
lockfree == <<posts, overwritten>>
vars == <<tables, admin, lockfree, browser, attempt, faults>>

-----------------------------------------------------------------------------
(* The tables.                                                              *)

Secrets ==
    [quota : Nat, count : Nat, revoked : BOOLEAN, expired : BOOLEAN,
     serial : Devices \cup {NoDevice}]
NewSecret(quota, d) ==
    [quota |-> quota, count |-> 0, revoked |-> FALSE, expired |-> FALSE, serial |-> d]

\* EnrollmentSecret.is_valid; NoDevice when the request has no serial number.
IsValid(es, d) ==
    /\ ~es.revoked
    /\ ~es.expired
    /\ (d = NoDevice \/ es.serial = NoDevice \/ d = es.serial)
    /\ (es.quota = 0 \/ es.count < es.quota)
Counted(es) == [es EXCEPT !.count = @ + 1]

\* The order of the statuses of the sessions.
Rank(st) ==
    CASE st \in {"ACCOUNT_DRIVEN_START", "PHASE_1"} -> 1
      [] st \in {"ACCOUNT_DRIVEN_AUTHENTICATED", "PHASE_2"} -> 2
      [] st = "PHASE_2_SCEP_VERIFIED" -> 3
      [] st \in {"STARTED", "PHASE_3"} -> 4
      [] st \in {"SCEP_VERIFIED", "PHASE_3_SCEP_VERIFIED"} -> 5
      [] st = "AUTHENTICATED" -> 6
      [] st = "COMPLETED" -> 7

Statuses ==
    {"ACCOUNT_DRIVEN_START", "ACCOUNT_DRIVEN_AUTHENTICATED", "STARTED", "SCEP_VERIFIED",
     "PHASE_1", "PHASE_2", "PHASE_2_SCEP_VERIFIED", "PHASE_3", "PHASE_3_SCEP_VERIFIED",
     "AUTHENTICATED", "COMPLETED"}

\* account: the session was created without a Managed Apple ID. user: the
\* realm user is set. requests: the requests of the secret the row refers to.
Session ==
    [status : Statuses, account : BOOLEAN, user : BOOLEAN,
     requests : SUBSET {"phase2", "phase2_scep", "phase3_scep", "scep"},
     enrolled : Devices \cup {NoDevice}, token : Nat]
NewSession(status, account, user) ==
    [status |-> status, account |-> account, user |-> user, requests |-> {},
     enrolled |-> NoDevice, token |-> 0]

\* What a device holds: a profile, a certificate, a web page, an answer.
Items ==
    {"none", "payload", "challenge", "ota_scep", "ota_cert", "mdm_scep", "mdm_cert",
     "authenticated", "enrolled", "login", "login_used", "page", "url", "token", "waiting"}
Held(item, s) == [item |-> item, session |-> s, token |-> 0]
Nothing == Held("none", 0)

\* The handlers that do not lock the session: user_enroll_callback and the
\* second post of EnrollUserView. row: the row they will save.
Posts ==
    [handler : {"callback", "enroll"}, device : Devices, session : 1 .. MaxSessions,
     read : Session, row : Session, lost : BOOLEAN]

\* The requests of the administrators: the secret they have read, the rows they
\* will save, with the count that they have read.
Forms ==
    {f \in [read : Secrets, row : Secrets, realm : BOOLEAN] : f.row.count = f.read.count}

TypeOK ==
    /\ enrollment \in [type : {"OTA", "DEP", "USER"}, realm : BOOLEAN, ldap : BOOLEAN]
    /\ secret \in Secrets
    /\ requests \in Nat
    /\ forms \subseteq Forms
    /\ saved \in BOOLEAN
    /\ session \in Seq(Session) /\ Len(session) \in 0 .. MaxSessions
    /\ key \in Seq(Secrets) /\ Len(key) = Len(session)
    /\ browser \subseteq Devices \X (0 .. MaxSessions)
    /\ enrolled \in [Devices -> {"absent", "authenticated", "token", "checked_out"}]
    /\ posts \subseteq Posts
    /\ overwritten \subseteq 1 .. MaxSessions
    /\ attempt \in [Devices -> [item : Items, session : 0 .. MaxSessions, token : Nat]]
    /\ edits \in 0 .. MaxEdits
    /\ faults \in 0 .. MaxFaults

Init ==
    /\ enrollment \in [type : {"OTA", "DEP", "USER"}, realm : BOOLEAN, ldap : BOOLEAN]
    /\ \E quota \in Quotas : secret = NewSecret(IF enrollment.type = "DEP" THEN 0 ELSE quota, NoDevice)
    /\ requests = 0
    /\ forms = {}
    /\ saved = FALSE
    /\ session = <<>>
    /\ key = <<>>
    /\ browser = {}
    /\ enrolled = [d \in Devices |-> "absent"]
    /\ posts = {}
    /\ overwritten = {}
    /\ attempt = [d \in Devices |-> Nothing]
    /\ edits = 0
    /\ faults = 0

Ids == 1 .. Len(session)
Here(d, item) == attempt[d].item = item
Row(d) == session[attempt[d].session]
Key(d) == key[attempt[d].session]
Holding(d, item) == Held(item, attempt[d].session)

\* The reply reaches the device, or is lost: it will send its request again.
Reply(d, held) ==
    \/ attempt' = [attempt EXCEPT ![d] = held] /\ UNCHANGED faults
    \/ faults < MaxFaults /\ faults' = faults + 1 /\ UNCHANGED attempt

Locked == \E p \in posts : p.handler = "enroll"

-----------------------------------------------------------------------------
(* EnrollmentSecretManager.verify, and the creation of the sessions.        *)

\* The row of the secret is locked: the verification waits for the post of
\* EnrollUserView that has it.
Verified(d) == ~Locked /\ IsValid(secret, d)
CountRequest ==
    /\ secret' = Counted(secret)
    /\ requests' = requests + 1

VerifiedKey(d, serial) == IsValid(Key(d), serial)

CreateSession(row, es) ==
    /\ Len(session) < MaxSessions
    /\ session' = Append(session, row)
    /\ key' = Append(key, es)
Created == Len(session) + 1

\* _set_next_status, after the verification of the secret of the session.
SetNextStatus(d, row, es) ==
    /\ session' = [session EXCEPT ![attempt[d].session] = row]
    /\ key' = [key EXCEPT ![attempt[d].session] = es]

-----------------------------------------------------------------------------
(* The administrators.                                                      *)

Edit == edits < MaxEdits /\ edits' = edits + 1

\* A view of the administrators reads an enrollment and its secret, without a
\* lock ...
Read(row, realm) ==
    LET f == [read |-> secret, row |-> row, realm |-> realm]
    IN f \notin forms /\ forms' = forms \cup {f}

\* ... to update them ...
OpenForm ==
    /\ Edit
    /\ \E quota \in Quotas, realm \in BOOLEAN :
          /\ enrollment.type = "DEP" => quota = secret.quota
          /\ Read([secret EXCEPT !.quota = quota], realm)
    /\ UNCHANGED <<enrollment, saved, tables, lockfree, browser, attempt, faults>>

\* ... or to revoke them ...
Revoke ==
    /\ enrollment.type # "DEP"
    /\ ~secret.revoked
    /\ Edit
    /\ Read([secret EXCEPT !.revoked = TRUE], enrollment.realm)
    /\ UNCHANGED <<enrollment, saved, tables, lockfree, browser, attempt, faults>>

\* ... and saves the whole rows.
SaveForm(f) ==
    /\ ~Locked
    /\ secret' = f.row
    /\ enrollment' = [enrollment EXCEPT !.realm = f.realm]
    /\ saved' = (saved \/ secret # f.read)
    /\ forms' = forms \ {f}
    /\ UNCHANGED <<edits, requests, session, key, enrolled, lockfree, browser, attempt, faults>>

\* One hour after the creation of a DEP enrollment session.
Expire(s) ==
    /\ enrollment.type = "DEP"
    /\ ~key[s].expired
    /\ key' = [key EXCEPT ![s].expired = TRUE]
    /\ UNCHANGED <<admin, secret, requests, session, enrolled, lockfree, browser, attempt, faults>>

-----------------------------------------------------------------------------
(* OTA enrollment.                                                          *)

\* The three web pages that give a profile test the pair that is_valid returns,
\* which is never false: they serve an enrollment that is not valid anymore.
DownloadPayload(d) ==
    /\ enrollment.type = "OTA" /\ ~enrollment.realm
    /\ Here(d, "none")
    /\ attempt' = [attempt EXCEPT ![d] = Held("payload", 0)]
    /\ UNCHANGED <<admin, tables, lockfree, browser, faults>>

\* OTAEnrollView, phase 2 with the secret of the enrollment: the session is
\* only for this device.
\* Variant: the realm is not checked.
CanEnrollAny(d) == Verified(d)
CanEnroll(d) == Verified(d) /\ ~enrollment.realm
OTAEnroll(d) ==
    /\ Here(d, "payload")
    /\ CanEnroll(d)
    /\ CountRequest
    /\ CreateSession(NewSession("PHASE_2", FALSE, FALSE), NewSecret(2, d))
    /\ Reply(d, Held("ota_scep", Created))
    /\ UNCHANGED <<admin, enrolled, lockfree, browser>>

\* OTAEnrollmentEnrollView: a login in the realm, then a session of the user.
\* Variant: the download of the profile is not counted.
ScepQuota == 2
RealmQuota == 3
OTAWebLogin(d) ==
    /\ enrollment.type = "OTA" /\ enrollment.realm
    /\ Here(d, "none")
    /\ <<d, 0>> \notin browser
    /\ attempt' = [attempt EXCEPT ![d] = Held("login", 0)]
    /\ UNCHANGED <<admin, tables, lockfree, browser, faults>>

OTAWebEnroll(d) ==
    /\ enrollment.type = "OTA" /\ enrollment.realm
    /\ Here(d, "none")
    /\ <<d, 0>> \in browser
    /\ browser' = browser \ {<<d, 0>>}
    /\ CreateSession(NewSession("PHASE_1", FALSE, TRUE), NewSecret(RealmQuota, NoDevice))
    /\ Reply(d, Held("challenge", Created))
    /\ UNCHANGED <<admin, secret, requests, enrolled, lockfree>>

\* OTAEnrollView, phase 2 with the secret of the session, which becomes the
\* one of the device.
\* Variant: the session is found by its secret, and not verified.
CanBindAny(d) == Row(d).user
CanBind(d) == VerifiedKey(d, d) /\ Row(d).user /\ Row(d).status = "PHASE_1"
\* Variant: a copy of the secret read before the verification is saved.
BoundCopy(es, d) == [es EXCEPT !.serial = d]
Bound(es, d) == [Counted(es) EXCEPT !.serial = d]
OTAEnrollSession(d) ==
    /\ Here(d, "challenge")
    /\ CanBind(d)
    /\ SetNextStatus(d, [Row(d) EXCEPT !.status = "PHASE_2", !.requests = @ \cup {"phase2"}],
                     Bound(Key(d), d))
    /\ Reply(d, Holding(d, "ota_scep"))
    /\ UNCHANGED <<admin, secret, requests, enrolled, lockfree, browser>>

\* OTAEnrollView, phase 3.
\* Variant: the second certificate is requested before the first one is known.
CanStartPhase3Early(d) == Row(d).status = "PHASE_2"
CanStartPhase3(d) == Row(d).status = "PHASE_2_SCEP_VERIFIED"
OTAPhase3(d) ==
    /\ Here(d, "ota_cert")
    /\ CanStartPhase3(d)
    /\ SetNextStatus(d, [Row(d) EXCEPT !.status = "PHASE_3"], Key(d))
    /\ Reply(d, Holding(d, "mdm_scep"))
    /\ UNCHANGED <<admin, secret, requests, enrolled, lockfree, browser>>

-----------------------------------------------------------------------------
(* DEP enrollment.                                                          *)

DEPEnroll(d) ==
    /\ enrollment.type = "DEP"
    /\ Here(d, "none")
    /\ CanEnroll(d)
    /\ CountRequest
    /\ CreateSession(NewSession("STARTED", FALSE, FALSE), NewSecret(1, d))
    /\ Reply(d, Held("mdm_scep", Created))
    /\ UNCHANGED <<admin, enrolled, lockfree, browser>>

DEPWebEnroll(d) ==
    /\ enrollment.type = "DEP" /\ enrollment.realm
    /\ Here(d, "none")
    /\ Verified(d)
    /\ Len(session) < MaxSessions
    /\ CountRequest
    /\ Reply(d, Held("login", 0))
    /\ UNCHANGED <<admin, session, key, enrolled, lockfree, browser>>

\* DEPEnrollmentSessionView: the key of the web session is removed.
CanDownload(d) ==
    /\ enrollment.realm
    /\ <<d, attempt[d].session>> \in browser
    /\ Row(d).status = "STARTED"
DEPProfile(d) ==
    /\ enrollment.type = "DEP"
    /\ Here(d, "page")
    /\ CanDownload(d)
    /\ browser' = browser \ {<<d, attempt[d].session>>}
    /\ Reply(d, Holding(d, "mdm_scep"))
    /\ UNCHANGED <<admin, tables, lockfree>>

\* finalize_session and the callbacks of the OTA and DEP enrollments. The
\* authentication session is used once, except by two concurrent posts of the
\* form of the LDAP backend: it has been read without a lock. The callback of an
\* OTA enrollment sets the key of the web session, and then fails to build the
\* URL of the page: the user gets an error, and opens the page again.
\* Variant: no backend locks the authentication session.
UnlockedLogin == "login"
UsedLogin == IF enrollment.ldap THEN "login" ELSE "login_used"
FinalizeLogin(d) ==
    /\ Here(d, "login")
    /\ enrollment.type # "USER" /\ enrollment.realm
    /\ \E s \in {0, Created} :
          /\ IF enrollment.type = "OTA"
             THEN s = 0 /\ UNCHANGED <<session, key>>
             ELSE s = Created /\ CreateSession(NewSession("STARTED", FALSE, TRUE), NewSecret(1, d))
          /\ browser' = browser \cup {<<d, s>>}
          /\ \/ /\ attempt' = [attempt EXCEPT ![d] = IF enrollment.type = "OTA" THEN Nothing
                                                     ELSE Held("page", s)]
                /\ UNCHANGED faults
             \/ /\ faults < MaxFaults
                /\ faults' = faults + 1
                /\ attempt' = [attempt EXCEPT ![d] = Held(UsedLogin, 0)]
    /\ UNCHANGED <<admin, secret, requests, enrolled, lockfree>>

-----------------------------------------------------------------------------
(* User enrollment.                                                         *)

\* UserEnrollmentEnrollView: the form with the Managed Apple ID.
UserForm(d) ==
    /\ enrollment.type = "USER"
    /\ Here(d, "none")
    /\ CreateSession(NewSession("STARTED", FALSE, FALSE), NewSecret(1, NoDevice))
    /\ Reply(d, Held("mdm_scep", Created))
    /\ UNCHANGED <<admin, secret, requests, enrolled, lockfree, browser>>

\* EnrollUserView, without an access token.
EnrollUser(d) ==
    /\ enrollment.type = "USER" /\ enrollment.realm
    /\ Here(d, "none")
    /\ Verified(NoDevice)
    /\ CountRequest
    /\ CreateSession(NewSession("ACCOUNT_DRIVEN_START", TRUE, FALSE),
                     NewSecret(AccountQuota, NoDevice))
    /\ Reply(d, Held("url", Created))
    /\ UNCHANGED <<admin, enrolled, lockfree, browser>>

CanAuthenticateUser(d) == enrollment.realm /\ VerifiedKey(d, NoDevice)
AuthenticateUser(d) ==
    /\ Here(d, "url")
    /\ CanAuthenticateUser(d)
    /\ key' = [key EXCEPT ![attempt[d].session] = Counted(@)]
    /\ Reply(d, Holding(d, "login"))
    /\ UNCHANGED <<admin, secret, requests, session, enrolled, lockfree, browser>>

Post(d, handler, row) ==
    /\ posts' = posts \cup {[handler |-> handler, device |-> d, session |-> attempt[d].session,
                             read |-> Row(d), row |-> row, lost |-> FALSE]}
    /\ attempt' = [attempt EXCEPT ![d] = Holding(d, "waiting")]

\* user_enroll_callback: every call makes another access token.
Tokens == {session[s].token : s \in Ids} \cup {p.row.token : p \in posts}
NewToken == CHOOSE t \in 1 .. Cardinality(Tokens) + 1 : t \notin Tokens
CanCallBack(d) == enrollment.realm /\ Row(d).status = "ACCOUNT_DRIVEN_START"
UserCallback(d) ==
    /\ enrollment.type = "USER"
    /\ Here(d, "login")
    /\ CanCallBack(d)
    /\ Post(d, "callback", [Row(d) EXCEPT !.status = "ACCOUNT_DRIVEN_AUTHENTICATED",
                                          !.user = TRUE, !.token = NewToken])
    /\ UNCHANGED <<admin, tables, overwritten, browser, faults>>

\* EnrollUserView, with an access token: the profile.
CanStart(d) ==
    /\ Verified(NoDevice)
    /\ enrollment.realm
    /\ Row(d).token = attempt[d].token
    /\ Row(d).status = "ACCOUNT_DRIVEN_AUTHENTICATED"
EnrollUserSession(d) ==
    /\ Here(d, "token")
    /\ CanStart(d)
    /\ Post(d, "enroll", [Row(d) EXCEPT !.status = "STARTED"])
    /\ UNCHANGED <<admin, tables, overwritten, browser, faults>>

\* The row is saved, whatever it has become since it was read.
SavePost(p) ==
    /\ session' = [session EXCEPT ![p.session] = p.row]
    /\ overwritten' = overwritten \cup (IF session[p.session] = p.read THEN {} ELSE {p.session})
    /\ IF p.handler = "enroll" THEN CountRequest ELSE UNCHANGED <<secret, requests>>
    /\ posts' = posts \ {p}
    /\ attempt' = IF p.lost THEN attempt
                  ELSE [attempt EXCEPT ![p.device] =
                           IF p.handler = "enroll" THEN Held("mdm_scep", p.session)
                           ELSE [Held("token", p.session) EXCEPT !.token = p.row.token]]
    /\ UNCHANGED <<admin, key, enrolled, browser, faults>>

\* The device does not wait for the reply any longer, and starts again from
\* the page of the login, or with its token.
TimeOut(p) ==
    /\ ~p.lost
    /\ faults < MaxFaults
    /\ faults' = faults + 1
    /\ posts' = (posts \ {p}) \cup {[p EXCEPT !.lost = TRUE]}
    /\ attempt' = [attempt EXCEPT ![p.device] =
                      IF p.handler = "enroll"
                      THEN [Held("token", p.session) EXCEPT !.token = p.row.token]
                      ELSE Held("url", p.session)]
    /\ UNCHANGED <<admin, tables, overwritten, browser>>

-----------------------------------------------------------------------------
(* The certificates, and the first messages of the device.                  *)

\* VerifySCEPCSRView, for the name of the certificate: the status of the
\* session is part of the query for its secret.
ScepStatus(d) ==
    IF Here(d, "ota_scep") THEN "PHASE_2"
    ELSE IF enrollment.type = "OTA" THEN "PHASE_3" ELSE "STARTED"
ScepVerified(d) ==
    CASE ScepStatus(d) = "PHASE_2" -> "PHASE_2_SCEP_VERIFIED"
      [] ScepStatus(d) = "PHASE_3" -> "PHASE_3_SCEP_VERIFIED"
      [] ScepStatus(d) = "STARTED" -> "SCEP_VERIFIED"
ScepRequest(d) ==
    CASE ScepStatus(d) = "PHASE_2" -> "phase2_scep"
      [] ScepStatus(d) = "PHASE_3" -> "phase3_scep"
      [] ScepStatus(d) = "STARTED" -> "scep"

\* The certificate request has the serial number of the secret, when it has one.
\* Variant: the secret and the session are not verified.
UnverifiedCSR(d) == ~Key(d).revoked
CanVerifyCSR(d) == VerifiedKey(d, Key(d).serial) /\ Row(d).status = ScepStatus(d)
VerifySCEPCSR(d) ==
    /\ attempt[d].item \in {"ota_scep", "mdm_scep"}
    /\ CanVerifyCSR(d)
    /\ SetNextStatus(d, [Row(d) EXCEPT !.status = ScepVerified(d),
                                       !.requests = @ \cup {ScepRequest(d)}],
                     Counted(Key(d)))
    /\ Reply(d, Holding(d, IF Here(d, "ota_scep") THEN "ota_cert" ELSE "mdm_cert"))
    /\ UNCHANGED <<admin, secret, requests, enrolled, lockfree, browser>>

\* set_authenticated_status: EnrollmentSessionStatusError is not caught, the
\* request fails.
CanAuthenticate(d) ==
    /\ Row(d).status \in {"PHASE_3_SCEP_VERIFIED", "SCEP_VERIFIED"}
    /\ Row(d).enrolled = NoDevice
\* Variant: the row of the device is created, never updated.
AuthenticateNew(d) ==
    /\ Here(d, "mdm_cert")
    /\ CanAuthenticate(d)
    /\ enrolled[d] = "absent"
    /\ enrolled' = [enrolled EXCEPT ![d] = "authenticated"]
    /\ SetNextStatus(d, [Row(d) EXCEPT !.status = "AUTHENTICATED", !.enrolled = d], Key(d))
    /\ Reply(d, Holding(d, "authenticated"))
    /\ UNCHANGED <<admin, secret, requests, lockfree, browser>>
Authenticate(d) ==
    /\ Here(d, "mdm_cert")
    /\ CanAuthenticate(d)
    /\ enrolled' = [enrolled EXCEPT ![d] = "authenticated"]
    /\ SetNextStatus(d, [Row(d) EXCEPT !.status = "AUTHENTICATED", !.enrolled = d], Key(d))
    /\ Reply(d, Holding(d, "authenticated"))
    /\ UNCHANGED <<admin, secret, requests, lockfree, browser>>

CanUpdateToken(d) ==
    \/ Row(d).status = "COMPLETED"
    \/ Row(d).status = "AUTHENTICATED" /\ Row(d).enrolled = d
\* Variant: the session is only completed when the device is created.
TokenUpdateOfNew(d) ==
    /\ Here(d, "authenticated")
    /\ CanUpdateToken(d)
    /\ enrolled' = [enrolled EXCEPT ![d] = "token"]
    /\ Reply(d, Holding(d, "enrolled"))
    /\ UNCHANGED <<admin, secret, requests, session, key, lockfree, browser>>
TokenUpdate(d) ==
    /\ Here(d, "authenticated")
    /\ CanUpdateToken(d)
    /\ enrolled' = [enrolled EXCEPT ![d] = "token"]
    /\ SetNextStatus(d, [Row(d) EXCEPT !.status = "COMPLETED"], Key(d))
    /\ Reply(d, Holding(d, "enrolled"))
    /\ UNCHANGED <<admin, secret, requests, lockfree, browser>>

\* Variant: the session of the device is checked out too.
CheckOutSession(d) ==
    /\ Here(d, "enrolled")
    /\ Row(d).enrolled = d
    /\ Edit
    /\ enrolled' = [enrolled EXCEPT ![d] = "checked_out"]
    /\ SetNextStatus(d, [Row(d) EXCEPT !.status = "CHECKED_OUT"], Key(d))
    /\ attempt' = [attempt EXCEPT ![d] = Nothing]
    /\ UNCHANGED <<enrollment, forms, saved, secret, requests, lockfree, browser, faults>>

\* The device leaves the MDM, and says so if it can.
CheckOut(d) ==
    /\ Here(d, "enrolled")
    /\ Row(d).enrolled = d
    /\ Edit
    /\ enrolled' = [enrolled EXCEPT ![d] = "checked_out"]
    /\ attempt' = [attempt EXCEPT ![d] = Nothing]
    /\ UNCHANGED <<enrollment, forms, saved, secret, requests, session, key, lockfree,
                   browser, faults>>

\* The device is wiped.
Wipe(d) ==
    /\ attempt[d].item \notin {"none", "waiting"}
    /\ Edit
    /\ attempt' = [attempt EXCEPT ![d] = Nothing]
    /\ UNCHANGED <<enrollment, forms, saved, tables, lockfree, browser, faults>>

\* A downloaded profile is installed on another device.
Copy(d, e) ==
    /\ d # e /\ Here(e, "none")
    /\ \/ Here(d, "challenge")
       \/ Here(d, "mdm_scep") /\ enrollment.type = "USER" /\ ~Row(d).account
    /\ Edit
    /\ attempt' = [attempt EXCEPT ![e] = attempt[d]]
    /\ UNCHANGED <<enrollment, forms, saved, tables, lockfree, browser, faults>>

\* The request is refused: the enrollment has to be started again.
Accepted(d) ==
    CASE attempt[d].item = "payload" -> Locked \/ CanEnroll(d)
      [] attempt[d].item = "challenge" -> CanBind(d)
      [] attempt[d].item = "ota_cert" -> CanStartPhase3(d)
      [] attempt[d].item = "page" -> CanDownload(d)
      [] attempt[d].item = "login" ->
            IF enrollment.type = "USER" THEN CanCallBack(d) ELSE enrollment.realm
      [] attempt[d].item = "url" -> CanAuthenticateUser(d)
      [] attempt[d].item = "token" -> Locked \/ CanStart(d)
      [] attempt[d].item \in {"ota_scep", "mdm_scep"} -> CanVerifyCSR(d)
      [] attempt[d].item = "mdm_cert" -> CanAuthenticate(d)
      [] attempt[d].item = "authenticated" -> CanUpdateToken(d)
      [] OTHER -> attempt[d].item # "login_used"
Refused(d) ==
    /\ ~Accepted(d)
    /\ attempt' = [attempt EXCEPT ![d] = Nothing]
    /\ UNCHANGED <<admin, tables, lockfree, browser, faults>>

-----------------------------------------------------------------------------
Device(d) ==
    \/ DownloadPayload(d) \/ OTAEnroll(d) \/ OTAWebLogin(d) \/ OTAWebEnroll(d)
    \/ OTAEnrollSession(d) \/ OTAPhase3(d)
    \/ DEPEnroll(d) \/ DEPWebEnroll(d) \/ DEPProfile(d) \/ FinalizeLogin(d)
    \/ UserForm(d) \/ EnrollUser(d) \/ AuthenticateUser(d) \/ UserCallback(d)
    \/ EnrollUserSession(d)
    \/ VerifySCEPCSR(d) \/ Authenticate(d) \/ TokenUpdate(d)
    \/ Refused(d)

Next ==
    \/ OpenForm \/ Revoke
    \/ \E f \in forms : SaveForm(f)
    \/ \E s \in Ids : Expire(s)
    \/ \E d \in Devices : Device(d) \/ CheckOut(d) \/ Wipe(d)
    \/ \E d, e \in Devices : Copy(d, e)
    \/ \E p \in posts : SavePost(p) \/ TimeOut(p)

\* A device, and its user, go on with the enrollment, and start again when it
\* fails; a request that is being processed ends.
Fairness ==
    /\ \A d \in Devices : WF_vars(Device(d))
    /\ WF_vars(\E p \in posts : SavePost(p))

Spec == Init /\ [][Next]_vars /\ Fairness

-----------------------------------------------------------------------------
(* Properties.                                                              *)

\* A session is for one device, even if its profile is installed on several
\* (OTA with a realm, and user enrollments): only one gets the certificate,
\* and it is the device of the session (models.py, set_phase2_status and the
\* quotas of the secrets).
OneDevice ==
    \A d, e \in Devices :
        /\ attempt[d].item \in {"mdm_cert", "authenticated", "enrolled"}
        /\ attempt[e].item \in {"mdm_cert", "authenticated", "enrolled"}
        /\ attempt[d].session = attempt[e].session
        => d = e

\* A device that can be notified has been through all the steps of a session,
\* the one of its certificate (views/mdm.py, do_token_update). An outdated row
\* can replace the one of such a session.
EnrolledCompleted ==
    \A d \in Devices : enrolled[d] = "token" =>
        \E s \in Ids : \/ s \in overwritten
                       \/ session[s].status = "COMPLETED" /\ session[s].enrolled = d

\* Every verification of the secret of a session is one of the requests of the
\* session (models.py, set_phase2_status saves the secret that has just been
\* counted). In an account driven session, the other ones are logins.
RequestsRecorded ==
    \A s \in Ids :
        /\ session[s].account \/ key[s].count = Cardinality(session[s].requests)
        /\ key[s].count <= key[s].quota

\* The quotas of the secrets are enough for the verifications that the session
\* still needs (models.py:303, 323, 712 and 849).
Remaining(st) ==
    CASE st = "PHASE_1" -> 3
      [] st = "PHASE_2" -> 2
      [] st \in {"PHASE_2_SCEP_VERIFIED", "PHASE_3", "STARTED"} -> 1
      [] OTHER -> 0
QuotaSuffices ==
    \A s \in Ids :
        session[s].account \/ key[s].count + Remaining(session[s].status) <= key[s].quota

\* A device needs another session only after a lost reply, an operation of the
\* administrators or of the owners of the devices, or an expired secret: the
\* rules of the sessions refuse no device that has done nothing wrong. An account
\* driven enrollment takes two requests of the quota of the enrollment (views/user.py:43
\* verifies both posts): once the secret is not valid anymore the devices in such an
\* enrollment are refused, and each can take one more session, with the form.
Started == {d \in Devices : attempt[d] # Nothing \/ enrolled[d] # "absent"}
SessionsExplained ==
    Len(session) <= Cardinality(Started) + faults + Cardinality(Devices) * edits
                    + Cardinality({s \in Ids : key[s].expired})
                    + (IF IsValid(secret, NoDevice) THEN 0 ELSE Cardinality(Devices))

\* Every session is one request of the secret of the enrollment, which its
\* quota counts. Not the ones of the two web pages that give the profile of a
\* session, nor the ones of a DEP enrollment
\* with a LDAP realm, where the form of a login can be posted twice.
CountedSession(s) ==
    \/ enrollment.type = "OTA" /\ ~session[s].user
    \/ enrollment.type = "DEP" /\ ~(enrollment.ldap /\ session[s].user)
    \/ enrollment.type = "USER" /\ session[s].account
SessionsCounted ==
    /\ Cardinality({s \in Ids : CountedSession(s)}) <= requests
    /\ saved \/ secret.count = requests

\* A session only goes forward and keeps its device, unless an outdated row is
\* saved over it (views/user.py:80).
Forward ==
    [][\A s \in Ids :
          \/ s \in overwritten'
          \/ /\ Rank(session'[s].status) >= Rank(session[s].status)
             /\ session[s].enrolled # NoDevice => session'[s].enrolled = session[s].enrolled]_vars

\* What these properties rest on. A device only holds things of sessions that
\* exist; the items of the user enrollments come from an account driven session.
HeldSessions ==
    \A d \in Devices :
        /\ attempt[d].session \in 0 .. Len(session)
        /\ \/ attempt[d].item \in {"challenge", "ota_scep", "ota_cert", "mdm_scep", "mdm_cert",
                                   "authenticated", "enrolled", "url", "token", "waiting"}
           \/ Here(d, "login") /\ enrollment.type = "USER"
           \/ Here(d, "page") /\ enrollment.type = "DEP"
           => attempt[d].session \in Ids
        /\ Here(d, "challenge") => enrollment.type = "OTA"
        /\ \/ attempt[d].item \in {"url", "token", "waiting"}
           \/ Here(d, "login") /\ enrollment.type = "USER"
           => Row(d).account

\* An account driven session stays with the device that has started it.
AccountSessions ==
    /\ \A s \in Ids :
          /\ session[s].account => enrollment.type = "USER"
          /\ session[s].status = "ACCOUNT_DRIVEN_AUTHENTICATED" => session[s].user
    /\ \A d, e \in Devices :
          /\ attempt[d].session = attempt[e].session
          /\ attempt[d].session \in Ids
          /\ Row(d).account
          => d = e

\* The handlers without a lock save the rows of account driven sessions, and
\* the device of each of them waits, or has given up.
PostedRows ==
    \A p \in posts :
        /\ p.session \in Ids
        /\ session[p.session].account
        /\ p.row.account /\ p.row.user
        /\ p.read.status # "COMPLETED"
        /\ p.row.enrolled = p.read.enrolled
        /\ Rank(p.row.status) >= Rank(p.read.status)
WaitingPosts ==
    \A p \in posts : ~p.lost =>
        /\ Here(p.device, "waiting")
        /\ attempt[p.device].session = p.session
        /\ \A q \in posts : ~q.lost /\ q.device = p.device => q = p

\* A certificate of the MDM is from a session whose secret has been used.
Certificates ==
    \A d \in Devices :
        /\ attempt[d].item \in {"mdm_cert", "authenticated", "enrolled"} =>
              Row(d).account \/ Rank(Row(d).status) >= 5
        /\ attempt[d].item \in {"authenticated", "enrolled"} =>
              attempt[d].session \in overwritten \/ Row(d).enrolled = d

\* A verification of the secret of a session is not done twice.
RequestsOnce ==
    \A s \in Ids :
        LET row == session[s]
        IN /\ key[s].quota > 0
           /\ ~row.account =>
                /\ Rank(row.status) < 5 => row.requests \cap {"phase3_scep", "scep"} = {}
                /\ Rank(row.status) < 3 => "phase2_scep" \notin row.requests
                /\ Rank(row.status) < 2 => "phase2" \notin row.requests

EnrollmentInv ==
    /\ TypeOK
    /\ IsFiniteSet(posts)
    /\ HeldSessions
    /\ AccountSessions
    /\ PostedRows
    /\ WaitingPosts
    /\ Certificates
    /\ RequestsOnce
    /\ OneDevice
    /\ QuotaSuffices
    /\ RequestsRecorded
    /\ EnrolledCompleted

\* The logins of a DEP enrollment that have been counted, each for a session
\* that it still has to create.
Logins == {d \in Devices : Here(d, "login") /\ enrollment.type = "DEP" /\ ~enrollment.ldap}
CountedInv ==
    /\ IsFiniteSet(Logins)
    /\ Cardinality({s \in Ids : CountedSession(s)}) + Cardinality(Logins) <= requests
    /\ saved \/ secret.count = requests

\* Why a device starts again, and with it another session. A device goes on, and
\* is not refused, as long as its session is as its next request needs it, and no
\* other device and no request that it has given up has the session too.
StillNeeded(d) ==
    CASE Here(d, "challenge") -> 3
      [] attempt[d].item \in {"ota_scep", "url"} -> 2
      [] attempt[d].item \in {"mdm_cert", "authenticated", "enrolled"} -> 0
      [] OTHER -> 1
OwnSession(d) ==
    /\ attempt[d].session \in Ids
    /\ \A e \in Devices : attempt[e].session = attempt[d].session => e = d
    /\ \A p \in posts : p.session = attempt[d].session => ~p.lost
UsableKey(d) ==
    /\ ~Key(d).revoked
    /\ ~Key(d).expired
    /\ Key(d).serial \in {NoDevice, d}
    /\ Key(d).count + StillNeeded(d) <= Key(d).quota
Answer(d, p) ==
    /\ ~p.lost /\ p.device = d /\ p.session = attempt[d].session
    /\ p.row.enrolled = NoDevice
    /\ p.row.status = IF p.handler = "enroll" THEN "STARTED" ELSE "ACCOUNT_DRIVEN_AUTHENTICATED"
Ready(d) ==
    /\ attempt[d].item \in {"ota_scep", "ota_cert"} => enrollment.type = "OTA"
    /\ attempt[d].item \in {"authenticated", "enrolled"} \/ Row(d).enrolled = NoDevice
    /\ \/ Here(d, "challenge") /\ Row(d).user /\ Row(d).status = "PHASE_1"
       \/ attempt[d].item \in {"ota_scep", "mdm_scep"} /\ Row(d).status = ScepStatus(d)
       \/ Here(d, "ota_cert") /\ CanStartPhase3(d)
       \/ Here(d, "page") /\ enrollment.type = "DEP" /\ CanDownload(d)
       \/ attempt[d].item \in {"url", "login"} /\ enrollment.type = "USER" /\ CanCallBack(d)
       \/ /\ Here(d, "token")
          /\ enrollment.realm
          /\ Row(d).token = attempt[d].token
          /\ Row(d).status = "ACCOUNT_DRIVEN_AUTHENTICATED"
       \/ /\ Here(d, "waiting")
          /\ \E p \in posts : Answer(d, p) /\ (p.handler = "callback" => enrollment.realm)
       \/ Here(d, "mdm_cert") /\ CanAuthenticate(d)
       \/ Here(d, "authenticated") /\ CanUpdateToken(d)
       \/ Here(d, "enrolled")

\* A device that still has to verify the secret of the enrollment.
Awaiting(d) ==
    \/ attempt[d].item \in {"url", "login", "token"}
    \/ Here(d, "waiting") /\ \E p \in posts : Answer(d, p) /\ p.handler = "callback"
GoesOn(d) ==
    /\ OwnSession(d) /\ UsableKey(d) /\ Ready(d)
    /\ IsValid(secret, NoDevice) \/ ~Awaiting(d)

\* The other devices start another session, or their first one. They can be more
\* when the secret is not valid anymore, and after a save of an administrator.
Starting == {d \in Devices : ~GoesOn(d)}
SessionsBalanced ==
    /\ IsFiniteSet(forms)
    /\ Len(session) + Cardinality(Starting) + Cardinality(Devices) * Cardinality(forms)
       <= Cardinality(Devices) + faults + Cardinality(Devices) * edits
          + Cardinality({s \in Ids : key[s].expired})
          + (IF IsValid(secret, NoDevice) THEN 0 ELSE Cardinality(Devices))
ExplainedInv ==
    /\ SessionsBalanced
    /\ \A d \in Devices : Here(d, "payload") => enrollment.type = "OTA"
    \* The secret of a DEP enrollment stays valid: it has no quota, and no view revokes it.
    /\ enrollment.type = "DEP" =>
          \A es \in {secret} \cup {f.row : f \in forms} : IsValid(es, NoDevice) /\ es.quota = 0

\* Once an enrollment has a realm, no session starts without a login, also for
\* the devices that were given the profile before (views/ota.py:95,
\* views/dep.py:66). The form of the user enrollments has no login.
LoginRequired ==
    [][\A s \in 1 .. Len(session') :
          /\ enrollment.realm
          /\ enrollment.type # "USER" \/ session'[s].account
          /\ s \notin Ids \/ session'[s].status # session[s].status
          /\ session'[s].status \in {"PHASE_1", "STARTED"}
          => session'[s].user]_vars

\* A device that starts again after every failure ends up enrolled, whatever
\* the reply that was lost, unless it needs another session and there is none
\* left, or the secret of an OTA enrollment without a realm is not valid anymore:
\* the other enrollments also have a way that does not verify it (views/management.py:362
\* and 536), or a secret that stays valid.
Blocked(d) ==
    /\ attempt[d].item \in {"none", "payload", "login", "page"}
    /\ \/ Len(session) = MaxSessions
       \/ enrollment.type = "OTA" /\ ~enrollment.realm /\ ~IsValid(secret, NoDevice)
EnrollmentEnds == \A d \in Devices : <>(enrolled[d] = "token" \/ Blocked(d))
=============================================================================
