------------------------ MODULE MDMEnrollmentProofs ------------------------
(* Proofs about the enrollment sessions, for any number of devices, of      *)
(* sessions, of operations of the administrators and of lost responses.     *)
(*                                                                          *)
(* The inductive invariant is EnrollmentInv of MDMEnrollment. Sound says    *)
(* what is proved of a step: the invariant is kept, and the bodies of the   *)
(* two action properties hold. The steps are of a few kinds: HoldStep       *)
(* changes no session, CreateStep adds one, RowStep changes the one of a    *)
(* device, and the four steps of the handlers without a lock are on their   *)
(* own. The sessions counted by the secret of the enrollment come next,     *)
(* with an invariant of their own, CountedInv, and last, with ExplainedInv, *)
(* why a device needs another session.                                      *)
EXTENDS MDMEnrollment, FiniteSetTheorems, FunctionTheorems, SequenceTheorems, TLAPS

-----------------------------------------------------------------------------
(* The operators of the model.                                              *)

LEMMA Ranks ==
    /\ Rank("ACCOUNT_DRIVEN_START") = 1 /\ Rank("PHASE_1") = 1
    /\ Rank("ACCOUNT_DRIVEN_AUTHENTICATED") = 2 /\ Rank("PHASE_2") = 2
    /\ Rank("PHASE_2_SCEP_VERIFIED") = 3
    /\ Rank("STARTED") = 4 /\ Rank("PHASE_3") = 4
    /\ Rank("SCEP_VERIFIED") = 5 /\ Rank("PHASE_3_SCEP_VERIFIED") = 5
    /\ Rank("AUTHENTICATED") = 6 /\ Rank("COMPLETED") = 7
    /\ \A st \in Statuses : Rank(st) \in 1 .. 7
    /\ \A st \in Statuses : Rank(st) = 7 => st = "COMPLETED"
BY DEF Rank, Statuses

LEMMA Remainders ==
    /\ Remaining("PHASE_1") = 3 /\ Remaining("PHASE_2") = 2
    /\ Remaining("PHASE_2_SCEP_VERIFIED") = 1 /\ Remaining("PHASE_3") = 1
    /\ Remaining("STARTED") = 1
    /\ \A st \in Statuses : Rank(st) >= 5 => Remaining(st) = 0
    /\ \A st \in Statuses : Remaining(st) \in 0 .. 3
BY DEF Remaining, Statuses, Rank

LEMMA RowSet ==
    ASSUME NEW S, NEW q \in Seq(S), NEW i \in 1 .. Len(q), NEW x \in S
    PROVE  /\ [q EXCEPT ![i] = x] \in Seq(S)
           /\ Len([q EXCEPT ![i] = x]) = Len(q)
           /\ \A j \in 1 .. Len(q) : [q EXCEPT ![i] = x][j] = IF j = i THEN x ELSE q[j]
OBVIOUS

LEMMA RowAdded ==
    ASSUME NEW S, NEW q \in Seq(S), NEW x \in S
    PROVE  /\ Append(q, x) \in Seq(S)
           /\ Len(Append(q, x)) = Len(q) + 1
           /\ Append(q, x)[Len(q) + 1] = x
           /\ \A j \in 1 .. Len(q) : Append(q, x)[j] = q[j]
OBVIOUS

LEMMA NewSecretTyped ==
    ASSUME NEW quota \in Nat, NEW d \in Devices \cup {NoDevice}
    PROVE  /\ NewSecret(quota, d) \in Secrets
           /\ NewSecret(quota, d).quota = quota /\ NewSecret(quota, d).count = 0
BY DEF NewSecret, Secrets

LEMMA CountedTyped ==
    ASSUME NEW es \in Secrets
    PROVE  /\ Counted(es) \in Secrets
           /\ Counted(es).quota = es.quota /\ Counted(es).count = es.count + 1
BY DEF Counted, Secrets

LEMMA BoundTyped ==
    ASSUME NEW es \in Secrets, NEW d \in Devices
    PROVE  /\ Bound(es, d) \in Secrets
           /\ Bound(es, d).quota = es.quota /\ Bound(es, d).count = es.count + 1
<1>1. Counted(es) \in Secrets /\ Counted(es).quota = es.quota /\ Counted(es).count = es.count + 1
  BY CountedTyped
<1> QED  BY <1>1 DEF Bound, Secrets

LEMMA NewSessionTyped ==
    ASSUME NEW st \in Statuses, NEW account \in BOOLEAN, NEW user \in BOOLEAN
    PROVE  /\ NewSession(st, account, user) \in Session
           /\ NewSession(st, account, user).status = st
           /\ NewSession(st, account, user).account = account
           /\ NewSession(st, account, user).user = user
           /\ NewSession(st, account, user).requests = {}
           /\ NewSession(st, account, user).enrolled = NoDevice
<1> DEFINE none == {}
<1>1. none \in SUBSET {"phase2", "phase2_scep", "phase3_scep", "scep"}
  OBVIOUS
<1>2. NewSession(st, account, user) =
        [status |-> st, account |-> account, user |-> user, requests |-> none,
         enrolled |-> NoDevice, token |-> 0]
  BY DEF NewSession
<1> HIDE DEF none
<1>3. none = {}
  BY DEF none
<1> QED  BY <1>1, <1>2, <1>3 DEF Session

HeldThings == [item : Items, session : 0 .. MaxSessions, token : Nat]

LEMMA HeldTyped ==
    ASSUME NEW item \in Items, NEW s \in 0 .. MaxSessions
    PROVE  /\ Held(item, s) \in HeldThings
           /\ Held(item, s).item = item /\ Held(item, s).session = s
BY DEF Held, HeldThings

LEMMA NewTokenTyped ==
    ASSUME TypeOK, IsFiniteSet(posts)
    PROVE  NewToken \in Nat
<1> DEFINE f == [s \in Ids |-> session[s].token]
           T == {session[s].token : s \in Ids}
           g == [p \in posts |-> p.row.token]
           U == {p.row.token : p \in posts}
           n == Cardinality(Tokens)
<1>1. Len(session) \in Nat
  BY DEF TypeOK
<1>2. IsFiniteSet(Ids)
  BY <1>1, FS_Interval DEF Ids
<1>3. f \in Surjection(Ids, T)
  <2>1. f \in [Ids -> T]
    OBVIOUS
  <2>2. \A t \in T : \E s \in Ids : f[s] = t
    OBVIOUS
  <2> QED  BY <2>1, <2>2, Fun_IsSurj
<1>4. g \in Surjection(posts, U)
  <2>1. g \in [posts -> U]
    OBVIOUS
  <2>2. \A t \in U : \E p \in posts : g[p] = t
    OBVIOUS
  <2> QED  BY <2>1, <2>2, Fun_IsSurj
<1>5. IsFiniteSet(T) /\ IsFiniteSet(U)
  <2> HIDE DEF f, g, T, U
  <2> QED  BY <1>2, <1>3, <1>4, FS_Surjection
<1>6. IsFiniteSet(Tokens)
  <2>1. Tokens = T \cup U
    BY DEF Tokens
  <2> HIDE DEF T, U
  <2> QED  BY <2>1, <1>5, FS_Union
<1>7. n \in Nat
  BY <1>6, FS_CardinalityType
<1>8. \E t \in 1 .. n + 1 : t \notin Tokens
  <2> SUFFICES ASSUME 1 .. n + 1 \subseteq Tokens
               PROVE  FALSE
    OBVIOUS
  <2>1. Cardinality(1 .. n + 1) = n + 1
    <3> HIDE DEF n
    <3> QED  BY <1>7, FS_Interval
  <2>2. Cardinality(1 .. n + 1) <= n
    BY <1>6, FS_Subset
  <2> HIDE DEF n
  <2> QED  BY <2>1, <2>2, <1>7
<1>9. NewToken \in 1 .. n + 1
  BY <1>8 DEF NewToken
<1> HIDE DEF n
<1> QED  BY <1>7, <1>9

LEMMA Elements ==
    ASSUME EnrollmentAssumption, TypeOK
    PROVE  /\ Len(session) \in 0 .. MaxSessions /\ Len(key) = Len(session)
           /\ MaxSessions \in Nat /\ MaxFaults \in Nat /\ MaxEdits \in Nat
           /\ Ids \subseteq 1 .. MaxSessions
           /\ \A s \in Ids : session[s] \in Session /\ key[s] \in Secrets
           /\ \A d \in Devices :
                 /\ attempt[d] \in HeldThings
                 /\ attempt[d].item \in Items
                 /\ attempt[d].session \in 0 .. MaxSessions
                 /\ attempt[d].token \in Nat
           /\ faults \in Nat /\ edits \in Nat
<1>1. /\ session \in Seq(Session) /\ key \in Seq(Secrets)
      /\ Len(session) \in 0 .. MaxSessions /\ Len(key) = Len(session)
      /\ MaxSessions \in Nat /\ MaxFaults \in Nat /\ MaxEdits \in Nat
      /\ faults \in 0 .. MaxFaults /\ edits \in 0 .. MaxEdits
  BY DEF TypeOK, EnrollmentAssumption
<1>2. attempt \in [Devices -> HeldThings]
  BY DEF TypeOK, HeldThings
<1>3. \A s \in Ids : session[s] \in Session /\ key[s] \in Secrets
  BY <1>1 DEF Ids
<1>4. \A d \in Devices : attempt[d] \in HeldThings
  BY <1>2
<1>5. Ids \subseteq 1 .. MaxSessions
  BY <1>1 DEF Ids
<1>6. \A h \in HeldThings : h.item \in Items /\ h.session \in 0 .. MaxSessions /\ h.token \in Nat
  BY DEF HeldThings
<1> QED  BY <1>1, <1>3, <1>4, <1>5, <1>6

\* What a step does to the devices: d at most receives something.
OnlyHeld(d, h) ==
    \A e \in Devices : attempt'[e] = attempt[e] \/ (e = d /\ attempt'[e] = h)

LEMMA HeldBy ==
    ASSUME EnrollmentAssumption, TypeOK, NEW d \in Devices, NEW h \in HeldThings,
           attempt' = [attempt EXCEPT ![d] = h]
    PROVE  attempt' \in [Devices -> HeldThings] /\ OnlyHeld(d, h) /\ attempt'[d] = h
<1>1. attempt \in [Devices -> HeldThings]
  BY DEF TypeOK, HeldThings
<1> QED  BY <1>1 DEF OnlyHeld

LEMMA Replied ==
    ASSUME EnrollmentAssumption, TypeOK, NEW d \in Devices, NEW h \in HeldThings,
           Reply(d, h)
    PROVE  /\ attempt' \in [Devices -> HeldThings] /\ OnlyHeld(d, h)
           /\ faults' \in 0 .. MaxFaults
<1>1. attempt \in [Devices -> HeldThings] /\ faults \in 0 .. MaxFaults /\ MaxFaults \in Nat
  BY DEF TypeOK, HeldThings, EnrollmentAssumption
<1>2. CASE attempt' = [attempt EXCEPT ![d] = h] /\ UNCHANGED faults
  BY <1>1, <1>2 DEF OnlyHeld
<1>3. CASE faults < MaxFaults /\ faults' = faults + 1 /\ UNCHANGED attempt
  BY <1>1, <1>3 DEF OnlyHeld
<1> QED  BY <1>2, <1>3 DEF Reply

LEMMA Edited ==
    ASSUME EnrollmentAssumption, TypeOK, Edit
    PROVE  edits' \in 0 .. MaxEdits
BY DEF TypeOK, EnrollmentAssumption, Edit

LEMMA RowsChanged ==
    ASSUME EnrollmentAssumption, TypeOK, NEW d \in Devices, attempt[d].session \in Ids,
           NEW row \in Session, NEW es \in Secrets, SetNextStatus(d, row, es)
    PROVE  /\ session' \in Seq(Session) /\ key' \in Seq(Secrets)
           /\ Len(session') = Len(session) /\ Len(key') = Len(key)
           /\ session'[attempt[d].session] = row /\ key'[attempt[d].session] = es
           /\ \A s \in Ids \ {attempt[d].session} : session'[s] = session[s] /\ key'[s] = key[s]
<1>1. /\ session \in Seq(Session) /\ key \in Seq(Secrets)
      /\ Len(key) = Len(session)
  BY DEF TypeOK
<1>2. attempt[d].session \in 1 .. Len(session) /\ attempt[d].session \in 1 .. Len(key)
  BY <1>1 DEF Ids
<1>3. /\ session' = [session EXCEPT ![attempt[d].session] = row]
      /\ key' = [key EXCEPT ![attempt[d].session] = es]
  BY DEF SetNextStatus
<1> DEFINE i == attempt[d].session
<1> HIDE DEF i
<1>4. /\ session' = [session EXCEPT ![i] = row] /\ key' = [key EXCEPT ![i] = es]
      /\ i \in 1 .. Len(session) /\ i \in 1 .. Len(key)
  BY <1>2, <1>3 DEF i
<1>5. /\ session' \in Seq(Session) /\ Len(session') = Len(session)
      /\ \A j \in 1 .. Len(session) : session'[j] = IF j = i THEN row ELSE session[j]
  BY <1>1, <1>4, RowSet
<1>6. /\ key' \in Seq(Secrets) /\ Len(key') = Len(key)
      /\ \A j \in 1 .. Len(key) : key'[j] = IF j = i THEN es ELSE key[j]
  BY <1>1, <1>4, RowSet
<1>7. /\ session'[i] = row /\ key'[i] = es
      /\ \A s \in Ids \ {i} : session'[s] = session[s] /\ key'[s] = key[s]
  BY <1>1, <1>4, <1>5, <1>6 DEF Ids
<1> QED  BY <1>5, <1>6, <1>7 DEF i

LEMMA SessionCreated ==
    ASSUME EnrollmentAssumption, TypeOK, NEW row \in Session, NEW es \in Secrets,
           CreateSession(row, es)
    PROVE  /\ session' \in Seq(Session) /\ key' \in Seq(Secrets)
           /\ Len(session') \in 0 .. MaxSessions /\ Len(key') = Len(session')
           /\ Len(session') = Created /\ Created \notin Ids
           /\ Created \in 1 .. MaxSessions
           /\ Ids' = Ids \cup {Created}
           /\ session'[Created] = row /\ key'[Created] = es
           /\ \A s \in Ids : session'[s] = session[s] /\ key'[s] = key[s]
<1>1. /\ session \in Seq(Session) /\ key \in Seq(Secrets)
      /\ Len(session) \in 0 .. MaxSessions /\ Len(key) = Len(session)
      /\ MaxSessions \in Nat
  BY DEF TypeOK, EnrollmentAssumption
<1>2. /\ session' = Append(session, row) /\ key' = Append(key, es)
      /\ Len(session) < MaxSessions
  BY DEF CreateSession
<1>3. /\ session' \in Seq(Session) /\ Len(session') = Len(session) + 1
      /\ session'[Len(session) + 1] = row
      /\ \A j \in 1 .. Len(session) : session'[j] = session[j]
  BY <1>1, <1>2, RowAdded
<1>4. /\ key' \in Seq(Secrets) /\ Len(key') = Len(key) + 1
      /\ key'[Len(key) + 1] = es
      /\ \A j \in 1 .. Len(key) : key'[j] = key[j]
  BY <1>1, <1>2, RowAdded
<1>5. Ids' = Ids \cup {Created} /\ Created \notin Ids
  BY <1>1, <1>3 DEF Ids, Created
<1> QED  BY <1>1, <1>2, <1>3, <1>4, <1>5 DEF Ids, Created

-----------------------------------------------------------------------------
(* The parts of the invariant, for the steps of each kind.                  *)

\* The bodies of Forward and LoginRequired.
Advances ==
    \A s \in Ids :
        \/ s \in overwritten'
        \/ /\ Rank(session'[s].status) >= Rank(session[s].status)
           /\ session[s].enrolled # NoDevice => session'[s].enrolled = session[s].enrolled
Logged ==
    \A s \in 1 .. Len(session') :
        /\ enrollment.realm
        /\ enrollment.type # "USER" \/ session'[s].account
        /\ s \notin Ids \/ session'[s].status # session[s].status
        /\ session'[s].status \in {"PHASE_1", "STARTED"}
        => session'[s].user
\* What makes a session one of the requests of the enrollment does not change.
SameKinds ==
    \A s \in Ids :
        /\ session'[s].account = session[s].account
        /\ enrollment.type = "USER" \/ session'[s].user = session[s].user
Sound == EnrollmentInv' /\ Advances /\ Logged /\ SameKinds

\* A session and its secret.
Matching(row, es) ==
    /\ es.quota > 0
    /\ row.account \/ es.count = Cardinality(row.requests)
    /\ es.count <= es.quota
    /\ row.account \/ es.count + Remaining(row.status) <= es.quota
    /\ ~row.account =>
          /\ Rank(row.status) < 5 => row.requests \cap {"phase3_scep", "scep"} = {}
          /\ Rank(row.status) < 3 => "phase2_scep" \notin row.requests
          /\ Rank(row.status) < 2 => "phase2" \notin row.requests

LEMMA MatchingSessions ==
    (RequestsOnce /\ QuotaSuffices /\ RequestsRecorded)
      <=> \A s \in Ids : Matching(session[s], key[s])
BY DEF RequestsOnce, QuotaSuffices, RequestsRecorded, Matching

\* The posts and the sessions that have been overwritten.
Frame ==
    /\ posts' = posts
    /\ overwritten' = overwritten
    /\ enrollment'.type = enrollment.type

\* What e holds is not from a certificate, and of no account of another device.
Simple(e) ==
    /\ ~Here(e, "waiting")
    /\ attempt'[e].item \notin {"waiting", "mdm_cert", "authenticated", "enrolled"}
    /\ attempt'[e].session \in 0 .. Len(session)
    /\ \/ attempt'[e].item \in {"challenge", "ota_scep", "ota_cert", "mdm_scep", "url", "token"}
       \/ attempt'[e].item = "login" /\ enrollment.type = "USER"
       \/ attempt'[e].item = "page" /\ enrollment.type = "DEP"
       => attempt'[e].session \in Ids
    /\ attempt'[e].item = "challenge" => enrollment.type = "OTA"
    /\ \/ attempt'[e].item \in {"url", "token"}
       \/ attempt'[e].item = "login" /\ enrollment.type = "USER"
       => session[attempt'[e].session].account
    /\ attempt'[e].session \in Ids /\ session[attempt'[e].session].account
          => attempt'[e].session = attempt[e].session

\* A step that changes no session.
LEMMA HoldStep ==
    ASSUME EnrollmentAssumption, EnrollmentInv, TypeOK', Frame, session' = session,
           \A s \in Ids : /\ key'[s].quota = key[s].quota
                          /\ \/ key'[s].count = key[s].count
                             \/ session[s].account /\ key'[s].count <= key[s].quota,
           \A e \in Devices : enrolled'[e] = enrolled[e] \/ enrolled'[e] # "token",
           \A e \in Devices : attempt'[e] = attempt[e] \/ Simple(e)
    PROVE  Sound
<1>1. TypeOK /\ Ids' = Ids
  BY DEF EnrollmentInv, Ids
<1>2. IsFiniteSet(posts)'
  BY DEF EnrollmentInv, Frame
<1>3. HeldSessions'
  BY <1>1 DEF EnrollmentInv, HeldSessions, Frame, Simple, Here, Row
<1>4. AccountSessions'
  BY <1>1 DEF EnrollmentInv, AccountSessions, Frame, Simple, Here, Row
<1>5. PostedRows'
  BY <1>1 DEF EnrollmentInv, PostedRows, Frame
<1>6. WaitingPosts'
  <2>1. \A p \in posts : p.device \in Devices
    BY <1>1 DEF TypeOK, Posts
  <2>2. \A p \in posts : ~p.lost => attempt'[p.device] = attempt[p.device]
    BY <2>1 DEF EnrollmentInv, WaitingPosts, Simple, Here
  <2> QED  BY <2>2 DEF EnrollmentInv, WaitingPosts, Frame, Here
<1>7. Certificates'
  BY <1>1 DEF EnrollmentInv, Certificates, Frame, Simple, Here, Row
<1>8. \A s \in Ids : Matching(session[s], key[s])
  BY MatchingSessions DEF EnrollmentInv
<1>9. \A s \in Ids' : Matching(session[s], key[s])'
  BY <1>1, <1>8 DEF Matching
<1>10. (RequestsOnce /\ QuotaSuffices /\ RequestsRecorded)'
  BY <1>9 DEF RequestsOnce, QuotaSuffices, RequestsRecorded, Matching
<1>11. OneDevice'
  BY DEF EnrollmentInv, OneDevice, Simple
<1>12. EnrolledCompleted'
  BY <1>1 DEF EnrollmentInv, EnrolledCompleted, Frame
<1>13. Advances
  <2>1. \A s \in Ids : Rank(session[s].status) \in 1 .. 7
    BY <1>1, Elements, Ranks DEF Session
  <2> QED  BY <2>1 DEF Advances
<1>14. Logged
  BY DEF Logged, Ids
<1>15. SameKinds
  BY DEF SameKinds
<1> QED  BY <1>2, <1>3, <1>4, <1>5, <1>6, <1>7, <1>10, <1>11, <1>12, <1>13, <1>14, <1>15
         DEF Sound, EnrollmentInv

\* The creation of a session, for a request of the device d, which at most
\* receives h.
LEMMA CreateStep ==
    ASSUME EnrollmentAssumption, EnrollmentInv, TypeOK', Frame,
           NEW d \in Devices, NEW row \in Session, NEW es \in Secrets, NEW h \in HeldThings,
           CreateSession(row, es),
           ~Here(d, "waiting"), OnlyHeld(d, h),
           h.item \in {"ota_scep", "challenge", "mdm_scep", "page", "login", "login_used", "url"},
           h.session = Created \/ (h.session = 0 /\ h.item \in {"login", "login_used"}),
           h.item = "login" => enrollment.type # "USER",
           h.item = "challenge" => enrollment.type = "OTA",
           h.item = "url" => row.account,
           row.account => enrollment.type = "USER",
           row.status # "ACCOUNT_DRIVEN_AUTHENTICATED",
           enrollment.realm /\ (enrollment.type # "USER" \/ row.account)
             /\ row.status \in {"PHASE_1", "STARTED"} => row.user,
           Matching(row, es),
           \A e \in Devices : enrolled'[e] = enrolled[e] \/ enrolled'[e] # "token"
    PROVE  Sound
<1>1. TypeOK
  BY DEF EnrollmentInv
<1>2. /\ Len(session') = Created /\ Created \notin Ids /\ Created \in 1 .. MaxSessions
      /\ Ids' = Ids \cup {Created}
      /\ session'[Created] = row /\ key'[Created] = es
      /\ \A s \in Ids : session'[s] = session[s] /\ key'[s] = key[s]
  BY <1>1, SessionCreated
<1>3. Len(session) \in Nat /\ Created = Len(session) + 1
  BY <1>1, Elements DEF Created
<1>4. \A e \in Devices : attempt[e].session # Created
  BY <1>3 DEF EnrollmentInv, HeldSessions
<1>5. IsFiniteSet(posts)'
  BY DEF EnrollmentInv, Frame
<1>6. HeldSessions'
  <2> SUFFICES ASSUME NEW e \in Devices
               PROVE  HeldSessions!(e)'
    BY DEF HeldSessions
  <2>1. CASE attempt'[e] = attempt[e]
    BY <1>2, <1>3, <2>1 DEF EnrollmentInv, HeldSessions, Frame, Here, Row
  <2>2. CASE e = d /\ attempt'[e] = h
    BY <1>2, <1>3, <2>2 DEF Frame, Here, Row
  <2> QED  BY <2>1, <2>2 DEF OnlyHeld
<1>7. AccountSessions'
  <2>1. \A s \in Ids' : /\ session'[s].account => enrollment'.type = "USER"
                        /\ session'[s].status = "ACCOUNT_DRIVEN_AUTHENTICATED" => session'[s].user
    BY <1>2 DEF EnrollmentInv, AccountSessions, Frame
  <2>2. ASSUME NEW e \in Devices, NEW f \in Devices, attempt'[e].session = attempt'[f].session,
               attempt'[e].session \in Ids', session'[attempt'[e].session].account
        PROVE  e = f
    <3>1. CASE attempt'[e].session = Created
      BY <1>4, <2>2, <3>1 DEF OnlyHeld
    <3>2. CASE attempt'[e].session # Created
      <4>1. 0 \notin Ids
        BY DEF Ids
      <4>2. attempt'[e] = attempt[e] /\ attempt'[f] = attempt[f]
        BY <1>2, <2>2, <3>2, <4>1 DEF OnlyHeld
      <4> QED  BY <1>2, <2>2, <3>2, <4>2 DEF EnrollmentInv, AccountSessions, Row
    <3> QED  BY <3>1, <3>2
  <2> QED  BY <2>1, <2>2 DEF AccountSessions, Row
<1>8. PostedRows'
  BY <1>2 DEF EnrollmentInv, PostedRows, Frame
<1>9. WaitingPosts'
  <2>1. \A p \in posts : p.device \in Devices
    BY <1>1 DEF TypeOK, Posts
  <2>2. \A p \in posts : ~p.lost => attempt'[p.device] = attempt[p.device]
    BY <2>1 DEF EnrollmentInv, WaitingPosts, OnlyHeld, Here
  <2> QED  BY <2>2 DEF EnrollmentInv, WaitingPosts, Frame, Here
<1>10. Certificates'
  <2>1. \A e \in Devices : attempt[e].item \in {"mdm_cert", "authenticated", "enrolled"} =>
                              attempt[e].session \in Ids
    BY DEF EnrollmentInv, HeldSessions
  <2> QED  BY <1>2, <2>1 DEF EnrollmentInv, Certificates, Frame, OnlyHeld, Here, Row
<1>11. \A s \in Ids : Matching(session[s], key[s])
  BY MatchingSessions DEF EnrollmentInv
<1>12. \A s \in Ids' : Matching(session[s], key[s])'
  BY <1>2, <1>11 DEF Matching
<1>13. (RequestsOnce /\ QuotaSuffices /\ RequestsRecorded)'
  BY <1>12 DEF RequestsOnce, QuotaSuffices, RequestsRecorded, Matching
<1>14. OneDevice'
  BY DEF EnrollmentInv, OneDevice, OnlyHeld
<1>15. EnrolledCompleted'
  BY <1>2 DEF EnrollmentInv, EnrolledCompleted, Frame
<1>16. Advances
  <2>1. \A s \in Ids : Rank(session[s].status) \in 1 .. 7
    BY <1>1, Elements, Ranks DEF Session
  <2> QED  BY <1>2, <2>1 DEF Advances
<1>17. Logged
  <2>1. 1 .. Len(session') = Ids \cup {Created}
    BY <1>2 DEF Ids
  <2> QED  BY <1>2, <2>1 DEF Logged
<1>18. SameKinds
  BY <1>2 DEF SameKinds
<1> QED  BY <1>5, <1>6, <1>7, <1>8, <1>9, <1>10, <1>13, <1>14, <1>15, <1>16, <1>17, <1>18
         DEF Sound, EnrollmentInv

\* A verification, or a message of the device d, which changes the row of its
\* session. h is what d at most receives.
LEMMA RowStep ==
    ASSUME EnrollmentAssumption, EnrollmentInv, TypeOK', Frame,
           NEW d \in Devices, NEW row \in Session, NEW es \in Secrets, NEW h \in HeldThings,
           attempt[d].session \in Ids, SetNextStatus(d, row, es),
           ~Here(d, "waiting"), OnlyHeld(d, h),
           h.session = attempt[d].session,
           h.item \in {"ota_scep", "ota_cert", "mdm_scep", "mdm_cert", "authenticated", "enrolled"},
           row.account = Row(d).account, row.user = Row(d).user,
           Rank(row.status) >= Rank(Row(d).status),
           row.status \notin {"PHASE_1", "STARTED", "ACCOUNT_DRIVEN_AUTHENTICATED"},
           \/ row.enrolled = Row(d).enrolled
           \/ Row(d).enrolled = NoDevice /\ row.enrolled = d,
           Matching(row, es),
           h.item \in {"mdm_cert", "authenticated", "enrolled"} =>
              /\ row.account \/ Rank(row.status) >= 5
              /\ \A e \in Devices \ {d} :
                    attempt[e].item \in {"mdm_cert", "authenticated", "enrolled"}
                       => attempt[e].session # attempt[d].session,
           h.item \in {"authenticated", "enrolled"} =>
              attempt[d].session \in overwritten \/ row.enrolled = d,
           \A e \in Devices :
              \/ enrolled'[e] = enrolled[e]
              \/ enrolled'[e] # "token"
              \/ attempt[d].session \in overwritten
              \/ row.status = "COMPLETED" /\ row.enrolled = e
    PROVE  Sound
<1> DEFINE i == attempt[d].session
<1>1. TypeOK
  BY DEF EnrollmentInv
<1>2. /\ i \in Ids /\ Ids' = Ids
      /\ session'[i] = row /\ key'[i] = es
      /\ \A s \in Ids \ {i} : session'[s] = session[s] /\ key'[s] = key[s]
  BY <1>1, RowsChanged DEF Ids
<1>3. Row(d) = session[i] /\ session[i] \in Session /\ Len(session') = Len(session)
  BY <1>1, <1>2, Elements, RowsChanged DEF Row
<1>4. \A s \in Ids : Rank(session[s].status) \in 1 .. 7
  BY <1>1, Elements, Ranks DEF Session
<1>5. Rank(row.status) \in 1 .. 7 /\ row.status \in Statuses
  BY Ranks DEF Session
<1>6. IsFiniteSet(posts)'
  BY DEF EnrollmentInv, Frame
<1>7. \A s \in Ids : session'[s].account = session[s].account
  BY <1>2, <1>3
<1>8. \A e \in Devices : \/ attempt'[e] = attempt[e]
                         \/ e = d /\ attempt'[e] = h /\ attempt'[e].session = attempt[e].session
  BY DEF OnlyHeld
<1>9. HeldSessions'
  <2> SUFFICES ASSUME NEW e \in Devices
               PROVE  HeldSessions!(e)'
    BY DEF HeldSessions
  <2>1. CASE attempt'[e] = attempt[e]
    BY <1>2, <1>3, <1>7, <2>1 DEF EnrollmentInv, HeldSessions, Frame, Here, Row
  <2>2. CASE e = d /\ attempt'[e] = h
    BY <1>2, <1>3, <2>2, <1>1, Elements DEF Frame, Here, Row, HeldSessions, EnrollmentInv
  <2> QED  BY <2>1, <2>2 DEF OnlyHeld
<1>10. AccountSessions'
  <2>1. \A s \in Ids' : /\ session'[s].account => enrollment'.type = "USER"
                        /\ session'[s].status = "ACCOUNT_DRIVEN_AUTHENTICATED" => session'[s].user
    BY <1>2, <1>7 DEF EnrollmentInv, AccountSessions, Frame
  <2>2. \A e \in Devices : attempt'[e].session = attempt[e].session
    BY <1>8
  <2> QED  BY <1>2, <1>7, <2>1, <2>2 DEF EnrollmentInv, AccountSessions, Row
<1>11. PostedRows'
  BY <1>2, <1>7 DEF EnrollmentInv, PostedRows, Frame
<1>12. WaitingPosts'
  <2>1. \A p \in posts : p.device \in Devices
    BY <1>1 DEF TypeOK, Posts
  <2>2. \A p \in posts : ~p.lost => attempt'[p.device] = attempt[p.device]
    BY <2>1 DEF EnrollmentInv, WaitingPosts, OnlyHeld, Here
  <2> QED  BY <2>2 DEF EnrollmentInv, WaitingPosts, Frame, Here
<1>13. Certificates'
  <2> SUFFICES ASSUME NEW e \in Devices
               PROVE  Certificates!(e)'
    BY DEF Certificates
  <2>1. CASE attempt'[e] = attempt[e]
    <3>1. attempt[e].item \in {"mdm_cert", "authenticated", "enrolled"} =>
             attempt[e].session \in Ids
      BY DEF EnrollmentInv, HeldSessions
    <3>2. CASE attempt[e].session # i
      BY <1>2, <2>1, <3>1, <3>2 DEF EnrollmentInv, Certificates, Frame, Here, Row
    <3>3. CASE attempt[e].session = i
      <4>1. Row(e) = session[i] /\ Row(e)' = row
        BY <1>2, <2>1, <3>3 DEF Row
      <4>2. e # NoDevice
        BY DEF EnrollmentAssumption
      <4> QED  BY <1>3, <1>4, <1>5, <1>2, <2>1, <3>3, <4>1, <4>2 DEF EnrollmentInv, Certificates, Frame
    <3> QED  BY <3>2, <3>3
  <2>2. CASE e = d /\ attempt'[e] = h
    BY <1>2, <2>2 DEF Frame, Row
  <2> QED  BY <2>1, <2>2 DEF OnlyHeld
<1>14. \A s \in Ids : Matching(session[s], key[s])
  BY MatchingSessions DEF EnrollmentInv
<1>15. \A s \in Ids' : Matching(session[s], key[s])'
  BY <1>2, <1>14 DEF Matching
<1>16. (RequestsOnce /\ QuotaSuffices /\ RequestsRecorded)'
  BY <1>15 DEF RequestsOnce, QuotaSuffices, RequestsRecorded, Matching
<1>17. OneDevice'
  BY <1>8 DEF EnrollmentInv, OneDevice
<1>18. EnrolledCompleted'
  <2> SUFFICES ASSUME NEW e \in Devices, enrolled'[e] = "token"
               PROVE  \E s \in Ids' : \/ s \in overwritten'
                                      \/ session'[s].status = "COMPLETED" /\ session'[s].enrolled = e
    BY DEF EnrolledCompleted
  <2>1. CASE enrolled[e] = "token"
    <3>1. PICK s \in Ids : \/ s \in overwritten
                           \/ session[s].status = "COMPLETED" /\ session[s].enrolled = e
      BY <2>1 DEF EnrollmentInv, EnrolledCompleted
    <3>2. CASE s = i /\ s \notin overwritten
      <4>1. Rank(row.status) = 7
        BY <1>3, <1>5, <3>1, <3>2, Ranks
      <4>2. row.status = "COMPLETED" /\ row.enrolled = e
        BY <1>3, <1>5, <3>1, <3>2, <4>1, Ranks DEF EnrollmentAssumption
      <4> QED  BY <1>2, <4>2
    <3> QED  BY <1>2, <3>1, <3>2 DEF Frame
  <2>2. CASE enrolled[e] # "token"
    BY <1>2, <2>2 DEF Frame
  <2> QED  BY <2>1, <2>2
<1>19. Advances
  BY <1>2, <1>3, <1>4, <1>5 DEF Advances, EnrollmentAssumption
<1>20. Logged
  BY <1>2, <1>3 DEF Logged, Ids
<1>21. SameKinds
  BY <1>2, <1>3 DEF SameKinds
<1> QED  BY <1>6, <1>9, <1>10, <1>11, <1>12, <1>13, <1>16, <1>17, <1>18, <1>19, <1>20, <1>21
         DEF Sound, EnrollmentInv

-----------------------------------------------------------------------------
(* The types of the tables after a request of a device.                     *)

EnrolledTable == [Devices -> {"absent", "authenticated", "token", "checked_out"}]
BrowserKeys == SUBSET (Devices \X (0 .. MaxSessions))

LEMMA Tables ==
    ASSUME EnrollmentAssumption, TypeOK
    PROVE  /\ secret \in Secrets /\ requests \in Nat
           /\ session \in Seq(Session) /\ Len(session) \in 0 .. MaxSessions
           /\ key \in Seq(Secrets) /\ Len(key) = Len(session)
           /\ browser \in BrowserKeys /\ enrolled \in EnrolledTable
           /\ attempt \in [Devices -> HeldThings] /\ faults \in 0 .. MaxFaults
           /\ enrollment.type \in {"OTA", "DEP", "USER"}
           /\ enrollment.realm \in BOOLEAN /\ enrollment.ldap \in BOOLEAN
BY DEF TypeOK, HeldThings, EnrolledTable, BrowserKeys

LEMMA DeviceTypes ==
    ASSUME EnrollmentAssumption, TypeOK, UNCHANGED admin, UNCHANGED lockfree,
           secret' \in Secrets, requests' \in Nat,
           session' \in Seq(Session), Len(session') \in 0 .. MaxSessions,
           key' \in Seq(Secrets), Len(key') = Len(session'),
           browser' \in BrowserKeys, enrolled' \in EnrolledTable,
           attempt' \in [Devices -> HeldThings], faults' \in 0 .. MaxFaults
    PROVE  TypeOK' /\ Frame
<1>1. /\ UNCHANGED enrollment /\ UNCHANGED forms /\ UNCHANGED saved /\ UNCHANGED edits
      /\ UNCHANGED posts /\ UNCHANGED overwritten
  BY DEF admin, lockfree
<1> QED  BY <1>1 DEF TypeOK, HeldThings, EnrolledTable, BrowserKeys, Frame

LEMMA CountedRequest ==
    ASSUME EnrollmentAssumption, TypeOK, CountRequest
    PROVE  secret' \in Secrets /\ requests' \in Nat
BY Tables, CountedTyped DEF CountRequest

\* A device starts, logs in without a session, or gives up.
LEMMA DroppedStep ==
    ASSUME EnrollmentAssumption, EnrollmentInv, TypeOK', Frame,
           session' = session, key' = key,
           \A e \in Devices : enrolled'[e] = enrolled[e] \/ enrolled'[e] # "token",
           NEW d \in Devices, NEW h \in HeldThings, ~Here(d, "waiting"), OnlyHeld(d, h),
           h.session = 0,
           \/ h.item \in {"none", "payload", "login_used"}
           \/ h.item = "login" /\ enrollment.type # "USER"
           \/ h.item = "page" /\ enrollment.type # "DEP"
    PROVE  Sound
<1>1. Len(session) \in Nat
  BY Elements DEF EnrollmentInv
<1>2. \A e \in Devices : attempt'[e] = attempt[e] \/ Simple(e)
  BY <1>1 DEF OnlyHeld, Simple, Ids
<1> QED  BY <1>2, HoldStep

-----------------------------------------------------------------------------
(* The administrators.                                                      *)

LEMMA AdminStep ==
    ASSUME EnrollmentAssumption, EnrollmentInv, TypeOK', UNCHANGED <<lockfree, session, enrolled, attempt>>,
           enrollment'.type = enrollment.type,
           \A s \in Ids : key'[s].quota = key[s].quota /\ key'[s].count = key[s].count
    PROVE  Sound
<1>1. /\ UNCHANGED posts /\ UNCHANGED overwritten /\ session' = session
      /\ enrolled' = enrolled /\ attempt' = attempt
  BY DEF lockfree
<1>2. Frame
  BY <1>1 DEF Frame
<1> QED  BY <1>1, <1>2, HoldStep

\* A request of an administrator is read: from the secret, and another row.
LEMMA ReadTyped ==
    ASSUME EnrollmentAssumption, TypeOK, NEW row \in Secrets, NEW realm \in BOOLEAN,
           row.count = secret.count, Read(row, realm)
    PROVE  forms' \subseteq Forms
<1> DEFINE f == [read |-> secret, row |-> row, realm |-> realm]
<1>1. f \in Forms
  BY Tables DEF Forms
<1>2. forms' = forms \cup {f}
  BY DEF Read
<1> QED  BY <1>1, <1>2 DEF TypeOK

LEMMA OpenFormSound ==
    ASSUME EnrollmentAssumption, EnrollmentInv, OpenForm
    PROVE  Sound
<1>1. TypeOK
  BY DEF EnrollmentInv
<1>2. edits' \in 0 .. MaxEdits
  BY <1>1, Edited DEF OpenForm
<1>3. forms' \subseteq Forms
  <2>1. PICK quota \in Quotas, realm \in BOOLEAN : Read([secret EXCEPT !.quota = quota], realm)
    BY DEF OpenForm
  <2>2. /\ [secret EXCEPT !.quota = quota] \in Secrets
        /\ [secret EXCEPT !.quota = quota].count = secret.count
    BY <1>1, Tables DEF Secrets, EnrollmentAssumption
  <2> QED  BY <1>1, <2>1, <2>2, ReadTyped
<1>4. UNCHANGED <<enrollment, saved, tables, lockfree, browser, attempt, faults>>
  BY DEF OpenForm
<1>5. TypeOK'
  BY <1>1, <1>2, <1>3, <1>4 DEF TypeOK, Forms, tables, lockfree
<1> QED  BY <1>4, <1>5, AdminStep DEF tables, lockfree

LEMMA RevokeSound ==
    ASSUME EnrollmentAssumption, EnrollmentInv, Revoke
    PROVE  Sound
<1>1. TypeOK
  BY DEF EnrollmentInv
<1>2. edits' \in 0 .. MaxEdits
  BY <1>1, Edited DEF Revoke
<1>3. forms' \subseteq Forms
  <2>1. /\ [secret EXCEPT !.revoked = TRUE] \in Secrets
        /\ [secret EXCEPT !.revoked = TRUE].count = secret.count
    BY <1>1, Tables DEF Secrets
  <2> QED  BY <1>1, <2>1, Tables, ReadTyped DEF Revoke
<1>4. UNCHANGED <<enrollment, saved, tables, lockfree, browser, attempt, faults>>
  BY DEF Revoke
<1>5. TypeOK'
  BY <1>1, <1>2, <1>3, <1>4 DEF TypeOK, Forms, tables, lockfree
<1> QED  BY <1>4, <1>5, AdminStep DEF tables, lockfree

LEMMA SaveFormSound ==
    ASSUME EnrollmentAssumption, EnrollmentInv, NEW f \in forms, SaveForm(f)
    PROVE  Sound
<1>1. TypeOK
  BY DEF EnrollmentInv
<1>2. f \in Forms
  BY <1>1 DEF TypeOK
<1>3. secret' \in Secrets
  BY <1>2 DEF SaveForm, Forms
<1>4. /\ enrollment' \in [type : {"OTA", "DEP", "USER"}, realm : BOOLEAN, ldap : BOOLEAN]
      /\ enrollment'.type = enrollment.type
  BY <1>1, <1>2 DEF TypeOK, SaveForm, Forms
<1>5. saved' \in BOOLEAN
  BY <1>1 DEF TypeOK, SaveForm
<1>6. /\ forms' \subseteq forms
      /\ UNCHANGED <<edits, requests, session, key, enrolled, lockfree, browser, attempt, faults>>
  BY DEF SaveForm
<1>7. TypeOK'
  BY <1>1, <1>3, <1>4, <1>5, <1>6 DEF TypeOK, lockfree
<1> QED  BY <1>4, <1>6, <1>7, AdminStep

LEMMA ExpireSound ==
    ASSUME EnrollmentAssumption, EnrollmentInv, NEW s \in Ids, Expire(s)
    PROVE  Sound
<1>1. TypeOK
  BY DEF EnrollmentInv
<1> DEFINE es == [key[s] EXCEPT !.expired = TRUE]
<1>2. es \in Secrets /\ es.quota = key[s].quota /\ es.count = key[s].count
  BY <1>1, Elements DEF Secrets
<1>3. key' = [key EXCEPT ![s] = es]
  BY DEF Expire
<1> HIDE DEF es
<1>4. s \in 1 .. Len(key) /\ key \in Seq(Secrets) /\ Ids = 1 .. Len(key)
  BY <1>1, Tables DEF Ids
<1>5. /\ key' \in Seq(Secrets) /\ Len(key') = Len(key)
      /\ \A t \in Ids : key'[t] = IF t = s THEN es ELSE key[t]
  BY <1>2, <1>3, <1>4, RowSet
<1>6. UNCHANGED <<admin, secret, requests, session, enrolled, lockfree, browser, attempt, faults>>
  BY DEF Expire
<1>7. TypeOK'
  BY <1>1, <1>5, <1>6 DEF TypeOK, admin, lockfree
<1>8. \A t \in Ids : key'[t].quota = key[t].quota /\ key'[t].count = key[t].count
  BY <1>2, <1>5
<1> QED  BY <1>6, <1>7, <1>8, AdminStep DEF admin

-----------------------------------------------------------------------------
(* The requests of a device that create no session and change none.         *)

LEMMA DownloadPayloadSound ==
    ASSUME EnrollmentAssumption, EnrollmentInv, NEW d \in Devices, DownloadPayload(d)
    PROVE  Sound
<1>1. TypeOK
  BY DEF EnrollmentInv
<1> DEFINE h == Held("payload", 0)
<1>2. h \in HeldThings /\ h.item = "payload" /\ h.session = 0
  BY <1>1, Elements, HeldTyped DEF Items
<1>3. attempt' = [attempt EXCEPT ![d] = h] /\ ~Here(d, "waiting")
  BY DEF DownloadPayload, Here
<1> HIDE DEF h
<1>4. attempt' \in [Devices -> HeldThings] /\ OnlyHeld(d, h)
  BY <1>1, <1>2, <1>3, HeldBy
<1>5. UNCHANGED <<admin, tables, lockfree, browser, faults>>
  BY DEF DownloadPayload
<1>6. TypeOK' /\ Frame
  BY <1>1, <1>4, <1>5, Tables, DeviceTypes DEF tables
<1> QED  BY <1>2, <1>3, <1>4, <1>5, <1>6, DroppedStep DEF tables

LEMMA OTAWebLoginSound ==
    ASSUME EnrollmentAssumption, EnrollmentInv, NEW d \in Devices, OTAWebLogin(d)
    PROVE  Sound
<1>1. TypeOK
  BY DEF EnrollmentInv
<1> DEFINE h == Held("login", 0)
<1>2. h \in HeldThings /\ h.item = "login" /\ h.session = 0
  BY <1>1, Elements, HeldTyped DEF Items
<1>3. attempt' = [attempt EXCEPT ![d] = h] /\ ~Here(d, "waiting") /\ enrollment.type # "USER"
  BY DEF OTAWebLogin, Here
<1> HIDE DEF h
<1>4. attempt' \in [Devices -> HeldThings] /\ OnlyHeld(d, h)
  BY <1>1, <1>2, <1>3, HeldBy
<1>5. UNCHANGED <<admin, tables, lockfree, browser, faults>>
  BY DEF OTAWebLogin
<1>6. TypeOK' /\ Frame
  BY <1>1, <1>4, <1>5, Tables, DeviceTypes DEF tables
<1> QED  BY <1>2, <1>3, <1>4, <1>5, <1>6, DroppedStep DEF tables

LEMMA DEPWebEnrollSound ==
    ASSUME EnrollmentAssumption, EnrollmentInv, NEW d \in Devices, DEPWebEnroll(d)
    PROVE  Sound
<1>1. TypeOK
  BY DEF EnrollmentInv
<1> DEFINE h == Held("login", 0)
<1>2. h \in HeldThings /\ h.item = "login" /\ h.session = 0
  BY <1>1, Elements, HeldTyped DEF Items
<1>3. Reply(d, h) /\ CountRequest /\ ~Here(d, "waiting") /\ enrollment.type # "USER"
  BY DEF DEPWebEnroll, Here
<1> HIDE DEF h
<1>4. attempt' \in [Devices -> HeldThings] /\ OnlyHeld(d, h) /\ faults' \in 0 .. MaxFaults
  BY <1>1, <1>2, <1>3, Replied
<1>5. UNCHANGED <<admin, session, key, enrolled, lockfree, browser>>
  BY DEF DEPWebEnroll
<1>6. secret' \in Secrets /\ requests' \in Nat
  BY <1>1, <1>3, CountedRequest
<1>7. TypeOK' /\ Frame
  BY <1>1, <1>4, <1>5, <1>6, Tables, DeviceTypes
<1> QED  BY <1>2, <1>3, <1>4, <1>5, <1>7, DroppedStep

LEMMA DEPProfileSound ==
    ASSUME EnrollmentAssumption, EnrollmentInv, NEW d \in Devices, DEPProfile(d)
    PROVE  Sound
<1>1. TypeOK
  BY DEF EnrollmentInv
<1> DEFINE h == Holding(d, "mdm_scep")
<1>2. h \in HeldThings /\ h.item = "mdm_scep" /\ h.session = attempt[d].session
  BY <1>1, Elements, HeldTyped DEF Items, Holding
<1>3. /\ Reply(d, h) /\ ~Here(d, "waiting") /\ enrollment.type = "DEP"
      /\ Here(d, "page") /\ browser' = browser \ {<<d, attempt[d].session>>}
  BY DEF DEPProfile, Here
<1> HIDE DEF h
<1>4. attempt' \in [Devices -> HeldThings] /\ OnlyHeld(d, h) /\ faults' \in 0 .. MaxFaults
  BY <1>1, <1>2, <1>3, Replied
<1>5. UNCHANGED <<admin, tables, lockfree>>
  BY DEF DEPProfile
<1>6. browser' \in BrowserKeys
  BY <1>1, <1>3, Tables DEF BrowserKeys
<1>7. TypeOK' /\ Frame
  BY <1>1, <1>4, <1>5, <1>6, Tables, DeviceTypes DEF tables
<1>8. attempt[d].session \in Ids /\ attempt[d].session \in 0 .. Len(session)
  BY <1>3 DEF EnrollmentInv, HeldSessions
<1>9. \A e \in Devices : attempt'[e] = attempt[e] \/ Simple(e)
  BY <1>2, <1>3, <1>4, <1>8 DEF OnlyHeld, Simple
<1>10. UNCHANGED <<session, key, enrolled>>
  BY <1>5 DEF tables
<1> QED  BY <1>7, <1>9, <1>10, HoldStep

LEMMA AuthenticateUserSound ==
    ASSUME EnrollmentAssumption, EnrollmentInv, NEW d \in Devices, AuthenticateUser(d)
    PROVE  Sound
<1>1. TypeOK
  BY DEF EnrollmentInv
<1> DEFINE h == Holding(d, "login")
           i == attempt[d].session
           es == Counted(key[i])
<1>2. h \in HeldThings /\ h.item = "login" /\ h.session = i
  BY <1>1, Elements, HeldTyped DEF Items, Holding
<1>3. Reply(d, h) /\ Here(d, "url") /\ ~Here(d, "waiting") /\ VerifiedKey(d, NoDevice)
  BY DEF AuthenticateUser, Here, CanAuthenticateUser
<1>4. i \in Ids /\ i \in 0 .. Len(session) /\ session[i].account /\ enrollment.type = "USER"
  BY <1>3 DEF EnrollmentInv, HeldSessions, AccountSessions, Here, Row
<1>5. key' = [key EXCEPT ![i] = es]
  BY DEF AuthenticateUser
<1>6. /\ key[i] \in Secrets
      /\ es \in Secrets /\ es.quota = key[i].quota /\ es.count = key[i].count + 1
  BY <1>1, <1>4, Elements, CountedTyped
<1>7. es.count <= es.quota
  <2>1. key[i].quota > 0 /\ key[i].quota \in Nat /\ key[i].count \in Nat
    BY <1>4, <1>6 DEF EnrollmentInv, RequestsOnce, Secrets
  <2>2. key[i].count < key[i].quota
    BY <1>3, <2>1 DEF VerifiedKey, IsValid, Key
  <2> QED  BY <1>6, <2>1, <2>2
<1> HIDE DEF h, es
<1>8. attempt' \in [Devices -> HeldThings] /\ OnlyHeld(d, h) /\ faults' \in 0 .. MaxFaults
  BY <1>1, <1>2, <1>3, Replied
<1>9. UNCHANGED <<admin, secret, requests, session, enrolled, lockfree, browser>>
  BY DEF AuthenticateUser
<1>10. i \in 1 .. Len(key) /\ key \in Seq(Secrets) /\ Ids = 1 .. Len(key)
  BY <1>1, <1>4, Tables DEF Ids
<1>11. /\ key' \in Seq(Secrets) /\ Len(key') = Len(key)
       /\ \A s \in Ids : key'[s] = IF s = i THEN es ELSE key[s]
  <2> HIDE DEF i
  <2> QED  BY <1>5, <1>6, <1>10, RowSet
<1>12. TypeOK' /\ Frame
  BY <1>1, <1>8, <1>9, <1>11, Tables, DeviceTypes
<1>13. \A s \in Ids : /\ key'[s].quota = key[s].quota
                      /\ \/ key'[s].count = key[s].count
                         \/ session[s].account /\ key'[s].count <= key[s].quota
  BY <1>4, <1>6, <1>7, <1>11
<1>14. \A e \in Devices : attempt'[e] = attempt[e] \/ Simple(e)
  BY <1>2, <1>3, <1>4, <1>8 DEF OnlyHeld, Simple
<1> QED  BY <1>9, <1>12, <1>13, <1>14, HoldStep

LEMMA DeviceLeaves ==
    ASSUME EnrollmentAssumption, EnrollmentInv, NEW d \in Devices, ~Here(d, "waiting"),
           attempt' = [attempt EXCEPT ![d] = Nothing], edits' \in 0 .. MaxEdits,
           enrolled' \in EnrolledTable,
           \A e \in Devices : enrolled'[e] = enrolled[e] \/ enrolled'[e] # "token",
           UNCHANGED <<enrollment, forms, saved, secret, requests, session, key, lockfree,
                       browser, faults>>
    PROVE  Sound
<1>1. TypeOK
  BY DEF EnrollmentInv
<1>2. Nothing \in HeldThings /\ Nothing.item = "none" /\ Nothing.session = 0
  BY <1>1, Elements, HeldTyped DEF Items, Nothing
<1>3. attempt' \in [Devices -> HeldThings] /\ OnlyHeld(d, Nothing)
  BY <1>1, <1>2, HeldBy
<1>4. TypeOK' /\ Frame
  BY <1>1, <1>3 DEF TypeOK, HeldThings, EnrolledTable, Frame, lockfree
<1> QED  BY <1>2, <1>3, <1>4, DroppedStep

LEMMA CheckOutSound ==
    ASSUME EnrollmentAssumption, EnrollmentInv, NEW d \in Devices, CheckOut(d)
    PROVE  Sound
<1>1. TypeOK
  BY DEF EnrollmentInv
<1>2. /\ enrolled' \in EnrolledTable
      /\ \A e \in Devices : enrolled'[e] = enrolled[e] \/ enrolled'[e] # "token"
  BY <1>1, Tables DEF CheckOut, EnrolledTable
<1>3. edits' \in 0 .. MaxEdits
  BY <1>1, Edited DEF CheckOut
<1> QED  BY <1>2, <1>3, DeviceLeaves DEF CheckOut, Here

LEMMA WipeSound ==
    ASSUME EnrollmentAssumption, EnrollmentInv, NEW d \in Devices, Wipe(d)
    PROVE  Sound
<1>1. TypeOK
  BY DEF EnrollmentInv
<1>2. edits' \in 0 .. MaxEdits
  BY <1>1, Edited DEF Wipe
<1> QED  BY <1>1, <1>2, Tables, DeviceLeaves DEF Wipe, Here, tables

LEMMA RefusedSound ==
    ASSUME EnrollmentAssumption, EnrollmentInv, NEW d \in Devices, Refused(d)
    PROVE  Sound
<1>1. TypeOK
  BY DEF EnrollmentInv
<1>2. ~Here(d, "waiting")
  BY DEF Refused, Accepted, Here
<1>3. edits' \in 0 .. MaxEdits
  BY <1>1 DEF Refused, admin, TypeOK
<1> QED  BY <1>1, <1>2, <1>3, Tables, DeviceLeaves DEF Refused, tables, admin

LEMMA CopySound ==
    ASSUME EnrollmentAssumption, EnrollmentInv, NEW d \in Devices, NEW f \in Devices, Copy(d, f)
    PROVE  Sound
<1>1. TypeOK
  BY DEF EnrollmentInv
<1>2. attempt[d] \in HeldThings
  BY <1>1, Elements
<1>3. /\ Here(f, "none") /\ attempt' = [attempt EXCEPT ![f] = attempt[d]]
      /\ \/ Here(d, "challenge")
         \/ Here(d, "mdm_scep") /\ ~Row(d).account
  BY DEF Copy
<1>4. OnlyHeld(f, attempt[d]) /\ attempt' \in [Devices -> HeldThings]
  BY <1>1, <1>2, <1>3, HeldBy
<1>5. edits' \in 0 .. MaxEdits
  BY <1>1, Edited DEF Copy
<1>6. UNCHANGED <<enrollment, forms, saved, tables, lockfree, browser, faults>>
  BY DEF Copy
<1>7. TypeOK' /\ Frame
  BY <1>1, <1>4, <1>5, <1>6 DEF TypeOK, HeldThings, EnrolledTable, Frame, lockfree, tables
<1>8. /\ attempt[d].item \in {"challenge", "mdm_scep"}
      /\ attempt[d].session \in Ids /\ attempt[d].session \in 0 .. Len(session)
      /\ ~session[attempt[d].session].account
      /\ attempt[d].item = "challenge" => enrollment.type = "OTA"
  BY <1>3 DEF EnrollmentInv, HeldSessions, AccountSessions, Here, Row
<1>9. \A e \in Devices : attempt'[e] = attempt[e] \/ Simple(e)
  BY <1>3, <1>4, <1>8 DEF OnlyHeld, Simple, Here
<1> QED  BY <1>6, <1>7, <1>9, HoldStep DEF tables

-----------------------------------------------------------------------------
(* The requests of a device that create a session.                          *)

LEMMA NewMatching ==
    ASSUME NEW st \in Statuses, NEW account \in BOOLEAN, NEW user \in BOOLEAN,
           NEW quota \in Nat \ {0}, NEW d \in Devices \cup {NoDevice},
           account \/ Remaining(st) <= quota
    PROVE  Matching(NewSession(st, account, user), NewSecret(quota, d))
<1> DEFINE row == NewSession(st, account, user)
           es == NewSecret(quota, d)
<1>1. row.status = st /\ row.account = account /\ row.requests = {}
  BY NewSessionTyped
<1>2. es.quota = quota /\ es.count = 0
  BY NewSecretTyped
<1>3. Remaining(st) \in 0 .. 3
  BY Remainders
<1> HIDE DEF row, es
<1>4. Matching(row, es)
  BY <1>1, <1>2, <1>3, FS_EmptySet DEF Matching
<1> QED  BY <1>4 DEF row, es

LEMMA OTAEnrollSound ==
    ASSUME EnrollmentAssumption, EnrollmentInv, NEW d \in Devices, OTAEnroll(d)
    PROVE  Sound
<1>1. TypeOK
  BY DEF EnrollmentInv
<1> DEFINE row == NewSession("PHASE_2", FALSE, FALSE)
           es == NewSecret(2, d)
           h == Held("ota_scep", Created)
<1>2. /\ row \in Session /\ es \in Secrets /\ Matching(row, es)
      /\ row.status = "PHASE_2" /\ row.account = FALSE /\ row.user = FALSE
  <2>1. "PHASE_2" \in Statuses /\ 2 \in Nat \ {0} /\ d \in Devices \cup {NoDevice}
    BY DEF Statuses, EnrollmentAssumption
  <2>2. FALSE \/ Remaining("PHASE_2") <= 2
    BY Remainders
  <2> QED  BY <2>1, <2>2, NewSessionTyped, NewSecretTyped, NewMatching
<1>3. /\ Here(d, "payload") /\ ~Here(d, "waiting")
      /\ CreateSession(row, es) /\ Reply(d, h)
      /\ ~enrollment.realm
  BY DEF OTAEnroll, CanEnroll, Here
<1> HIDE DEF row, es
<1>4. /\ session' \in Seq(Session) /\ Len(session') \in 0 .. MaxSessions
      /\ key' \in Seq(Secrets) /\ Len(key') = Len(session') /\ Created \in 1 .. MaxSessions
  BY <1>1, <1>2, <1>3, SessionCreated
<1>5. h \in HeldThings /\ h.item = "ota_scep" /\ h.session = Created
  BY <1>4, HeldTyped DEF Items
<1> HIDE DEF h
<1>6. attempt' \in [Devices -> HeldThings] /\ OnlyHeld(d, h) /\ faults' \in 0 .. MaxFaults
  BY <1>1, <1>3, <1>5, Replied
<1>7. UNCHANGED <<admin, enrolled, lockfree, browser>>
  BY DEF OTAEnroll
<1>8. secret' \in Secrets /\ requests' \in Nat /\ browser' \in BrowserKeys
  BY <1>1, <1>7, CountedRequest, Tables DEF OTAEnroll
<1>9. TypeOK' /\ Frame
  BY <1>1, <1>4, <1>6, <1>7, <1>8, Tables, DeviceTypes
<1> QED  BY <1>2, <1>3, <1>5, <1>6, <1>7, <1>9, CreateStep

LEMMA OTAWebEnrollSound ==
    ASSUME EnrollmentAssumption, EnrollmentInv, NEW d \in Devices, OTAWebEnroll(d)
    PROVE  Sound
<1>1. TypeOK
  BY DEF EnrollmentInv
<1> DEFINE row == NewSession("PHASE_1", FALSE, TRUE)
           es == NewSecret(RealmQuota, NoDevice)
           h == Held("challenge", Created)
<1>2. /\ row \in Session /\ es \in Secrets /\ Matching(row, es)
      /\ row.status = "PHASE_1" /\ row.account = FALSE /\ row.user = TRUE
  <2>1. "PHASE_1" \in Statuses /\ RealmQuota \in Nat \ {0} /\ NoDevice \in Devices \cup {NoDevice}
    BY DEF Statuses, EnrollmentAssumption, RealmQuota
  <2>2. FALSE \/ Remaining("PHASE_1") <= RealmQuota
    BY Remainders DEF RealmQuota
  <2> QED  BY <2>1, <2>2, NewSessionTyped, NewSecretTyped, NewMatching
<1>3. /\ enrollment.type = "OTA" /\ ~Here(d, "waiting")
      /\ CreateSession(row, es) /\ Reply(d, h)
      /\ browser' = browser \ {<<d, 0>>}
  BY DEF OTAWebEnroll, Here
<1> HIDE DEF row, es
<1>4. /\ session' \in Seq(Session) /\ Len(session') \in 0 .. MaxSessions
      /\ key' \in Seq(Secrets) /\ Len(key') = Len(session') /\ Created \in 1 .. MaxSessions
  BY <1>1, <1>2, <1>3, SessionCreated
<1>5. h \in HeldThings /\ h.item = "challenge" /\ h.session = Created
  BY <1>4, HeldTyped DEF Items
<1> HIDE DEF h
<1>6. attempt' \in [Devices -> HeldThings] /\ OnlyHeld(d, h) /\ faults' \in 0 .. MaxFaults
  BY <1>1, <1>3, <1>5, Replied
<1>7. UNCHANGED <<admin, secret, requests, enrolled, lockfree>>
  BY DEF OTAWebEnroll
<1>8. secret' \in Secrets /\ requests' \in Nat /\ browser' \in BrowserKeys
  BY <1>1, <1>7, <1>3, Tables DEF OTAWebEnroll, BrowserKeys
<1>9. TypeOK' /\ Frame
  BY <1>1, <1>4, <1>6, <1>7, <1>8, Tables, DeviceTypes
<1> QED  BY <1>2, <1>3, <1>5, <1>6, <1>7, <1>9, CreateStep

LEMMA DEPEnrollSound ==
    ASSUME EnrollmentAssumption, EnrollmentInv, NEW d \in Devices, DEPEnroll(d)
    PROVE  Sound
<1>1. TypeOK
  BY DEF EnrollmentInv
<1> DEFINE row == NewSession("STARTED", FALSE, FALSE)
           es == NewSecret(1, d)
           h == Held("mdm_scep", Created)
<1>2. /\ row \in Session /\ es \in Secrets /\ Matching(row, es)
      /\ row.status = "STARTED" /\ row.account = FALSE /\ row.user = FALSE
  <2>1. "STARTED" \in Statuses /\ 1 \in Nat \ {0} /\ d \in Devices \cup {NoDevice}
    BY DEF Statuses, EnrollmentAssumption
  <2>2. FALSE \/ Remaining("STARTED") <= 1
    BY Remainders
  <2> QED  BY <2>1, <2>2, NewSessionTyped, NewSecretTyped, NewMatching
<1>3. /\ Here(d, "none") /\ ~Here(d, "waiting")
      /\ CreateSession(row, es) /\ Reply(d, h)
      /\ ~enrollment.realm
  BY DEF DEPEnroll, CanEnroll, Here
<1> HIDE DEF row, es
<1>4. /\ session' \in Seq(Session) /\ Len(session') \in 0 .. MaxSessions
      /\ key' \in Seq(Secrets) /\ Len(key') = Len(session') /\ Created \in 1 .. MaxSessions
  BY <1>1, <1>2, <1>3, SessionCreated
<1>5. h \in HeldThings /\ h.item = "mdm_scep" /\ h.session = Created
  BY <1>4, HeldTyped DEF Items
<1> HIDE DEF h
<1>6. attempt' \in [Devices -> HeldThings] /\ OnlyHeld(d, h) /\ faults' \in 0 .. MaxFaults
  BY <1>1, <1>3, <1>5, Replied
<1>7. UNCHANGED <<admin, enrolled, lockfree, browser>>
  BY DEF DEPEnroll
<1>8. secret' \in Secrets /\ requests' \in Nat /\ browser' \in BrowserKeys
  BY <1>1, <1>7, CountedRequest, Tables DEF DEPEnroll
<1>9. TypeOK' /\ Frame
  BY <1>1, <1>4, <1>6, <1>7, <1>8, Tables, DeviceTypes
<1> QED  BY <1>2, <1>3, <1>5, <1>6, <1>7, <1>9, CreateStep

LEMMA UserFormSound ==
    ASSUME EnrollmentAssumption, EnrollmentInv, NEW d \in Devices, UserForm(d)
    PROVE  Sound
<1>1. TypeOK
  BY DEF EnrollmentInv
<1> DEFINE row == NewSession("STARTED", FALSE, FALSE)
           es == NewSecret(1, NoDevice)
           h == Held("mdm_scep", Created)
<1>2. /\ row \in Session /\ es \in Secrets /\ Matching(row, es)
      /\ row.status = "STARTED" /\ row.account = FALSE /\ row.user = FALSE
  <2>1. "STARTED" \in Statuses /\ 1 \in Nat \ {0} /\ NoDevice \in Devices \cup {NoDevice}
    BY DEF Statuses, EnrollmentAssumption
  <2>2. FALSE \/ Remaining("STARTED") <= 1
    BY Remainders
  <2> QED  BY <2>1, <2>2, NewSessionTyped, NewSecretTyped, NewMatching
<1>3. /\ Here(d, "none") /\ ~Here(d, "waiting")
      /\ CreateSession(row, es) /\ Reply(d, h)
      /\ enrollment.type = "USER"
  BY DEF UserForm, Here
<1> HIDE DEF row, es
<1>4. /\ session' \in Seq(Session) /\ Len(session') \in 0 .. MaxSessions
      /\ key' \in Seq(Secrets) /\ Len(key') = Len(session') /\ Created \in 1 .. MaxSessions
  BY <1>1, <1>2, <1>3, SessionCreated
<1>5. h \in HeldThings /\ h.item = "mdm_scep" /\ h.session = Created
  BY <1>4, HeldTyped DEF Items
<1> HIDE DEF h
<1>6. attempt' \in [Devices -> HeldThings] /\ OnlyHeld(d, h) /\ faults' \in 0 .. MaxFaults
  BY <1>1, <1>3, <1>5, Replied
<1>7. UNCHANGED <<admin, secret, requests, enrolled, lockfree, browser>>
  BY DEF UserForm
<1>8. secret' \in Secrets /\ requests' \in Nat /\ browser' \in BrowserKeys
  BY <1>1, <1>7, Tables DEF UserForm
<1>9. TypeOK' /\ Frame
  BY <1>1, <1>4, <1>6, <1>7, <1>8, Tables, DeviceTypes
<1> QED  BY <1>2, <1>3, <1>5, <1>6, <1>7, <1>9, CreateStep

LEMMA EnrollUserSound ==
    ASSUME EnrollmentAssumption, EnrollmentInv, NEW d \in Devices, EnrollUser(d)
    PROVE  Sound
<1>1. TypeOK
  BY DEF EnrollmentInv
<1> DEFINE row == NewSession("ACCOUNT_DRIVEN_START", TRUE, FALSE)
           es == NewSecret(AccountQuota, NoDevice)
           h == Held("url", Created)
<1>2. /\ row \in Session /\ es \in Secrets /\ Matching(row, es)
      /\ row.status = "ACCOUNT_DRIVEN_START" /\ row.account = TRUE /\ row.user = FALSE
  <2>1. "ACCOUNT_DRIVEN_START" \in Statuses /\ AccountQuota \in Nat \ {0} /\ NoDevice \in Devices \cup {NoDevice}
    BY DEF Statuses, EnrollmentAssumption
  <2>2. TRUE \/ Remaining("ACCOUNT_DRIVEN_START") <= AccountQuota
    BY Remainders
  <2> QED  BY <2>1, <2>2, NewSessionTyped, NewSecretTyped, NewMatching
<1>3. /\ Here(d, "none") /\ ~Here(d, "waiting")
      /\ CreateSession(row, es) /\ Reply(d, h)
      /\ enrollment.type = "USER"
  BY DEF EnrollUser, Here
<1> HIDE DEF row, es
<1>4. /\ session' \in Seq(Session) /\ Len(session') \in 0 .. MaxSessions
      /\ key' \in Seq(Secrets) /\ Len(key') = Len(session') /\ Created \in 1 .. MaxSessions
  BY <1>1, <1>2, <1>3, SessionCreated
<1>5. h \in HeldThings /\ h.item = "url" /\ h.session = Created
  BY <1>4, HeldTyped DEF Items
<1> HIDE DEF h
<1>6. attempt' \in [Devices -> HeldThings] /\ OnlyHeld(d, h) /\ faults' \in 0 .. MaxFaults
  BY <1>1, <1>3, <1>5, Replied
<1>7. UNCHANGED <<admin, enrolled, lockfree, browser>>
  BY DEF EnrollUser
<1>8. secret' \in Secrets /\ requests' \in Nat /\ browser' \in BrowserKeys
  BY <1>1, <1>7, CountedRequest, Tables DEF EnrollUser
<1>9. TypeOK' /\ Frame
  BY <1>1, <1>4, <1>6, <1>7, <1>8, Tables, DeviceTypes
<1> QED  BY <1>2, <1>3, <1>5, <1>6, <1>7, <1>9, CreateStep

LEMMA FinalizeLoginSound ==
    ASSUME EnrollmentAssumption, EnrollmentInv, NEW d \in Devices, FinalizeLogin(d)
    PROVE  Sound
<1>1. TypeOK
  BY DEF EnrollmentInv
<1> DEFINE row == NewSession("STARTED", FALSE, TRUE)
           es == NewSecret(1, d)
<1>2. /\ row \in Session /\ es \in Secrets /\ Matching(row, es)
      /\ row.status = "STARTED" /\ row.account = FALSE /\ row.user = TRUE
  <2>1. "STARTED" \in Statuses /\ Remaining("STARTED") <= 1 /\ 1 \in Nat \ {0}
    BY Remainders DEF Statuses
  <2> QED  BY <2>1, NewSessionTyped, NewSecretTyped, NewMatching
<1>3. /\ Here(d, "login") /\ ~Here(d, "waiting")
      /\ enrollment.type # "USER" /\ enrollment.realm
      /\ UNCHANGED <<admin, secret, requests, enrolled, lockfree>>
  BY DEF FinalizeLogin, Here
<1>4. PICK s \in {0, Created} :
          /\ IF enrollment.type = "OTA"
             THEN s = 0 /\ UNCHANGED <<session, key>>
             ELSE s = Created /\ CreateSession(row, es)
          /\ browser' = browser \cup {<<d, s>>}
          /\ \/ /\ attempt' = [attempt EXCEPT ![d] = IF enrollment.type = "OTA" THEN Nothing
                                                     ELSE Held("page", s)]
                /\ UNCHANGED faults
             \/ /\ faults < MaxFaults
                /\ faults' = faults + 1
                /\ attempt' = [attempt EXCEPT ![d] = Held(UsedLogin, 0)]
  BY DEF FinalizeLogin
<1> HIDE DEF row, es
<1>5. /\ s \in 0 .. MaxSessions
      /\ session' \in Seq(Session) /\ Len(session') \in 0 .. MaxSessions
      /\ key' \in Seq(Secrets) /\ Len(key') = Len(session')
  <2>1. CASE enrollment.type = "OTA"
    BY <1>1, <1>4, <2>1, Tables, Elements
  <2>2. CASE enrollment.type # "OTA"
    BY <1>1, <1>2, <1>4, <2>2, SessionCreated, Elements
  <2> QED  BY <2>1, <2>2
<1>6. browser' \in BrowserKeys
  BY <1>1, <1>4, <1>5, Tables DEF BrowserKeys
<1>7. PICK h \in HeldThings :
          /\ attempt' = [attempt EXCEPT ![d] = h] /\ faults' \in 0 .. MaxFaults
          /\ \/ h.item = "page" /\ h.session = s /\ enrollment.type # "OTA"
             \/ h.item = "none" /\ h.session = 0 /\ enrollment.type = "OTA"
             \/ h.item \in {"login", "login_used"} /\ h.session = 0
  <2>1. CASE /\ attempt' = [attempt EXCEPT ![d] = Held("page", s)] /\ UNCHANGED faults
             /\ enrollment.type # "OTA"
    <3>1. "page" \in Items
      BY DEF Items
    <3>2. /\ Held("page", s) \in HeldThings
          /\ Held("page", s).item = "page" /\ Held("page", s).session = s
      BY <1>5, <3>1, HeldTyped
    <3> QED  BY <1>1, <2>1, <3>2, Tables
  <2>1a. CASE /\ attempt' = [attempt EXCEPT ![d] = Nothing] /\ UNCHANGED faults
              /\ enrollment.type = "OTA"
    <3>1. Nothing \in HeldThings /\ Nothing.item = "none" /\ Nothing.session = 0
      BY <1>1, Elements, HeldTyped DEF Items, Nothing
    <3> QED  BY <1>1, <2>1a, <3>1, Tables
  <2>2. CASE /\ faults < MaxFaults
             /\ faults' = faults + 1
             /\ attempt' = [attempt EXCEPT ![d] = Held(UsedLogin, 0)]
    <3>1. UsedLogin \in {"login", "login_used"}
      BY DEF UsedLogin
    <3>2. faults' \in 0 .. MaxFaults
      BY <1>1, <2>2, Tables DEF EnrollmentAssumption
    <3>3. UsedLogin \in Items /\ 0 \in 0 .. MaxSessions
      BY <3>1 DEF EnrollmentAssumption, Items
    <3>4. /\ Held(UsedLogin, 0) \in HeldThings
          /\ Held(UsedLogin, 0).item = UsedLogin /\ Held(UsedLogin, 0).session = 0
      BY <3>3, HeldTyped
    <3> QED  BY <2>2, <3>1, <3>2, <3>4
  <2> QED  BY <1>4, <2>1, <2>1a, <2>2
<1>8. attempt' \in [Devices -> HeldThings] /\ OnlyHeld(d, h)
  BY <1>1, <1>7, HeldBy
<1>9. TypeOK' /\ Frame
  BY <1>1, <1>3, <1>5, <1>6, <1>7, <1>8, Tables, DeviceTypes
<1>10. CASE enrollment.type = "OTA"
  BY <1>3, <1>4, <1>7, <1>8, <1>9, <1>10, DroppedStep
<1>11. CASE enrollment.type # "OTA"
  BY <1>2, <1>3, <1>4, <1>7, <1>8, <1>9, <1>11, CreateStep
<1> QED  BY <1>10, <1>11

-----------------------------------------------------------------------------
(* The requests of a device that change its session.                        *)

RequestNames == {"phase2", "phase2_scep", "phase3_scep", "scep"}

LEMMA StatusSet ==
    ASSUME NEW r \in Session, NEW st \in Statuses
    PROVE  /\ [r EXCEPT !.status = st] \in Session
           /\ [r EXCEPT !.status = st].status = st
           /\ [r EXCEPT !.status = st].account = r.account
           /\ [r EXCEPT !.status = st].user = r.user
           /\ [r EXCEPT !.status = st].requests = r.requests
           /\ [r EXCEPT !.status = st].enrolled = r.enrolled
BY DEF Session

Recorded(r, st, x) == [r EXCEPT !.status = st, !.requests = @ \cup {x}]

LEMMA RequestAdded ==
    ASSUME NEW r \in Session, NEW st \in Statuses, NEW x \in RequestNames
    PROVE  /\ Recorded(r, st, x) \in Session
           /\ Recorded(r, st, x).status = st
           /\ Recorded(r, st, x).account = r.account
           /\ Recorded(r, st, x).user = r.user
           /\ Recorded(r, st, x).requests = r.requests \cup {x}
           /\ Recorded(r, st, x).enrolled = r.enrolled
<1> DEFINE R == r.requests \cup {x}
<1>1. R \in SUBSET {"phase2", "phase2_scep", "phase3_scep", "scep"}
  BY DEF Session, RequestNames
<1>2. Recorded(r, st, x) = [r EXCEPT !.status = st, !.requests = R] /\ R = r.requests \cup {x}
  BY DEF Recorded
<1> HIDE DEF R
<1> QED  BY <1>1, <1>2 DEF Session

Enrolling(r, st, d) == [r EXCEPT !.status = st, !.enrolled = d]

LEMMA EnrolledSet ==
    ASSUME NEW r \in Session, NEW st \in Statuses, NEW d \in Devices
    PROVE  /\ Enrolling(r, st, d) \in Session
           /\ Enrolling(r, st, d).status = st
           /\ Enrolling(r, st, d).account = r.account
           /\ Enrolling(r, st, d).user = r.user
           /\ Enrolling(r, st, d).requests = r.requests
           /\ Enrolling(r, st, d).enrolled = d
BY DEF Session, Enrolling

LEMMA RequestsFinite ==
    ASSUME NEW R \in SUBSET RequestNames, NEW x \in RequestNames, x \notin R
    PROVE  Cardinality(R) \in Nat /\ Cardinality(R \cup {x}) = Cardinality(R) + 1
<1>1. IsFiniteSet({"phase2"} \cup {"phase2_scep"})
  BY FS_Singleton, FS_Union
<1>2. IsFiniteSet({"phase3_scep"} \cup {"scep"})
  BY FS_Singleton, FS_Union
<1>3. IsFiniteSet(({"phase2"} \cup {"phase2_scep"}) \cup ({"phase3_scep"} \cup {"scep"}))
  BY <1>1, <1>2, FS_Union
<1>4. RequestNames = ({"phase2"} \cup {"phase2_scep"}) \cup ({"phase3_scep"} \cup {"scep"})
  BY DEF RequestNames
<1>5. IsFiniteSet(R)
  BY <1>3, <1>4, FS_Subset
<1> QED  BY <1>5, FS_AddElement, FS_CardinalityType

\* A verification that is counted and recorded.
LEMMA CountedMatching ==
    ASSUME NEW r \in Session, NEW es \in Secrets, Matching(r, es),
           NEW fs \in Secrets, fs.quota = es.quota, fs.count = es.count + 1,
           es.count < es.quota,
           NEW st \in Statuses, NEW x \in RequestNames, NEW row \in Session,
           row.status = st, row.account = r.account, row.requests = r.requests \cup {x},
           r.account \/ Remaining(st) + 1 <= Remaining(r.status),
           ~r.account => x \notin r.requests,
           Rank(st) < 5 => x \notin {"phase3_scep", "scep"} /\ Rank(r.status) < 5,
           Rank(st) < 3 => x # "phase2_scep" /\ Rank(r.status) < 3,
           Rank(st) >= 2
    PROVE  Matching(row, fs)
<1>1. /\ es.quota \in Nat /\ es.count \in Nat /\ r.requests \in SUBSET RequestNames
      /\ r.status \in Statuses /\ r.account \in BOOLEAN
  BY DEF Secrets, Session, RequestNames
<1>2. ~r.account => /\ Cardinality(r.requests) \in Nat
                    /\ Cardinality(row.requests) = Cardinality(r.requests) + 1
  BY <1>1, RequestsFinite
<1>3. Rank(st) \in 1 .. 7 /\ Rank(r.status) \in 1 .. 7
  BY <1>1, Ranks
<1>4. Remaining(st) \in 0 .. 3 /\ Remaining(r.status) \in 0 .. 3
  BY <1>1, Remainders
<1>5. /\ fs.quota > 0 /\ fs.count <= fs.quota
      /\ row.account \/ fs.count = Cardinality(row.requests)
      /\ row.account \/ fs.count + Remaining(row.status) <= fs.quota
  BY <1>1, <1>2, <1>4 DEF Matching
<1>6. ~row.account =>
         /\ Rank(row.status) < 5 => row.requests \cap {"phase3_scep", "scep"} = {}
         /\ Rank(row.status) < 3 => "phase2_scep" \notin row.requests
         /\ Rank(row.status) < 2 => "phase2" \notin row.requests
  BY <1>3 DEF Matching
<1> QED  BY <1>5, <1>6 DEF Matching

\* A message that only changes the status.
LEMMA SameMatching ==
    ASSUME NEW r \in Session, NEW es \in Secrets, Matching(r, es),
           NEW row \in Session, row.account = r.account, row.requests = r.requests,
           Remaining(row.status) <= Remaining(r.status), Rank(row.status) >= Rank(r.status)
    PROVE  Matching(row, es)
<1>1. /\ es.quota \in Nat /\ es.count \in Nat
      /\ r.status \in Statuses /\ row.status \in Statuses
  BY DEF Secrets, Session
<1>2. Rank(row.status) \in 1 .. 7 /\ Rank(r.status) \in 1 .. 7
  BY <1>1, Ranks
<1>3. Remaining(row.status) \in 0 .. 3 /\ Remaining(r.status) \in 0 .. 3
  BY <1>1, Remainders
<1>4. /\ es.quota > 0 /\ es.count <= es.quota
      /\ row.account \/ es.count = Cardinality(row.requests)
      /\ row.account \/ es.count + Remaining(row.status) <= es.quota
  BY <1>1, <1>3 DEF Matching
<1>5. ~row.account =>
         /\ Rank(row.status) < 5 => row.requests \cap {"phase3_scep", "scep"} = {}
         /\ Rank(row.status) < 3 => "phase2_scep" \notin row.requests
         /\ Rank(row.status) < 2 => "phase2" \notin row.requests
  BY <1>2 DEF Matching
<1> QED  BY <1>4, <1>5 DEF Matching

\* The session and the secret of a device.
LEMMA DeviceRow ==
    ASSUME EnrollmentAssumption, EnrollmentInv, NEW d \in Devices,
           attempt[d].item \in {"challenge", "ota_scep", "ota_cert", "mdm_scep", "mdm_cert",
                                "authenticated", "enrolled"}
    PROVE  /\ attempt[d].session \in Ids /\ ~Here(d, "waiting")
           /\ Row(d) \in Session /\ Key(d) \in Secrets
           /\ Row(d).status \in Statuses /\ Row(d).account \in BOOLEAN
           /\ Row(d).requests \in SUBSET RequestNames
           /\ Row(d).enrolled \in Devices \cup {NoDevice}
           /\ Matching(Row(d), Key(d))
<1>1. attempt[d].session \in Ids
  BY DEF EnrollmentInv, HeldSessions
<1>2. session[attempt[d].session] \in Session /\ key[attempt[d].session] \in Secrets
  BY <1>1, Elements DEF EnrollmentInv
<1>3. Matching(session[attempt[d].session], key[attempt[d].session])
  BY <1>1, MatchingSessions DEF EnrollmentInv
<1> QED  BY <1>1, <1>2, <1>3 DEF Row, Key, Session, RequestNames, Here

\* The types after such a request.
LEMMA RowTypes ==
    ASSUME EnrollmentAssumption, EnrollmentInv, NEW d \in Devices, attempt[d].session \in Ids,
           NEW row \in Session, NEW es \in Secrets, NEW h \in HeldThings,
           SetNextStatus(d, row, es), Reply(d, h),
           UNCHANGED <<admin, secret, requests, lockfree, browser>>, enrolled' \in EnrolledTable
    PROVE  TypeOK' /\ Frame /\ OnlyHeld(d, h)
<1>1. TypeOK
  BY DEF EnrollmentInv
<1>2. /\ session' \in Seq(Session) /\ Len(session') \in 0 .. MaxSessions
      /\ key' \in Seq(Secrets) /\ Len(key') = Len(session')
  BY <1>1, Tables, RowsChanged
<1>3. attempt' \in [Devices -> HeldThings] /\ OnlyHeld(d, h) /\ faults' \in 0 .. MaxFaults
  BY <1>1, Replied
<1> QED  BY <1>1, <1>2, <1>3, Tables, DeviceTypes

LEMMA HoldingTyped ==
    ASSUME EnrollmentAssumption, EnrollmentInv, NEW d \in Devices, NEW item \in Items
    PROVE  /\ Holding(d, item) \in HeldThings
           /\ Holding(d, item).item = item /\ Holding(d, item).session = attempt[d].session
BY Elements, HeldTyped DEF EnrollmentInv, Holding

LEMMA OTAEnrollSessionSound ==
    ASSUME EnrollmentAssumption, EnrollmentInv, NEW d \in Devices, OTAEnrollSession(d)
    PROVE  Sound
<1> DEFINE row == [Row(d) EXCEPT !.status = "PHASE_2", !.requests = @ \cup {"phase2"}]
           es == Bound(Key(d), d)
           h == Holding(d, "ota_scep")
<1>1. /\ Here(d, "challenge") /\ CanBind(d)
      /\ SetNextStatus(d, row, es) /\ Reply(d, h)
      /\ UNCHANGED <<admin, secret, requests, enrolled, lockfree, browser>>
  BY DEF OTAEnrollSession
<1>2. /\ attempt[d].session \in Ids /\ ~Here(d, "waiting")
      /\ Row(d) \in Session /\ Key(d) \in Secrets
      /\ Row(d).requests \in SUBSET RequestNames
      /\ Matching(Row(d), Key(d))
  BY <1>1, DeviceRow DEF Here
<1>3. h \in HeldThings /\ h.item = "ota_scep" /\ h.session = attempt[d].session
  BY HoldingTyped DEF Items
<1>4. es \in Secrets /\ es.quota = Key(d).quota /\ es.count = Key(d).count + 1
  BY <1>2, BoundTyped
<1>5. Row(d).status = "PHASE_1" /\ Key(d).count < Key(d).quota
  <2>1. Key(d).quota # 0
    BY <1>2 DEF Matching, Secrets
  <2> QED  BY <1>1, <2>1 DEF CanBind, VerifiedKey, IsValid
<1>6. "PHASE_2" \in Statuses /\ "phase2" \in RequestNames
  BY DEF Statuses, RequestNames
<1>7. /\ row \in Session /\ row.status = "PHASE_2"
      /\ row.account = Row(d).account /\ row.user = Row(d).user
      /\ row.requests = Row(d).requests \cup {"phase2"} /\ row.enrolled = Row(d).enrolled
  <2>1. row = Recorded(Row(d), "PHASE_2", "phase2")
    BY DEF Recorded
  <2> HIDE DEF row
  <2> QED  BY <1>2, <1>6, <2>1, RequestAdded
<1> HIDE DEF row, es, h
<1>8. ~Row(d).account => "phase2" \notin Row(d).requests
  BY <1>2, <1>5, Ranks DEF Matching
<1>9. Matching(row, es)
  <2>1. /\ Remaining("PHASE_2") + 1 <= Remaining(Row(d).status)
        /\ Rank("PHASE_2") = 2 /\ Rank(Row(d).status) = 1
    BY <1>5, Ranks, Remainders
  <2>2. /\ "phase2" \notin {"phase3_scep", "scep"} /\ Rank(Row(d).status) < 5
        /\ "phase2" # "phase2_scep" /\ Rank(Row(d).status) < 3 /\ Rank("PHASE_2") >= 2
    BY <2>1
  <2> QED  BY <1>2, <1>4, <1>5, <1>6, <1>7, <1>8, <2>1, <2>2, CountedMatching
<1>10. TypeOK' /\ Frame /\ OnlyHeld(d, h)
  <2>1. enrolled' \in EnrolledTable
    BY <1>1, Tables DEF EnrollmentInv
  <2> QED  BY <1>1, <1>2, <1>3, <1>4, <1>7, <2>1, RowTypes
<1>11. Rank(row.status) >= Rank(Row(d).status)
  BY <1>5, <1>7, Ranks
<1>12. enrolled' = enrolled
  BY <1>1
<1> QED  BY <1>1, <1>2, <1>3, <1>4, <1>7, <1>9, <1>10, <1>11, <1>12, RowStep

LEMMA OTAPhase3Sound ==
    ASSUME EnrollmentAssumption, EnrollmentInv, NEW d \in Devices, OTAPhase3(d)
    PROVE  Sound
<1> DEFINE row == [Row(d) EXCEPT !.status = "PHASE_3"]
           h == Holding(d, "mdm_scep")
<1>1. /\ Here(d, "ota_cert") /\ Row(d).status = "PHASE_2_SCEP_VERIFIED"
      /\ SetNextStatus(d, row, Key(d)) /\ Reply(d, h)
      /\ UNCHANGED <<admin, secret, requests, enrolled, lockfree, browser>>
  BY DEF OTAPhase3, CanStartPhase3
<1>2. /\ attempt[d].session \in Ids /\ ~Here(d, "waiting")
      /\ Row(d) \in Session /\ Key(d) \in Secrets
      /\ Row(d).requests \in SUBSET RequestNames
      /\ Matching(Row(d), Key(d))
  BY <1>1, DeviceRow DEF Here
<1>3. h \in HeldThings /\ h.item = "mdm_scep" /\ h.session = attempt[d].session
  BY HoldingTyped DEF Items
<1>4. "PHASE_3" \in Statuses
  BY DEF Statuses
<1>5. /\ row \in Session /\ row.status = "PHASE_3"
      /\ row.account = Row(d).account /\ row.user = Row(d).user
      /\ row.requests = Row(d).requests /\ row.enrolled = Row(d).enrolled
  BY <1>2, <1>4, StatusSet
<1> HIDE DEF row, h
<1>6. Rank(row.status) >= Rank(Row(d).status) /\ Remaining(row.status) <= Remaining(Row(d).status)
  BY <1>1, <1>5, Ranks, Remainders
<1>7. Matching(row, Key(d))
  BY <1>2, <1>5, <1>6, SameMatching
<1>8. TypeOK' /\ Frame /\ OnlyHeld(d, h)
  <2>1. enrolled' \in EnrolledTable
    BY <1>1, Tables DEF EnrollmentInv
  <2> QED  BY <1>1, <1>2, <1>3, <1>5, <2>1, RowTypes
<1>9. enrolled' = enrolled
  BY <1>1
<1> QED  BY <1>1, <1>2, <1>3, <1>5, <1>6, <1>7, <1>8, <1>9, RowStep

\* The profile of a session that has not been used yet is on several devices,
\* but none of them has its certificate.
LEMMA NoOtherCertificate ==
    ASSUME EnrollmentAssumption, EnrollmentInv, NEW d \in Devices,
           attempt[d].session \in Ids, Rank(Row(d).status) < 5, NEW e \in Devices \ {d},
           attempt[e].item \in {"mdm_cert", "authenticated", "enrolled"}
    PROVE  attempt[e].session # attempt[d].session
<1> SUFFICES ASSUME attempt[e].session = attempt[d].session
             PROVE  FALSE
  OBVIOUS
<1>1. Row(e) = Row(d)
  BY DEF Row
<1>2. Row(d) \in Session
  BY Elements DEF EnrollmentInv, Row
<1>3. Rank(Row(d).status) \in 1 .. 7
  BY <1>2, Ranks DEF Session
<1>4. Row(d).account
  BY <1>1, <1>3 DEF EnrollmentInv, Certificates
<1> QED  BY <1>4 DEF EnrollmentInv, AccountSessions

LEMMA VerifySCEPCSRSound ==
    ASSUME EnrollmentAssumption, EnrollmentInv, NEW d \in Devices, VerifySCEPCSR(d)
    PROVE  Sound
<1> DEFINE st == ScepVerified(d)
           x == ScepRequest(d)
           item == IF Here(d, "ota_scep") THEN "ota_cert" ELSE "mdm_cert"
           row == [Row(d) EXCEPT !.status = st, !.requests = @ \cup {x}]
           es == Counted(Key(d))
           h == Holding(d, item)
<1>1. /\ attempt[d].item \in {"ota_scep", "mdm_scep"} /\ CanVerifyCSR(d)
      /\ SetNextStatus(d, row, es) /\ Reply(d, h)
      /\ UNCHANGED <<admin, secret, requests, enrolled, lockfree, browser>>
  BY DEF VerifySCEPCSR
<1>2. /\ attempt[d].session \in Ids /\ ~Here(d, "waiting")
      /\ Row(d) \in Session /\ Key(d) \in Secrets
      /\ Row(d).requests \in SUBSET RequestNames
      /\ Matching(Row(d), Key(d))
  BY <1>1, DeviceRow
<1>3. item \in {"ota_cert", "mdm_cert"} /\ item \in Items
  BY DEF Items
<1>4. h \in HeldThings /\ h.item = item /\ h.session = attempt[d].session
  <2> HIDE DEF item
  <2> QED  BY <1>3, HoldingTyped
<1>5. es \in Secrets /\ es.quota = Key(d).quota /\ es.count = Key(d).count + 1
  BY <1>2, CountedTyped
<1>6. Key(d).count < Key(d).quota
  <2>1. Key(d).quota # 0
    BY <1>2 DEF Matching, Secrets
  <2> QED  BY <1>1, <2>1 DEF CanVerifyCSR, VerifiedKey, IsValid
<1>7. /\ Row(d).status = ScepStatus(d)
      /\ \/ /\ Row(d).status = "PHASE_2" /\ st = "PHASE_2_SCEP_VERIFIED" /\ x = "phase2_scep"
            /\ item = "ota_cert"
         \/ Row(d).status = "PHASE_3" /\ st = "PHASE_3_SCEP_VERIFIED" /\ x = "phase3_scep"
         \/ Row(d).status = "STARTED" /\ st = "SCEP_VERIFIED" /\ x = "scep"
  <2>1. Row(d).status = ScepStatus(d)
    BY <1>1 DEF CanVerifyCSR
  <2>2. CASE Here(d, "ota_scep")
    <3>1. ScepStatus(d) = "PHASE_2" /\ item = "ota_cert"
      BY <2>2 DEF ScepStatus
    <3> QED  BY <2>1, <3>1 DEF ScepVerified, ScepRequest
  <2>3. CASE ~Here(d, "ota_scep") /\ enrollment.type = "OTA"
    <3>1. ScepStatus(d) = "PHASE_3"
      BY <2>3 DEF ScepStatus
    <3> QED  BY <2>1, <3>1 DEF ScepVerified, ScepRequest
  <2>4. CASE ~Here(d, "ota_scep") /\ enrollment.type # "OTA"
    <3>1. ScepStatus(d) = "STARTED"
      BY <2>4 DEF ScepStatus
    <3> QED  BY <2>1, <3>1 DEF ScepVerified, ScepRequest
  <2> QED  BY <2>2, <2>3, <2>4
<1> HIDE DEF st, x, item
<1>8. st \in Statuses /\ x \in RequestNames
  BY <1>7 DEF Statuses, RequestNames
<1>9. /\ row \in Session /\ row.status = st
      /\ row.account = Row(d).account /\ row.user = Row(d).user
      /\ row.requests = Row(d).requests \cup {x} /\ row.enrolled = Row(d).enrolled
  <2>1. row = Recorded(Row(d), st, x)
    BY DEF Recorded
  <2> HIDE DEF row
  <2> QED  BY <1>2, <1>8, <2>1, RequestAdded
<1> HIDE DEF row, es, h
<1>10. ~Row(d).account => x \notin Row(d).requests
  BY <1>2, <1>7, Ranks DEF Matching
<1>11. /\ Remaining(st) + 1 <= Remaining(Row(d).status)
       /\ Rank(st) < 5 => x \notin {"phase3_scep", "scep"} /\ Rank(Row(d).status) < 5
       /\ Rank(st) < 3 => x # "phase2_scep" /\ Rank(Row(d).status) < 3
       /\ Rank(st) >= 2 /\ Rank(st) >= Rank(Row(d).status) /\ Rank(Row(d).status) < 5
       /\ item = "mdm_cert" => Rank(st) >= 5
  <2>1. Remaining("PHASE_3_SCEP_VERIFIED") = 0 /\ Remaining("SCEP_VERIFIED") = 0
    BY Remainders, Ranks DEF Statuses
  <2> QED  BY <1>3, <1>7, <2>1, Ranks, Remainders
<1>12. Matching(row, es)
  BY <1>2, <1>5, <1>6, <1>8, <1>9, <1>10, <1>11, CountedMatching
<1>13. TypeOK' /\ Frame /\ OnlyHeld(d, h)
  <2>1. enrolled' \in EnrolledTable
    BY <1>1, Tables DEF EnrollmentInv
  <2> QED  BY <1>1, <1>2, <1>4, <1>5, <1>9, <2>1, RowTypes
<1>14. enrolled' = enrolled
  BY <1>1
<1>15. \A e \in Devices \ {d} :
          attempt[e].item \in {"mdm_cert", "authenticated", "enrolled"}
             => attempt[e].session # attempt[d].session
  BY <1>2, <1>11, NoOtherCertificate
<1>16. row.status \notin {"PHASE_1", "STARTED", "ACCOUNT_DRIVEN_AUTHENTICATED"}
  BY <1>7, <1>9
<1> QED  BY <1>1, <1>2, <1>3, <1>4, <1>5, <1>9, <1>11, <1>12, <1>13, <1>14, <1>15, <1>16, RowStep

LEMMA AuthenticateSound ==
    ASSUME EnrollmentAssumption, EnrollmentInv, NEW d \in Devices, Authenticate(d)
    PROVE  Sound
<1> DEFINE row == [Row(d) EXCEPT !.status = "AUTHENTICATED", !.enrolled = d]
           h == Holding(d, "authenticated")
<1>1. /\ Here(d, "mdm_cert") /\ CanAuthenticate(d)
      /\ enrolled' = [enrolled EXCEPT ![d] = "authenticated"]
      /\ SetNextStatus(d, row, Key(d)) /\ Reply(d, h)
      /\ UNCHANGED <<admin, secret, requests, lockfree, browser>>
  BY DEF Authenticate
<1>2. /\ attempt[d].session \in Ids /\ ~Here(d, "waiting")
      /\ Row(d) \in Session /\ Key(d) \in Secrets
      /\ Row(d).status \in {"PHASE_3_SCEP_VERIFIED", "SCEP_VERIFIED"}
      /\ Row(d).enrolled = NoDevice
      /\ Matching(Row(d), Key(d))
  BY <1>1, DeviceRow DEF Here, CanAuthenticate
<1>3. h \in HeldThings /\ h.item = "authenticated" /\ h.session = attempt[d].session
  BY HoldingTyped DEF Items
<1>4. "AUTHENTICATED" \in Statuses
  BY DEF Statuses
<1>5. /\ row \in Session /\ row.status = "AUTHENTICATED"
      /\ row.account = Row(d).account /\ row.user = Row(d).user
      /\ row.requests = Row(d).requests /\ row.enrolled = d
  <2>1. row = Enrolling(Row(d), "AUTHENTICATED", d)
    BY DEF Enrolling
  <2> HIDE DEF row
  <2> QED  BY <1>2, <1>4, <2>1, EnrolledSet
<1> HIDE DEF row, h
<1>6. /\ Rank(row.status) >= Rank(Row(d).status) /\ Rank(row.status) >= 5
      /\ Remaining(row.status) <= Remaining(Row(d).status)
  <2>1. /\ Remaining("AUTHENTICATED") = 0 /\ Remaining(Row(d).status) = 0
    BY <1>2, <1>4, Ranks, Remainders DEF Statuses
  <2> QED  BY <1>2, <1>5, <2>1, Ranks
<1>7. Matching(row, Key(d))
  BY <1>2, <1>5, <1>6, SameMatching
<1>8. /\ enrolled' \in EnrolledTable
      /\ \A e \in Devices : enrolled'[e] = enrolled[e] \/ enrolled'[e] # "token"
  <2>1. enrolled \in EnrolledTable
    BY Tables DEF EnrollmentInv
  <2> QED  BY <1>1, <2>1 DEF EnrolledTable
<1>9. TypeOK' /\ Frame /\ OnlyHeld(d, h)
  BY <1>1, <1>2, <1>3, <1>5, <1>8, RowTypes
<1>10. \A e \in Devices \ {d} :
          attempt[e].item \in {"mdm_cert", "authenticated", "enrolled"}
             => attempt[e].session # attempt[d].session
  BY <1>1 DEF EnrollmentInv, OneDevice, Here
<1> QED  BY <1>1, <1>2, <1>3, <1>5, <1>6, <1>7, <1>8, <1>9, <1>10, RowStep

LEMMA TokenUpdateSound ==
    ASSUME EnrollmentAssumption, EnrollmentInv, NEW d \in Devices, TokenUpdate(d)
    PROVE  Sound
<1> DEFINE row == [Row(d) EXCEPT !.status = "COMPLETED"]
           h == Holding(d, "enrolled")
<1>1. /\ Here(d, "authenticated") /\ CanUpdateToken(d)
      /\ enrolled' = [enrolled EXCEPT ![d] = "token"]
      /\ SetNextStatus(d, row, Key(d)) /\ Reply(d, h)
      /\ UNCHANGED <<admin, secret, requests, lockfree, browser>>
  BY DEF TokenUpdate
<1>2. /\ attempt[d].session \in Ids /\ ~Here(d, "waiting")
      /\ Row(d) \in Session /\ Key(d) \in Secrets
      /\ Row(d).status \in Statuses
      /\ Matching(Row(d), Key(d))
  BY <1>1, DeviceRow DEF Here
<1>3. h \in HeldThings /\ h.item = "enrolled" /\ h.session = attempt[d].session
  BY HoldingTyped DEF Items
<1>4. "COMPLETED" \in Statuses
  BY DEF Statuses
<1>5. /\ row \in Session /\ row.status = "COMPLETED"
      /\ row.account = Row(d).account /\ row.user = Row(d).user
      /\ row.requests = Row(d).requests /\ row.enrolled = Row(d).enrolled
  BY <1>2, <1>4, StatusSet
<1> HIDE DEF row, h
<1>6. /\ Rank(row.status) >= Rank(Row(d).status) /\ Rank(row.status) >= 5
      /\ Remaining(row.status) <= Remaining(Row(d).status)
  <2>1. Remaining("COMPLETED") = 0 /\ Rank("COMPLETED") = 7
    BY <1>4, Ranks, Remainders
  <2> QED  BY <1>2, <1>5, <2>1, Ranks, Remainders
<1>7. Matching(row, Key(d))
  BY <1>2, <1>5, <1>6, SameMatching
<1>8. attempt[d].session \in overwritten \/ row.enrolled = d
  BY <1>1, <1>5 DEF EnrollmentInv, Certificates, Here
<1>9. /\ enrolled' \in EnrolledTable
      /\ \A e \in Devices : e = d \/ enrolled'[e] = enrolled[e]
  <2>1. enrolled \in EnrolledTable
    BY Tables DEF EnrollmentInv
  <2> QED  BY <1>1, <2>1 DEF EnrolledTable
<1>10. TypeOK' /\ Frame /\ OnlyHeld(d, h)
  BY <1>1, <1>2, <1>3, <1>5, <1>9, RowTypes
<1>11. \A e \in Devices \ {d} :
          attempt[e].item \in {"mdm_cert", "authenticated", "enrolled"}
             => attempt[e].session # attempt[d].session
  BY <1>1 DEF EnrollmentInv, OneDevice, Here
<1>12. \A e \in Devices :
          \/ enrolled'[e] = enrolled[e]
          \/ enrolled'[e] # "token"
          \/ attempt[d].session \in overwritten
          \/ row.status = "COMPLETED" /\ row.enrolled = e
  BY <1>5, <1>8, <1>9
<1> QED  BY <1>1, <1>2, <1>3, <1>5, <1>6, <1>7, <1>8, <1>10, <1>11, <1>12, RowStep

-----------------------------------------------------------------------------
(* The requests that do not lock the session.                               *)

\* The first part of such a request: the row is read, and changed in memory.
LEMMA PostSound ==
    ASSUME EnrollmentAssumption, EnrollmentInv, NEW d \in Devices,
           NEW handler \in {"callback", "enroll"}, NEW row \in Session,
           attempt[d].session \in Ids, ~Here(d, "waiting"), Row(d).account,
           row.account, row.user, Row(d).status # "COMPLETED", row.enrolled = Row(d).enrolled,
           Rank(row.status) >= Rank(Row(d).status),
           Post(d, handler, row), UNCHANGED <<admin, tables, overwritten, browser, faults>>
    PROVE  Sound
<1> DEFINE new == [handler |-> handler, device |-> d, session |-> attempt[d].session,
                   read |-> Row(d), row |-> row, lost |-> FALSE]
           h == Holding(d, "waiting")
<1>1. TypeOK
  BY DEF EnrollmentInv
<1>2. /\ new \in Posts /\ ~new.lost /\ new.device = d /\ new.session = attempt[d].session
      /\ new.read = Row(d) /\ new.row = row
  <2>1. Row(d) \in Session /\ attempt[d].session \in 1 .. MaxSessions
    BY <1>1, Elements DEF Row
  <2> QED  BY <2>1 DEF Posts
<1>3. h \in HeldThings /\ h.item = "waiting" /\ h.session = attempt[d].session
  BY HoldingTyped DEF Items
<1>4. posts' = posts \cup {new} /\ attempt' = [attempt EXCEPT ![d] = h]
  BY DEF Post
<1> HIDE DEF new, h
<1>5. attempt' \in [Devices -> HeldThings] /\ OnlyHeld(d, h) /\ attempt'[d] = h
  BY <1>1, <1>3, <1>4, HeldBy
<1>6. /\ UNCHANGED <<enrollment, forms, saved, edits, secret, requests, session, key, enrolled>>
      /\ UNCHANGED <<overwritten, browser, faults>> /\ Ids' = Ids
  BY DEF admin, tables, Ids
<1>7. TypeOK'
  BY <1>1, <1>2, <1>4, <1>5, <1>6 DEF TypeOK, HeldThings
<1>8. IsFiniteSet(posts)'
  BY <1>4, FS_AddElement DEF EnrollmentInv
<1>9. \A e \in Devices : \/ attempt'[e] = attempt[e]
                         \/ /\ e = d /\ attempt'[e].session = attempt[e].session
                            /\ attempt'[e].item = "waiting"
  BY <1>3, <1>5 DEF OnlyHeld
<1>10. attempt[d].session \in 0 .. Len(session)
  BY DEF EnrollmentInv, HeldSessions
<1>11. HeldSessions'
  BY <1>6, <1>9, <1>10 DEF EnrollmentInv, HeldSessions, Here, Row
<1>12. AccountSessions'
  <2>1. \A e \in Devices : attempt'[e].session = attempt[e].session
    BY <1>9
  <2> QED  BY <1>6, <2>1 DEF EnrollmentInv, AccountSessions, Row
<1>13. PostedRows'
  BY <1>2, <1>4, <1>6 DEF EnrollmentInv, PostedRows, Row
<1>14. WaitingPosts'
  <2>1. \A p \in posts : ~p.lost => p.device # d
    BY DEF EnrollmentInv, WaitingPosts, Here
  <2>2. \A p \in posts : p.device \in Devices
    BY <1>1 DEF TypeOK, Posts
  <2>3. \A p \in posts : ~p.lost => attempt'[p.device] = attempt[p.device]
    BY <1>9, <2>1, <2>2
  <2>4. Here(d, "waiting")' /\ attempt'[d].session = new.session
    BY <1>2, <1>3, <1>5 DEF Here
  <2> QED  BY <1>2, <1>4, <2>1, <2>3, <2>4 DEF EnrollmentInv, WaitingPosts, Here
<1>15. Certificates'
  BY <1>6, <1>9 DEF EnrollmentInv, Certificates, Here, Row
<1>16. (RequestsOnce /\ QuotaSuffices /\ RequestsRecorded)'
  BY <1>6 DEF EnrollmentInv, RequestsOnce, QuotaSuffices, RequestsRecorded
<1>17. OneDevice'
  BY <1>9 DEF EnrollmentInv, OneDevice
<1>18. EnrolledCompleted'
  BY <1>6 DEF EnrollmentInv, EnrolledCompleted
<1>19. Advances
  <2>1. \A s \in Ids : Rank(session[s].status) \in 1 .. 7
    BY <1>1, Elements, Ranks DEF Session
  <2> QED  BY <1>6, <2>1 DEF Advances
<1>20. Logged
  BY <1>6 DEF Logged, Ids
<1>21. SameKinds
  BY <1>6 DEF SameKinds
<1> QED  BY <1>7, <1>8, <1>11, <1>12, <1>13, <1>14, <1>15, <1>16, <1>17, <1>18, <1>19, <1>20, <1>21
         DEF Sound, EnrollmentInv

Called(r, t) == [r EXCEPT !.status = "ACCOUNT_DRIVEN_AUTHENTICATED", !.user = TRUE, !.token = t]

LEMMA UserCallbackSound ==
    ASSUME EnrollmentAssumption, EnrollmentInv, NEW d \in Devices, UserCallback(d)
    PROVE  Sound
<1> DEFINE row == Called(Row(d), NewToken)
<1>1. /\ Here(d, "login") /\ ~Here(d, "waiting") /\ enrollment.type = "USER"
      /\ Row(d).status = "ACCOUNT_DRIVEN_START"
      /\ Post(d, "callback", row)
      /\ UNCHANGED <<admin, tables, overwritten, browser, faults>>
  BY DEF UserCallback, CanCallBack, Here, Called
<1>2. attempt[d].session \in Ids /\ Row(d).account
  BY <1>1 DEF EnrollmentInv, HeldSessions
<1>3. Row(d) \in Session
  BY <1>2, Elements DEF EnrollmentInv, Row
<1>4. NewToken \in Nat
  BY NewTokenTyped DEF EnrollmentInv
<1>5. \A r \in Session, t \in Nat :
         /\ Called(r, t) \in Session /\ Called(r, t).status = "ACCOUNT_DRIVEN_AUTHENTICATED"
         /\ Called(r, t).user /\ Called(r, t).account = r.account
         /\ Called(r, t).enrolled = r.enrolled
  BY DEF Session, Called, Statuses
<1>6. /\ row \in Session /\ row.status = "ACCOUNT_DRIVEN_AUTHENTICATED"
      /\ row.user /\ row.account = Row(d).account /\ row.enrolled = Row(d).enrolled
  BY <1>3, <1>4, <1>5
<1> HIDE DEF row
<1>7. Rank(row.status) >= Rank(Row(d).status)
  BY <1>1, <1>6, Ranks
<1> QED  BY <1>1, <1>2, <1>6, <1>7, PostSound

LEMMA EnrollUserSessionSound ==
    ASSUME EnrollmentAssumption, EnrollmentInv, NEW d \in Devices, EnrollUserSession(d)
    PROVE  Sound
<1> DEFINE row == [Row(d) EXCEPT !.status = "STARTED"]
<1>1. /\ Here(d, "token") /\ ~Here(d, "waiting")
      /\ Row(d).status = "ACCOUNT_DRIVEN_AUTHENTICATED"
      /\ Post(d, "enroll", row)
      /\ UNCHANGED <<admin, tables, overwritten, browser, faults>>
  BY DEF EnrollUserSession, CanStart, Here
<1>2. attempt[d].session \in Ids /\ Row(d).account
  BY <1>1 DEF EnrollmentInv, HeldSessions, Here
<1>3. Row(d) \in Session
  BY <1>2, Elements DEF EnrollmentInv, Row
<1>4. "STARTED" \in Statuses
  BY DEF Statuses
<1>5. /\ row \in Session /\ row.status = "STARTED"
      /\ row.account = Row(d).account /\ row.user = Row(d).user /\ row.enrolled = Row(d).enrolled
  BY <1>3, <1>4, StatusSet
<1> HIDE DEF row
<1>6. Row(d).user
  BY <1>1, <1>2 DEF EnrollmentInv, AccountSessions, Row
<1>7. Rank(row.status) >= Rank(Row(d).status)
  BY <1>1, <1>5, Ranks
<1> QED  BY <1>1, <1>2, <1>5, <1>6, <1>7, PostSound

\* What the device of a post holds when it does not wait any longer.
LEMMA AnsweredTyped ==
    ASSUME EnrollmentAssumption, TypeOK, NEW p \in posts
    PROVE  /\ p.device \in Devices /\ p.session \in 0 .. MaxSessions
           /\ p.row \in Session /\ p.read \in Session
           /\ Held("mdm_scep", p.session) \in HeldThings
           /\ Held("url", p.session) \in HeldThings
           /\ [Held("token", p.session) EXCEPT !.token = p.row.token] \in HeldThings
           /\ Held("mdm_scep", p.session).item = "mdm_scep"
           /\ Held("mdm_scep", p.session).session = p.session
           /\ Held("url", p.session).item = "url"
           /\ Held("url", p.session).session = p.session
           /\ [Held("token", p.session) EXCEPT !.token = p.row.token].item = "token"
           /\ [Held("token", p.session) EXCEPT !.token = p.row.token].session = p.session
<1>1. p \in Posts
  BY DEF TypeOK
<1>2. /\ p.device \in Devices /\ p.session \in 0 .. MaxSessions
      /\ p.row \in Session /\ p.read \in Session
  BY <1>1 DEF Posts, EnrollmentAssumption
<1>3. p.row.token \in Nat
  BY <1>2 DEF Session
<1> QED  BY <1>2, <1>3 DEF Held, HeldThings, Items

\* The parts of the invariant that only depend on what the devices hold, when
\* the device of a post leaves its page for something of the same session.
LEMMA AnsweredDevice ==
    ASSUME EnrollmentAssumption, EnrollmentInv, NEW p \in posts,
           NEW h \in HeldThings, h.item \in {"mdm_scep", "token", "url"}, h.session = p.session,
           attempt' = attempt \/ (~p.lost /\ attempt' = [attempt EXCEPT ![p.device] = h]),
           Len(session') = Len(session), enrollment' = enrollment,
           \A s \in Ids : session'[s].account = session[s].account
    PROVE  /\ attempt' \in [Devices -> HeldThings]
           /\ \A e \in Devices :
                 /\ attempt'[e].session = attempt[e].session
                 /\ \/ attempt'[e] = attempt[e]
                    \/ ~p.lost /\ e = p.device /\ attempt'[e].item \in {"mdm_scep", "token", "url"}
           /\ HeldSessions' /\ OneDevice'
<1>1. attempt \in [Devices -> HeldThings] /\ p.device \in Devices
  BY Tables, AnsweredTyped DEF EnrollmentInv
<1>2. ~p.lost => attempt[p.device].session = p.session
  BY DEF EnrollmentInv, WaitingPosts
<1>3. p.session \in Ids /\ session[p.session].account
  BY DEF EnrollmentInv, PostedRows
<1>4. attempt' \in [Devices -> HeldThings]
  BY <1>1
<1>5. \A e \in Devices :
         /\ attempt'[e].session = attempt[e].session
         /\ \/ attempt'[e] = attempt[e]
            \/ ~p.lost /\ e = p.device /\ attempt'[e] = h
  BY <1>1, <1>2
<1>6. Ids' = Ids
  BY DEF Ids
<1>7. HeldSessions'
  <2> SUFFICES ASSUME NEW e \in Devices
               PROVE  HeldSessions!(e)'
    BY DEF HeldSessions
  <2>1. CASE attempt'[e] = attempt[e]
    BY <1>6, <2>1 DEF EnrollmentInv, HeldSessions, Here, Row
  <2>2. CASE ~p.lost /\ e = p.device /\ attempt'[e] = h
    <3>1. p.session \in 0 .. Len(session)
      BY <1>2, <2>2 DEF EnrollmentInv, HeldSessions
    <3> QED  BY <1>3, <1>6, <2>2, <3>1 DEF Here, Row
  <2> QED  BY <1>5, <2>1, <2>2
<1>8. OneDevice'
  BY <1>5 DEF EnrollmentInv, OneDevice
<1> QED  BY <1>4, <1>5, <1>7, <1>8

\* The second part: the row is saved, whatever it has become.
LEMMA SavePostSound ==
    ASSUME EnrollmentAssumption, EnrollmentInv, NEW p \in posts, SavePost(p)
    PROVE  Sound
<1> DEFINE i == p.session
           h == IF p.handler = "enroll" THEN Held("mdm_scep", p.session)
                ELSE [Held("token", p.session) EXCEPT !.token = p.row.token]
<1>1. TypeOK
  BY DEF EnrollmentInv
<1>2. /\ p.device \in Devices /\ p.row \in Session /\ p.read \in Session
      /\ h \in HeldThings /\ h.item \in {"mdm_scep", "token"} /\ h.session = i
  BY <1>1, AnsweredTyped
<1>3. /\ attempt' = IF p.lost THEN attempt ELSE [attempt EXCEPT ![p.device] = h]
      /\ session' = [session EXCEPT ![i] = p.row]
      /\ overwritten' = overwritten \cup (IF session[i] = p.read THEN {} ELSE {i})
      /\ posts' = posts \ {p}
      /\ UNCHANGED <<enrollment, forms, saved, edits, key, enrolled, browser, faults>>
  BY DEF SavePost, admin
<1> HIDE DEF h
<1>4. /\ i \in Ids /\ session[i].account /\ p.row.account /\ p.row.user
      /\ p.read.status # "COMPLETED" /\ p.row.enrolled = p.read.enrolled
      /\ Rank(p.row.status) >= Rank(p.read.status)
  BY DEF EnrollmentInv, PostedRows
<1>5. /\ session \in Seq(Session) /\ Ids = 1 .. Len(session)
  BY <1>1, Tables DEF Ids
<1>6. /\ session' \in Seq(Session) /\ Len(session') = Len(session) /\ Ids' = Ids
      /\ session'[i] = p.row
      /\ \A s \in Ids \ {i} : session'[s] = session[s]
  <2> HIDE DEF i
  <2>1. /\ session' \in Seq(Session) /\ Len(session') = Len(session)
        /\ \A s \in 1 .. Len(session) : session'[s] = IF s = i THEN p.row ELSE session[s]
    BY <1>2, <1>3, <1>4, <1>5, RowSet
  <2> QED  BY <1>4, <1>5, <2>1 DEF Ids
<1>7. \A s \in Ids : session'[s].account = session[s].account
  <2>1. p.row.account \in BOOLEAN /\ session[i].account \in BOOLEAN
    BY <1>1, <1>2, <1>4, Elements DEF Session
  <2>2. p.row.account = session[i].account
    BY <1>4, <2>1
  <2> QED  BY <1>6, <2>2
<1>8. attempt' = attempt \/ (~p.lost /\ attempt' = [attempt EXCEPT ![p.device] = h])
  BY <1>3
<1>9. /\ attempt' \in [Devices -> HeldThings]
      /\ \A e \in Devices :
            /\ attempt'[e].session = attempt[e].session
            /\ \/ attempt'[e] = attempt[e]
               \/ ~p.lost /\ e = p.device /\ attempt'[e].item \in {"mdm_scep", "token", "url"}
      /\ HeldSessions' /\ OneDevice'
  <2>1. enrollment' = enrollment
    BY <1>3
  <2> QED  BY <1>2, <1>6, <1>7, <1>8, <2>1, AnsweredDevice
<1>10. TypeOK'
  <2>1. secret' \in Secrets /\ requests' \in Nat
    <3>1. CASE p.handler = "enroll"
      BY <1>1, <3>1, CountedRequest DEF SavePost
    <3>2. CASE p.handler # "enroll"
      BY <1>1, <3>2, Tables DEF SavePost
    <3> QED  BY <3>1, <3>2
  <2>2. overwritten' \subseteq 1 .. MaxSessions
    <3>1. i \in 1 .. MaxSessions
      BY <1>1, <1>4, Elements
    <3> QED  BY <1>1, <1>3, <3>1 DEF TypeOK
  <2>3. posts' \subseteq Posts
    BY <1>1, <1>3 DEF TypeOK
  <2> QED  BY <1>1, <1>3, <1>6, <1>9, <2>1, <2>2, <2>3 DEF TypeOK, HeldThings
<1>11. IsFiniteSet(posts)'
  BY <1>3, FS_RemoveElement DEF EnrollmentInv
<1>12. AccountSessions'
  <2>1. \A s \in Ids' : /\ session'[s].account => enrollment'.type = "USER"
                        /\ session'[s].status = "ACCOUNT_DRIVEN_AUTHENTICATED" => session'[s].user
    BY <1>3, <1>4, <1>6, <1>7 DEF EnrollmentInv, AccountSessions
  <2> QED  BY <1>6, <1>7, <1>9, <2>1 DEF EnrollmentInv, AccountSessions, Row
<1>13. PostedRows'
  BY <1>3, <1>6, <1>7 DEF EnrollmentInv, PostedRows
<1>14. WaitingPosts'
  <2>1. \A q \in posts : q.device \in Devices
    BY <1>1 DEF TypeOK, Posts
  <2>2. \A q \in posts \ {p} : ~q.lost => attempt'[q.device] = attempt[q.device]
    BY <1>9, <2>1 DEF EnrollmentInv, WaitingPosts
  <2> QED  BY <1>3, <2>2 DEF EnrollmentInv, WaitingPosts, Here
<1>15. session[i] # p.read => i \in overwritten'
  BY <1>3
<1>16. Certificates'
  <2> SUFFICES ASSUME NEW e \in Devices
               PROVE  Certificates!(e)'
    BY DEF Certificates
  <2>1. CASE attempt'[e] # attempt[e]
    BY <1>9, <2>1
  <2>2. CASE attempt'[e] = attempt[e] /\ attempt[e].session # i
    <3>1. attempt[e].item \in {"mdm_cert", "authenticated", "enrolled"} =>
             attempt[e].session \in Ids
      BY DEF EnrollmentInv, HeldSessions
    <3> QED  BY <1>3, <1>6, <2>2, <3>1 DEF EnrollmentInv, Certificates, Row
  <2>3. CASE attempt'[e] = attempt[e] /\ attempt[e].session = i
    <3>1. Row(e) = session[i] /\ Row(e)' = p.row
      BY <1>6, <2>3 DEF Row
    <3> QED  BY <1>3, <1>4, <1>15, <2>3, <3>1 DEF EnrollmentInv, Certificates
  <2> QED  BY <2>1, <2>2, <2>3
<1>17. (RequestsOnce /\ QuotaSuffices /\ RequestsRecorded)'
  BY <1>3, <1>4, <1>6 DEF EnrollmentInv, RequestsOnce, QuotaSuffices, RequestsRecorded
<1>18. EnrolledCompleted'
  <2> SUFFICES ASSUME NEW e \in Devices, enrolled'[e] = "token"
               PROVE  \E s \in Ids' : \/ s \in overwritten'
                                      \/ session'[s].status = "COMPLETED" /\ session'[s].enrolled = e
    BY DEF EnrolledCompleted
  <2>1. enrolled[e] = "token"
    BY <1>3
  <2>2. PICK s \in Ids : \/ s \in overwritten
                         \/ session[s].status = "COMPLETED" /\ session[s].enrolled = e
    BY <2>1 DEF EnrollmentInv, EnrolledCompleted
  <2>3. s \in overwritten' \/ s # i
    BY <1>3, <1>4, <1>15, <2>2
  <2> QED  BY <1>3, <1>6, <2>2, <2>3
<1>19. Advances
  <2>1. \A s \in Ids : Rank(session[s].status) \in 1 .. 7
    BY <1>1, Elements, Ranks DEF Session
  <2>2. Rank(p.row.status) \in 1 .. 7
    BY <1>2, Ranks DEF Session
  <2> QED  BY <1>4, <1>6, <1>15, <2>1, <2>2 DEF Advances
<1>20. Logged
  BY <1>4, <1>5, <1>6 DEF Logged
<1>21. SameKinds
  BY <1>4, <1>6, <1>7 DEF SameKinds, EnrollmentInv, AccountSessions
<1> QED  BY <1>9, <1>10, <1>11, <1>12, <1>13, <1>14, <1>16, <1>17, <1>18, <1>19, <1>20, <1>21
         DEF Sound, EnrollmentInv

LEMMA TimeOutSound ==
    ASSUME EnrollmentAssumption, EnrollmentInv, NEW p \in posts, TimeOut(p)
    PROVE  Sound
<1> DEFINE h == IF p.handler = "enroll"
                THEN [Held("token", p.session) EXCEPT !.token = p.row.token]
                ELSE Held("url", p.session)
           new == [p EXCEPT !.lost = TRUE]
<1>1. TypeOK
  BY DEF EnrollmentInv
<1>2. /\ p.device \in Devices
      /\ h \in HeldThings /\ h.item \in {"url", "token"} /\ h.session = p.session
  BY <1>1, AnsweredTyped
<1>3. /\ ~p.lost /\ faults < MaxFaults /\ faults' = faults + 1
      /\ posts' = (posts \ {p}) \cup {new}
      /\ attempt' = [attempt EXCEPT ![p.device] = h]
      /\ UNCHANGED <<admin, tables, overwritten, browser>>
  BY DEF TimeOut
<1>4. /\ new \in Posts /\ new.lost /\ new.session = p.session
      /\ new.row = p.row /\ new.read = p.read
  <2>1. p \in Posts
    BY <1>1 DEF TypeOK
  <2> QED  BY <2>1 DEF Posts
<1> HIDE DEF h, new
<1>5. /\ UNCHANGED <<enrollment, forms, saved, edits, secret, requests, session, key, enrolled>>
      /\ UNCHANGED <<overwritten, browser>> /\ Ids' = Ids
  BY <1>3 DEF admin, tables, Ids
<1>6. /\ attempt' \in [Devices -> HeldThings]
      /\ \A e \in Devices :
            /\ attempt'[e].session = attempt[e].session
            /\ \/ attempt'[e] = attempt[e]
               \/ ~p.lost /\ e = p.device /\ attempt'[e].item \in {"mdm_scep", "token", "url"}
      /\ HeldSessions' /\ OneDevice'
  BY <1>2, <1>3, <1>5, AnsweredDevice
<1>7. TypeOK'
  <2>1. faults' \in 0 .. MaxFaults
    BY <1>1, <1>3, Tables DEF EnrollmentAssumption
  <2>2. posts' \subseteq Posts
    BY <1>1, <1>3, <1>4 DEF TypeOK
  <2> QED  BY <1>1, <1>5, <1>6, <2>1, <2>2 DEF TypeOK, HeldThings
<1>8. IsFiniteSet(posts)'
  <2>1. IsFiniteSet(posts \ {p})
    BY FS_RemoveElement DEF EnrollmentInv
  <2> QED  BY <1>3, <2>1, FS_AddElement
<1>9. AccountSessions'
  BY <1>5, <1>6 DEF EnrollmentInv, AccountSessions, Row
<1>10. PostedRows'
  BY <1>3, <1>4, <1>5 DEF EnrollmentInv, PostedRows
<1>11. WaitingPosts'
  <2>1. \A q \in posts : q.device \in Devices
    BY <1>1 DEF TypeOK, Posts
  <2>2. \A q \in posts \ {p} : ~q.lost => attempt'[q.device] = attempt[q.device]
    BY <1>3, <1>6, <2>1 DEF EnrollmentInv, WaitingPosts
  <2> QED  BY <1>3, <1>4, <2>2 DEF EnrollmentInv, WaitingPosts, Here
<1>12. Certificates'
  BY <1>5, <1>6 DEF EnrollmentInv, Certificates, Row
<1>13. (RequestsOnce /\ QuotaSuffices /\ RequestsRecorded)'
  BY <1>5 DEF EnrollmentInv, RequestsOnce, QuotaSuffices, RequestsRecorded
<1>14. EnrolledCompleted'
  BY <1>5 DEF EnrollmentInv, EnrolledCompleted
<1>15. Advances
  <2>1. \A s \in Ids : Rank(session[s].status) \in 1 .. 7
    BY <1>1, Elements, Ranks DEF Session
  <2> QED  BY <1>5, <2>1 DEF Advances
<1>16. Logged
  BY <1>5 DEF Logged, Ids
<1>17. SameKinds
  BY <1>5 DEF SameKinds
<1> QED  BY <1>6, <1>7, <1>8, <1>9, <1>10, <1>11, <1>12, <1>13, <1>14, <1>15, <1>16, <1>17
         DEF Sound, EnrollmentInv

-----------------------------------------------------------------------------
(* The theorems.                                                            *)

LEMMA InitInv == EnrollmentAssumption /\ Init => EnrollmentInv
<1> SUFFICES ASSUME EnrollmentAssumption, Init
             PROVE  EnrollmentInv
  OBVIOUS
<1> DEFINE nobody == {}
           empty == <<>>
<1>1. /\ session = empty /\ key = empty /\ posts = nobody /\ browser = nobody
      /\ overwritten = nobody
  BY DEF Init
<1>2. /\ Len(empty) = 0 /\ empty \in Seq(Session) /\ empty \in Seq(Secrets)
      /\ nobody \in SUBSET Posts /\ nobody \in SUBSET (Devices \X (0 .. MaxSessions))
      /\ nobody \in SUBSET (1 .. MaxSessions)
  OBVIOUS
<1>3. PICK quota \in Quotas :
         secret = NewSecret(IF enrollment.type = "DEP" THEN 0 ELSE quota, NoDevice)
  BY DEF Init
<1>4. secret \in Secrets
  <2>1. quota \in Nat /\ 0 \in Nat
    BY DEF EnrollmentAssumption
  <2>2. (IF enrollment.type = "DEP" THEN 0 ELSE quota) \in Nat
    BY <2>1
  <2> QED  BY <1>3, <2>2, NewSecretTyped
<1>5. /\ Nothing \in HeldThings /\ Nothing.item = "none" /\ Nothing.session = 0
  BY HeldTyped DEF Nothing, Items, EnrollmentAssumption
<1>6. attempt \in [Devices -> HeldThings] /\ \A d \in Devices : attempt[d] = Nothing
  BY <1>5 DEF Init
<1>7. /\ enrolled \in EnrolledTable /\ \A d \in Devices : enrolled[d] = "absent"
  BY DEF Init, EnrolledTable
<1>8. /\ edits \in 0 .. MaxEdits /\ faults \in 0 .. MaxFaults /\ requests \in Nat
      /\ forms = {} /\ MaxSessions \in Nat
      /\ enrollment \in [type : {"OTA", "DEP", "USER"}, realm : BOOLEAN, ldap : BOOLEAN]
  <2>1. edits = 0 /\ faults = 0 /\ requests = 0 /\ forms = {}
    BY DEF Init
  <2>2. enrollment \in [type : {"OTA", "DEP", "USER"}, realm : BOOLEAN, ldap : BOOLEAN]
    BY DEF Init
  <2> QED  BY <2>1, <2>2 DEF EnrollmentAssumption
<1>8a. saved \in BOOLEAN
  BY DEF Init
<1>9. Ids = {} /\ posts = {}
  BY <1>1, <1>2 DEF Ids
<1> HIDE DEF nobody, empty
<1>10. TypeOK
  <2>1. Len(session) \in 0 .. MaxSessions /\ Len(key) = Len(session)
    BY <1>1, <1>2, <1>8
  <2> QED  BY <1>1, <1>2, <1>4, <1>6, <1>7, <1>8, <1>8a, <2>1
           DEF TypeOK, HeldThings, EnrolledTable
<1>11. IsFiniteSet(posts)
  BY <1>9, FS_EmptySet
<1>12. HeldSessions
  <2>1. 0 \in 0 .. Len(session)
    BY <1>1, <1>2
  <2> QED  BY <1>5, <1>6, <2>1 DEF HeldSessions, Here
<1>13. AccountSessions /\ PostedRows /\ WaitingPosts
  BY <1>5, <1>6, <1>9 DEF AccountSessions, PostedRows, WaitingPosts
<1>14. Certificates /\ OneDevice
  BY <1>5, <1>6 DEF Certificates, OneDevice
<1>15. RequestsOnce /\ QuotaSuffices /\ RequestsRecorded /\ EnrolledCompleted
  BY <1>7, <1>9 DEF RequestsOnce, QuotaSuffices, RequestsRecorded, EnrolledCompleted
<1> QED  BY <1>10, <1>11, <1>12, <1>13, <1>14, <1>15 DEF EnrollmentInv

LEMMA NextSound ==
    ASSUME EnrollmentAssumption, EnrollmentInv, Next
    PROVE  Sound
<1>1. CASE OpenForm \/ Revoke \/ \E f \in forms : SaveForm(f)
  BY <1>1, OpenFormSound, SaveFormSound, RevokeSound
<1>2. CASE \E s \in Ids : Expire(s)
  BY <1>2, ExpireSound
<1>3. ASSUME NEW d \in Devices, Device(d)
      PROVE  Sound
  <2>1. CASE DownloadPayload(d) \/ OTAWebLogin(d) \/ DEPWebEnroll(d) \/ DEPProfile(d)
             \/ AuthenticateUser(d) \/ Refused(d)
    BY <2>1, DownloadPayloadSound, OTAWebLoginSound, DEPWebEnrollSound, DEPProfileSound,
       AuthenticateUserSound, RefusedSound
  <2>2. CASE OTAEnroll(d) \/ OTAWebEnroll(d) \/ DEPEnroll(d) \/ FinalizeLogin(d)
             \/ UserForm(d) \/ EnrollUser(d)
    BY <2>2, OTAEnrollSound, OTAWebEnrollSound, DEPEnrollSound, FinalizeLoginSound,
       UserFormSound, EnrollUserSound
  <2>3. CASE OTAEnrollSession(d) \/ OTAPhase3(d) \/ VerifySCEPCSR(d) \/ Authenticate(d)
             \/ TokenUpdate(d)
    BY <2>3, OTAEnrollSessionSound, OTAPhase3Sound, VerifySCEPCSRSound, AuthenticateSound,
       TokenUpdateSound
  <2>4. CASE UserCallback(d) \/ EnrollUserSession(d)
    BY <2>4, UserCallbackSound, EnrollUserSessionSound
  <2> QED  BY <1>3, <2>1, <2>2, <2>3, <2>4 DEF Device
<1>4. CASE \E d \in Devices : Device(d) \/ CheckOut(d) \/ Wipe(d)
  BY <1>3, <1>4, CheckOutSound, WipeSound
<1>5. CASE \E d, e \in Devices : Copy(d, e)
  BY <1>5, CopySound
<1>6. CASE \E p \in posts : SavePost(p) \/ TimeOut(p)
  BY <1>6, SavePostSound, TimeOutSound
<1> QED  BY <1>1, <1>2, <1>4, <1>5, <1>6 DEF Next

LEMMA StutterSound ==
    ASSUME EnrollmentAssumption, EnrollmentInv, UNCHANGED vars
    PROVE  EnrollmentInv'
<1>1. UNCHANGED <<lockfree, session, key, enrolled, attempt, enrollment>>
  BY DEF vars, tables, admin
<1>2. TypeOK'
  BY DEF EnrollmentInv, TypeOK, vars, tables, admin, lockfree
<1> QED  BY <1>1, <1>2, AdminStep DEF Sound

\* What a device holds agrees with the session it is of, and the posted rows
\* with the sessions they will be saved over (models.py, views/user.py).
THEOREM EnrollmentInvariant == Spec => []EnrollmentInv
<1>1. Init => EnrollmentInv
  BY InitInv, EnrollmentAssumption
<1>2. EnrollmentInv /\ [Next]_vars => EnrollmentInv'
  BY NextSound, StutterSound, EnrollmentAssumption DEF Sound
<1> QED  BY <1>1, <1>2, PTL DEF Spec

\* The variables keep their types: the statuses of the sessions, what a device
\* holds and the rows that are posted are ones that the program knows.
THEOREM EnrollmentTypes == Spec => []TypeOK
<1>1. EnrollmentInv => TypeOK
  BY DEF EnrollmentInv
<1> QED  BY EnrollmentInvariant, <1>1, PTL

\* Two devices never have certificates of the same session (models.py,
\* set_phase2_status and the quotas of the secrets).
THEOREM DeviceOfSession == Spec => []OneDevice
<1>1. EnrollmentInv => OneDevice
  BY DEF EnrollmentInv
<1> QED  BY EnrollmentInvariant, <1>1, PTL

\* The quota of the secret of a session never refuses a verification that the
\* session still needs (models.py:303, 323, 712 and 849).
THEOREM QuotaOfSession == Spec => []QuotaSuffices
<1>1. EnrollmentInv => QuotaSuffices
  BY DEF EnrollmentInv
<1> QED  BY EnrollmentInvariant, <1>1, PTL

\* The requests of a session are the verifications of its secret (models.py,
\* set_phase2_status).
THEOREM RequestsOfSession == Spec => []RequestsRecorded
<1>1. EnrollmentInv => RequestsRecorded
  BY DEF EnrollmentInv
<1> QED  BY EnrollmentInvariant, <1>1, PTL

\* A device that can be notified has completed a session (views/mdm.py,
\* do_token_update).
THEOREM SessionOfDevice == Spec => []EnrolledCompleted
<1>1. EnrollmentInv => EnrolledCompleted
  BY DEF EnrollmentInv
<1> QED  BY EnrollmentInvariant, <1>1, PTL

\* No step takes a session back or gives it to another device, but the one
\* that saves an outdated row over it (views/user.py:80).
THEOREM SessionsForward == Spec => Forward
<1>1. ASSUME EnrollmentInv, [Next]_vars
      PROVE  [\A s \in Ids :
                \/ s \in overwritten'
                \/ /\ Rank(session'[s].status) >= Rank(session[s].status)
                   /\ session[s].enrolled # NoDevice =>
                         session'[s].enrolled = session[s].enrolled]_vars
  BY <1>1, NextSound, EnrollmentAssumption DEF Sound, Advances
<1> QED  BY <1>1, EnrollmentInvariant, PTL DEF Spec, Forward

\* No step starts a session without a login, once the enrollment has a realm
\* (views/ota.py:95, views/dep.py:66).
THEOREM SessionsLogged == Spec => LoginRequired
<1>1. ASSUME EnrollmentInv, [Next]_vars
      PROVE  [\A s \in 1 .. Len(session') :
                /\ enrollment.realm
                /\ enrollment.type # "USER" \/ session'[s].account
                /\ s \notin Ids \/ session'[s].status # session[s].status
                /\ session'[s].status \in {"PHASE_1", "STARTED"}
                => session'[s].user]_vars
  BY <1>1, NextSound, EnrollmentAssumption DEF Sound, Logged
<1> QED  BY <1>1, EnrollmentInvariant, PTL DEF Spec, LoginRequired

-----------------------------------------------------------------------------
(* The sessions are counted by the secret of the enrollment.                *)

CountedRows == {s \in Ids : CountedSession(s)}
SameSecret == saved' \/ secret'.count = requests'
SameEnrollment == enrollment'.type = enrollment.type /\ enrollment'.ldap = enrollment.ldap

LEMMA CountedFinite ==
    ASSUME EnrollmentAssumption, TypeOK
    PROVE  IsFiniteSet(CountedRows) /\ Cardinality(CountedRows) \in Nat
<1>1. Len(session) \in Nat
  BY Elements
<1>2. IsFiniteSet(Ids)
  BY <1>1, FS_Interval DEF Ids
<1>3. IsFiniteSet(CountedRows)
  BY <1>2, FS_Subset DEF CountedRows
<1> QED  BY <1>3, FS_CardinalityType

LEMMA AtMostOneMore ==
    ASSUME NEW S, NEW T, NEW x, IsFiniteSet(S), T \subseteq S \cup {x}
    PROVE  /\ IsFiniteSet(T) /\ Cardinality(T) \in Nat
           /\ Cardinality(T) <= Cardinality(S) + 1
<1>1. IsFiniteSet(S \cup {x}) /\ Cardinality(S \cup {x}) <= Cardinality(S) + 1
  <2>1. Cardinality(S) \in Nat
    BY FS_CardinalityType
  <2>2. /\ IsFiniteSet(S \cup {x})
        /\ Cardinality(S \cup {x}) = IF x \in S THEN Cardinality(S) ELSE Cardinality(S) + 1
    BY FS_AddElement
  <2> QED  BY <2>1, <2>2
<1>2. IsFiniteSet(T) /\ Cardinality(T) <= Cardinality(S \cup {x})
  BY <1>1, FS_Subset
<1> QED  BY <1>1, <1>2, FS_CardinalityType

\* A step that creates no counted session and no login.
LEMMA CountedKept ==
    ASSUME EnrollmentAssumption, TypeOK, TypeOK', CountedInv, SameSecret,
           CountedRows' \subseteq CountedRows, Logins' \subseteq Logins, requests' >= requests
    PROVE  CountedInv'
<1>1. IsFiniteSet(CountedRows) /\ IsFiniteSet(Logins)
  BY CountedFinite DEF CountedInv
<1>2. /\ IsFiniteSet(Logins') /\ Cardinality(Logins') <= Cardinality(Logins)
      /\ Cardinality(Logins') \in Nat /\ Cardinality(Logins) \in Nat
  BY <1>1, FS_Subset, FS_CardinalityType
<1>3. /\ Cardinality(CountedRows') <= Cardinality(CountedRows)
      /\ Cardinality(CountedRows') \in Nat /\ Cardinality(CountedRows) \in Nat
  BY <1>1, FS_Subset, FS_CardinalityType
<1>4. requests \in Nat /\ requests' \in Nat
  BY DEF TypeOK
<1>5. Cardinality(CountedRows) + Cardinality(Logins) <= requests
  BY DEF CountedInv, CountedRows
<1>6. Cardinality(CountedRows') + Cardinality(Logins') <= requests'
  BY <1>2, <1>3, <1>4, <1>5
<1> QED  BY <1>2, <1>6 DEF CountedInv, CountedRows, SameSecret

\* A request that is counted, and creates one session or one login.
LEMMA CountedOnce ==
    ASSUME EnrollmentAssumption, TypeOK, TypeOK', CountedInv, SameSecret, requests' = requests + 1,
           NEW x,
           \/ CountedRows' \subseteq CountedRows \cup {x} /\ Logins' \subseteq Logins
           \/ CountedRows' \subseteq CountedRows /\ Logins' \subseteq Logins \cup {x}
    PROVE  CountedInv'
<1>1. IsFiniteSet(CountedRows) /\ IsFiniteSet(Logins)
  BY CountedFinite DEF CountedInv
<1>2. Cardinality(CountedRows) \in Nat /\ Cardinality(Logins) \in Nat /\ requests \in Nat
  BY <1>1, FS_CardinalityType DEF TypeOK
<1>3. Cardinality(CountedRows) + Cardinality(Logins) <= requests
  BY DEF CountedInv, CountedRows
<1>4. /\ IsFiniteSet(Logins')
      /\ Cardinality(CountedRows') \in Nat /\ Cardinality(Logins') \in Nat
      /\ Cardinality(CountedRows') + Cardinality(Logins') <=
            Cardinality(CountedRows) + Cardinality(Logins) + 1
  <2>1. CASE CountedRows' \subseteq CountedRows \cup {x} /\ Logins' \subseteq Logins
    <3>1. IsFiniteSet(Logins') /\ Cardinality(Logins') <= Cardinality(Logins)
      BY <1>1, <2>1, FS_Subset
    <3>2. /\ Cardinality(CountedRows') \in Nat
          /\ Cardinality(CountedRows') <= Cardinality(CountedRows) + 1
      BY <1>1, <2>1, AtMostOneMore
    <3>3. Cardinality(Logins') \in Nat
      BY <3>1, FS_CardinalityType
    <3> QED  BY <1>2, <3>1, <3>2, <3>3
  <2>2. CASE CountedRows' \subseteq CountedRows /\ Logins' \subseteq Logins \cup {x}
    <3>1. IsFiniteSet(CountedRows') /\ Cardinality(CountedRows') <= Cardinality(CountedRows)
      BY <1>1, <2>2, FS_Subset
    <3>2. /\ IsFiniteSet(Logins') /\ Cardinality(Logins') \in Nat
          /\ Cardinality(Logins') <= Cardinality(Logins) + 1
      BY <1>1, <2>2, AtMostOneMore
    <3>3. Cardinality(CountedRows') \in Nat
      BY <3>1, FS_CardinalityType
    <3> QED  BY <1>2, <3>1, <3>2, <3>3
  <2> QED  BY <2>1, <2>2
<1>5. Cardinality(CountedRows') + Cardinality(Logins') <= requests'
  BY <1>2, <1>3, <1>4
<1> QED  BY <1>4, <1>5 DEF CountedInv, CountedRows, SameSecret

\* The session of a login that has been counted.
LEMMA CountedBefore ==
    ASSUME EnrollmentAssumption, TypeOK, TypeOK', CountedInv, SameSecret, requests' = requests,
           NEW x, NEW d \in Logins,
           CountedRows' \subseteq CountedRows \cup {x}, Logins' \subseteq Logins \ {d}
    PROVE  CountedInv'
<1>1. IsFiniteSet(CountedRows) /\ IsFiniteSet(Logins)
  BY CountedFinite DEF CountedInv
<1>2. Cardinality(CountedRows) \in Nat /\ Cardinality(Logins) \in Nat
  BY <1>1, FS_CardinalityType
<1>3. IsFiniteSet(Logins \ {d}) /\ Cardinality(Logins \ {d}) = Cardinality(Logins) - 1
  BY <1>1, FS_RemoveElement
<1>4. /\ IsFiniteSet(Logins') /\ Cardinality(Logins') <= Cardinality(Logins \ {d})
  BY <1>3, FS_Subset
<1>5. /\ Cardinality(CountedRows') \in Nat /\ Cardinality(Logins') \in Nat
      /\ Cardinality(CountedRows') <= Cardinality(CountedRows) + 1
  BY <1>1, <1>4, AtMostOneMore, FS_CardinalityType
<1>6. Cardinality(CountedRows) + Cardinality(Logins) <= requests /\ requests \in Nat
  BY DEF CountedInv, CountedRows, TypeOK
<1>7. Cardinality(CountedRows') + Cardinality(Logins') <= requests'
  BY <1>2, <1>3, <1>4, <1>5, <1>6
<1> QED  BY <1>4, <1>7 DEF CountedInv, CountedRows, SameSecret

\* The sessions that exist stay counted, or not.
LEMMA SameRows ==
    ASSUME SameKinds, SameEnrollment
    PROVE  \A s \in Ids : CountedSession(s)' => CountedSession(s)
BY DEF SameKinds, SameEnrollment, CountedSession

LEMMA SecretKept ==
    ASSUME CountedInv, secret' = secret, requests' = requests, saved' = saved
    PROVE  SameSecret
BY DEF CountedInv, SameSecret

LEMMA SecretCounted ==
    ASSUME EnrollmentAssumption, TypeOK, CountedInv, CountRequest, saved' = saved
    PROVE  SameSecret /\ requests' = requests + 1 /\ requests' >= requests
<1>1. secret \in Secrets /\ requests \in Nat
  BY Tables
<1>2. secret'.count = secret.count + 1 /\ requests' = requests + 1
  BY <1>1, CountedTyped DEF CountRequest
<1> QED  BY <1>1, <1>2 DEF CountedInv, SameSecret

LEMMA Receives ==
    ASSUME EnrollmentAssumption, TypeOK, NEW d \in Devices, NEW h,
           Reply(d, h) \/ attempt' = [attempt EXCEPT ![d] = h]
    PROVE  OnlyHeld(d, h)
<1>1. attempt \in [Devices -> HeldThings]
  BY Tables
<1>2. CASE attempt' = attempt
  BY <1>2 DEF OnlyHeld
<1>3. CASE attempt' = [attempt EXCEPT ![d] = h]
  BY <1>1, <1>3 DEF OnlyHeld
<1> QED  BY <1>2, <1>3 DEF Reply

LEMMA LoginsKept ==
    ASSUME SameEnrollment, NEW d \in Devices, NEW h, OnlyHeld(d, h),
           h.item # "login" \/ enrollment.type # "DEP"
    PROVE  Logins' \subseteq Logins
BY DEF SameEnrollment, OnlyHeld, Logins, Here

LEMMA RowsKept ==
    ASSUME SameKinds, SameEnrollment, Ids' = Ids
    PROVE  CountedRows' \subseteq CountedRows
BY SameRows DEF CountedRows

LEMMA SameIds ==
    ASSUME TypeOK, TypeOK', NEW i, NEW row, session' = [session EXCEPT ![i] = row]
    PROVE  Ids' = Ids
<1>1. session \in Seq(Session) /\ session' \in Seq(Session)
  BY DEF TypeOK
<1>2. DOMAIN session' = DOMAIN session
  OBVIOUS
<1> QED  BY <1>1, <1>2 DEF Ids

\* The steps that leave the rows of the sessions and the requests.
LEMMA CountedSameSessions ==
    ASSUME EnrollmentAssumption, EnrollmentInv, CountedInv, Sound, SameEnrollment,
           session' = session, Logins' \subseteq Logins,
           UNCHANGED <<secret, requests, saved>>
    PROVE  CountedInv'
<1>1. TypeOK /\ TypeOK' /\ SameKinds /\ Ids' = Ids
  BY DEF EnrollmentInv, Sound, Ids
<1>2. CountedRows' \subseteq CountedRows
  BY <1>1, RowsKept
<1>3. requests' >= requests
  BY <1>1 DEF TypeOK
<1> QED  BY <1>1, <1>2, <1>3, SecretKept, CountedKept

LEMMA CountedAdmin ==
    ASSUME EnrollmentAssumption, EnrollmentInv, CountedInv, Sound,
           OpenForm \/ Revoke \/ (\E f \in forms : SaveForm(f)) \/ \E s \in Ids : Expire(s)
    PROVE  CountedInv'
<1>1. TypeOK /\ TypeOK' /\ SameKinds
  BY DEF EnrollmentInv, Sound
<1>2. session' = session /\ attempt' = attempt /\ requests' = requests
  BY DEF OpenForm, SaveForm, Revoke, Expire, tables
<1>3. SameEnrollment
  BY <1>1 DEF OpenForm, SaveForm, Revoke, Expire, admin, SameEnrollment, TypeOK
<1>4. SameSecret
  <2>1. CASE OpenForm
    BY <2>1, SecretKept DEF OpenForm, tables
  <2>2. ASSUME NEW f \in forms, SaveForm(f)
        PROVE  SameSecret
    <3>1. f \in Forms
      BY <1>1 DEF TypeOK
    <3>2. secret' = f.row /\ requests' = requests
      BY <2>2 DEF SaveForm
    <3>3. secret'.count = f.read.count
      BY <3>1, <3>2 DEF Forms
    <3>4. saved' \/ (~saved /\ secret = f.read)
      BY <2>2 DEF SaveForm
    <3> QED  BY <3>2, <3>3, <3>4 DEF CountedInv, SameSecret
  <2>3. CASE Revoke
    BY <2>3, SecretKept DEF Revoke, tables
  <2>4. CASE \E s \in Ids : Expire(s)
    BY <2>4, SecretKept DEF Expire, admin
  <2> QED  BY <2>1, <2>2, <2>3, <2>4
<1>5. Logins' \subseteq Logins
  BY <1>2, <1>3 DEF Logins, Here, SameEnrollment
<1>6. CountedRows' \subseteq CountedRows
  <2>1. Ids' = Ids
    BY <1>2 DEF Ids
  <2> QED  BY <1>1, <1>3, <2>1, RowsKept
<1>7. requests' >= requests
  BY <1>1, <1>2 DEF TypeOK
<1> QED  BY <1>1, <1>4, <1>5, <1>6, <1>7, CountedKept

LEMMA CountedHold ==
    ASSUME EnrollmentAssumption, EnrollmentInv, CountedInv, Sound, NEW d \in Devices,
           \/ DownloadPayload(d) \/ OTAWebLogin(d) \/ DEPProfile(d) \/ AuthenticateUser(d)
           \/ Refused(d) \/ UserCallback(d) \/ EnrollUserSession(d)
           \/ CheckOut(d) \/ Wipe(d) \/ \E e \in Devices : Copy(e, d)
    PROVE  CountedInv'
<1>1. TypeOK
  BY DEF EnrollmentInv
<1>2. UNCHANGED <<enrollment, saved, secret, requests, session>>
  BY DEF DownloadPayload, OTAWebLogin, DEPProfile, AuthenticateUser, Refused, UserCallback,
         EnrollUserSession, CheckOut, Wipe, Copy, admin, tables
<1>3. SameEnrollment
  BY <1>2 DEF SameEnrollment
<1>4. PICK h : /\ Reply(d, h) \/ attempt' = [attempt EXCEPT ![d] = h]
               /\ h.item # "login" \/ enrollment.type # "DEP"
  <2>1. CASE DownloadPayload(d)
    BY <2>1 DEF DownloadPayload, Held
  <2>2. CASE OTAWebLogin(d)
    BY <2>2 DEF OTAWebLogin
  <2>3. CASE DEPProfile(d)
    BY <2>3 DEF DEPProfile, Holding, Held
  <2>4. CASE AuthenticateUser(d)
    <3>1. Row(d).account /\ attempt[d].session \in Ids
      BY <2>4 DEF EnrollmentInv, HeldSessions, AuthenticateUser, Here
    <3>2. enrollment.type # "DEP"
      BY <3>1 DEF EnrollmentInv, AccountSessions, Row
    <3> QED  BY <2>4, <3>2 DEF AuthenticateUser
  <2>5. CASE Refused(d) \/ CheckOut(d) \/ Wipe(d)
    <3>1. attempt' = [attempt EXCEPT ![d] = Nothing]
      BY <2>5 DEF Refused, CheckOut, Wipe
    <3>2. Nothing.item # "login"
      BY DEF Nothing, Held
    <3> QED  BY <3>1, <3>2
  <2>6. CASE UserCallback(d) \/ EnrollUserSession(d)
    <3>1. attempt' = [attempt EXCEPT ![d] = Holding(d, "waiting")]
      BY <2>6 DEF UserCallback, EnrollUserSession, Post
    <3>2. Holding(d, "waiting").item # "login"
      BY DEF Holding, Held
    <3> QED  BY <3>1, <3>2
  <2>7. CASE \E e \in Devices : Copy(e, d)
    BY <2>7 DEF Copy, Here
  <2> QED  BY <2>1, <2>2, <2>3, <2>4, <2>5, <2>6, <2>7
<1>5. Logins' \subseteq Logins
  BY <1>1, <1>3, <1>4, Receives, LoginsKept
<1> QED  BY <1>2, <1>3, <1>5, CountedSameSessions

LEMMA CountedRow ==
    ASSUME EnrollmentAssumption, EnrollmentInv, CountedInv, Sound, NEW d \in Devices,
           \/ OTAEnrollSession(d) \/ OTAPhase3(d) \/ VerifySCEPCSR(d) \/ Authenticate(d)
           \/ TokenUpdate(d)
    PROVE  CountedInv'
<1>1. TypeOK /\ TypeOK' /\ SameKinds
  BY DEF EnrollmentInv, Sound
<1>2. UNCHANGED <<enrollment, saved, secret, requests>>
  BY DEF OTAEnrollSession, OTAPhase3, VerifySCEPCSR, Authenticate, TokenUpdate, admin
<1>3. SameEnrollment
  BY <1>2 DEF SameEnrollment
<1>4. PICK row : session' = [session EXCEPT ![attempt[d].session] = row]
  BY DEF OTAEnrollSession, OTAPhase3, VerifySCEPCSR, Authenticate, TokenUpdate, SetNextStatus
<1>5. PICK item : Reply(d, Holding(d, item)) /\ item # "login"
  BY DEF OTAEnrollSession, OTAPhase3, VerifySCEPCSR, Authenticate, TokenUpdate
<1>6. Holding(d, item).item # "login"
  BY <1>5 DEF Holding, Held
<1>7. Logins' \subseteq Logins
  BY <1>1, <1>3, <1>5, <1>6, Receives, LoginsKept
<1>8. CountedRows' \subseteq CountedRows
  <2>1. Ids' = Ids
    BY <1>1, <1>4, SameIds
  <2> QED  BY <1>1, <1>3, <2>1, RowsKept
<1>9. requests' >= requests
  BY <1>1, <1>2 DEF TypeOK
<1> QED  BY <1>1, <1>2, <1>7, <1>8, <1>9, SecretKept, CountedKept

LEMMA CountedPost ==
    ASSUME EnrollmentAssumption, EnrollmentInv, CountedInv, Sound, NEW p \in posts,
           SavePost(p) \/ TimeOut(p)
    PROVE  CountedInv'
<1>1. TypeOK /\ TypeOK' /\ SameKinds
  BY DEF EnrollmentInv, Sound
<1>2. UNCHANGED <<enrollment, saved>>
  BY DEF SavePost, TimeOut, admin
<1>3. SameEnrollment
  BY <1>2 DEF SameEnrollment
<1>4. enrollment.type = "USER"
  BY DEF EnrollmentInv, PostedRows, AccountSessions
<1>5. Logins' \subseteq Logins
  BY <1>3, <1>4 DEF Logins, SameEnrollment
<1>6. Ids' = Ids
  <2>1. CASE SavePost(p)
    BY <1>1, <2>1, SameIds DEF SavePost
  <2>2. CASE TimeOut(p)
    BY <2>2 DEF TimeOut, tables, Ids
  <2> QED  BY <2>1, <2>2
<1>7. SameSecret /\ requests' >= requests
  <2>1. requests \in Nat
    BY <1>1, Tables
  <2>2. CASE SavePost(p) /\ p.handler = "enroll"
    BY <1>1, <1>2, <2>2, SecretCounted DEF SavePost
  <2>3. CASE TimeOut(p) \/ (SavePost(p) /\ p.handler # "enroll")
    <3>1. secret' = secret /\ requests' = requests
      BY <2>3 DEF SavePost, TimeOut, tables
    <3> QED  BY <1>2, <2>1, <3>1, SecretKept
  <2> QED  BY <2>2, <2>3
<1>8. CountedRows' \subseteq CountedRows
  BY <1>1, <1>3, <1>6, RowsKept
<1> QED  BY <1>1, <1>5, <1>7, <1>8, CountedKept

\* The rows after the creation of a session.
LEMMA NewCounted ==
    ASSUME EnrollmentAssumption, EnrollmentInv, Sound, SameEnrollment,
           NEW st \in Statuses, NEW account \in BOOLEAN, NEW user \in BOOLEAN, NEW es \in Secrets,
           CreateSession(NewSession(st, account, user), es)
    PROVE  /\ CountedRows' \subseteq CountedRows \cup {Created}
           /\ \/ enrollment.type = "OTA" /\ user
              \/ enrollment.type = "USER" /\ ~account
              \/ enrollment.type = "DEP" /\ enrollment.ldap /\ user
              => CountedRows' \subseteq CountedRows
<1> DEFINE row == NewSession(st, account, user)
<1>1. TypeOK /\ SameKinds
  BY DEF EnrollmentInv, Sound
<1>2. row \in Session /\ row.account = account /\ row.user = user
  BY NewSessionTyped
<1> HIDE DEF row
<1> SUFFICES ASSUME NEW c, c = Created
             PROVE  /\ CountedRows' \subseteq CountedRows \cup {c}
                    /\ \/ enrollment.type = "OTA" /\ user
                       \/ enrollment.type = "USER" /\ ~account
                       \/ enrollment.type = "DEP" /\ enrollment.ldap /\ user
                       => CountedRows' \subseteq CountedRows
  OBVIOUS
<1>3. Ids' = Ids \cup {c} /\ session'[c] = row
  <2>1. CreateSession(row, es)
    BY DEF row
  <2> QED  BY <1>1, <1>2, <2>1, SessionCreated
<1>4. CountedRows' \subseteq CountedRows \cup {c}
  BY <1>1, <1>3, SameRows DEF CountedRows
<1>5. ASSUME \/ enrollment.type = "OTA" /\ user
             \/ enrollment.type = "USER" /\ ~account
             \/ enrollment.type = "DEP" /\ enrollment.ldap /\ user
      PROVE  ~CountedSession(c)'
  BY <1>2, <1>3, <1>5 DEF CountedSession, SameEnrollment
<1> QED  BY <1>1, <1>3, <1>4, <1>5, SameRows DEF CountedRows

LEMMA CountedCreation ==
    ASSUME EnrollmentAssumption, EnrollmentInv, CountedInv, Sound, NEW d \in Devices,
           \/ OTAEnroll(d) \/ DEPEnroll(d) \/ EnrollUser(d) \/ DEPWebEnroll(d)
    PROVE  CountedInv'
<1>1. TypeOK /\ TypeOK' /\ SameKinds
  BY DEF EnrollmentInv, Sound
<1>2. UNCHANGED <<enrollment, saved>> /\ CountRequest
  BY DEF OTAEnroll, DEPEnroll, EnrollUser, DEPWebEnroll, admin
<1>3. SameEnrollment
  BY <1>2 DEF SameEnrollment
<1>4. SameSecret /\ requests' = requests + 1
  BY <1>1, <1>2, SecretCounted
<1>5. CASE OTAEnroll(d) \/ DEPEnroll(d) \/ EnrollUser(d)
  <2>1. PICK item \in {"ota_scep", "mdm_scep", "url"} : Reply(d, Held(item, Created))
    <3>1. CASE OTAEnroll(d)
      BY <3>1 DEF OTAEnroll
    <3>2. CASE DEPEnroll(d)
      BY <3>2 DEF DEPEnroll
    <3>3. CASE EnrollUser(d)
      BY <3>3 DEF EnrollUser
    <3> QED  BY <1>5, <3>1, <3>2, <3>3
  <2>2. Held(item, Created).item # "login"
    BY <2>1 DEF Held
  <2>3. Logins' \subseteq Logins
    BY <1>1, <1>3, <2>1, <2>2, Receives, LoginsKept
  <2>4. CountedRows' \subseteq CountedRows \cup {Created}
    <3>1. /\ {"PHASE_2", "STARTED", "ACCOUNT_DRIVEN_START"} \subseteq Statuses
          /\ {1, 2, AccountQuota} \subseteq Nat
      BY DEF Statuses, EnrollmentAssumption
    <3>2. /\ NewSecret(2, d) \in Secrets /\ NewSecret(1, d) \in Secrets
          /\ NewSecret(AccountQuota, NoDevice) \in Secrets
      BY <3>1, NewSecretTyped
    <3>3. CASE OTAEnroll(d)
      BY <1>3, <3>1, <3>2, <3>3, NewCounted DEF OTAEnroll
    <3>4. CASE DEPEnroll(d)
      BY <1>3, <3>1, <3>2, <3>4, NewCounted DEF DEPEnroll
    <3>5. CASE EnrollUser(d)
      BY <1>3, <3>1, <3>2, <3>5, NewCounted DEF EnrollUser
    <3> QED  BY <1>5, <3>3, <3>4, <3>5
  <2> QED  BY <1>1, <1>4, <2>3, <2>4, CountedOnce
<1>6. CASE DEPWebEnroll(d)
  <2>1. Reply(d, Held("login", 0)) /\ session' = session
    BY <1>6 DEF DEPWebEnroll
  <2>2. OnlyHeld(d, Held("login", 0))
    BY <1>1, <2>1, Receives
  <2>3. Logins' \subseteq Logins \cup {d}
    BY <1>3, <2>2 DEF OnlyHeld, Logins, Here, SameEnrollment
  <2>4. CountedRows' \subseteq CountedRows
    <3>1. Ids' = Ids
      BY <2>1 DEF Ids
    <3> QED  BY <1>1, <1>3, <3>1, RowsKept
  <2> QED  BY <1>1, <1>4, <2>3, <2>4, CountedOnce
<1> QED  BY <1>5, <1>6

LEMMA CountedElsewhere ==
    ASSUME EnrollmentAssumption, EnrollmentInv, CountedInv, Sound, NEW d \in Devices,
           OTAWebEnroll(d) \/ UserForm(d)
    PROVE  CountedInv'
<1>1. TypeOK /\ TypeOK' /\ SameKinds
  BY DEF EnrollmentInv, Sound
<1>2. UNCHANGED <<enrollment, saved, secret, requests>>
  BY DEF OTAWebEnroll, UserForm, admin
<1>3. SameEnrollment
  BY <1>2 DEF SameEnrollment
<1>4. enrollment.type # "DEP"
  BY DEF OTAWebEnroll, UserForm
<1>5. Logins' \subseteq Logins
  BY <1>3, <1>4 DEF Logins, SameEnrollment
<1>6. CountedRows' \subseteq CountedRows
  <2>1. {"PHASE_1", "STARTED"} \subseteq Statuses /\ {1, RealmQuota} \subseteq Nat
    BY DEF Statuses, RealmQuota
  <2>2. NewSecret(RealmQuota, NoDevice) \in Secrets /\ NewSecret(1, NoDevice) \in Secrets
    BY <2>1, NewSecretTyped
  <2>3. CASE OTAWebEnroll(d)
    BY <1>3, <2>1, <2>2, <2>3, NewCounted DEF OTAWebEnroll
  <2>4. CASE UserForm(d)
    BY <1>3, <2>1, <2>2, <2>4, NewCounted DEF UserForm
  <2> QED  BY <2>3, <2>4
<1>7. requests' >= requests
  BY <1>1, <1>2 DEF TypeOK
<1> QED  BY <1>1, <1>2, <1>5, <1>6, <1>7, SecretKept, CountedKept

\* A login: of an OTA enrollment, of a realm that uses it once, or of LDAP.
LEMMA CountedLogin ==
    ASSUME EnrollmentAssumption, EnrollmentInv, CountedInv, Sound, NEW d \in Devices,
           FinalizeLogin(d)
    PROVE  CountedInv'
<1>1. TypeOK /\ TypeOK' /\ SameKinds
  BY DEF EnrollmentInv, Sound
<1>2. /\ UNCHANGED <<enrollment, saved, secret, requests>>
      /\ Here(d, "login") /\ enrollment.type # "USER"
  BY DEF FinalizeLogin, admin
<1>3. SameEnrollment
  BY <1>2 DEF SameEnrollment
<1>4. SameSecret
  BY <1>2, SecretKept
<1>5. requests' >= requests
  BY <1>1, <1>2 DEF TypeOK
<1>6. CASE enrollment.type = "OTA"
  <2>1. session' = session
    BY <1>6 DEF FinalizeLogin
  <2>2. Logins' \subseteq Logins
    BY <1>3, <1>6 DEF Logins, SameEnrollment
  <2> QED  BY <1>2, <1>3, <2>1, <2>2, CountedSameSessions
<1>7. CASE enrollment.type = "DEP"
  <2>1. CreateSession(NewSession("STARTED", FALSE, TRUE), NewSecret(1, d))
    BY <1>7 DEF FinalizeLogin
  <2>2. "STARTED" \in Statuses /\ NewSecret(1, d) \in Secrets
    <3>1. 1 \in Nat
      OBVIOUS
    <3> QED  BY <3>1, NewSecretTyped DEF Statuses
  <2>3. CASE enrollment.ldap
    <3>1. CountedRows' \subseteq CountedRows
      BY <1>3, <1>7, <2>1, <2>2, <2>3, NewCounted
    <3>2. Logins' \subseteq Logins
      BY <1>3, <2>3 DEF Logins, SameEnrollment
    <3> QED  BY <1>1, <1>4, <1>5, <3>1, <3>2, CountedKept
  <2>4. CASE ~enrollment.ldap
    <3>1. CountedRows' \subseteq CountedRows \cup {Created}
      BY <1>3, <2>1, <2>2, NewCounted
    <3>2. PICK h : attempt' = [attempt EXCEPT ![d] = h] /\ h.item # "login"
      <4>1. UsedLogin = "login_used"
        BY <2>4 DEF UsedLogin
      <4>2. PICK s : \/ attempt' = [attempt EXCEPT ![d] = Held("page", s)]
                     \/ attempt' = [attempt EXCEPT ![d] = Held(UsedLogin, 0)]
        BY <1>7 DEF FinalizeLogin
      <4>3. Held("page", s).item # "login" /\ Held(UsedLogin, 0).item # "login"
        BY <4>1 DEF Held
      <4> QED  BY <4>2, <4>3
    <3>3. attempt'[d] = h /\ OnlyHeld(d, h)
      <4>1. attempt \in [Devices -> HeldThings]
        BY <1>1, Tables
      <4> QED  BY <1>1, <3>2, <4>1, Receives
    <3>4. Logins' \subseteq Logins \ {d} /\ d \in Logins
      BY <1>2, <1>3, <1>7, <2>4, <3>2, <3>3 DEF OnlyHeld, Logins, Here, SameEnrollment
    <3> QED  BY <1>1, <1>2, <1>4, <3>1, <3>4, CountedBefore
  <2> QED  BY <2>3, <2>4
<1>8. enrollment.type \in {"OTA", "DEP", "USER"}
  BY <1>1, Tables
<1> QED  BY <1>2, <1>6, <1>7, <1>8

LEMMA NextCounted ==
    ASSUME EnrollmentAssumption, EnrollmentInv, CountedInv, Next
    PROVE  CountedInv'
<1>1. Sound
  BY NextSound
<1>2. CASE OpenForm \/ Revoke \/ (\E f \in forms : SaveForm(f)) \/ \E s \in Ids : Expire(s)
  BY <1>1, <1>2, CountedAdmin
<1>3. ASSUME NEW d \in Devices, Device(d)
      PROVE  CountedInv'
  <2>1. CASE DownloadPayload(d) \/ OTAWebLogin(d) \/ DEPProfile(d) \/ AuthenticateUser(d)
             \/ Refused(d) \/ UserCallback(d) \/ EnrollUserSession(d)
    BY <1>1, <2>1, CountedHold
  <2>2. CASE OTAEnroll(d) \/ DEPEnroll(d) \/ EnrollUser(d) \/ DEPWebEnroll(d)
    BY <1>1, <2>2, CountedCreation
  <2>3. CASE OTAWebEnroll(d) \/ UserForm(d)
    BY <1>1, <2>3, CountedElsewhere
  <2>4. CASE OTAEnrollSession(d) \/ OTAPhase3(d) \/ VerifySCEPCSR(d) \/ Authenticate(d)
             \/ TokenUpdate(d)
    BY <1>1, <2>4, CountedRow
  <2>5. CASE FinalizeLogin(d)
    BY <1>1, <2>5, CountedLogin
  <2> QED  BY <1>3, <2>1, <2>2, <2>3, <2>4, <2>5 DEF Device
<1>4. CASE \E d \in Devices : Device(d) \/ CheckOut(d) \/ Wipe(d)
  BY <1>1, <1>3, <1>4, CountedHold
<1>5. CASE \E d, e \in Devices : Copy(d, e)
  BY <1>1, <1>5, CountedHold
<1>6. CASE \E p \in posts : SavePost(p) \/ TimeOut(p)
  BY <1>1, <1>6, CountedPost
<1> QED  BY <1>2, <1>4, <1>5, <1>6 DEF Next

\* Every session of the secret of the enrollment is one of its requests, which
\* its quota counts (inventory/models.py, EnrollmentSecretManager.verify).
THEOREM CountedSessions == Spec => []SessionsCounted
<1>1. Init => CountedInv
  <2> SUFFICES ASSUME Init
               PROVE  CountedInv
    OBVIOUS
  <2>1. Ids = {} /\ Logins = {}
    BY DEF Init, Ids, Logins, Here, Nothing, Held
  <2>2. secret.count = 0 /\ requests = 0
    BY DEF Init, NewSecret
  <2>3. {s \in Ids : CountedSession(s)} = {}
    BY <2>1
  <2> QED  BY <2>1, <2>2, <2>3, FS_EmptySet DEF CountedInv
<1>2. EnrollmentInv /\ CountedInv /\ [Next]_vars => CountedInv'
  <2>1. ASSUME CountedInv, UNCHANGED vars
        PROVE  CountedInv'
    BY <2>1 DEF CountedInv, Logins, Here, Ids, CountedSession, vars, tables, admin
  <2> QED  BY <2>1, NextCounted, EnrollmentAssumption
<1>3. EnrollmentInv /\ CountedInv => SessionsCounted
  <2> SUFFICES ASSUME EnrollmentInv, CountedInv
               PROVE  SessionsCounted
    OBVIOUS
  <2>1. Cardinality(Logins) \in Nat /\ requests \in Nat /\ Cardinality(CountedRows) \in Nat
    BY FS_CardinalityType, CountedFinite, EnrollmentAssumption DEF CountedInv, EnrollmentInv, TypeOK
  <2>2. Cardinality(CountedRows) + Cardinality(Logins) <= requests
    BY DEF CountedInv, CountedRows
  <2>3. Cardinality(CountedRows) <= requests
    BY <2>1, <2>2
  <2> QED  BY <2>3 DEF SessionsCounted, CountedInv, CountedRows
<1> QED  BY <1>1, <1>2, <1>3, EnrollmentInvariant, PTL DEF Spec

-----------------------------------------------------------------------------
(* Why the devices start again: SessionsExplained.                          *)
(*                                                                          *)
(* Starting are the devices that a session may still be created for without *)
(* another explanation. A request leaves the other devices as they are      *)
(* (Beside), and its own device too, when it is answered; the creation of a *)
(* session takes its device out of Starting. A lost response, an expired    *)
(* secret add one device at most; an operation of an administrator or of an *)
(* owner, or a secret that is not valid anymore, adds all of them at most.  *)

Valid == IsValid(secret, NoDevice)
Expired == {s \in Ids : key[s].expired}
Reserve == Cardinality(Devices) * Cardinality(forms)
Slack == IF Valid THEN 0 ELSE Cardinality(Devices)

LEMMA BalanceTypes ==
    ASSUME EnrollmentAssumption, TypeOK
    PROVE  /\ IsFiniteSet(Devices) /\ Cardinality(Devices) \in Nat
           /\ IsFiniteSet(Starting) /\ Cardinality(Starting) \in Nat
           /\ Cardinality(Starting) <= Cardinality(Devices)
           /\ IsFiniteSet(Expired) /\ Cardinality(Expired) \in Nat
           /\ Len(session) \in Nat /\ faults \in Nat /\ edits \in Nat
<1>1. IsFiniteSet(Devices) /\ Cardinality(Devices) \in Nat
  BY CountingAssumption, FS_CardinalityType
<1>2. Starting \subseteq Devices
  BY DEF Starting
<1>3. IsFiniteSet(Starting) /\ Cardinality(Starting) <= Cardinality(Devices)
  BY <1>1, <1>2, FS_Subset
<1>4. Len(session) \in Nat /\ faults \in Nat /\ edits \in Nat
  BY Elements
<1>5. IsFiniteSet(Ids)
  BY <1>4, FS_Interval DEF Ids
<1>6. IsFiniteSet(Expired)
  BY <1>5, FS_Subset DEF Expired
<1> QED  BY <1>1, <1>3, <1>4, <1>6, FS_CardinalityType

LEMMA BalanceTypesAfter ==
    ASSUME EnrollmentAssumption, TypeOK'
    PROVE  /\ Cardinality(Starting') \in Nat /\ Cardinality(Starting') <= Cardinality(Devices)
           /\ IsFiniteSet(Expired') /\ Cardinality(Expired') \in Nat
<1>1. Starting' \subseteq Devices
  BY DEF Starting
<1>2. IsFiniteSet(Starting') /\ Cardinality(Starting') <= Cardinality(Devices)
  BY <1>1, CountingAssumption, FS_Subset
<1>3. Len(session') \in Nat
  BY DEF TypeOK
<1>4. IsFiniteSet(Ids')
  BY <1>3, FS_Interval DEF Ids
<1>5. IsFiniteSet(Expired')
  BY <1>4, FS_Subset DEF Expired
<1> QED  BY <1>2, <1>5, FS_CardinalityType

LEMMA ReserveTypes ==
    ASSUME EnrollmentAssumption, TypeOK, SessionsBalanced
    PROVE  /\ IsFiniteSet(forms) /\ Cardinality(forms) \in Nat /\ Reserve \in Nat
           /\ Cardinality(Devices) * edits \in Nat
<1>1. IsFiniteSet(forms) /\ Cardinality(forms) \in Nat
  BY FS_CardinalityType DEF SessionsBalanced
<1>2. Cardinality(Devices) \in Nat /\ edits \in Nat
  BY BalanceTypes
<1>3. \A i, j \in Nat : i * j \in Nat
  OBVIOUS
<1> QED  BY <1>1, <1>2, <1>3 DEF Reserve

\* No operation of the administrators: the devices that now start again, the
\* sessions created, the lost responses and the expired secrets.
LEMMA Balanced ==
    ASSUME EnrollmentAssumption, TypeOK, TypeOK', SessionsBalanced,
           forms' = forms, edits' = edits, Valid' => Valid,
           Len(session') \in Nat, faults' \in Nat,
           \/ Len(session') + Cardinality(Starting') + faults + Cardinality(Expired)
                <= Len(session) + Cardinality(Starting) + faults' + Cardinality(Expired')
           \/ /\ Valid /\ ~Valid'
              /\ Len(session') + faults + Cardinality(Expired)
                   <= Len(session) + Cardinality(Starting) + faults' + Cardinality(Expired')
    PROVE  SessionsBalanced'
<1> DEFINE n == Cardinality(Devices)
           w == Cardinality(Starting)
           v == Cardinality(Starting')
           x == Cardinality(Expired)
           y == Cardinality(Expired')
           m == Cardinality(Devices) * edits
           r == Reserve
           k == Slack
           l == Slack'
           a == Len(session)
           b == Len(session')
           f == faults
           g == faults'
<1>1. n \in Nat /\ w \in Nat /\ x \in Nat /\ a \in Nat /\ f \in Nat
  BY BalanceTypes
<1>2. v \in Nat /\ v <= n /\ y \in Nat /\ b \in Nat /\ g \in Nat
  BY BalanceTypesAfter
<1>3. m \in Nat /\ r \in Nat
  BY ReserveTypes
<1>4. /\ k \in {0, n} /\ l \in {0, n} /\ (k = n => l = n \/ n = 0)
      /\ Valid /\ ~Valid' => k = 0 /\ l = n
  BY DEF Slack
<1>5. a + w + r <= n + f + m + x + k
  BY DEF SessionsBalanced, Reserve, Slack, Expired, Valid
<1>6. b + v + f + x <= a + w + g + y \/ (k = 0 /\ l = n /\ b + f + x <= a + w + g + y)
  BY <1>4
<1>7. IsFiniteSet(forms') /\ Reserve' = Reserve
  BY DEF SessionsBalanced, Reserve
<1> HIDE DEF n, w, v, x, y, m, r, k, l, a, b, f, g
<1>8. b + v + r <= n + g + m + y + l
  <2>1. k = 0 \/ l = k
    BY <1>1, <1>4
  <2> QED  BY <1>1, <1>2, <1>3, <1>4, <1>5, <1>6, <2>1
<1> QED
  BY <1>7, <1>8 DEF SessionsBalanced, Reserve, Slack, Expired, Valid, n, v, y, m, r, l, b, g

\* An operation of the owners of the devices may make every device start again. An
\* administrator only does when the rows that were read are saved; if the secret is
\* valid again, it has to be without any other device that starts.
LEMMA Excused ==
    ASSUME EnrollmentAssumption, TypeOK, TypeOK', SessionsBalanced, IsFiniteSet(forms'),
           Len(session') = Len(session), faults' = faults, Expired' = Expired,
           \/ /\ edits' = edits + 1 /\ (Valid' <=> Valid)
              /\ forms' = forms
           \/ /\ edits' = edits + 1 /\ (Valid' <=> Valid)
              /\ Cardinality(forms') = Cardinality(forms) + 1 /\ Starting' = Starting
           \/ /\ edits' = edits /\ Cardinality(forms) = Cardinality(forms') + 1
              /\ ~Valid /\ Valid' => Starting' \subseteq Starting
    PROVE  SessionsBalanced'
<1> DEFINE n == Cardinality(Devices)
           w == Cardinality(Starting)
           v == Cardinality(Starting')
           x == Cardinality(Expired)
           c == Cardinality(forms)
           e == Cardinality(forms')
           k == Slack
           l == Slack'
<1>1. /\ n \in Nat /\ w \in Nat /\ x \in Nat /\ Len(session) \in Nat /\ faults \in Nat
      /\ edits \in Nat
  BY BalanceTypes
<1>2. v \in Nat /\ v <= n
  BY BalanceTypesAfter
<1>3. c \in Nat /\ e \in Nat
  BY ReserveTypes, FS_CardinalityType
<1>4. Len(session) + w + n * c <= n + faults + n * edits + x + k
  BY DEF SessionsBalanced, Slack, Expired, Valid
<1>5. k \in {0, n} /\ l \in {0, n}
  BY DEF Slack
<1>6. \/ edits' = edits + 1 /\ e = c /\ k = l
      \/ edits' = edits + 1 /\ e = c + 1 /\ k = l /\ v = w
      \/ edits' = edits /\ c = e + 1 /\ (k = 0 \/ k = l \/ v <= w)
  <2>1. CASE ~Valid /\ Valid'
    <3>1. IsFiniteSet(Starting)
      BY BalanceTypes
    <3>2. Starting' \subseteq Starting => v <= w
      BY <3>1, FS_Subset
    <3> QED  BY <2>1, <3>2
  <2>2. CASE Valid \/ ~Valid'
    BY <2>2 DEF Slack
  <2> QED  BY <2>1, <2>2
<1> HIDE DEF n, w, v, x, c, e, k, l
<1>7. \A a, b \in Nat : a * b \in Nat /\ a * (b + 1) = a * b + a
  BY SMTT(30)
<1> DEFINE m == n * edits
           j == n * edits'
           r == n * c
           q == n * e
<1>8. /\ m \in Nat /\ r \in Nat /\ q \in Nat
      /\ edits' = edits + 1 => j = m + n
      /\ edits' = edits => j = m
      /\ e = c => q = r
      /\ e = c + 1 => q = r + n
      /\ c = e + 1 => r = q + n
  BY <1>1, <1>3, <1>7
<1>9. Len(session) + w + r <= n + faults + m + x + k
  BY <1>4
<1> HIDE DEF m, j, r, q
<1>10. Len(session') + v + q <= n + faults' + j + x + l
  <2>1. CASE edits' = edits + 1
    BY <1>1, <1>2, <1>5, <1>6, <1>8, <1>9, <2>1
  <2>2. CASE edits' = edits
    BY <1>1, <1>2, <1>5, <1>6, <1>8, <1>9, <2>2
  <2> QED  BY <1>6, <2>1, <2>2
<1>11. Expired' = Expired
  OBVIOUS
<1> QED
  BY <1>10, <1>11 DEF SessionsBalanced, Slack, Expired, Valid, n, v, x, e, l, j, q

\* A step of the device d, on the row i.
Beside(d, i) ==
    /\ enrollment' = enrollment /\ forms' = forms /\ edits' = edits
    /\ Valid' => Valid
    /\ Ids \subseteq Ids'
    /\ \A s \in Ids \ {i} : session'[s] = session[s] /\ key'[s] = key[s]
    /\ \A s \in Ids : key[s].expired => key'[s].expired
    /\ \A p \in posts' : p.session # i => p \in posts
    /\ \A p \in posts : p.session # i => p \in posts'
    /\ \A e \in Devices : attempt'[e].session \in {attempt[e].session, 0, Created}
    /\ \A e \in Devices \ {d} :
          /\ attempt'[e] = attempt[e]
          /\ GoesOn(e) => attempt[e].session # i
          /\ \A s \in Ids : <<e, s>> \in browser => <<e, s>> \in browser'

\* The row and the secret of a device that goes on.
LEMMA StaysReady ==
    ASSUME NEW e \in Devices, attempt'[e] = attempt[e], enrollment' = enrollment,
           Row(e)' = Row(e), Key(e)' = Key(e),
           <<e, attempt[e].session>> \in browser => <<e, attempt[e].session>> \in browser',
           \A p \in posts : p.session = attempt[e].session => p \in posts',
           \A p \in posts' : p.session = attempt[e].session => p \in posts
    PROVE  /\ UsableKey(e) => UsableKey(e)'
           /\ Ready(e) => Ready(e)'
           /\ Awaiting(e)' => Awaiting(e)
<1>1. UsableKey(e) => UsableKey(e)'
  BY DEF UsableKey, StillNeeded, Here
<1>2. ScepStatus(e)' = ScepStatus(e)
  BY DEF ScepStatus, Here
<1>3. CanStartPhase3(e) => CanStartPhase3(e)'
  BY DEF CanStartPhase3
<1>4. CanDownload(e) => CanDownload(e)'
  BY DEF CanDownload
<1>5. CanCallBack(e) => CanCallBack(e)'
  BY DEF CanCallBack
<1>6. CanAuthenticate(e) => CanAuthenticate(e)'
  BY DEF CanAuthenticate
<1>7. CanUpdateToken(e) => CanUpdateToken(e)'
  BY DEF CanUpdateToken
<1>8. /\ (\E p \in posts : Answer(e, p) /\ (p.handler = "callback" => enrollment.realm))
         => (\E p \in posts : Answer(e, p) /\ (p.handler = "callback" => enrollment.realm))'
      /\ (\E p \in posts : Answer(e, p) /\ p.handler = "callback")'
         => \E p \in posts : Answer(e, p) /\ p.handler = "callback"
  BY DEF Answer
<1>9. \A item : Here(e, item)' <=> Here(e, item)
  BY DEF Here
<1>10. Ready(e) => Ready(e)'
  BY <1>2, <1>3, <1>4, <1>5, <1>6, <1>7, <1>8, <1>9 DEF Ready
<1>11. Awaiting(e)' => Awaiting(e)
  BY <1>8, <1>9 DEF Awaiting
<1> QED  BY <1>1, <1>10, <1>11

LEMMA OtherGoesOn ==
    ASSUME EnrollmentAssumption, EnrollmentInv, NEW d, NEW i, Beside(d, i), Valid => Valid',
           NEW e \in Devices, e # d, GoesOn(e)
    PROVE  GoesOn(e)'
<1> DEFINE s == attempt[e].session
<1>1. /\ s \in Ids /\ s # i /\ s # 0 /\ s # Created
      /\ \A f \in Devices : attempt[f].session = s => f = e
      /\ \A p \in posts : p.session = s => ~p.lost
  <2>1. Len(session) \in Nat
    BY Elements DEF EnrollmentInv
  <2>2. s \in Ids /\ s # i
    BY DEF Beside, GoesOn, OwnSession
  <2>3. s # 0 /\ s # Created
    BY <2>1, <2>2 DEF Ids, Created
  <2> QED  BY <2>2, <2>3 DEF GoesOn, OwnSession
<1>2. /\ attempt'[e] = attempt[e]
      /\ session'[s] = session[s] /\ key'[s] = key[s] /\ s \in Ids'
      /\ <<e, s>> \in browser => <<e, s>> \in browser'
      /\ enrollment' = enrollment
  BY <1>1 DEF Beside
<1>3. Row(e)' = Row(e) /\ Key(e)' = Key(e)
  BY <1>2 DEF Row, Key
<1>4. /\ \A p \in posts : p.session = s => p \in posts'
      /\ \A p \in posts' : p.session = s => p \in posts
  BY <1>1 DEF Beside
<1>5. UsableKey(e)' /\ Ready(e)' /\ (Valid' \/ ~Awaiting(e)')
  BY <1>2, <1>3, <1>4, StaysReady DEF GoesOn, Valid
<1>6. \A f \in Devices : attempt'[f].session = attempt'[e].session => f = e
  BY <1>1, <1>2 DEF Beside
<1>7. \A p \in posts' : p.session = attempt'[e].session => ~p.lost
  BY <1>1, <1>2 DEF Beside
<1> QED  BY <1>2, <1>5, <1>6, <1>7 DEF GoesOn, OwnSession, Valid

LEMMA OthersStart ==
    ASSUME EnrollmentAssumption, EnrollmentInv, NEW d, NEW i, Beside(d, i), Valid => Valid'
    PROVE  Starting' \subseteq Starting \cup {d}
<1> SUFFICES ASSUME NEW e \in Starting', e # d
             PROVE  e \in Starting
  OBVIOUS
<1>1. e \in Devices /\ ~GoesOn(e)'
  BY DEF Starting
<1> QED  BY <1>1, OtherGoesOn DEF Starting

LEMMA ExpiredKept ==
    ASSUME EnrollmentAssumption, TypeOK, TypeOK', NEW d, NEW i, Beside(d, i)
    PROVE  Cardinality(Expired') >= Cardinality(Expired)
<1>1. Expired \subseteq Expired'
  BY DEF Beside, Expired
<1>2. IsFiniteSet(Expired') /\ Cardinality(Expired') \in Nat /\ Cardinality(Expired) \in Nat
  BY BalanceTypes, BalanceTypesAfter
<1>3. Cardinality(Expired) <= Cardinality(Expired')
  BY <1>1, <1>2, FS_Subset
<1> QED  BY <1>2, <1>3

\* The kinds of steps: nothing happens to the device or its response is lost, and
\* it creates a session or not. When the secret is not valid anymore, every device
\* may start again.
LEMMA BesideStep ==
    ASSUME EnrollmentAssumption, EnrollmentInv, TypeOK', SessionsBalanced,
           NEW d, NEW i, Beside(d, i),
           \/ /\ faults' = faults /\ Len(session') = Len(session)
              /\ (Valid' <=> Valid) /\ d \in Starting' => d \in Starting
           \/ faults' = faults + 1 /\ Len(session') = Len(session)
           \/ /\ faults' = faults /\ Len(session') = Len(session) + 1
              /\ d \in Starting /\ ((Valid' <=> Valid) => d \notin Starting')
           \/ faults' = faults + 1 /\ Len(session') = Len(session) + 1 /\ d \in Starting
    PROVE  SessionsBalanced'
<1>1. TypeOK
  BY DEF EnrollmentInv
<1>2. /\ IsFiniteSet(Starting) /\ Cardinality(Starting) \in Nat
      /\ Len(session) \in Nat /\ faults \in Nat
  BY <1>1, BalanceTypes
<1>3. (Valid => Valid') => Starting' \subseteq Starting \cup {d}
  BY OthersStart
<1>4. /\ Cardinality(Expired) \in Nat /\ Cardinality(Expired') \in Nat
      /\ Cardinality(Starting') \in Nat
      /\ Cardinality(Expired') >= Cardinality(Expired)
  BY <1>1, BalanceTypes, BalanceTypesAfter, ExpiredKept
<1>5. forms' = forms /\ edits' = edits /\ (Valid' => Valid)
  BY DEF Beside
<1> DEFINE w == Cardinality(Starting)
           v == Cardinality(Starting')
           x == Cardinality(Expired)
           y == Cardinality(Expired')
           a == Len(session)
           b == Len(session')
           f == faults
           g == faults'
<1>6. /\ w \in Nat /\ v \in Nat /\ x \in Nat /\ y \in Nat /\ a \in Nat /\ f \in Nat
      /\ y >= x
  BY <1>2, <1>4
<1>6a. d \in Starting => w >= 1
  <2> SUFFICES ASSUME d \in Starting
               PROVE  w >= 1
    OBVIOUS
  <2>1. w # 0
    BY <1>2, FS_EmptySet
  <2> HIDE DEF w
  <2> QED  BY <1>6, <2>1
<1>6b. /\ g \in {f, f + 1} /\ b \in {a, a + 1}
       /\ b = a + 1 => w >= 1
  BY <1>6a
<1>7. ASSUME Valid => Valid'
      PROVE
      \/ g = f /\ b = a /\ v <= w
      \/ g = f + 1 /\ b = a /\ v <= w + 1
      \/ g = f /\ b = a + 1 /\ v <= w - 1
      \/ g = f + 1 /\ b = a + 1 /\ v <= w
  <2>1. CASE g = f /\ b = a /\ (d \in Starting' => d \in Starting)
    BY <1>2, <1>3, <1>7, <2>1, FS_Subset
  <2>2. CASE g = f + 1 /\ b = a
    <3>1. v <= w + 1
      BY <1>2, <1>3, <1>7, AtMostOneMore
    <3> QED  BY <2>2, <3>1
  <2>3. CASE g = f /\ b = a + 1 /\ d \in Starting /\ d \notin Starting'
    <3>1. Starting' \subseteq Starting \ {d}
      BY <1>3, <1>7, <2>3
    <3>2. IsFiniteSet(Starting \ {d}) /\ Cardinality(Starting \ {d}) = w - 1
      BY <1>2, <2>3, FS_RemoveElement
    <3>3. v <= w - 1
      BY <3>1, <3>2, FS_Subset
    <3> QED  BY <2>3, <3>3
  <2>4. CASE g = f + 1 /\ b = a + 1 /\ d \in Starting
    <3>1. v <= w
      BY <1>2, <1>3, <1>7, <2>4, FS_Subset
    <3> QED  BY <2>4, <3>1
  <2> QED  BY <1>5, <1>7, <2>1, <2>2, <2>3, <2>4
<1>7a. ~(Valid => Valid') => Valid /\ ~Valid'
  OBVIOUS
<1> HIDE DEF w, v, x, y, a, b, f, g
<1>8. b \in Nat /\ g \in Nat
  BY <1>6, <1>6b
<1>9. ASSUME Valid => Valid'
      PROVE  b + v + f + x <= a + w + g + y
  <2>1. b + v + f <= a + w + g
    BY <1>6, <1>7, <1>8, <1>9
  <2> QED  BY <1>6, <1>8, <2>1
<1>10. b + f + x <= a + w + g + y
  BY <1>6, <1>6b, <1>8
<1> QED
  BY <1>1, <1>5, <1>7a, <1>8, <1>9, <1>10, Balanced DEF w, v, x, y, a, b, f, g

LEMMA SameStarting ==
    ASSUME UNCHANGED <<enrollment, secret, session, key, posts, attempt, browser>>
    PROVE  Starting' = Starting
<1>1. UNCHANGED enrollment /\ UNCHANGED secret /\ UNCHANGED session /\ UNCHANGED key
      /\ UNCHANGED posts /\ UNCHANGED attempt /\ UNCHANGED browser
  OBVIOUS
<1>2. ASSUME NEW d \in Devices
      PROVE  GoesOn(d)' <=> GoesOn(d)
  <2>1. \A item : Here(d, item)' <=> Here(d, item)
    BY <1>1 DEF Here
  <2>2. Row(d)' = Row(d) /\ Key(d)' = Key(d) /\ Ids' = Ids
    BY <1>1 DEF Row, Key, Ids
  <2>3. OwnSession(d)' <=> OwnSession(d)
    BY <1>1, <2>2 DEF OwnSession
  <2>4. UsableKey(d)' <=> UsableKey(d)
    BY <1>1, <2>1, <2>2 DEF UsableKey, StillNeeded
  <2>5. ScepStatus(d)' = ScepStatus(d)
    BY <1>1, <2>1 DEF ScepStatus
  <2>6. (CanStartPhase3(d)' <=> CanStartPhase3(d)) /\ (CanDownload(d)' <=> CanDownload(d))
    BY <1>1, <2>2 DEF CanStartPhase3, CanDownload
  <2>7. (CanCallBack(d)' <=> CanCallBack(d)) /\ (CanAuthenticate(d)' <=> CanAuthenticate(d))
    BY <1>1, <2>2 DEF CanCallBack, CanAuthenticate
  <2>8. CanUpdateToken(d)' <=> CanUpdateToken(d)
    BY <1>1, <2>2 DEF CanUpdateToken
  <2>9. \A p : Answer(d, p)' <=> Answer(d, p)
    BY <1>1 DEF Answer
  <2>10. Ready(d)' <=> Ready(d)
    BY <1>1, <2>1, <2>2, <2>5, <2>6, <2>7, <2>8, <2>9 DEF Ready
  <2>11. Awaiting(d)' <=> Awaiting(d)
    BY <1>1, <2>1, <2>9 DEF Awaiting
  <2>12. IsValid(secret, NoDevice)' <=> IsValid(secret, NoDevice)
    BY <1>1 DEF IsValid
  <2> QED  BY <2>3, <2>4, <2>10, <2>11, <2>12 DEF GoesOn
<1> QED  BY <1>2 DEF Starting

\* The rows of an administrator are read: nothing changes yet.
LEMMA ExplainedRead ==
    ASSUME EnrollmentAssumption, EnrollmentInv, TypeOK', SessionsBalanced, OpenForm \/ Revoke
    PROVE  SessionsBalanced'
<1>1. TypeOK /\ IsFiniteSet(forms)
  BY DEF EnrollmentInv, SessionsBalanced
<1>2. edits' = edits + 1 /\ \E row, realm : Read(row, realm)
  BY DEF OpenForm, Revoke, Edit
<1>3. UNCHANGED <<enrollment, secret, session, key, posts, attempt, browser, faults>>
  BY DEF OpenForm, Revoke, tables, lockfree
<1>4. PICK f : f \notin forms /\ forms' = forms \cup {f}
  BY <1>2 DEF Read
<1>5. IsFiniteSet(forms') /\ Cardinality(forms') = Cardinality(forms) + 1
  BY <1>1, <1>4, FS_AddElement
<1>6. Starting' = Starting
  BY <1>3, SameStarting
<1>7. /\ Len(session') = Len(session) /\ faults' = faults /\ Expired' = Expired
      /\ Valid' <=> Valid
  BY <1>3 DEF Expired, Ids, Valid
<1> QED  BY <1>1, <1>2, <1>5, <1>6, <1>7, Excused

\* The rows are saved. A secret that is valid again is not the one of a DEP
\* enrollment, and the devices that it had stopped were starting again.
LEMMA ExplainedSave ==
    ASSUME EnrollmentAssumption, EnrollmentInv, TypeOK', SessionsBalanced,
           enrollment.type = "DEP" => Valid, NEW f \in forms, SaveForm(f)
    PROVE  SessionsBalanced'
<1>1. TypeOK /\ IsFiniteSet(forms)
  BY DEF EnrollmentInv, SessionsBalanced
<1>2. /\ UNCHANGED session /\ UNCHANGED key /\ UNCHANGED posts /\ UNCHANGED attempt
      /\ UNCHANGED browser /\ faults' = faults /\ edits' = edits
      /\ forms' = forms \ {f} /\ enrollment' = [enrollment EXCEPT !.realm = f.realm]
  BY DEF SaveForm, lockfree
<1>3. /\ Len(session') = Len(session) /\ Expired' = Expired
      /\ enrollment'.type = enrollment.type
  BY <1>1, <1>2 DEF Expired, Ids, TypeOK
<1>4. IsFiniteSet(forms') /\ Cardinality(forms) = Cardinality(forms') + 1
  <2>1. IsFiniteSet(forms') /\ Cardinality(forms') = Cardinality(forms) - 1
    BY <1>1, <1>2, FS_RemoveElement
  <2> DEFINE c == Cardinality(forms)
  <2>2. c \in Nat
    BY <1>1, FS_CardinalityType
  <2> HIDE DEF c
  <2>3. c = (c - 1) + 1
    BY <2>2
  <2> QED  BY <2>1, <2>3 DEF c
<1>5. ASSUME ~Valid, Valid', NEW d \in Devices, GoesOn(d)
      PROVE  GoesOn(d)'
  <2>1. enrollment.type # "DEP" /\ ~Awaiting(d)
    BY <1>5 DEF GoesOn, Valid
  <2>2. \A item : Here(d, item)' <=> Here(d, item)
    BY <1>2 DEF Here
  <2>3. Row(d)' = Row(d) /\ Key(d)' = Key(d) /\ Ids' = Ids
    BY <1>2 DEF Row, Key, Ids
  <2>4. OwnSession(d)'
    BY <1>2, <1>5, <2>3 DEF GoesOn, OwnSession
  <2>5. UsableKey(d)'
    BY <1>2, <1>5, <2>2, <2>3 DEF GoesOn, UsableKey, StillNeeded
  <2>6. /\ ~Here(d, "url") /\ ~Here(d, "login") /\ ~Here(d, "token")
        /\ Here(d, "waiting") => ~ \E p \in posts : Answer(d, p) /\ p.handler = "callback"
    BY <2>1 DEF Awaiting, Here
  <2>7. ScepStatus(d)' = ScepStatus(d)
    BY <1>3, <2>2 DEF ScepStatus
  <2>8. /\ CanStartPhase3(d)' <=> CanStartPhase3(d)
        /\ CanAuthenticate(d)' <=> CanAuthenticate(d)
        /\ CanUpdateToken(d)' <=> CanUpdateToken(d)
    BY <2>3 DEF CanStartPhase3, CanAuthenticate, CanUpdateToken
  <2>9. Here(d, "waiting") =>
           (\E p \in posts : Answer(d, p) /\ (p.handler = "callback" => enrollment.realm))'
    <3> SUFFICES ASSUME Here(d, "waiting")
                 PROVE  (\E p \in posts : Answer(d, p) /\ (p.handler = "callback" => enrollment.realm))'
      OBVIOUS
    <3>1. PICK p \in posts : Answer(d, p)
      BY <1>5 DEF GoesOn, Ready, Here
    <3>2. p.handler # "callback" /\ Answer(d, p)' /\ p \in posts'
      BY <1>2, <2>6, <3>1 DEF Answer
    <3> QED  BY <3>2
  <2>10. Ready(d)
    BY <1>5 DEF GoesOn
  <2>11. Ready(d)'
    <3>1. attempt'[d] = attempt[d]
      BY <1>2
    <3>2. /\ attempt[d].item \in {"ota_scep", "ota_cert"} => enrollment'.type = "OTA"
          /\ attempt[d].item \in {"authenticated", "enrolled"} \/ Row(d)'.enrolled = NoDevice
      BY <1>3, <2>3, <2>10 DEF Ready
    <3>3. \/ Here(d, "challenge") /\ Row(d).user /\ Row(d).status = "PHASE_1"
          \/ attempt[d].item \in {"ota_scep", "mdm_scep"} /\ Row(d).status = ScepStatus(d)
          \/ Here(d, "ota_cert") /\ CanStartPhase3(d)
          \/ Here(d, "waiting")
          \/ Here(d, "mdm_cert") /\ CanAuthenticate(d)
          \/ Here(d, "authenticated") /\ CanUpdateToken(d)
          \/ Here(d, "enrolled")
      BY <2>1, <2>6, <2>10 DEF Ready, Here
    <3> QED  BY <2>2, <2>3, <2>7, <2>8, <2>9, <3>1, <3>2, <3>3 DEF Ready
  <2> QED  BY <1>5, <2>4, <2>5, <2>11 DEF GoesOn, Valid
<1>6. ~Valid /\ Valid' => Starting' \subseteq Starting
  BY <1>5 DEF Starting
<1> QED  BY <1>1, <1>2, <1>3, <1>4, <1>6, Excused

LEMMA ExplainedLeaving ==
    ASSUME EnrollmentAssumption, EnrollmentInv, TypeOK', SessionsBalanced,
           \/ \E d \in Devices : CheckOut(d) \/ Wipe(d)
           \/ \E d, e \in Devices : Copy(d, e)
    PROVE  SessionsBalanced'
<1>1. TypeOK /\ IsFiniteSet(forms)
  BY DEF EnrollmentInv, SessionsBalanced
<1>2. /\ UNCHANGED session /\ UNCHANGED key /\ UNCHANGED faults /\ UNCHANGED secret
      /\ edits' = edits + 1 /\ UNCHANGED forms
  BY DEF CheckOut, Wipe, Copy, tables, Edit
<1>3. /\ Len(session') = Len(session) /\ faults' = faults /\ Expired' = Expired
      /\ Valid' <=> Valid
  BY <1>2 DEF Expired, Ids, Valid
<1> QED  BY <1>1, <1>2, <1>3, Excused

\* The device whose session has the secret that expires.
LEMMA ExplainedExpire ==
    ASSUME EnrollmentAssumption, EnrollmentInv, TypeOK', SessionsBalanced,
           NEW i \in Ids, Expire(i)
    PROVE  SessionsBalanced'
<1>1. TypeOK
  BY DEF EnrollmentInv
<1>2. /\ UNCHANGED <<enrollment, forms, edits, secret, session, posts, browser, attempt, faults>>
      /\ ~key[i].expired /\ key' = [key EXCEPT ![i].expired = TRUE]
  BY DEF Expire, admin, lockfree
<1>3. /\ key[i] \in Secrets /\ Ids = DOMAIN key /\ i \in DOMAIN key
      /\ \A s \in Ids : key[s] \in Secrets
  BY <1>1, Elements DEF TypeOK, Ids
<1>4. key'[i].expired /\ \A s \in Ids \ {i} : key'[s] = key[s]
  BY <1>2, <1>3 DEF Secrets
<1>5. Ids' = Ids
  BY <1>2 DEF Ids
<1>6. ASSUME NEW d, \A e \in Devices \ {d} : GoesOn(e) => attempt[e].session # i
      PROVE  Beside(d, i)
  BY <1>2, <1>4, <1>5, <1>6 DEF Beside, Valid
<1>7. \E d : \A e \in Devices \ {d} : GoesOn(e) => attempt[e].session # i
  <2>1. CASE \E d \in Devices : GoesOn(d) /\ attempt[d].session = i
    BY <2>1 DEF GoesOn, OwnSession
  <2>2. CASE ~ \E d \in Devices : GoesOn(d) /\ attempt[d].session = i
    BY <2>2
  <2> QED  BY <2>1, <2>2
<1>8. PICK d : Beside(d, i)
  BY <1>6, <1>7
<1> DEFINE w == Cardinality(Starting)
           v == Cardinality(Starting')
           x == Cardinality(Expired)
           y == Cardinality(Expired')
           a == Len(session)
           b == Len(session')
           f == faults
           g == faults'
<1>9. /\ w \in Nat /\ v \in Nat /\ x \in Nat /\ y \in Nat /\ a \in Nat /\ f \in Nat
      /\ IsFiniteSet(Starting) /\ IsFiniteSet(Expired)
      /\ b = a /\ g = f
  BY <1>1, <1>2, BalanceTypes, BalanceTypesAfter
<1>10. v <= w + 1
  <2>1. Valid => Valid'
    BY <1>2 DEF Valid
  <2> QED  BY <1>8, <1>9, <2>1, OthersStart, AtMostOneMore
<1>11. y = x + 1
  <2>1. Expired' = Expired \cup {i} /\ i \notin Expired
    BY <1>2, <1>4, <1>5 DEF Expired
  <2> QED  BY <1>9, <2>1, FS_AddElement
<1> HIDE DEF w, v, x, y, a, b, f, g
<1>12. b \in Nat /\ g \in Nat /\ b + v + f + x <= a + w + g + y
  BY <1>9, <1>10, <1>11
<1>13. forms' = forms /\ edits' = edits /\ (Valid' => Valid)
  BY <1>2 DEF Valid
<1> QED
  BY <1>1, <1>12, <1>13, Balanced DEF w, v, x, y, a, b, f, g

-----------------------------------------------------------------------------
(* The requests of a device.                                                *)

LEMMA ValidBefore ==
    ASSUME EnrollmentAssumption, TypeOK, secret' = secret \/ CountRequest
    PROVE  Valid' => Valid
<1>1. secret \in Secrets
  BY Tables
<1>2. CASE secret' = secret
  BY <1>2 DEF Valid
<1>3. CASE CountRequest
  <2>1. /\ secret'.revoked = secret.revoked /\ secret'.expired = secret.expired
        /\ secret'.quota = secret.quota /\ secret'.count = secret.count + 1
        /\ secret.count \in Nat /\ secret.quota \in Nat
    BY <1>1, <1>3 DEF CountRequest, Counted, Secrets
  <2> QED  BY <2>1 DEF Valid, IsValid
<1> QED  BY <1>2, <1>3

LEMMA DeviceBeside ==
    ASSUME EnrollmentAssumption, EnrollmentInv, NEW d \in Devices,
           UNCHANGED <<enrollment, forms, edits>>, secret' = secret \/ CountRequest,
           NEW h, Reply(d, h) \/ attempt' = [attempt EXCEPT ![d] = h],
           h.session \in {attempt[d].session, 0, Created},
           Ids \subseteq Ids',
           \A s \in Ids \ {attempt[d].session} : session'[s] = session[s] /\ key'[s] = key[s],
           \A s \in Ids : key[s].expired => key'[s].expired,
           \A p \in posts' : p.session # attempt[d].session => p \in posts,
           \A p \in posts : p.session # attempt[d].session => p \in posts',
           \A e \in Devices \ {d}, s \in Ids : <<e, s>> \in browser => <<e, s>> \in browser'
    PROVE  Beside(d, attempt[d].session)
<1>1. TypeOK
  BY DEF EnrollmentInv
<1>2. OnlyHeld(d, h)
  BY <1>1, Receives
<1>3. Valid' => Valid
  BY <1>1, ValidBefore
<1>4. \A e \in Devices \ {d} : attempt'[e] = attempt[e]
  BY <1>2 DEF OnlyHeld
<1>5. \A e \in Devices : attempt'[e].session \in {attempt[e].session, 0, Created}
  BY <1>2 DEF OnlyHeld
<1>6. \A e \in Devices \ {d} : GoesOn(e) => attempt[e].session # attempt[d].session
  BY DEF GoesOn, OwnSession
<1> QED  BY <1>3, <1>4, <1>5, <1>6 DEF Beside

\* A request that creates no session.
LEMMA RequestStep ==
    ASSUME EnrollmentAssumption, EnrollmentInv, TypeOK', SessionsBalanced, NEW d \in Devices,
           Beside(d, attempt[d].session), Len(session') = Len(session),
           NEW h, Reply(d, h) \/ (attempt' = [attempt EXCEPT ![d] = h] /\ faults' = faults),
           attempt'[d] = h /\ faults' = faults /\ (Valid' <=> Valid) /\ GoesOn(d) => GoesOn(d)'
    PROVE  SessionsBalanced'
<1>1. attempt \in [Devices -> HeldThings]
  BY Tables DEF EnrollmentInv
<1>2. CASE faults' = faults + 1
  BY <1>2, BesideStep
<1>3. CASE attempt' = [attempt EXCEPT ![d] = h] /\ faults' = faults
  <2>1. attempt'[d] = h
    BY <1>1, <1>3
  <2>2. (Valid' <=> Valid) /\ d \in Starting' => d \in Starting
    BY <1>3, <2>1 DEF Starting
  <2> QED  BY <1>3, <2>2, BesideStep
<1> QED  BY <1>2, <1>3 DEF Reply

\* The creation of a session.
LEMMA CreationStep ==
    ASSUME EnrollmentAssumption, EnrollmentInv, TypeOK', SessionsBalanced, NEW d \in Devices,
           UNCHANGED <<enrollment, forms, edits, posts>>, secret' = secret \/ CountRequest,
           NEW row \in Session, NEW es \in Secrets, CreateSession(row, es),
           NEW h, Reply(d, h) \/ (attempt' = [attempt EXCEPT ![d] = h] /\ faults' = faults)
                  \/ (attempt' = [attempt EXCEPT ![d] = h] /\ faults' = faults + 1),
           h.session \in {Created, 0},
           \A e \in Devices \ {d}, s \in Ids : <<e, s>> \in browser => <<e, s>> \in browser',
           d \in Starting,
           ~es.revoked, ~es.expired, es.serial \in {NoDevice, d},
           attempt'[d] = h /\ faults' = faults =>
             /\ h.session = Created
             /\ es.count + StillNeeded(d)' <= es.quota
             /\ Ready(d)' /\ (Valid \/ ~Awaiting(d)')
    PROVE  SessionsBalanced'
<1>1. TypeOK
  BY DEF EnrollmentInv
<1>2. /\ Len(session') = Created /\ Created \notin Ids
      /\ Ids' = Ids \cup {Created}
      /\ session'[Created] = row /\ key'[Created] = es
      /\ \A s \in Ids : session'[s] = session[s] /\ key'[s] = key[s]
  BY <1>1, SessionCreated
<1>3. Len(session) \in Nat /\ Len(session') = Len(session) + 1
  BY <1>1, <1>2, Elements DEF Created
<1>4. Beside(d, attempt[d].session)
  BY <1>2, DeviceBeside DEF Reply
<1>5. attempt \in [Devices -> HeldThings]
  BY <1>1, Tables
<1>6. CASE faults' = faults + 1
  BY <1>3, <1>4, <1>6, BesideStep
<1>7. CASE attempt' = [attempt EXCEPT ![d] = h] /\ faults' = faults
  <2>1. /\ attempt'[d] = h /\ h.session = Created
        /\ es.count + StillNeeded(d)' <= es.quota /\ Ready(d)' /\ (Valid \/ ~Awaiting(d)')
    BY <1>5, <1>7
  <2>2. UsableKey(d)'
    BY <1>2, <2>1 DEF UsableKey, Key
  <2>3. OwnSession(d)'
    <3>1. \A e \in Devices \ {d} : attempt'[e] = attempt[e] /\ attempt[e].session \in 0 .. Len(session)
      BY <1>4 DEF Beside, EnrollmentInv, HeldSessions
    <3>2. \A e \in Devices : attempt'[e].session = attempt'[d].session => e = d
      BY <1>3, <2>1, <3>1 DEF Created
    <3>3. \A p \in posts' : p.session # Created
      BY <1>2 DEF EnrollmentInv, PostedRows
    <3> QED  BY <1>2, <2>1, <3>2, <3>3 DEF OwnSession
  <2>4. (Valid' <=> Valid) => d \notin Starting'
    BY <2>1, <2>2, <2>3 DEF Starting, GoesOn, Valid
  <2> QED  BY <1>3, <1>4, <1>7, <2>4, BesideStep
<1> QED  BY <1>6, <1>7 DEF Reply

\* A device that goes on keeps its session.
LEMMA MovesOn ==
    ASSUME NEW d \in Devices, Beside(d, attempt[d].session), GoesOn(d),
           attempt'[d].session = attempt[d].session,
           \A p \in posts' : p.session = attempt[d].session => ~p.lost,
           UsableKey(d)', Ready(d)', Valid' \/ ~Awaiting(d)'
    PROVE  GoesOn(d)'
<1>1. attempt[d].session \in Ids'
  BY DEF Beside, GoesOn, OwnSession
<1>2. \A e \in Devices : attempt'[e].session = attempt'[d].session => e = d
  BY DEF Beside, GoesOn, OwnSession
<1> QED  BY <1>1, <1>2 DEF GoesOn, OwnSession, Valid

\* The request of a device that goes on is accepted.
LEMMA GoesOnAccepted ==
    ASSUME EnrollmentAssumption, EnrollmentInv, NEW d \in Devices, GoesOn(d)
    PROVE  Accepted(d)
<1>1. /\ attempt[d].session \in Ids /\ Key(d) \in Secrets
      /\ ~Key(d).revoked /\ ~Key(d).expired /\ Key(d).serial \in {NoDevice, d}
      /\ Key(d).count + StillNeeded(d) <= Key(d).quota
  BY Elements DEF EnrollmentInv, GoesOn, OwnSession, UsableKey, Key
<1>2. Key(d).count \in Nat /\ Key(d).quota \in Nat
  BY <1>1 DEF Secrets
<1>3. Ready(d)
  BY DEF GoesOn
<1>4. CASE Here(d, "challenge")
  <2>1. VerifiedKey(d, d)
    BY <1>1, <1>2, <1>4 DEF VerifiedKey, IsValid, StillNeeded, Here
  <2>2. Row(d).user /\ Row(d).status = "PHASE_1"
    BY <1>3, <1>4 DEF Ready, Here
  <2> QED  BY <1>4, <2>1, <2>2 DEF Accepted, CanBind, Here
<1>5. CASE attempt[d].item \in {"ota_scep", "mdm_scep"}
  <2>1. VerifiedKey(d, Key(d).serial)
    BY <1>1, <1>2, <1>5 DEF VerifiedKey, IsValid, StillNeeded, Here
  <2>2. Row(d).status = ScepStatus(d)
    BY <1>3, <1>5 DEF Ready, Here
  <2> QED  BY <1>5, <2>1, <2>2 DEF Accepted, CanVerifyCSR
<1>6. CASE Here(d, "page")
  BY <1>3, <1>6 DEF Ready, Here, Accepted
<1>7. CASE Here(d, "url")
  <2>1. VerifiedKey(d, NoDevice)
    BY <1>1, <1>2, <1>7 DEF VerifiedKey, IsValid, StillNeeded, Here
  <2>2. enrollment.realm
    BY <1>3, <1>7 DEF Ready, Here, CanCallBack
  <2> QED  BY <1>7, <2>1, <2>2 DEF Accepted, CanAuthenticateUser, Here
<1>8. CASE Here(d, "login")
  BY <1>3, <1>8 DEF Ready, Here, Accepted
<1>9. CASE Here(d, "token")
  BY <1>3, <1>9 DEF Ready, Here, Accepted, CanStart, Verified, GoesOn, Awaiting
<1>10. CASE attempt[d].item \in {"ota_cert", "mdm_cert", "authenticated", "waiting", "enrolled"}
  BY <1>3, <1>10 DEF Ready, Here, Accepted
<1> QED  BY <1>3, <1>4, <1>5, <1>6, <1>7, <1>8, <1>9, <1>10 DEF Ready, Here

\* The requests before there is a session, and the ones that are refused.
LEMMA ExplainedWithoutSession ==
    ASSUME EnrollmentAssumption, EnrollmentInv, TypeOK', SessionsBalanced, NEW d \in Devices,
           \/ DownloadPayload(d) \/ OTAWebLogin(d) \/ DEPWebEnroll(d) \/ Refused(d)
           \/ FinalizeLogin(d) /\ enrollment.type = "OTA"
    PROVE  SessionsBalanced'
<1>1. TypeOK /\ secret \in Secrets
  BY Tables DEF EnrollmentInv
<1>2. /\ UNCHANGED <<enrollment, forms, edits>> /\ UNCHANGED <<session, key, posts>>
      /\ secret' = secret \/ CountRequest
  BY DEF DownloadPayload, OTAWebLogin, DEPWebEnroll, Refused, FinalizeLogin, admin, tables, lockfree
<1>3. \A e \in Devices \ {d}, s \in Ids : <<e, s>> \in browser => <<e, s>> \in browser'
  BY DEF DownloadPayload, OTAWebLogin, DEPWebEnroll, Refused, FinalizeLogin
<1>4. Ids' = Ids /\ Len(session') = Len(session)
  BY <1>2 DEF Ids
<1>5. ASSUME NEW h, h.session = 0,
             Reply(d, h) \/ (attempt' = [attempt EXCEPT ![d] = h] /\ faults' = faults)
      PROVE  Beside(d, attempt[d].session)
  BY <1>2, <1>3, <1>4, <1>5, DeviceBeside
<1>6. CASE DownloadPayload(d)
  <2>1. ~GoesOn(d)
    BY <1>6 DEF DownloadPayload, GoesOn, Ready, Here
  <2>2. /\ attempt' = [attempt EXCEPT ![d] = Held("payload", 0)] /\ faults' = faults
        /\ Held("payload", 0).session = 0
    BY <1>6 DEF DownloadPayload, Held
  <2>3. Beside(d, attempt[d].session)
    BY <1>5, <2>2
  <2> QED  BY <1>4, <2>1, <2>2, <2>3, RequestStep
<1>7. CASE OTAWebLogin(d)
  <2>1. ~GoesOn(d)
    BY <1>7 DEF OTAWebLogin, GoesOn, Ready, Here
  <2>2. /\ attempt' = [attempt EXCEPT ![d] = Held("login", 0)] /\ faults' = faults
        /\ Held("login", 0).session = 0
    BY <1>7 DEF OTAWebLogin, Held
  <2>3. Beside(d, attempt[d].session)
    BY <1>5, <2>2
  <2> QED  BY <1>4, <2>1, <2>2, <2>3, RequestStep
<1>8. CASE DEPWebEnroll(d)
  <2>1. ~GoesOn(d)
    BY <1>8 DEF DEPWebEnroll, GoesOn, Ready, Here
  <2>4. Reply(d, Held("login", 0)) /\ Held("login", 0).session = 0
    BY <1>8 DEF DEPWebEnroll, Held
  <2>5. Beside(d, attempt[d].session)
    BY <1>5, <2>4
  <2> QED  BY <1>4, <2>1, <2>4, <2>5, RequestStep
<1>9. CASE Refused(d)
  <2>1. ~GoesOn(d)
    BY <1>9, GoesOnAccepted DEF Refused
  <2>2. /\ attempt' = [attempt EXCEPT ![d] = Nothing] /\ faults' = faults
        /\ Nothing.session = 0
    BY <1>9 DEF Refused, Nothing, Held
  <2>3. Beside(d, attempt[d].session)
    BY <1>5, <2>2
  <2> QED  BY <1>4, <2>1, <2>2, <2>3, RequestStep
<1>10. CASE FinalizeLogin(d) /\ enrollment.type = "OTA"
  <2>1. ~GoesOn(d)
    BY <1>10 DEF FinalizeLogin, GoesOn, Ready, Here
  <2>2. \/ attempt' = [attempt EXCEPT ![d] = Nothing] /\ faults' = faults
        \/ attempt' = [attempt EXCEPT ![d] = Held(UsedLogin, 0)] /\ faults' = faults + 1
    BY <1>10 DEF FinalizeLogin
  <2>3. Nothing.session = 0 /\ Held(UsedLogin, 0).session = 0
    BY DEF Nothing, Held
  <2>4. CASE attempt' = [attempt EXCEPT ![d] = Nothing] /\ faults' = faults
    <3>1. Beside(d, attempt[d].session)
      BY <1>5, <2>3, <2>4
    <3> QED  BY <1>4, <2>1, <2>3, <2>4, <3>1, RequestStep
  <2>5. CASE attempt' = [attempt EXCEPT ![d] = Held(UsedLogin, 0)] /\ faults' = faults + 1
    <3>1. Beside(d, attempt[d].session)
      BY <1>2, <1>3, <1>4, <2>3, <2>5, DeviceBeside
    <3> QED  BY <1>4, <2>5, <3>1, BesideStep
  <2> QED  BY <2>2, <2>4, <2>5
<1> QED  BY <1>6, <1>7, <1>8, <1>9, <1>10

\* A request that changes the row and the secret of the session, or one of them.
LEMMA RowRequest ==
    ASSUME EnrollmentAssumption, EnrollmentInv, TypeOK', SessionsBalanced, NEW d \in Devices,
           attempt[d].session \in Ids,
           UNCHANGED <<enrollment, forms, edits, secret, posts>>,
           \A e \in Devices \ {d}, s \in Ids : <<e, s>> \in browser => <<e, s>> \in browser',
           Len(session') = Len(session),
           \A s \in Ids \ {attempt[d].session} : session'[s] = session[s] /\ key'[s] = key[s],
           key'[attempt[d].session].expired = Key(d).expired,
           NEW h, Reply(d, h), h.session = attempt[d].session,
           h.item \notin {"url", "login", "token", "waiting"} \/ Awaiting(d),
           attempt'[d] = h /\ GoesOn(d) => UsableKey(d)' /\ Ready(d)'
    PROVE  SessionsBalanced'
<1>1. Ids' = Ids
  BY DEF Ids
<1>2. \A s \in Ids : key[s].expired => key'[s].expired
  BY DEF Key
<1>3. Beside(d, attempt[d].session)
  BY <1>1, <1>2, DeviceBeside
<1>4. ASSUME attempt'[d] = h, GoesOn(d)
      PROVE  GoesOn(d)'
  <2>1. \A p \in posts' : p.session = attempt[d].session => ~p.lost
    BY <1>4 DEF GoesOn, OwnSession
  <2>2. Valid' \/ ~Awaiting(d)'
    BY <1>4 DEF Awaiting, GoesOn, Here, Valid
  <2> QED  BY <1>3, <1>4, <2>1, <2>2, MovesOn
<1> QED  BY <1>3, <1>4, RequestStep

\* The same, for the rows that are set with the status.
LEMMA StatusRequest ==
    ASSUME EnrollmentAssumption, EnrollmentInv, TypeOK', SessionsBalanced, NEW d \in Devices,
           attempt[d].session \in Ids,
           NEW row \in Session, NEW es \in Secrets, SetNextStatus(d, row, es),
           UNCHANGED <<admin, secret, lockfree, browser>>,
           es.expired = Key(d).expired,
           NEW item \in Items \ {"url", "login", "token", "waiting"}, Reply(d, Holding(d, item)),
           /\ attempt'[d].item = item /\ attempt'[d].session = attempt[d].session
           /\ GoesOn(d) /\ Row(d)' = row /\ Key(d)' = es
           => UsableKey(d)' /\ Ready(d)'
    PROVE  SessionsBalanced'
<1>1. TypeOK
  BY DEF EnrollmentInv
<1>2. /\ Len(session') = Len(session)
      /\ session'[attempt[d].session] = row /\ key'[attempt[d].session] = es
      /\ \A s \in Ids \ {attempt[d].session} : session'[s] = session[s] /\ key'[s] = key[s]
  BY <1>1, RowsChanged
<1>3. UNCHANGED <<enrollment, forms, edits, secret, posts>> /\ UNCHANGED browser
  BY DEF admin, lockfree
<1>4. /\ Holding(d, item).item = item
      /\ Holding(d, item).item \notin {"url", "login", "token", "waiting"}
      /\ Holding(d, item).session = attempt[d].session
  BY HoldingTyped
<1>5. ASSUME attempt'[d] = Holding(d, item), GoesOn(d)
      PROVE  UsableKey(d)' /\ Ready(d)'
  <2>1. attempt'[d].item = item /\ attempt'[d].session = attempt[d].session
    BY <1>4, <1>5
  <2>2. Row(d)' = row /\ Key(d)' = es
    BY <1>2, <2>1 DEF Row, Key
  <2> QED  BY <1>5, <2>1, <2>2
<1> QED  BY <1>2, <1>3, <1>4, <1>5, RowRequest

LEMMA ExplainedBind ==
    ASSUME EnrollmentAssumption, EnrollmentInv, TypeOK', SessionsBalanced, NEW d \in Devices,
           OTAEnrollSession(d)
    PROVE  SessionsBalanced'
<1> DEFINE row == [Row(d) EXCEPT !.status = "PHASE_2", !.requests = @ \cup {"phase2"}]
           es == Bound(Key(d), d)
<1>1. /\ Here(d, "challenge") /\ SetNextStatus(d, row, es) /\ Reply(d, Holding(d, "ota_scep"))
      /\ UNCHANGED <<admin, secret, lockfree, browser>>
  BY DEF OTAEnrollSession
<1>2. attempt[d].session \in Ids /\ Row(d) \in Session /\ Key(d) \in Secrets
  BY <1>1, DeviceRow DEF Here
<1>3. /\ es \in Secrets /\ es.quota = Key(d).quota /\ es.count = Key(d).count + 1
      /\ es.revoked = Key(d).revoked /\ es.expired = Key(d).expired /\ es.serial = d
  <2>1. /\ Counted(Key(d)) \in Secrets
        /\ Counted(Key(d)).revoked = Key(d).revoked /\ Counted(Key(d)).expired = Key(d).expired
    BY <1>2, CountedTyped DEF Counted, Secrets
  <2>2. es.revoked = Key(d).revoked /\ es.expired = Key(d).expired /\ es.serial = d
    BY <2>1 DEF Bound, Secrets
  <2> HIDE DEF es
  <2>3. es \in Secrets /\ es.quota = Key(d).quota /\ es.count = Key(d).count + 1
    BY <1>2, BoundTyped DEF es
  <2> QED  BY <2>2, <2>3
<1>4. row \in Session /\ row.status = "PHASE_2" /\ row.enrolled = Row(d).enrolled
  <2>1. "PHASE_2" \in Statuses /\ "phase2" \in RequestNames
    BY DEF Statuses, RequestNames
  <2>2. row = Recorded(Row(d), "PHASE_2", "phase2")
    BY DEF Recorded
  <2> HIDE DEF row
  <2> QED  BY <1>2, <2>1, <2>2, RequestAdded
<1> HIDE DEF row, es
<1>5. ASSUME attempt'[d].item = "ota_scep", attempt'[d].session = attempt[d].session, GoesOn(d),
             Row(d)' = row, Key(d)' = es
      PROVE  UsableKey(d)' /\ Ready(d)'
  <2>1. /\ ~Key(d).revoked /\ ~Key(d).expired /\ Key(d).count + 3 <= Key(d).quota
    BY <1>1, <1>5 DEF GoesOn, UsableKey, StillNeeded, Here
  <2>2. StillNeeded(d)' = 2
    BY <1>5 DEF StillNeeded, Here
  <2>3. Key(d).count \in Nat /\ Key(d).quota \in Nat
    BY <1>2 DEF Secrets
  <2>4. es.count + 2 <= es.quota
    BY <1>3, <2>1, <2>3
  <2>5. UsableKey(d)'
    BY <1>3, <1>5, <2>1, <2>2, <2>4 DEF UsableKey
  <2>6. ScepStatus(d)' = "PHASE_2"
    BY <1>5 DEF ScepStatus, Here
  <2>7. enrollment'.type = "OTA" /\ row.enrolled = NoDevice
    BY <1>1, <1>4, <1>5 DEF EnrollmentInv, HeldSessions, GoesOn, Ready, Here, admin
  <2> QED  BY <1>4, <1>5, <2>5, <2>6, <2>7 DEF Ready, Here
<1>6. "ota_scep" \in Items \ {"url", "login", "token", "waiting"}
  BY DEF Items
<1> QED  BY <1>1, <1>2, <1>3, <1>4, <1>5, <1>6, StatusRequest

LEMMA ExplainedPhase3 ==
    ASSUME EnrollmentAssumption, EnrollmentInv, TypeOK', SessionsBalanced, NEW d \in Devices,
           OTAPhase3(d)
    PROVE  SessionsBalanced'
<1> DEFINE row == [Row(d) EXCEPT !.status = "PHASE_3"]
<1>1. /\ Here(d, "ota_cert") /\ SetNextStatus(d, row, Key(d)) /\ Reply(d, Holding(d, "mdm_scep"))
      /\ UNCHANGED <<admin, secret, lockfree, browser>>
  BY DEF OTAPhase3
<1>2. attempt[d].session \in Ids /\ Row(d) \in Session /\ Key(d) \in Secrets
  BY <1>1, DeviceRow DEF Here
<1>3. row \in Session /\ row.status = "PHASE_3" /\ row.enrolled = Row(d).enrolled
  <2>1. "PHASE_3" \in Statuses
    BY DEF Statuses
  <2> QED  BY <1>2, <2>1, StatusSet
<1> HIDE DEF row
<1>5. ASSUME attempt'[d].item = "mdm_scep", attempt'[d].session = attempt[d].session, GoesOn(d),
             Row(d)' = row, Key(d)' = Key(d)
      PROVE  UsableKey(d)' /\ Ready(d)'
  <2>1. StillNeeded(d) = 1 /\ StillNeeded(d)' = 1
    BY <1>1, <1>5 DEF StillNeeded, Here
  <2>2. UsableKey(d)'
    BY <1>5, <2>1 DEF GoesOn, UsableKey
  <2>3. enrollment.type = "OTA" /\ row.enrolled = NoDevice
    BY <1>1, <1>3, <1>5 DEF GoesOn, Ready, Here
  <2>4. ScepStatus(d)' = "PHASE_3"
    BY <1>1, <1>5, <2>3 DEF ScepStatus, Here, admin
  <2> QED  BY <1>3, <1>5, <2>2, <2>3, <2>4 DEF Ready, Here
<1>6. "mdm_scep" \in Items \ {"url", "login", "token", "waiting"}
  BY DEF Items
<1> QED  BY <1>1, <1>2, <1>3, <1>5, <1>6, StatusRequest

LEMMA ExplainedCSR ==
    ASSUME EnrollmentAssumption, EnrollmentInv, TypeOK', SessionsBalanced, NEW d \in Devices,
           VerifySCEPCSR(d)
    PROVE  SessionsBalanced'
<1> DEFINE st == ScepVerified(d)
           item == IF Here(d, "ota_scep") THEN "ota_cert" ELSE "mdm_cert"
           row == [Row(d) EXCEPT !.status = st, !.requests = @ \cup {ScepRequest(d)}]
           es == Counted(Key(d))
<1>1. /\ attempt[d].item \in {"ota_scep", "mdm_scep"} /\ CanVerifyCSR(d)
      /\ SetNextStatus(d, row, es) /\ Reply(d, Holding(d, item))
      /\ UNCHANGED <<admin, secret, lockfree, browser>>
  BY DEF VerifySCEPCSR
<1>2. attempt[d].session \in Ids /\ Row(d) \in Session /\ Key(d) \in Secrets
  BY <1>1, DeviceRow
<1>3. /\ es \in Secrets /\ es.quota = Key(d).quota /\ es.count = Key(d).count + 1
      /\ es.revoked = Key(d).revoked /\ es.expired = Key(d).expired /\ es.serial = Key(d).serial
  BY <1>2, CountedTyped DEF Counted, Secrets
<1>4. /\ st \in {"PHASE_2_SCEP_VERIFIED", "PHASE_3_SCEP_VERIFIED", "SCEP_VERIFIED"}
      /\ ScepRequest(d) \in RequestNames
      /\ Here(d, "ota_scep") => st = "PHASE_2_SCEP_VERIFIED"
      /\ ~Here(d, "ota_scep") => st # "PHASE_2_SCEP_VERIFIED"
  <2>1. ScepStatus(d) \in {"PHASE_2", "PHASE_3", "STARTED"}
    BY DEF ScepStatus
  <2>2. ScepStatus(d) = "PHASE_2" <=> Here(d, "ota_scep")
    BY DEF ScepStatus
  <2> QED  BY <2>1, <2>2 DEF ScepVerified, ScepRequest, RequestNames
<1> HIDE DEF st
<1>5. row \in Session /\ row.status = st /\ row.enrolled = Row(d).enrolled
  <2>1. st \in Statuses
    BY <1>4 DEF Statuses
  <2>2. row = Recorded(Row(d), st, ScepRequest(d))
    BY DEF Recorded
  <2> HIDE DEF row
  <2> QED  BY <1>2, <1>4, <2>1, <2>2, RequestAdded
<1> HIDE DEF row, es
<1>6. ASSUME attempt'[d].item = item, attempt'[d].session = attempt[d].session, GoesOn(d),
             Row(d)' = row, Key(d)' = es
      PROVE  UsableKey(d)' /\ Ready(d)'
  <2>1. /\ ~Key(d).revoked /\ ~Key(d).expired /\ Key(d).serial \in {NoDevice, d}
        /\ Key(d).count + StillNeeded(d) <= Key(d).quota
    BY <1>6 DEF GoesOn, UsableKey
  <2>2. Key(d).count \in Nat /\ Key(d).quota \in Nat
    BY <1>2 DEF Secrets
  <2>3. CASE Here(d, "ota_scep")
    <3>1. Here(d, "ota_cert")'
      BY <1>6, <2>3 DEF Here
    <3>2. StillNeeded(d) = 2 /\ StillNeeded(d)' = 1
      BY <2>3, <3>1 DEF StillNeeded, Here
    <3>3. es.count + 1 <= es.quota
      BY <1>3, <2>1, <2>2, <3>2
    <3>4. UsableKey(d)'
      BY <1>3, <1>6, <2>1, <3>2, <3>3 DEF UsableKey
    <3>5. CanStartPhase3(d)'
      BY <1>4, <1>5, <1>6, <2>3 DEF CanStartPhase3
    <3>6. enrollment'.type = "OTA" /\ row.enrolled = NoDevice
      BY <1>1, <1>5, <1>6, <2>3 DEF GoesOn, Ready, Here, admin
    <3> QED  BY <1>6, <3>1, <3>4, <3>5, <3>6 DEF Ready, Here
  <2>4. CASE ~Here(d, "ota_scep")
    <3>1. Here(d, "mdm_cert")' /\ Here(d, "mdm_scep")
      BY <1>1, <1>6, <2>4 DEF Here
    <3>2. StillNeeded(d) = 1 /\ StillNeeded(d)' = 0
      BY <3>1 DEF StillNeeded, Here
    <3>3. es.count + 0 <= es.quota
      BY <1>3, <2>1, <2>2, <3>2
    <3>4. UsableKey(d)'
      BY <1>3, <1>6, <2>1, <3>2, <3>3 DEF UsableKey
    <3>5. Row(d).enrolled = NoDevice
      BY <1>6, <3>1 DEF GoesOn, Ready, Here
    <3>6. CanAuthenticate(d)'
      BY <1>4, <1>5, <1>6, <2>4, <3>5 DEF CanAuthenticate
    <3> QED  BY <1>5, <1>6, <3>1, <3>4, <3>5, <3>6 DEF Ready, Here
  <2> QED  BY <2>3, <2>4
<1>7. item \in Items \ {"url", "login", "token", "waiting"}
  BY DEF Items
<1> HIDE DEF item
<1> QED  BY <1>1, <1>2, <1>3, <1>5, <1>6, <1>7, StatusRequest

LEMMA ExplainedAuthenticate ==
    ASSUME EnrollmentAssumption, EnrollmentInv, TypeOK', SessionsBalanced, NEW d \in Devices,
           Authenticate(d)
    PROVE  SessionsBalanced'
<1> DEFINE row == [Row(d) EXCEPT !.status = "AUTHENTICATED", !.enrolled = d]
<1>1. /\ Here(d, "mdm_cert") /\ SetNextStatus(d, row, Key(d))
      /\ Reply(d, Holding(d, "authenticated"))
      /\ UNCHANGED <<admin, secret, lockfree, browser>>
  BY DEF Authenticate
<1>2. attempt[d].session \in Ids /\ Row(d) \in Session /\ Key(d) \in Secrets
  BY <1>1, DeviceRow DEF Here
<1>3. row \in Session /\ row.status = "AUTHENTICATED" /\ row.enrolled = d
  <2>1. "AUTHENTICATED" \in Statuses
    BY DEF Statuses
  <2>2. row = Enrolling(Row(d), "AUTHENTICATED", d)
    BY DEF Enrolling
  <2> HIDE DEF row
  <2> QED  BY <1>2, <2>1, <2>2, EnrolledSet
<1> HIDE DEF row
<1>4. ASSUME attempt'[d].item = "authenticated", attempt'[d].session = attempt[d].session,
             GoesOn(d), Row(d)' = row, Key(d)' = Key(d)
      PROVE  UsableKey(d)' /\ Ready(d)'
  <2>1. StillNeeded(d) = 0 /\ StillNeeded(d)' = 0
    BY <1>1, <1>4 DEF StillNeeded, Here
  <2>2. UsableKey(d)'
    BY <1>4, <2>1 DEF GoesOn, UsableKey
  <2>3. CanUpdateToken(d)'
    BY <1>3, <1>4 DEF CanUpdateToken
  <2> QED  BY <1>4, <2>2, <2>3 DEF Ready, Here
<1>5. "authenticated" \in Items \ {"url", "login", "token", "waiting"}
  BY DEF Items
<1> QED  BY <1>1, <1>2, <1>3, <1>4, <1>5, StatusRequest

LEMMA ExplainedTokenUpdate ==
    ASSUME EnrollmentAssumption, EnrollmentInv, TypeOK', SessionsBalanced, NEW d \in Devices,
           TokenUpdate(d)
    PROVE  SessionsBalanced'
<1> DEFINE row == [Row(d) EXCEPT !.status = "COMPLETED"]
<1>1. /\ Here(d, "authenticated") /\ SetNextStatus(d, row, Key(d))
      /\ Reply(d, Holding(d, "enrolled"))
      /\ UNCHANGED <<admin, secret, lockfree, browser>>
  BY DEF TokenUpdate
<1>2. attempt[d].session \in Ids /\ Row(d) \in Session /\ Key(d) \in Secrets
  BY <1>1, DeviceRow DEF Here
<1>3. row \in Session
  <2>1. "COMPLETED" \in Statuses
    BY DEF Statuses
  <2> QED  BY <1>2, <2>1, StatusSet
<1> HIDE DEF row
<1>4. ASSUME attempt'[d].item = "enrolled", attempt'[d].session = attempt[d].session,
             GoesOn(d), Row(d)' = row, Key(d)' = Key(d)
      PROVE  UsableKey(d)' /\ Ready(d)'
  <2>1. StillNeeded(d) = 0 /\ StillNeeded(d)' = 0
    BY <1>1, <1>4 DEF StillNeeded, Here
  <2>2. UsableKey(d)'
    BY <1>4, <2>1 DEF GoesOn, UsableKey
  <2> QED  BY <1>4, <2>2 DEF Ready, Here
<1>5. "enrolled" \in Items \ {"url", "login", "token", "waiting"}
  BY DEF Items
<1> QED  BY <1>1, <1>2, <1>3, <1>4, <1>5, StatusRequest

LEMMA ExplainedProfile ==
    ASSUME EnrollmentAssumption, EnrollmentInv, TypeOK', SessionsBalanced, NEW d \in Devices,
           DEPProfile(d)
    PROVE  SessionsBalanced'
<1> DEFINE h == Holding(d, "mdm_scep")
<1>1. /\ Here(d, "page") /\ enrollment.type = "DEP" /\ Row(d).status = "STARTED"
      /\ Reply(d, h) /\ UNCHANGED <<admin, tables, lockfree>>
      /\ browser' = browser \ {<<d, attempt[d].session>>}
  BY DEF DEPProfile, CanDownload
<1>2. attempt[d].session \in Ids
  BY <1>1 DEF EnrollmentInv, HeldSessions
<1>3. h.item = "mdm_scep" /\ h.session = attempt[d].session
  BY HoldingTyped DEF Items
<1> HIDE DEF h
<1>4. /\ UNCHANGED <<enrollment, forms, edits, secret, posts>> /\ UNCHANGED session /\ UNCHANGED key
      /\ Len(session') = Len(session)
  BY <1>1 DEF admin, tables, lockfree
<1>5. ASSUME attempt'[d] = h, GoesOn(d)
      PROVE  UsableKey(d)' /\ Ready(d)'
  <2>1. Row(d)' = Row(d) /\ Key(d)' = Key(d)
    BY <1>3, <1>4, <1>5 DEF Row, Key
  <2>2. StillNeeded(d) = 1 /\ StillNeeded(d)' = 1
    BY <1>1, <1>3, <1>5 DEF StillNeeded, Here
  <2>3. UsableKey(d)'
    BY <1>5, <2>1, <2>2 DEF GoesOn, UsableKey
  <2>4. ScepStatus(d)' = "STARTED"
    BY <1>1, <1>3, <1>4, <1>5 DEF ScepStatus, Here
  <2>5. Row(d).enrolled = NoDevice
    BY <1>1, <1>5 DEF GoesOn, Ready, Here
  <2> QED  BY <1>1, <1>3, <1>5, <2>1, <2>3, <2>4, <2>5 DEF Ready, Here
<1>6. key'[attempt[d].session].expired = Key(d).expired
  BY <1>4 DEF Key
<1>7. \A e \in Devices \ {d}, s \in Ids : <<e, s>> \in browser => <<e, s>> \in browser'
  BY <1>1
<1> QED  BY <1>1, <1>2, <1>3, <1>4, <1>5, <1>6, <1>7, RowRequest

LEMMA ExplainedUserLogin ==
    ASSUME EnrollmentAssumption, EnrollmentInv, TypeOK', SessionsBalanced, NEW d \in Devices,
           AuthenticateUser(d)
    PROVE  SessionsBalanced'
<1> DEFINE h == Holding(d, "login")
           i == attempt[d].session
           es == Counted(key[i])
<1>1. /\ Here(d, "url") /\ Reply(d, h) /\ key' = [key EXCEPT ![i] = es]
      /\ UNCHANGED <<admin, secret, session, lockfree, browser>>
  BY DEF AuthenticateUser
<1>2. i \in Ids /\ enrollment.type = "USER"
  BY <1>1 DEF EnrollmentInv, HeldSessions, AccountSessions, Here, Row
<1>3. h.item = "login" /\ h.session = i
  BY HoldingTyped DEF Items
<1>4. /\ key[i] \in Secrets /\ Key(d) = key[i]
      /\ es \in Secrets /\ es.quota = key[i].quota /\ es.count = key[i].count + 1
      /\ es.revoked = key[i].revoked /\ es.expired = key[i].expired /\ es.serial = key[i].serial
  BY <1>2, Elements, CountedTyped DEF EnrollmentInv, Key, Counted, Secrets
<1>5. key \in Seq(Secrets) /\ Ids = 1 .. Len(key) /\ i \in 1 .. Len(key)
  BY <1>2, Tables DEF EnrollmentInv, Ids
<1> HIDE DEF h, es
<1>6. key'[i] = es /\ \A s \in Ids \ {i} : key'[s] = key[s]
  <2> HIDE DEF i
  <2> QED  BY <1>1, <1>4, <1>5, RowSet
<1>7. /\ UNCHANGED <<enrollment, forms, edits, secret, posts>> /\ UNCHANGED session
      /\ UNCHANGED browser /\ Len(session') = Len(session)
  BY <1>1 DEF admin, lockfree
<1>8. ASSUME attempt'[d] = h, GoesOn(d)
      PROVE  UsableKey(d)' /\ Ready(d)'
  <2>1. Row(d)' = Row(d) /\ Key(d)' = es
    BY <1>3, <1>6, <1>7, <1>8 DEF Row, Key
  <2>2. StillNeeded(d) = 2 /\ StillNeeded(d)' = 1
    BY <1>1, <1>3, <1>8 DEF StillNeeded, Here
  <2>3. key[i].count \in Nat /\ key[i].quota \in Nat
    BY <1>4 DEF Secrets
  <2>4. /\ ~key[i].revoked /\ ~key[i].expired /\ key[i].serial \in {NoDevice, d}
        /\ key[i].count + 2 <= key[i].quota
    BY <1>4, <1>8, <2>2 DEF GoesOn, UsableKey
  <2>5. es.count + 1 <= es.quota
    BY <1>4, <2>3, <2>4
  <2>6. UsableKey(d)'
    BY <1>4, <2>1, <2>2, <2>4, <2>5 DEF UsableKey
  <2>7. CanCallBack(d) /\ Row(d).enrolled = NoDevice
    BY <1>1, <1>8 DEF GoesOn, Ready, Here
  <2>8. CanCallBack(d)'
    BY <1>7, <2>1, <2>7 DEF CanCallBack
  <2> QED  BY <1>2, <1>3, <1>7, <1>8, <2>1, <2>6, <2>7, <2>8 DEF Ready, Here
<1>9. key'[attempt[d].session].expired = Key(d).expired /\ Awaiting(d)
  BY <1>1, <1>4, <1>6 DEF Awaiting, Here
<1> QED  BY <1>1, <1>2, <1>3, <1>6, <1>7, <1>8, <1>9, RowRequest

\* A request that does not lock the session: its row is read, and then saved.
LEMMA ExplainedReading ==
    ASSUME EnrollmentAssumption, EnrollmentInv, TypeOK', SessionsBalanced, NEW d \in Devices,
           NEW handler \in {"callback", "enroll"}, NEW row \in Session,
           attempt[d].item \in {"login", "token"}, attempt[d].session \in Ids, enrollment.realm,
           row.enrolled = Row(d).enrolled,
           row.status = IF handler = "enroll" THEN "STARTED" ELSE "ACCOUNT_DRIVEN_AUTHENTICATED",
           Post(d, handler, row), UNCHANGED <<admin, tables, overwritten, browser, faults>>
    PROVE  SessionsBalanced'
<1> DEFINE new == [handler |-> handler, device |-> d, session |-> attempt[d].session,
                   read |-> Row(d), row |-> row, lost |-> FALSE]
           h == Holding(d, "waiting")
<1>1. /\ new.handler = handler /\ ~new.lost /\ new.device = d /\ new.session = attempt[d].session
      /\ new.row = row
  OBVIOUS
<1>2. h.item = "waiting" /\ h.session = attempt[d].session
  BY HoldingTyped DEF Items
<1>3. posts' = posts \cup {new} /\ attempt' = [attempt EXCEPT ![d] = h]
  BY DEF Post
<1> HIDE DEF new, h
<1>4. /\ UNCHANGED <<enrollment, forms, edits, secret>> /\ UNCHANGED session /\ UNCHANGED key
      /\ UNCHANGED browser /\ faults' = faults /\ Len(session') = Len(session) /\ Ids' = Ids
  BY DEF admin, tables, Ids
<1>5. Beside(d, attempt[d].session)
  <2>1. /\ \A p \in posts' : p.session # attempt[d].session => p \in posts
        /\ \A p \in posts : p.session # attempt[d].session => p \in posts'
    BY <1>1, <1>3
  <2> QED  BY <1>2, <1>3, <1>4, <2>1, DeviceBeside
<1>6. ASSUME attempt'[d] = h, GoesOn(d)
      PROVE  GoesOn(d)'
  <2>1. Row(d)' = Row(d) /\ Key(d)' = Key(d)
    BY <1>2, <1>4, <1>6 DEF Row, Key
  <2>2. StillNeeded(d) = 1 /\ StillNeeded(d)' = 1
    BY <1>2, <1>6 DEF StillNeeded, Here
  <2>3. UsableKey(d)'
    BY <1>6, <2>1, <2>2 DEF GoesOn, UsableKey
  <2>4. Row(d).enrolled = NoDevice
    BY <1>6 DEF GoesOn, Ready
  <2>5. (\E p \in posts : Answer(d, p) /\ (p.handler = "callback" => enrollment.realm))'
    <3>1. attempt'[d].session = attempt[d].session /\ new \in posts'
      BY <1>2, <1>3, <1>6
    <3>2. /\ ~new.lost /\ new.device = d /\ new.session = attempt'[d].session
          /\ new.row.enrolled = NoDevice
          /\ new.row.status = IF new.handler = "enroll" THEN "STARTED"
                              ELSE "ACCOUNT_DRIVEN_AUTHENTICATED"
      BY <1>1, <2>4, <3>1
    <3>3. \E p \in posts' :
             /\ ~p.lost /\ p.device = d /\ p.session = attempt'[d].session
             /\ p.row.enrolled = NoDevice
             /\ p.row.status = IF p.handler = "enroll" THEN "STARTED"
                               ELSE "ACCOUNT_DRIVEN_AUTHENTICATED"
      BY <3>1, <3>2
    <3> QED  BY <1>4, <3>3 DEF Answer
  <2>6. Ready(d)'
    BY <1>2, <1>4, <1>6, <2>1, <2>4, <2>5 DEF Ready, Here
  <2>7. \A p \in posts' : p.session = attempt[d].session => ~p.lost
    BY <1>1, <1>3, <1>6 DEF GoesOn, OwnSession
  <2>8. Valid'
    BY <1>4, <1>6 DEF GoesOn, Awaiting, Valid
  <2> QED  BY <1>2, <1>5, <1>6, <2>3, <2>6, <2>7, <2>8, MovesOn
<1> QED  BY <1>2, <1>3, <1>4, <1>5, <1>6, RequestStep

LEMMA ExplainedCallback ==
    ASSUME EnrollmentAssumption, EnrollmentInv, TypeOK', SessionsBalanced, NEW d \in Devices,
           UserCallback(d)
    PROVE  SessionsBalanced'
<1> DEFINE row == Called(Row(d), NewToken)
<1>1. /\ Here(d, "login") /\ enrollment.type = "USER" /\ enrollment.realm
      /\ Post(d, "callback", row)
      /\ UNCHANGED <<admin, tables, overwritten, browser, faults>>
  BY DEF UserCallback, CanCallBack, Called
<1>2. attempt[d].session \in Ids
  BY <1>1 DEF EnrollmentInv, HeldSessions
<1>3. Row(d) \in Session
  BY <1>2, Elements DEF EnrollmentInv, Row
<1>4. NewToken \in Nat
  BY NewTokenTyped DEF EnrollmentInv
<1>5. \A r \in Session, t \in Nat :
         /\ Called(r, t) \in Session /\ Called(r, t).status = "ACCOUNT_DRIVEN_AUTHENTICATED"
         /\ Called(r, t).enrolled = r.enrolled
  BY DEF Session, Called, Statuses
<1>6. row \in Session /\ row.status = "ACCOUNT_DRIVEN_AUTHENTICATED" /\ row.enrolled = Row(d).enrolled
  BY <1>3, <1>4, <1>5
<1> HIDE DEF row
<1>7. attempt[d].item \in {"login", "token"}
  BY <1>1 DEF Here
<1> QED  BY <1>1, <1>2, <1>6, <1>7, ExplainedReading

LEMMA ExplainedUserSession ==
    ASSUME EnrollmentAssumption, EnrollmentInv, TypeOK', SessionsBalanced, NEW d \in Devices,
           EnrollUserSession(d)
    PROVE  SessionsBalanced'
<1> DEFINE row == [Row(d) EXCEPT !.status = "STARTED"]
<1>1. /\ Here(d, "token") /\ enrollment.realm /\ Post(d, "enroll", row)
      /\ UNCHANGED <<admin, tables, overwritten, browser, faults>>
  BY DEF EnrollUserSession, CanStart
<1>2. attempt[d].session \in Ids
  BY <1>1 DEF EnrollmentInv, HeldSessions, Here
<1>3. Row(d) \in Session
  BY <1>2, Elements DEF EnrollmentInv, Row
<1>4. row \in Session /\ row.status = "STARTED" /\ row.enrolled = Row(d).enrolled
  <2>1. "STARTED" \in Statuses
    BY DEF Statuses
  <2> QED  BY <1>3, <2>1, StatusSet
<1> HIDE DEF row
<1>5. attempt[d].item \in {"login", "token"}
  BY <1>1 DEF Here
<1> QED  BY <1>1, <1>2, <1>4, <1>5, ExplainedReading

\* The session of a post that its device has given up is of no device that goes on.
LEMMA ExplainedOverwritten ==
    ASSUME EnrollmentAssumption, EnrollmentInv, TypeOK', SessionsBalanced,
           NEW p \in posts, p.lost, SavePost(p)
    PROVE  SessionsBalanced'
<1>1. /\ UNCHANGED <<enrollment, forms, edits, key, browser, attempt, faults>>
      /\ session' = [session EXCEPT ![p.session] = p.row] /\ posts' = posts \ {p}
      /\ secret' = secret \/ CountRequest
  BY DEF SavePost, admin
<1>2. /\ session \in Seq(Session) /\ p.row \in Session /\ p.session \in Ids /\ Ids = 1 .. Len(session)
  BY Tables, AnsweredTyped DEF EnrollmentInv, PostedRows, Ids
<1>3. /\ Len(session') = Len(session) /\ Ids' = Ids
      /\ \A s \in Ids \ {p.session} : session'[s] = session[s]
  <2> DEFINE i == p.session
  <2>1. i \in 1 .. Len(session) /\ session' = [session EXCEPT ![i] = p.row]
    BY <1>1, <1>2
  <2> HIDE DEF i
  <2>2. Len(session') = Len(session) /\ \A s \in Ids \ {i} : session'[s] = session[s]
    BY <1>2, <2>1, RowSet
  <2> QED  BY <2>2 DEF i, Ids
<1>4. Valid' => Valid
  BY <1>1, ValidBefore DEF EnrollmentInv
<1>5. \A e \in Devices : GoesOn(e) => attempt[e].session # p.session
  BY DEF GoesOn, OwnSession
<1>6. Beside(NoDevice, p.session)
  BY <1>1, <1>3, <1>4, <1>5 DEF Beside
<1>7. NoDevice \in Starting' => NoDevice \in Starting
  BY DEF Starting, EnrollmentAssumption
<1>8. faults' = faults /\ Len(session') = Len(session)
  BY <1>1, <1>3
<1> QED  BY <1>6, <1>7, <1>8, BesideStep

LEMMA ExplainedSaving ==
    ASSUME EnrollmentAssumption, EnrollmentInv, TypeOK', SessionsBalanced,
           NEW p \in posts, ~p.lost, SavePost(p)
    PROVE  SessionsBalanced'
<1> DEFINE d == p.device
           i == p.session
           h == IF p.handler = "enroll" THEN Held("mdm_scep", p.session)
                ELSE [Held("token", p.session) EXCEPT !.token = p.row.token]
<1>1. /\ d \in Devices /\ p.row \in Session /\ h.session = i
      /\ p.handler = "enroll" => h.item = "mdm_scep"
      /\ p.handler # "enroll" => h.item = "token" /\ h.token = p.row.token
  <2>1. p.handler # "enroll" => h.token = p.row.token
    BY DEF Held
  <2> QED  BY <2>1, AnsweredTyped DEF EnrollmentInv
<1>2. /\ UNCHANGED <<enrollment, forms, edits, key, browser, faults>>
      /\ session' = [session EXCEPT ![i] = p.row] /\ posts' = posts \ {p}
      /\ secret' = secret \/ CountRequest
      /\ attempt' = [attempt EXCEPT ![d] = h]
  BY DEF SavePost, admin
<1>3. /\ session \in Seq(Session) /\ i \in Ids /\ Ids = 1 .. Len(session)
      /\ enrollment.type = "USER"
  BY Tables DEF EnrollmentInv, PostedRows, AccountSessions, Ids
<1>4. /\ Here(d, "waiting") /\ attempt[d].session = i
      /\ \A q \in posts : ~q.lost /\ q.device = d => q = p
  BY DEF EnrollmentInv, WaitingPosts
<1> HIDE DEF h, d, i
<1>5. /\ Len(session') = Len(session) /\ Ids' = Ids /\ session'[i] = p.row
      /\ \A s \in Ids \ {i} : session'[s] = session[s]
  <2>1. /\ Len(session') = Len(session) /\ session'[i] = p.row
        /\ \A s \in Ids \ {i} : session'[s] = session[s]
    BY <1>1, <1>2, <1>3, RowSet
  <2> QED  BY <2>1 DEF Ids
<1>6. Beside(d, attempt[d].session)
  <2>1. \A q \in posts : q.session # attempt[d].session => q \in posts'
    BY <1>2, <1>4 DEF i
  <2> QED  BY <1>1, <1>2, <1>4, <1>5, <2>1, DeviceBeside
<1>7. ASSUME attempt'[d] = h, GoesOn(d), Valid' <=> Valid
      PROVE  GoesOn(d)'
  <2>1. Answer(d, p) /\ (p.handler = "callback" => enrollment.realm)
    <3>1. PICK q \in posts : Answer(d, q) /\ (q.handler = "callback" => enrollment.realm)
      BY <1>4, <1>7 DEF GoesOn, Ready, Here
    <3>2. q = p
      BY <1>4, <3>1 DEF Answer
    <3> QED  BY <3>1, <3>2
  <2>1a. p.handler \in {"callback", "enroll"}
    BY DEF EnrollmentInv, TypeOK, Posts
  <2>2. Row(d)' = p.row /\ Key(d)' = Key(d)
    BY <1>1, <1>2, <1>4, <1>5, <1>7 DEF Row, Key
  <2>3. StillNeeded(d) = 1 /\ StillNeeded(d)' = 1
    BY <1>1, <1>4, <1>7 DEF StillNeeded, Here
  <2>4. UsableKey(d)'
    BY <1>7, <2>2, <2>3 DEF GoesOn, UsableKey
  <2>5. Ready(d)'
    <3>1. CASE p.handler = "enroll"
      <4>1. ScepStatus(d)' = "STARTED"
        BY <1>1, <1>2, <1>3, <1>7, <3>1 DEF ScepStatus, Here
      <4>2. Row(d)'.status = "STARTED" /\ Row(d)'.enrolled = NoDevice
        BY <2>1, <2>2, <3>1 DEF Answer
      <4> QED  BY <1>1, <1>7, <3>1, <4>1, <4>2 DEF Ready, Here
    <3>2. CASE p.handler # "enroll"
      <4>1. Row(d)'.status = "ACCOUNT_DRIVEN_AUTHENTICATED" /\ Row(d)'.enrolled = NoDevice
        BY <2>1, <2>2, <3>2 DEF Answer
      <4> QED  BY <1>1, <1>2, <1>7, <2>1, <2>1a, <2>2, <3>2, <4>1 DEF Ready, Here
    <3> QED  BY <3>1, <3>2
  <2>6. \A q \in posts' : q.session = attempt[d].session => ~q.lost
    BY <1>2, <1>7 DEF GoesOn, OwnSession
  <2>7. Valid' \/ ~Awaiting(d)'
    <3>1. CASE p.handler = "enroll"
      BY <1>1, <1>7, <3>1 DEF Awaiting, Here
    <3>2. CASE p.handler = "callback"
      BY <1>4, <1>7, <2>1, <3>2 DEF GoesOn, Awaiting, Here, Valid
    <3> QED  BY <2>1a, <3>1, <3>2
  <2> QED  BY <1>1, <1>4, <1>6, <1>7, <2>4, <2>5, <2>6, <2>7, MovesOn
<1>8. faults' = faults
  BY <1>1, <1>2
<1> QED  BY <1>1, <1>2, <1>5, <1>6, <1>7, <1>8, RequestStep

LEMMA ExplainedTimeOut ==
    ASSUME EnrollmentAssumption, EnrollmentInv, TypeOK', SessionsBalanced,
           NEW p \in posts, TimeOut(p)
    PROVE  SessionsBalanced'
<1> DEFINE d == p.device
           lost == [p EXCEPT !.lost = TRUE]
           h == IF p.handler = "enroll"
                THEN [Held("token", p.session) EXCEPT !.token = p.row.token]
                ELSE Held("url", p.session)
<1>1. /\ d \in Devices /\ p \in Posts /\ h.session = p.session
  BY AnsweredTyped DEF EnrollmentInv, TypeOK
<1>2. lost.session = p.session
  BY <1>1 DEF Posts
<1>3. /\ UNCHANGED <<enrollment, forms, edits, secret, browser>> /\ UNCHANGED session /\ UNCHANGED key
      /\ ~p.lost /\ faults' = faults + 1
      /\ posts' = (posts \ {p}) \cup {lost} /\ attempt' = [attempt EXCEPT ![d] = h]
  BY DEF TimeOut, admin, tables
<1>4. attempt[d].session = p.session
  BY <1>3 DEF EnrollmentInv, WaitingPosts
<1>5. Ids' = Ids /\ Len(session') = Len(session)
  BY <1>3 DEF Ids
<1> HIDE DEF h, lost
<1>6. /\ \A q \in posts' : q.session # attempt[d].session => q \in posts
      /\ \A q \in posts : q.session # attempt[d].session => q \in posts'
  BY <1>2, <1>3, <1>4
<1> HIDE DEF d
<1>7. Beside(d, attempt[d].session)
  BY <1>1, <1>3, <1>4, <1>5, <1>6, DeviceBeside
<1> QED  BY <1>3, <1>5, <1>7, BesideStep
-----------------------------------------------------------------------------
(* The creations: the new session is the one that its device goes on with.  *)

LEMMA ExplainedCreation ==
    ASSUME EnrollmentAssumption, EnrollmentInv, TypeOK', SessionsBalanced, NEW d \in Devices,
           UNCHANGED <<enrollment, forms, edits, posts>>, secret' = secret \/ CountRequest,
           \A e \in Devices \ {d}, s \in Ids : <<e, s>> \in browser => <<e, s>> \in browser',
           NEW row \in Session, NEW es \in Secrets, CreateSession(row, es),
           NEW h, Reply(d, h), h.session = Created,
           ~Ready(d), Valid \/ h.item # "url",
           ~es.revoked, ~es.expired, es.serial \in {NoDevice, d}, es.count = 0,
           row.enrolled = NoDevice,
           \/ /\ h.item = "ota_scep" /\ enrollment.type = "OTA"
              /\ row.status = "PHASE_2" /\ es.quota = 2
           \/ h.item = "challenge" /\ row.status = "PHASE_1" /\ row.user /\ es.quota = 3
           \/ /\ h.item = "mdm_scep" /\ enrollment.type # "OTA"
              /\ row.status = "STARTED" /\ es.quota = 1
           \/ /\ h.item = "url" /\ enrollment.type = "USER" /\ enrollment.realm
              /\ row.status = "ACCOUNT_DRIVEN_START" /\ es.quota > 1
    PROVE  SessionsBalanced'
<1>1. d \in Starting
  BY DEF Starting, GoesOn
<1>2. TypeOK /\ es.quota \in Nat
  BY DEF EnrollmentInv, Secrets
<1>3. session'[Created] = row /\ enrollment' = enrollment
  BY <1>2, SessionCreated
<1>4. ASSUME attempt'[d] = h
      PROVE  Row(d)' = row
  BY <1>3, <1>4 DEF Row
<1>5. ASSUME attempt'[d] = h
      PROVE  es.count + StillNeeded(d)' <= es.quota /\ Ready(d)'
  <2>1. CASE /\ h.item = "ota_scep" /\ enrollment.type = "OTA"
             /\ row.status = "PHASE_2" /\ es.quota = 2
    <3>1. StillNeeded(d)' = 2 /\ ScepStatus(d)' = "PHASE_2"
      BY <1>5, <2>1 DEF StillNeeded, ScepStatus, Here
    <3>2. Ready(d)'
      BY <1>3, <1>4, <1>5, <2>1, <3>1 DEF Ready, Here
    <3> QED  BY <2>1, <3>1, <3>2
  <2>2. CASE h.item = "challenge" /\ row.status = "PHASE_1" /\ row.user /\ es.quota = 3
    <3>1. StillNeeded(d)' = 3
      BY <1>5, <2>2 DEF StillNeeded, Here
    <3>2. Ready(d)'
      BY <1>3, <1>4, <1>5, <2>2 DEF Ready, Here
    <3> QED  BY <2>2, <3>1, <3>2
  <2>3. CASE /\ h.item = "mdm_scep" /\ enrollment.type # "OTA"
             /\ row.status = "STARTED" /\ es.quota = 1
    <3>1. StillNeeded(d)' = 1 /\ ScepStatus(d)' = "STARTED"
      BY <1>3, <1>5, <2>3 DEF StillNeeded, ScepStatus, Here
    <3>2. Ready(d)'
      BY <1>3, <1>4, <1>5, <2>3, <3>1 DEF Ready, Here
    <3> QED  BY <2>3, <3>1, <3>2
  <2>4. CASE /\ h.item = "url" /\ enrollment.type = "USER" /\ enrollment.realm
             /\ row.status = "ACCOUNT_DRIVEN_START" /\ es.quota > 1
    <3>1. StillNeeded(d)' = 2
      BY <1>5, <2>4 DEF StillNeeded, Here
    <3>2. CanCallBack(d)'
      BY <1>3, <1>4, <1>5, <2>4 DEF CanCallBack
    <3>3. Ready(d)'
      BY <1>3, <1>4, <1>5, <2>4, <3>2 DEF Ready, Here
    <3>4. 0 + 2 <= es.quota
      BY <1>2, <2>4
    <3> QED  BY <3>1, <3>3, <3>4
  <2> QED  BY <2>1, <2>2, <2>3, <2>4
<1>6. h.session \in {Created, 0} /\ (attempt'[d] = h => Valid \/ ~Awaiting(d)')
  BY DEF Awaiting, Here
<1> QED  BY <1>1, <1>5, <1>6, CreationStep

LEMMA NewSecretFields ==
    ASSUME EnrollmentAssumption, NEW d \in Devices \cup {NoDevice}
    PROVE  \A quota \in Nat :
              /\ NewSecret(quota, d) \in Secrets /\ NewSecret(quota, d).quota = quota
              /\ NewSecret(quota, d).count = 0 /\ NewSecret(quota, d).serial = d
              /\ ~NewSecret(quota, d).revoked /\ ~NewSecret(quota, d).expired
BY DEF NewSecret, Secrets

LEMMA ExplainedOTACreation ==
    ASSUME EnrollmentAssumption, EnrollmentInv, TypeOK', SessionsBalanced, NEW d \in Devices,
           Here(d, "payload") => enrollment.type = "OTA",
           OTAEnroll(d) \/ OTAWebEnroll(d)
    PROVE  SessionsBalanced'
<1>1. CASE OTAEnroll(d)
  <2> DEFINE row == NewSession("PHASE_2", FALSE, FALSE)
             es == NewSecret(2, d)
             h == Held("ota_scep", Created)
  <2>1. /\ Here(d, "payload") /\ IsValid(secret, d) /\ CountRequest /\ CreateSession(row, es)
        /\ Reply(d, h) /\ UNCHANGED <<enrollment, forms, edits, posts, browser>>
    BY <1>1 DEF OTAEnroll, CanEnroll, Verified, admin, lockfree
  <2>2. enrollment.type = "OTA" /\ ~Ready(d)
    BY <2>1 DEF Ready, Here
  <2>3. row \in Session /\ row.status = "PHASE_2" /\ row.enrolled = NoDevice
    BY NewSessionTyped DEF Statuses
  <2>4. /\ es \in Secrets /\ es.quota = 2 /\ es.count = 0 /\ es.serial = d
        /\ ~es.revoked /\ ~es.expired
    BY NewSecretFields
  <2>5. h.item = "ota_scep" /\ h.session = Created
    BY DEF Held
  <2> HIDE DEF row, es, h
  <2> QED  BY <2>1, <2>2, <2>3, <2>4, <2>5, ExplainedCreation
<1>2. CASE OTAWebEnroll(d)
  <2> DEFINE row == NewSession("PHASE_1", FALSE, TRUE)
             es == NewSecret(RealmQuota, NoDevice)
             h == Held("challenge", Created)
  <2>1. /\ Here(d, "none") /\ enrollment.type = "OTA" /\ CreateSession(row, es) /\ Reply(d, h)
        /\ UNCHANGED <<enrollment, forms, edits, posts>> /\ secret' = secret
        /\ browser' = browser \ {<<d, 0>>}
    BY <1>2 DEF OTAWebEnroll, admin, lockfree
  <2>2. ~Ready(d)
    BY <2>1 DEF Ready, Here
  <2>3. row \in Session /\ row.status = "PHASE_1" /\ row.user = TRUE /\ row.enrolled = NoDevice
    BY NewSessionTyped DEF Statuses
  <2>4. /\ es \in Secrets /\ es.quota = 3 /\ es.count = 0 /\ es.serial = NoDevice
        /\ ~es.revoked /\ ~es.expired
    BY NewSecretFields DEF RealmQuota
  <2>5. h.item = "challenge" /\ h.session = Created
    BY DEF Held
  <2> HIDE DEF row, es, h
  <2>6. \A e \in Devices \ {d}, s \in Ids : <<e, s>> \in browser => <<e, s>> \in browser'
    BY <2>1
  <2> QED  BY <2>1, <2>2, <2>3, <2>4, <2>5, <2>6, ExplainedCreation
<1> QED  BY <1>1, <1>2

LEMMA ExplainedFormCreation ==
    ASSUME EnrollmentAssumption, EnrollmentInv, TypeOK', SessionsBalanced, NEW d \in Devices,
           DEPEnroll(d) \/ UserForm(d) \/ EnrollUser(d)
    PROVE  SessionsBalanced'
<1>1. UNCHANGED <<enrollment, forms, edits, posts, browser>> /\ (secret' = secret \/ CountRequest)
  BY DEF DEPEnroll, UserForm, EnrollUser, admin, lockfree
<1>2. ~Ready(d)
  BY DEF DEPEnroll, UserForm, EnrollUser, Ready, Here
<1>3. Valid \/ ~EnrollUser(d)
  BY DEF EnrollUser, Verified, Valid
<1>4. "STARTED" \in Statuses /\ "ACCOUNT_DRIVEN_START" \in Statuses
  BY DEF Statuses
<1>5. NoDevice \in Devices \cup {NoDevice} /\ d \in Devices \cup {NoDevice}
  OBVIOUS
<1>6. /\ Held("mdm_scep", Created).item = "mdm_scep" /\ Held("mdm_scep", Created).session = Created
      /\ Held("url", Created).item = "url" /\ Held("url", Created).session = Created
  BY DEF Held
<1>7. CASE DEPEnroll(d)
  <2> DEFINE row == NewSession("STARTED", FALSE, FALSE)
             es == NewSecret(1, d)
  <2>1. CreateSession(row, es) /\ Reply(d, Held("mdm_scep", Created)) /\ enrollment.type = "DEP"
    BY <1>7 DEF DEPEnroll
  <2>2. row \in Session /\ row.status = "STARTED" /\ row.enrolled = NoDevice
    BY <1>4, NewSessionTyped
  <2>3. /\ es \in Secrets /\ es.quota = 1 /\ es.count = 0 /\ es.serial = d
        /\ ~es.revoked /\ ~es.expired
    BY <1>5, NewSecretFields
  <2> HIDE DEF row, es
  <2> QED  BY <1>1, <1>2, <1>3, <1>6, <2>1, <2>2, <2>3, ExplainedCreation
<1>8. CASE UserForm(d)
  <2> DEFINE row == NewSession("STARTED", FALSE, FALSE)
             es == NewSecret(1, NoDevice)
  <2>1. CreateSession(row, es) /\ Reply(d, Held("mdm_scep", Created)) /\ enrollment.type = "USER"
    BY <1>8 DEF UserForm
  <2>2. row \in Session /\ row.status = "STARTED" /\ row.enrolled = NoDevice
    BY <1>4, NewSessionTyped
  <2>3. /\ es \in Secrets /\ es.quota = 1 /\ es.count = 0 /\ es.serial = NoDevice
        /\ ~es.revoked /\ ~es.expired
    BY <1>5, NewSecretFields
  <2> HIDE DEF row, es
  <2> QED  BY <1>1, <1>2, <1>3, <1>6, <2>1, <2>2, <2>3, ExplainedCreation
<1>9. CASE EnrollUser(d)
  <2> DEFINE row == NewSession("ACCOUNT_DRIVEN_START", TRUE, FALSE)
             es == NewSecret(AccountQuota, NoDevice)
  <2>1. /\ CreateSession(row, es) /\ Reply(d, Held("url", Created))
        /\ enrollment.type = "USER" /\ enrollment.realm
    BY <1>9 DEF EnrollUser
  <2>2. row \in Session /\ row.status = "ACCOUNT_DRIVEN_START" /\ row.enrolled = NoDevice
    BY <1>4, NewSessionTyped
  <2>3. AccountQuota \in Nat /\ AccountQuota > 1
    BY CountingAssumption DEF EnrollmentAssumption
  <2>4. /\ es \in Secrets /\ es.quota = AccountQuota /\ es.count = 0 /\ es.serial = NoDevice
        /\ ~es.revoked /\ ~es.expired
    BY <1>5, <2>3, NewSecretFields
  <2>5. es.quota > 1
    BY <2>3, <2>4
  <2> HIDE DEF row, es
  <2> QED  BY <1>1, <1>2, <1>3, <1>6, <1>9, <2>1, <2>2, <2>4, <2>5, ExplainedCreation
<1> QED  BY <1>7, <1>8, <1>9
LEMMA ExplainedLogin ==
    ASSUME EnrollmentAssumption, EnrollmentInv, TypeOK', SessionsBalanced, NEW d \in Devices,
           FinalizeLogin(d), enrollment.type # "OTA"
    PROVE  SessionsBalanced'
<1> DEFINE row == NewSession("STARTED", FALSE, TRUE)
           es == NewSecret(1, d)
<1>1. /\ Here(d, "login") /\ enrollment.type = "DEP" /\ enrollment.realm /\ CreateSession(row, es)
      /\ UNCHANGED <<enrollment, forms, edits, posts>> /\ secret' = secret
      /\ browser' = browser \cup {<<d, Created>>}
      /\ \/ attempt' = [attempt EXCEPT ![d] = Held("page", Created)] /\ faults' = faults
         \/ attempt' = [attempt EXCEPT ![d] = Held(UsedLogin, 0)] /\ faults' = faults + 1
  <2>1. enrollment.type \in {"OTA", "DEP", "USER"}
    BY Tables DEF EnrollmentInv
  <2> QED  BY <2>1 DEF FinalizeLogin, admin, lockfree
<1>2. TypeOK /\ faults \in Nat
  BY Elements DEF EnrollmentInv
<1>3. d \in Starting
  BY <1>1 DEF Starting, GoesOn, Ready, Here
<1>4. row \in Session /\ row.status = "STARTED" /\ row.enrolled = NoDevice
  BY NewSessionTyped DEF Statuses
<1>5. /\ es \in Secrets /\ es.quota = 1 /\ es.count = 0 /\ es.serial = d
      /\ ~es.revoked /\ ~es.expired
  BY NewSecretFields
<1>6. /\ Held("page", Created).item = "page" /\ Held("page", Created).session = Created
      /\ Held(UsedLogin, 0).session = 0
  BY DEF Held
<1> HIDE DEF row, es
<1>7. session'[Created] = row
  BY <1>1, <1>2, <1>4, <1>5, SessionCreated
<1>8. \A e \in Devices \ {d}, s \in Ids : <<e, s>> \in browser => <<e, s>> \in browser'
  BY <1>1
<1>9. CASE attempt' = [attempt EXCEPT ![d] = Held("page", Created)] /\ faults' = faults
  <2> DEFINE h == Held("page", Created)
  <2>1. h.item = "page" /\ h.session = Created
    BY <1>6
  <2>2. attempt' = [attempt EXCEPT ![d] = h] /\ faults' = faults
    BY <1>9
  <2> HIDE DEF h
  <2>3. ASSUME attempt'[d] = h
        PROVE  es.count + StillNeeded(d)' <= es.quota /\ Ready(d)'
    <3>1. Row(d)' = row
      BY <1>7, <2>1, <2>3 DEF Row
    <3>2. StillNeeded(d)' = 1
      BY <2>1, <2>3 DEF StillNeeded, Here
    <3>3. CanDownload(d)'
      BY <1>1, <1>4, <2>1, <2>3, <3>1 DEF CanDownload
    <3>4. Ready(d)'
      BY <1>1, <1>4, <2>1, <2>3, <3>1, <3>3 DEF Ready, Here
    <3> QED  BY <1>5, <3>2, <3>4
  <2>4. h.session \in {Created, 0} /\ (attempt'[d] = h => ~Awaiting(d)')
    BY <2>1 DEF Awaiting, Here
  <2> QED  BY <1>1, <1>3, <1>4, <1>5, <1>8, <2>1, <2>2, <2>3, <2>4, CreationStep
<1>10. CASE attempt' = [attempt EXCEPT ![d] = Held(UsedLogin, 0)] /\ faults' = faults + 1
  <2> DEFINE h == Held(UsedLogin, 0)
  <2>1. h.session \in {Created, 0} /\ attempt' = [attempt EXCEPT ![d] = h]
    BY <1>6, <1>10
  <2>2. faults' # faults /\ faults' = faults + 1
    BY <1>2, <1>10
  <2> HIDE DEF h
  <2> QED  BY <1>1, <1>3, <1>4, <1>5, <1>8, <2>1, <2>2, CreationStep
<1> QED  BY <1>1, <1>9, <1>10

-----------------------------------------------------------------------------
(* All the steps.                                                           *)

\* Only OTA enrollments have a profile that is not of a session yet.
LEMMA PayloadsOTA ==
    ASSUME EnrollmentAssumption, EnrollmentInv, Next,
           \A d \in Devices : Here(d, "payload") => enrollment.type = "OTA"
    PROVE  (\A d \in Devices : Here(d, "payload") => enrollment.type = "OTA")'
<1>1. enrollment'.type = enrollment.type
  <2>1. enrollment \in [type : {"OTA", "DEP", "USER"}, realm : BOOLEAN, ldap : BOOLEAN]
    BY DEF EnrollmentInv, TypeOK
  <2>2. (\E f \in forms : SaveForm(f)) => enrollment'.type = enrollment.type
    BY <2>1 DEF SaveForm
  <2>3. OpenForm \/ Revoke \/ (\E s \in Ids : Expire(s)) => enrollment' = enrollment
    BY DEF OpenForm, Revoke, Expire, admin
  <2>4. ASSUME NEW d \in Devices, Device(d) \/ CheckOut(d) \/ Wipe(d)
        PROVE  enrollment' = enrollment
    BY <2>4 DEF Device, CheckOut, Wipe, DownloadPayload, OTAEnroll, OTAWebLogin, OTAWebEnroll,
       OTAEnrollSession, OTAPhase3, DEPEnroll, DEPWebEnroll, DEPProfile, FinalizeLogin, UserForm,
       EnrollUser, AuthenticateUser, UserCallback, EnrollUserSession, VerifySCEPCSR, Authenticate,
       TokenUpdate, Refused, admin
  <2>5. (\E d, e \in Devices : Copy(d, e)) => enrollment' = enrollment
    BY DEF Copy
  <2>6. (\E p \in posts : SavePost(p) \/ TimeOut(p)) => enrollment' = enrollment
    BY DEF SavePost, TimeOut, admin
  <2> QED  BY <2>2, <2>3, <2>4, <2>5, <2>6 DEF Next
<1>2. attempt \in [Devices -> HeldThings]
  BY Tables DEF EnrollmentInv
<1>3. SUFFICES ASSUME NEW e \in Devices, attempt'[e].item = "payload"
               PROVE  enrollment.type = "OTA"
  BY <1>1 DEF Here
<1>4. CASE attempt'[e] = attempt[e]
  BY <1>3, <1>4 DEF Here
<1>5. ASSUME NEW d \in Devices, NEW h, attempt' = [attempt EXCEPT ![d] = h],
             h.item # "payload"
      PROVE  enrollment.type = "OTA"
  BY <1>2, <1>3, <1>4, <1>5
<1>6. ASSUME NEW d \in Devices, NEW h, Reply(d, h), h.item # "payload"
      PROVE  enrollment.type = "OTA"
  BY <1>4, <1>5, <1>6 DEF Reply
<1>7. \A item \in {"none", "challenge", "ota_scep", "ota_cert", "mdm_scep", "mdm_cert",
                   "authenticated", "enrolled", "login", "login_used", "page", "url", "token",
                   "waiting"} :
         /\ \A s : Held(item, s).item = item
         /\ \A s, t : [Held(item, s) EXCEPT !.token = t].item = item
         /\ \A d : Holding(d, item).item = item
  BY DEF Held, Holding
<1>8. Nothing.item = "none" /\ UsedLogin \in {"login", "login_used"}
  BY DEF Nothing, Held, UsedLogin
<1>9. CASE OpenForm \/ Revoke \/ (\E f \in forms : SaveForm(f)) \/ \E s \in Ids : Expire(s)
  BY <1>4, <1>9 DEF OpenForm, SaveForm, Revoke, Expire
<1>10. ASSUME NEW d \in Devices, Device(d)
       PROVE  enrollment.type = "OTA"
  <2>1. CASE DownloadPayload(d)
    BY <2>1 DEF DownloadPayload
  <2>2. CASE OTAEnroll(d) \/ OTAWebEnroll(d) \/ DEPEnroll(d) \/ UserForm(d) \/ EnrollUser(d)
    BY <1>6, <1>7, <2>2 DEF OTAEnroll, OTAWebEnroll, DEPEnroll, UserForm, EnrollUser
  <2>3. CASE OTAWebLogin(d) \/ Refused(d)
    BY <1>5, <1>7, <1>8, <2>3 DEF OTAWebLogin, Refused
  <2>4. CASE OTAEnrollSession(d) \/ OTAPhase3(d) \/ DEPWebEnroll(d) \/ DEPProfile(d)
    BY <1>6, <1>7, <2>4 DEF OTAEnrollSession, OTAPhase3, DEPWebEnroll, DEPProfile
  <2>5. CASE FinalizeLogin(d)
    <3>1. PICK s : \/ attempt' = [attempt EXCEPT ![d] = Held("page", s)]
                   \/ attempt' = [attempt EXCEPT ![d] = Nothing]
                   \/ attempt' = [attempt EXCEPT ![d] = Held(UsedLogin, 0)]
      BY <2>5 DEF FinalizeLogin
    <3> QED  BY <1>5, <1>7, <1>8, <3>1
  <2>6. CASE AuthenticateUser(d) \/ Authenticate(d) \/ TokenUpdate(d)
    BY <1>6, <1>7, <2>6 DEF AuthenticateUser, Authenticate, TokenUpdate
  <2>7. CASE UserCallback(d) \/ EnrollUserSession(d)
    <3>1. attempt' = [attempt EXCEPT ![d] = Holding(d, "waiting")]
      BY <2>7 DEF UserCallback, EnrollUserSession, Post
    <3>2. Holding(d, "waiting").item # "payload"
      BY <1>7
    <3> QED  BY <1>5, <3>1, <3>2
  <2>8. CASE VerifySCEPCSR(d)
    <3>1. Reply(d, Holding(d, IF Here(d, "ota_scep") THEN "ota_cert" ELSE "mdm_cert"))
      BY <2>8 DEF VerifySCEPCSR
    <3>2. (IF Here(d, "ota_scep") THEN "ota_cert" ELSE "mdm_cert") \in {"ota_cert", "mdm_cert"}
      OBVIOUS
    <3> HIDE DEF Here
    <3>3. Holding(d, IF Here(d, "ota_scep") THEN "ota_cert" ELSE "mdm_cert").item # "payload"
      BY <1>7, <3>2
    <3> QED  BY <1>6, <3>1, <3>3
  <2> QED  BY <1>10, <2>1, <2>2, <2>3, <2>4, <2>5, <2>6, <2>7, <2>8 DEF Device
<1>11. CASE \E d \in Devices : CheckOut(d) \/ Wipe(d)
  BY <1>5, <1>8, <1>11 DEF CheckOut, Wipe
<1>12. CASE \E d, f \in Devices : Copy(d, f)
  <2>1. PICK d \in Devices, f \in Devices : Copy(d, f)
    BY <1>12
  <2>2. attempt[d].item # "payload" /\ attempt' = [attempt EXCEPT ![f] = attempt[d]]
    BY <2>1 DEF Copy, Here
  <2> QED  BY <1>5, <2>2
<1>13. ASSUME NEW p \in posts, SavePost(p) \/ TimeOut(p)
       PROVE  enrollment.type = "OTA"
  <2>1. p.device \in Devices
    BY AnsweredTyped, <1>13 DEF EnrollmentInv, TypeOK, Posts
  <2>2. CASE attempt' = attempt
    BY <1>4, <2>2
  <2>3. CASE attempt' # attempt
    <3>1. PICK s, t : \/ attempt' = [attempt EXCEPT ![p.device] = Held("mdm_scep", s)]
                      \/ attempt' = [attempt EXCEPT ![p.device] = [Held("token", s) EXCEPT !.token = t]]
                      \/ attempt' = [attempt EXCEPT ![p.device] = Held("url", s)]
      BY <1>13, <2>3 DEF SavePost, TimeOut
    <3>2. /\ Held("mdm_scep", s).item # "payload" /\ Held("url", s).item # "payload"
          /\ [Held("token", s) EXCEPT !.token = t].item # "payload"
      BY <1>7
    <3> QED  BY <1>5, <2>1, <3>1, <3>2
  <2> QED  BY <2>2, <2>3
<1> QED  BY <1>9, <1>10, <1>11, <1>12, <1>13 DEF Next

\* The secret of a DEP enrollment stays valid.
DEPSecrets ==
    enrollment.type = "DEP" =>
        \A es \in {secret} \cup {f.row : f \in forms} : IsValid(es, NoDevice) /\ es.quota = 0

LEMMA DEPSecretsKept ==
    ASSUME EnrollmentAssumption, EnrollmentInv, Next, DEPSecrets
    PROVE  DEPSecrets'
<1>1. TypeOK /\ secret \in Secrets
  BY Tables DEF EnrollmentInv
<1>2. ASSUME enrollment'.type = enrollment.type, secret' = secret \/ CountRequest, forms' = forms
      PROVE  DEPSecrets'
  <2>1. CASE secret' = secret
    BY <1>2, <2>1 DEF DEPSecrets
  <2>2. CASE CountRequest
    <3>1. /\ secret'.revoked = secret.revoked /\ secret'.expired = secret.expired
          /\ secret'.quota = secret.quota
      BY <1>1, <2>2 DEF CountRequest, Counted, Secrets
    <3> QED  BY <1>2, <3>1 DEF DEPSecrets, IsValid
  <2> QED  BY <1>2, <2>1, <2>2
<1>3. CASE OpenForm
  <2>1. PICK quota \in Quotas, realm \in BOOLEAN :
           /\ enrollment.type = "DEP" => quota = secret.quota
           /\ Read([secret EXCEPT !.quota = quota], realm)
    BY <1>3 DEF OpenForm
  <2>2. enrollment' = enrollment /\ secret' = secret
    BY <1>3 DEF OpenForm, tables
  <2>3. enrollment.type = "DEP" => [secret EXCEPT !.quota = quota] = secret
    BY <1>1, <2>1 DEF Secrets
  <2>4. forms' = forms \cup {[read |-> secret, row |-> [secret EXCEPT !.quota = quota], realm |-> realm]}
    BY <2>1 DEF Read
  <2>5. \A f \in forms' : enrollment.type = "DEP" => f \in forms \/ f.row = secret
    BY <2>3, <2>4
  <2> QED  BY <2>2, <2>5 DEF DEPSecrets
<1>4. CASE Revoke
  <2>1. enrollment' = enrollment /\ enrollment.type # "DEP"
    BY <1>4 DEF Revoke
  <2> QED  BY <2>1 DEF DEPSecrets
<1>5. ASSUME NEW f \in forms, SaveForm(f)
      PROVE  DEPSecrets'
  <2>1. enrollment'.type = enrollment.type
    BY <1>1, <1>5 DEF SaveForm, TypeOK
  <2>2. secret' = f.row /\ forms' \subseteq forms
    BY <1>5 DEF SaveForm
  <2> QED  BY <2>1, <2>2 DEF DEPSecrets
<1>6. CASE \E s \in Ids : Expire(s)
  BY <1>2, <1>6 DEF Expire, admin
<1>7. ASSUME NEW d \in Devices, Device(d) \/ CheckOut(d) \/ Wipe(d)
      PROVE  DEPSecrets'
  BY <1>2, <1>7 DEF Device, CheckOut, Wipe, DownloadPayload, OTAEnroll, OTAWebLogin, OTAWebEnroll,
     OTAEnrollSession, OTAPhase3, DEPEnroll, DEPWebEnroll, DEPProfile, FinalizeLogin, UserForm,
     EnrollUser, AuthenticateUser, UserCallback, EnrollUserSession, VerifySCEPCSR, Authenticate,
     TokenUpdate, Refused, admin, tables
<1>8. CASE \E d, e \in Devices : Copy(d, e)
  BY <1>2, <1>8 DEF Copy, tables
<1>9. CASE \E p \in posts : SavePost(p) \/ TimeOut(p)
  BY <1>2, <1>9 DEF SavePost, TimeOut, admin, tables
<1> QED  BY <1>3, <1>4, <1>5, <1>6, <1>7, <1>8, <1>9 DEF Next

LEMMA NextExplained ==
    ASSUME EnrollmentAssumption, EnrollmentInv, ExplainedInv, Next
    PROVE  ExplainedInv'
<1>1. TypeOK'
  BY NextSound DEF Sound, EnrollmentInv
<1>2. /\ SessionsBalanced /\ DEPSecrets
      /\ \A d \in Devices : Here(d, "payload") => enrollment.type = "OTA"
  BY DEF ExplainedInv, DEPSecrets
<1>3. ASSUME NEW d \in Devices, Device(d)
      PROVE  SessionsBalanced'
  <2>1. CASE \/ DownloadPayload(d) \/ OTAWebLogin(d) \/ DEPWebEnroll(d) \/ Refused(d)
             \/ FinalizeLogin(d)
    BY <1>1, <1>2, <2>1, ExplainedWithoutSession, ExplainedLogin
  <2>2. CASE OTAEnroll(d) \/ OTAWebEnroll(d)
    BY <1>1, <1>2, <2>2, ExplainedOTACreation
  <2>3. CASE DEPEnroll(d) \/ UserForm(d) \/ EnrollUser(d)
    BY <1>1, <1>2, <2>3, ExplainedFormCreation
  <2>4. CASE OTAEnrollSession(d) \/ OTAPhase3(d) \/ VerifySCEPCSR(d)
    BY <1>1, <1>2, <2>4, ExplainedBind, ExplainedPhase3, ExplainedCSR
  <2>5. CASE DEPProfile(d) \/ Authenticate(d) \/ TokenUpdate(d)
    BY <1>1, <1>2, <2>5, ExplainedProfile, ExplainedAuthenticate, ExplainedTokenUpdate
  <2>6. CASE AuthenticateUser(d) \/ UserCallback(d) \/ EnrollUserSession(d)
    BY <1>1, <1>2, <2>6, ExplainedUserLogin, ExplainedCallback, ExplainedUserSession
  <2> QED  BY <1>3, <2>1, <2>2, <2>3, <2>4, <2>5, <2>6 DEF Device
<1>4. OpenForm \/ Revoke \/ (\E f \in forms : SaveForm(f)) => SessionsBalanced'
  BY <1>1, <1>2, ExplainedRead, ExplainedSave DEF DEPSecrets, Valid
<1>5. ASSUME NEW d \in Devices, Device(d) \/ CheckOut(d) \/ Wipe(d)
      PROVE  SessionsBalanced'
  <2>1. CASE CheckOut(d) \/ Wipe(d)
    <3>1. \E e \in Devices : CheckOut(e) \/ Wipe(e)
      BY <2>1
    <3> QED  BY <1>1, <1>2, <3>1, ExplainedLeaving
  <2> QED  BY <1>3, <1>5, <2>1
<1>6. (\E d, e \in Devices : Copy(d, e)) => SessionsBalanced'
  BY <1>1, <1>2, ExplainedLeaving
<1>7. ASSUME NEW i \in Ids, Expire(i)
      PROVE  SessionsBalanced'
  BY <1>1, <1>2, <1>7, ExplainedExpire
<1>8. ASSUME NEW p \in posts, SavePost(p) \/ TimeOut(p)
      PROVE  SessionsBalanced'
  BY <1>1, <1>2, <1>8, ExplainedSaving, ExplainedOverwritten, ExplainedTimeOut
<1>9. SessionsBalanced'
  <2>1. CASE \E i \in Ids : Expire(i)
    BY <1>7, <2>1
  <2>2. CASE \E d \in Devices : Device(d) \/ CheckOut(d) \/ Wipe(d)
    BY <1>5, <2>2
  <2>3. CASE \E p \in posts : SavePost(p) \/ TimeOut(p)
    BY <1>8, <2>3
  <2> QED  BY <1>4, <1>6, <2>1, <2>2, <2>3 DEF Next
<1>10. (\A d \in Devices : Here(d, "payload") => enrollment.type = "OTA")'
  BY <1>2, PayloadsOTA
<1> QED  BY <1>2, <1>9, <1>10, DEPSecretsKept DEF ExplainedInv, DEPSecrets

\* A device needs another session only after a lost reply, an operation of the
\* administrators or of the owners of the devices, or an expired secret: the
\* statuses, the quotas and the serial numbers that the views verify refuse no
\* device that has done nothing wrong (models.py:303, 323, 712 and 849).
THEOREM SessionsAreExplained == Spec => []SessionsExplained
<1>1. Init => ExplainedInv
  <2> SUFFICES ASSUME Init
               PROVE  ExplainedInv
    OBVIOUS
  <2>1. TypeOK
    BY InitInv, EnrollmentAssumption DEF EnrollmentInv
  <2>2. /\ Cardinality(Devices) \in Nat /\ Cardinality(Starting) \in Nat
        /\ Cardinality(Starting) <= Cardinality(Devices) /\ Cardinality(Expired) \in Nat
    BY <2>1, BalanceTypes, EnrollmentAssumption
  <2>3. Len(session) = 0 /\ forms = {} /\ edits = 0 /\ faults = 0
    BY DEF Init
  <2>4. /\ IsFiniteSet(forms)
        /\ Cardinality(Devices) * edits = 0 /\ Cardinality(Devices) * Cardinality(forms) = 0
    BY <2>2, <2>3, FS_EmptySet
  <2>5. SessionsBalanced
    <3> DEFINE n == Cardinality(Devices)
               w == Cardinality(Starting)
               x == Cardinality(Expired)
               l == Slack
    <3>1. n \in Nat /\ w \in Nat /\ w <= n /\ x \in Nat /\ l \in Nat
      BY <2>2 DEF Slack
    <3> HIDE DEF n, w, x, l
    <3>2. 0 + w + 0 <= n + 0 + 0 + x + l
      BY <3>1
    <3> QED  BY <2>3, <2>4, <3>2 DEF SessionsBalanced, Slack, Valid, Expired, n, w, x, l
  <2>6. \A d \in Devices : ~Here(d, "payload")
    BY DEF Init, Here, Nothing, Held
  <2>7. DEPSecrets
    BY DEF Init, DEPSecrets, IsValid, NewSecret
  <2> QED  BY <2>5, <2>6, <2>7 DEF ExplainedInv, DEPSecrets
<1>2. EnrollmentInv /\ ExplainedInv /\ [Next]_vars => ExplainedInv'
  <2>1. ASSUME ExplainedInv, UNCHANGED vars
        PROVE  ExplainedInv'
    <3>1. /\ UNCHANGED <<enrollment, secret, session, key, posts, attempt, browser>>
          /\ UNCHANGED <<forms, edits, faults>>
      BY <2>1 DEF vars, tables, admin, lockfree
    <3>2. Starting' = Starting
      BY <3>1, SameStarting
    <3> QED  BY <2>1, <3>1, <3>2 DEF ExplainedInv, SessionsBalanced, Ids, Here
  <2> QED  BY <2>1, NextExplained, EnrollmentAssumption
<1>3. EnrollmentInv /\ ExplainedInv => SessionsExplained
  <2> SUFFICES ASSUME EnrollmentInv, ExplainedInv
               PROVE  Len(session) <= Cardinality(Started) + faults
                        + Cardinality(Devices) * edits + Cardinality(Expired) + Slack
    BY DEF SessionsExplained, Slack, Valid, Expired
  <2>1. TypeOK
    BY DEF EnrollmentInv
  <2>2. /\ IsFiniteSet(Devices) /\ Cardinality(Devices) \in Nat
        /\ IsFiniteSet(Starting) /\ Cardinality(Starting) \in Nat
        /\ Cardinality(Expired) \in Nat
        /\ Len(session) \in Nat /\ faults \in Nat /\ edits \in Nat
    BY <2>1, BalanceTypes, EnrollmentAssumption
  <2>3. Devices \subseteq Started \cup Starting
    <3>1. \A d \in Devices : attempt[d] = Nothing => ~Ready(d)
      BY DEF Ready, Here, Nothing, Held
    <3> QED  BY <3>1 DEF Started, Starting, GoesOn
  <2>4. IsFiniteSet(Started) /\ Cardinality(Started) \in Nat
    <3>1. Started \subseteq Devices
      BY DEF Started
    <3> QED  BY <2>2, <3>1, FS_Subset, FS_CardinalityType
  <2>5. Cardinality(Devices) <= Cardinality(Started) + Cardinality(Starting)
    <3>1. /\ IsFiniteSet(Started \cup Starting)
          /\ Cardinality(Started \cup Starting) <= Cardinality(Started) + Cardinality(Starting)
      <4>1. /\ IsFiniteSet(Started \cup Starting) /\ IsFiniteSet(Started \cap Starting)
            /\ Cardinality(Started \cup Starting)
                 = Cardinality(Started) + Cardinality(Starting)
                   - Cardinality(Started \cap Starting)
        BY <2>2, <2>4, FS_Union, FS_Intersection
      <4>2. Cardinality(Started \cap Starting) \in Nat
        BY <4>1, FS_CardinalityType
      <4> QED  BY <2>2, <2>4, <4>1, <4>2
    <3>2. /\ Cardinality(Devices) <= Cardinality(Started \cup Starting)
          /\ Cardinality(Started \cup Starting) \in Nat
      BY <2>3, <3>1, FS_Subset, FS_CardinalityType
    <3> QED  BY <2>2, <2>4, <3>1, <3>2
  <2> DEFINE n == Cardinality(Devices)
             w == Cardinality(Starting)
             s == Cardinality(Started)
             x == Cardinality(Expired)
             m == Cardinality(Devices) * edits
             r == Reserve
             l == Slack
  <2>6. /\ n \in Nat /\ w \in Nat /\ s \in Nat /\ x \in Nat /\ l \in Nat /\ n <= s + w
    BY <2>2, <2>4, <2>5 DEF Slack
  <2>7. m \in Nat /\ r \in Nat
    BY <2>1, EnrollmentAssumption, ReserveTypes DEF ExplainedInv
  <2>8. Len(session) + w + r <= n + faults + m + x + l
    BY DEF ExplainedInv, SessionsBalanced, Reserve, Slack, Valid, Expired
  <2> HIDE DEF n, w, s, x, m, r, l
  <2>9. Len(session) <= s + faults + m + x + l
    BY <2>2, <2>6, <2>7, <2>8
  <2> QED  BY <2>9 DEF s, m, x, l
<1> QED  BY <1>1, <1>2, <1>3, EnrollmentInvariant, PTL DEF Spec

=============================================================================
