-------------------------- MODULE AuthSessionsProofs --------------------------
(***************************************************************************)
(* The sessions of administrators, for any number of tabs, calls, sessions *)
(* and logins.                                                             *)
(***************************************************************************)
EXTENDS AuthSessions, FiniteSetTheorems, TLAPS

Rotation == [pc : {"none", "select", "admin", "revoke", "insert", "ok", "no"},
             sid : SessionIds \cup {0}, new : SessionIds \cup {0}]

Types ==
    /\ session \in [SessionIds -> {"none", "live", "revoked", "expired"}]
    /\ cookie \in SessionIds \cup {0}
    /\ active \in BOOLEAN /\ access \in BOOLEAN /\ admin \in [Tabs -> BOOLEAN]
    /\ call \in [Calls -> {"idle", "granted", "refused", "waiting", "regranted", "rerefused"}]
    /\ rotation \in [Rotators -> Rotation]
    /\ logout \subseteq Tabs /\ faults \in 0..MaxFaults
    /\ parted \in {"no", "cleanly", "raced"} /\ excused \in BOOLEAN
    /\ logins \in Nat /\ doubles \in Nat

\* A rotation has an answer exactly when it says so, and only for a session that
\* is stored; past the first statement it has a session to rotate.
RotationOK(r) ==
    /\ rotation[r].pc = "ok" <=> rotation[r].new # 0
    /\ rotation[r].new # 0 => session[rotation[r].new] # "none"
    /\ rotation[r].pc \in {"admin", "revoke", "insert"} => rotation[r].sid # 0

CookieStored == cookie # 0 => session[cookie] # "none"
WaitersServed == \A c \in Calls : call[c] = "waiting" => rotation[c[1]].pc # "none"

\* A rotation between its UPDATE and its INSERT is owed the session it revoked.
Owed == {r \in Rotators : rotation[r].pc = "insert"}
Conserved == IsFiniteSet(Owed) /\ Cardinality(Live) + Cardinality(Owed) <= logins + doubles

\* After a clean logout what is rotated is not live, and is not past the check.
Parted ==
    parted = "cleanly" =>
        /\ cookie \notin Live
        /\ \A r \in Rotators : /\ rotation[r].pc \in {"none", "select", "no"}
                               /\ rotation[r].pc = "select" => rotation[r].sid \notin Live

\* A tab that is alone rotates the session of its cookie, which is live from the
\* login, or from the last rotation, to the UPDATE of the next.
Alone(t) ==
    /\ active /\ logout = {} /\ rotation[Gone].pc = "none"
    /\ rotation[t].pc # "no"
    /\ ~admin[t] => rotation[t].pc = "none" /\ \A c \in CallsOf(t) : call[c] = "idle"
    /\ rotation[t].pc \in {"none", "select", "admin", "revoke"} /\ (admin[t] \/ access) => cookie \in Live
    /\ rotation[t].pc \in {"select", "admin", "revoke"} => rotation[t].sid = cookie
    /\ rotation[t].pc = "ok" => rotation[t].new \in Live

\* The inductive invariant.
Inv ==
    /\ Types
    /\ \A r \in Rotators : RotationOK(r)
    /\ CookieStored /\ WaitersServed /\ Conserved /\ Parted
    /\ ~excused => \A t \in Tabs : Tabs = {t} => Alone(t)

-----------------------------------------------------------------------------
(* Types.                                                                  *)

LEMMA RotatorType ==
    /\ \A t \in Tabs : t \in Rotators /\ (SessionsAssumption => t # Gone)
    /\ Gone \in Rotators
    /\ \A c \in Calls : c[1] \in Tabs
    /\ NoRotation \in Rotation /\ NoRotation.pc = "none" /\ NoRotation.new = 0 /\ NoRotation.sid = 0
  BY DEF Rotators, Calls, NoRotation, Rotation, SessionsAssumption

LEMMA RevokedType ==
    ASSUME Types, NEW sid \in SessionIds \cup {0}
    PROVE  /\ Revoked(sid) \in [SessionIds -> {"none", "live", "revoked", "expired"}]
           /\ \A s \in SessionIds : Revoked(sid)[s] = IF s = sid THEN "revoked" ELSE session[s]
<1>1. 0 \notin SessionIds
  BY DEF SessionIds
<1>2. QED
  BY <1>1 DEF Revoked, Types

\* The statement of rotation r that is answered with pc, and only that.
LEMMA GoesTypes ==
    ASSUME Types, NEW r \in Rotators, NEW from, NEW to \in {"none", "select", "admin", "revoke", "insert", "ok", "no"},
           Goes(r, from, to)
    PROVE  /\ rotation' \in [Rotators -> Rotation]
           /\ rotation[r].pc = from
           /\ rotation'[r].pc = to /\ rotation'[r].sid = rotation[r].sid /\ rotation'[r].new = rotation[r].new
           /\ \A q \in Rotators \ {r} : rotation'[q] = rotation[q]
<1>1. rotation[r] \in Rotation /\ rotation \in [Rotators -> Rotation]
  BY DEF Types
<1>2. rotation' = [rotation EXCEPT ![r] = [rotation[r] EXCEPT !.pc = to]]
  BY <1>1 DEF Goes
<1>3. QED
  BY <1>1, <1>2 DEF Goes, Rotation

LEMMA FaultTypes ==
    ASSUME SessionsAssumption, Types, Fault
    PROVE  faults' \in 0..MaxFaults /\ excused' = TRUE
<1>1. faults' \in 0..MaxFaults
  BY DEF Fault, Types, SessionsAssumption
<1>2. QED
  BY <1>1 DEF Fault

LEMMA ServeTypes ==
    ASSUME SessionsAssumption, Types, NEW r \in Rotators, serve(r) \/ statementFails(r)
    PROVE  Types'
<1>1. rotation[r] \in Rotation /\ rotation[r].sid \in SessionIds \cup {0}
  BY DEF Types, Rotation
<1>2. CASE selectSession(r) \/ findAdminById(r)
  BY <1>2, GoesTypes DEF selectSession, findAdminById, browser, history, Types
<1>3. CASE revokeSession(r)
  <2>1. session' \in [SessionIds -> {"none", "live", "revoked", "expired"}]
    BY <1>1, <1>3, RevokedType DEF revokeSession
  <2>2. rotation' \in [Rotators -> Rotation]
    BY <1>3, GoesTypes DEF revokeSession
  <2>3. doubles' \in Nat
    BY <1>3 DEF revokeSession, Types
  <2>4. QED
    BY <1>3, <2>1, <2>2, <2>3 DEF revokeSession, browser, Types
<1>4. CASE storeRefreshSession(r)
  <2>1. PICK s \in Fresh : /\ session' = [session EXCEPT ![s] = "live"]
                           /\ rotation' = [rotation EXCEPT ![r].pc = "ok", ![r].new = s]
    BY <1>4 DEF storeRefreshSession
  <2>2. s \in SessionIds
    BY DEF Fresh
  <2>3. rotation' \in [Rotators -> Rotation]
    BY <1>1, <2>1, <2>2 DEF Types, Rotation
  <2>4. QED
    BY <1>4, <2>1, <2>2, <2>3 DEF storeRefreshSession, browser, history, Types
<1>5. CASE statementFails(r)
  <2>1. rotation' \in [Rotators -> Rotation]
    BY <1>1, <1>5 DEF statementFails, Types, Rotation
  <2>2. faults' \in 0..MaxFaults /\ excused' = TRUE
    <3>1. CASE Fault
      BY <3>1, FaultTypes
    <3>2. CASE excused' = TRUE /\ UNCHANGED faults
      BY <3>2 DEF Types
    <3>3. QED
      BY <1>5, <3>1, <3>2 DEF statementFails
  <2>3. QED
    BY <1>5, <2>1, <2>2 DEF statementFails, browser, Types
<1>6. QED
  BY <1>2, <1>3, <1>4, <1>5 DEF serve

LEMMA TabTypes ==
    ASSUME SessionsAssumption, Types, NEW t \in Tabs,
           \/ login(t) \/ postLogout(t) \/ logoutAnswered(t) \/ refreshAdmin(t)
           \/ refreshed(t) \/ connectionLost(t)
    PROVE  Types'
<1>1. CASE login(t)
  <2>1. PICK s \in Fresh : session' = [session EXCEPT ![s] = "live"] /\ SetAuthCookies(s)
    BY <1>1 DEF login
  <2>2. s \in SessionIds
    BY DEF Fresh
  <2>3. faults' \in 0..MaxFaults /\ excused' \in BOOLEAN /\ admin' \in [Tabs -> BOOLEAN]
    <3>1. CASE SetAdmin(t, TRUE) /\ UNCHANGED <<excused, faults>>
      BY <3>1 DEF SetAdmin, Types
    <3>2. CASE Fault /\ UNCHANGED admin
      BY <3>2, FaultTypes DEF Types
    <3>3. QED
      BY <1>1, <3>1, <3>2 DEF login
  <2>4. QED
    BY <1>1, <2>1, <2>2, <2>3 DEF login, SetAuthCookies, Types
<1>2. CASE postLogout(t)
  <2>1. session' \in [SessionIds -> {"none", "live", "revoked", "expired"}]
    BY <1>2, RevokedType DEF postLogout, Types
  <2>2. faults' \in 0..MaxFaults /\ logout' \subseteq Tabs /\ parted' \in {"no", "cleanly", "raced"}
    BY <1>2 DEF postLogout, Types, SessionsAssumption
  <2>3. QED
    BY <1>2, <2>1, <2>2 DEF postLogout, browser, Types
<1>3. CASE logoutAnswered(t)
  BY <1>3 DEF logoutAnswered, ClearAuthCookies, SetAdmin, history, Types
<1>4. CASE refreshAdmin(t)
  BY <1>4 DEF refreshAdmin, SetAdmin, history, Types
<1>5. CASE refreshed(t)
  <2>1. rotation' \in [Rotators -> Rotation]
    BY <1>5, RotatorType DEF refreshed, Types
  <2>2. rotation[t] \in Rotation
    BY RotatorType DEF Types
  <2>3. cookie' \in SessionIds \cup {0} /\ access' \in BOOLEAN /\ admin' \in [Tabs -> BOOLEAN] /\ logout' \subseteq Tabs
    BY <1>5, <2>2 DEF refreshed, SetAuthCookies, GoToLogin, SetAdmin, Types, Rotation
  <2>4. call' \in [Calls -> {"idle", "granted", "refused", "waiting", "regranted", "rerefused"}]
    BY <1>5 DEF refreshed, GoToLogin, Types
  <2>5. QED
    BY <1>5, <2>1, <2>3, <2>4 DEF refreshed, history, Types
<1>6. CASE connectionLost(t)
  <2>1. rotation' \in [Rotators -> Rotation]
    BY <1>6, RotatorType DEF connectionLost, Types
  <2>2. faults' \in 0..MaxFaults /\ excused' \in BOOLEAN /\ admin' \in [Tabs -> BOOLEAN] /\ logout' \subseteq Tabs
    BY <1>6 DEF connectionLost, Fault, GoToLogin, SetAdmin, Types, SessionsAssumption
  <2>3. call' \in [Calls -> {"idle", "granted", "refused", "waiting", "regranted", "rerefused"}]
    BY <1>6 DEF connectionLost, GoToLogin, Types
  <2>4. QED
    BY <1>6, <2>1, <2>2, <2>3 DEF connectionLost, GoToLogin, Types
<1>7. QED
  BY <1>1, <1>2, <1>3, <1>4, <1>5, <1>6

LEMMA CallTypes ==
    ASSUME SessionsAssumption, Types, NEW c \in Calls, send(c) \/ answered(c)
    PROVE  Types'
<1>1. CASE send(c)
  BY <1>1 DEF send, browser, history, Types
<1>2. CASE answered(c)
  <2>1. call' \in [Calls -> {"idle", "granted", "refused", "waiting", "regranted", "rerefused"}]
    BY <1>2 DEF answered, Types
  <2>2. [NoRotation EXCEPT !.pc = "select", !.sid = cookie] \in Rotation
    BY DEF NoRotation, Rotation, Types
  <2>3. rotation' \in [Rotators -> Rotation]
    BY <1>2, <2>2, RotatorType DEF answered, Types
  <2>4. UNCHANGED <<session, active, browser, logout, history>>
    BY <1>2 DEF answered
  <2>5. QED
    BY <2>1, <2>3, <2>4 DEF browser, history, Types
<1>3. QED
  BY <1>1, <1>2

LEMMA TimeTypes ==
    ASSUME Types, accessExpires \/ sessionExpires \/ deactivate
    PROVE  Types'
  BY DEF accessExpires, sessionExpires, deactivate, browser, history, Types, Live

-----------------------------------------------------------------------------
(* Counting sessions.                                                      *)

LEMMA LiveFinite ==
    ASSUME SessionsAssumption
    PROVE  IsFiniteSet(Live) /\ Cardinality(Live) \in Nat
<1>1. IsFiniteSet(SessionIds)
  BY FS_Interval DEF SessionIds, SessionsAssumption
<1>2. IsFiniteSet(Live)
  BY <1>1, FS_Subset DEF Live
<1>3. QED
  BY <1>2, FS_CardinalityType

LEMMA LiveFinitePrime ==
    ASSUME SessionsAssumption
    PROVE  IsFiniteSet(Live') /\ Cardinality(Live') \in Nat
<1>1. IsFiniteSet(SessionIds)
  BY FS_Interval DEF SessionIds, SessionsAssumption
<1>2. IsFiniteSet(Live')
  BY <1>1, FS_Subset DEF Live
<1>3. QED
  BY <1>2, FS_CardinalityType

\* Neither a session nor a claim to one is added.
LEMMA ConservedLess ==
    ASSUME SessionsAssumption, Types, Conserved, Live' \subseteq Live, Owed' \subseteq Owed,
           logins' = logins, doubles' = doubles
    PROVE  Conserved'
<1>1. IsFiniteSet(Owed') /\ Cardinality(Owed') <= Cardinality(Owed)
  BY FS_Subset DEF Conserved
<1>2. Cardinality(Live') <= Cardinality(Live)
  BY LiveFinite, FS_Subset
<1>3. Cardinality(Owed) \in Nat /\ Cardinality(Owed') \in Nat
  BY <1>1, FS_CardinalityType DEF Conserved
<1>4. QED
  BY <1>1, <1>2, <1>3, LiveFinite, LiveFinitePrime DEF Conserved, Types

\* The session of s is stored.
LEMMA LiveGrows ==
    ASSUME SessionsAssumption, Types, NEW s \in Fresh, session' = [session EXCEPT ![s] = "live"]
    PROVE  /\ s \in SessionIds /\ s # 0 /\ s \in Live' /\ Live' = Live \cup {s}
           /\ Cardinality(Live') = Cardinality(Live) + 1
           /\ \A q \in SessionIds : session[q] # "none" => session'[q] # "none" /\ q # s
<1>1. s \in SessionIds /\ session[s] = "none"
  BY DEF Fresh
<1>2. Live' = Live \cup {s} /\ s \notin Live
  BY <1>1 DEF Live, Types
<1>3. Cardinality(Live') = Cardinality(Live) + 1
  BY <1>2, LiveFinite, FS_AddElement
<1>4. s # 0
  BY <1>1 DEF SessionIds
<1>5. QED
  BY <1>1, <1>2, <1>3, <1>4 DEF Types

\* The session of sid is revoked.
LEMMA LiveShrinks ==
    ASSUME SessionsAssumption, Types, NEW sid \in SessionIds \cup {0}, session' = Revoked(sid)
    PROVE  /\ Live' = Live \ {sid}
           /\ \A q \in SessionIds : session[q] # "none" => session'[q] # "none"
<1>1. 0 \notin SessionIds
  BY DEF SessionIds
<1>2. \A s \in SessionIds : session'[s] = IF s = sid THEN "revoked" ELSE session[s]
  BY RevokedType
<1>3. QED
  BY <1>1, <1>2 DEF Live

-----------------------------------------------------------------------------
(* The tabs.                                                               *)

LEMMA InitInv == SessionsAssumption /\ Init => Inv
<1> SUFFICES ASSUME SessionsAssumption, Init PROVE Inv
  OBVIOUS
<1>1. Types
  <2>1. faults \in 0..MaxFaults /\ logins \in Nat /\ doubles \in Nat
    BY DEF Init, SessionsAssumption
  <2>2. admin \in [Tabs -> BOOLEAN] /\ active \in BOOLEAN /\ access \in BOOLEAN /\ excused \in BOOLEAN
    BY Zenon DEF Init
  <2>3. rotation \in [Rotators -> Rotation] /\ logout \subseteq Tabs /\ cookie \in SessionIds \cup {0}
    BY RotatorType DEF Init
  <2>4. QED
    BY <2>1, <2>2, <2>3 DEF Init, Types
<1>2. \A r \in Rotators : rotation[r] = NoRotation
  BY DEF Init
<1>3. Live = {} /\ Owed = {}
  BY <1>2, RotatorType DEF Init, Live, Owed
<1>4. Conserved
  BY <1>3, FS_EmptySet DEF Conserved, Init
<1>5. \A r \in Rotators : RotationOK(r)
  BY <1>2, RotatorType DEF RotationOK
<1>6. CookieStored /\ WaitersServed /\ Parted
  BY DEF Init, CookieStored, WaitersServed, Parted
<1>7. \A t \in Tabs : Alone(t)
  BY <1>2, RotatorType DEF Init, Alone, CallsOf
<1>8. QED
  BY <1>1, <1>4, <1>5, <1>6, <1>7 DEF Inv

LEMMA LoginInv ==
    ASSUME SessionsAssumption, Inv, NEW t \in Tabs, login(t)
    PROVE  Inv'
<1>1. Types /\ Types'
  BY TabTypes DEF Inv
<1>2. PICK s \in Fresh : session' = [session EXCEPT ![s] = "live"] /\ SetAuthCookies(s)
  BY DEF login
<1>3. /\ s \in SessionIds /\ s # 0 /\ s \in Live' /\ Live' = Live \cup {s}
      /\ Cardinality(Live') = Cardinality(Live) + 1
      /\ \A q \in SessionIds : session[q] # "none" => session'[q] # "none" /\ q # s
  BY <1>1, <1>2, LiveGrows
<1>4. UNCHANGED <<active, call, rotation, logout, doubles>> /\ logins' = logins + 1 /\ parted' = "no" /\ cookie' = s /\ ~admin[t]
  BY <1>2 DEF login, SetAuthCookies
<1>5. \A r \in Rotators : RotationOK(r)'
  BY <1>1, <1>3, <1>4 DEF Inv, RotationOK, Types, Rotation
<1>6. CookieStored' /\ WaitersServed' /\ Parted'
  BY <1>3, <1>4 DEF Inv, CookieStored, WaitersServed, Parted, Live
<1>7. Conserved'
  <2>1. Owed' = Owed
    BY <1>4 DEF Owed
  <2>2. Cardinality(Owed) \in Nat
    BY FS_CardinalityType DEF Inv, Conserved
  <2>3. QED
    BY <1>1, <1>3, <1>4, <2>1, <2>2, LiveFinite DEF Inv, Conserved, Types
<1>8. ~excused' => \A u \in Tabs : Tabs = {u} => Alone(u)'
  <2> SUFFICES ASSUME ~excused', Tabs = {t} PROVE Alone(t)'
    OBVIOUS
  <2>1. admin' = [admin EXCEPT ![t] = TRUE] /\ ~excused
    BY DEF login, SetAdmin, Fault
  <2>2. Alone(t)
    BY <2>1 DEF Inv
  <2>3. admin'[t]
    BY <1>1, <2>1 DEF Types
  <2>4. rotation[t].pc = "none"
    BY <1>4, <2>2 DEF Alone
  <2>5. QED
    BY <1>3, <1>4, <2>2, <2>3, <2>4 DEF Alone
<1>9. QED
  BY <1>1, <1>5, <1>6, <1>7, <1>8 DEF Inv

LEMMA PostLogoutInv ==
    ASSUME SessionsAssumption, Inv, NEW t \in Tabs, postLogout(t)
    PROVE  Inv'
<1>1. Types /\ Types'
  BY TabTypes DEF Inv
<1>2. UNCHANGED <<active, cookie, access, admin, call, rotation, logins, doubles>> /\ excused' = TRUE
  BY DEF postLogout, browser
<1>3. cookie \in SessionIds \cup {0}
  BY <1>1 DEF Types
<1>4. /\ Live' \subseteq Live
      /\ \A q \in SessionIds : session[q] # "none" => session'[q] # "none"
      /\ parted' = "cleanly" => cookie \notin Live' /\ \A r \in Rotators : rotation[r].pc = "none"
  <2>1. CASE session' = Revoked(cookie) /\ parted' = IF \A r \in Rotators : rotation[r].pc = "none" THEN "cleanly" ELSE "raced"
    BY <1>1, <1>3, <2>1, LiveShrinks
  <2>2. CASE UNCHANGED session /\ parted' = "raced"
    BY <2>2 DEF Live
  <2>3. QED
    BY <2>1, <2>2 DEF postLogout
<1>5. \A r \in Rotators : RotationOK(r)'
  BY <1>1, <1>2, <1>4 DEF Inv, RotationOK, Types, Rotation
<1>6. CookieStored' /\ WaitersServed' /\ Parted'
  BY <1>2, <1>3, <1>4 DEF Inv, CookieStored, WaitersServed, Parted
<1>7. Conserved'
  BY <1>1, <1>2, <1>4, ConservedLess DEF Inv, Owed
<1>8. QED
  BY <1>1, <1>2, <1>5, <1>6, <1>7 DEF Inv

LEMMA LogoutAnsweredInv ==
    ASSUME SessionsAssumption, Inv, NEW t \in Tabs, logoutAnswered(t)
    PROVE  Inv'
<1>1. Types /\ Types'
  BY TabTypes DEF Inv
<1>2. UNCHANGED <<session, active, call, rotation, history>> /\ cookie' = 0 /\ t \in logout
  BY DEF logoutAnswered, ClearAuthCookies
<1>3. 0 \notin Live
  BY DEF Live, SessionIds
<1>4. \A r \in Rotators : RotationOK(r)'
  BY <1>2 DEF Inv, RotationOK
<1>5. CookieStored' /\ WaitersServed' /\ Parted'
  BY <1>2, <1>3 DEF Inv, CookieStored, WaitersServed, Parted, Live, history
<1>6. Conserved'
  BY <1>2 DEF Inv, Conserved, Owed, Live, history
<1>7. ~excused' => \A u \in Tabs : Tabs = {u} => Alone(u)'
  BY <1>2 DEF Inv, Alone, history
<1>8. QED
  BY <1>1, <1>4, <1>5, <1>6, <1>7 DEF Inv

LEMMA RefreshAdminInv ==
    ASSUME SessionsAssumption, Inv, NEW t \in Tabs, refreshAdmin(t)
    PROVE  Inv'
<1>1. Types /\ Types'
  BY TabTypes DEF Inv
<1>2. UNCHANGED <<session, active, cookie, access, call, rotation, logout, history>>
  BY DEF refreshAdmin
<1>3. \A r \in Rotators : RotationOK(r)'
  BY <1>2 DEF Inv, RotationOK
<1>4. CookieStored' /\ WaitersServed' /\ Parted'
  BY <1>2 DEF Inv, CookieStored, WaitersServed, Parted, Live, history
<1>5. Conserved'
  BY <1>2 DEF Inv, Conserved, Owed, Live, history
<1>6. ~excused' => \A u \in Tabs : Tabs = {u} => Alone(u)'
  <2> SUFFICES ASSUME ~excused', Tabs = {t} PROVE Alone(t)'
    OBVIOUS
  <2>1. Alone(t)
    BY <1>2 DEF Inv, history
  <2>2. admin'[t] = (access /\ active)
    BY <1>1 DEF refreshAdmin, SetAdmin, Types
  <2>3. rotation[t].pc = "none" /\ \A c \in CallsOf(t) : call[c] = "idle"
    BY DEF refreshAdmin
  <2>4. Live' = Live
    BY <1>2 DEF Live
  <2>5. QED
    BY <1>2, <2>1, <2>2, <2>3, <2>4 DEF Alone, CallsOf
<1>7. QED
  BY <1>1, <1>3, <1>4, <1>5, <1>6 DEF Inv

LEMMA RefreshedInv ==
    ASSUME SessionsAssumption, Inv, NEW t \in Tabs, refreshed(t)
    PROVE  Inv'
<1>1. Types /\ Types' /\ t \in Rotators
  BY TabTypes, RotatorType DEF Inv
<1>2. UNCHANGED <<session, active, logins, doubles, parted, excused>>
  BY DEF refreshed, history
<1>3. /\ rotation'[t] = NoRotation /\ \A q \in Rotators \ {t} : rotation'[q] = rotation[q]
      /\ \A q \in Rotators : rotation'[q] = NoRotation \/ rotation'[q] = rotation[q]
  BY <1>1 DEF refreshed, Types
<1>4. Live' = Live
  BY <1>2 DEF Live
<1>5. /\ \A c \in Calls : call'[c] = "waiting" => call[c] = "waiting" /\ c[1] # t
      /\ \A c \in Calls : call[c] = "idle" => call'[c] = "idle"
  BY DEF refreshed, GoToLogin, CallsOf
<1>6. \A r \in Rotators : RotationOK(r)'
  BY <1>2, <1>3, RotatorType DEF Inv, RotationOK
<1>7. WaitersServed'
  BY <1>3, <1>5, RotatorType DEF Inv, WaitersServed, Rotators
<1>8. Conserved'
  <2>1. Owed' \subseteq Owed
    BY <1>3, RotatorType DEF Owed
  <2>2. QED
    BY <1>1, <1>2, <1>4, <2>1, ConservedLess DEF Inv
<1>9. CookieStored' /\ (rotation[t].pc # "ok" => UNCHANGED cookie)
  BY <1>1, <1>2 DEF refreshed, GoToLogin, SetAuthCookies, Inv, CookieStored, RotationOK
<1>10. Parted'
  <2> SUFFICES ASSUME parted' = "cleanly" PROVE Parted'
    BY DEF Parted
  <2>1. rotation[t].pc # "ok"
    BY <1>1, <1>2 DEF Inv, Parted
  <2>2. QED
    BY <1>2, <1>3, <1>4, <1>9, <2>1, RotatorType DEF Inv, Parted
<1>11. ~excused' => \A u \in Tabs : Tabs = {u} => Alone(u)'
  <2> SUFFICES ASSUME ~excused', Tabs = {t} PROVE Alone(t)'
    OBVIOUS
  <2>1. Alone(t)
    BY <1>2 DEF Inv
  <2>2. rotation[t].pc = "ok" /\ rotation[t].new \in Live /\ admin[t]
    BY <2>1 DEF Alone, refreshed
  <2>3. cookie' = rotation[t].new /\ UNCHANGED <<admin, logout>>
    BY <2>2 DEF refreshed, SetAuthCookies
  <2>4. rotation'[Gone] = rotation[Gone]
    BY <1>3, RotatorType
  <2>5. QED
    BY <1>2, <1>3, <1>4, <2>1, <2>2, <2>3, <2>4, RotatorType DEF Alone
<1>12. QED
  BY <1>1, <1>6, <1>7, <1>8, <1>9, <1>10, <1>11 DEF Inv

LEMMA ConnectionLostInv ==
    ASSUME SessionsAssumption, Inv, NEW t \in Tabs, connectionLost(t)
    PROVE  Inv'
<1>1. Types /\ Types' /\ t \in Rotators /\ Gone \in Rotators /\ t # Gone
  BY TabTypes, RotatorType DEF Inv
<1>2. UNCHANGED <<session, active, logins, doubles, parted, cookie, access>> /\ excused' = TRUE
  BY DEF connectionLost, Fault, GoToLogin
<1>3. /\ rotation'[t] = NoRotation /\ rotation'[Gone] = rotation[t]
      /\ \A q \in Rotators \ {t, Gone} : rotation'[q] = rotation[q]
  BY <1>1 DEF connectionLost, Types
<1>4. Live' = Live
  BY <1>2 DEF Live
<1>5. \A c \in Calls : call'[c] = "waiting" => call[c] = "waiting" /\ c[1] # t
  BY DEF connectionLost, GoToLogin, CallsOf
<1>6. \A r \in Rotators : RotationOK(r)'
  BY <1>1, <1>2, <1>3, RotatorType DEF Inv, RotationOK
<1>7. WaitersServed'
  BY <1>3, <1>5, RotatorType DEF Inv, WaitersServed
<1>8. Parted'
  BY <1>1, <1>2, <1>3, <1>4, RotatorType DEF Inv, Parted
<1>9. Conserved'
  <2>1. CASE rotation[t].pc = "insert"
    <3> DEFINE Rest == Owed \ {t}
    <3>1. t \in Owed /\ IsFiniteSet(Owed) /\ Cardinality(Owed) \in Nat
      BY <1>1, <2>1, FS_CardinalityType DEF Owed, Inv, Conserved
    <3>2. Owed' \subseteq Rest \cup {Gone}
      BY <1>3, RotatorType DEF Owed
    <3>3. IsFiniteSet(Rest) /\ Cardinality(Rest) = Cardinality(Owed) - 1
      BY <3>1, FS_RemoveElement
    <3> HIDE DEF Rest
    <3>4. /\ IsFiniteSet(Rest \cup {Gone})
          /\ Cardinality(Rest \cup {Gone}) = IF Gone \in Rest THEN Cardinality(Rest) ELSE Cardinality(Rest) + 1
      BY <3>3, FS_AddElement
    <3>5. IsFiniteSet(Owed') /\ Cardinality(Owed') <= Cardinality(Rest \cup {Gone})
      BY <3>2, <3>4, FS_Subset
    <3>6. Cardinality(Owed') \in Nat /\ Cardinality(Rest \cup {Gone}) \in Nat
      BY <3>4, <3>5, FS_CardinalityType
    <3>7. Cardinality(Live') = Cardinality(Live) /\ Cardinality(Live) \in Nat
      BY <1>4, LiveFinite
    <3>8. Cardinality(Owed') <= Cardinality(Owed)
      BY <3>1, <3>3, <3>4, <3>5, <3>6
    <3>9. Cardinality(Live) + Cardinality(Owed) <= logins + doubles /\ logins \in Nat /\ doubles \in Nat
      BY <1>1 DEF Inv, Conserved, Types
    <3>10. Cardinality(Live') + Cardinality(Owed') <= logins' + doubles'
      BY <1>2, <3>1, <3>6, <3>7, <3>8, <3>9
    <3>11. QED
      BY <3>5, <3>10 DEF Conserved
  <2>2. CASE rotation[t].pc # "insert"
    <3>1. Owed' \subseteq Owed
      BY <1>3, <2>2, RotatorType DEF Owed
    <3>2. QED
      BY <1>1, <1>2, <1>4, <3>1, ConservedLess DEF Inv
  <2>3. QED
    BY <2>1, <2>2
<1>10. CookieStored'
  BY <1>2 DEF Inv, CookieStored
<1>11. QED
  BY <1>1, <1>2, <1>6, <1>7, <1>8, <1>9, <1>10 DEF Inv

-----------------------------------------------------------------------------
(* The calls of adminRequest.                                              *)

LEMMA SendInv ==
    ASSUME SessionsAssumption, Inv, NEW c \in Calls, send(c)
    PROVE  Inv'
<1>1. Types /\ Types'
  BY CallTypes DEF Inv
<1>2. UNCHANGED <<session, active, cookie, access, admin, rotation, logout, history>>
  BY DEF send, browser
<1>3. /\ \A d \in Calls : d # c => call'[d] = call[d]
      /\ call'[c] # "waiting" /\ admin[c[1]]
  BY <1>1 DEF send, Types
<1>4. \A r \in Rotators : RotationOK(r)'
  BY <1>2 DEF Inv, RotationOK
<1>5. CookieStored' /\ WaitersServed' /\ Parted'
  BY <1>2, <1>3 DEF Inv, CookieStored, WaitersServed, Parted, Live, history
<1>6. Conserved'
  BY <1>2 DEF Inv, Conserved, Owed, Live, history
<1>7. ~excused' => \A u \in Tabs : Tabs = {u} => Alone(u)'
  <2> SUFFICES ASSUME NEW u \in Tabs, ~excused', Tabs = {u} PROVE Alone(u)'
    OBVIOUS
  <2>1. Alone(u) /\ admin[u]
    BY <1>2, <1>3, RotatorType DEF Inv, history
  <2>2. Live' = Live
    BY <1>2 DEF Live
  <2>3. QED
    BY <1>2, <2>1, <2>2 DEF Alone
<1>8. QED
  BY <1>1, <1>4, <1>5, <1>6, <1>7 DEF Inv

LEMMA AnsweredInv ==
    ASSUME SessionsAssumption, Inv, NEW c \in Calls, answered(c)
    PROVE  Inv'
<1>1. Types /\ Types' /\ c[1] \in Tabs /\ c[1] \in Rotators /\ Gone \in Rotators /\ c[1] # Gone
  BY CallTypes, RotatorType DEF Inv
<1>2. UNCHANGED <<session, active, cookie, access, admin, logout, history>>
  BY DEF answered, browser
<1>3. /\ \A d \in Calls : d # c => call'[d] = call[d]
      /\ call'[c] \in {"idle", "waiting"} /\ call[c] # "idle"
      /\ call'[c] = "waiting" => call[c] = "refused"
  BY <1>1 DEF answered, Types
<1>4. \/ rotation' = rotation /\ (call'[c] = "waiting" => rotation[c[1]].pc # "none")
      \/ /\ rotation[c[1]].pc = "none"
         /\ rotation'[c[1]].pc = "select" /\ rotation'[c[1]].sid = cookie /\ rotation'[c[1]].new = 0
         /\ \A q \in Rotators \ {c[1]} : rotation'[q] = rotation[q]
  <2>1. CASE call[c] = "refused" /\ ~Shares(c[1])
    <3> DEFINE New == [NoRotation EXCEPT !.pc = "select", !.sid = cookie]
    <3>1. New.pc = "select" /\ New.sid = cookie /\ New.new = 0
      BY DEF NoRotation
    <3>2. rotation[c[1]].pc = "none"
      BY <2>1 DEF Shares
    <3>3. rotation' = [rotation EXCEPT ![c[1]] = New, ![Gone] = IF rotation[c[1]].pc = "none" THEN @ ELSE rotation[c[1]]]
      BY <2>1 DEF answered
    <3> HIDE DEF New
    <3>4. rotation'[c[1]] = New /\ \A q \in Rotators \ {c[1]} : rotation'[q] = rotation[q]
      BY <1>1, <3>2, <3>3 DEF Types
    <3>5. QED
      BY <3>1, <3>2, <3>4
  <2>2. CASE call[c] = "refused" /\ Shares(c[1])
    BY <2>2 DEF answered, Shares
  <2>3. CASE call[c] # "refused"
    BY <1>3, <2>3 DEF answered
  <2>4. QED
    BY <2>1, <2>2, <2>3
<1>5. Live' = Live
  BY <1>2 DEF Live
<1>6. \A r \in Rotators : RotationOK(r)'
  BY <1>2, <1>4 DEF Inv, RotationOK
<1>7. WaitersServed'
  BY <1>1, <1>3, <1>4, RotatorType DEF Inv, WaitersServed
<1>8. Parted'
  BY <1>2, <1>4, <1>5 DEF Inv, Parted, history
<1>9. Conserved'
  <2>1. Owed' = Owed
    BY <1>1, <1>4 DEF Owed
  <2>2. QED
    BY <1>2, <1>5, <2>1 DEF Inv, Conserved, history
<1>10. ~excused' => \A u \in Tabs : Tabs = {u} => Alone(u)'
  <2> SUFFICES ASSUME NEW u \in Tabs, ~excused', Tabs = {u} PROVE Alone(u)'
    OBVIOUS
  <2>1. u = c[1] /\ c \in CallsOf(u)
    BY <1>1 DEF CallsOf
  <2>2. Alone(u)
    BY <1>2 DEF Inv, history
  <2>3. admin[u]
    BY <1>3, <2>1, <2>2 DEF Alone
  <2>4. CASE rotation' = rotation
    BY <1>2, <1>5, <2>2, <2>3, <2>4 DEF Alone
  <2>5. CASE /\ rotation[u].pc = "none" /\ rotation'[u].pc = "select" /\ rotation'[u].sid = cookie
             /\ \A q \in Rotators \ {u} : rotation'[q] = rotation[q]
    <3>1. rotation'[Gone] = rotation[Gone] /\ rotation'[u].pc = "select" /\ rotation'[u].sid = cookie
      BY <1>1, <2>1, <2>5
    <3>2. cookie \in Live
      BY <2>2, <2>3, <2>5 DEF Alone
    <3>3. QED
      BY <1>2, <1>5, <2>2, <2>3, <3>1, <3>2 DEF Alone
  <2>6. QED
    BY <1>4, <2>1, <2>4, <2>5
<1>11. CookieStored'
  BY <1>2 DEF Inv, CookieStored
<1>12. QED
  BY <1>1, <1>6, <1>7, <1>8, <1>9, <1>10, <1>11 DEF Inv

-----------------------------------------------------------------------------
(* The server.                                                             *)

\* A rotation is answered, or refused, without touching the sessions.
LEMMA AskingInv ==
    ASSUME SessionsAssumption, Inv, NEW r \in Rotators, selectSession(r) \/ findAdminById(r)
    PROVE  Inv'
<1>1. Types /\ Types'
  BY ServeTypes DEF Inv, serve
<1>2. UNCHANGED <<session, active, cookie, access, admin, call, logout, history>>
  BY DEF selectSession, findAdminById, browser
<1>3. PICK to \in {"admin", "revoke", "no"} :
        /\ \/ rotation[r].pc = "select" /\ to = IF rotation[r].sid \in Live THEN "admin" ELSE "no"
           \/ rotation[r].pc = "admin" /\ to = IF active THEN "revoke" ELSE "no"
        /\ Goes(r, rotation[r].pc, to)
  <2>1. CASE selectSession(r)
    BY <2>1 DEF selectSession, Goes, Usable
  <2>2. CASE findAdminById(r)
    BY <2>2 DEF findAdminById, Goes
  <2>3. QED
    BY <2>1, <2>2
<1>4. /\ rotation'[r].pc = to /\ rotation'[r].sid = rotation[r].sid /\ rotation'[r].new = rotation[r].new
      /\ \A q \in Rotators \ {r} : rotation'[q] = rotation[q]
  BY <1>1, <1>3, GoesTypes
<1>5. Live' = Live
  BY <1>2 DEF Live
<1>6. \A q \in Rotators : RotationOK(q)'
  <2>1. 0 \notin Live
    BY DEF Live, SessionIds
  <2>2. RotationOK(r)'
    BY <1>2, <1>3, <1>4, <2>1 DEF Inv, RotationOK
  <2>3. \A q \in Rotators \ {r} : RotationOK(q)'
    BY <1>2, <1>4 DEF Inv, RotationOK
  <2>4. QED
    BY <2>2, <2>3
<1>7. WaitersServed' /\ CookieStored'
  BY <1>2, <1>4, RotatorType DEF Inv, WaitersServed, CookieStored
<1>8. Parted'
  BY <1>2, <1>3, <1>4, <1>5 DEF Inv, Parted, history
<1>9. Conserved'
  <2>1. Owed' = Owed
    BY <1>3, <1>4 DEF Owed
  <2>2. QED
    BY <1>2, <1>5, <2>1 DEF Inv, Conserved, history
<1>10. ~excused' => \A u \in Tabs : Tabs = {u} => Alone(u)'
  <2> SUFFICES ASSUME NEW u \in Tabs, ~excused', Tabs = {u} PROVE Alone(u)'
    OBVIOUS
  <2>1. Alone(u)
    BY <1>2 DEF Inv, history
  <2>2. r = u /\ rotation'[Gone] = rotation[Gone]
    BY <1>3, <1>4, <2>1, RotatorType DEF Alone, Rotators
  <2>3. admin[u] /\ rotation[u].sid = cookie /\ cookie \in Live /\ active
    BY <1>3, <2>1, <2>2 DEF Alone
  <2>4. to \in {"admin", "revoke"}
    BY <1>3, <2>2, <2>3
  <2>5. QED
    BY <1>2, <1>4, <1>5, <2>1, <2>2, <2>3, <2>4 DEF Alone
<1>11. QED
  BY <1>1, <1>6, <1>7, <1>8, <1>9, <1>10 DEF Inv

LEMMA RevokeSessionInv ==
    ASSUME SessionsAssumption, Inv, NEW r \in Rotators, revokeSession(r)
    PROVE  Inv'
<1>1. Types /\ Types'
  BY ServeTypes DEF Inv, serve
<1>2. UNCHANGED <<active, cookie, access, admin, call, logout, logins, parted, excused>>
  BY DEF revokeSession, browser
<1>3. /\ rotation[r].pc = "revoke" /\ rotation'[r].pc = "insert"
      /\ rotation'[r].sid = rotation[r].sid /\ rotation'[r].new = rotation[r].new
      /\ \A q \in Rotators \ {r} : rotation'[q] = rotation[q]
  BY <1>1, GoesTypes DEF revokeSession
<1>4. rotation[r].sid \in SessionIds
  BY <1>1, <1>3 DEF Inv, RotationOK, Types, Rotation
<1>5. /\ Live' = Live \ {rotation[r].sid}
      /\ \A q \in SessionIds : session[q] # "none" => session'[q] # "none"
  BY <1>1, <1>4, LiveShrinks DEF revokeSession
<1>6. \A q \in Rotators : RotationOK(q)'
  <2>1. RotationOK(r)'
    BY <1>1, <1>3, <1>5 DEF Inv, RotationOK, Types, Rotation
  <2>2. \A q \in Rotators \ {r} : RotationOK(q)'
    BY <1>1, <1>3, <1>5 DEF Inv, RotationOK, Types, Rotation
  <2>3. QED
    BY <2>1, <2>2
<1>7. WaitersServed' /\ CookieStored'
  BY <1>1, <1>2, <1>3, <1>5, RotatorType DEF Inv, WaitersServed, CookieStored, Types
<1>8. Parted'
  BY <1>2, <1>3 DEF Inv, Parted
<1>9. Conserved'
  <2>1. /\ IsFiniteSet(Owed) /\ Cardinality(Owed) \in Nat
        /\ Cardinality(Live) + Cardinality(Owed) <= logins + doubles /\ logins \in Nat /\ doubles \in Nat
    BY <1>1, FS_CardinalityType DEF Inv, Conserved, Types
  <2>2. Owed' = Owed \cup {r} /\ r \notin Owed
    BY <1>3 DEF Owed
  <2>3. IsFiniteSet(Owed') /\ Cardinality(Owed') = Cardinality(Owed) + 1
    BY <2>1, <2>2, FS_AddElement
  <2>4. /\ rotation[r].sid \in Live => Cardinality(Live') = Cardinality(Live) - 1 /\ doubles' = doubles
        /\ rotation[r].sid \notin Live => Cardinality(Live') = Cardinality(Live) /\ doubles' = doubles + 1
    <3>1. Cardinality(Live') = IF rotation[r].sid \in Live THEN Cardinality(Live) - 1 ELSE Cardinality(Live)
      BY <1>5, LiveFinite, FS_RemoveElement
    <3>2. rotation[r].sid \in Live <=> session[rotation[r].sid] = "live"
      BY <1>4 DEF Live
    <3>3. doubles' = doubles + (IF session[rotation[r].sid] = "live" THEN 0 ELSE 1)
      BY DEF revokeSession
    <3>4. QED
      BY <2>1, <3>1, <3>2, <3>3
  <2>5. Cardinality(Live') + Cardinality(Owed') <= logins' + doubles'
    BY <1>2, <2>1, <2>3, <2>4, LiveFinite
  <2>6. QED
    BY <2>3, <2>5 DEF Conserved
<1>10. ~excused' => \A u \in Tabs : Tabs = {u} => Alone(u)'
  <2> SUFFICES ASSUME NEW u \in Tabs, ~excused', Tabs = {u} PROVE Alone(u)'
    OBVIOUS
  <2>1. Alone(u)
    BY <1>2 DEF Inv
  <2>2. r = u /\ rotation'[Gone] = rotation[Gone]
    BY <1>3, <2>1, RotatorType DEF Alone, Rotators
  <2>3. QED
    BY <1>2, <1>3, <2>1, <2>2 DEF Alone
<1>11. QED
  BY <1>1, <1>6, <1>7, <1>8, <1>9, <1>10 DEF Inv

LEMMA StoreSessionInv ==
    ASSUME SessionsAssumption, Inv, NEW r \in Rotators, storeRefreshSession(r)
    PROVE  Inv'
<1>1. Types /\ Types'
  BY ServeTypes DEF Inv, serve
<1>2. UNCHANGED <<active, cookie, access, admin, call, logout, history>>
  BY DEF storeRefreshSession, browser
<1>3. PICK s \in Fresh : /\ session' = [session EXCEPT ![s] = "live"]
                         /\ rotation' = [rotation EXCEPT ![r].pc = "ok", ![r].new = s]
  BY DEF storeRefreshSession
<1>4. /\ s \in SessionIds /\ s # 0 /\ s \in Live' /\ Live' = Live \cup {s}
      /\ Cardinality(Live') = Cardinality(Live) + 1
      /\ \A q \in SessionIds : session[q] # "none" => session'[q] # "none" /\ q # s
  BY <1>1, <1>3, LiveGrows
<1>5. /\ rotation[r].pc = "insert" /\ rotation'[r].pc = "ok" /\ rotation'[r].new = s
      /\ \A q \in Rotators \ {r} : rotation'[q] = rotation[q]
  BY <1>1, <1>3 DEF storeRefreshSession, Types, Rotation
<1>6. \A q \in Rotators : RotationOK(q)'
  <2>1. RotationOK(r)'
    BY <1>1, <1>4, <1>5 DEF RotationOK, Live
  <2>2. \A q \in Rotators \ {r} : RotationOK(q)'
    BY <1>1, <1>4, <1>5 DEF Inv, RotationOK, Types, Rotation
  <2>3. QED
    BY <2>1, <2>2
<1>7. WaitersServed' /\ CookieStored'
  BY <1>1, <1>2, <1>4, <1>5, RotatorType DEF Inv, WaitersServed, CookieStored, Types
<1>8. Parted'
  BY <1>2, <1>5 DEF Inv, Parted, history
<1>9. Conserved'
  <2>1. /\ IsFiniteSet(Owed) /\ Cardinality(Owed) \in Nat
        /\ Cardinality(Live) + Cardinality(Owed) <= logins + doubles /\ logins \in Nat /\ doubles \in Nat
    BY <1>1, FS_CardinalityType DEF Inv, Conserved, Types
  <2>2. Owed' = Owed \ {r} /\ r \in Owed
    BY <1>5 DEF Owed
  <2>3. IsFiniteSet(Owed') /\ Cardinality(Owed') = Cardinality(Owed) - 1
    BY <2>1, <2>2, FS_RemoveElement
  <2>4. Cardinality(Live') + Cardinality(Owed') <= logins' + doubles'
    BY <1>2, <1>4, <2>1, <2>3, LiveFinite DEF history
  <2>5. QED
    BY <2>3, <2>4 DEF Conserved
<1>10. ~excused' => \A u \in Tabs : Tabs = {u} => Alone(u)'
  <2> SUFFICES ASSUME NEW u \in Tabs, ~excused', Tabs = {u} PROVE Alone(u)'
    OBVIOUS
  <2>1. Alone(u)
    BY <1>2 DEF Inv, history
  <2>2. r = u /\ rotation'[Gone] = rotation[Gone]
    BY <1>5, <2>1, RotatorType DEF Alone, Rotators
  <2>3. QED
    BY <1>2, <1>4, <1>5, <2>1, <2>2 DEF Alone
<1>11. QED
  BY <1>1, <1>6, <1>7, <1>8, <1>9, <1>10 DEF Inv

LEMMA StatementFailsInv ==
    ASSUME SessionsAssumption, Inv, NEW r \in Rotators, statementFails(r)
    PROVE  Inv'
<1>1. Types /\ Types'
  BY ServeTypes DEF Inv
<1>2. UNCHANGED <<session, active, cookie, access, admin, call, logout, logins, doubles, parted>> /\ excused' = TRUE
  BY DEF statementFails, browser, Fault
<1>3. /\ rotation[r].pc \in {"select", "admin", "revoke", "insert"}
      /\ rotation'[r].pc = "no" /\ rotation'[r].new = rotation[r].new
      /\ \A q \in Rotators \ {r} : rotation'[q] = rotation[q]
  BY <1>1 DEF statementFails, Types, Rotation
<1>4. Live' = Live
  BY <1>2 DEF Live
<1>5. \A q \in Rotators : RotationOK(q)'
  BY <1>2, <1>3 DEF Inv, RotationOK
<1>6. WaitersServed' /\ CookieStored' /\ Parted'
  BY <1>2, <1>3, <1>4, RotatorType DEF Inv, WaitersServed, CookieStored, Parted
<1>7. Conserved'
  <2>1. Owed' \subseteq Owed
    BY <1>3 DEF Owed
  <2>2. QED
    BY <1>1, <1>2, <1>4, <2>1, ConservedLess DEF Inv
<1>8. QED
  BY <1>1, <1>2, <1>5, <1>6, <1>7 DEF Inv

-----------------------------------------------------------------------------
(* Time, the database's owner, and the theorem.                            *)

LEMMA TimeInv ==
    ASSUME SessionsAssumption, Inv, accessExpires \/ sessionExpires \/ deactivate
    PROVE  Inv'
<1>1. Types /\ Types'
  BY TimeTypes DEF Inv
<1>2. UNCHANGED <<cookie, admin, call, rotation, logout, logins, doubles, parted>>
  BY DEF accessExpires, sessionExpires, deactivate, browser, history
<1>3. Live' \subseteq Live /\ \A q \in SessionIds : session[q] # "none" => session'[q] # "none"
  BY <1>1 DEF accessExpires, sessionExpires, deactivate, Live, Types
<1>4. \A q \in Rotators : RotationOK(q)'
  BY <1>1, <1>2, <1>3 DEF Inv, RotationOK, Types, Rotation
<1>5. WaitersServed' /\ CookieStored' /\ Parted'
  BY <1>1, <1>2, <1>3 DEF Inv, WaitersServed, CookieStored, Parted, Types
<1>6. Conserved'
  BY <1>1, <1>2, <1>3, ConservedLess DEF Inv, Owed
<1>7. ~excused' => \A u \in Tabs : Tabs = {u} => Alone(u)'
  <2> SUFFICES ASSUME NEW u \in Tabs, ~excused', Tabs = {u} PROVE Alone(u)'
    OBVIOUS
  <2>1. accessExpires
    BY DEF sessionExpires, deactivate
  <2>2. UNCHANGED <<session, active, excused>> /\ access' = FALSE
    BY <2>1 DEF accessExpires, history
  <2>3. Alone(u)
    BY <2>2 DEF Inv
  <2>4. Live' = Live
    BY <2>2 DEF Live
  <2>5. QED
    BY <1>2, <2>2, <2>3, <2>4 DEF Alone
<1>8. QED
  BY <1>1, <1>4, <1>5, <1>6, <1>7 DEF Inv

LEMMA StepInv == SessionsAssumption /\ Inv /\ [Next]_vars => Inv'
<1> SUFFICES ASSUME SessionsAssumption, Inv, [Next]_vars PROVE Inv'
  OBVIOUS
<1>1. ASSUME NEW t \in Tabs, \/ login(t) \/ postLogout(t) \/ logoutAnswered(t) \/ refreshAdmin(t)
                             \/ refreshed(t) \/ connectionLost(t)
      PROVE  Inv'
  BY <1>1, LoginInv, PostLogoutInv, LogoutAnsweredInv, RefreshAdminInv, RefreshedInv, ConnectionLostInv
<1>2. ASSUME NEW c \in Calls, send(c) \/ answered(c)
      PROVE  Inv'
  BY <1>2, SendInv, AnsweredInv
<1>3. ASSUME NEW r \in Rotators, serve(r) \/ statementFails(r)
      PROVE  Inv'
  BY <1>3, AskingInv, RevokeSessionInv, StoreSessionInv, StatementFailsInv DEF serve
<1>4. CASE UNCHANGED vars
  <2>1. UNCHANGED <<session, active, cookie, access, admin, call, rotation, logout, logins, doubles, parted, excused, faults>>
    BY <1>4 DEF vars, browser, history
  <2>2. Types' /\ \A r \in Rotators : RotationOK(r)'
    BY <2>1 DEF Inv, Types, RotationOK
  <2>3. CookieStored' /\ WaitersServed' /\ Conserved' /\ Parted'
    BY <2>1 DEF Inv, CookieStored, WaitersServed, Conserved, Owed, Parted, Live
  <2>4. ~excused' => \A t \in Tabs : Tabs = {t} => Alone(t)'
    BY <2>1 DEF Inv, Alone, Live
  <2>5. QED
    BY <2>2, <2>3, <2>4 DEF Inv
<1>5. QED
  BY <1>1, <1>2, <1>3, <1>4, TimeInv DEF Next

\* The inductive invariant holds in every reachable state of the sessions.
THEOREM Inductive == SessionsAssumption => (Spec => []Inv)
<1> SUFFICES ASSUME SessionsAssumption PROVE Spec => []Inv
  OBVIOUS
<1>1. Init => Inv
  BY InitInv
<1>2. Inv /\ [Next]_vars => Inv'
  BY StepInv
<1>3. QED
  BY <1>1, <1>2, PTL DEF Spec

\* What the invariant says of the sessions, in the words of the property.
LEMMA InvIsSound ==
    ASSUME SessionsAssumption, Inv
    PROVE  SessionsSound
<1>1. TypeOK
  <2>1. cookie \in {s \in SessionIds : session[s] # "none"} \cup {0}
    BY DEF Inv, Types, CookieStored
  <2>2. ASSUME NEW r \in Rotators
        PROVE  /\ rotation[r].pc \in {"none", "select", "admin", "revoke", "insert", "ok", "no"}
               /\ rotation[r].sid \in SessionIds \cup {0} /\ rotation[r].new \in SessionIds \cup {0}
               /\ rotation[r].pc = "ok" <=> rotation[r].new # 0
    BY DEF Inv, Types, RotationOK, Rotation
  <2>3. QED
    BY <2>1, <2>2 DEF Inv, Types, WaitersServed, TypeOK
<1>2. RotationConserves
  <2>1. Cardinality(Owed) \in Nat
    BY FS_CardinalityType DEF Inv, Conserved
  <2>2. QED
    BY <2>1, LiveFinite DEF Inv, Conserved, RotationConserves, Types
<1>3. LogoutIsFinal
  BY DEF Inv, Parted, LogoutIsFinal
<1>4. StaysSignedIn
  <2> SUFFICES ASSUME Cardinality(Tabs) = 1, ~excused, NEW t \in Tabs PROVE rotation[t].pc # "no"
    BY DEF StaysSignedIn
  <2>1. Tabs = {t}
    BY FS_Singleton DEF SessionsAssumption
  <2>2. QED
    BY <2>1 DEF Inv, Alone
<1>5. QED
  BY <1>1, <1>2, <1>3, <1>4 DEF SessionsSound

\* However tabs, calls, rotations, failing statements and logouts interleave:
\* rotation makes no session of its own unless one is rotated twice; after a clean
\* logout nothing the browser holds or is sent can be rotated; a tab that is alone
\* is never refused a rotation it has not lost by a logout, a fault, an expiry or a
\* deactivation (auth.service.ts refreshTokens and logout, adminApi.ts).
THEOREM SessionsAreSound == SessionsAssumption => (Spec => []SessionsSound)
<1> SUFFICES ASSUME SessionsAssumption PROVE Spec => []SessionsSound
  OBVIOUS
<1>1. Inv => SessionsSound
  BY InvIsSound
<1>2. QED
  <2>1. Spec => []Inv
    BY Inductive
  <2>2. QED
    BY <1>1, <2>1, PTL

=============================================================================
