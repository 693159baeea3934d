----------------------------- MODULE AuthSessions -----------------------------
(***************************************************************************)
(* The sessions of administrators: login, rotation of refresh tokens and   *)
(* logout (backend services/auth.service.ts), and the browser whose tabs   *)
(* share one pair of cookies but not the promise of the refresh they wait  *)
(* for (admin services/adminApi.ts, context/AdminAuthContext.tsx).         *)
(***************************************************************************)
EXTENDS Integers, FiniteSets

CONSTANTS
    Tabs,          \* of one browser; each has its own refreshPromise
    Slots,         \* calls a tab may have under way
    Gone,          \* stands for a tab that no longer waits for its rotation
    MaxSessions,   \* bound: rows of admin_refresh_sessions
    MaxLogins,     \* bound: logins among them
    MaxFaults      \* bound: lost answers and failed statements

SessionsAssumption ==
    /\ IsFiniteSet(Tabs) /\ Gone \notin Tabs
    /\ MaxSessions \in Nat /\ MaxFaults \in Nat

SessionIds == 1..MaxSessions
Calls    == Tabs \X Slots
Rotators == Tabs \cup {Gone}

VARIABLES
    session,    \* admin_refresh_sessions: none, live, revoked or expired
    active,     \* is_active of the administrator
    cookie,     \* the session of the refresh cookie, or 0
    access,     \* the access cookie is there and valid
    admin,      \* AdminAuthContext of each tab: an administrator is shown
    call,       \* the calls of adminRequest
    rotation,   \* the refreshes under way, at the server or on their way back
    logout,     \* tabs whose logout is on its way back
    logins, doubles, parted, excused, faults   \* history

browser == <<cookie, access, admin>>
history == <<logins, doubles, parted, excused, faults>>
vars    == <<session, active, browser, call, rotation, logout, history>>

NoRotation == [pc |-> "none", sid |-> 0, new |-> 0]

TypeOK ==
    /\ session \in [SessionIds -> {"none", "live", "revoked", "expired"}]
    /\ cookie \in {s \in SessionIds : session[s] # "none"} \cup {0}
    /\ active \in BOOLEAN /\ access \in BOOLEAN /\ admin \in [Tabs -> BOOLEAN]
    /\ call \in [Calls -> {"idle", "granted", "refused", "waiting", "regranted", "rerefused"}]
    /\ \A r \in Rotators :
          /\ rotation[r].pc \in {"none", "select", "admin", "revoke", "insert", "ok", "no"}
          /\ rotation[r].sid \in SessionIds \cup {0} /\ rotation[r].new \in SessionIds \cup {0}
          /\ rotation[r].pc = "ok" <=> rotation[r].new # 0
    /\ \A c \in Calls : call[c] = "waiting" => rotation[c[1]].pc # "none"
    /\ logout \subseteq Tabs /\ faults \in 0..MaxFaults
    /\ parted \in {"no", "cleanly", "raced"} /\ excused \in BOOLEAN

Init ==
    /\ session = [s \in SessionIds |-> "none"] /\ active = TRUE
    /\ cookie = 0 /\ access = FALSE /\ admin = [t \in Tabs |-> FALSE]
    /\ call = [c \in Calls |-> "idle"]
    /\ rotation = [r \in Rotators |-> NoRotation] /\ logout = {}
    /\ logins = 0 /\ doubles = 0 /\ parted = "no" /\ excused = FALSE /\ faults = 0

Live       == {s \in SessionIds : session[s] = "live"}
Fresh      == {s \in SessionIds : session[s] = "none" /\ \A q \in 1..(s - 1) : session[q] # "none"}
CallsOf(t) == {c \in Calls : c[1] = t}
Fault      == faults < MaxFaults /\ faults' = faults + 1 /\ excused' = TRUE

SetAuthCookies(s) == cookie' = s /\ access' = TRUE
ClearAuthCookies  == cookie' = 0 /\ access' = FALSE
SetAdmin(t, shown) == admin' = [admin EXCEPT ![t] = shown]

\* window.location.assign: what the page was doing is over.
GoToLogin(t) ==
    /\ SetAdmin(t, FALSE) /\ logout' = logout \ {t}
    /\ call' = [c \in Calls |-> IF c \in CallsOf(t) THEN "idle" ELSE call[c]]
    /\ UNCHANGED <<cookie, access>>

-----------------------------------------------------------------------------
(* Login and logout.                                                       *)

\* The cookies are set before the login is logged: when that fails they stay.
login(t) ==
    /\ ~admin[t] /\ active /\ logins < MaxLogins
    /\ \E s \in Fresh :
          session' = [session EXCEPT ![s] = "live"] /\ SetAuthCookies(s)
    /\ logins' = logins + 1 /\ parted' = "no"
    /\ \/ SetAdmin(t, TRUE) /\ UNCHANGED <<excused, faults>>
       \/ Fault /\ UNCHANGED admin
    /\ UNCHANGED <<active, call, rotation, logout, doubles>>

\* Mutant of Revoked.
RevokedNever(sid) == session

Revoked(sid) == IF sid = 0 THEN session ELSE [session EXCEPT ![sid] = "revoked"]

\* The row of the cookie is revoked; that this fails is not noticed.
postLogout(t) ==
    /\ admin[t] /\ t \notin logout /\ logout' = logout \cup {t}
    /\ \/ session' = Revoked(cookie) /\ UNCHANGED faults
          /\ parted' = IF \A r \in Rotators : rotation[r].pc = "none" THEN "cleanly" ELSE "raced"
       \/ faults < MaxFaults /\ faults' = faults + 1 /\ UNCHANGED session /\ parted' = "raced"
    /\ excused' = TRUE
    /\ UNCHANGED <<active, browser, call, rotation, logins, doubles>>

logoutAnswered(t) ==
    /\ t \in logout /\ logout' = logout \ {t}
    /\ ClearAuthCookies /\ SetAdmin(t, FALSE)
    /\ UNCHANGED <<session, active, call, rotation, history>>

\* A tab is opened or reloaded: me answers null, not 401, without an access token.
refreshAdmin(t) ==
    /\ rotation[t].pc = "none" /\ t \notin logout /\ \A c \in CallsOf(t) : call[c] = "idle"
    /\ SetAdmin(t, access /\ active)
    /\ UNCHANGED <<session, active, cookie, access, call, rotation, logout, history>>

-----------------------------------------------------------------------------
(* A call of adminRequest.                                                 *)

requireAdmin == access /\ active

send(c) ==
    /\ admin[c[1]] /\ call[c] = "idle"
    /\ call' = [call EXCEPT ![c] = IF requireAdmin THEN "granted" ELSE "refused"]
    /\ UNCHANGED <<session, active, browser, rotation, logout, history>>

\* refreshPromise is there.
Shares(t) == rotation[t].pc # "none"

\* On the first 401, join or start the tab's refresh; what follows a retry is final.
answered(c) ==
    LET t == c[1] IN
    \/ /\ call[c] \in {"granted", "regranted", "rerefused"}
       /\ call' = [call EXCEPT ![c] = "idle"]
       /\ UNCHANGED <<session, active, browser, rotation, logout, history>>
    \/ /\ call[c] = "refused"
       /\ call' = [call EXCEPT ![c] = "waiting"]
       /\ IF Shares(t) THEN UNCHANGED rotation
          ELSE rotation' = [rotation EXCEPT ![t] = [NoRotation EXCEPT !.pc = "select", !.sid = cookie],
                                            ![Gone] = IF rotation[t].pc = "none" THEN @ ELSE rotation[t]]
       /\ UNCHANGED <<session, active, browser, logout, history>>

-----------------------------------------------------------------------------
(* refreshTokens: four statements, no transaction.                         *)

Goes(r, from, to) == rotation[r].pc = from /\ rotation' = [rotation EXCEPT ![r].pc = to]

Usable(sid) == sid \in Live

selectSession(r) ==
    /\ Goes(r, "select", IF Usable(rotation[r].sid) THEN "admin" ELSE "no")
    /\ UNCHANGED <<session, active, browser, call, logout, history>>

findAdminById(r) ==
    /\ Goes(r, "admin", IF active THEN "revoke" ELSE "no")
    /\ UNCHANGED <<session, active, browser, call, logout, history>>

\* Unconditional: whoever else rotates the same session does so too.
revokeSession(r) ==
    /\ Goes(r, "revoke", "insert")
    /\ session' = Revoked(rotation[r].sid)
    /\ doubles' = doubles + (IF session[rotation[r].sid] = "live" THEN 0 ELSE 1)
    /\ UNCHANGED <<active, browser, call, logout, logins, parted, excused, faults>>

storeRefreshSession(r) ==
    /\ rotation[r].pc = "insert"
    /\ \E s \in Fresh :
          /\ session' = [session EXCEPT ![s] = "live"]
          /\ rotation' = [rotation EXCEPT ![r].pc = "ok", ![r].new = s]
    /\ UNCHANGED <<active, browser, call, logout, history>>

\* One of the statements fails: what was done before it stays done.  (So does
\* the insertion when the model's rows are used up.)
statementFails(r) ==
    /\ rotation[r].pc \in {"select", "admin", "revoke", "insert"}
    /\ \/ Fault
       \/ rotation[r].pc = "insert" /\ Fresh = {} /\ excused' = TRUE /\ UNCHANGED faults
    /\ rotation' = [rotation EXCEPT ![r].pc = "no"]
    /\ UNCHANGED <<session, active, browser, call, logout, logins, doubles, parted>>

\* The answer reaches the browser: cookies, then everyone who waits in the tab
\* asks again, or the tab goes to the login page.
refreshed(t) ==
    /\ rotation[t].pc \in {"ok", "no"}
    /\ rotation' = [rotation EXCEPT ![t] = NoRotation]
    /\ IF rotation[t].pc = "ok"
       THEN /\ SetAuthCookies(rotation[t].new) /\ UNCHANGED <<admin, logout>>
            /\ call' = [c \in Calls |-> IF c \in CallsOf(t) /\ call[c] = "waiting"
                                        THEN IF active THEN "regranted" ELSE "rerefused" ELSE call[c]]
       ELSE GoToLogin(t)
    /\ UNCHANGED <<session, active, history>>

\* The tab gives up; the server may go on with the rotation all the same.
connectionLost(t) ==
    /\ rotation[t].pc # "none" /\ Fault
    /\ rotation' = [rotation EXCEPT ![t] = NoRotation, ![Gone] = rotation[t]]
    /\ GoToLogin(t)
    /\ UNCHANGED <<session, active, logins, doubles, parted>>

-----------------------------------------------------------------------------
(* Time and the database's owner.                                          *)

accessExpires ==
    /\ access /\ access' = FALSE
    /\ UNCHANGED <<session, active, cookie, admin, call, rotation, logout, history>>

sessionExpires ==
    /\ \E s \in Live : session' = [session EXCEPT ![s] = "expired"]
    /\ excused' = TRUE
    /\ UNCHANGED <<active, browser, call, rotation, logout, logins, doubles, parted, faults>>

deactivate ==
    /\ active /\ active' = FALSE /\ excused' = TRUE
    /\ UNCHANGED <<session, browser, call, rotation, logout, logins, doubles, parted, faults>>

serve(r) == selectSession(r) \/ findAdminById(r) \/ revokeSession(r) \/ storeRefreshSession(r)

Next ==
    \/ \E t \in Tabs : login(t) \/ postLogout(t) \/ logoutAnswered(t) \/ refreshAdmin(t)
                     \/ refreshed(t) \/ connectionLost(t)
    \/ \E c \in Calls : send(c) \/ answered(c)
    \/ \E r \in Rotators : serve(r) \/ statementFails(r)
    \/ accessExpires \/ sessionExpires \/ deactivate

Spec == Init /\ [][Next]_vars

\* The server works and its answers arrive.
FairSpec ==
    /\ Spec
    /\ \A t \in Tabs : WF_vars(refreshed(t))
    /\ \A c \in Calls : WF_vars(answered(c))
    /\ \A r \in Rotators : WF_vars(serve(r) \/ (Fresh = {} /\ statementFails(r)))

-----------------------------------------------------------------------------
(* Properties.                                                             *)

\* Rotation trades a session for a session: more than there were logins are
\* only there when one session was rotated more than once.
RotationConserves == Cardinality(Live) <= logins + doubles

\* A tab that is alone is not sent to the login page as long as nobody logged
\* out, was deactivated or stayed away too long: none of its calls is refused
\* a rotation.
StaysSignedIn ==
    Cardinality(Tabs) = 1 /\ ~excused => \A t \in Tabs : rotation[t].pc # "no"

\* After a logout that met no rotation, and until the next login, neither the
\* browser's cookie nor an answer on its way is of a session that can be rotated.
LogoutIsFinal ==
    parted = "cleanly" => cookie \notin Live /\ \A r \in Rotators : rotation[r].pc # "ok"

\* Rotation trades a session for a session unless one is rotated twice; after a
\* logout that met no rotation nothing the browser holds or is sent can be
\* rotated; and as long as nobody logged out or stayed away too long, no call of
\* a tab that is alone is refused a rotation (auth.service.ts, adminApi.ts).
SessionsSound ==
    /\ TypeOK
    /\ RotationConserves
    /\ LogoutIsFinal
    /\ StaysSignedIn

\* What a tab waits for ends, with an answer or on the login page.
CallsEnd == \A c \in Calls : call[c] # "idle" ~> call[c] = "idle"

=============================================================================
