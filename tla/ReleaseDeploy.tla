----------------------------- MODULE ReleaseDeploy -----------------------------
(***************************************************************************)
(* Releases and certificates of the production host                        *)
(* (scripts/production/deploy-release.sh, release-runtime.sh and the       *)
(* renewal of the certificate).  Every push to master starts a job that    *)
(* builds and rolls out its commit, records it in current-release, or goes *)
(* back to the recorded one; a daily job renews the certificate behind     *)
(* tls/current and restarts the edge.  Both hold the release lock.  A job  *)
(* may be killed at any step, and the containers stay as they are.         *)
(*                                                                         *)
(* Commits and certificates are numbered; 0 stands for none.  The operator *)
(* migrates the schema only when no job holds the lock.                    *)
(***************************************************************************)
EXTENDS Integers, FiniteSets

CONSTANTS
    None,
    MaxCommit, MigratesAt,                  \* the commits; the first that needs the new schema
    MaxCerts, MaxRenewals, MaxFaults, MaxKills   \* bounds

ASSUME ReleaseAssumption == MaxCommit \in Nat \ {0} /\ MigratesAt \in Nat \ {0} /\ None \notin Int
ASSUME ToldAssumption == None \notin {"staged", "installed", "already installed"}

Commits == 1..MaxCommit
Renewal == 0       \* the renewal as a holder of the lock

VARIABLES
    master,        \* the head of the branch
    lock,          \* /run/lock/plfr-production-release.lock
    job,           \* of each commit: its job, the release it found, whether that fits the schema
    marker,        \* current-release
    built,         \* the commits that have images
    apps, edge,    \* the release of the running containers
    schema,
    issued,        \* the newest certificate of the lineage
    whole,         \* the pairs under tls/releases
    pointer,       \* tls/current; 0 is the legacy layout of pair 1
    served,        \* the pair the running edge has loaded
    renew,         \* the renewal: its step, and the pair to go back to
    told,          \* what the last renewal said of the pair, until the next job
    disturbed,     \* history: a "rollout", or the move of a "pointer", was cut short or given up
    bounds

release == <<marker, built, apps, edge>>
tls     == <<issued, whole, pointer, served, renew>>
vars    == <<master, lock, job, release, schema, tls, told, disturbed, bounds>>

Rollout  == {"apps", "edge", "mark", "failed", "rollbackApps", "rollbackEdge"}
Critical == {"preflight", "build", "check", "bootstrap", "reverify"} \cup Rollout

TypeOK ==
    /\ master \in Commits /\ marker \in 0..master /\ apps \in 0..master /\ edge \in 0..master
    /\ \A c \in Commits : job[c].phase \in Critical <=> lock = c
    /\ renew.phase # "idle" <=> lock = Renewal
    /\ pointer \in 0..issued /\ served \in 0..issued /\ (edge = 0 <=> served = 0)

Init ==
    /\ master = 1 /\ lock = None
    /\ job = [c \in Commits |-> [phase |-> IF c = 1 THEN "entry" ELSE "none", prev |-> 0, fits |-> FALSE]]
    /\ marker = 0 /\ built = {} /\ apps = 0 /\ edge = 0 /\ schema = 1
    /\ issued = 1 /\ served = 0
    /\ pointer \in {0, 1} /\ whole = IF pointer = 0 THEN {} ELSE {1}
    /\ renew = [phase |-> "idle", old |-> 0]
    /\ told = None /\ disturbed = {}
    /\ bounds = [renewals |-> 0, faults |-> 0, kills |-> 0]

Fault == bounds.faults < MaxFaults /\ bounds' = [bounds EXCEPT !.faults = @ + 1]

SchemaOf(c) == IF c >= MigratesAt THEN 2 ELSE 1

verify_github_release(c) == master = c

-----------------------------------------------------------------------------
(* The job of a commit.                                                    *)

At(c, phase) == job[c].phase = phase
Go(c, phase) == job' = [job EXCEPT ![c].phase = phase] /\ UNCHANGED lock
End(c)       == job' = [job EXCEPT ![c].phase = "done"] /\ lock' = None

push ==
    /\ master < MaxCommit
    /\ master' = master + 1
    /\ job' = [job EXCEPT ![master + 1].phase = "entry"]
    /\ UNCHANGED <<lock, release, schema, tls, told, disturbed, bounds>>

migrate ==
    /\ lock = None /\ schema = 1 /\ master >= MigratesAt
    /\ schema' = 2
    /\ UNCHANGED <<master, lock, job, release, tls, told, disturbed, bounds>>

\* deploy-root-entrypoint.sh: the checkout of a commit that is still the head.
entrypoint(c) ==
    /\ At(c, "entry")
    /\ Go(c, IF verify_github_release(c) THEN "lock" ELSE "done")
    /\ UNCHANGED <<master, release, schema, tls, told, disturbed, bounds>>

plfr_acquire_release_lock(c) ==
    /\ At(c, "lock") /\ lock = None
    /\ lock' = c /\ job' = [job EXCEPT ![c].phase = "preflight"] /\ told' = None
    /\ UNCHANGED <<master, release, schema, tls, disturbed, bounds>>

lockTimeout(c) ==
    /\ At(c, "lock") /\ lock # None /\ Fault
    /\ Go(c, "done")
    /\ UNCHANGED <<master, release, schema, tls, told, disturbed>>

\* Still the head, and what runs is what is recorded, or nothing is.
preflight(c) ==
    /\ At(c, "preflight")
    /\ IF /\ verify_github_release(c)
          /\ IF marker = 0 THEN apps = 0 /\ edge = 0 ELSE marker \in built
         THEN job' = [job EXCEPT ![c].phase = "build", ![c].prev = marker] /\ UNCHANGED lock
         ELSE End(c)
    /\ UNCHANGED <<master, release, schema, tls, told, disturbed, bounds>>

build(c) ==
    /\ At(c, "build")
    /\ built' = built \cup {c}
    /\ Go(c, "check")
    /\ UNCHANGED <<master, marker, apps, edge, schema, tls, told, disturbed, bounds>>

\* The packaged ledger of the new and of the recorded release against the schema.
migrationCheck(c) ==
    /\ At(c, "check")
    /\ IF SchemaOf(c) = schema
         THEN /\ job' = [job EXCEPT ![c].phase = "bootstrap",
                                    ![c].fits = job[c].prev # 0 /\ SchemaOf(job[c].prev) = schema]
              /\ UNCHANGED lock
         ELSE End(c)
    /\ UNCHANGED <<master, release, schema, tls, told, disturbed, bounds>>

bootstrapTls(c) ==
    /\ At(c, "bootstrap")
    /\ IF pointer = 0 THEN pointer' = 1 /\ whole' = whole \cup {1} ELSE UNCHANGED <<pointer, whole>>
    /\ Go(c, "reverify")
    /\ UNCHANGED <<master, release, schema, issued, served, renew, told, disturbed, bounds>>

reverify(c) ==
    /\ At(c, "reverify")
    /\ IF verify_github_release(c) THEN Go(c, "apps") ELSE End(c)
    /\ UNCHANGED <<master, release, schema, tls, told, disturbed, bounds>>

\* A step before the rollout fails: nothing has changed.
refused(c) ==
    /\ job[c].phase \in Critical \ Rollout /\ Fault
    /\ End(c)
    /\ UNCHANGED <<master, release, schema, tls, told, disturbed>>

\* docker compose up: containers of another release are replaced, those of this
\* one stay; a failed one leaves the old, the new or none.
UpApps(r)       == apps' = r /\ UNCHANGED <<edge, served>>
UpAppsFails(r)  == apps' \in {apps, 0, r} /\ UNCHANGED <<edge, served>>
UpEdge(r)       == edge' = r /\ served' = (IF edge = r THEN served ELSE pointer) /\ UNCHANGED apps
UpEdgeFails(r)  == UNCHANGED apps /\ \/ UNCHANGED <<edge, served>>
                                     \/ edge' = 0 /\ served' = 0
                                     \/ UpEdge(r)

rolloutApps(c) ==
    /\ At(c, "apps")
    /\ \/ UpApps(c) /\ Go(c, "edge") /\ UNCHANGED bounds
       \/ Fault /\ UpAppsFails(c) /\ Go(c, "failed")
    /\ UNCHANGED <<master, marker, built, schema, issued, whole, pointer, renew, told, disturbed>>

\* With the health checks over HTTPS.
rolloutEdge(c) ==
    /\ At(c, "edge")
    /\ \/ UpEdge(c) /\ Go(c, "mark") /\ UNCHANGED bounds
       \/ Fault /\ UpEdgeFails(c) /\ Go(c, "failed")
    /\ UNCHANGED <<master, marker, built, schema, issued, whole, pointer, renew, told, disturbed>>

\* Mutant of publishMarker.
publishMarkerOnce(c) ==
    /\ At(c, "mark")
    /\ \/ marker' = c /\ End(c) /\ disturbed' = {} /\ UNCHANGED bounds
       \/ Fault /\ End(c) /\ UNCHANGED <<marker, disturbed>>
    /\ UNCHANGED <<master, built, apps, edge, schema, tls, told>>

publishMarker(c) ==
    /\ At(c, "mark")
    /\ \/ marker' = c /\ End(c) /\ disturbed' = {} /\ UNCHANGED bounds
       \/ Fault /\ Go(c, "failed") /\ UNCHANGED <<marker, disturbed>>
    /\ UNCHANGED <<master, built, apps, edge, schema, tls, told>>

mayRollBack(c) == job[c].prev # 0 /\ job[c].fits

startRollback(c) ==
    /\ At(c, "failed") /\ mayRollBack(c)
    /\ Go(c, "rollbackApps")
    /\ UNCHANGED <<master, release, schema, tls, told, disturbed, bounds>>

\* No release to go back to: the containers are stopped; a failure is ignored.
stopServices(c) ==
    /\ At(c, "failed") /\ ~mayRollBack(c)
    /\ \/ apps' = 0 /\ edge' = 0 /\ served' = 0 /\ UNCHANGED <<disturbed, bounds>>
       \/ Fault /\ disturbed' = disturbed \cup {"rollout"} /\ UNCHANGED <<apps, edge, served>>
    /\ End(c)
    /\ UNCHANGED <<master, marker, built, schema, issued, whole, pointer, renew, told>>

rollbackApps(c) ==
    /\ At(c, "rollbackApps")
    /\ \/ UpApps(job[c].prev) /\ Go(c, "rollbackEdge") /\ UNCHANGED <<disturbed, bounds>>
       \/ Fault /\ UpAppsFails(job[c].prev) /\ End(c) /\ disturbed' = disturbed \cup {"rollout"}
    /\ UNCHANGED <<master, marker, built, schema, issued, whole, pointer, renew, told>>

rollbackEdge(c) ==
    /\ At(c, "rollbackEdge")
    /\ \/ UpEdge(job[c].prev) /\ UNCHANGED <<disturbed, bounds>>
       \/ Fault /\ UpEdgeFails(job[c].prev) /\ disturbed' = disturbed \cup {"rollout"}
    /\ End(c)
    /\ UNCHANGED <<master, marker, built, schema, issued, whole, pointer, renew, told>>

-----------------------------------------------------------------------------
(* The renewal of the certificate.                                         *)

Step(phase)  == renew' = [renew EXCEPT !.phase = phase] /\ UNCHANGED lock
Finish       == renew' = [renew EXCEPT !.phase = "idle"] /\ lock' = None

\* The daily timer; a lock that is held ends the run at once.
startRenewal ==
    /\ renew.phase = "idle" /\ lock = None /\ bounds.renewals < MaxRenewals
    /\ bounds' = [bounds EXCEPT !.renewals = @ + 1]
    /\ lock' = Renewal /\ renew' = [renew EXCEPT !.phase = "lego"] /\ told' = None
    /\ UNCHANGED <<master, job, release, schema, issued, whole, pointer, served, disturbed>>

\* lego renew --days 30: a new certificate, or none is due.
lego ==
    /\ renew.phase = "lego"
    /\ issued' \in {issued, issued + 1} /\ issued' <= MaxCerts
    /\ Step("install")
    /\ UNCHANGED <<master, job, release, schema, whole, pointer, served, told, disturbed, bounds>>

\* The hook: the current pair is found, or made of the legacy one, and compared.
install ==
    /\ renew.phase = "install"
    /\ pointer' = IF pointer = 0 THEN 1 ELSE pointer
    /\ whole' = whole \cup {pointer'}
    /\ IF marker # 0 /\ marker \notin built THEN Finish /\ UNCHANGED told
       ELSE IF pointer' = issued THEN Finish /\ told' = "already installed"
       ELSE renew' = [phase |-> "publish", old |-> pointer'] /\ UNCHANGED <<lock, told>>
    /\ UNCHANGED <<master, job, release, schema, issued, served, disturbed, bounds>>

\* The pair is copied, validated and moved to its place.
publish ==
    /\ renew.phase = "publish"
    /\ whole' = whole \cup {issued}
    /\ Step("point")
    /\ UNCHANGED <<master, job, release, schema, issued, pointer, served, told, disturbed, bounds>>

point ==
    /\ renew.phase = "point"
    /\ pointer' = issued
    /\ whole' = whole \cup {issued}
    /\ IF marker = 0 THEN Finish /\ told' = "staged" ELSE Step("restart") /\ UNCHANGED told
    /\ UNCHANGED <<master, job, release, schema, issued, served, disturbed, bounds>>

\* plfr_restart_current_edge recreates the edge of the recorded release, and is
\* healthy only with the applications behind it.
Recreated == edge' = marker /\ served' = pointer
plfr_restart_current_edge == apps # 0 /\ Recreated /\ UNCHANGED bounds
RestartFails ==
    /\ \/ Recreated
       \/ edge' = 0 /\ served' = 0
       \/ UNCHANGED <<edge, served>>
    /\ IF apps = 0 THEN UNCHANGED bounds ELSE Fault

restart ==
    /\ renew.phase = "restart"
    /\ \/ plfr_restart_current_edge /\ Finish /\ told' = "installed"
       \/ RestartFails /\ Step("restore") /\ UNCHANGED told
    /\ UNCHANGED <<master, job, marker, built, apps, schema, issued, whole, pointer, disturbed>>

restore ==
    /\ renew.phase = "restore"
    /\ \/ pointer' = renew.old /\ Step("again") /\ UNCHANGED <<disturbed, bounds>>
       \/ Fault /\ Finish /\ disturbed' = disturbed \cup {"pointer"} /\ UNCHANGED pointer
    /\ UNCHANGED <<master, job, release, schema, issued, whole, served, told>>

again ==
    /\ renew.phase = "again"
    /\ plfr_restart_current_edge \/ RestartFails
    /\ Finish
    /\ UNCHANGED <<master, job, marker, built, apps, schema, issued, whole, pointer, told, disturbed>>

\* A check or a copy fails before the pointer has moved.
renewalFails ==
    /\ renew.phase \in {"lego", "install", "publish", "point"} /\ Fault
    /\ Finish
    /\ UNCHANGED <<master, job, release, schema, issued, whole, pointer, served, told, disturbed>>

-----------------------------------------------------------------------------
\* The process that holds the lock is killed, and the lock is free.
kill ==
    /\ lock # None /\ bounds.kills < MaxKills
    /\ bounds' = [bounds EXCEPT !.kills = @ + 1]
    /\ lock' = None
    /\ IF lock = Renewal
       THEN /\ renew' = [renew EXCEPT !.phase = "idle"]
            /\ disturbed' = disturbed \cup (IF renew.phase \in {"restart", "restore"} THEN {"pointer"} ELSE {})
            /\ UNCHANGED job
       ELSE /\ job' = [job EXCEPT ![lock].phase = "done"]
            /\ disturbed' = disturbed \cup (IF job[lock].phase \in Rollout THEN {"rollout"} ELSE {})
            /\ UNCHANGED renew
    /\ UNCHANGED <<master, release, schema, issued, whole, pointer, served, told>>

Job(c) ==
    \/ entrypoint(c) \/ plfr_acquire_release_lock(c) \/ lockTimeout(c) \/ preflight(c) \/ build(c) \/ migrationCheck(c)
    \/ bootstrapTls(c) \/ reverify(c) \/ refused(c) \/ rolloutApps(c) \/ rolloutEdge(c) \/ publishMarker(c)
    \/ startRollback(c) \/ stopServices(c) \/ rollbackApps(c) \/ rollbackEdge(c)

Renew == lego \/ install \/ publish \/ point \/ restart \/ restore \/ again \/ renewalFails

Next == push \/ migrate \/ (\E c \in Commits : Job(c)) \/ startRenewal \/ Renew \/ kill

Spec == Init /\ [][Next]_vars

\* Commands end (all have a timeout), and a job that waits for the lock gets it.
FairSpec == Spec /\ WF_vars(Renew) /\ \A c \in Commits : WF_vars(Job(c))

-----------------------------------------------------------------------------
(* Properties.                                                             *)

\* The recorded release never goes back to an older commit, whatever the order
\* in which jobs start and wait for the lock.
MarkerForward == [][marker' >= marker]_marker

\* Between jobs nothing runs but the recorded release, unless a job was killed
\* in its rollout or had to give up its rollback.
RunsRecorded == lock = None /\ "rollout" \notin disturbed => apps \in {0, marker} /\ edge \in {0, marker}

\* The applications of a release whose migrations are not those of the database
\* are never started, by a rollout or by a rollback.
CompatibleStarts == [][apps' \notin {0, apps} => SchemaOf(apps') = schema]_vars

\* tls/current names a whole pair at every moment, also when a job is killed.
PointerWhole == pointer # 0 => pointer \in whole

\* When a renewal has said that the pair is installed, it is what the edge serves
\* (after a rollout that was cut short, an edge nobody recorded may be running).
ServedIsInstalled == "rollout" \notin disturbed /\ told \in {"installed", "already installed"} /\ edge # 0 => served = pointer

\* The same unless a renewal was killed between the move of tls/current and the
\* restart of the edge, or the restart failed and the pointer could not be moved
\* back; the next rollout repairs that.
ServedUnlessCut == "pointer" \notin disturbed => ServedIsInstalled

\* The newest commit ends up recorded, although jobs of older commits and the
\* renewal compete for the lock.
LatestDeployed == \A c \in Commits : master = c ~> (marker = c \/ master > c)
================================================================================
