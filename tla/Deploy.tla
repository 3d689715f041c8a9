-------------------------------- MODULE Deploy --------------------------------
(***************************************************************************)
(* A deployment: scripts/deploy-vps.sh on the operator's side, its remote  *)
(* part, deploy-remote.sh and ensure-caddy-inventory.sh on the server, and *)
(* the rollback, which runs restore-vps.sh (Restore.tla).  Commits on main *)
(* are numbered; commit c comes with the database schema Schema[c].        *)
(***************************************************************************)
EXTENDS Restore

CONSTANTS
  MaxCommit, \* bound: commits on main
  MaxDeploy, \* bound: deployments
  Schema,    \* the head revision of each commit's migrations
  Broken     \* commits whose container does not become ready

Commit == 1..MaxCommit

ASSUME DeployAssumption ==
  /\ MaxCommit \in Nat \ {0} /\ MaxDeploy \in Nat
  /\ Schema \in [Commit -> Nat \ {0}]
  /\ \A b, c \in Commit : b <= c => Schema[b] <= Schema[c]
  /\ Broken \subseteq Commit \ {1}

VARIABLES
  main,    \* the newest commit on GitHub
  passed,  \* commits whose required checks have succeeded
  dns,     \* how many A records the host name has, and whether they are right
  deploy,  \* the deployment under way: the shell variables of its scripts
  host,    \* the server: checkout, image, container, firewall
  caddy,   \* the shared proxy: its file and its running configuration
  schema,  \* the schema revision of each state of the data
  before   \* history: caddy as the deployment found it

deployVars ==
  <<dir, web, script, command, old, failures, kills,
    main, passed, dns, deploy, host, caddy, schema, before>>

\* ready: DNS resolves; saved: backed up; started: the new container is ready;
\* patched, reloaded: within ensure-caddy-inventory.sh; gated: the port may be
\* closed; restoring: restore-vps.sh runs.
DeployStep ==
  {"idle", "resolved", "checked", "ready", "fetched", "built", "saved", "started",
   "patched", "reloaded", "served", "smoked", "rebound", "gated", "closed",
   "rolling back", "restoring", "resetting"}

Outcome == {"none", "stopped", "deployed", "rolled back", "rollback failed", "killed"}

\* target: resolved and checked on the operator's side; commit: FETCH_HEAD on the
\* server; prior: PRIOR_HEALTHY_SHA;
\* archive: schema of the paired backup, 0 if none; caddyBackup: whether there is
\* one; bind: bind_address.
DeployState ==
  [at : DeployStep, target : Commit, commit : Commit, prior : Commit, archive : Nat,
   caddyBackup : BOOLEAN, bind : {"public", "loopback"}, outcome : Outcome, number : Nat]

\* container, overlay, bound: what the running container was made from: its
\* commit, whether compose.prod.yaml was used, and its address.
HostState ==
  [head : Commit, image : Commit, container : Commit, overlay : BOOLEAN,
   bound : {"public", "loopback"}, open : BOOLEAN]

CaddyState == [file : {"plain", "site"}, running : {"plain", "site"}]
Plain == [file |-> "plain", running |-> "plain"]

At(step) == deploy.at = step
Goes(step) == deploy' = [deploy EXCEPT !.at = step]
Ends(outcome) == deploy' = [deploy EXCEPT !.at = "idle", !.outcome = outcome]

LiveData == dir["live"]["database"]

\* readyz: the schema is the one that the code expects.
Ready(c, revision) == c \notin Broken /\ revision = Schema[c]

\* upgrade_to_head: up, never down; of an unknown, newer revision it fails, and
\* prepare_runtime logs that and starts the application all the same.  A commit
\* that is broken may be so before or after its migration.
Migrate(c) ==
  LET found == IF LiveData = "none" THEN 0 ELSE schema[LiveData]
  IN \E revision \in {IF found < Schema[c] THEN Schema[c] ELSE found}
                     \cup (IF c \in Broken THEN {found} ELSE {}) :
       schema' = [schema EXCEPT ![dir'["live"]["database"]] = revision]

\* On a server h, a container of its image prepares the data directory and serves.
Serve(h, overlay, bound) ==
  /\ web' = TRUE
  /\ dir' = [dir EXCEPT !["live"] = Started(@)]
  /\ Migrate(h.image)
  /\ host' = [h EXCEPT !.container = h.image, !.overlay = overlay, !.bound = bound]

\* compose up fails before a new container runs; the old one may be gone by then.
UpFails == web' \in {web, FALSE} /\ UNCHANGED <<dir, schema>>

IsUp == Ready(host'.container, schema'[dir'["live"]["database"]])

\* Mutant of ComposeUp: without compose.prod.yaml.
ComposeUpPlain(h, bound) == Serve([h EXCEPT !.image = h.head], FALSE, bound)

\* compose_up: a container of the checkout's image replaces the old one.
ComposeUp(h, bound) == Serve([h EXCEPT !.image = h.head], TRUE, bound)

DeployInit ==
  /\ Init
  /\ main = 1 /\ passed = {1}
  /\ dns \in {[records |-> 0, right |-> FALSE], [records |-> 1, right |-> FALSE],
              [records |-> 1, right |-> TRUE]}
  /\ deploy = [at |-> "idle", target |-> 1, commit |-> 1, prior |-> 1, archive |-> 0,
               caddyBackup |-> FALSE, bind |-> "public", outcome |-> "none", number |-> 0]
  /\ host = [head |-> 1, image |-> 1, container |-> 1, overlay |-> TRUE,
             bound |-> "public", open |-> TRUE]
  /\ caddy \in {Plain, [file |-> "site", running |-> "site"]}
  /\ schema = [c \in Content |-> Schema[1]]
  /\ before = caddy

\* What restore-vps.sh changes, and what is outside the server.
restoreVars == <<dir, web, script, command, old, failures, kills>>
world == <<main, passed, dns>>

-----------------------------------------------------------------------------
(* GitHub, and the operator's side: deploy-vps.sh *)

Push ==
  /\ main < MaxCommit
  /\ main' = main + 1
  /\ UNCHANGED <<passed, dns, deploy, host, caddy, schema, before, restoreVars>>

\* The required checks of a commit are complete and successful.
PassChecks(c) ==
  /\ c \in (1..main) \ passed
  /\ passed' = passed \cup {c}
  /\ UNCHANGED <<main, dns, deploy, host, caddy, schema, before, restoreVars>>

\* git ls-remote.  bound: no deployment after one that has restored data.
Resolve ==
  /\ At("idle") /\ script = "verifying" /\ deploy.number < MaxDeploy
  /\ deploy' = [at |-> "resolved", target |-> main, commit |-> 1, prior |-> 1, archive |-> 0,
                caddyBackup |-> FALSE, bind |-> "public", outcome |-> "none",
                number |-> deploy.number + 1]
  /\ before' = caddy
  /\ UNCHANGED <<world, host, caddy, schema, restoreVars>>

\* check-ci: evaluate_required_checks
CheckCi ==
  /\ At("resolved")
  /\ IF deploy.target \in passed THEN Goes("checked") ELSE Ends("stopped")
  /\ UNCHANGED <<world, host, caddy, schema, before, restoreVars>>

\* Mutant of DnsAction: no lookup first.
AlwaysCreate(records, right) == "create"

DnsAction(records, right) ==
  CASE records = 0 -> "create"
    [] records # 0 /\ right -> "exists"
    [] OTHER -> "update"

\* ensure-dns; the deployment stops if a response is lost, though the record may
\* have been made, and if the name does not resolve in time.
EnsureDns ==
  /\ At("checked")
  /\ LET action == DnsAction(dns.records, dns.right)
     IN \/ dns' = [records |-> dns.records + (IF action = "create" THEN 1 ELSE 0),
                   right |-> TRUE]
        \/ dns' = dns
  /\ \/ dns'.right /\ Goes("ready")
     \/ Ends("stopped")
  /\ UNCHANGED <<main, passed, host, caddy, schema, before, restoreVars>>

-----------------------------------------------------------------------------
(* The server's side, up to the new container *)

\* git fetch, merge --ff-only: what main is now, which may be newer than the
\* target that was checked.
Checkout ==
  /\ At("ready")
  /\ host' = [host EXCEPT !.head = main]
  /\ deploy' = [deploy EXCEPT !.at = "fetched", !.commit = main, !.prior = host.head]
  /\ UNCHANGED <<world, caddy, schema, before, restoreVars>>

\* docker compose build web
Build ==
  /\ At("fetched")
  /\ \/ Goes("built") /\ host' = [host EXCEPT !.image = host.head]
     \/ Ends("stopped") /\ host' = host
  /\ UNCHANGED <<world, caddy, schema, before, restoreVars>>

\* Mutant of WithoutBackup: the failure is ignored.
GoOn == Goes("saved")

WithoutBackup == Ends("stopped")

\* run-backup-vps.sh (Backups.tla), of the data that is being served.
Backup ==
  /\ At("built")
  /\ \/ deploy' = [deploy EXCEPT !.at = "saved", !.archive = schema[LiveData]]
     \/ WithoutBackup
  /\ UNCHANGED <<world, host, caddy, schema, before, restoreVars>>

\* The container is replaced, and is ready within a minute or not; or compose_up
\* fails before.
Replace ==
  /\ At("saved")
  /\ \/ ComposeUp(host, deploy.bind) /\ IsUp /\ Goes("started")
     \/ ComposeUp(host, deploy.bind) /\ Goes("rolling back")
     \/ UpFails /\ host' = host /\ Goes("rolling back")
  /\ UNCHANGED <<world, caddy, before, script, command, old, failures, kills>>

-----------------------------------------------------------------------------
(* The proxy and the firewall *)

\* ensure-caddy-inventory.sh: the block is in the file, which is left as it is,
\* or is written into it.
PatchCaddy ==
  /\ At("started")
  /\ IF caddy.file = "site" THEN Goes("served") ELSE Goes("patched")
  /\ caddy' = [caddy EXCEPT !.file = "site"]
  /\ UNCHANGED <<world, host, schema, before, restoreVars>>

\* The original file returns; its reload may fail, which is ignored.
RestoreCaddy ==
  /\ \/ caddy' = Plain /\ failures' = failures
     \/ /\ failures < MaxFailures /\ failures' = failures + 1
        /\ caddy' = [caddy EXCEPT !.file = "plain"]

\* caddy validate, caddy reload
ReloadCaddy ==
  /\ At("patched")
  /\ \/ /\ Goes("reloaded") /\ caddy' = [caddy EXCEPT !.running = caddy.file]
        /\ failures' = failures
     \/ Goes("rolling back") /\ RestoreCaddy
  /\ UNCHANGED <<world, host, schema, before, dir, web, script, command, old, kills>>

\* Mutant of Recorded: the name of the copy does not reach deploy-remote.sh.
NotRecorded == FALSE

Recorded == TRUE

\* Needleminder is healthy after the reload, or not.
KeepCaddy ==
  /\ At("reloaded")
  /\ \/ /\ deploy' = [deploy EXCEPT !.at = "served", !.caddyBackup = Recorded]
        /\ UNCHANGED <<caddy, failures>>
     \/ Goes("rolling back") /\ RestoreCaddy
  /\ UNCHANGED <<world, host, schema, before, dir, web, script, command, old, kills>>

ProxyServes == caddy.running = "site" /\ host.overlay /\ web

\* Mutant of SmokeOk: the smoke test's result is not looked at.
SmokeAnyway == TRUE

SmokeOk == ProxyServes

Smoke ==
  /\ At("served") /\ SmokeOk
  /\ Goes("smoked")
  /\ UNCHANGED <<world, host, caddy, schema, before, restoreVars>>

\* bind_address is set first; then the container is replaced.
Rebind ==
  /\ At("smoked")
  /\ \/ /\ ComposeUp(host, "loopback")
        /\ \/ IsUp /\ deploy' = [deploy EXCEPT !.at = "rebound", !.bind = "loopback"]
           \/ deploy' = [deploy EXCEPT !.at = "rolling back", !.bind = "loopback"]
     \/ /\ deploy' = [deploy EXCEPT !.at = "rolling back", !.bind = "loopback"]
        /\ UpFails /\ host' = host
  /\ UNCHANGED <<world, caddy, before, script, command, old, failures, kills>>

\* can_close_public_port
Gate ==
  /\ At("rebound") /\ ProxyServes
  /\ Goes("gated")
  /\ UNCHANGED <<world, host, caddy, schema, before, restoreVars>>

ClosePort ==
  /\ At("gated")
  /\ Goes("closed")
  /\ host' = [host EXCEPT !.open = FALSE]
  /\ UNCHANGED <<world, caddy, schema, before, restoreVars>>

FinalCheck ==
  /\ At("closed") /\ ProxyServes
  /\ Ends("deployed")
  /\ UNCHANGED <<world, host, caddy, schema, before, restoreVars>>

\* A probe fails, or the command that should take the next step.
StepFails ==
  /\ deploy.at \in {"started", "served", "smoked", "rebound", "gated", "closed"}
  /\ Goes("rolling back")
  /\ UNCHANGED <<world, host, caddy, schema, before, restoreVars>>

\* The ssh session breaks off, and the script with it.  bound: not during a
\* rollback.
Abort ==
  /\ deploy.at \notin {"idle", "rolling back", "restoring", "resetting"}
  /\ kills < MaxKills /\ kills' = kills + 1
  /\ Ends("killed")
  /\ UNCHANGED <<world, host, caddy, schema, before, dir, web, script, command, old, failures>>

-----------------------------------------------------------------------------
(* rollback *)

Rollback ==
  /\ At("rolling back")
  /\ IF deploy.caddyBackup THEN RestoreCaddy ELSE UNCHANGED <<caddy, failures>>
  /\ Goes("restoring")
  /\ UNCHANGED <<world, host, schema, before, dir, web, script, command, old, kills>>

\* A step of restore-vps.sh that starts no container; the database that it
\* extracts has the schema of the archive.
RestoreStep ==
  /\ At("restoring")
  /\ \/ RefuseArchive \/ StopForRestore \/ StopForRollback
     \/ BeginRestore \/ BeginRollback \/ FailEarly
     \/ Rename \/ Fail \/ Finish \/ Raise \/ Kill
     \/ Healthy /\ Ready(host.container, schema[LiveData])
  /\ schema' = IF dir["stage"] = Nothing /\ dir'["stage"] = Archived
                 THEN [schema EXCEPT !["new"] = deploy.archive] ELSE schema
  /\ UNCHANGED <<world, deploy, host, caddy, before>>

\* If it starts a container, it is of the image that failed, and without
\* compose.prod.yaml.
RestoreStarts ==
  /\ At("restoring")
  /\ \/ StartWeb("starting", "checking")
     \/ StartWeb("starting previous", "not restored")
     \/ StartWeb("starting rolled back", "rolled back")
  /\ \/ ~web /\ Serve(host, FALSE, deploy.bind)
     \/ web' = web /\ UNCHANGED <<dir, host, schema>>
  /\ UNCHANGED <<world, deploy, caddy, before>>

\* An application that it could not stop makes an empty database if there is none.
RestoreBeside ==
  /\ At("restoring")
  /\ WebConnects
  /\ schema' = IF LiveData = "none" THEN [schema EXCEPT !["fresh"] = 0] ELSE schema
  /\ UNCHANGED <<world, deploy, host, caddy, before>>

RestoreEnds ==
  /\ At("restoring")
  /\ script \in {"refused", "restored", "not restored", "rolled back"}
  /\ Goes("resetting")
  /\ UNCHANGED <<world, host, caddy, schema, before, restoreVars>>

\* Mutant of ResetTo: the checkout stays as it is.
NoReset == host.head

ResetTo == deploy.prior

\* git reset --hard, compose_up
Reset ==
  /\ At("resetting")
  /\ \/ /\ ComposeUp([host EXCEPT !.head = ResetTo], deploy.bind)
        /\ Ends(IF IsUp THEN "rolled back" ELSE "rollback failed")
        /\ failures' = failures
     \/ /\ failures < MaxFailures /\ failures' = failures + 1
        /\ host' = [host EXCEPT !.head = ResetTo]
        /\ Ends("rollback failed")
        /\ UpFails
  /\ UNCHANGED <<world, caddy, before, script, command, old, kills>>

-----------------------------------------------------------------------------
DeployNext ==
  \/ Push \/ \E c \in Commit : PassChecks(c)
  \/ Resolve \/ CheckCi \/ EnsureDns
  \/ Checkout \/ Build \/ Backup \/ Replace
  \/ PatchCaddy \/ ReloadCaddy \/ KeepCaddy
  \/ Smoke \/ Rebind \/ Gate \/ ClosePort \/ FinalCheck \/ StepFails \/ Abort
  \/ Rollback \/ RestoreStep \/ RestoreStarts \/ RestoreBeside \/ RestoreEnds \/ Reset

DeploySpec == DeployInit /\ [][DeployNext]_deployVars

-----------------------------------------------------------------------------
(* Properties *)

\* Every variable has its type, and the steps that replace the container have the
\* archive that a rollback needs.
DeployTypeOK ==
  /\ main \in Commit /\ passed \subseteq 1..main
  /\ dns \in [records : Nat, right : BOOLEAN]
  /\ deploy \in DeployState
  /\ host \in HostState
  /\ caddy \in CaddyState /\ before \in CaddyState
  /\ schema \in [Content -> Nat]
  /\ deploy.at \in {"saved", "started", "patched", "reloaded", "served", "smoked",
                    "rebound", "gated", "closed", "rolling back", "restoring", "resetting"} =>
       deploy.archive # 0

\* docs/plans/08:43 "backup, build, migration": data that is being served is
\* migrated only when an archive of it at the revision it had can be restored,
\* also by the start of an image that an earlier deployment left behind.
MigrationsFollowBackups ==
  [][\A d \in {"old", "new"} :
       LiveData = d /\ schema'[d] # schema[d] => deploy.archive = schema[d]]_deployVars

\* docs/deployment.md:69-71: a rollback leads to a healthy service unless the
\* new commit has a migration, whatever restore-vps.sh did on the way.
RollbackFailsByMigration ==
  deploy.outcome = "rollback failed" /\ failures = 0 =>
    Schema[deploy.prior] < Schema[deploy.commit] \/ deploy.prior \in Broken

\* docs/plans/08:45 and 79: "must restore the paired data backup and prior SHA":
\* a rollback whose restore is reported as done leads to a healthy service.
\* Violated: restore-vps.sh starts the new image, which migrates the restored
\* database, and then the prior commit finds a schema that it does not know.
RollbackSucceeds ==
  deploy.outcome = "rollback failed" /\ script = "restored" => failures > 0 \/ kills > 0

\* docs/plans/08:32 "Remove the public UFW TCP 8080 rule only after HTTPS
\* succeeds": from the smoke test on the application can be reached, on its own
\* port or through the proxy, until a rollback begins.
ReachableAfterSmoke ==
  At("smoked") \/ At("rebound") \/ At("gated") \/ At("closed")
               \/ (At("idle") /\ deploy.outcome = "deployed") =>
    ProxyServes \/ (web /\ host.open /\ host.bound = "public")

\* docs/plans/08:21 "Back up [...] Caddyfile": a deployment that does not succeed
\* leaves the proxy's file and configuration as it found them.  Exempt are one that
\* is killed, which undoes nothing, and one with a failure: the reload of the
\* restored file may fail, which the scripts ignore.
FailedDeployKeepsCaddy ==
  deploy.outcome \in {"stopped", "rolled back", "rollback failed"} /\ failures = 0 =>
    caddy = before

\* docs/plans/08:47 "idempotent and does not duplicate DNS": also when a response
\* was lost and the deployment is run again.
OneDnsRecord == dns.records <= 1

\* A deployment, or a rollback, that is reported as done has left the container
\* on the proxy's network, though restore-vps.sh had started it without.
DoneIsOnProxyNetwork ==
  At("idle") /\ deploy.outcome \in {"deployed", "rolled back"} => host.overlay
=============================================================================
