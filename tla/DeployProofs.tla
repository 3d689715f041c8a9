----------------------------- MODULE DeployProofs -----------------------------
(* Theorems about Deploy for any number of commits, deployments, failures and    *)
(* kills, and any schema of each commit.                                        *)
EXTENDS Deploy, RestoreProofs

-----------------------------------------------------------------------------
(* The inductive invariant *)

\* Nothing has been fetched; nothing of the proxy has been touched; from the smoke
\* test on; within or after ensure-caddy-inventory.sh; with a backup.
Operator == {"idle", "resolved", "checked", "ready"}
Unpatched == {"resolved", "checked", "ready", "fetched", "built", "saved", "started"}
AfterSmoke == {"smoked", "rebound", "gated", "closed"}
Served == {"served"} \cup AfterSmoke
Saved == {"saved", "started", "patched", "reloaded", "rolling back", "restoring", "resetting"}
         \cup Served

\* restore-vps.sh runs only within a rollback, and has exited before the reset.
Exits == {"refused", "restored", "not restored", "rolled back"}

Steps ==
  /\ deploy.at \notin {"idle", "restoring", "resetting"} => script = "verifying"
  /\ deploy.at = "resetting" => script \in Exits
  /\ deploy.at # "idle" => deploy.outcome = "none"

Serving ==
  /\ deploy.at \in AfterSmoke \/ (At("idle") /\ deploy.outcome = "deployed") => ProxyServes
  /\ At("idle") /\ deploy.outcome = "rolled back" => host.overlay

\* Whose file the proxy has, and whether the rollback knows.
CaddyKept ==
  /\ caddy.file = "plain" => caddy = Plain
  /\ before.file = "plain" => before = Plain
  /\ deploy.at \in Unpatched => caddy = before /\ ~deploy.caddyBackup
  /\ deploy.at \in {"patched", "reloaded"} => before = Plain
  /\ deploy.at \in Served \cup {"rolling back"} =>
       IF deploy.caddyBackup THEN before = Plain ELSE caddy = before
  /\ deploy.at \in {"restoring", "resetting"} => caddy = before
  /\ At("idle") /\ deploy.outcome \in {"stopped", "rolled back", "rollback failed"} =>
       caddy = before

\* No commit and no schema is newer than what the deployment has fetched, or than
\* main while it has fetched nothing.
Newest == IF deploy.at \in Operator THEN main ELSE deploy.commit

Commits ==
  /\ deploy.commit <= main
  /\ host.head <= Newest /\ host.image <= Newest
  /\ \A d \in Content : schema[d] <= Schema[Newest]
  /\ deploy.at \notin Operator => deploy.prior <= deploy.commit /\ host.head = deploy.commit
  /\ deploy.at \in Saved \cup {"built"} => host.image = deploy.commit
  /\ deploy.at \in Saved => deploy.archive <= Schema[deploy.commit]

\* The backup has the schema of this state of the data, or the image that may be
\* started does not migrate it.
Paired(d) == schema[d] = deploy.archive \/ schema[d] >= Schema[host.image]

\* There is a database of the archive.
Extracted == \E p \in Place : dir[p]["database"] = "new"

Saves ==
  /\ schema["old"] > 0
  /\ script \in {"verifying", "refused"} \/ (script = "restoring" /\ command = NoCommand) =>
       dir["stage"] = Nothing
  /\ deploy.at \in Saved => Paired("old") /\ (Extracted => Paired("new"))

DInv ==
  /\ DeployTypeOK /\ IInv /\ Steps /\ Serving /\ OneDnsRecord
  /\ failures = 0 => CaddyKept
  /\ Commits /\ Saves /\ RollbackFailsByMigration
-----------------------------------------------------------------------------
(* Types *)

\* From the backup on there is an archive.
BackedUp == deploy.at \in Saved => deploy.archive # 0

LEMMA DeployTypes ==
  DeployTypeOK <=>
    /\ main \in Commit /\ passed \subseteq 1..main
    /\ dns \in [records : Nat, right : BOOLEAN]
    /\ deploy \in DeployState /\ host \in HostState
    /\ caddy \in CaddyState /\ before \in CaddyState
    /\ schema \in [Content -> Nat]
    /\ BackedUp
<1>1. deploy.at \in Saved <=>
        deploy.at \in {"saved", "started", "patched", "reloaded", "served", "smoked",
                       "rebound", "gated", "closed", "rolling back", "restoring", "resetting"}
  BY DEF Saved, Served, AfterSmoke
<1> QED BY <1>1, Zenon DEF DeployTypeOK, BackedUp

LEMMA DeployTypesNext ==
  DeployTypeOK' <=>
    /\ main' \in Commit /\ passed' \subseteq 1..main'
    /\ dns' \in [records : Nat, right : BOOLEAN]
    /\ deploy' \in DeployState /\ host' \in HostState
    /\ caddy' \in CaddyState /\ before' \in CaddyState
    /\ schema' \in [Content -> Nat]
    /\ BackedUp'
<1>1. deploy'.at \in Saved <=>
        deploy'.at \in {"saved", "started", "patched", "reloaded", "served", "smoked",
                        "rebound", "gated", "closed", "rolling back", "restoring", "resetting"}
  BY DEF Saved, Served, AfterSmoke
<1> QED BY <1>1, Zenon DEF DeployTypeOK, BackedUp

LEMMA Numbers ==
  /\ Commit \subseteq Nat /\ 1 \in Commit
  /\ \A c \in Commit : Schema[c] \in Nat /\ Schema[c] > 0
  /\ \A b, c \in Commit : b <= c => Schema[b] <= Schema[c]
BY DeployAssumption DEF Commit

LEMMA Kinds ==
  ASSUME DInv
  PROVE  /\ main \in Commit /\ passed \subseteq 1..main
         /\ dns \in [records : Nat, right : BOOLEAN]
         /\ deploy \in DeployState /\ host \in HostState
         /\ caddy \in CaddyState /\ before \in CaddyState
         /\ schema \in [Content -> Nat]
         /\ BackedUp /\ IInv
         /\ deploy.at \in DeployStep /\ deploy.commit \in Commit /\ deploy.prior \in Commit
         /\ deploy.archive \in Nat
         /\ host.head \in Commit /\ host.image \in Commit
<1>1. DeployTypeOK /\ IInv
  BY DEF DInv
<1>2. deploy \in DeployState /\ host \in HostState
  BY <1>1, DeployTypes
<1>3. /\ deploy.at \in DeployStep /\ deploy.commit \in Commit /\ deploy.prior \in Commit
      /\ deploy.archive \in Nat
  BY <1>2, Zenon DEF DeployState
<1>4. host.head \in Commit /\ host.image \in Commit
  BY <1>2, Zenon DEF HostState
<1> QED BY <1>1, <1>2, <1>3, <1>4, DeployTypes

\* What a step that only goes on leaves as it is.
SameDeploy ==
  /\ deploy'.target = deploy.target /\ deploy'.commit = deploy.commit
  /\ deploy'.prior = deploy.prior /\ deploy'.archive = deploy.archive
  /\ deploy'.caddyBackup = deploy.caddyBackup /\ deploy'.bind = deploy.bind
  /\ deploy'.number = deploy.number

LEMMA GoesTo ==
  ASSUME deploy \in DeployState, NEW step \in DeployStep, Goes(step)
  PROVE  /\ deploy' \in DeployState /\ deploy'.at = step
         /\ deploy'.outcome = deploy.outcome /\ SameDeploy
BY Zenon DEF Goes, DeployState, SameDeploy

LEMMA EndsWith ==
  ASSUME deploy \in DeployState, NEW outcome \in Outcome, Ends(outcome)
  PROVE  /\ deploy' \in DeployState /\ deploy'.at = "idle"
         /\ deploy'.outcome = outcome /\ SameDeploy
<1> DEFINE a == [deploy EXCEPT !.at = "idle"]
<1>1. "idle" \in DeployStep
  BY DEF DeployStep
<1>2. /\ a \in DeployState /\ a.at = "idle"
      /\ a.target = deploy.target /\ a.commit = deploy.commit /\ a.prior = deploy.prior
      /\ a.archive = deploy.archive /\ a.caddyBackup = deploy.caddyBackup
      /\ a.bind = deploy.bind /\ a.number = deploy.number
  BY <1>1, Zenon DEF DeployState
<1>3. deploy' = [a EXCEPT !.outcome = outcome]
  BY Zenon DEF Ends
<1> HIDE DEF a
<1>4. /\ deploy' \in DeployState /\ deploy'.at = a.at /\ deploy'.outcome = outcome
      /\ deploy'.target = a.target /\ deploy'.commit = a.commit /\ deploy'.prior = a.prior
      /\ deploy'.archive = a.archive /\ deploy'.caddyBackup = a.caddyBackup
      /\ deploy'.bind = a.bind /\ deploy'.number = a.number
  BY <1>2, <1>3, Zenon DEF DeployState
<1> QED BY <1>2, <1>4, Zenon DEF SameDeploy
-----------------------------------------------------------------------------
(* Steps that start no container and touch no data *)

\* The data, the container's image and the commits stay; main may grow.
Onwards ==
  /\ main' \in Commit /\ main <= main'
  /\ deploy' \in DeployState
  /\ deploy'.commit = deploy.commit /\ deploy'.prior = deploy.prior
  /\ deploy'.archive = deploy.archive
  /\ deploy'.at \in Saved => deploy.at \in Saved
  /\ deploy'.at \in Saved \cup {"built"} => deploy.at \in Saved \cup {"built"}
  /\ deploy'.at \notin Operator => deploy.at \notin Operator
  /\ host' \in HostState /\ host'.head = host.head /\ host'.image = host.image
  /\ schema' = schema
  /\ dir' = dir /\ script' = script /\ command' = command /\ old' = old
  /\ failures' \in 0..MaxFailures /\ kills' \in 0..MaxKills
  /\ failures' >= failures /\ kills' >= kills

LEMMA GoesOnwards ==
  ASSUME DInv, Onwards, web' = web \/ (web' = FALSE /\ script \in Settled)
  PROVE  IInv' /\ Commits' /\ Saves' /\ BackedUp'
<1>1. IInv'
  <2>1. IInv
    BY Kinds
  <2> QED BY <2>1, OnlyCounts DEF Onwards
<1>2. Commits'
  <2>1. Commits
    BY DEF DInv
  <2>2. /\ main \in Nat /\ main' \in Nat /\ deploy.commit \in Commit /\ main \in Commit
        /\ main' \in Commit /\ main <= main' /\ deploy.commit <= main /\ deploy.commit \in Nat
        /\ host.head \in Nat /\ host.image \in Nat
    BY <2>1, Kinds, Numbers DEF Onwards, Commits
  <2>3. Newest \in Commit /\ Newest' \in Commit /\ Newest <= Newest'
    BY <2>2 DEF Newest, Onwards
  <2>4. Schema[Newest] <= Schema[Newest'] /\ Schema[Newest] \in Nat /\ Schema[Newest'] \in Nat
    BY <2>3, Numbers
  <2>5. host'.head <= Newest' /\ host'.image <= Newest'
    BY <2>1, <2>2, <2>3, Numbers DEF Commits, Onwards
  <2>6. ASSUME NEW d \in Content PROVE schema'[d] <= Schema[Newest']
    <3>1. schema[d] \in Nat
      BY Kinds
    <3>2. schema[d] <= Schema[Newest]
      BY <2>1 DEF Commits
    <3>3. schema'[d] = schema[d]
      BY DEF Onwards
    <3> QED BY <2>4, <3>1, <3>2, <3>3
  <2>7. deploy'.commit <= main'
    BY <2>2 DEF Onwards
  <2> QED BY <2>1, <2>5, <2>6, <2>7 DEF Commits, Onwards
<1>3. Saves'
  <2>1. Saves
    BY DEF DInv
  <2>2. /\ Extracted' <=> Extracted
        /\ Paired("old")' <=> Paired("old")
        /\ Paired("new")' <=> Paired("new")
    BY DEF Extracted, Paired, Onwards
  <2> QED BY <2>1, <2>2 DEF Saves, Onwards
<1>4. BackedUp'
  BY Kinds DEF BackedUp, Onwards
<1> QED BY <1>1, <1>2, <1>3, <1>4

LEMMA SameService ==
  ASSUME caddy'.running = caddy.running, host'.overlay = host.overlay, web' = web
  PROVE  ProxyServes' <=> ProxyServes
BY Zenon DEF ProxyServes

LEMMA OnwardsKeeps ==
  ASSUME DInv, Onwards, web' = web \/ (web' = FALSE /\ script \in Settled), passed' \subseteq 1..main',
         dns' \in [records : Nat, right : BOOLEAN], OneDnsRecord',
         caddy' \in CaddyState, before' \in CaddyState,
         Steps', Serving', failures' = 0 => CaddyKept', RollbackFailsByMigration'
  PROVE  DInv'
<1>1. IInv' /\ Commits' /\ Saves' /\ BackedUp'
  BY GoesOnwards
<1>2. schema' \in [Content -> Nat]
  BY Kinds DEF Onwards
<1>3. main' \in Commit /\ deploy' \in DeployState /\ host' \in HostState
  BY Zenon DEF Onwards
<1>4. DeployTypeOK'
  BY <1>1, <1>2, <1>3, DeployTypesNext
<1> QED BY <1>1, <1>4, Zenon DEF DInv

\* The steps outside the server, and before the checkout.
Outside == deploy' = deploy /\ host' = host /\ caddy' = caddy /\ before' = before
           /\ schema' = schema /\ dir' = dir /\ script' = script /\ command' = command
           /\ old' = old /\ failures' = failures /\ kills' = kills

LEMMA OutsideKeeps ==
  ASSUME DInv, Outside, web' = web, main' \in Commit, main <= main', passed' \subseteq 1..main',
         dns' \in [records : Nat, right : BOOLEAN], OneDnsRecord'
  PROVE  DInv'
<1>1. Onwards
  BY Kinds, TypeParts, RestoreAssumption DEF Outside, Onwards
<1>2. Steps /\ Serving /\ (failures = 0 => CaddyKept) /\ RollbackFailsByMigration
  BY DEF DInv
<1>3. Steps'
  BY <1>2 DEF Steps, Outside
<1>4. Serving'
  <2>1. ProxyServes' <=> ProxyServes
    BY SameService DEF Outside
  <2> QED BY <1>2, <2>1, Zenon DEF Serving, At, Outside
<1>5. failures' = 0 => CaddyKept'
  BY <1>2, Zenon DEF CaddyKept, At, Outside
<1>6. RollbackFailsByMigration'
  BY <1>2 DEF RollbackFailsByMigration, Outside
<1>7. caddy' \in CaddyState /\ before' \in CaddyState
  BY Kinds DEF Outside
<1> QED BY <1>1, <1>3, <1>4, <1>5, <1>6, <1>7, OnwardsKeeps

LEMMA StepPush == ASSUME DInv, Push PROVE DInv'
<1>1. Outside /\ passed' = passed /\ dns' = dns /\ main' = main + 1 /\ main < MaxCommit
  BY DEF Push, Outside, restoreVars
<1>2. web' = web
  BY DEF Push, restoreVars
<1>3. main' \in Commit /\ main <= main' /\ passed' \subseteq 1..main'
  <2>1. main \in Nat /\ main >= 1 /\ passed \subseteq 1..main
    BY Kinds, DeployAssumption DEF Commit
  <2> QED BY <1>1, <2>1, DeployAssumption DEF Commit
<1>4. dns' \in [records : Nat, right : BOOLEAN] /\ OneDnsRecord'
  BY <1>1, Kinds DEF DInv, OneDnsRecord
<1> QED BY <1>1, <1>2, <1>3, <1>4, OutsideKeeps

LEMMA StepPassChecks == ASSUME DInv, NEW c \in Commit, PassChecks(c) PROVE DInv'
<1>1. Outside /\ passed' = passed \cup {c} /\ dns' = dns /\ main' = main /\ c \in 1..main
  BY DEF PassChecks, Outside, restoreVars
<1>2. web' = web
  BY DEF PassChecks, restoreVars
<1>3. main' \in Commit /\ main <= main' /\ passed' \subseteq 1..main'
  <2>1. main \in Nat /\ main \in Commit /\ passed \subseteq 1..main
    BY Kinds, Numbers
  <2> QED BY <1>1, <2>1
<1>4. dns' \in [records : Nat, right : BOOLEAN] /\ OneDnsRecord'
  BY <1>1, Kinds DEF DInv, OneDnsRecord
<1> QED BY <1>1, <1>2, <1>3, <1>4, OutsideKeeps

\* Everything but the deployment's own variables is as it was.
OnlyDeploy == /\ host' = host /\ caddy' = caddy /\ before' = before /\ schema' = schema
              /\ dir' = dir /\ script' = script /\ command' = command /\ old' = old
              /\ failures' = failures /\ kills' = kills /\ main' = main /\ passed' = passed

LEMMA OnlyDeployOnwards ==
  ASSUME DInv, OnlyDeploy, deploy' \in DeployState, SameDeploy,
         deploy'.at \in Saved => deploy.at \in Saved,
         deploy'.at \in Saved \cup {"built"} => deploy.at \in Saved \cup {"built"},
         deploy'.at \notin Operator => deploy.at \notin Operator
  PROVE  /\ Onwards /\ passed' \subseteq 1..main'
         /\ caddy' \in CaddyState /\ before' \in CaddyState
<1>1. IInv /\ main \in Nat
  BY Kinds, Numbers
<1> QED BY <1>1, Kinds, TypeParts DEF OnlyDeploy, Onwards, SameDeploy

\* The rollback is not reported as failed.
LEMMA NotFailed ==
  ASSUME deploy'.outcome # "rollback failed" PROVE RollbackFailsByMigration'
BY DEF RollbackFailsByMigration

\* The deployment ends before it has touched the server.
LEMMA StopsEarly ==
  ASSUME DInv, OnlyDeploy, web' = web, Ends("stopped"), deploy.at \in Unpatched,
         dns' \in [records : Nat, right : BOOLEAN], OneDnsRecord'
  PROVE  DInv'
<1>1. deploy' \in DeployState /\ deploy'.at = "idle" /\ deploy'.outcome = "stopped" /\ SameDeploy
  BY Kinds, EndsWith DEF Outcome
<1>2. /\ Onwards /\ passed' \subseteq 1..main'
      /\ caddy' \in CaddyState /\ before' \in CaddyState
  BY <1>1, OnlyDeployOnwards DEF Operator, Saved, Served, AfterSmoke
<1>3. Steps'
  BY <1>1 DEF Steps
<1>4. Serving'
  BY <1>1 DEF Serving, At, AfterSmoke
<1>5. failures' = 0 => CaddyKept'
  <2>1. failures = 0 => CaddyKept
    BY DEF DInv
  <2> QED BY <1>1, <2>1 DEF CaddyKept, OnlyDeploy, At, Served, AfterSmoke, Unpatched
<1>6. RollbackFailsByMigration'
  BY <1>1, NotFailed
<1> QED BY <1>1, <1>2, <1>3, <1>4, <1>5, <1>6, OnwardsKeeps

\* It takes a step before the proxy is patched.
LEMMA GoesEarly ==
  ASSUME DInv, OnlyDeploy, web' = web, NEW step \in {"checked", "ready"}, Goes(step),
         deploy.at \in {"resolved", "checked"},
         dns' \in [records : Nat, right : BOOLEAN], OneDnsRecord'
  PROVE  DInv'
<1>1. /\ deploy' \in DeployState /\ deploy'.at = step /\ deploy'.outcome = deploy.outcome
      /\ SameDeploy
  BY Kinds, GoesTo DEF DeployStep
<1>2. /\ Onwards /\ passed' \subseteq 1..main'
      /\ caddy' \in CaddyState /\ before' \in CaddyState
  BY <1>1, OnlyDeployOnwards DEF Operator, Saved, Served, AfterSmoke
<1>3. Steps'
  <2>1. Steps
    BY DEF DInv
  <2> QED BY <1>1, <2>1 DEF Steps, OnlyDeploy
<1>4. deploy'.outcome = "none"
  <2>1. Steps
    BY DEF DInv
  <2> QED BY <1>1, <2>1 DEF Steps
<1>5. Serving'
  BY <1>1 DEF Serving, At, AfterSmoke
<1>6. failures' = 0 => CaddyKept'
  <2>1. failures = 0 => CaddyKept
    BY DEF DInv
  <2> QED BY <1>1, <2>1 DEF CaddyKept, OnlyDeploy, SameDeploy, At, Served, AfterSmoke, Unpatched
<1>7. RollbackFailsByMigration'
  BY <1>4, NotFailed
<1> QED BY <1>1, <1>2, <1>3, <1>5, <1>6, <1>7, OnwardsKeeps

LEMMA StepCheckCi == ASSUME DInv, CheckCi PROVE DInv'
<1>1. OnlyDeploy /\ dns' = dns /\ At("resolved") /\ (Goes("checked") \/ Ends("stopped"))
  BY DEF CheckCi, OnlyDeploy, world, restoreVars
<1>2. web' = web
  BY DEF CheckCi, restoreVars
<1>3. dns' \in [records : Nat, right : BOOLEAN] /\ OneDnsRecord'
  BY <1>1, Kinds DEF DInv, OneDnsRecord
<1>4. deploy.at = "resolved"
  BY <1>1 DEF At
<1>5. CASE Goes("checked")
  BY <1>1, <1>2, <1>3, <1>4, <1>5, GoesEarly
<1>6. CASE Ends("stopped")
  BY <1>1, <1>2, <1>3, <1>4, <1>6, StopsEarly DEF Unpatched
<1> QED BY <1>1, <1>5, <1>6

\* A record is made only if there is none, also after a lost response.
LEMMA StepEnsureDns == ASSUME DInv, EnsureDns PROVE DInv'
<1>1. OnlyDeploy /\ At("checked") /\ (Goes("ready") \/ Ends("stopped"))
  BY DEF EnsureDns, OnlyDeploy, restoreVars
<1>2. web' = web
  BY DEF EnsureDns, restoreVars
<1>3. dns' \in [records : Nat, right : BOOLEAN] /\ OneDnsRecord'
  <2>1. dns \in [records : Nat, right : BOOLEAN] /\ dns.records <= 1
    BY Kinds DEF DInv, OneDnsRecord
  <2>2. PICK n \in {0, 1} :
          /\ dns' = [records |-> dns.records + n, right |-> TRUE] \/ dns' = dns
          /\ n = 1 => dns.records = 0
    <3> DEFINE n == IF DnsAction(dns.records, dns.right) = "create" THEN 1 ELSE 0
    <3>1. dns' = [records |-> dns.records + n, right |-> TRUE] \/ dns' = dns
      BY DEF EnsureDns
    <3>2. n = 1 => dns.records = 0
      BY DEF DnsAction
    <3>3. n \in {0, 1}
      OBVIOUS
    <3> HIDE DEF n
    <3> QED BY <3>1, <3>2, <3>3
  <2>3. CASE dns' = dns
    BY <2>1, <2>3 DEF OneDnsRecord
  <2>4. CASE dns' = [records |-> dns.records + n, right |-> TRUE]
    <3>1. dns.records + n \in Nat /\ dns.records + n <= 1
      BY <2>1, <2>2
    <3> QED BY <2>4, <3>1 DEF OneDnsRecord
  <2> QED BY <2>2, <2>3, <2>4
<1>4. deploy.at = "checked"
  BY <1>1 DEF At
<1>5. CASE Goes("ready")
  BY <1>1, <1>2, <1>3, <1>4, <1>5, GoesEarly
<1>6. CASE Ends("stopped")
  BY <1>1, <1>2, <1>3, <1>4, <1>6, StopsEarly DEF Unpatched
<1> QED BY <1>1, <1>5, <1>6

\* The deployment starts with nothing fetched and nothing saved.
LEMMA StepResolve == ASSUME DInv, Resolve PROVE DInv'
<1>1. /\ At("idle") /\ script = "verifying"
      /\ deploy' = [at |-> "resolved", target |-> main, commit |-> 1, prior |-> 1, archive |-> 0,
                    caddyBackup |-> FALSE, bind |-> "public", outcome |-> "none",
                    number |-> deploy.number + 1]
      /\ before' = caddy /\ caddy' = caddy
  BY DEF Resolve
<1>2. /\ host' = host /\ schema' = schema /\ main' = main /\ passed' = passed /\ dns' = dns
      /\ dir' = dir /\ script' = script /\ command' = command /\ old' = old
      /\ failures' = failures /\ kills' = kills
  BY DEF Resolve, restoreVars, world
<1>3. web' = web
  BY DEF Resolve, restoreVars
<1>4. deploy.number \in Nat /\ main \in Nat /\ main \in Commit
  BY Kinds, Numbers DEF DeployState
<1>5. /\ deploy' \in DeployState /\ deploy'.at = "resolved" /\ deploy'.commit = 1
      /\ deploy'.prior = 1 /\ deploy'.archive = 0 /\ deploy'.outcome = "none"
  BY <1>1, <1>4, Numbers DEF DeployState, DeployStep, Outcome
<1>6. ~deploy'.caddyBackup
  BY <1>1
<1>7. IInv'
  BY <1>2, <1>3, Kinds, TypeParts, RestoreAssumption, OnlyCounts
<1>8. DeployTypeOK'
  <2>1. BackedUp'
    BY <1>5 DEF BackedUp, Saved, Served, AfterSmoke
  <2> QED BY <1>1, <1>2, <1>5, <2>1, Kinds, DeployTypesNext
<1>9. Steps'
  BY <1>1, <1>2, <1>5 DEF Steps
<1>10. Serving'
  BY <1>5 DEF Serving, At, AfterSmoke
<1>11. OneDnsRecord'
  BY <1>2 DEF OneDnsRecord, DInv
<1>12. failures' = 0 => CaddyKept'
  <2>1. failures = 0 => CaddyKept
    BY DEF DInv
  <2> QED BY <1>1, <1>2, <1>5, <1>6, <2>1 DEF CaddyKept, At, Served, AfterSmoke
<1>13. Commits'
  <2>1. Commits
    BY DEF DInv
  <2>2. Newest = main /\ Newest' = main
    BY <1>1, <1>2, <1>5 DEF Newest, Operator, At
  <2>3. 1 <= main
    BY Kinds DEF Commit
  <2> QED BY <1>2, <1>5, <2>1, <2>2, <2>3 DEF Commits, Operator, Saved, Served, AfterSmoke
<1>14. Saves'
  <2>1. Saves
    BY DEF DInv
  <2> QED BY <1>2, <1>5, <2>1 DEF Saves, Saved, Served, AfterSmoke
<1>15. RollbackFailsByMigration'
  BY <1>5, NotFailed
<1> QED BY <1>7, <1>8, <1>9, <1>10, <1>11, <1>12, <1>13, <1>14, <1>15, Zenon DEF DInv
-----------------------------------------------------------------------------
(* The server's side *)

\* What a step on the server leaves as it is.
OnServer == /\ before' = before /\ schema' = schema /\ dir' = dir /\ script' = script
            /\ command' = command /\ old' = old /\ failures' = failures /\ kills' = kills
            /\ main' = main /\ passed' = passed /\ dns' = dns /\ caddy' = caddy

\* The parts of the invariant that the steps up to the backup do not disturb.
LEMMA BeforeReplace ==
  ASSUME DInv, OnServer, web' = web, deploy.at \in {"ready", "fetched", "built"},
         deploy' \in DeployState, host' \in HostState,
         deploy'.at \in {"fetched", "built", "saved"}, deploy'.outcome = deploy.outcome,
         deploy'.caddyBackup = deploy.caddyBackup,
         BackedUp', Commits', Saves'
  PROVE  DInv'
<1>1. IInv'
  BY Kinds, TypeParts, RestoreAssumption, OnlyCounts DEF OnServer
<1>2. DeployTypeOK'
  BY Kinds, DeployTypesNext DEF OnServer
<1>3. Steps' /\ deploy'.outcome = "none"
  <2>1. Steps
    BY DEF DInv
  <2> QED BY <2>1 DEF Steps, OnServer
<1>4. Serving'
  BY DEF Serving, At, AfterSmoke
<1>5. OneDnsRecord'
  BY DEF OneDnsRecord, DInv, OnServer
<1>6. failures' = 0 => CaddyKept'
  <2>1. failures = 0 => CaddyKept
    BY DEF DInv
  <2> QED BY <2>1 DEF CaddyKept, OnServer, At, Served, AfterSmoke, Unpatched
<1>7. RollbackFailsByMigration'
  BY <1>3, NotFailed
<1> QED BY <1>1, <1>2, <1>3, <1>4, <1>5, <1>6, <1>7, Zenon DEF DInv

\* The fetched commit is the newest there is; nothing on the server is newer.
LEMMA StepCheckout == ASSUME DInv, Checkout PROVE DInv'
<1>1. /\ At("ready") /\ host' = [host EXCEPT !.head = main]
      /\ deploy' = [deploy EXCEPT !.at = "fetched", !.commit = main, !.prior = host.head]
      /\ OnServer
  BY DEF Checkout, OnServer, world, restoreVars
<1>2. web' = web
  BY DEF Checkout, restoreVars
<1>3. /\ host' \in HostState /\ host'.head = main /\ host'.image = host.image
  BY <1>1, Kinds, Zenon DEF HostState
<1>4. /\ deploy' \in DeployState /\ deploy'.at = "fetched" /\ deploy'.commit = main
      /\ deploy'.prior = host.head /\ deploy'.outcome = deploy.outcome
      /\ deploy'.caddyBackup = deploy.caddyBackup
  <2> DEFINE a == [deploy EXCEPT !.at = "fetched"]
             b == [a EXCEPT !.commit = main]
  <2>1. "fetched" \in DeployStep
    BY DEF DeployStep
  <2>2. /\ a \in DeployState /\ a.at = "fetched" /\ a.outcome = deploy.outcome
        /\ a.caddyBackup = deploy.caddyBackup
    BY <2>1, Kinds, Zenon DEF DeployState
  <2> HIDE DEF a
  <2>3. /\ b \in DeployState /\ b.at = a.at /\ b.outcome = a.outcome
        /\ b.caddyBackup = a.caddyBackup /\ b.commit = main
    BY <2>2, Kinds, Zenon DEF DeployState
  <2>4. deploy' = [b EXCEPT !.prior = host.head]
    BY <1>1, Zenon DEF a
  <2> HIDE DEF b
  <2>5. /\ deploy' \in DeployState /\ deploy'.at = b.at /\ deploy'.outcome = b.outcome
        /\ deploy'.caddyBackup = b.caddyBackup /\ deploy'.commit = b.commit
        /\ deploy'.prior = host.head
    BY <2>3, <2>4, Kinds, Zenon DEF DeployState
  <2> QED BY <2>2, <2>3, <2>5, Zenon
<1>5. deploy.at = "ready"
  BY <1>1 DEF At
<1>6. Commits'
  <2>1. Commits
    BY DEF DInv
  <2>2. Newest = main /\ Newest' = main
    BY <1>4, <1>5 DEF Newest, Operator
  <2>3. main \in Nat
    BY Kinds, Numbers
  <2>4. host.head <= main /\ host.image <= main /\ \A d \in Content : schema[d] <= Schema[main]
    BY <2>1, <2>2 DEF Commits
  <2> QED BY <1>1, <1>3, <1>4, <2>2, <2>3, <2>4
          DEF Commits, OnServer, Operator, Saved, Served, AfterSmoke
<1>7. Saves'
  <2>1. Saves
    BY DEF DInv
  <2> QED BY <1>1, <1>4, <2>1 DEF Saves, OnServer, Saved, Served, AfterSmoke
<1>8. BackedUp'
  BY <1>4 DEF BackedUp, Saved, Served, AfterSmoke
<1> QED BY <1>1, <1>2, <1>3, <1>4, <1>5, <1>6, <1>7, <1>8, BeforeReplace

LEMMA StepBuild == ASSUME DInv, Build PROVE DInv'
<1>1. deploy.at = "fetched" /\ OnServer
  BY DEF Build, OnServer, world, restoreVars, At
<1>2. web' = web
  BY DEF Build, restoreVars
<1>3. CASE Goes("built") /\ host' = [host EXCEPT !.image = host.head]
  <2>1. host' \in HostState /\ host'.head = host.head /\ host'.image = host.head
    BY <1>3, Kinds, Zenon DEF HostState
  <2>2. /\ deploy' \in DeployState /\ deploy'.at = "built"
        /\ deploy'.outcome = deploy.outcome /\ SameDeploy
    BY <1>3, Kinds, GoesTo DEF DeployStep
  <2>3. Commits'
    <3>1. Commits
      BY DEF DInv
    <3>2. Newest = deploy.commit /\ Newest' = deploy.commit
      BY <1>1, <2>2 DEF Newest, Operator, SameDeploy
    <3> QED BY <1>1, <2>1, <2>2, <3>1, <3>2
            DEF Commits, OnServer, Operator, Saved, Served, AfterSmoke, SameDeploy
  <2>4. Saves'
    <3>1. Saves
      BY DEF DInv
    <3> QED BY <1>1, <2>2, <3>1 DEF Saves, OnServer, Saved, Served, AfterSmoke
  <2>5. BackedUp'
    BY <2>2 DEF BackedUp, Saved, Served, AfterSmoke
  <2> QED BY <1>1, <1>2, <2>1, <2>2, <2>3, <2>4, <2>5, BeforeReplace DEF SameDeploy
<1>4. CASE Ends("stopped") /\ host' = host
  <2>1. OnlyDeploy /\ dns' = dns
    BY <1>1, <1>4 DEF OnServer, OnlyDeploy
  <2>2. dns' \in [records : Nat, right : BOOLEAN] /\ OneDnsRecord'
    BY <2>1, Kinds DEF DInv, OneDnsRecord
  <2> QED BY <1>1, <1>2, <1>4, <2>1, <2>2, StopsEarly DEF Unpatched
<1> QED BY <1>3, <1>4 DEF Build

\* The archive has the schema of the data that is being served.
LEMMA StepBackup == ASSUME DInv, Backup PROVE DInv'
<1>1. deploy.at = "built" /\ OnServer /\ host' = host
  BY DEF Backup, OnServer, world, restoreVars, At
<1>2. web' = web
  BY DEF Backup, restoreVars
<1>3. CASE deploy' = [deploy EXCEPT !.at = "saved", !.archive = schema[LiveData]]
  <2>1. LiveData = "old"
    <3>1. script = "verifying"
      BY <1>1 DEF DInv, Steps
    <3>2. dir["live"] = [f \in File |-> "old"]
      BY <3>1, Kinds DEF IInv, Files
    <3> QED BY <3>2 DEF LiveData, File
  <2>2. schema["old"] \in Nat /\ schema["old"] > 0
    BY Kinds DEF Content, DInv, Saves
  <2>3. /\ deploy' \in DeployState /\ deploy'.at = "saved" /\ deploy'.archive = schema["old"]
        /\ deploy'.outcome = deploy.outcome /\ deploy'.commit = deploy.commit
        /\ deploy'.prior = deploy.prior /\ deploy'.caddyBackup = deploy.caddyBackup
    <3> DEFINE a == [deploy EXCEPT !.at = "saved"]
    <3>1. "saved" \in DeployStep
      BY DEF DeployStep
    <3>2. /\ a \in DeployState /\ a.at = "saved" /\ a.outcome = deploy.outcome
          /\ a.commit = deploy.commit /\ a.prior = deploy.prior
          /\ a.caddyBackup = deploy.caddyBackup
      BY <3>1, Kinds, Zenon DEF DeployState
    <3>3. deploy' = [a EXCEPT !.archive = schema["old"]]
      BY <1>3, <2>1, Zenon DEF a
    <3> HIDE DEF a
    <3>4. /\ deploy' \in DeployState /\ deploy'.at = a.at /\ deploy'.outcome = a.outcome
          /\ deploy'.commit = a.commit /\ deploy'.prior = a.prior
          /\ deploy'.caddyBackup = a.caddyBackup /\ deploy'.archive = schema["old"]
      BY <2>2, <3>2, <3>3, Zenon DEF DeployState
    <3> QED BY <3>2, <3>4, Zenon
  <2>4. Commits'
    <3>1. Commits
      BY DEF DInv
    <3>2. Newest = deploy.commit /\ Newest' = deploy.commit
      BY <1>1, <2>3 DEF Newest, Operator
    <3>3. "old" \in Content
      BY DEF Content
    <3> QED BY <1>1, <2>3, <3>1, <3>2, <3>3
            DEF Commits, OnServer, Operator, Saved, Served, AfterSmoke
  <2>5. Saves'
    <3>1. Saves /\ script = "verifying"
      BY <1>1 DEF DInv, Steps
    <3>2. ~Extracted
      <4>1. NothingBeside /\ dir["live"] = [f \in File |-> "old"] /\ dir["stage"] = Nothing
        BY <3>1, Kinds DEF IInv, Files, Saves
      <4> QED BY <4>1 DEF Extracted, NothingBeside, Nothing, File, Place
    <3>3. ~Extracted' /\ Paired("old")'
      BY <1>1, <2>3, <3>2 DEF Extracted, Paired, OnServer
    <3> QED BY <1>1, <3>1, <3>3 DEF Saves, OnServer
  <2>6. BackedUp'
    BY <2>2, <2>3 DEF BackedUp
  <2> QED BY <1>1, <1>2, <2>3, <2>4, <2>5, <2>6, Kinds, BeforeReplace
<1>4. CASE Ends("stopped")
  <2>1. OnlyDeploy /\ dns' = dns
    BY <1>1 DEF OnServer, OnlyDeploy
  <2>2. dns' \in [records : Nat, right : BOOLEAN] /\ OneDnsRecord'
    BY <2>1, Kinds DEF DInv, OneDnsRecord
  <2> QED BY <1>1, <1>2, <1>4, <2>1, <2>2, StopsEarly DEF Unpatched
<1> QED BY <1>3, <1>4 DEF Backup, WithoutBackup
-----------------------------------------------------------------------------
(* Steps that start a container *)

\* The database d that a container of commit c serves, and its schema.
Migrated(c, d) ==
  /\ d \in Content /\ d = dir'["live"]["database"]
  /\ d = LiveData \/ (d = "fresh" /\ LiveData = "none")
  /\ \A e \in Content : e # d => schema'[e] = schema[e]
  /\ schema'[d] \in Nat
  /\ d = LiveData => schema'[d] = schema[d] \/ (schema[d] < Schema[c] /\ schema'[d] = Schema[c])
  /\ schema'[d] <= Schema[c] \/ schema'[d] = schema[d]
  /\ c \notin Broken => \/ schema'[d] = Schema[c]
                        \/ d = LiveData /\ schema'[d] = schema[d] /\ schema[d] > Schema[c]

LEMMA ServeMigrates ==
  ASSUME schema \in [Content -> Nat], dir \in [Place -> [File -> Content]],
         NEW c \in Commit, Migrate(c), dir' = [dir EXCEPT !["live"] = Started(dir["live"])]
  PROVE  /\ schema' \in [Content -> Nat]
         /\ \E d \in Content : Migrated(c, d)
         /\ \A p \in Place : dir'[p]["database"] = "new" => dir[p]["database"] = "new"
         /\ \A p \in Place \ {"live"} : dir'[p] = dir[p]
<1> DEFINE d == dir'["live"]["database"]
           found == IF LiveData = "none" THEN 0 ELSE schema[LiveData]
<1>1. /\ "live" \in Place /\ "database" \in File /\ dir["live"] \in [File -> Content]
      /\ LiveData \in Content
  BY DEF Place, File, LiveData
<1> DEFINE started == Started(dir["live"])
<1>2. /\ started \in [File -> Content]
      /\ started["database"] = IF LiveData = "none" THEN "fresh" ELSE LiveData
  BY <1>1, StartedFiles DEF Started, LiveData
<1>3. dir' = [dir EXCEPT !["live"] = started]
  OBVIOUS
<1> HIDE DEF started
<1>4. /\ dir'["live"] = started
      /\ \A p \in Place \ {"live"} : dir'[p] = dir[p]
  BY <1>1, <1>2, <1>3, Zenon
<1>5. d = (IF LiveData = "none" THEN "fresh" ELSE LiveData) /\ d \in Content
  BY <1>1, <1>2, <1>4 DEF Content
<1>6. \A p \in Place : dir'[p]["database"] = "new" => dir[p]["database"] = "new"
  BY <1>4, <1>5 DEF LiveData
<1>7. found \in Nat /\ Schema[c] \in Nat
  BY <1>1, Numbers
<1>8. PICK revision \in {IF found < Schema[c] THEN Schema[c] ELSE found}
                        \cup (IF c \in Broken THEN {found} ELSE {}) :
        schema' = [schema EXCEPT ![d] = revision]
  BY DEF Migrate
<1> HIDE DEF d, found
<1>9. /\ (revision = Schema[c] /\ found < Schema[c]) \/ revision = found
      /\ c \notin Broken => revision = Schema[c] \/ (revision = found /\ found > Schema[c])
  BY <1>7, <1>8
<1>10. revision \in Nat
  BY <1>7, <1>9
<1>11. /\ schema' \in [Content -> Nat] /\ schema'[d] = revision
       /\ \A e \in Content : e # d => schema'[e] = schema[e]
  BY <1>5, <1>8, <1>10
<1>12. LiveData # "none" => d = LiveData /\ found = schema[d]
  BY <1>5 DEF found
<1>13. LiveData = "none" => d = "fresh" /\ found = 0
  BY <1>5 DEF found
<1>14. Migrated(c, d)
  <2>1. CASE LiveData # "none"
    BY <1>5, <1>7, <1>9, <1>11, <1>12, <2>1 DEF Migrated, d
  <2>2. CASE LiveData = "none"
    <3>1. d # LiveData
      BY <1>13, <2>2
    <3>2. revision <= Schema[c]
      BY <1>7, <1>9, <1>13, <2>2
    <3>3. c \notin Broken => revision = Schema[c]
      BY <1>7, <1>9, <1>13, <2>2, Numbers
    <3> QED BY <1>5, <1>10, <1>11, <1>13, <2>2, <3>1, <3>2, <3>3 DEF Migrated, d
  <2> QED BY <2>1, <2>2
<1> QED BY <1>4, <1>5, <1>6, <1>11, <1>14

\* What it does to the bounds and to the pairing of the data with the backup.
LEMMA MigratedParts ==
  ASSUME schema \in [Content -> Nat], schema' \in [Content -> Nat], NEW c \in Commit,
         \E d \in Content : Migrated(c, d)
  PROVE  /\ schema["old"] > 0 => schema'["old"] > 0
         /\ \A b \in Commit : c <= b /\ (\A e \in Content : schema[e] <= Schema[b]) =>
              \A e \in Content : schema'[e] <= Schema[b]
         /\ \A e \in {"old", "new"} :
              schema'[e] = schema[e]
                \/ (LiveData = e /\ schema[e] < Schema[c] /\ schema'[e] = Schema[c])
<1>1. PICK d \in Content : Migrated(c, d)
  OBVIOUS
<1>2. ASSUME NEW e \in {"old", "new"}
      PROVE  schema'[e] = schema[e]
               \/ (LiveData = e /\ schema[e] < Schema[c] /\ schema'[e] = Schema[c])
  <2>1. e \in Content /\ e # "fresh"
    BY DEF Content
  <2> QED BY <1>1, <2>1 DEF Migrated
<1>3. schema["old"] > 0 => schema'["old"] > 0
  BY <1>2, Numbers
<1>4. ASSUME NEW b \in Commit, c <= b, \A e \in Content : schema[e] <= Schema[b], NEW e \in Content
      PROVE  schema'[e] <= Schema[b]
  <2>1. Schema[c] <= Schema[b] /\ Schema[c] \in Nat /\ Schema[b] \in Nat
    BY <1>4, Numbers
  <2>2. schema'[e] \in Nat /\ schema[e] \in Nat /\ schema[e] <= Schema[b]
    BY <1>4
  <2>3. schema'[e] = schema[e] \/ schema'[e] <= Schema[c]
    BY <1>1 DEF Migrated
  <2> QED BY <2>1, <2>2, <2>3
<1> QED BY <1>2, <1>3, <1>4

Bind == {"public", "loopback"}

LEMMA ServedHost ==
  ASSUME NEW h \in HostState, NEW overlay \in BOOLEAN, NEW bound \in Bind,
         Serve(h, overlay, bound)
  PROVE  /\ host' \in HostState /\ host'.head = h.head /\ host'.image = h.image
         /\ host'.container = h.image /\ host'.overlay = overlay
         /\ dir' = [dir EXCEPT !["live"] = Started(dir["live"])]
         /\ Migrate(h.image) /\ web' = TRUE
<1> DEFINE a == [h EXCEPT !.container = h.image]
           b == [a EXCEPT !.overlay = overlay]
<1>1. /\ a \in HostState /\ a.head = h.head /\ a.image = h.image /\ a.container = h.image
  BY Zenon DEF HostState
<1> HIDE DEF a
<1>2. /\ b \in HostState /\ b.head = a.head /\ b.image = a.image /\ b.container = a.container
      /\ b.overlay = overlay
  BY <1>1, Zenon DEF HostState
<1>3. host' = [b EXCEPT !.bound = bound]
  BY Zenon DEF Serve, a
<1> HIDE DEF b
<1>4. /\ host' \in HostState /\ host'.head = b.head /\ host'.image = b.image
      /\ host'.container = b.container /\ host'.overlay = b.overlay
  BY <1>2, <1>3, Zenon DEF HostState, Bind
<1>5. /\ dir' = [dir EXCEPT !["live"] = Started(dir["live"])]
      /\ Migrate(h.image) /\ web' = TRUE
  BY Zenon DEF Serve
<1> QED BY <1>1, <1>2, <1>4, <1>5, Zenon

LEMMA ComposedHost ==
  ASSUME NEW h \in HostState, NEW bound \in Bind, ComposeUp(h, bound)
  PROVE  /\ host' \in HostState /\ host'.head = h.head /\ host'.image = h.head
         /\ host'.container = h.head /\ host'.overlay = TRUE
         /\ dir' = [dir EXCEPT !["live"] = Started(dir["live"])]
         /\ Migrate(h.head) /\ web' = TRUE
<1> DEFINE g == [h EXCEPT !.image = h.head]
<1>1. g \in HostState /\ g.head = h.head /\ g.image = h.head
  BY Zenon DEF HostState
<1>2. Serve(g, TRUE, bound)
  BY Zenon DEF ComposeUp
<1> HIDE DEF g
<1>3. TRUE \in BOOLEAN
  OBVIOUS
<1> QED BY <1>1, <1>2, <1>3, ServedHost, Zenon

\* A running service is replaced.
LEMMA RestartKeepsRestore ==
  ASSUME IInv, dir' = [dir EXCEPT !["live"] = Started(dir["live"])], web' = TRUE,
         script' = script, script \in Settled, command' = command, old' = old,
         failures' = failures, kills' = kills
  PROVE  IInv'
<1>1. script' \notin Exclusive
  BY DEF Settled, Exclusive
<1>2. WebFits'
  BY <1>1, Zenon DEF WebFits
<1> QED BY <1>2, WebStarts

\* What the replacement of the container within the deployment does not change.
Replaces ==
  /\ caddy' = caddy /\ before' = before /\ script' = script /\ command' = command
  /\ old' = old /\ failures' = failures /\ kills' = kills
  /\ main' = main /\ passed' = passed /\ dns' = dns
  /\ deploy' \in DeployState /\ deploy'.commit = deploy.commit
  /\ deploy'.prior = deploy.prior /\ deploy'.archive = deploy.archive
  /\ deploy'.outcome = deploy.outcome

\* The image has been built from the fetched commit, so that a second container of
\* it migrates nothing that the first one has migrated.
LEMMA Recontainer ==
  ASSUME DInv, Replaces, NEW bound \in Bind, ComposeUp(host, bound),
         deploy.at \in {"saved", "smoked"}, deploy'.at \in Saved \ {"restoring", "resetting"},
         Serving', failures' = 0 => CaddyKept'
  PROVE  DInv'
<1>1. /\ host' \in HostState /\ host'.head = host.head /\ host'.image = host.head
      /\ dir' = [dir EXCEPT !["live"] = Started(dir["live"])]
      /\ Migrate(host.head)
  BY Kinds, ComposedHost
<1>2. web' = TRUE
  BY Kinds, ComposedHost, Zenon
<1>3. script = "verifying" /\ deploy.outcome = "none"
  BY DEF DInv, Steps
<1>4. deploy.at \in Saved /\ deploy.at \notin Operator
  BY DEF Saved, Served, AfterSmoke, Operator
<1>5. deploy'.at \notin Operator
  BY DEF Saved, Served, AfterSmoke, Operator
<1>6. Commits /\ Saves
  BY DEF DInv
<1>7. host.head = deploy.commit /\ host.image = deploy.commit /\ host.head \in Commit
  BY <1>4, <1>6, Kinds DEF Commits
<1>8. dir \in [Place -> [File -> Content]]
  <2>1. IInv
    BY Kinds
  <2> QED BY <2>1, TypeParts
<1>9. /\ schema' \in [Content -> Nat]
      /\ \E d \in Content : Migrated(host.head, d)
      /\ \A p \in Place : dir'[p]["database"] = "new" => dir[p]["database"] = "new"
      /\ \A p \in Place \ {"live"} : dir'[p] = dir[p]
  BY <1>1, <1>7, <1>8, Kinds, ServeMigrates
<1>10. /\ schema["old"] > 0 => schema'["old"] > 0
       /\ \A b \in Commit : host.head <= b /\ (\A e \in Content : schema[e] <= Schema[b]) =>
            \A e \in Content : schema'[e] <= Schema[b]
       /\ \A e \in {"old", "new"} :
            schema'[e] = schema[e]
              \/ (LiveData = e /\ schema[e] < Schema[host.head] /\ schema'[e] = Schema[host.head])
  BY <1>7, <1>9, Kinds, MigratedParts
<1>11. IInv'
  <2>1. script \in Settled
    BY <1>3 DEF Settled
  <2> QED BY <1>1, <1>2, <2>1, Kinds, RestartKeepsRestore DEF Replaces
<1>12. DeployTypeOK'
  <2>1. BackedUp'
    BY <1>4, Kinds DEF BackedUp, Replaces
  <2> QED BY <1>1, <1>9, <2>1, Kinds, DeployTypesNext DEF Replaces
<1>13. Steps'
  BY <1>3 DEF Steps, Replaces
<1>14. OneDnsRecord'
  BY DEF OneDnsRecord, DInv, Replaces
<1>15. Commits'
  <2>1. Newest = deploy.commit /\ Newest' = deploy.commit
    BY <1>4, <1>5 DEF Newest, Replaces
  <2>2. \A e \in Content : schema[e] <= Schema[deploy.commit]
    BY <1>6, <2>1 DEF Commits
  <2>3. host.head <= deploy.commit
    <3>1. deploy.commit \in Nat
      BY <1>7, Numbers
    <3> QED BY <1>7, <3>1
  <2>4. \A e \in Content : schema'[e] <= Schema[deploy.commit]
    BY <1>7, <1>10, <2>2, <2>3
  <2> QED BY <1>1, <1>4, <1>6, <1>7, <2>1, <2>3, <2>4 DEF Commits, Replaces
<1>16. Saves'
  <2>1. Paired("old") /\ (Extracted => Paired("new"))
    BY <1>4, <1>6 DEF Saves
  <2>2. Schema[host.head] \in Nat
    BY <1>7, Numbers
  <2>3. \A e \in {"old", "new"} : Paired(e) => Paired(e)'
    BY <1>1, <1>7, <1>10, <2>2 DEF Paired, Replaces
  <2>4. Extracted' => Extracted
    BY <1>9 DEF Extracted
  <2>5. dir'["stage"] = dir["stage"]
    BY <1>9 DEF Place
  <2> QED BY <1>6, <1>10, <2>1, <2>3, <2>4, <2>5 DEF Saves, Replaces
<1>17. RollbackFailsByMigration'
  BY <1>3, NotFailed DEF Replaces
<1> QED BY <1>11, <1>12, <1>13, <1>14, <1>15, <1>16, <1>17, Zenon DEF DInv

LEMMA AtMostItself == \A n \in Nat : n <= n
OBVIOUS

LEMMA SameCounts ==
  ASSUME DInv
  PROVE  /\ failures \in 0..MaxFailures /\ failures >= failures
         /\ kills \in 0..MaxKills /\ kills >= kills
<1>1. IInv
  BY Kinds
<1> QED BY <1>1, TypeParts

\* No new container runs, and the old one may be gone: nothing is migrated.
LEMMA FailedUp ==
  ASSUME DInv, Replaces, UpFails, host' = host, deploy.at \in {"saved", "smoked"},
         deploy'.at = "rolling back", failures' = 0 => CaddyKept'
  PROVE  DInv'
<1>1. schema' = schema /\ dir' = dir
  BY DEF UpFails
<1>2. Steps /\ script = "verifying" /\ script \in Settled /\ deploy.outcome = "none"
  BY DEF DInv, Steps, Settled
<1>3. web' = web \/ (web' = FALSE /\ script \in Settled)
  BY <1>2, Zenon DEF UpFails
<1>4. Onwards
  <2>1. IInv /\ main \in Nat
    BY Kinds, Numbers
  <2>2. /\ failures' \in 0..MaxFailures /\ kills' \in 0..MaxKills
        /\ failures' >= failures /\ kills' >= kills
    BY SameCounts DEF Replaces
  <2>3. deploy.at \in Saved /\ deploy.at \notin Operator
    BY DEF Saved, Served, AfterSmoke, Operator
  <2>4. main' = main /\ script' = script /\ command' = command /\ old' = old
    BY DEF Replaces
  <2>5. /\ deploy' \in DeployState /\ deploy'.commit = deploy.commit
        /\ deploy'.prior = deploy.prior /\ deploy'.archive = deploy.archive
    BY DEF Replaces
  <2>6. /\ host' \in HostState /\ host'.head = host.head /\ host'.image = host.image
        /\ main' \in Commit /\ main <= main'
    <3>1. host \in HostState /\ main \in Commit
      BY Kinds
    <3>2. main <= main
      BY <2>1, AtMostItself, Zenon
    <3> QED BY <2>4, <3>1, <3>2, Zenon
  <2> QED BY <1>1, <2>2, <2>3, <2>4, <2>5, <2>6, Zenon DEF Onwards
<1>5. Steps' /\ deploy'.outcome = "none"
  BY <1>2 DEF Steps, Replaces
<1>6. Serving'
  BY <1>5 DEF Serving, At, AfterSmoke
<1>7. OneDnsRecord' /\ dns' \in [records : Nat, right : BOOLEAN]
  BY Kinds DEF OneDnsRecord, DInv, Replaces
<1>8. caddy' \in CaddyState /\ before' \in CaddyState /\ passed' \subseteq 1..main'
  BY Kinds DEF Replaces
<1> QED BY <1>3, <1>4, <1>5, <1>6, <1>7, <1>8, NotFailed, OnwardsKeeps

LEMMA StepReplace == ASSUME DInv, Replace PROVE DInv'
<1>1. deploy.at = "saved"
  BY DEF Replace, At
<1>2. deploy.bind \in Bind
  BY Kinds, Zenon DEF DeployState, Bind
<1>3. PICK step \in {"started", "rolling back"} :
        /\ Goes(step)
        /\ \/ ComposeUp(host, deploy.bind)
           \/ step = "rolling back" /\ UpFails /\ host' = host
  BY Zenon DEF Replace
<1>4. /\ deploy' \in DeployState /\ deploy'.at = step /\ deploy'.outcome = deploy.outcome
      /\ SameDeploy
  BY <1>3, Kinds, GoesTo DEF DeployStep
<1>5. Replaces
  BY <1>4 DEF Replace, Replaces, SameDeploy, world
<1>6. deploy'.at \in Saved \ {"restoring", "resetting"}
  BY <1>4 DEF Saved
<1>7. Serving'
  BY <1>4 DEF Serving, At, AfterSmoke
<1>8. failures' = 0 => CaddyKept'
  <2>1. failures = 0 => CaddyKept
    BY DEF DInv
  <2> QED BY <1>1, <1>4, <1>5, <2>1
          DEF CaddyKept, Replaces, SameDeploy, At, Served, AfterSmoke, Unpatched
<1>9. CASE ComposeUp(host, deploy.bind)
  BY <1>1, <1>2, <1>5, <1>6, <1>7, <1>8, <1>9, Recontainer
<1>10. CASE step = "rolling back" /\ UpFails /\ host' = host
  BY <1>1, <1>4, <1>5, <1>8, <1>10, FailedUp
<1> QED BY <1>3, <1>9, <1>10

\* The port is bound to the loopback address only when the proxy serves.
LEMMA StepRebind == ASSUME DInv, Rebind PROVE DInv'
<1>1. deploy.at = "smoked"
  BY DEF Rebind, At
<1>2. PICK step \in {"rebound", "rolling back"} :
        /\ deploy' = [deploy EXCEPT !.at = step, !.bind = "loopback"]
        /\ \/ ComposeUp(host, "loopback")
           \/ step = "rolling back" /\ UpFails /\ host' = host
  BY Zenon DEF Rebind
<1>3. /\ deploy' \in DeployState /\ deploy'.at = step /\ deploy'.outcome = deploy.outcome
      /\ deploy'.commit = deploy.commit /\ deploy'.prior = deploy.prior
      /\ deploy'.archive = deploy.archive /\ deploy'.caddyBackup = deploy.caddyBackup
  <2> DEFINE a == [deploy EXCEPT !.at = step]
  <2>1. step \in DeployStep
    BY DEF DeployStep
  <2>2. /\ a \in DeployState /\ a.at = step /\ a.outcome = deploy.outcome
        /\ a.commit = deploy.commit /\ a.prior = deploy.prior
        /\ a.archive = deploy.archive /\ a.caddyBackup = deploy.caddyBackup
    BY <2>1, Kinds, Zenon DEF DeployState
  <2>3. deploy' = [a EXCEPT !.bind = "loopback"]
    BY <1>2, Zenon DEF a
  <2> HIDE DEF a
  <2>4. /\ deploy' \in DeployState /\ deploy'.at = a.at /\ deploy'.outcome = a.outcome
        /\ deploy'.commit = a.commit /\ deploy'.prior = a.prior
        /\ deploy'.archive = a.archive /\ deploy'.caddyBackup = a.caddyBackup
    BY <2>2, <2>3, Zenon DEF DeployState
  <2> QED BY <2>2, <2>4, Zenon
<1>4. Replaces
  BY <1>3 DEF Rebind, Replaces, world
<1>5. failures' = 0 => CaddyKept'
  <2>1. failures = 0 => CaddyKept
    BY DEF DInv
  <2> QED BY <1>1, <1>3, <1>4, <2>1
          DEF CaddyKept, Replaces, At, Served, AfterSmoke, Unpatched
<1>6. ProxyServes
  BY <1>1 DEF DInv, Serving, AfterSmoke
<1>7. CASE ComposeUp(host, "loopback")
  <2>1. "loopback" \in Bind
    BY DEF Bind
  <2>2. host'.overlay = TRUE /\ web' = TRUE
    BY <1>7, <2>1, Kinds, ComposedHost, Zenon
  <2>3. caddy'.running = "site"
    BY <1>4, <1>6, Zenon DEF ProxyServes, Replaces
  <2>4. ProxyServes'
    BY <2>2, <2>3, Zenon DEF ProxyServes
  <2>5. Serving'
    BY <1>3, <2>4 DEF Serving, At
  <2>6. deploy'.at \in Saved \ {"restoring", "resetting"}
    BY <1>3 DEF Saved, Served, AfterSmoke
  <2> QED BY <1>1, <1>4, <1>5, <1>7, <2>1, <2>5, <2>6, Recontainer
<1>8. CASE step = "rolling back" /\ UpFails /\ host' = host
  BY <1>1, <1>3, <1>4, <1>5, <1>8, FailedUp
<1> QED BY <1>2, <1>7, <1>8
-----------------------------------------------------------------------------
(* The proxy and the firewall *)

\* A step that changes neither data nor container, and what it may change.
Proxying ==
  /\ before' = before /\ schema' = schema /\ dir' = dir /\ script' = script
  /\ command' = command /\ old' = old /\ main' = main /\ passed' = passed /\ dns' = dns
  /\ failures' \in 0..MaxFailures /\ failures' >= failures
  /\ kills' \in 0..MaxKills /\ kills' >= kills
  /\ host' \in HostState /\ host'.head = host.head /\ host'.image = host.image
  /\ deploy' \in DeployState /\ deploy'.commit = deploy.commit
  /\ deploy'.prior = deploy.prior /\ deploy'.archive = deploy.archive

LEMMA ProxySteps ==
  ASSUME DInv, Proxying, web' = web, caddy' \in CaddyState,
         deploy'.at \in Saved => deploy.at \in Saved,
         deploy'.at \in Saved \cup {"built"} => deploy.at \in Saved \cup {"built"},
         deploy'.at \notin Operator => deploy.at \notin Operator,
         deploy'.outcome # "rollback failed",
         Steps', Serving', failures' = 0 => CaddyKept'
  PROVE  DInv'
<1>1. main \in Nat
  BY Kinds, Numbers
<1>2. /\ passed' \subseteq 1..main' /\ before' \in CaddyState
      /\ main' \in Commit /\ main <= main'
  <2>1. passed \subseteq 1..main /\ before \in CaddyState /\ main \in Commit
    BY Kinds
  <2>2. main' = main /\ passed' = passed /\ before' = before
    BY DEF Proxying
  <2>3. main <= main
    BY <1>1, AtMostItself, Zenon
  <2> QED BY <2>1, <2>2, <2>3, Zenon
<1>4. Onwards
  BY <1>2, Zenon DEF Proxying, Onwards
<1>3. OneDnsRecord' /\ dns' \in [records : Nat, right : BOOLEAN]
  BY Kinds DEF OneDnsRecord, DInv, Proxying
<1> QED BY <1>2, <1>3, <1>4, NotFailed, OnwardsKeeps

LEMMA SameHost ==
  ASSUME DInv, host' = host
  PROVE  host' \in HostState /\ host'.head = host.head /\ host'.image = host.image
BY Kinds

LEMMA CaddyFields ==
  ASSUME NEW c \in CaddyState, NEW d \in CaddyState
  PROVE  /\ c.file \in {"plain", "site"} /\ c.running \in {"plain", "site"}
         /\ c.file = d.file /\ c.running = d.running => c = d
         /\ Plain \in CaddyState /\ Plain.file = "plain" /\ Plain.running = "plain"
BY DEF CaddyState, Plain

\* The block is put into a file that has none.
LEMMA StepPatchCaddy == ASSUME DInv, PatchCaddy PROVE DInv'
<1>1. /\ deploy.at = "started" /\ caddy' = [caddy EXCEPT !.file = "site"]
      /\ IF caddy.file = "site" THEN Goes("served") ELSE Goes("patched")
  BY DEF PatchCaddy, At
<1>2. web' = web
  BY DEF PatchCaddy, restoreVars
<1>3. PICK step \in {"served", "patched"} :
        Goes(step) /\ (step = "served" <=> caddy.file = "site")
  BY <1>1
<1>4. /\ deploy' \in DeployState /\ deploy'.at = step /\ deploy'.outcome = deploy.outcome
      /\ SameDeploy
  BY <1>3, Kinds, GoesTo DEF DeployStep
<1>5. Proxying /\ host' = host
  <2>1. failures' = failures /\ kills' = kills /\ host' = host
    BY DEF PatchCaddy, restoreVars
  <2> QED BY <1>4, <2>1, SameHost, SameCounts DEF PatchCaddy, Proxying, SameDeploy, world, restoreVars
<1>6. /\ caddy' \in CaddyState /\ caddy'.file = "site"
      /\ caddy.file = "site" => caddy' = caddy
  <2>1. caddy \in CaddyState
    BY Kinds
  <2> QED BY <1>1, <2>1 DEF CaddyState
<1>7. Steps' /\ deploy'.outcome = "none"
  <2>1. Steps
    BY DEF DInv
  <2> QED BY <1>1, <1>4, <1>5, <2>1 DEF Steps, Proxying
<1>8. Serving'
  BY <1>4 DEF Serving, At, AfterSmoke
<1>9. failures' = 0 => CaddyKept'
  <2>1. SUFFICES ASSUME failures = 0 PROVE CaddyKept'
    BY <1>5, SameCounts DEF Proxying
  <2>2. CaddyKept
    BY <2>1 DEF DInv
  <2>3. caddy = before /\ ~deploy.caddyBackup
    BY <1>1, <2>2 DEF CaddyKept, Unpatched
  <2>4. before' = before /\ ~deploy'.caddyBackup
    BY <1>4, <1>5, <2>3 DEF Proxying, SameDeploy
  <2>5. CASE step = "served"
    BY <1>3, <1>4, <1>6, <2>2, <2>3, <2>4, <2>5
       DEF CaddyKept, At, Served, AfterSmoke, Unpatched
  <2>6. CASE step = "patched"
    <3>1. caddy.file = "plain"
      BY <1>3, <2>6, Kinds, CaddyFields
    <3> QED BY <1>4, <1>6, <2>2, <2>3, <2>4, <2>6, <3>1, CaddyFields
            DEF CaddyKept, At, Served, AfterSmoke, Unpatched
  <2> QED BY <2>5, <2>6
<1>10. /\ deploy'.at \in Saved => deploy.at \in Saved
       /\ deploy'.at \in Saved \cup {"built"} => deploy.at \in Saved \cup {"built"}
       /\ deploy'.at \notin Operator => deploy.at \notin Operator
  BY <1>1 DEF Saved, Operator
<1> QED BY <1>2, <1>5, <1>6, <1>7, <1>8, <1>9, <1>10, ProxySteps

\* With no failure, the original file is put back and loaded.
LEMMA CaddyRestored ==
  ASSUME DInv, RestoreCaddy
  PROVE  /\ caddy' \in CaddyState
         /\ failures' \in 0..MaxFailures /\ failures' >= failures
         /\ failures' = 0 => failures = 0 /\ caddy' = Plain
<1>1. caddy \in CaddyState /\ IInv
  BY Kinds
<1>2. CASE caddy' = Plain /\ failures' = failures
  BY <1>1, <1>2, TypeParts, CaddyFields
<1>3. CASE /\ failures < MaxFailures /\ failures' = failures + 1
           /\ caddy' = [caddy EXCEPT !.file = "plain"]
  <2>1. caddy' \in CaddyState
    BY <1>1, <1>3 DEF CaddyState
  <2>2. failures \in Nat
    BY <1>1, TypeParts
  <2>3. failures' \in 0..MaxFailures /\ failures' >= failures /\ failures' # 0
    BY <1>3, <2>2, RestoreAssumption
  <2> QED BY <2>1, <2>3
<1> QED BY <1>2, <1>3 DEF RestoreCaddy

LEMMA StepReloadCaddy == ASSUME DInv, ReloadCaddy PROVE DInv'
<1>1. /\ deploy.at = "patched"
      /\ \/ /\ Goes("reloaded") /\ caddy' = [caddy EXCEPT !.running = caddy.file]
            /\ failures' = failures
         \/ Goes("rolling back") /\ RestoreCaddy
  BY Zenon DEF ReloadCaddy, At
<1>2. web' = web
  BY DEF ReloadCaddy
<1>3. PICK step \in {"reloaded", "rolling back"} :
        /\ Goes(step)
        /\ step = "reloaded" =>
             caddy' = [caddy EXCEPT !.running = caddy.file] /\ failures' = failures
        /\ step = "rolling back" => RestoreCaddy
  BY <1>1
<1>4. /\ deploy' \in DeployState /\ deploy'.at = step /\ deploy'.outcome = deploy.outcome
      /\ SameDeploy
  BY <1>3, Kinds, GoesTo DEF DeployStep
<1>5. /\ caddy' \in CaddyState
      /\ failures' \in 0..MaxFailures /\ failures' >= failures
      /\ failures' = 0 => failures = 0
      /\ failures' = 0 /\ step = "rolling back" => caddy' = Plain
      /\ step = "reloaded" => caddy'.file = caddy.file
  <2>1. CASE step = "reloaded"
    <3>1. caddy \in CaddyState
      BY Kinds
    <3>2. caddy' \in CaddyState /\ caddy'.file = caddy.file
      BY <1>3, <2>1, <3>1 DEF CaddyState
    <3> QED BY <1>3, <2>1, <3>2, SameCounts
  <2>2. CASE step = "rolling back"
    BY <1>3, <2>2, CaddyRestored
  <2> QED BY <2>1, <2>2
<1>6. Proxying
  <2>1. kills' = kills /\ host' = host
    BY DEF ReloadCaddy
  <2> QED BY <1>4, <1>5, <2>1, SameHost, SameCounts DEF ReloadCaddy, Proxying, SameDeploy, world
<1>7. Steps' /\ deploy'.outcome = "none"
  <2>1. Steps
    BY DEF DInv
  <2> QED BY <1>1, <1>4, <1>6, <2>1 DEF Steps, Proxying
<1>8. Serving'
  BY <1>4 DEF Serving, At, AfterSmoke
<1>9. failures' = 0 => CaddyKept'
  <2>1. SUFFICES ASSUME failures' = 0 PROVE CaddyKept'
    OBVIOUS
  <2>2. CaddyKept
    BY <1>5, <2>1 DEF DInv
  <2>3. before = Plain /\ before' = Plain
    BY <1>1, <1>6, <2>2 DEF CaddyKept, Proxying
  <2>4. CASE step = "reloaded"
    <3>1. caddy'.file = "plain" => caddy' = Plain
      <4>1. caddy' = [caddy EXCEPT !.running = caddy.file] /\ caddy \in CaddyState
        BY <1>3, <2>4, Kinds
      <4> QED BY <4>1 DEF CaddyState, Plain
    <3> QED BY <1>4, <2>3, <2>4, <3>1 DEF CaddyKept, At, Served, AfterSmoke, Unpatched
  <2>5. CASE step = "rolling back"
    <3>1. caddy' = Plain
      BY <1>5, <2>1, <2>5
    <3> QED BY <1>4, <2>3, <2>5, <3>1 DEF CaddyKept, At, Served, AfterSmoke, Unpatched
  <2> QED BY <2>4, <2>5
<1>10. /\ deploy'.at \in Saved => deploy.at \in Saved
       /\ deploy'.at \in Saved \cup {"built"} => deploy.at \in Saved \cup {"built"}
       /\ deploy'.at \notin Operator => deploy.at \notin Operator
  BY <1>1 DEF Saved, Operator
<1> QED BY <1>2, <1>5, <1>6, <1>7, <1>8, <1>9, <1>10, ProxySteps

\* Only a configuration that has been loaded is recorded as one to take back.
LEMMA StepKeepCaddy == ASSUME DInv, KeepCaddy PROVE DInv'
<1>1. /\ deploy.at = "reloaded" /\ kills' = kills /\ host' = host
      /\ \/ /\ deploy' = [deploy EXCEPT !.at = "served", !.caddyBackup = Recorded]
            /\ UNCHANGED <<caddy, failures>>
         \/ Goes("rolling back") /\ RestoreCaddy
  BY Zenon DEF KeepCaddy, At
<1>2. web' = web
  BY DEF KeepCaddy
<1>3. before = Plain \/ failures # 0
  BY <1>1 DEF DInv, CaddyKept
<1>4. deploy.outcome = "none" /\ script = "verifying"
  BY <1>1 DEF DInv, Steps
<1>5. CASE /\ deploy' = [deploy EXCEPT !.at = "served", !.caddyBackup = Recorded]
           /\ UNCHANGED <<caddy, failures>>
  <2>1. /\ deploy' \in DeployState /\ deploy'.at = "served"
        /\ deploy'.outcome = deploy.outcome /\ deploy'.commit = deploy.commit
        /\ deploy'.prior = deploy.prior /\ deploy'.archive = deploy.archive
        /\ deploy'.caddyBackup = TRUE
    <3> DEFINE a == [deploy EXCEPT !.at = "served"]
    <3>1. "served" \in DeployStep
      BY DEF DeployStep
    <3>2. /\ a \in DeployState /\ a.at = "served" /\ a.outcome = deploy.outcome
          /\ a.commit = deploy.commit /\ a.prior = deploy.prior
          /\ a.archive = deploy.archive
      BY <3>1, Kinds, Zenon DEF DeployState
    <3>3. deploy' = [a EXCEPT !.caddyBackup = TRUE]
      BY <1>5, Zenon DEF a, Recorded
    <3> HIDE DEF a
    <3>4. TRUE \in BOOLEAN
      OBVIOUS
    <3>5. /\ deploy' \in DeployState /\ deploy'.at = a.at /\ deploy'.outcome = a.outcome
          /\ deploy'.commit = a.commit /\ deploy'.prior = a.prior
          /\ deploy'.archive = a.archive /\ deploy'.caddyBackup = TRUE
      BY <3>2, <3>3, <3>4, Zenon DEF DeployState
    <3> QED BY <3>2, <3>5, Zenon
  <2>2. caddy' = caddy /\ failures' = failures
    BY <1>5
  <2>3. Proxying
    BY <1>1, <2>1, <2>2, SameHost, SameCounts DEF KeepCaddy, Proxying, world
  <2>4. Steps' /\ deploy'.outcome = "none"
    BY <1>4, <2>1, <2>3 DEF Steps, Proxying
  <2>5. Serving'
    BY <2>1 DEF Serving, At, AfterSmoke
  <2>6. failures' = 0 => CaddyKept'
    <3>1. failures = 0 => CaddyKept
      BY DEF DInv
    <3> QED BY <1>3, <2>1, <2>2, <2>3, <3>1
            DEF CaddyKept, Proxying, At, Served, AfterSmoke, Unpatched
  <2>7. deploy.at \in Saved /\ deploy.at \notin Operator
    BY <1>1 DEF Saved, Operator
  <2>8. caddy' \in CaddyState
    BY <2>2, Kinds
  <2> QED BY <1>2, <2>3, <2>4, <2>5, <2>6, <2>7, <2>8, ProxySteps
<1>6. CASE Goes("rolling back") /\ RestoreCaddy
  <2>1. /\ deploy' \in DeployState /\ deploy'.at = "rolling back"
        /\ deploy'.outcome = deploy.outcome /\ SameDeploy
    BY <1>6, Kinds, GoesTo DEF DeployStep
  <2>2. /\ caddy' \in CaddyState
        /\ failures' \in 0..MaxFailures /\ failures' >= failures
        /\ failures' = 0 => failures = 0 /\ caddy' = Plain
    BY <1>6, CaddyRestored
  <2>3. Proxying
    BY <1>1, <2>1, <2>2, SameHost, SameCounts DEF KeepCaddy, Proxying, SameDeploy, world
  <2>4. Steps' /\ deploy'.outcome = "none"
    BY <1>4, <2>1, <2>3 DEF Steps, Proxying
  <2>5. Serving'
    BY <2>1 DEF Serving, At, AfterSmoke
  <2>6. failures' = 0 => CaddyKept'
    <3>1. failures = 0 => CaddyKept
      BY DEF DInv
    <3> QED BY <1>3, <2>1, <2>2, <2>3, <3>1
            DEF CaddyKept, Proxying, At, Served, AfterSmoke, Unpatched
  <2>7. deploy.at \in Saved /\ deploy.at \notin Operator
    BY <1>1 DEF Saved, Operator
  <2> QED BY <1>2, <2>2, <2>3, <2>4, <2>5, <2>6, <2>7, ProxySteps
<1> QED BY <1>1, <1>5, <1>6

\* The rollback puts the proxy's file back if the deployment has changed it.
LEMMA StepRollback == ASSUME DInv, Rollback PROVE DInv'
<1>1. /\ deploy.at = "rolling back" /\ Goes("restoring") /\ kills' = kills /\ host' = host
      /\ IF deploy.caddyBackup THEN RestoreCaddy ELSE UNCHANGED <<caddy, failures>>
  BY Zenon DEF Rollback, At
<1>2. web' = web
  BY DEF Rollback
<1>3. /\ deploy' \in DeployState /\ deploy'.at = "restoring"
      /\ deploy'.outcome = deploy.outcome /\ SameDeploy
  BY <1>1, Kinds, GoesTo DEF DeployStep
<1>4. deploy.outcome = "none"
  BY <1>1 DEF DInv, Steps
<1>5. failures = 0 => CaddyKept
  BY DEF DInv
<1>6. /\ caddy' \in CaddyState
      /\ failures' \in 0..MaxFailures /\ failures' >= failures
      /\ failures' = 0 => failures = 0 /\ caddy' = before
  <2>1. CASE deploy.caddyBackup
    <3>1. /\ caddy' \in CaddyState
          /\ failures' \in 0..MaxFailures /\ failures' >= failures
          /\ failures' = 0 => failures = 0 /\ caddy' = Plain
      BY <1>1, <2>1, CaddyRestored
    <3>2. failures = 0 => before = Plain
      BY <1>1, <1>5, <2>1 DEF CaddyKept
    <3> QED BY <3>1, <3>2
  <2>2. CASE ~deploy.caddyBackup
    <3>1. caddy' = caddy /\ failures' = failures
      BY <1>1, <2>2
    <3>2. failures = 0 => caddy = before
      BY <1>1, <1>5, <2>2 DEF CaddyKept
    <3> QED BY <3>1, <3>2, Kinds, SameCounts
  <2> QED BY <2>1, <2>2
<1>7. Proxying
  BY <1>1, <1>3, <1>6, SameHost, SameCounts DEF Rollback, Proxying, SameDeploy, world
<1>8. Steps' /\ deploy'.outcome = "none"
  BY <1>3, <1>4 DEF Steps
<1>9. Serving'
  BY <1>3 DEF Serving, At, AfterSmoke
<1>10. failures' = 0 => CaddyKept'
  BY <1>3, <1>5, <1>6, <1>7 DEF CaddyKept, Proxying, At, Served, AfterSmoke, Unpatched
<1>11. deploy.at \in Saved /\ deploy.at \notin Operator
  BY <1>1 DEF Saved, Operator
<1> QED BY <1>2, <1>6, <1>7, <1>8, <1>9, <1>10, <1>11, ProxySteps

\* Steps that look at the service and go on.
Looks ==
  /\ caddy' = caddy /\ before' = before /\ schema' = schema /\ dir' = dir /\ script' = script
  /\ command' = command /\ old' = old /\ main' = main /\ passed' = passed /\ dns' = dns
  /\ failures' = failures /\ kills' \in 0..MaxKills /\ kills' >= kills
  /\ host' \in HostState /\ host'.head = host.head /\ host'.image = host.image
  /\ host'.overlay = host.overlay
  /\ deploy' \in DeployState /\ SameDeploy /\ deploy'.outcome # "rollback failed"

LEMMA LookSteps ==
  ASSUME DInv, Looks, web' = web,
         deploy'.at \in Saved => deploy.at \in Saved,
         deploy'.at \in Saved \cup {"built"} => deploy.at \in Saved \cup {"built"},
         deploy'.at \notin Operator => deploy.at \notin Operator,
         Steps', Serving', failures' = 0 => CaddyKept'
  PROVE  DInv'
<1>1. Proxying
  BY SameCounts DEF Proxying, Looks, SameDeploy
<1>2. caddy' \in CaddyState /\ deploy'.outcome # "rollback failed"
  BY Kinds DEF Looks
<1> QED BY <1>1, <1>2, ProxySteps

LEMMA SameProxy == ASSUME Looks, web' = web PROVE ProxyServes' <=> ProxyServes
<1>1. caddy'.running = caddy.running /\ host'.overlay = host.overlay
  BY Zenon DEF Looks
<1> QED BY <1>1, SameService

\* From the proxy on, the deployment goes one step on, or to the rollback.
LEMMA LooksOn ==
  ASSUME DInv, Looks, web' = web, NEW step \in AfterSmoke \cup {"rolling back"}, Goes(step),
         deploy.at \in Served \cup {"started"},
         step # "rolling back" => ProxyServes /\ deploy.at \in Served
  PROVE  DInv'
<1>1. /\ deploy' \in DeployState /\ deploy'.at = step /\ deploy'.outcome = deploy.outcome
      /\ SameDeploy
  BY Kinds, GoesTo DEF DeployStep, AfterSmoke
<1>2. Steps' /\ deploy.outcome = "none"
  <2>1. Steps
    BY DEF DInv
  <2> QED BY <1>1, <2>1 DEF Steps, Looks, Served, AfterSmoke
<1>3. Serving'
  <2>1. step # "rolling back" => ProxyServes'
    BY SameProxy
  <2> QED BY <1>1, <2>1 DEF Serving, At, AfterSmoke
<1>4. failures' = 0 => CaddyKept'
  <2>1. failures = 0 => CaddyKept
    BY DEF DInv
  <2> QED BY <1>1, <2>1 DEF CaddyKept, Looks, SameDeploy, At, Served, AfterSmoke, Unpatched
<1>5. deploy.at \in Saved /\ deploy.at \notin Operator
  BY DEF Saved, Served, AfterSmoke, Operator
<1> QED BY <1>2, <1>3, <1>4, <1>5, LookSteps

LEMMA LooksLike ==
  ASSUME DInv, caddy' = caddy, before' = before, schema' = schema, dir' = dir,
         script' = script, command' = command, old' = old,
         main' = main, passed' = passed, dns' = dns, failures' = failures,
         kills' \in 0..MaxKills, kills' >= kills,
         host' \in HostState, host'.head = host.head, host'.image = host.image,
         host'.overlay = host.overlay,
         deploy' \in DeployState, SameDeploy, deploy'.outcome # "rollback failed"
  PROVE  Looks
BY Zenon DEF Looks

LEMMA StepSmoke == ASSUME DInv, Smoke PROVE DInv'
<1>1. deploy.at = "served" /\ Goes("smoked") /\ host' = host
  BY DEF Smoke, At
<1>2. web' = web
  BY DEF Smoke, restoreVars
<1>3. ProxyServes
  BY Zenon DEF Smoke, SmokeOk
<1>4. Looks
  <2>1. deploy' \in DeployState /\ SameDeploy /\ deploy'.outcome = deploy.outcome
    BY <1>1, Kinds, GoesTo DEF DeployStep
  <2>2. deploy.outcome = "none"
    BY <1>1 DEF DInv, Steps
  <2>3. host'.overlay = host.overlay
    BY <1>1, Zenon
  <2> QED BY <1>1, <2>1, <2>2, <2>3, SameHost, SameCounts DEF Looks, Smoke, restoreVars, world
<1> QED BY <1>1, <1>2, <1>3, <1>4, LooksOn DEF AfterSmoke, Served

LEMMA StepGate == ASSUME DInv, Gate PROVE DInv'
<1>1. deploy.at = "rebound" /\ Goes("gated") /\ host' = host
  BY DEF Gate, At
<1>2. web' = web
  BY DEF Gate, restoreVars
<1>3. ProxyServes
  BY Zenon DEF Gate
<1>4. Looks
  <2>1. deploy' \in DeployState /\ SameDeploy /\ deploy'.outcome = deploy.outcome
    BY <1>1, Kinds, GoesTo DEF DeployStep
  <2>2. deploy.outcome = "none"
    BY <1>1 DEF DInv, Steps
  <2>3. host'.overlay = host.overlay
    BY <1>1, Zenon
  <2> QED BY <1>1, <2>1, <2>2, <2>3, SameHost, SameCounts DEF Looks, Gate, restoreVars, world
<1> QED BY <1>1, <1>2, <1>3, <1>4, LooksOn DEF AfterSmoke, Served

\* The firewall's rule is removed when the proxy serves.
LEMMA StepClosePort == ASSUME DInv, ClosePort PROVE DInv'
<1>1. /\ deploy.at = "gated" /\ Goes("closed")
      /\ host' = [host EXCEPT !.open = FALSE]
  BY Zenon DEF ClosePort, At
<1>2. web' = web
  BY DEF ClosePort, restoreVars
<1>3. ProxyServes
  BY <1>1 DEF DInv, Serving, AfterSmoke
<1>4. Looks
  <2>1. deploy' \in DeployState /\ SameDeploy /\ deploy'.outcome = deploy.outcome
    BY <1>1, Kinds, GoesTo DEF DeployStep
  <2>2. deploy.outcome = "none"
    BY <1>1 DEF DInv, Steps
  <2>3. /\ host' \in HostState /\ host'.head = host.head /\ host'.image = host.image
        /\ host'.overlay = host.overlay
    <3>1. FALSE \in BOOLEAN
      OBVIOUS
    <3> QED BY <1>1, <3>1, Kinds, Zenon DEF HostState
  <2> QED BY <2>1, <2>2, <2>3, SameCounts DEF Looks, ClosePort, restoreVars, world
<1> QED BY <1>1, <1>2, <1>3, <1>4, LooksOn DEF AfterSmoke, Served

LEMMA StepStepFails == ASSUME DInv, StepFails PROVE DInv'
<1>1. /\ deploy.at \in Served \cup {"started"} /\ Goes("rolling back") /\ host' = host
  BY DEF StepFails, Served, AfterSmoke
<1>2. web' = web
  BY DEF StepFails, restoreVars
<1>3. Looks
  <2>1. deploy' \in DeployState /\ SameDeploy /\ deploy'.outcome = deploy.outcome
    BY <1>1, Kinds, GoesTo DEF DeployStep
  <2>2. deploy.outcome = "none"
    BY <1>1 DEF DInv, Steps, Served, AfterSmoke
  <2>3. host'.overlay = host.overlay
    BY <1>1, Zenon
  <2> QED BY <1>1, <2>1, <2>2, <2>3, SameHost, SameCounts DEF Looks, StepFails, restoreVars, world
<1> QED BY <1>1, <1>2, <1>3, LooksOn

\* The deployment is done while the proxy serves.
LEMMA StepFinalCheck == ASSUME DInv, FinalCheck PROVE DInv'
<1>1. deploy.at = "closed" /\ Ends("deployed") /\ host' = host
  BY DEF FinalCheck, At
<1>2. web' = web
  BY DEF FinalCheck, restoreVars
<1>3. ProxyServes
  BY Zenon DEF FinalCheck
<1>4. /\ deploy' \in DeployState /\ SameDeploy /\ deploy'.at = "idle"
      /\ deploy'.outcome = "deployed"
  BY <1>1, Kinds, EndsWith DEF Outcome
<1>5. Looks
  <2>1. host'.overlay = host.overlay
    BY <1>1, Zenon
  <2> QED BY <1>1, <1>4, <2>1, SameHost, SameCounts DEF Looks, FinalCheck, restoreVars, world
<1>6. Steps'
  BY <1>4 DEF Steps
<1>7. Serving'
  <2>1. ProxyServes'
    BY <1>2, <1>3, <1>5, SameProxy
  <2> QED BY <1>4, <2>1 DEF Serving
<1>8. failures' = 0 => CaddyKept'
  <2>1. failures = 0 => CaddyKept
    BY DEF DInv
  <2> QED BY <1>4, <1>5, <2>1 DEF CaddyKept, Looks, At, Served, AfterSmoke, Unpatched
<1>9. deploy'.at \notin Saved \cup {"built"} /\ deploy'.at \in Operator
  BY <1>4 DEF Saved, Served, AfterSmoke, Operator
<1> QED BY <1>2, <1>5, <1>6, <1>7, <1>8, <1>9, LookSteps

LEMMA StepAbort == ASSUME DInv, Abort PROVE DInv'
<1>1. /\ deploy.at \notin {"idle", "rolling back", "restoring", "resetting"}
      /\ Ends("killed") /\ host' = host /\ kills < MaxKills /\ kills' = kills + 1
  BY DEF Abort
<1>2. web' = web
  BY DEF Abort
<1>3. /\ deploy' \in DeployState /\ SameDeploy /\ deploy'.at = "idle"
      /\ deploy'.outcome = "killed"
  BY <1>1, Kinds, EndsWith DEF Outcome
<1>4. kills' \in 0..MaxKills /\ kills' >= kills
  <2>1. kills \in 0..MaxKills
    BY SameCounts
  <2>2. kills < MaxKills /\ kills' = kills + 1
    BY <1>1
  <2> QED BY <2>1, <2>2, RestoreAssumption
<1>5. Looks
  <2>1. host'.overlay = host.overlay
    BY <1>1, Zenon
  <2> QED BY <1>1, <1>3, <1>4, <2>1, SameHost DEF Looks, Abort, world
<1>6. Steps'
  BY <1>3 DEF Steps
<1>7. Serving'
  BY <1>3 DEF Serving, At, AfterSmoke
<1>8. failures' = 0 => CaddyKept'
  <2>1. failures = 0 => CaddyKept
    BY DEF DInv
  <2> QED BY <1>3, <1>5, <2>1 DEF CaddyKept, Looks, At, Served, AfterSmoke, Unpatched
<1>9. deploy'.at \notin Saved \cup {"built"} /\ deploy'.at \in Operator
  BY <1>3 DEF Saved, Served, AfterSmoke, Operator
<1> QED BY <1>2, <1>5, <1>6, <1>7, <1>8, <1>9, LookSteps

LEMMA StepRestoreEnds == ASSUME DInv, RestoreEnds PROVE DInv'
<1>1. deploy.at = "restoring" /\ script \in Exits /\ Goes("resetting") /\ host' = host
  BY DEF RestoreEnds, At, Exits
<1>2. web' = web
  BY DEF RestoreEnds, restoreVars
<1>3. /\ deploy' \in DeployState /\ SameDeploy /\ deploy'.at = "resetting"
      /\ deploy'.outcome = deploy.outcome
  BY <1>1, Kinds, GoesTo DEF DeployStep
<1>4. deploy.outcome = "none"
  BY <1>1 DEF DInv, Steps
<1>5. Looks
  <2>1. host'.overlay = host.overlay
    BY <1>1, Zenon
  <2> QED BY <1>1, <1>3, <1>4, <2>1, SameHost, SameCounts DEF Looks, RestoreEnds, restoreVars, world
<1>6. Steps'
  BY <1>1, <1>3, <1>4, <1>5 DEF Steps, Looks
<1>7. Serving'
  BY <1>3 DEF Serving, At, AfterSmoke
<1>8. failures' = 0 => CaddyKept'
  <2>1. failures = 0 => CaddyKept
    BY DEF DInv
  <2> QED BY <1>1, <1>3, <1>5, <2>1 DEF CaddyKept, Looks, At, Served, AfterSmoke, Unpatched
<1>9. deploy.at \in Saved /\ deploy.at \notin Operator
  BY <1>1 DEF Saved, Operator
<1> QED BY <1>2, <1>5, <1>6, <1>7, <1>8, <1>9, LookSteps
-----------------------------------------------------------------------------
(* restore-vps.sh within the rollback *)

\* Until the archive is extracted, its stage is empty.
NotStaged ==
  script \in {"verifying", "refused"} \/ (script = "restoring" /\ command = NoCommand) =>
    dir["stage"] = Nothing

\* A step of restore-vps.sh brings no database of the archive but by extracting it.
Unextracted == failures' >= failures /\ NotStaged' /\ (Extracted' => Extracted)

\* The renames are between two different places.
LEMMA NextIsMove ==
  ASSUME IInv, command.name # "none", ~Through
  PROVE  \E from, to \in Place : from # to /\ Moves(NextMove, from, to)
<1> DEFINE n == command.next
<1>1. /\ "live" \in Place /\ "prior" \in Place /\ "aside" \in Place /\ "stage" \in Place
      /\ "live" # "prior" /\ "live" # "aside" /\ "live" # "stage"
  BY DEF Place
<1>2. command.name \in {"restore", "rollback"} /\ command.phase \in {"apply", "undo"}
  BY WhoRuns
<1>3. n \in 1..9
  <2>1. 2 * Len(StateNames) + 1 = 9
    BY Names
  <2>2. n \in 1..(2 * Len(StateNames) + 1)
    BY TypeParts, Zenon DEF CommandState
  <2> QED BY <2>1, <2>2
<1>4. n # Len(Plan) + 1
  BY DEF Through
<1>5. CASE command.name = "restore" /\ command.phase = "apply"
  <2>1. Plan = RestoreMoves
    BY <1>5, WhichPlan
  <2>2. Len(RestoreMoves) = 6
    BY RestorePlan
  <2>3. n \in 1..7
    BY <1>5, Doing DEF Applying
  <2>4. n \in 1..4 \/ n \in 5..6
    BY <1>4, <2>1, <2>2, <2>3
  <2>5. Moves(RestoreMoves[n], "live", "prior") \/ Moves(RestoreMoves[n], "stage", "live")
    BY <2>4, RestorePlan
  <2> QED BY <1>1, <2>1, <2>5 DEF NextMove
<1>6. CASE command.name = "restore" /\ command.phase = "undo"
  <2>1. Plan = UndoRestore
    BY <1>6, WhichPlan
  <2>2. Len(UndoRestore) = 6
    BY UndoRestorePlan
  <2>3. n \in 1..7
    BY <1>6, Doing DEF Undoing
  <2>4. n \in 1..2 \/ n \in 3..6
    BY <1>4, <2>1, <2>2, <2>3
  <2>5. Moves(UndoRestore[n], "live", "stage") \/ Moves(UndoRestore[n], "prior", "live")
    BY <2>4, UndoRestorePlan
  <2> QED BY <1>1, <2>1, <2>5 DEF NextMove
<1>7. CASE command.name = "rollback" /\ command.phase = "apply"
  <2>1. Plan = RollbackMoves
    BY <1>7, WhichPlan
  <2>2. Len(RollbackMoves) = 8
    BY RollbackPlans DEF TwoLoopPlan
  <2>3. n \in 1..4 \/ n \in 5..8
    BY <1>3, <1>4, <2>1, <2>2
  <2>4. Moves(RollbackMoves[n], "live", "aside") \/ Moves(RollbackMoves[n], "prior", "live")
    BY <2>3, RollbackPlans DEF TwoLoopPlan
  <2>5. "prior" # "live"
    OBVIOUS
  <2> QED BY <1>1, <2>1, <2>4, <2>5 DEF NextMove
<1>8. CASE command.name = "rollback" /\ command.phase = "undo"
  <2>1. Plan = UndoRollback
    BY <1>8, WhichPlan
  <2>2. Len(UndoRollback) = 8
    BY RollbackPlans DEF TwoLoopPlan
  <2>3. n \in 1..4 \/ n \in 5..8
    BY <1>3, <1>4, <2>1, <2>2
  <2>4. Moves(UndoRollback[n], "live", "prior") \/ Moves(UndoRollback[n], "aside", "live")
    BY <2>3, RollbackPlans DEF TwoLoopPlan
  <2> QED BY <1>1, <2>1, <2>4 DEF NextMove
<1> QED BY <1>2, <1>5, <1>6, <1>7, <1>8

\* The data stay, or lose some places.
LEMMA SameOrLess ==
  ASSUME dir \in [Place -> [File -> Content]],
         \A p \in Place : dir'[p] = dir[p] \/ dir'[p] = Nothing
                            \/ dir'[p]["database"] = dir[p]["database"]
  PROVE  Extracted' => Extracted
BY DEF Extracted, Nothing, File

LEMMA ScriptQuiet ==
  ASSUME IInv, NotStaged,
         RefuseArchive \/ StopForRestore \/ StopForRollback \/ BeginRollback \/ FailEarly \/ Healthy
  PROVE  Unextracted
<1>1. failures \in Nat /\ dir \in [Place -> [File -> Content]]
  BY TypeParts
<1>2. CASE RefuseArchive
  <2>1. /\ script = "verifying" /\ script' = "refused" /\ dir' = dir /\ failures' = failures
    BY <1>2 DEF RefuseArchive
  <2>2. NotStaged'
    BY <2>1 DEF NotStaged
  <2>3. Extracted' => Extracted
    BY <2>1 DEF Extracted
  <2> QED BY <1>1, <2>1, <2>2, <2>3 DEF Unextracted
<1>3. CASE StopForRestore
  <2>1. script = "verifying" /\ failures' = failures
    BY <1>3 DEF StopForRestore
  <2>2. PICK files \in Stopped(dir["live"]) : dir' = [dir EXCEPT !["live"] = files]
    BY <1>3 DEF StopForRestore
  <2>3. files["database"] = dir["live"]["database"]
    BY <1>1, <2>2 DEF Stopped, Place, File
  <2>4. dir'["stage"] = dir["stage"]
    BY <1>1, <2>2 DEF Place
  <2>5. \A p \in Place : dir'[p]["database"] = dir[p]["database"]
    BY <1>1, <2>2, <2>3
  <2>6. NotStaged'
    BY <2>1, <2>4 DEF NotStaged
  <2> QED BY <1>1, <2>1, <2>5, <2>6 DEF Unextracted, Extracted
<1>4. CASE StopForRollback
  <2>1. script' = "rolling back"
    BY <1>4, Zenon DEF StopForRollback
  <2>6. failures' = failures
    BY <1>4, Zenon DEF StopForRollback
  <2>2. NotStaged'
    BY <2>1 DEF NotStaged
  <2>3. CASE \E files \in Stopped(dir["live"]) : dir' = [dir EXCEPT !["live"] = files]
    <3>1. PICK files \in Stopped(dir["live"]) : dir' = [dir EXCEPT !["live"] = files]
      BY <2>3
    <3>2. files["database"] = dir["live"]["database"]
      BY <1>1, <3>1 DEF Stopped, Place, File
    <3>3. \A p \in Place : dir'[p]["database"] = dir[p]["database"]
      BY <1>1, <3>1, <3>2
    <3> QED BY <1>1, <2>2, <2>6, <3>3 DEF Unextracted, Extracted
  <2>4. CASE dir' = dir
    BY <1>1, <2>2, <2>4, <2>6 DEF Unextracted, Extracted
  <2> QED BY <1>4, <2>3, <2>4, Zenon DEF StopForRollback
<1>5. CASE BeginRollback
  <2>1. script' = "rolling back"
    BY <1>5 DEF BeginRollback
  <2>2. failures' = failures /\ dir' = dir
    BY <1>5 DEF BeginRollback
  <2>3. NotStaged'
    BY <2>1 DEF NotStaged
  <2> QED BY <1>1, <2>2, <2>3 DEF Unextracted, Extracted
<1>6. CASE FailEarly
  <2>1. script' = Then(FALSE) /\ script \in {"restoring", "rolling back"}
    BY <1>6 DEF FailEarly
  <2>2. failures' = failures + 1 /\ dir' = dir
    BY <1>6 DEF FailEarly
  <2>3. script' \in {"starting previous", "starting rolled back"}
    BY <2>1 DEF Then
  <2>4. failures' >= failures
    BY <1>1, <2>2
  <2>5. NotStaged'
    BY <2>3 DEF NotStaged
  <2> QED BY <2>2, <2>4, <2>5 DEF Unextracted, Extracted
<1>7. CASE Healthy
  <2>1. script' = "restored" /\ failures' = failures /\ dir' = dir
    BY <1>7 DEF Healthy
  <2> QED BY <1>1, <2>1 DEF Unextracted, NotStaged, Extracted
<1> QED BY <1>2, <1>3, <1>4, <1>5, <1>6, <1>7

LEMMA CommandQuiet ==
  ASSUME IInv, Rename \/ Fail \/ Finish \/ Raise \/ Kill
  PROVE  Unextracted
<1>1. failures \in Nat /\ dir \in [Place -> [File -> Content]]
  BY TypeParts
<1>2. command.name # "none"
  BY DEF Rename, Fail, Finish, Raise, Kill
<1>3. script \in {"restoring", "rolling back"}
  BY <1>2, WhoRuns
<1>4. ASSUME NEW success, End(success) PROVE NotStaged'
  <2>1. script' = Then(success)
    BY <1>4 DEF End
  <2>2. script' \in {"starting", "starting previous", "starting rolled back"}
    BY <1>3, <2>1 DEF Then
  <2> QED BY <2>2 DEF NotStaged
<1>5. ASSUME script' = script, command'.name # "none" PROVE NotStaged'
  BY <1>3, <1>5, NoCommandType DEF NotStaged
<1>6. CASE Rename
  <2> DEFINE m == NextMove
  <2>1. script' = script /\ failures' = failures /\ (dir' = Renamed(m) \/ dir' = dir)
    BY <1>6 DEF Rename
  <2>2. PICK from \in Place, to \in Place : from # to /\ Moves(m, from, to)
    <3>1. ~Through
      BY <1>6 DEF Rename
    <3> QED BY <1>2, <3>1, NextIsMove
  <2>3. command'.name # "none"
    <3>1. command \in CommandState /\ m.file \in File
      BY <2>2, TypeParts DEF Moves
    <3>2. command.next + 1 \in 1..9
      <4>1. command.next \in 1..9
        <5>1. 2 * Len(StateNames) + 1 = 9
          BY Names
        <5> QED BY <3>1, <5>1, Zenon DEF CommandState
      <4>2. command.next # 9
        <5>1. CASE command.name = "restore"
          <6>1. command.phase \in {"apply", "undo"}
            BY <1>2, WhoRuns
          <6>2. command.next \in 1..7
            BY <5>1, <6>1, Doing DEF Applying, Undoing
          <6> QED BY <6>2
        <5>2. CASE command.name = "rollback"
          <6>1. command.phase \in {"apply", "undo"}
            BY <1>2, WhoRuns
          <6>2. Plan = RollbackMoves \/ Plan = UndoRollback
            BY <5>2, <6>1, WhichPlan
          <6>3. Len(Plan) = 8
            BY <6>2, RollbackPlans DEF TwoLoopPlan
          <6> QED BY <1>6, <6>3 DEF Rename, Through
        <5> QED BY <1>2, <5>1, <5>2, WhoRuns
      <4> QED BY <4>1, <4>2
    <3>3. Turned(m)
      BY <1>6, <3>1, <3>2, RenameTurns
    <3> QED BY <1>2, <3>3 DEF Turned
  <2> HIDE DEF m
  <2>4. Extracted' => Extracted
    <3>1. CASE dir' = dir
      BY <3>1 DEF Extracted
    <3>2. CASE dir' = Renamed(m)
      <4>1. "database" \in File
        BY DEF File
      <4>2. \A p \in Place, f \in File :
              Renamed(m)[p][f] = IF f = m.file /\ p = to THEN dir[from][f]
                                 ELSE IF f = m.file /\ p = from THEN "none" ELSE dir[p][f]
        BY <1>1, <2>2, RenamedFiles
      <4>3. \A p \in Place : dir'[p]["database"] \in
              {dir[from]["database"], "none", dir[p]["database"]}
        BY <3>2, <4>1, <4>2
      <4> QED BY <4>3 DEF Extracted
    <3> QED BY <2>1, <3>1, <3>2
  <2> QED BY <1>1, <1>5, <2>1, <2>3, <2>4 DEF Unextracted
<1>7. CASE Fail
  <2>1. failures' = failures + 1 \/ failures' = failures
    BY <1>7 DEF Fail
  <2>2. failures' >= failures
    BY <1>1, <2>1
  <2>3. CASE command.phase = "apply"
    <3>1. command' = [command EXCEPT !.phase = "undo", !.next = 1] /\ dir' = dir /\ script' = script
      BY <1>7, <2>3, Zenon DEF Fail
    <3>2. command'.name = command.name
      <4>1. command \in CommandState
        BY TypeParts
      <4> QED BY <3>1, <4>1 DEF CommandState
    <3> QED BY <1>2, <1>5, <2>2, <3>1, <3>2 DEF Unextracted, Extracted
  <2>4. CASE command.phase # "apply"
    <3>1. dir' = [dir EXCEPT !["stage"] = Nothing]
      BY <1>7, <2>4 DEF Fail
    <3>2. End(FALSE)
      BY <1>7, <2>4 DEF Fail
    <3>3. \A p \in Place : dir'[p] = dir[p] \/ dir'[p] = Nothing
      BY <1>1, <3>1
    <3>4. NotStaged'
      BY <1>4, <3>2
    <3> QED BY <1>1, <2>2, <3>3, <3>4, SameOrLess DEF Unextracted
  <2> QED BY <2>3, <2>4
<1>8. CASE Finish
  <2>1. /\ dir' = [p \in Place |-> IF p \in Removed THEN Nothing ELSE dir[p]]
        /\ failures' = failures
    BY <1>8 DEF Finish
  <2>2. End(TRUE)
    BY <1>8 DEF Finish
  <2>3. \A p \in Place : dir'[p] = dir[p] \/ dir'[p] = Nothing
    BY <2>1
  <2>4. NotStaged'
    BY <1>4, <2>2
  <2> QED BY <1>1, <2>1, <2>3, <2>4, SameOrLess DEF Unextracted
<1>9. CASE Raise
  <2>1. dir' = [dir EXCEPT !["stage"] = Nothing] /\ failures' = failures
    BY <1>9 DEF Raise
  <2>2. End(FALSE)
    BY <1>9 DEF Raise
  <2>3. \A p \in Place : dir'[p] = dir[p] \/ dir'[p] = Nothing
    BY <1>1, <2>1
  <2>4. NotStaged'
    BY <1>4, <2>2
  <2> QED BY <1>1, <2>1, <2>3, <2>4, SameOrLess DEF Unextracted
<1>10. CASE Kill
  <2>1. dir' = dir /\ failures' = failures
    BY <1>10 DEF Kill
  <2>2. End(FALSE)
    BY <1>10 DEF Kill
  <2>3. NotStaged'
    BY <1>4, <2>2
  <2> QED BY <1>1, <2>1, <2>3 DEF Unextracted, Extracted
<1> QED BY <1>6, <1>7, <1>8, <1>9, <1>10

LEMMA StepRestoreStep == ASSUME DInv, RestoreStep PROVE DInv'
<1>1. /\ deploy.at = "restoring" /\ deploy' = deploy /\ host' = host
      /\ main' = main /\ passed' = passed /\ dns' = dns
      /\ caddy' = caddy /\ before' = before
      /\ schema' = IF dir["stage"] = Nothing /\ dir'["stage"] = Archived
                     THEN [schema EXCEPT !["new"] = deploy.archive] ELSE schema
  BY DEF RestoreStep, world, At
<1>2. \/ RefuseArchive \/ StopForRestore \/ StopForRollback
      \/ BeginRestore \/ BeginRollback \/ FailEarly
      \/ Rename \/ Fail \/ Finish \/ Raise \/ Kill \/ Healthy
  BY Zenon DEF RestoreStep
<1>3. IInv /\ schema \in [Content -> Nat] /\ deploy.archive \in Nat
  BY Kinds
<1>4. IInv'
  BY <1>2, <1>3, StepRefuseArchive, StepStopForRestore, StepStopForRollback, StepBeginRestore,
     StepBeginRollback, StepFailEarly, StepRename, StepFail, StepFinish, StepRaise, StepKill,
     StepHealthy, Zenon
<1>5. deploy.at \in Saved /\ deploy.at \notin Operator /\ deploy.outcome = "none"
  BY <1>1 DEF Saved, Operator, DInv, Steps
<1>6. Commits /\ Saves /\ NotStaged
  BY DEF DInv, Saves, NotStaged
<1>7. /\ failures' >= failures /\ NotStaged' /\ (Extracted' => Extracted)
      \/ /\ failures' = failures /\ NotStaged'
         /\ dir["stage"] = Nothing /\ dir'["stage"] = Archived
  <2>1. CASE BeginRestore
    <3>1. /\ script = "restoring" /\ command = NoCommand
          /\ dir' = [dir EXCEPT !["stage"] = Archived] /\ failures' = failures
      BY <2>1 DEF BeginRestore
    <3>2. dir["stage"] = Nothing
      BY <1>6, <3>1 DEF NotStaged
    <3>3. dir'["stage"] = Archived
      BY <1>3, <3>1, TypeParts DEF Place
    <3>4. command' # NoCommand
      <4>1. command'.name = "restore"
        BY <2>1, RunCommand DEF BeginRestore
      <4> QED BY <4>1, NoCommandType
    <3>5. script' = "restoring"
      BY <2>1 DEF BeginRestore
    <3> QED BY <3>1, <3>2, <3>3, <3>4, <3>5 DEF NotStaged
  <2>2. CASE RefuseArchive \/ StopForRestore \/ StopForRollback \/ BeginRollback \/ FailEarly
               \/ Healthy
    BY <1>3, <1>6, <2>2, ScriptQuiet DEF Unextracted
  <2>3. CASE Rename \/ Fail \/ Finish \/ Raise \/ Kill
    BY <1>3, <2>3, CommandQuiet DEF Unextracted
  <2> QED BY <1>2, <2>1, <2>2, <2>3
<1>8. /\ schema' \in [Content -> Nat] /\ schema'["old"] = schema["old"]
      /\ \A d \in Content : schema'[d] = schema[d] \/ schema'[d] = deploy.archive
  <2>1. "new" \in Content /\ "old" \in Content /\ "new" # "old"
    BY DEF Content
  <2>2. schema' = schema \/ schema' = [schema EXCEPT !["new"] = deploy.archive]
    BY <1>1
  <2>3. CASE schema' = schema
    BY <1>3, <2>3
  <2>4. CASE schema' = [schema EXCEPT !["new"] = deploy.archive]
    BY <1>3, <2>1, <2>4
  <2> QED BY <2>2, <2>3, <2>4, Zenon
<1>9. failures \in Nat /\ failures' \in Nat
  <2>1. failures \in 0..MaxFailures /\ failures' \in 0..MaxFailures
    BY <1>3, <1>4, Zenon DEF IInv, TypeOK
  <2> QED BY <2>1, RestoreAssumption
<1>10. DeployTypeOK'
  <2>1. BackedUp'
    BY <1>1, Kinds DEF BackedUp
  <2> QED BY <1>1, <1>8, <2>1, Kinds, DeployTypesNext
<1>11. Steps'
  BY <1>1, <1>5 DEF Steps
<1>12. Serving'
  BY <1>1 DEF Serving, At, AfterSmoke
<1>13. OneDnsRecord'
  BY <1>1 DEF OneDnsRecord, DInv
<1>14. failures' = 0 => CaddyKept'
  <2>1. failures' = 0 => failures = 0
    BY <1>7, <1>9
  <2>2. failures = 0 => CaddyKept
    BY DEF DInv
  <2>3. CaddyKept => CaddyKept'
    BY <1>1, Zenon DEF CaddyKept, At
  <2> QED BY <2>1, <2>2, <2>3
<1>15. Commits'
  <2>1. Newest = deploy.commit /\ Newest' = deploy.commit
    BY <1>1, <1>5 DEF Newest
  <2>2. \A d \in Content : schema'[d] <= Schema[deploy.commit]
    BY <1>5, <1>6, <1>8, <2>1 DEF Commits
  <2> QED BY <1>1, <1>6, <2>1, <2>2 DEF Commits
<1>16. Saves'
  <2>1. Paired("old") /\ (Extracted => Paired("new"))
    BY <1>5, <1>6 DEF Saves
  <2>2. Paired("old")'
    BY <1>1, <1>8, <2>1 DEF Paired
  <2>3. CASE dir["stage"] = Nothing /\ dir'["stage"] = Archived
    <3>1. schema'["new"] = deploy.archive
      BY <1>1, <1>3, <2>3 DEF Content
    <3>2. Paired("new")'
      BY <1>1, <3>1 DEF Paired
    <3> QED BY <1>6, <1>7, <1>8, <2>2, <3>2 DEF Saves, NotStaged
  <2>4. CASE ~(dir["stage"] = Nothing /\ dir'["stage"] = Archived)
    <3>1. schema' = schema
      BY <1>1, <2>4
    <3>2. Extracted' => Paired("new")
      BY <1>7, <2>1, <2>4
    <3>3. Extracted' => Paired("new")'
      BY <1>1, <3>1, <3>2 DEF Paired
    <3> QED BY <1>6, <1>7, <1>8, <2>2, <2>4, <3>3 DEF Saves, NotStaged
  <2> QED BY <2>3, <2>4
<1>17. RollbackFailsByMigration'
  BY <1>1, <1>5, NotFailed
<1> QED BY <1>4, <1>10, <1>11, <1>12, <1>13, <1>14, <1>15, <1>16, <1>17, Zenon DEF DInv

\* It starts the image of the failed commit, which migrates what it finds; there is
\* an archive of that at the revision it had.
LEMMA RestoreServes == ASSUME DInv, RestoreStarts, Serve(host, FALSE, deploy.bind) PROVE DInv'
<1>1. /\ deploy.at = "restoring" /\ deploy' = deploy /\ Serve(host, FALSE, deploy.bind)
      /\ main' = main /\ passed' = passed /\ dns' = dns
      /\ caddy' = caddy /\ before' = before
  BY Zenon DEF RestoreStarts, world, At
<1>2. \/ StartWeb("starting", "checking")
      \/ StartWeb("starting previous", "not restored")
      \/ StartWeb("starting rolled back", "rolled back")
  BY Zenon DEF RestoreStarts
<1>3. /\ IInv /\ schema \in [Content -> Nat] /\ host \in HostState /\ host.image \in Commit
      /\ dir \in [Place -> [File -> Content]]
  BY Kinds, TypeParts
<1>4. IInv'
  BY <1>2, <1>3, StepStartWeb
<1>5. deploy.at \in Saved /\ deploy.at \notin Operator /\ deploy.outcome = "none"
  BY <1>1 DEF Saved, Operator, DInv, Steps
<1>6. Commits /\ Saves
  BY DEF DInv
<1>7. /\ host' \in HostState /\ host'.head = host.head /\ host'.image = host.image
      /\ dir' = [dir EXCEPT !["live"] = Started(dir["live"])]
      /\ Migrate(host.image)
  <2>1. FALSE \in BOOLEAN /\ deploy.bind \in Bind
    BY Kinds, Zenon DEF DeployState, Bind
  <2> QED BY <1>1, <1>3, <2>1, ServedHost, Zenon
<1>8. /\ schema' \in [Content -> Nat]
      /\ \E d \in Content : Migrated(host.image, d)
      /\ \A p \in Place : dir'[p]["database"] = "new" => dir[p]["database"] = "new"
  BY <1>3, <1>7, ServeMigrates
<1>9. /\ schema["old"] > 0 => schema'["old"] > 0
      /\ \A b \in Commit : host.image <= b /\ (\A e \in Content : schema[e] <= Schema[b]) =>
           \A e \in Content : schema'[e] <= Schema[b]
      /\ \A e \in {"old", "new"} :
           schema'[e] = schema[e]
             \/ (LiveData = e /\ schema[e] < Schema[host.image] /\ schema'[e] = Schema[host.image])
  BY <1>3, <1>8, MigratedParts
<1>10. failures' = failures /\ script' \in {"checking", "not restored", "rolled back"}
  BY <1>2 DEF StartWeb
<1>11. DeployTypeOK'
  <2>1. BackedUp'
    BY <1>1, Kinds DEF BackedUp
  <2> QED BY <1>1, <1>7, <1>8, <2>1, Kinds, DeployTypesNext
<1>12. Steps'
  BY <1>1, <1>5 DEF Steps
<1>13. Serving'
  BY <1>1 DEF Serving, At, AfterSmoke
<1>14. OneDnsRecord'
  BY <1>1 DEF OneDnsRecord, DInv
<1>15. failures' = 0 => CaddyKept'
  <2>1. failures = 0 => CaddyKept
    BY DEF DInv
  <2>2. CaddyKept => CaddyKept'
    BY <1>1, Zenon DEF CaddyKept, At
  <2>3. failures' = failures
    BY <1>10
  <2> QED BY <2>1, <2>2, <2>3
<1>16. Commits'
  <2>1. Newest = deploy.commit /\ Newest' = deploy.commit
    BY <1>1, <1>5 DEF Newest
  <2>2. host.image <= deploy.commit /\ deploy.commit \in Commit
    BY <1>6, <2>1, Kinds DEF Commits
  <2>3. \A e \in Content : schema[e] <= Schema[deploy.commit]
    BY <1>6, <2>1 DEF Commits
  <2>4. \A e \in Content : schema'[e] <= Schema[deploy.commit]
    BY <1>9, <2>2, <2>3
  <2> QED BY <1>1, <1>6, <1>7, <2>1, <2>4 DEF Commits
<1>17. Saves'
  <2>1. Paired("old") /\ (Extracted => Paired("new"))
    BY <1>5, <1>6 DEF Saves
  <2>2. Schema[host.image] \in Nat
    BY <1>3, Numbers
  <2>3. \A e \in {"old", "new"} : Paired(e) => Paired(e)'
    BY <1>1, <1>7, <1>9, <2>2 DEF Paired
  <2>4. Extracted' => Extracted
    BY <1>8 DEF Extracted
  <2>5. NotStaged'
    BY <1>10 DEF NotStaged
  <2> QED BY <1>6, <1>9, <2>1, <2>3, <2>4, <2>5 DEF Saves, NotStaged
<1>18. RollbackFailsByMigration'
  BY <1>1, <1>5, NotFailed
<1> QED BY <1>4, <1>11, <1>12, <1>13, <1>14, <1>15, <1>16, <1>17, <1>18, Zenon DEF DInv

\* Neither the old data nor those of the archive are touched.
LEMMA BesideKeeps ==
  ASSUME DInv, IInv', deploy.at = "restoring", deploy' = deploy, host' = host,
         main' = main, passed' = passed, dns' = dns, caddy' = caddy, before' = before,
         failures' = failures, schema' \in [Content -> Nat],
         schema'["old"] = schema["old"], schema'["new"] = schema["new"],
         \A d \in Content : schema'[d] = schema[d] \/ schema'[d] = 0,
         NotStaged', Extracted' => Extracted
  PROVE  DInv'
<1>1. deploy.at \in Saved /\ deploy.at \notin Operator /\ deploy.outcome = "none"
  BY DEF Saved, Operator, DInv, Steps
<1>2. Commits /\ Saves
  BY DEF DInv
<1>3. DeployTypeOK'
  <2>1. BackedUp'
    BY Kinds DEF BackedUp
  <2> QED BY <2>1, Kinds, DeployTypesNext
<1>4. Steps'
  BY <1>1 DEF Steps
<1>5. Serving'
  BY DEF Serving, At, AfterSmoke
<1>6. OneDnsRecord'
  BY DEF OneDnsRecord, DInv
<1>7. failures' = 0 => CaddyKept'
  <2>1. failures = 0 => CaddyKept
    BY DEF DInv
  <2>2. CaddyKept => CaddyKept'
    BY Zenon DEF CaddyKept, At
  <2> QED BY <2>1, <2>2
<1>8. Commits'
  <2>1. Newest = deploy.commit /\ Newest' = deploy.commit
    BY <1>1 DEF Newest
  <2>2. deploy.commit \in Commit /\ Schema[deploy.commit] \in Nat
    BY Kinds, Numbers
  <2>3. \A d \in Content : schema[d] <= Schema[deploy.commit]
    BY <1>2, <2>1 DEF Commits
  <2>4. \A d \in Content : schema'[d] <= Schema[deploy.commit]
    BY <2>2, <2>3
  <2> QED BY <1>2, <2>1, <2>4 DEF Commits
<1>9. Saves'
  <2>1. Paired("old") /\ (Extracted => Paired("new"))
    BY <1>1, <1>2 DEF Saves
  <2>2. Paired("old")' /\ (Paired("new") => Paired("new")')
    BY <2>1 DEF Paired
  <2> QED BY <1>2, <2>1, <2>2 DEF Saves, NotStaged
<1>10. RollbackFailsByMigration'
  BY <1>1, NotFailed
<1> QED BY <1>3, <1>4, <1>5, <1>6, <1>7, <1>8, <1>9, <1>10, Zenon DEF DInv

LEMMA StepRestoreStarts == ASSUME DInv, RestoreStarts PROVE DInv'
<1>1. CASE Serve(host, FALSE, deploy.bind)
  BY <1>1, RestoreServes
<1>2. CASE UNCHANGED <<dir, host, schema>>
  <2>1. /\ deploy.at = "restoring" /\ deploy' = deploy
        /\ main' = main /\ passed' = passed /\ dns' = dns
        /\ caddy' = caddy /\ before' = before
    BY Zenon DEF RestoreStarts, world, At
  <2>2. \/ StartWeb("starting", "checking")
        \/ StartWeb("starting previous", "not restored")
        \/ StartWeb("starting rolled back", "rolled back")
    BY Zenon DEF RestoreStarts
  <2>3. IInv'
    BY <2>2, Kinds, StepStartWeb
  <2>4. failures' = failures /\ script' \in {"checking", "not restored", "rolled back"}
    BY <2>2 DEF StartWeb
  <2>5. NotStaged' /\ (Extracted' => Extracted)
    BY <1>2, <2>4 DEF NotStaged, Extracted
  <2>6. dir' = dir /\ host' = host /\ schema' = schema
    BY <1>2
  <2>7. schema' \in [Content -> Nat]
    BY <2>6, Kinds
  <2> QED BY <2>1, <2>3, <2>4, <2>5, <2>6, <2>7, BesideKeeps
<1> QED BY <1>1, <1>2, Zenon DEF RestoreStarts

\* An application that runs beside the rollback makes no database but an empty one,
\* which is neither the old one nor that of the archive.
LEMMA BesideFiles ==
  ASSUME IInv, WebConnects
  PROVE  /\ \A p \in Place : dir'[p]["database"] = "new" => dir[p]["database"] = "new"
         /\ dir'["live"]["database"] = IF LiveData = "none" THEN "fresh" ELSE LiveData
<1> DEFINE files == dir["live"]
           started == Started(files)
           connected == Connected(files)
<1>1. files \in [File -> Content] /\ "live" \in Place /\ "database" \in File
      /\ "images" # "database" /\ dir \in [Place -> [File -> Content]]
  BY TypeParts DEF Place, File
<1>2. /\ started \in [File -> Content]
      /\ started["database"] = IF LiveData = "none" THEN "fresh" ELSE LiveData
  BY <1>1, StartedFiles DEF Started, LiveData
<1>3. connected = [started EXCEPT !["images"] = files["images"]]
  BY DEF Connected
<1>4. dir' = [dir EXCEPT !["live"] = connected]
  BY Zenon DEF WebConnects
<1> HIDE DEF started
<1>5. connected["database"] = started["database"]
  BY <1>1, <1>2, <1>3
<1> HIDE DEF connected
<1>6. dir'["live"] = connected /\ \A p \in Place \ {"live"} : dir'[p] = dir[p]
  BY <1>1, <1>4
<1>7. dir'["live"]["database"] = IF LiveData = "none" THEN "fresh" ELSE LiveData
  BY <1>2, <1>5, <1>6, Zenon
<1> QED BY <1>6, <1>7 DEF LiveData

LEMMA StepRestoreBeside == ASSUME DInv, RestoreBeside PROVE DInv'
<1>1. /\ deploy.at = "restoring" /\ deploy' = deploy /\ host' = host
      /\ main' = main /\ passed' = passed /\ dns' = dns
      /\ caddy' = caddy /\ before' = before
  BY DEF RestoreBeside, world, At
<1>2. WebConnects /\ IInv
  BY Kinds, Zenon DEF RestoreBeside
<1>3. failures' = failures /\ script' = script /\ script \in RollingBack
  BY <1>2, Zenon DEF WebConnects
<1>4. NotStaged'
  BY <1>3 DEF NotStaged, RollingBack
<1>5. Extracted' => Extracted
  BY <1>2, BesideFiles DEF Extracted
<1>6. /\ schema' \in [Content -> Nat]
      /\ schema'["old"] = schema["old"] /\ schema'["new"] = schema["new"]
      /\ \A d \in Content : schema'[d] = schema[d] \/ schema'[d] = 0
  <2>1. schema' = schema \/ schema' = [schema EXCEPT !["fresh"] = 0]
    BY DEF RestoreBeside
  <2> QED BY <2>1, Kinds DEF Content
<1> QED BY <1>1, <1>2, <1>3, <1>4, <1>5, <1>6, StepWebConnects, BesideKeeps

Reports == {"rolled back", "rollback failed"}

\* The prior commit is checked out and its container is started, which migrates
\* nothing beyond what the failed commit had; it refuses the data only if that
\* commit has migrated them.
LEMMA StepReset == ASSUME DInv, Reset PROVE DInv'
<1> DEFINE h == [host EXCEPT !.head = deploy.prior]
<1>1. /\ deploy.at = "resetting"
      /\ main' = main /\ passed' = passed /\ dns' = dns /\ caddy' = caddy /\ before' = before
      /\ script' = script /\ command' = command /\ old' = old /\ kills' = kills
  BY DEF Reset, At, world
<1>2. \/ /\ ComposeUp(h, deploy.bind)
         /\ Ends(IF IsUp THEN "rolled back" ELSE "rollback failed")
         /\ failures' = failures
      \/ /\ failures < MaxFailures /\ failures' = failures + 1
         /\ host' = h
         /\ Ends("rollback failed")
         /\ UpFails
  BY Zenon DEF Reset, ResetTo
<1>3. /\ deploy.at \in Saved /\ deploy.at \notin Operator
      /\ script \in Exits /\ script \in Settled
  <2>1. script \in Exits
    BY <1>1 DEF DInv, Steps
  <2> QED BY <1>1, <2>1 DEF Saved, Operator, Exits, Settled
<1>4. Commits /\ Saves
  BY DEF DInv
<1>5. /\ IInv /\ schema \in [Content -> Nat] /\ host \in HostState
      /\ dir \in [Place -> [File -> Content]]
      /\ deploy.prior \in Commit /\ deploy.commit \in Commit /\ main \in Commit
      /\ deploy \in DeployState
  BY Kinds, TypeParts
<1>6. h \in HostState /\ h.head = deploy.prior /\ h.image = host.image
  BY <1>5, Zenon DEF HostState
<1> HIDE DEF h
<1>7. PICK outcome \in Reports : Ends(outcome)
  BY <1>2, Zenon DEF Reports
<1>8. /\ deploy' \in DeployState /\ deploy'.at = "idle" /\ deploy'.outcome = outcome
      /\ SameDeploy
  <2>1. outcome \in Outcome
    BY DEF Outcome, Reports
  <2> QED BY <1>5, <1>7, <2>1, EndsWith
<1>9. deploy'.at \in Operator /\ deploy'.at \notin Saved \cup {"built"}
  BY <1>8 DEF Operator, Saved, Served, AfterSmoke
<1>10. /\ deploy.prior <= deploy.commit /\ deploy.commit <= main /\ deploy.prior <= main
       /\ deploy.prior \in Nat /\ deploy.commit \in Nat /\ main \in Nat
       /\ host.image = deploy.commit
       /\ Newest = deploy.commit /\ Newest' = main
       /\ \A e \in Content : schema[e] <= Schema[deploy.commit]
  <2>1. deploy.prior \in Nat /\ deploy.commit \in Nat /\ main \in Nat
    BY <1>5, Numbers
  <2>2. Newest = deploy.commit /\ Newest' = main
    BY <1>1, <1>3, <1>9 DEF Newest
  <2>3. deploy.prior <= deploy.commit /\ deploy.commit <= main /\ host.image = deploy.commit
    BY <1>3, <1>4 DEF Commits
  <2>4. \A e \in Content : schema[e] <= Schema[deploy.commit]
    BY <1>4, <2>2 DEF Commits
  <2>5. deploy.prior <= main
    BY <2>1, <2>3
  <2> QED BY <2>1, <2>2, <2>3, <2>4, <2>5, Zenon
<1>11. \A e \in Content : schema[e] \in Nat /\ schema[e] <= Schema[main]
  <2>1. Schema[deploy.commit] <= Schema[main] /\ Schema[deploy.commit] \in Nat /\ Schema[main] \in Nat
    <3>1. deploy.commit <= main
      BY <1>10
    <3> QED BY <1>5, <3>1, Numbers
  <2>2. TAKE e \in Content
  <2>3. schema[e] \in Nat
    BY <1>5
  <2>4. schema[e] <= Schema[deploy.commit]
    BY <1>10
  <2> QED BY <2>1, <2>3, <2>4
<1>12. Steps'
  BY <1>8 DEF Steps
<1>13. OneDnsRecord'
  BY <1>1 DEF OneDnsRecord, DInv
<1>14. /\ main' \in Commit /\ passed' \subseteq 1..main'
       /\ dns' \in [records : Nat, right : BOOLEAN]
       /\ caddy' \in CaddyState /\ before' \in CaddyState
       /\ BackedUp'
  <2>1. BackedUp'
    BY <1>9 DEF BackedUp
  <2> QED BY <1>1, <2>1, Kinds
<1>15. failures = 0 => CaddyKept
  BY DEF DInv
<1>16. CaddyKept => CaddyKept'
  <2>1. deploy'.at \notin Unpatched \cup {"patched", "reloaded", "rolling back", "restoring", "resetting"}
                         \cup Served
    BY <1>8 DEF Unpatched, Served, AfterSmoke
  <2> QED BY <1>1, <2>1 DEF CaddyKept
<1>17. CASE /\ ComposeUp(h, deploy.bind)
            /\ Ends(IF IsUp THEN "rolled back" ELSE "rollback failed")
            /\ failures' = failures
  <2>1. /\ host' \in HostState /\ host'.head = deploy.prior /\ host'.image = deploy.prior
        /\ host'.container = deploy.prior
        /\ dir' = [dir EXCEPT !["live"] = Started(dir["live"])]
        /\ Migrate(deploy.prior)
    <3>1. deploy.bind \in Bind
      BY <1>5, Zenon DEF DeployState, Bind
    <3> QED BY <1>6, <1>17, <3>1, ComposedHost, Zenon
  <2>2. host'.overlay = TRUE /\ web' = TRUE
    <3>1. deploy.bind \in Bind
      BY <1>5, Zenon DEF DeployState, Bind
    <3> QED BY <1>6, <1>17, <3>1, ComposedHost, Zenon
  <2>3. /\ schema' \in [Content -> Nat]
        /\ \E d \in Content : Migrated(deploy.prior, d)
        /\ \A p \in Place : dir'[p]["database"] = "new" => dir[p]["database"] = "new"
        /\ \A p \in Place \ {"live"} : dir'[p] = dir[p]
    BY <1>5, <2>1, ServeMigrates
  <2>4. /\ schema["old"] > 0 => schema'["old"] > 0
        /\ \A b \in Commit : deploy.prior <= b /\ (\A e \in Content : schema[e] <= Schema[b]) =>
             \A e \in Content : schema'[e] <= Schema[b]
    BY <1>5, <2>3, MigratedParts
  <2>5. IInv'
    BY <1>1, <1>3, <1>5, <1>17, <2>1, <2>2, RestartKeepsRestore
  <2>6. DeployTypeOK'
    BY <1>8, <1>14, <2>1, <2>3, DeployTypesNext
  <2>7. Serving'
    <3>1. deploy'.outcome # "deployed" /\ deploy'.at \notin AfterSmoke
      BY <1>8 DEF AfterSmoke, Reports
    <3> QED BY <2>2, <3>1, Zenon DEF Serving
  <2>8. failures' = 0 => CaddyKept'
    BY <1>15, <1>16, <1>17
  <2>9. Commits'
    <3>1. \A e \in Content : schema'[e] <= Schema[main]
      BY <1>5, <1>10, <1>11, <2>4
    <3>2. deploy'.commit <= main'
      BY <1>1, <1>8, <1>10 DEF SameDeploy
    <3> QED BY <1>1, <1>9, <1>10, <2>1, <3>1, <3>2 DEF Commits
  <2>10. Saves'
    <3>1. dir'["stage"] = dir["stage"]
      BY <2>3 DEF Place
    <3>2. schema["old"] > 0
      BY <1>4 DEF Saves
    <3>3. schema'["old"] > 0
      BY <2>4, <3>2
    <3>4. deploy'.at \notin Saved
      BY <1>9
    <3>5. (script \in {"verifying", "refused"} \/ (script = "restoring" /\ command = NoCommand)) =>
            dir["stage"] = Nothing
      BY <1>4 DEF Saves
    <3> QED BY <1>1, <3>1, <3>3, <3>4, <3>5 DEF Saves
  <2>11. RollbackFailsByMigration'
    <3>0. ~(Schema[deploy.prior] < Schema[deploy.commit]) =>
            Schema[deploy.prior] >= Schema[deploy.commit]
      <4>1. Schema[deploy.prior] \in Nat /\ Schema[deploy.commit] \in Nat
        BY <1>5, Numbers
      <4> QED BY <4>1
    <3>1. SUFFICES ASSUME Schema[deploy.prior] >= Schema[deploy.commit],
                          deploy.prior \notin Broken
                   PROVE  deploy'.outcome = "rolled back"
      <4>1. deploy'.prior = deploy.prior /\ deploy'.commit = deploy.commit
        BY <1>8 DEF SameDeploy
      <4>2. "rolled back" # "rollback failed"
        OBVIOUS
      <4> QED BY <3>0, <4>1, <4>2, Zenon DEF RollbackFailsByMigration
    <3> DEFINE e == dir'["live"]["database"]
    <3>2. schema'[e] = Schema[deploy.prior]
      <4>1. LiveData \in Content /\ Schema[deploy.prior] \in Nat /\ Schema[deploy.commit] \in Nat
        BY <1>5, Numbers DEF LiveData, Place, File
      <4>2. PICK d \in Content : Migrated(deploy.prior, d)
        BY <2>3
      <4>3. schema[LiveData] \in Nat /\ schema[LiveData] <= Schema[deploy.commit]
        BY <1>10, <1>11, <4>1
      <4>4. Schema[deploy.prior] >= Schema[deploy.commit]
        BY <3>1
      <4>5. schema[LiveData] <= Schema[deploy.prior]
        BY <4>1, <4>3, <4>4
      <4>6. ~(schema[LiveData] > Schema[deploy.prior])
        BY <4>1, <4>3, <4>5
      <4>7. d = LiveData /\ schema'[d] = schema[d] /\ schema[d] > Schema[deploy.prior] => FALSE
        BY <4>6
      <4>8. e = d /\ deploy.prior \notin Broken
        BY <3>1, <4>2, Zenon DEF Migrated
      <4> QED BY <4>2, <4>7, <4>8, Zenon DEF Migrated
    <3>3. IsUp
      BY <2>1, <3>1, <3>2 DEF IsUp, Ready
    <3>4. Ends("rolled back")
      BY <1>17, <3>3, Zenon
    <3>5. "rolled back" \in Outcome
      BY DEF Outcome
    <3> QED BY <1>5, <3>4, <3>5, EndsWith
  <2> QED BY <1>12, <1>13, <2>5, <2>6, <2>7, <2>8, <2>9, <2>10, <2>11, Zenon DEF DInv
<1>18. CASE /\ failures < MaxFailures /\ failures' = failures + 1
            /\ host' = h
            /\ Ends("rollback failed")
            /\ UpFails
  <2>1. web' = web \/ (web' = FALSE /\ script \in Settled)
    BY <1>3, <1>18, Zenon DEF UpFails
  <2>2. dir' = dir /\ schema' = schema /\ host' = h
    BY <1>18 DEF UpFails
  <2>3. failures' \in 0..MaxFailures /\ failures' >= failures /\ failures' # 0
    <3>1. failures \in 0..MaxFailures /\ MaxFailures \in Nat
      BY SameCounts, RestoreAssumption
    <3>2. failures' = failures + 1 /\ failures < MaxFailures
      BY <1>18
    <3> QED BY <3>1, <3>2
  <2>4. "rollback failed" \in Outcome
    BY DEF Outcome
  <2>5. deploy'.outcome = "rollback failed"
    BY <1>5, <1>18, <2>4, EndsWith
  <2>6. IInv'
    BY <1>1, <1>5, <2>1, <2>2, <2>3, OnlyCounts, SameCounts
  <2>7. DeployTypeOK'
    BY <1>5, <1>6, <1>8, <1>14, <2>2, DeployTypesNext
  <2>8. Serving'
    BY <1>9, <2>5 DEF Serving, Operator, Saved, Served
  <2>9. Commits'
    <3>1. deploy'.commit <= main'
      BY <1>1, <1>8, <1>10 DEF SameDeploy
    <3> QED BY <1>1, <1>6, <1>9, <1>10, <1>11, <2>2, <3>1 DEF Commits
  <2>10. Saves'
    <3>1. deploy'.at \notin Saved
      BY <1>9
    <3> QED BY <1>1, <1>4, <2>2, <3>1 DEF Saves
  <2>11. RollbackFailsByMigration'
    BY <2>3 DEF RollbackFailsByMigration
  <2> QED BY <1>12, <1>13, <2>3, <2>6, <2>7, <2>8, <2>9, <2>10, <2>11, Zenon DEF DInv
<1> QED BY <1>2, <1>17, <1>18
-----------------------------------------------------------------------------
(* The specification *)

LEMMA DeployStarts == DeployInit => DInv
<1> SUFFICES ASSUME DeployInit PROVE DInv
  OBVIOUS
<1>1. /\ main = 1 /\ passed = {1}
      /\ deploy = [at |-> "idle", target |-> 1, commit |-> 1, prior |-> 1, archive |-> 0,
                   caddyBackup |-> FALSE, bind |-> "public", outcome |-> "none", number |-> 0]
      /\ host = [head |-> 1, image |-> 1, container |-> 1, overlay |-> TRUE,
                 bound |-> "public", open |-> TRUE]
      /\ schema = [c \in Content |-> Schema[1]]
      /\ before = caddy
  BY Zenon DEF DeployInit
<1>2. IInv
  BY InitIsInv, Zenon DEF DeployInit
<1>3. /\ 1 \in Commit /\ 1 \in Nat /\ Schema[1] \in Nat /\ Schema[1] > 0
      /\ deploy.at = "idle" /\ deploy.outcome = "none" /\ deploy.commit = 1 /\ deploy.prior = 1
      /\ host.head = 1 /\ host.image = 1
      /\ script = "verifying" /\ dir["stage"] = Nothing
  <2>1. 1 \in Commit /\ Schema[1] \in Nat /\ Schema[1] > 0
    BY Numbers
  <2>2. script = "verifying" /\ dir["stage"] = Nothing
    BY DEF DeployInit, Init, Place
  <2>3. /\ deploy.at = "idle" /\ deploy.outcome = "none" /\ deploy.commit = 1 /\ deploy.prior = 1
        /\ host.head = 1 /\ host.image = 1
    BY <1>1
  <2> QED BY <2>1, <2>2, <2>3
<1>4. deploy.at \in Operator /\ deploy.at \notin Saved \cup {"built"}
  BY <1>3 DEF Operator, Saved, Served, AfterSmoke
<1>5. caddy \in CaddyState /\ (caddy.file = "plain" => caddy = Plain)
  BY DEF DeployInit, CaddyState, Plain
<1>6. DeployTypeOK
  <2>1. deploy \in DeployState
    <3>1. "idle" \in DeployStep /\ "none" \in Outcome /\ 0 \in Nat
      BY DEF DeployStep, Outcome
    <3> QED BY <1>1, <1>3, <3>1, Zenon DEF DeployState
  <2>2. host \in HostState
    BY <1>1, <1>3 DEF HostState
  <2>3. dns \in [records : Nat, right : BOOLEAN]
    <3>1. 0 \in Nat /\ 1 \in Nat /\ TRUE \in BOOLEAN /\ FALSE \in BOOLEAN
      OBVIOUS
    <3>2. \/ dns = [records |-> 0, right |-> FALSE]
          \/ dns = [records |-> 1, right |-> FALSE]
          \/ dns = [records |-> 1, right |-> TRUE]
      BY Zenon DEF DeployInit
    <3>3. PICK n \in Nat, right \in BOOLEAN : dns = [records |-> n, right |-> right]
      BY <3>1, <3>2, Zenon
    <3> QED BY <3>3, Zenon
  <2>4. schema \in [Content -> Nat]
    BY <1>1, <1>3
  <2>5. BackedUp
    BY <1>4 DEF BackedUp
  <2>6. main \in Commit /\ passed \subseteq 1..main
    BY <1>1, <1>3
  <2> QED BY <1>1, <1>5, <2>1, <2>2, <2>3, <2>4, <2>5, <2>6, DeployTypes
<1>7. Steps
  BY <1>3 DEF Steps
<1>8. Serving
  BY <1>3 DEF Serving, At, AfterSmoke
<1>9. OneDnsRecord
  BY DEF DeployInit, OneDnsRecord
<1>10. CaddyKept
  BY <1>1, <1>4, <1>5
     DEF CaddyKept, Operator, Saved, Served, AfterSmoke, Unpatched
<1>11. Commits
  <2>1. Newest = 1
    BY <1>1, <1>4 DEF Newest
  <2>2. \A d \in Content : schema[d] <= Schema[1]
    BY <1>1, <1>3
  <2> QED BY <1>1, <1>3, <1>4, <2>1, <2>2 DEF Commits
<1>12. Saves
  <2>1. schema["old"] > 0
    BY <1>1, <1>3 DEF Content
  <2> QED BY <1>3, <1>4, <2>1 DEF Saves
<1>13. RollbackFailsByMigration
  BY <1>3 DEF RollbackFailsByMigration
<1> QED BY <1>2, <1>6, <1>7, <1>8, <1>9, <1>10, <1>11, <1>12, <1>13, Zenon DEF DInv

LEMMA DeployStutters == ASSUME DInv, UNCHANGED deployVars PROVE DInv'
<1>1. Outside /\ main' = main /\ passed' = passed /\ dns' = dns
  BY DEF Outside, deployVars
<1>2. web' = web
  BY DEF deployVars
<1>3. main' \in Commit /\ main <= main' /\ passed' \subseteq 1..main'
  <2>1. main \in Nat
    BY Kinds, Numbers
  <2> QED BY <1>1, <2>1, Kinds
<1>4. dns' \in [records : Nat, right : BOOLEAN] /\ OneDnsRecord'
  BY <1>1, Kinds DEF DInv, OneDnsRecord
<1> QED BY <1>1, <1>2, <1>3, <1>4, OutsideKeeps

LEMMA DeploySteps == DInv /\ [DeployNext]_deployVars => DInv'
<1> SUFFICES ASSUME DInv, [DeployNext]_deployVars PROVE DInv'
  OBVIOUS
<1>1. CASE Push
  BY <1>1, StepPush
<1>2. CASE \E c \in Commit : PassChecks(c)
  BY <1>2, StepPassChecks
<1>3. CASE Resolve
  BY <1>3, StepResolve
<1>4. CASE CheckCi
  BY <1>4, StepCheckCi
<1>5. CASE EnsureDns
  BY <1>5, StepEnsureDns
<1>6. CASE Checkout
  BY <1>6, StepCheckout
<1>7. CASE Build
  BY <1>7, StepBuild
<1>8. CASE Backup
  BY <1>8, StepBackup
<1>9. CASE Replace
  BY <1>9, StepReplace
<1>10. CASE PatchCaddy
  BY <1>10, StepPatchCaddy
<1>11. CASE ReloadCaddy
  BY <1>11, StepReloadCaddy
<1>12. CASE KeepCaddy
  BY <1>12, StepKeepCaddy
<1>13. CASE Smoke
  BY <1>13, StepSmoke
<1>14. CASE Rebind
  BY <1>14, StepRebind
<1>15. CASE Gate
  BY <1>15, StepGate
<1>16. CASE ClosePort
  BY <1>16, StepClosePort
<1>17. CASE FinalCheck
  BY <1>17, StepFinalCheck
<1>18. CASE StepFails
  BY <1>18, StepStepFails
<1>19. CASE Abort
  BY <1>19, StepAbort
<1>20. CASE Rollback
  BY <1>20, StepRollback
<1>21. CASE RestoreStep
  BY <1>21, StepRestoreStep
<1>22. CASE RestoreStarts
  BY <1>22, StepRestoreStarts
<1>23. CASE RestoreEnds
  BY <1>23, StepRestoreEnds
<1>24. CASE Reset
  BY <1>24, StepReset
<1>25. CASE RestoreBeside
  BY <1>25, StepRestoreBeside
<1>26. CASE UNCHANGED deployVars
  BY <1>26, DeployStutters
<1> QED BY <1>1, <1>2, <1>3, <1>4, <1>5, <1>6, <1>7, <1>8, <1>9, <1>10, <1>11, <1>12, <1>13,
           <1>14, <1>15, <1>16, <1>17, <1>18, <1>19, <1>20, <1>21, <1>22, <1>23, <1>24, <1>25,
           <1>26, Zenon DEF DeployNext

\* The inductive invariant holds of every deployment.
THEOREM DeployInvariant == DeploySpec => []DInv
BY DeployStarts, DeploySteps, PTL DEF DeploySpec

\* Every variable of a deployment has its type, and there is an archive whenever
\* the container has been, or is being, replaced.
THEOREM DeployTypeCorrect == DeploySpec => []DeployTypeOK
<1>1. DInv => DeployTypeOK
  BY DEF DInv
<1> QED BY <1>1, DeployInvariant, PTL

\* A rollback without a failed command fails only if the failed commit had a
\* migration, or the prior one never became ready.
THEOREM FailureIsMigration == DeploySpec => []RollbackFailsByMigration
<1>1. DInv => RollbackFailsByMigration
  BY DEF DInv
<1> QED BY <1>1, DeployInvariant, PTL

\* From the smoke test on the application can be reached through the proxy.
THEOREM StaysReachable == DeploySpec => []ReachableAfterSmoke
<1>1. DInv => ReachableAfterSmoke
  <2> SUFFICES ASSUME DInv PROVE ReachableAfterSmoke
    OBVIOUS
  <2>1. Serving
    BY DEF DInv
  <2> QED BY <2>1, Zenon DEF Serving, ReachableAfterSmoke, At, AfterSmoke
<1> QED BY <1>1, DeployInvariant, PTL

\* A deployment that does not succeed leaves the shared proxy as it found it.
THEOREM ProxyIsKept == DeploySpec => []FailedDeployKeepsCaddy
<1>1. DInv => FailedDeployKeepsCaddy
  <2> SUFFICES ASSUME DInv, deploy.outcome \in {"stopped", "rolled back", "rollback failed"},
                      failures = 0
               PROVE  caddy = before
    BY Zenon DEF FailedDeployKeepsCaddy
  <2>1. CaddyKept /\ Steps
    BY Zenon DEF DInv
  <2>2. deploy.outcome # "none"
    OBVIOUS
  <2>3. At("idle")
    BY <2>1, <2>2, Zenon DEF Steps, At
  <2> QED BY <2>1, <2>3, Zenon DEF CaddyKept
<1> QED BY <1>1, DeployInvariant, PTL

\* However often it is run, and whatever response is lost, there is one record.
THEOREM DnsIsNotDuplicated == DeploySpec => []OneDnsRecord
<1>1. DInv => OneDnsRecord
  BY DEF DInv
<1> QED BY <1>1, DeployInvariant, PTL

\* What is reported as deployed or as rolled back runs on the proxy's network.
THEOREM DoneOnProxyNetwork == DeploySpec => []DoneIsOnProxyNetwork
<1>1. DInv => DoneIsOnProxyNetwork
  <2> SUFFICES ASSUME DInv PROVE DoneIsOnProxyNetwork
    OBVIOUS
  <2>1. Serving
    BY DEF DInv
  <2> QED BY <2>1, Zenon DEF Serving, DoneIsOnProxyNetwork, ProxyServes
<1> QED BY <1>1, DeployInvariant, PTL
-----------------------------------------------------------------------------
(* Migrations *)

\* Data that is being served is changed only if the backup has its revision.
BackedUpBefore ==
  \A d \in {"old", "new"} :
    LiveData = d /\ schema'[d] # schema[d] => deploy.archive = schema[d]

\* A container of an image that is not newer than the current one starts.
LEMMA MigratesBackedUp ==
  ASSUME DInv, deploy.at \in Saved, NEW c \in Commit, c <= host.image, Migrate(c),
         dir' = [dir EXCEPT !["live"] = Started(dir["live"])]
  PROVE  BackedUpBefore
<1>1. /\ IInv /\ schema \in [Content -> Nat] /\ host.image \in Commit
      /\ dir \in [Place -> [File -> Content]]
  BY Kinds, TypeParts
<1>2. schema' \in [Content -> Nat] /\ \E d \in Content : Migrated(c, d)
  BY <1>1, ServeMigrates
<1>3. \A e \in {"old", "new"} :
        schema'[e] = schema[e]
          \/ (LiveData = e /\ schema[e] < Schema[c] /\ schema'[e] = Schema[c])
  BY <1>1, <1>2, MigratedParts
<1>4. Schema[c] \in Nat /\ Schema[host.image] \in Nat /\ Schema[c] <= Schema[host.image]
  BY <1>1, Numbers
<1>5. Paired("old") /\ (Extracted => Paired("new"))
  BY DEF DInv, Saves
<1>6. LiveData = "new" => Extracted
  BY DEF LiveData, Extracted, Place
<1>7. SUFFICES ASSUME NEW d \in {"old", "new"}, LiveData = d, schema'[d] # schema[d]
               PROVE  deploy.archive = schema[d]
  BY DEF BackedUpBefore
<1>8. schema[d] < Schema[c] /\ schema[d] \in Nat
  BY <1>1, <1>3, <1>7 DEF Content
<1>9. Paired(d)
  BY <1>5, <1>6, <1>7
<1> QED BY <1>4, <1>8, <1>9 DEF Paired

LEMMA SameSchema == ASSUME schema' = schema PROVE BackedUpBefore
BY DEF BackedUpBefore

\* restore-vps.sh extracts the database of the archive while the old one is still
\* in place; no other of its steps fills the stage.
LEMMA ExtractsBeside ==
  ASSUME DInv, RestoreStep, dir["stage"] = Nothing, dir'["stage"] = Archived
  PROVE  LiveData = "old"
<1>1. IInv /\ dir \in [Place -> [File -> Content]] /\ "stage" \in Place /\ "live" \in Place
      /\ "stage" # "live"
  BY Kinds, TypeParts DEF Place
<1>2. /\ "database" \in File /\ "images" \in File /\ "database" # "images"
      /\ dir["stage"]["database"] = "none" /\ dir["stage"]["images"] = "none"
      /\ dir'["stage"]["database"] = "new" /\ dir'["stage"]["images"] = "new"
  BY DEF File, Nothing, Archived
<1>3. dir'["stage"] # dir["stage"] /\ dir'["stage"] # Nothing
  BY <1>2 DEF Nothing
<1>4. \/ RefuseArchive \/ BeginRollback \/ FailEarly \/ Healthy \/ Kill
      \/ StopForRestore \/ StopForRollback \/ BeginRestore
      \/ Rename \/ Fail \/ Finish \/ Raise
  BY Zenon DEF RestoreStep
<1>5. ~(RefuseArchive \/ BeginRollback \/ FailEarly \/ Healthy \/ Kill)
  BY <1>3 DEF RefuseArchive, BeginRollback, FailEarly, Healthy, Kill
<1>6. ~(StopForRestore \/ StopForRollback)
  BY <1>1, <1>3 DEF StopForRestore, StopForRollback
<1>7. ~(Fail \/ Raise)
  <2>1. Fail \/ Raise => dir' = dir \/ dir' = [dir EXCEPT !["stage"] = Nothing]
    BY Zenon DEF Fail, Raise
  <2> QED BY <1>1, <1>3, <2>1
<1>8. ~Finish
  BY <1>1, <1>3 DEF Finish
<1>9. ~Rename
  <2>1. SUFFICES ASSUME Rename PROVE FALSE
    OBVIOUS
  <2> DEFINE m == NextMove
  <2>2. dir' = Renamed(m) \/ dir' = dir
    BY <2>1 DEF Rename
  <2>3. PICK from \in Place, to \in Place : from # to /\ Moves(m, from, to)
    <3>1. ~Through /\ command.name # "none"
      BY <2>1 DEF Rename
    <3> QED BY <1>1, <3>1, NextIsMove
  <2> HIDE DEF m
  <2>4. dir' = Renamed(m)
    BY <1>3, <2>2
  <2>5. \A p \in Place, f \in File :
          Renamed(m)[p][f] = IF f = m.file /\ p = to THEN dir[from][f]
                             ELSE IF f = m.file /\ p = from THEN "none" ELSE dir[p][f]
    BY <1>1, <2>3, RenamedFiles
  <2>6. \A f \in File : f # m.file => dir'["stage"][f] = dir["stage"][f]
    BY <1>1, <2>4, <2>5
  <2> QED BY <1>2, <2>6
<1>10. BeginRestore
  BY <1>4, <1>5, <1>6, <1>7, <1>8, <1>9, Zenon
<1>11. script = "restoring" /\ command.name = "none"
  BY <1>10 DEF BeginRestore, NoCommand
<1>12. dir["live"] = old
  BY <1>1, <1>11, WhoRuns DEF IInv, Files
<1>13. old["database"] = "old"
  <2>1. \A f \in Durable : old[f] = "old"
    BY <1>1, Zenon DEF IInv, OldFiles
  <2> QED BY <2>1 DEF Durable
<1> QED BY <1>12, <1>13 DEF LiveData

LEMMA StepsBackedUp == DInv /\ [DeployNext]_deployVars => BackedUpBefore
<1> SUFFICES ASSUME DInv, [DeployNext]_deployVars PROVE BackedUpBefore
  OBVIOUS
<1>1. /\ Commits /\ host \in HostState /\ deploy.bind \in Bind
      /\ host.head \in Commit /\ host.image \in Commit /\ deploy.prior \in Commit
  <2>1. Commits
    BY DEF DInv
  <2>2. deploy.bind \in Bind
    BY Kinds, Zenon DEF DeployState, Bind
  <2> QED BY <2>1, <2>2, Kinds
<1>2. \A c \in Commit : c <= c
  BY Numbers
<1>3. ASSUME NEW bound \in Bind, ComposeUp(host, bound), deploy.at \in {"saved", "smoked"}
      PROVE  BackedUpBefore
  <2>1. Migrate(host.head) /\ dir' = [dir EXCEPT !["live"] = Started(dir["live"])]
    BY <1>1, <1>3, ComposedHost
  <2>2. deploy.at \in Saved /\ deploy.at \notin Operator
    BY <1>3 DEF Saved, Served, AfterSmoke, Operator
  <2>3. host.head = host.image
    BY <1>1, <2>2 DEF Commits
  <2> QED BY <1>1, <1>2, <2>1, <2>2, <2>3, MigratesBackedUp
<1>4. CASE Replace
  <2>1. deploy.at = "saved"
    BY <1>4 DEF Replace, At
  <2>2. ComposeUp(host, deploy.bind) \/ schema' = schema
    BY <1>4, Zenon DEF Replace, UpFails
  <2> QED BY <1>1, <1>3, <2>1, <2>2, SameSchema
<1>5. CASE Rebind
  <2>1. deploy.at = "smoked"
    BY <1>5, Zenon DEF Rebind, At
  <2>2. ComposeUp(host, "loopback") \/ schema' = schema
    BY <1>5, Zenon DEF Rebind, UpFails
  <2>3. "loopback" \in Bind
    BY DEF Bind
  <2> QED BY <1>3, <2>1, <2>2, <2>3, SameSchema
<1>6. CASE RestoreStarts
  <2>1. deploy.at \in Saved
    BY <1>6 DEF RestoreStarts, At, Saved
  <2>2. CASE Serve(host, FALSE, deploy.bind)
    <3>1. FALSE \in BOOLEAN
      OBVIOUS
    <3>2. Migrate(host.image) /\ dir' = [dir EXCEPT !["live"] = Started(dir["live"])]
      BY <1>1, <2>2, <3>1, ServedHost, Zenon
    <3> QED BY <1>1, <1>2, <2>1, <3>2, MigratesBackedUp
  <2> QED BY <1>6, <2>2, SameSchema, Zenon DEF RestoreStarts
<1>7. CASE Reset
  <2> DEFINE h == [host EXCEPT !.head = deploy.prior]
  <2>1. deploy.at = "resetting" /\ (ComposeUp(h, deploy.bind) \/ schema' = schema)
    BY <1>7, Zenon DEF Reset, ResetTo, At, UpFails
  <2>2. h \in HostState /\ h.head = deploy.prior
    BY <1>1, Zenon DEF HostState
  <2> HIDE DEF h
  <2>3. CASE ComposeUp(h, deploy.bind)
    <3>1. Migrate(deploy.prior) /\ dir' = [dir EXCEPT !["live"] = Started(dir["live"])]
      BY <1>1, <2>2, <2>3, ComposedHost
    <3>2. deploy.at \in Saved /\ deploy.at \notin Operator
      BY <2>1 DEF Saved, Operator
    <3>3. deploy.prior <= host.image
      BY <1>1, <3>2 DEF Commits
    <3> QED BY <1>1, <3>1, <3>2, <3>3, MigratesBackedUp
  <2> QED BY <2>1, <2>3, SameSchema
<1>8. CASE RestoreStep
  <2>1. CASE dir["stage"] = Nothing /\ dir'["stage"] = Archived
    <3>1. LiveData = "old"
      BY <1>8, <2>1, ExtractsBeside
    <3>2. schema' = [schema EXCEPT !["new"] = deploy.archive]
      BY <1>8, <2>1 DEF RestoreStep
    <3>3. schema'["old"] = schema["old"]
      BY <3>2, Kinds DEF Content
    <3> QED BY <3>1, <3>3 DEF BackedUpBefore
  <2>2. CASE ~(dir["stage"] = Nothing /\ dir'["stage"] = Archived)
    BY <1>8, <2>2, SameSchema DEF RestoreStep
  <2> QED BY <2>1, <2>2
<1>9. CASE \/ Push \/ \E c \in Commit : PassChecks(c)
           \/ Resolve \/ CheckCi \/ EnsureDns \/ Checkout \/ Build \/ Backup
  BY <1>9, SameSchema DEF Push, PassChecks, Resolve, CheckCi, EnsureDns, Checkout, Build, Backup
<1>10. CASE PatchCaddy \/ ReloadCaddy \/ KeepCaddy \/ Smoke \/ Gate \/ ClosePort
            \/ FinalCheck \/ StepFails \/ Abort \/ Rollback \/ RestoreEnds
  BY <1>10, SameSchema DEF PatchCaddy, ReloadCaddy, KeepCaddy, Smoke, Gate, ClosePort,
     FinalCheck, StepFails, Abort, Rollback, RestoreEnds
<1>11. CASE RestoreBeside
  <2>1. ASSUME NEW d \in {"old", "new"} PROVE schema'[d] = schema[d]
    BY <1>11, Kinds DEF RestoreBeside, Content
  <2> QED BY <2>1 DEF BackedUpBefore
<1>12. CASE UNCHANGED deployVars
  BY <1>12, SameSchema DEF deployVars
<1> QED BY <1>4, <1>5, <1>6, <1>7, <1>8, <1>9, <1>10, <1>11, <1>12, Zenon DEF DeployNext

\* No container migrates the data that it serves unless the paired backup has the
\* revision that they had: not the one of the rollback, which starts the image of
\* the failed commit once more, nor the one of the prior commit.
THEOREM MigratesOnlyBackedUp == DeploySpec => MigrationsFollowBackups
<1>1. DInv /\ [DeployNext]_deployVars =>
        [\A d \in {"old", "new"} :
           LiveData = d /\ schema'[d] # schema[d] => deploy.archive = schema[d]]_deployVars
  BY StepsBackedUp DEF BackedUpBefore
<1> QED BY <1>1, DeployInvariant, PTL DEF DeploySpec, MigrationsFollowBackups
-----------------------------------------------------------------------------
(* Restore.tla within a rollback *)

\* The restore that a rollback runs has every property of one on its own, though
\* between its steps the deployment's rules decide what may happen.
THEOREM RestoreWithinRollback ==
  DeploySpec => []( /\ TypeOK /\ FailedRestoreKeepsOldData /\ OldDataSurvivesRestore
                    /\ RestoredIsWhole /\ RollbackReturnsOldData )
<1>1. DInv => /\ TypeOK /\ FailedRestoreKeepsOldData /\ OldDataSurvivesRestore
              /\ RestoredIsWhole /\ RollbackReturnsOldData
  BY Kinds, InvImplies
<1> QED BY <1>1, DeployInvariant, PTL
=============================================================================
