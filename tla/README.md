# A verification project for pmcluster

pmcluster turns a Docker Swarm into a small platform: a daemon (`pmcluster
serve`) and a command line share one SQLite database, translate application
manifests into compose documents, hand them to `docker stack deploy`, and keep
the platform's own stacks (Traefik, the edge proxy, observability, backup, SSO)
rendered from the same database. A console with a database of its own, a remote
command line and CI systems call the daemon over HTTP; an edge proxy stands in
front of it. The TLA+ modules in this directory model that program's control
logic: what it writes in which store, in which order, and what is left when
another request, a crash or a failing docker call comes in between. Paths below
are relative to `src/pmcluster/internal/` unless they start with `src/`.

## Inventory

### The parts and their state

| Part | State it keeps | Operations | Interacts with |
|---|---|---|---|
| Deploy engine (`stacks/deploy.go`, `store/stacks.go`, `workflow/`) | tables `stacks`, `stack_revisions`; the stack in the Swarm | Deploy, Sync, Rollback, Undeploy | config store (resolves `config()`), backups (pre-deploy), stack deployer |
| Manifest translation (`manifest/`, `refs/`, `src/pmcluster/pkg/dsl`) | none, pure | Parse, Interpolate, Validate, BuildIR, the compose writer | resolver over the config and secret tables |
| Stack deployer and service operations (`cluster/stacks.go`, `services/`, `docker/client.go`) | the services in the Swarm | DeployStack, RemoveStack, prune, ForceUpdateService, restart, exec | docker |
| Webhook receiver (`webhooks/`, `store/webhooks.go`) | tables `webhooks`, `webhook_deliveries` | create, delete, receive | deploy engine |
| Platform update (`cluster/up.go`, `update.go`, `down.go`, `templates.go`, `health.go`) | config rows with `rendered_hash`; install state; Swarm configs, secrets and platform stacks | up, update, down, RenderClusterConfigs, SyncPlatformConfigs | versioned secrets, credentials, certificates, stack deployer |
| Versioned secrets and configs (`cluster/secrets.go`) | Swarm secrets and configs `<base>_vNNN`; settings row with the hash of the current secret | EnsureSecret, EnsureVersionedSecret, EnsureConfig | settings table |
| Certificates (`cluster/sitecert.go`, `hostcerts.go`, `store/sitecerts.go`) | table `site_certs`, two files, two secrets per host | ApplyCert, RemoveCert | platform update |
| Credentials and API keys (`cluster/credentials.go`, `store/credentials.go`, `apikeys/`, `secrets/`) | tables of credentials, users and secrets; Swarm secrets; the services that mount them | Bootstrap, Ensure, Rotate; create and delete a key | docker, console |
| Configs (`store/configs.go`, `configs/`) | `configs`, `config_versions` | create, update, rollback, delete, SetRendered | deploy engine, platform update |
| Cluster settings (`settings/`, `cli/setup.go`, `ui/controllers/settings.go`) | table `cluster_settings` | page, command and wizard, key by key | platform update |
| Backups (`backups/`, `store/backups.go`) | table `backups`, archives on disk | Trigger, discover, prune, Restore | deploy engine, start-up |
| Start-up (`cli/serve.go`, `leader.go`, `join.go`, `registry_replay.go`, `daemon.go`, `store/store.go`) | the database file, its write-ahead log, docker's registry logins | stand by, restore the newest archive, open, replay logins | backups, docker, systemd |
| API and its clients (`server/`, `api/`, `auth/`, `remote/`, `ui/pmapi/`, `ui/controllers/`, `cli/`) | none but rate limiter buckets | routing, authentication, mapError, front-end checks | every service |
| Console accounts (`ui/controllers/auth.go`, `users.go`, `ui/middleware/`, `ui/store/`) | table of users in the console's database; session cookies | sign-in, setup, sign-out, accounts page | |
| Console's connection (`ui/controllers/base.go`, `ui/pmapi/client.go`) | one shared client; stored address and token | load, save, call | API |
| Edge proxy (`edgeproxy/`, `src/pmcluster/cmd/edge`) | token buckets, failure counters, bans, all in memory | one request through the middleware chain | API |
| Usage, networks, preflight, health, telemetry, views, migrations | none of their own | | |

Parts call each other directly. There is no queue and, apart from the mutexes
of the edge proxy and of the console's client and the single SQLite connection of
each process, no lock: a request handled by the daemon, another one handled at
the same time, and a command run on the host all interleave at the granularity of
SQL statements and docker calls. Docker's own versions of services are the only
optimistic control. Little is retried automatically; operators and CI systems retry.

### What is hard, and what makes each part correct

* **Deploy engine.** Requests on one stack overlap; the revision is recorded
  before the Swarm is changed, undeploy changes the Swarm before the record.
  Correct: no request loses or overwrites another's revision; the stack row
  points to a recorded revision; no workload is unknown to the store; a
  reported success runs; a strict backup precedes the deploy.
* **Manifest translation.** References are resolved in several passes. Correct: what
  a container's environment points at is mounted, and no placeholder is left in the fields
  that are interpolated.
* **Stack deployer.** A deployment is a list and a call per service, twice over, while the
  orchestrator and other commands write the same services. Correct: a deployment
  that reports success leaves what its file declares; a call for a service of one
  stack hits no other; a restart brings nothing old back.
* **Platform update.** Rendered hashes decide which stack is redeployed; `up` is a
  dozen steps that persist in several places. Correct: a stack whose
  rendering changed is redeployed, also after a failed run; a success is one.
* **Versioned secrets and configs.** Docker secrets are write-only, so the
  content of a version is known only through a hash kept elsewhere. Correct:
  the version that is returned exists and holds the data asked for, or a reuse says why not.
* **Certificates.** Files, secrets, hashes, rows, the rendered hash and the mounted stack.
  Correct: rows name secrets that exist and hold what was uploaded; what Traefik mounts for
  the cluster is the pair uploaded last; a certificate that is added takes effect.
* **Credentials.** Row, Swarm secret, running service and revealed secret. Correct: a
  rotation that succeeded is used everywhere; the daemon accepts the console's token.
* **Configs, settings, connection.** Reads and writes of forms are far apart. Correct: the
  history is complete; a save changes nothing it was not asked to; a call
  uses the pair that is, or is just being, saved.
* **Webhooks.** Deliveries are repeated, delayed, raced by revocation.
  Correct: only fresh, signed deliveries for a live webhook deploy, each in the
  audit table.
* **API.** Errors travel as a status and words. Correct: what a caller hears
  of its call is true.
* **Backups.** Triggers overlap, archives appear late. Correct: nothing recent is pruned, every
  archive is listed, a run that succeeds has its archive.
* **Start-up.** Correct: a restore never replaces a newer database; the leader ends up serving.
* **Accounts.** A page's guards and its statements are apart. Correct: an administrator
  remains, setup happens once, an edit hits the account it was made for.
* **Edge proxy.** Address, bucket, counter, ban and reset are separate critical sections.
  Correct: limits and bans hold against the genuine address, neither more nor less.

## Modules

| Module | What it is |
|---|---|
| `RevisionLog` | abstract specification of the audit trail: an append-only log per stack with a pointer to a logged revision |
| `Nil` | the value of what does not exist, shared by the modules that one run composes |
| `StackDeploy`, `StackDeployProofs` | the deploy engine over the store and the Swarm, one action per statement or docker call; theorems about it |
| `Manifest` | a manifest on its way to the compose file; theorem in `ConfigRowsProofs` |
| `Workloads` | deployments, removals and calls of the API at the services of the Swarm; theorems in `HostsProofs` |
| `VersionedArtifact`, `VersionedArtifactProofs` | one base name of the versioned Swarm secrets or Docker configs; theorems about it |
| `Platform`, `PlatformProofs` | `cluster up`, `update`, `down` and the certificate commands over the template rows, the rendered hashes and the Swarm; theorems about it |
| `Certificates` | uploads and removals of certificates side by side, over files, secrets, hashes and rows; theorems in `VersionedArtifactProofs` |
| `Credentials` | managed credentials, API keys and the secrets of the database; theorems in `ConsoleProofs` |
| `ConfigRows`, `ConfigRowsProofs` | the operator's configs and their history, as transactions of several processes; theorems about it, `Manifest` and the two below |
| `ClusterSettings` | the settings page, `cluster settings set` and the set-up wizard; theorem in `ConfigRowsProofs` |
| `Connection` | the client every request of the console shares; theorem in `ConfigRowsProofs` |
| `Console`, `ConsoleProofs` | accounts, setup and sessions of the console; theorems about it and about `Credentials` |
| `Webhook`, `WebhookProofs` | the receiver of signed deploy requests; theorems about it and about `ApiPath` |
| `ServiceCall` | abstract specification of a service port: a call acts at most once and at one instant, even if its caller gave up; what is heard of it is true |
| `ApiPath` | a call through front end, client, daemon and service, and its answer back; theorem in `WebhookProofs` |
| `Backups` | triggered runs, the archive directory, the lists that discover and prune, the restore; theorems in `RecoveryProofs` |
| `Failover` | the start of the daemon on the managers of a swarm; theorem in `RecoveryProofs` |
| `EdgeShield` | the edge proxy's middleware; theorems in `HostsProofs` |
| `HostsProofs` | theorems about `Workloads` and `EdgeShield` |
| `RecoveryProofs` | theorems about `Failover` and `Backups` |
| `MC...` | values, symmetry, bounds and combinations for TLC |

The components are independent enough that their product shows nothing their
interleaving would not: `MCHosts`, `MCWebhook`, `MCConsole` and `MCConfigRows`
put several into one run, one of them per behaviour, chosen by `kind` in the
initial state. An MC module extends the components whose properties are theorems,
so that the definition a run checks is the one the theorem states. Where components do interact, one module has the
other's part reduced to what matters: `Platform` folds `VersionedArtifact` into
one step per artifact, `Webhook` the two effects of a deploy, `Certificates` the
update, `Manifest` is one step of `StackDeploy`.

Ghost variables (`chosen`, `solo`, `strayed`, `had`, `touched`, `alone`, `misread`, `settled`,
`whole`, `trust`, `due`, `granted`, `lapse`, `since` in `Webhook`) are read by properties and
bounds only.

### StackDeploy

State: `current` is `stacks.current_revision` (NULL: no row), `revisions` the
rows of `stack_revisions`, `configs` the content of the config row a stack owns,
`swarm` what runs under the stack's name (a rendering, nothing, or `Mixed`: a
half-finished deployment), `backups` the status of the audit row each request
created, `pc`/`req` the step and the local variables of each request's
pipeline, `clock` the wall clock in seconds. `serial`, chosen at the start and never
changed, says whether the callers wait for each other.

| Action | Code |
|---|---|
| `StartDeploy`, `StartSync`, `StartRollback`, `StartUndeploy` | the first read of each operation in `stacks/deploy.go`, with its early return |
| `Compare` | Sync re-renders and compares with the newest revision |
| `Translate` | parse, interpolate, validate, translate |
| `ReadClock`, `Probe`, `RecordDeploy` | the step "Recording revision": `time.Now()`, one SELECT per candidate, one transaction |
| `CreateBackup`, `TriggerBackup` | `runPreDeployBackup` |
| `Apply` | `DeployStack` and `PruneStaleContainers` |
| `RemoveStack`, `DeleteConfigs`, `DeleteRow` | undeploy's pipeline; DeleteStack statement by statement |
| `Crash` | the process dies, the request's context is cancelled, or a database call fails |
| `Tick`, `EditConfig` | the environment |

Abstractions: a manifest is a model value whose membership in `Broken`,
`UsesConfig`, `BackupFirst`, `StrictBackup` says what the pipeline looks at; a
rendering is the pair of the manifest and the config content it used.
`repo_url`, `source_file` and the payload of a revision are left out: nothing
decides on them. So are revisions with an empty `rendered_hash`, which only
rows older than migration of that column have. `DeleteStack`'s statement on the
secrets table has the shape of the one on configs. The clock never goes back.
The limit of 10000 probes is not reached with the bounds below.

`RevisionLog` is what the pipelines promise together: each step either adds one
new revision and points to it, drops a stack with its whole history, or changes
nothing. `LogSpec` is `RevisionLog!Spec` under the mapping `log <- revisions`.

### Manifest

State: `stage` of the manifest under way, `written` as it was, `app` as it is
now, `ir` the intermediate form, `stacks` the file deployed for each app. Actions:
`Parse`, `Interpolate`, `Validate`, `BuildIR` (with `resolveServiceEnv`) and
`WriteCompose`, each with its refusals. A text is a sequence of atoms, literals or
placeholders (no placeholder comes about out of pieces), so that interpolation, which replaces one placeholder after the other
in the order of a Go map over what the earlier ones have left, is modelled by what it does, with every
order (`Substituted`), and the daemon's environment after that (`Getenv`), which refuses a
variable that is not set. All the fields `interpolateService` goes through are: image, command (which
stands for the entrypoint too), environment, volume, host and alias. Whether a value of the
environment is a reference is seen in what it has become (`Refers`, `Malformed`), so that a variable
may bring one in. A service has one entry of each list, and of a volume its source; version and
registry, which are put in as the domain is, fields that are copied as they are, wording and layout
of the file are left out.

`RenderingIsClosed` speaks of placeholders, built in or `${env:VAR}`, in the fields that are
interpolated, and where none is put in: with an environment or a domain that holds a built-in one, or
a variable that holds any, the outcome depends on the order of the map, or the placeholder stays
(`Flat` is the condition; a name that holds one is refused by `Validate`). It does not speak of
the names a service mounts secrets under and of the tests of a health check, which are not
interpolated: theirs are deployed as they are written. A value that is the content of a config is
taken as it is and may hold anything.

### Workloads

State: `services` (full name to stack and specification, the Swarm's), `at`/`job`
per command: what it is to do and what it has read (`know`: fresh, stale or gone,
which is what Swarm's version check tells apart). `Nameable` gives each stack the
full names it can use: two stacks may share one (`shop_eu` + `web`, `shop` + `eu_web`).

| Action | Code |
|---|---|
| `StartDeploy`, `ListServices`, `Apply` | `docker stack deploy` as `cluster/stacks.go` calls it, retried when out of sequence |
| `ListLeft`, `Prune` | `pruneStackServices` |
| `ListForce`, `ForceRead`, `ForcePush`, `EndDeploy` | `forceUpdateStackServices`, `ForceUpdateService` with its retries |
| `StartRemove`, `ListAll`, `Remove` | `RemoveStack` |
| `Resolve`, `Inspect`, `Restart`, `Exec` | `services/local.go`, `docker/client.go` |
| `Reconcile` | the orchestrator writes the service |

### VersionedArtifact

State: `versions[v]` is the payload of `<base>_v<v>` in the Swarm, `hash` the
settings row that says what the current secret holds (secrets cannot be read
back; configs can, and have no such row), `mounted` the versions a deployed
service references, which docker refuses to remove, `pc`/`loc` the step and the
locals of each run. `lapse` remembers that the stored hash need not be that of the newest
version: a run died, or its statement failed, between the two, or a purge took the newest version
away and not the older ones. `HashInStore` chooses between `EnsureVersionedSecret` and
`EnsureConfig`, which have the same shape.

| Action | Code in `cluster/secrets.go`, `cluster/down.go` |
|---|---|
| `Ensure`, `List` | the call and its listing of `<base>_v*`, which yields the highest number |
| `Compare` | the stored hash of a secret, the content of a config; what cannot be read counts as changed |
| `Create` | `docker secret create` under the next number; a taken name fails the call |
| `RecordHash` | `SetSetting` of the new hash |
| `Collect` | the old versions, one removal at a time, errors ignored (`kept`) |
| `Deploy` | the caller deploys the stack that mounts what it was given, or fails before |
| `Purge`, `RemoveStacks`, `WipeList`, `Wipe` | `down --purge` |
| `Crash` | the run dies, or a statement or docker call fails |

A payload is a model value and so is its hash: the code compares SHA-256 sums.

### Platform

State: `template[s]` is the config row `<stack>-stack` with its content and the
build that stamped it, `history` the contents in `config_versions`, `rendered`
what `rendered_hash` is the hash of, `persisted` which parts of the install
state exist, `swarm` what runs, `row` and `secrets` the certificate row of one
host and the versions of its secret, `dynamic` the newest version of Traefik's
dynamic config. `failures` counts the steps that failed.

| Action | Code |
|---|---|
| `StartUp`, `StartUpdate`, `StartDown`, `StartApply`, `StartRemove` | the entry of each command with its early returns (`clusterInstalled`, no such certificate) |
| `StartSetup`, `SetDomain`, `SetTLS` | the wizard on an installed host: `persistSetup`, then update (`cli/setup.go`) |
| `SyncRead`, `SyncWrite` | `SyncClusterConfigs`, one row read and one row written at a time |
| `Bootstrap`, `Load` | the credentials `up` creates, the install state `update` demands; the certificate rows |
| `Configs` | `EnsureConfig` of Traefik's dynamic config, which `VersionedArtifact` has in detail |
| `Plan`, `Store`, `Deploy` | render, compare with the hashes, `SetRendered` row by row, deploy the stacks that differ, rendering once more |
| `Healthy`, `PersistTLS`, `PersistDomain` | the end of `up` |
| `Mint`, `PutRow`, `RemoveSecret` | `ApplyCert`, `RemoveCert`; their refresh is an update that starts at `SyncRead` |
| `RemoveStack` | `Down` |
| `Fail`, `SkipSecret`, `SkipStack` | an error return or a crash before any step; removals whose failure is reported and skipped |
| `Edit`, `RollbackConfig`, `Upgrade` | the console and the installation of a new binary |

Abstractions: a rendering is the template's content and, for the stack of
Traefik, the dynamic config it mounts; host addresses, credentials and the other
values that go into a rendering do not change between runs. One host has a
certificate here; `Certificates` has several and the details. The standalone
templates (the dynamic config among them) are
folded into the stack that mounts them. The order in which stacks are deployed
is left open; a stack is deployed or not, never half (`Workloads` has the halves).
Reads that follow one another with nothing written in between are one step. Rows
are not deleted from the console. Networks, node labels, health polling and the
volumes that a purge removes are left out: nothing modelled depends on them.

### Certificates

State: `files` (the cluster's own certificate and key on disk), `held` the Swarm
secrets, `digests` the settings that say what the newest version holds, `rows` of
`site_certs`, `configs` the versions of Traefik's dynamic config, `recorded` and `deployed` what the
infra stack was last rendered with, by its `rendered_hash`, and what it was last deployed with.

| Action | Code |
|---|---|
| `StartApply`, `StartRemoval` | the entry of `ApplyCert` and `RemoveCert` with their refusals |
| `WriteFile` | for the cluster's own domain: the key file, then the certificate file |
| `MintHost` | for a host: two versioned secrets |
| `LoadRows`, `MintSite`, `RenderConfig` | `Update`: the rows of the hosts, the secrets of the two files, the dynamic config |
| `CompareHash`, `SetRendered`, `DeployTraefik` | the comparison with the stored hash, the new hash in any case, the deployment only where the two differ |
| `PutRow` | the row, last of all |
| `DeleteRow`, `DropSecrets` | a removal: the row, the two secrets it names |
| `CutOff`, `CutInMint` | a command fails or is killed between two steps, or between a secret and its hash |

The infra stack mounts the cluster's own two secrets (`Mounted`, `embeds/infra-stack.yml:99`); the
secrets of hosts are named in the dynamic config only, so that docker removes them whenever it is
asked. `Validate` and `ParseAndCheck` are the precondition that a pair belongs together.

### Credentials

State: `keys` (the table of users, that is API keys), `creds` (rows of
credentials), `secret` (their Swarm secrets), `running` (what the consuming
service was started with), `row` (the database secret of the same name). `Run`
is Bootstrap, Ensure or Rotate, and then one action per statement and call:
`Lookup` (with `RotateCredential`), `MintKey`, `InsertCred`, `SetLogin`,
`RemoveSecret`, `CreateSecret`, `RestartService`, `SyncRow`; `CreateKey`,
`FindKey`, `DeleteKey` are `apikeys`; `AddRow`, `DropRow`, `Deploy`, `TakeDown` the
operator; `Abort` an error or a kill. A password is the number of its minting.

### ConfigRows, ClusterSettings, Connection

`ConfigRows`: `configs` and `config_versions` with SQLite's row ids, which are given
again after the last row is deleted. A process has one connection; transactions
of two processes overlap, and SQLite refuses the first write over a stale snapshot
(`stale`). `Create`, `Delete` are single statements; `BeginEdit`/`Commit` are
`UpdateConfig`, `ListVersions`/`BeginRollback`/`Commit` `RollbackConfig`.

`ClusterSettings`: `rows` per key, what a page has `shown`, what is still to be `sent`.
`Show`, `Read`, `Post` are the page (with `maskClusterSettings`), `Set` the command,
`Answer` the wizard, `Refuse` the allowlist, `Write` one key at a time in the order
of a Go map, `EndUpdate` also when a write fails. A read that fails shows an empty field, or a
box that is not ticked (`GetSettingDefault`), and the form posts it (`misread`). Four keys stand for the thirteen: a
text with a default, a flag that is on by default, a secret, and a key that the form
does not have.

`Connection`: `stored` is what the settings hold, `client` the two fields all requests share.
`Begin`/`Load`/`SetBase`/`SetToken` are `loadParams`, which takes the environment's pair when the
table cannot be read, `CallBase`/`CallToken`/`Return` `Client.do`, `Save`, `SaveBase`, `UseBase`,
`SaveToken`, `UseToken` the settings page, which goes on when a value could not be stored. `due` is
what a page may call with: what was stored when the console was last idle, what saves were told
since, and the environment's value since a read failed.

### Console

State: `users` with AUTOINCREMENT ids, `cookies`, the clock, `envUser`
(`PMCLUSTER_UI_USER`). `Login`, `Logout`, `Restart` (with `bootstrapUsers`), `Enter`
(the gate with the role of the moment), `EnterSetup`, and then the statements:
`Insert`, or `Look` (GetByID and the guards) followed by `Write` (by id).
`Refused` is what the handlers refuse. Requests that are refused change nothing and are left out.

### Webhook

State: `source` is the row of one webhook source (its secret, whether it was ever
used) or NULL, `minted` the secrets it has had, `sent` what the CI system has
signed, `revisions` and `deployed` what the deploys recorded and what reached the
Swarm, `history` the rows of `webhook_deliveries`, `pc`/`loc` the step and the
locals of each request. `sent` never shrinks: the network delivers a signed
request late, several times, or never.

| Action | Code in `webhooks/` |
|---|---|
| `Create`, `Delete` | `Local.Create`, `Local.Delete`; a secret is 32 random bytes, so no two are equal |
| `Sign`, `Tick` | the CI system, whose clock is off by up to `Drift`; time |
| `Receive` | the body is read; an oversized one is refused |
| `ReadClock`, `Verify` | `verifyHMAC`: the timestamp against `time.Now()`, then the secret from the table and the signature |
| `MarkUsed`, `Parse` | `last_used_at`; JSON and provenance |
| `RecordRevision`, `Apply` | the two effects of `Deploy`, which `StackDeploy` has in detail |
| `Record` | the response is written, the delivery is inserted |
| `Cancel`, `StatementFails` | the client goes away or the router's 30 seconds are over; a SQL statement fails |

A signature is the secret that made it.

### ApiPath and ServiceCall

State: the rows of one of eight resources (`res`: configs, secrets, API keys,
webhooks, host certificates, stacks, backups, services), and per caller where its
call is, what the service returned (`err`) and what was `heard`. The tables
(`Checks`, `RemoteMethods`, `PageConfigs`..., `Mounted`, `Refuses`, the `...Reply`
operators, `Mapping`) are the code's: what each front end refuses, the method each
client sends, the routes, what each handler refuses and answers, and the rows of
`mapError` in their order. A message is the set of `mapError`'s words it contains;
a payload has one defect or none. `Ask`, `Limit`, `Unauthorized`, `Decline`, `Serve`,
`Return` and `Lose` are the way; a failure of a service of several steps may come
after its effect. A client gives up after 15 seconds (`ui/config.go:48`) or 30
(`cli/backend.go:33`), which may be before the service acts, and the daemon's `Timeout`
only cancels a context: `GiveUp` leaves the call on its way (`late`), and `ServeLate`
carries it out, or not, while its caller does something else.

`ServiceCall` is what the service interfaces promise: `Open`, `Act` once at one
instant, `Hear` what is true of the result or an error that says nothing, `Close` before
acting, or `Abandon` with the same error, after which `ActLate` may still happen once.
`ImplementsPort` is its specification under a mapping of rows to presence, calls to
their state, and errors to the classes a caller acts on. A row that exists may be heard of as a
protected one (`Truths`): `mapError` looks for its words anywhere in the message, names
included, and both say that the row is there and that nothing was done.

### Backups

State: `disk` is the archive directory (when each file was made, whether its copy
is complete), `used` the names the agents have given out, `rows` the table
`backups` (its ids are never used again), `volume` the archive the volumes were
last restored from, `stuck` the archives whose removal failed, `pc`/`loc` the step
and the locals of each process. `now` counts days.

| Action | Code in `backups/`, `store/backups.go` |
|---|---|
| `CreateBackup`, `Exec`, `ExecEnds`, `ExecFails` | `Local.Trigger` and `runPreDeployBackup`: the pending row, the start of the clock and the checkpoint, `docker exec` and what it printed |
| `Fallback` | `archiveCreatedAfter`, which only `Local.Trigger` calls |
| `Finish`, `FinishFailed` | `FinishBackup`, in the context of the run |
| `ReadDir`, `CheckArchive`, `InsertDiscovered` | `discover` |
| `ListOld`, `RemoveArchive`, `DeleteRow`, `ReturnList` | `prune` and the query |
| `GetBackup`, `Inspect`, `Extract` | `Restore` |
| `Cancel`, `Crash` | the context of a run ends; the process dies |
| `Scheduled`, `Completed`, `AgentPrunes`, `Tick` | the offen agents, as `cluster/embeds/backup-stack.yml` configures them; time |

Abstractions: `archive_paths` holds at most one path. A path the agent prints is
one of its container (`/archive/...`), which is not a path of the host. The
contents of an archive are its name, and a restore puts it into the volumes as far as it goes. `finished_at`, the error message and the stack of a run decide
nothing. `Browse` reads only. A list whose own statements fail is left out: it
skips what it cannot record.

### Failover

State: `home` (each manager's data directory, its own or one on shared storage),
`db` (main file and write-ahead log), `older` (the directories whose main file is older than the newest
archive: all the code compares), `newest` archive, `leader`, and per daemon its
stage and the logins left to do. What the database holds is reduced to the registries.

| Action | Code |
|---|---|
| `Start` | systemd, `Restart=always` |
| `Lead` | `waitForSwarmLeadership`, and its way out when Docker does not answer |
| `Fresh`, `RestoreControlPlane` | `ensureControlPlaneFresh`, `RestoreControlPlane` |
| `Open`, `Login` | `store.Open`, `replayRegistryLogins` |
| `Run`, `Docker`, `CmdRow`, `CmdRestart`, `CmdClose` | `registry add`, `registry remove`, and the restart at the end of `cluster update` |
| `Checkpoint`, `Archive` | `WALCheckpoint` or SQLite's own; the nightly agent |
| `Stop`, `Kill`, `CutOff`, `LoseDisk`, `Elect` | signals, crashes, a replaced disk, an election |

A commit goes to the log; a checkpoint, or the last process to close the
database, changes the main file. A restore is one step.

### EdgeShield

State: `buckets` per limiter and address, `fails`, `until` (bans), `where` (the middleware
each request is in), and what has been `granted`. `Arrive` resolves the address
(`RealIP`; a client may forge the header, Traefik appends its peer), `Block`
is `isBlocked`, `Acquire` the semaphore, `Limit` the token bucket with its eviction,
`Answer` the upstream's answer or the deadline, and `Count`, `Ban`, `Forget` the three critical
sections of `recordFailure`. `DaemonSees` is
`realIPFromTrusted` of the daemon behind it, with the True-Client-IP that the edge passes
on as the client sent it.

## Runs

| Run | Instance | Shows | States |
|---|---|---|---|
| `deploy` | 3 requests of any kind on 1 stack, overlapping or one by one, a plain manifest and one with a strict backup, configs in either; clock up to 2 or 3 | overlapping: `CurrentIsRecorded`, `StrictBackupFirst`, `SwarmIsExplained`, and that the revision log is implemented (`LogSpec`); one by one (`serial`): `StoreIsRight`, `SuccessIsLive` | 2.6 million |
| `deploy_ends` | 2 overlapping requests, one manifest broken, the other with a strict backup, `FairSpec` | `EveryRequestEnds` | 22 thousand |
| `hosts` | the edge, certificates, workloads, a secret or a config, one per behaviour | edge: `GenuineAddress`, `RateIsExact`, `OffendersAreBanned`; certificates: `RowsHoldTheirPair`, `OwnPairServed`; workloads: `DeployedIsWhole`, `CallsHitTheirStack`, `RestartKeepsSpec`; artifacts: `ReturnedHolds`, `OldVersionsCollected` | 2.8 million |
| `platform` | 2 stacks, 2 builds, an operator's edit, runs one after the other, one failure or crash at any step | `SuccessIsReal`, `HashMatchesSwarm`, `EditKept`, `RemovedIsGone` | 5.5 million |
| `webhook` | 2 requests delivering one signed payload of any kind, 2 secrets, skew 1, CI clock off by up to 2, one failure; or 2 callers at 2 rows of one of the eight resources, through page, remote command or local command | `RevokedIsRefused`, `DuplicatesExpire`, `HistoryIsExact`; `ImplementsPort` | 1.8 million |
| `access` | 2 requests at 2 accounts, at most 3 ids, sessions that expire, restarts; or 2 commands at one of three credentials, 3 mintings, API keys for the console's | `SetupOnce`, `EditsHitTheirTarget`, `AdminKept`; `EdgeTokenAccepted`, `RotatedIsUsed` | 0.7 million |
| `config_rows` | 2 processes at 2 configs with 2 contents; a page and a command at the settings; 2 requests at the connection; the manifests of `MCManifest`, two apps | `HistoryComplete`; `UntouchedStays`; `SavedIsUsed`; `RenderingIsClosed` | 1.4 million |
| `backups` | 1 triggered run, 2 listing processes, 1 restore, an archive of the volumes and one of the control plane, retention 1 day, 2 midnights, one failure, cancelled context or crash | `ArchivesAreAccounted`, `RecentKept` | 3.9 million |
| `failover` | 2 managers with own or shared storage, 1 registry, 2 commands, 2 faults, fairness | `CheckpointedIsKept`, `LeaderServes` | 0.7 million |
| `clobber` (violated) | 1 manager, 2 commands, no fault | `CurrentIsKept` | |
| `added_serves` (violated) | 1 command at a time, for one host or the own domain | `AddedTakesEffect` | |
| `update_applies` (violated) | 1 build, 1 failure | `UpdateRecovers` | |

Several properties of a run are conjunctions of named parts, all of one subject:
`StoreIsRight` is `LatestIsCurrent` and `NoOrphanStack`, `RateIsExact`
is `RateHolds` and `ThrottledIsSpent`, `SuccessIsReal` is `UpdateApplies` and `UpInstalls`,
`HistoryIsExact` is `HistoryIsTrue` and `EveryRequestRecorded`,
`ArchivesAreAccounted` is `RecentRowsRestorable`, `EveryArchiveListed` and
`VolumesHoldData`, `RenderingIsClosed` is `MountedIsDeclared` and
`NothingUnresolved`. The type invariants of the modules that have one hold in the
same instances; they are stated for the reader and for the proofs and are not among
the runs' properties.

### Bounds, and why they are enough

*Deploy.* Three requests are enough for each hazard: two that race for one
revision number, and a third that undeploys or rolls back between them. One
stack is enough because no step reads or writes another stack's rows. The clock
bound of two or three lets two requests see the same second or different ones
and lets the probe count beyond the clock. `Contents` has one or two values, so
that an edited config changes the rendering.

*Hosts.* At the edge a burst of one, a rate of one, a threshold of two and two ticks
let a bucket run dry, refill and be evicted, and let two requests cross the
threshold side by side; four requests are one more than one address needs to be banned
and come back. Three certificate commands on two hosts and the own domain make an
upload, its renewal and a removal overlap two by two, after one that was cut off or beside it; four
versions never run out for them. Two deployments and one call on two stacks whose full names collide, with one
retry, make each conflict Swarm tells apart happen in each step. Runs at a secret or a config
come one at a time, any of them may die and any docker call fail; two payloads and
five versions go to a payload, away from it and back, with purges that restart the
numbering.

*Platform.* A second build ships one changed and one unchanged template, and two
versions of the dynamic config and of the host secret let a certificate be added,
renewed or removed once after the other; two stacks suffice because a stack is
treated alike whatever the others are, but for Traefik's mount and the exception
that `down` makes for SSO. One failure is enough to reach every half-done state
from every other.

*Webhook, API.* Two requests are the first delivery and its duplicate; the payload
is good, oversized, malformed or invalid. A CI clock that may be off by more than
the skew and a clock that runs past the window let a duplicate come too late on
either side, and a removal and a new secret fall between any two steps. Two callers
suffice at the API: a call meets the rows as any number of others left them; of the calls on their way
at once, which are two (`MaxCalls`), any may be one whose caller gave up. Each of the two names
holds words `mapError` looks for, those of a protected key among them.

*Access.* Two requests are the most whose steps a property speaks of; three ids
let an account be removed and its name created again, so that a late statement meets
another row. Three mintings are a password, its replacement and one more that
races it.

*Config rows.* Two processes, for SQLite admits one writer; four row ids let the last be
deleted and given again. The settings need one save and the reads of one page, which the
command overlaps; one read of a page fails (`MaxMisread`). The manifests vary one field at a time and, for what
is declared, the mounts of two services together.

*Backups.* At most two processes are busy at a time (`TwoBusy`), so that every
pair of them interleaves at every step; after a restore has ended none is started, for
nothing reads the volumes. One day of retention and two midnights
make an archive recent, about to expire and expired. The second archive can be
taken for that of the run, and is one a restore must refuse. `MaxRun` says
that a run spans at most one midnight: the router and the CLI bound it by minutes.

*Failover.* Two managers: one leads, one stands by; two faults are an
election and a crash, or a lost disk and an election. One registry is one thing
the database can lose; two commands add it and remove it or restart.

`CHECK_DEADLOCK FALSE`: in `StackDeploy` each request is submitted once, so the
system stops when all have ended and the clock has reached its bound. In the
other modules a run that would exceed one of the bounds on versions, ids, mintings,
commands, requests or time stops there.

### What holds only under a condition

`StoreIsRight` (`NoOrphanStack`, `LatestIsCurrent`) and `SuccessIsLive` are stated for
serial submission only (`serial`): with overlapping requests they do not hold, and nothing in the
code says they should. An undeploy that removes the Swarm stack just before
another request applies it leaves a workload without a row; a slow request that
read the clock early may record a smaller number after a larger one.
`SwarmIsExplained` is what remains true under overlap.

`OldVersionsCollected` and `ReturnedHolds` are checked for one run at a time, which may die anywhere:
two overlapping runs may store their hashes in the other order than their versions, and a run
beside another mints the version the other does not collect. After a `lapse`, a death
between `docker secret create` and the write of the hash or a purge that takes the newest version and not the
older ones, a call may reuse a secret that holds other bytes; `ReturnedHolds` says that nothing else makes
it do so, and that a version that was minted holds what it was minted for. A version whose
removal docker refuses is reported by nobody; `OldVersionsCollected` leaves it out (`kept`).

`UpdateApplies` and `HashMatchesSwarm` say nothing of stacks that do not run,
because `down` keeps the hashes and no document says what an update after it
does; they and `RemovedIsGone` hold as long as nothing has failed (`failures = 0`),
`update_applies` is what happens after.

`SetupOnce` and `AdminKept` hold as long as no two requests that change accounts
overlap (`solo`): the table has no guard of its own, and two administrators can remove each
other. `RotatedIsUsed` speaks of a rotation beside which no other command on that
credential ran; `DeployedIsWhole` of a deployment nothing rivalled; `UntouchedStays` of a save no
other save overlaps, and of settings the page could read. `SavedIsUsed` leaves a page the
environment's pair when a read of the console's table failed, its own or that of a request beside it.

`RowsHoldTheirPair` and `OwnPairServed` speak of a command that ran alone for its domain (and, for
the cluster's own, alone altogether) and found nothing left behind: the stored hashes were those of the
newest secrets and the stored rendering that of the deployment (`Whole`). Otherwise an upload may be
answered with a version that holds something else, and an update after one that was cut off between
`SetRendered` and the deployment skips the stack.

`RateHolds` assumes `Burst <= Rate * IdleTTL`, which every default satisfies; an eviction
would otherwise give tokens back. `CheckpointedIsKept` says
nothing of commits that are only in the log; `clobber` does.

### Fairness

`FairSpec` of `StackDeploy` asks that the pipeline of an accepted request keeps taking
steps (`WF_vars(Step(o))`). It runs in a goroutine the Go scheduler runs, every docker
call is bounded by the request's context, and no step waits for another
request. Submissions, edits, crashes and the clock are not fair.

`Fairness` of `Failover` asks the same of the command that runs and of each daemon
(`WF_vars(CmdStep)`, `WF_vars(DaemonStep(n))`): they are processes the
kernel schedules, and systemd starts a daemon that has ended (`Restart=always`).
That Docker answers is part of `DaemonStep`; that it does not (`Lead(n, FALSE)`),
faults, elections and archives are not fair.

## Findings

* `update_applies`: an update stores the rendered hashes before it deploys. When
  the deploy fails, the next update finds nothing changed and reports success, where
  `src/README.md` promises that `cluster update` makes the change reach the Swarm.
* `added_serves`: a certificate that is added for a host does not take effect, where `src/README.md:576`
  says that it does immediately. `ApplyCert` runs the update before it writes the row
  (`cluster/sitecert.go:127`, `:156`), and the update lists what the rows name; once a later update lists
  it, the dynamic config points at files under `/run/secrets` that Traefik's service does not mount
  (`embeds/infra-stack.yml:99`).
* `clobber`: the start compares the modification times of the newest archive and of
  the main database file. Commits stay in the write-ahead log, and the restart at the end of
  `cluster update` happens while the command has the database open, so that no
  checkpoint precedes it: the nightly archive is restored over what was committed
  since, although `src/pmcluster/docs/restore-design.md` says a current database is
  never clobbered.

### Seen while modelling and not kept as runs

Deploy engine and manifests. After a failed deploy step `sync` compares
the rendering with the recorded revision, finds them equal and reports success
without touching the Swarm (`stacks/deploy.go:246` against `:222`).
`stacks.current_revision` names the revision recorded last, not the one "currently
live" (`src/pmcluster/migrations/0003_stacks.sql`). Two concurrent deploys of one
stack with different services can both succeed and prune each other's; the prune
removes by name and can hit a service of another stack whose full name is the same.
A service with `replicas: 0` is deployed with one; an HTTP
health check of a service that exposes nothing uses port 0; two bind mounts with the same last path
element share a directory; the services' own secret names and the tests of health checks are not
interpolated while the app's secrets and the values of the environment are, so that a name written with
`${app}` in both places of a service is refused as not mounted, and `src/docs/dsl.md` says both "resolved
anywhere a value is a string" and which fields it is; a `domain` that holds a placeholder resolves or not by the order of a
map; router names of app and service collide across apps although
`addTraefikLabels` says they do not; `docs/dsl.md` lists top-level volumes the parser refuses.
The filter `^/stack_` of `PruneStaleContainers` also matches stacks whose
name begins with it. `WaitHealthyStacks` goes on past its deadline while the
listing fails.

Platform. An `up` that fails after it wrote the
template rows is refused the next time, and `update` lacks the credentials that
`up` alone creates; two overlapping runs of `up` both find no installed cluster; `down`
leaves the SSO stack running and the rendered hashes in place; an edit that falls between
the read and the write of the template sync is lost; `UpdateConfig` returns before it stamps
the version of a row whose content is unchanged, and `RollbackConfig` never stamps
it, so that under a new build neither is rendered.

Secrets, certificates, credentials. A run that dies between creating a version and
storing its hash leaves the new version under the old hash, and a later call with the old
bytes takes it for unchanged (`cluster/secrets.go:151` against `:94`). So does an upload of a host's
certificate after a removal that failed for an older version: the hash outlives the version
it speaks of. An update that dies between `SetRendered` and the deployment is not made up for
by the next one, which finds the hash it expects (`cluster/update.go:266`): Traefik goes on with the
pair before. A crash between the key and the certificate file of
the cluster's own domain leaves a pair that does not match. `tls add` for that domain
without a refresh stores a row with empty secret names.
`RemoveCert` ignores that a secret could not be removed. `hostSecretBase` gives `a.b.com` and
`a-b.com` the same base, although its comment says bases must differ. `domainMatches` accepts wildcards over
several labels, the console's `sansCover` does not; days of validity are truncated toward zero. Ensuring the
OpenObserve credential under a new user name rotates the row and keeps the old Swarm
secret; a renamed htpasswd user keeps the old payload; a user "edge" without its
credential row makes every retry fail. The token of a key or webhook is lost with its answer.
The command that deletes a secret does not ask whether a deployed stack references it
(`cli/secret.go:31`, `:64`); the usage report counts only direct
references, so that a config used through `config()` in an environment shows as unused.
`config create` takes a stack for a cluster
config too, although its help says "service scope only" (`cli/config.go:77`).

Settings and console. The wizard writes defaults over settings that were persisted
(`cli/setup.go:340` against `:203`) and a TLS mode the state reader does not know. A save of
the settings page turns an unset `edge_login_disabled`, which reads as true, into
"false", and an unset lifetime into an empty one (`UntouchedStays` speaks of stored
rows). A setting that cannot be read is shown as empty (`store/settings.go:39`, although
`settings/local.go:38` speaks of unset keys only), and the post of the page overwrites what is stored. A failed or
cancelled read of the console's own table puts the environment's address and token into the client that all
requests share, without a word (`ui/controllers/base.go:49`). The form lacks `backup_retention_days` although
`ui/controllers/settings.go:393` says it "must mirror the daemon's allowlist exactly".
The webhooks page uses the shared client without `loadParams`, and a call that falls between
two loads uses the address of one and the token of the other.
`ui/controllers/users.go:17` says the store refuses a self-demotion and the removal of
the last administrator; it has no such guard. `mapError` has no row for several
sentinels of the services (`remote/remote.go:79`, `:87`), and takes the words of a name for its
own: to create a key named `edge` once more is answered with `ErrEdgeUserProtected`, not that
the user exists (`apikeys/http.go:72`, `remote/remote.go:109`).

Webhooks. A delivery is recorded in the context of its request, so that one that was cut
off is missing although `src/docs/webhook.md` says every request is recorded
(`EveryRequestRecorded` holds as long as nothing fails); a payload that fails
validation is answered 502, not the 400 of the comment in `webhooks/receiver.go`.

Backups and start-up. The outcome of a run is recorded in the context the run had:
when that has ended, the row stays pending
(`backups/local.go:87` against `src/pmcluster/migrations/0005`). Archives of the control plane are discovered
and pruned like all others after `backup_retention_days`, not after the 30 days of
`src/pmcluster/docs/restore-design.md`; a list that falls between the copy of an archive
and `FinishBackup` records it a second time, which
`src/pmcluster/migrations/0018_backup_filename.sql` rules out; a pre-deploy run whose
output names no archive is recorded without one, and its restore reports success
with nothing restored. The extraction passes over links and over errors of closing a file and
reports success (`backups/browse.go:301`). `cli/join.go` speaks of standby on worker nodes, but a worker cannot
list nodes and its daemon serves at once; a manager that has just joined has a
database newer than every archive, so that its promotion restores nothing and it serves an empty
one; leadership is asked once before serving; a restore that is cut off leaves files
that look current; with a shared archive directory a control-plane backup on a standby
archives its stale database, and a command there makes that database look
current; a registry removed while a start replays the logins stays logged in.

Edge. Its block list exempts `/health` in the comment (`edgeproxy/blocklist.go:92`) and not in
the code; `LimitBody` is never installed; the rate limiter of the daemon itself keys direct
clients by address and port.

## Proofs

Each theorem is about the specification of one module, for every value of its
constants that satisfies the module's ASSUME. Where the property is inductive only
together with more, the proof module defines the inductive invariant and shows,
action by action, that each step preserves it.

| Theorem | States | Of |
|---|---|---|
| `StackDeployProofs`: `TypeCorrect`, `PointerIsRecorded` | `TypeOK`, `CurrentIsRecorded` | any overlap, any crash |
| `ImplementsLog` | `Spec => LogSpec` | any overlap, any crash |
| `BackupComesFirst`, `SwarmHasHistory` | `StrictBackupFirst`, `SwarmIsExplained` | any overlap, any crash |
| `StoreStaysRight`, `SuccessIsTrue` | `StoreIsRight`, `SuccessIsLive` | requests one by one (`serial`), any crash |
| `PlatformProofs`: `EditsAreRendered`, `ReportsAreTrue`, `RecordIsWhatRuns`, `RemovalsAreServed` | `EditKept`, `SuccessIsReal`, `HashMatchesSwarm`, `RemovedIsGone` | runs one by one (`Serial`), any number of failures |
| `HostsProofs`: `DeploymentsAreWhole`, `CallsStayInTheirStack`, `RestartsBringNothingBack` | `DeployedIsWhole`, `CallsHitTheirStack`, `RestartKeepsSpec` | any overlap |
| `VersionedArtifactProofs`: `ReturnsWhatWasAsked`, `OldVersionsGo` | `ReturnedHolds`, `OldVersionsCollected` | runs one by one (`Serial`), any of them may die and any call fail |
| `HostRowsCanBeDeployed`, `OwnPairStays` | `RowsHoldTheirPair`, `OwnPairServed` | any commands side by side, any of them cut off anywhere |
| `WebhookProofs`: `RevocationHolds`, `ReplaysExpire`, `HistoryIsKept` | `RevokedIsRefused`, `DuplicatesExpire`, `HistoryIsExact` | any overlap, any failure |
| `CallsAreTrue` | `CallSpec => ImplementsPort` | any callers, names and words in them, any answer lost |
| `ConfigRowsProofs`: `NothingIsLost` | `HistoryComplete` | any overlap of transactions |
| `SavesAreUsed` | `SavedIsUsed` | any pages, saves and values, any reads and writes that fail |
| `SavesLeaveTheRest` | `UntouchedStays` | any pages and commands, one save after the other, cut off anywhere, any reads that fail |
| `DeploymentsAreClosed` | `RenderingIsClosed` | any manifests with texts of any length, any environment and configs, every order of the replacements |
| `ConsoleProofs`: `EditsAreAimed`, `AdminStays`, `SetupIsOver` | `EditsHitTheirTarget`, `AdminKept`, `SetupOnce` | any overlap; the last two speak of `solo` behaviours |
| `EdgeTokenIsAccepted`, `RotationIsComplete` | `EdgeTokenAccepted`, `RotatedIsUsed` | any overlap, any command cut off anywhere; the second speaks of rotations no other command met |
| `HostsProofs`: `ClientIsFound`, `RateIsKept`, `FailuresEndInABan` | `GenuineAddress`, `RateIsExact`, `OffendersAreBanned` | any overlap, headers of any length |
| `RecoveryProofs`: `NothingCheckpointedIsLost` | `CheckpointedIsKept` | any managers, own or shared directories, elections, crashes, lost disks |
| `RowsAndArchivesAgree`, `NoRecentArchiveIsRemoved` | `ArchivesAreAccounted`, `RecentKept` | any overlap of runs, lists and restores, any failures, cut-offs and crashes |

### Assumptions

The ASSUMEs say that sets the code keeps apart are apart (a value is not NULL, a
manifest that is broken is a manifest, a client is no trusted proxy, the deployer is not
the API, the edge token is none of the credentials that have a root user, the cluster's own domain is
none of the hosts, the processes that
trigger, list and restore are three kinds) and that bounds are numbers; where NULL stands beside records or
files, that it is none of them. `MaxRun \in 0 .. Retention` of `Backups` says that a run is over
before its row expires: minutes against days. `Burst > 0` of `ShieldConstants` is the least limit
the proxy can be started with that lets anybody through. `ManifestConstants` says that texts are
sequences of literals and placeholders, and keeps the atom apart that only the translation writes,
the path of a secret; `CallConstants` that the callers come through the three front ends to the
eight resources, and that `edge` is a name. Two modules have a constant that selects a
mode, and their theorems assume it: `Serial` in `Platform` (one run of a command at a time, no edit during a
run) and in `VersionedArtifact` (one run at a time).
Nothing in the code enforces them: they are the condition under
which its operators use it, and without them the properties do not hold (see "What
holds only under a condition"). The other conditions are part of the
property: `serial`, `solo`, `failures = 0`, `Fits` in `RateHolds`.

### The arguments

*StackDeploy.* `TypeInv` adds to `TypeOK` what each step knows of the request's
locals: a request that records a row has a manifest and a rendering. Only two
steps write the two tables (`StoreSteps`, `RecordEffect`, `DeleteEffect`), from which
`PointerIsRecorded` and the step simulation of `RevisionLog` follow: recording is a
`Publish`, deleting a `Drop` or a stutter. `OrderInv` follows a request to
docker: the trigger runs under a pending row, a strict deploy that applies has
one that has not failed, and what it hands over is in the history or its stack was undeployed.
`SerialInv` is for requests one by one. That the newest revision is
the current one is not inductive: a revision numbered ahead of the clock would let a later request
find a lower free number. `NoGapFrom` says that from the clock on the numbers are
taken without a gap, so that the first free one is above all.

*Platform.* `IInv` says what a run has established by each of its steps: rows for
every stack after the sync (`SyncOK`), the dynamic config and the certificate row it
loaded (`LoadedOK`), the install state so far (`InstallOK`), the renderings
stored and deployed so far (`RecordOK`, `AppliedOK`); `TemplatesOK` ties the rows to
the operator's choice and to the build, `MatchesOK` the record to the Swarm outside of
the steps that change one before the other. That `update` stores before it deploys is
why `AppliedOK` and `MatchesOK` hold only while nothing has failed, and
`update_applies` is what happens otherwise; `InstallOK` and `TemplatesOK` need no such condition.

*Workloads.* What a command remembers of a service is true of it until Swarm's
version says otherwise (`KnowOK`), and no two commands that count as alone share names
(`Apart`, `Undisputed`); `Progress` says how far a lone deployment is: what it has
applied runs its specification, what it has pruned is gone.
A restart writes back only over what it has read, which `OnlyApplyChanges` states for every step.

*VersionedArtifact.* `Knows` says what each step knows: the listed
versions still exist, the number to be returned is the one compared or created.
`HashIsNewest` says that outside of the step between creating and
recording, and of a `lapse`, the stored hash is that of the highest version. `CollectInv` adds that what
exists is in use, returned or still to be collected.

*Certificates.* A step changes the secrets of its own domain's base or of the cluster's, and nothing of
anybody else's (`Frame`), so what a command that runs alone for a host knows of its secrets (`HostOK`)
survives whatever others do, up to the row it writes: it has found the hashes to be those of the newest versions
(`Noted`), so what it reuses holds its pair. For the cluster's own domain every update mints the
secrets, so the argument is one about what they reuse: a lone upload finds hashes and stored rendering in
order (`MainOK`), and when it is over the newest secrets and their hashes are of its pair (`Current`)
and deployed. From then on an update for a host reuses those secrets, or has loaded none yet (`Follows`), and
whether it deploys or skips the deployment, what is mounted stays (`OwnKept`). An orphan left by a death between
a secret and its hash needs a changed file, which only another upload for that domain makes.

*Webhook.* `Knows`: a request has no revision before its deploy, its secret is among
those it may be signed with once it is verified, its timestamp was near the
clock, and it brings a true outcome to the step that records it. `LogFits` says
the first two of the revisions themselves, `HistoryFits` that only ended
requests have a row, `CompleteInv` that without failures each of them has one.

*ApiPath.* The tables come first: the status of a reply says what class of error it is of
(`AnswerFits`), the row `mapError` finds is of the reply's status and of one of its words
(`MapErrorFits`, which needs that a least row that hits exists), and together what a caller is told
is among what is true of the result (`AnswersAreTrue`). Then each step is one of `ServiceCall`:
`Ask` an `Open`, a refusal on the way a `Close`, `Serve` an `Act` on the one row the call names,
`Return` and `Lose` a `Hear`, `GiveUp` an `Abandon`, `ServeLate` an `ActLate` on the name the call
kept. The invariant needs no more than types.

*ConfigRows.* A transaction whose snapshot is not stale has read the row as it is
(`Reads`); a stale one does not commit. Ids are given again, so the proof also needs that
the next id is one no row has (`NextIdFresh`).

*Console.* A request about to write has looked at the only account its id can
name, then or later, because AUTOINCREMENT never gives a number twice (`Aimed`). For
requests that do not overlap, `SoloInv` says what the one in flight may still rely
on: its user administers the console, the guard it passed still passes, or the table is
empty.

*Manifest.* A replacement takes one atom out and brings in those of its value (`ReplaceType`), so
three of them in any order leave a text without the built-in placeholders, unless a value
holds one (`SubstitutedType`), and the environment's values take the place of the others (`GetenvType`). That texts put together are a text again
(`FlattenType`) is the induction under it, by a least index where it fails. `ManifestInv` carries the
texts of a service through the stages (`IsClean`) and what `Validate` found: the name holds no
placeholder and a secret that is named is mounted, so that the path `BuildIR` writes
names a mounted secret and no other value looks like one (`ResolvedEnv`).

*Connection.* `due` only grows while the console serves somebody (`DueGrows`). What is stored, what a
request has read and is about to set, and what is set in the client is among what is due
(`Reading`, `About`), and a request that has set a field finds in it a value that is due, whoever has
set it since (`Uses`), so that it does not matter whose assignment comes last.

*ClusterSettings.* What a page shows of the keys it could read is still stored as long as nobody else
writes (`ShownIsStored`);
what it sends for a key that was left alone means what is stored (`SentMeansStored`), which
is proved from the form (`FormMeansStored`) and kept by every write, since writes
are key by key and another saver's write ends the claim.

*Credentials.* Keys are told apart by id and by token, neither of which is given twice
(`KeysOK`); a deletion that read its key before the user "edge" existed cannot hit it
(`AimOK`); whoever is about to record the edge token holds that user's key (`EdgeOK`), and nothing
rotates or renames it (`CmdOK`). `AloneOK` follows a rotation step by step, through row, secret, service and
revealed secret, as long as no other command has touched its credential.

*Failover.* `KeptOK`: what was last checkpointed is what the database holds; and it is
what the newest archive holds wherever the main file looks older, is gone, or a daemon
has already decided to restore. The archive is made of the directory as it is, log
included, so the two agree from then on until the next commit.

*Backups.* `Names` says of a row and the archive it names that the archive is as old as the row
or up to `MaxRun` younger, and once it is gone the row is about to expire. It
holds of rows, of what a run is about to record and of what a list has read (`RowOK`, `RunOK`,
`ListAt`), because no step changes the age of an archive or removes a young
one (`FilesKept`) and because the row of a run that goes on is too young to be pruned, so that what a list has
read of an outdated row stays true until it deletes it (`RowsKept`, `OutdatedStays`). An archive a list
has passed stays accounted for (`SettledStays`): a row that names it goes only after the file, or after a
removal that failed.

*EdgeShield.* `RealIP` finds the client in a chain of any length (`RealIPDirect`,
`RealIPThrough`). A bucket accounts for every request it let through: from any of them on, they
and the tokens left are no more than the burst and what came in since (`AtMost`),
and from some of them on no less (`AtLeast`); a bucket that was evicted would be full
by now. The numbers are natural: the model's clock counts ticks in which `Rate` whole tokens
come in. That an address at the threshold is being banned needs only the types and that a
request is held against an address (`ReqOK`).

### Only model-checked

* Liveness (`EveryRequestEnds`, `LeaderServes`): fairness and ENABLED are out of the
  prover's reach.
* The type invariants named above are part of the inductive invariants and
  proved with them.

## Plan

Every component named above that keeps a state is modelled, and every property a passing run checks is
proved but for the two of liveness. What could follow is to model more of what "Not modelled"
lists, where the code comes to keep state there.

## Not modelled

* Usage report, networks, preflight, health and status: single reads, or the creation of what
  is missing under fixed names; nothing is stored.
* Telemetry, logging, HTML, translations, tables and progress output: no other part reads them.
* Migrations and the plumbing of the SQLite file: keys, cascades, row ids, transactions and
  checkpoints are modelled in the component that relies on them.
* The content of templates and of rendered documents, X.509 checks, expiry warnings,
  encryption and hashing: abstracted to which content is which.
* A restore of the control plane file by file: a cut-off leaves some files of the archive
  and some of the directory, which no later start repairs, because they look current.
* The copying of requests and answers by the edge proxy, the transport under the HTTP clients.
* Several restores at a time, and volumes of several apps: a restore is of one set of volumes.
