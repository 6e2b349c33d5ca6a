# Laminara: TLA+ models of the server

Laminara is a launcher platform for Minecraft projects. A Go server (`server/`)
prepares builds, publishes them as signed manifests over a content-addressed
store, serves them to players' launchers and is administered over a control
API. The launcher (`client/`, a Rust core with a Tauri shell and a React UI)
signs players in, synchronises a build and starts the game.

These modules model the parts whose correctness depends on orders of steps
that tests hardly reach: several commands working on the same files, a daemon
that stops between two file operations, writes that fail, requests that share
a cached view, clients that reconnect.

## Inventory

Paths are relative to `server/internal/` unless they start with `client/`.

| Component | State | Operations | Interacts with | What is hard |
|---|---|---|---|---|
| Releases (`catalog/releases.go`, `rollback.go`) | per build: `current.json`, `releases/<id>/`, flat manifests of the old format | publishRelease, RollbackRelease, ReadRelease, VerifyRelease | called by build commands, read by the catalog | crash between files, history over many commands, import of the old format |
| Build commands (`buildsvc/`) | `s.busy`, the working tree or the workspace the pointer names | install, publish, PlanBuild, build-apply, build-rollback, delete | jobs and the console start them; they call releases, CAS, catalog.Refresh | plan and apply are separate requests, files are edited by hand without a lock |
| Uploads (`buildsvc/upload.go`) | partial and complete uploads by hash | UploadChunk, expiry, the size limit | build-apply reads them | resuming, concurrent uploads of one hash |
| Catalog (`catalog/catalog.go`, `index.go`) | one snapshot, its stamp, time of the last check | snapshot, Refresh, List, Get, Owners | the launcher API | a scan runs against running commands; results are cached |
| Object storage (`storage/`) | objects by hash, on disk or in S3 | PutFile, Put, Get, Locate | publish, the launcher API | concurrent publications share objects; files change while read |
| Jobs (`jobs/`), client (`control/jobs.go`) | `<id>.json`, `<id>.events`, records and workers in memory | StartJob, run, Cancel, Get, List, Stream, New, Close; WatchJob | daemon, control tokens, all commands | retries by key, failing writes, crash and recovery, lost wakeups |
| Control tokens (`controlauth/`) | token file | create, bootstrap, authenticate, revoke | jobs, remote administration | revocation against running work |
| Daemon (`daemon/`, `cli/start.go`) | listeners, process | Run, stop, restart, reload of settings | everything | restart in the middle of anything |
| Launcher API (`api/`) | token cache | Login, Refresh, ListProfiles, GetManifest, objects | sessions, access, catalog | stale cache entries |
| Sessions (`auth/`, `yggdrasil/`) | sessions, refresh tokens, TOTP counters, in memory or Redis | login, refresh rotation, logout, join/hasJoined | API, game servers | replayed refresh tokens, concurrent refresh |
| Access, bans, rate limits (`access/`, `hwid/`, `ratelimit/`) | rules, machines, counters | Decide, register, ban, Allow | API | cached rules, windows |
| Settings (`settings/`, `config/`, `daemon/settings*.go`) | configuration file with a revision | read, patch, reload | daemon | optimistic concurrency |
| Launcher builds and updates (`launchersvc/`, `selfupdate/`, `bake/`) | binaries, release feed | build, check, swap | daemon, API | interrupted swap |
| Backup (`backup/`) | archive | create, restore | files of the project | interrupted restore |
| Modules (`module/`, `sdk/`) | remote connections | load, call, reconnect | daemon, auth, events | reconnection |
| Observability (`logbus/`, `logfile/`, `metrics/`, ...) | ring buffer, subscribers | publish, subscribe, rotate | everything | slow subscribers |
| Launcher core (`client/core`) | synchronised files, state, account, pending update | sync, launch, update, sign-in | server API | interrupted sync, swap of the own binary |
| Pure parts (`manifest/`, `mojang/`, `loader/`, `compat/`, ...) | none | parsing, resolution, signing | build commands | data, not orders of steps |

The properties that make the modelled components correct are the invariants
and properties below; `PROJECT.json` lists every component, and under
`hazards` the places in the code the properties are aimed at.

## Modules

The publication of builds:

| Module | Models |
|---|---|
| `ReleaseHistory` | abstract: what the publications of a build promise (current one, history, publish, rollback, withdraw) |
| `ReleaseStore` | the files of every build and the commands that change them, file operation by file operation |
| `ReleaseStoreProofs` | its invariant, its properties and the refinement, proved |
| `Catalog` | the snapshot players are served from, scans against commands |
| `CatalogProofs` | its invariant and safety properties, proved |
| `ObjectStore` | `CAS.PutFile` over both backends |
| `ObjectStoreProofs` | its invariant and properties, proved |
| `BuildInstall` | `install` over several platforms, the move to the shared layout, what `publish` compares |
| `Uploads` | `build push` and `UploadBuildChunk` |
| `Jobs` | the job manager, its files, the daemon that opens and closes it, `WatchJob` |
| `JobsProofs` | its invariant and safety properties, proved |

Players:

| Module | Models |
|---|---|
| `Session` | `auth.Service` over the session stores, and the API's token cache |
| `SignIn` | the counters of `ratelimit.Guard` around a sign-in |
| `OneTimeCodes` | `totp.Verifier` |
| `Accounts` | the JSON file of accounts, its copy in memory and the commands over it |
| `AccessRules` | `access.Controller`, its file and HTTP sources, the API handlers that ask |
| `Machines` | `hwid.Gate.Check`: scores, groups, bans |
| `Tickets` | challenges, reports and the ticket the game's sign-in asks for |
| `GameSessions` | the authlib endpoints over both stores |
| `CrashReports` | the hourly allowance and the sinks |
| `PlayerLimits` | `SignIn` and `CrashReports` beside each other: the two limits on a player |
| `Media` | the mirror of skins, the news of another site |
| `SignInProofs` | theorems about `Session`, `OneTimeCodes`, `PlayerLimits` and `GameSessions` |
| `AccessProofs` | theorems about `Tickets`, `Accounts`, `AccessRules` and `Machines` |

Operation:

| Module | Models |
|---|---|
| `Settings` | the settings file, its store, patches, and the settings screen of the console |
| `ControlAccess` | control tokens with the handler's ticker; links, sessions and terminals of the web console |
| `Console` | the terminal console: screens, keys and replies that come late |
| `Lifecycle` | port, socket, pid file and job manager of server processes that come and go |
| `LauncherRelease` | replacement of the server's binary, publication of the launcher, `Releases.Current` |
| `Modules` | loading of modules, providers over RPC, queues of events |
| `LogBus` | the bus with its followers, rotation and pruning of the file |
| `Backup` | backup and restore beside a running server |
| `ServerFiles` | `Uploads` and `Backup` beside each other: what stands under its final name |
| `ServerProofs` | theorems about `ControlAccess`, `LauncherRelease`, `Lifecycle`, `ServerFiles`, `Console` and `Settings` |
| `OperationProofs` | theorems about `Modules`, `LogBus`, `BuildInstall` and `Media` |

`MC*` are small instances for TLC. `MCPlayers` and `MCServer` put the modules of
players and of operation beside each other; see *Runs*.

### ReleaseStore

`pointer[b]` is `current.json`, `releases[b][id]` a release directory (absent,
partial, complete, or torn by an interrupted `RemoveAll`), `legacy[b]` the flat
manifests of the old format, `work[b][d]` the tree in workspace `d` (`None` is
the build's own folder), `planned[b]` the last plan a client holds, `busy` the
lock of `alone`, `cmd[w]` the command a goroutine runs with everything it
keeps in local variables. A file tree and the manifests built from it are one
value of `Contents`; an edit during a publish yields any other value.

Each command is the sequence of its file operations: `PublishStart`,
`PublishBuilt`, then the common tail `ReadPrevious` or `LegacyDirectory` /
`LegacyWritten`, `ReleaseDirectory`, `ReleaseWritten`, `Commit`, `SyncDone` or
`SyncFailed`, `Refresh`. `ApplyStart` .. `ApplyMove` come before that tail for
build-apply. A rollback reads files that only its own lock holder changes and
writes once, so it is one action. `delete` removes entries in any order. `Fail`
is any error or cancellation before the commit; `Crash` drops all commands and
locks and leaves the files. Identifiers come from `rand.Text()` and do not
repeat (`used`); this is the only assumption about them.

`torn` marks builds of which `delete` has removed something the pointer still
names. Properties about the files of a build exclude these: the code makes no
promise for a build whose deletion was interrupted (its effect on *other*
builds is a finding, below).

`History == INSTANCE ReleaseHistory WITH ...` maps the pointer to the abstract
current publication and set of earlier ones.

### Catalog

A publish is its commit here, since `ReleaseStore` shows that the pointer names
complete releases only; delete is still taken file by file. `scan[s]` is a call
of `snapshot()`: the fast path (`Enter`), the lock and second look (`Lock`),
`ListFolder`, `ReadPointer` and `VerifyReleases` per build, `IndexDone` (stamp
comparison) and `Collect`. The stamp is the history of every build with the
current release first, as `index()` writes it. A torn release may or may not
verify (its inventory may be among the removed files), and the reading of its
manifests may or may not succeed, so both outcomes are there. `held[b]` is what
launchers have fetched. `version` is a history variable that
numbers the changes of a build, to say "older".

### ObjectStore

A content stands for the key made of its hash; `backend` is chosen once, by the
configuration. `Stage` / `RenameInto` are
`PutFromFile` of the file system backend (copy, verify, rename), `Upload`,
`Compared`, `Mismatch`, `DeleteMismatch` and `DeleteFailed` are `streamFile`
over S3. `UploadUnanswered` is an upload the bucket has stored while its answer
was lost. `referenced` collects what `PutFile` returned, which is what
manifests name; `reported` and `cut` record the keys an error named and those
whose upload ended before it was compared.

### Jobs

Every handler of the manager holds `m.mu`, so each is one action; the disk
operations inside it may fail (`MaxFaults`), and the process may end between
actions or in the middle of a line (`CrashWriting`). `appendEvent` yields the
set of possible outcomes, an incomplete line and a complete line whose `Sync`
failed among them. `Submit` separates the checks `Start` makes before it takes
the lock. `Load` recovers one record in `New`; `LoadRefused` is the error that
ends `Daemon.Run`. `watch[c]` is a client with its stream: `StreamRead` is the
critical section of `Stream` (position, log, state and channel), `Send`/`Sent`
run without the lock, `signalled` says that the channel the stream took has
been closed.

### Players

A call is a record in `calls`, `signing`, `asking`, `checks`, `requests`,
`tasks` or `reporting` with what it has read and has yet to do; every call of a
store or a counter is a step of its own, because the code holds nothing between
them. What the code does under one lock is one step.

- `Session`: a number names the two secrets issued together. `RefreshGet` and
  `RefreshUpdate` are the two halves of `Refresh`; over Redis an update may
  succeed with its answer lost, and `Revoke` is a read and a write.
  `validated` records when a token last was good, to say how long the cache may
  outlive it.
- `SignIn`: `Blocked` is asked for both keys, then the password is looked at,
  then both are counted (`Allow`). `AllowImmortal` is the Redis counter whose
  `Expire` failed after `Incr`. A counter that does not answer lets the call pass
  (`failedOpen`).
- `OneTimeCodes`: a code stands for its period; `Pruned` is the sweep of
  entries of other users.
- `AccessRules`: `list` is what the administrator keeps, a file that may also be
  gone or broken; `roster` is the file source's copy with its checks of the
  file's stamp; `current` is the HTTP source's table, where an entry is settled
  or being fetched by one call the others wait for. `Evicted`, `live` and
  `Settled` follow the code's names. `entitled` and `seen` are history: when a
  player was last on a list that could be read, when the file could and could not
  be read, when it was last answered from while it could.
- `Machines`: `score`, `Resolve` and the merge of groups are those of
  `match.go`; the steps of `Check` are `Candidates` (over SQL its second query is
  `CandidateRows`), the fan-out with the resolution, move (one group at a time),
  save, see, verdict, and a store error may end it before each. A command of the
  operator is a sequence of store calls too (`orders`): a ban reads the account's
  machines, perhaps the group's members, and is saved; `Prune` is one step in
  memory and a SELECT and three DELETEs over SQL (`PruneSelect` ..
  `PruneMachines`), with checks in between. The fields `alike`, `alone` and
  `erased` of a check are history: the machines its report resembled when the
  store was asked, whether another check overlaps, and whether a prune over SQL
  deleted the account after the check had recorded it.
- `Tickets`: `secretFile` may be absent or cut short by a kill; nonces are lost
  with the process.
- `GameSessions`: in memory `rotateSession` is one step; in Redis a read, a
  write and a removal.
- `Accounts`: `load` and the change take the lock one after the other. `alone`
  marks a command that nothing overlapped.

### Operation

- `BuildInstall`: the steps of a platform are files, unpacking and swap of its
  Java, then what the installer, the mods and authlib write (`downloadExtraFiles`),
  then the launch profile. `oldParts` are the files still in a directory of the old
  layout, moved one at a time (`MovePart`); the launch profile is written last
  and carries the stamp. Lists of platforms are sets taken in the order of their
  directories (`First`), those that have moved before the others (`Sharing`). `wentBack` marks histories in which a line was
  installed again after another one: the stamps of the first installation then
  count again, and the property excludes them.
- `Settings`: blocks under keys, sections of the schema with a default adapter and
  entries of keyed collections without one. A secret is named after the adapter it
  was typed for, so that a secret at a wrong place is visible. Naming another
  adapter drops the block of the old one (`setAdapter`); clearing the
  discriminator leaves it (`clearAdapter`, as `view.go:358` returns before
  `blockOf`). The document's revision is its content.
- `ControlAccess`: the tokens and the web sessions share a module and the
  clock, nothing else; `TokenNext` and `WebNext` are run apart.
- `Console`: `replies` are the questions still to be answered, in any order; a
  wizard's reply carries the number of its request (`Waited`). `Shown` says
  which screen asks for which command.
- `Lifecycle`: `public` says whether there is a public address; the port is taken
  only then. Port, socket and pid file are taken and given up one after the other,
  a step each: closing a listener removes the file at its path whoever made it,
  `ReleasePid` compares and `RemovePid` removes, `stop` is a signal, a server that
  fails by itself closes its own listener first. `crossed` is history: a process
  whose socket or pid file was made while another one had already decided to
  remove what is there.
- `LauncherRelease`: `InstallRemove`, `InstallAside` and `Install` are the removal
  of the old `.old` and the two renames, `PutBack` the rename back, which may fail
  too (`stranded`); the signature is written before the release (`WriteFirst`,
  `WriteSecond`). `answered` is the pair `Releases.Current` returned to a call,
  read or from the cache, with the publish that overlapped it if one did. Nothing
  in the code keeps two updates or two publications apart: `clashed` marks
  histories in which an update removed `.old` while nothing was at the path,
  `halfDone` those in which a publication stopped between its two files or
  another one came between them, until one was whole and alone.
- `Modules`: `free` decides who gets a name, `dispatch` offers an event once; a
  full queue loses it.
- `LogBus`: a line goes to the bus and then, in another step, to the file, which
  may refuse it.
- `Backup`: `CreateTemp` grows the archive beside its target; the restore
  replaces the files one after another and refuses an archive with a file above
  its limit (`MaxFilePages`, the code's 512 MiB), which `Create` does not look at.
  Databases are written page by page by the running server.
- `Uploads`: a chunk is appended, then the hash is checked, then the part gets
  its name; edits, lost answers, deaths and days come between.

## Runs

The runs of `ReleaseStore`, `Jobs`, `Catalog` and `ObjectStore` check for
deadlock; `players` and `server` do not, since their components come to rest when
their bounds are spent. Bounds are named constants; they are chosen so that each
hazard occurs: two commands or requests meet, histories are long enough for a
rollback into the middle, an old-format publication precedes a new one, and a
crash or failing write falls on every step.

| Run | Instance | Shows |
|---|---|---|
| `release` | 1 build, 2 workers, 4 releases (2 once a client holds a plan), 1 workspace, 1 description, 2 contents | `HistoryReadable`, `ReferencedComplete`, `LegacyKept`, `PublishedImmutable`, `ImplementsHistory` (the refinement), `NoOpSound`, `ApplyReplacesPlanned` |
| `jobs_safety` | 2 owners, 2 commands, 1 key, 2 jobs, limit 1, one fault, one cut | `OneJobPerKey`, `AnsweredOnDisk`, `SuccessTrue`, `FinalForever`; `TypeOK` with the count of running jobs |
| `jobs_watch` | 1 job, 1 client, 2 cuts, one fault, fair | `WatchComplete` (with the position a client resumes from), `WatchEnds`, `RevokedStops` |
| `catalog` | 2 releases and 2 changes with 2 builds, with 2 requests and a restart, or with the folder away once; fair | `HolderCanDownload`, `KeptWhileReachable`, `NeverOlder`, `Converges` |
| `objects` | both backends, 2 callers, 2 files, 3 contents, 2 edits, a crash | `ReferencedIntact` (over the file system), `WrongReported` |
| `players` | the nine components of `MCPlayers`, 2 calls each (1 for crash reports), one command of the operator | see below |
| `server` | the eleven components of `MCServer`, 2 callers each (1 editor of settings, 1 publisher and 2 readers of the launcher), 2 processes started 3 times | see below |

The commands of different builds share nothing but the set `busy`, which is
why one build is enough for the releases (and the proofs are for any number). In
the catalog builds meet in the stamp and in one failing scan, so `MCCatalog` has
behaviours with two builds beside those with two requests and those with an absence
of the folder (`scope`); the theorems are for all of these together.
Symmetry is used over identifiers, contents, workers and requests, which the
specifications only compare, and in no run with a liveness property.

`players` and `server` check components that share no state in one run each.
The variable `part` is chosen in the initial state and says which component
moves; the others rest (`OthersRest`), so the states are the sum and not the
product of the components', and every invariant is evaluated on the component it
is about with all of its interleavings. `part` is no part of the program.

| Property | Says |
|---|---|
| `TokensSound` | a spent refresh token is never accepted again, and the cache names a player at most `SubjectTTL` and one call after the token was last good |
| `LimitsHold` | wrong sign-ins in a window exceed the limit by at most the calls in flight; a sender's crash reports of an hour never exceed theirs |
| `NoOlderCode` | a one-time code older than one accepted is refused, also after other users' codes made the verifier forget |
| `RemovedLosesAccess` | a player removed from a list loses the build after the cache's lifetime and one fetch, through outages, evictions and shared fetches, with the rule that fails closed (file, list, check) and the one that fails open; a list file that cannot be read freezes what the source last went by and opens the build to nobody else |
| `MachinesHold` | duplicates and split groups left by racing checks and half-done prunes are healed by the next check; a ban that a report meets also meets the next login without one, unless a prune over SQL deleted the account just recorded |
| `SignOutFinal` | in memory, no game session from before a sign-out survives it |
| `CommandKeepsTheRest` | an account command nothing overlaps changes only its account, hand edits included |
| `EntryTraced` | whoever is in the game has a ticket of their own from one fresh nonce, used once |
| `PlatformsWhole` | the move to the shared layout loses no file; what publish accepts has one install's files on every platform |
| `SecretsStay` | a secret in the file was typed for the adapter in force there, whatever is shown, staged, masked or edited by hand meanwhile; a foreign one stays only under a default adapter, after the discriminator was cleared |
| `ShutOut` | a revoked token's requests end within one interval; a forgotten web session stays out, restarts included |
| `FilesWhole` | a file under its hash has that hash; an archive under its name is complete and its settings and keys are from one moment each (whether its files are small enough for `open` is not part of it) |
| `ServerReachable` | a serving process listens, has the public port when there is one, and owns socket and pid file, although others leave step by step, are killed, fail or restart; but for one that was `crossed` |
| `ConsoleFaithful` | a command leaves the console only as the open screen asked for it; secrets are not remembered; the cursor is on a player |
| `ModulesHeard` | events reach a module at most once and in the order of publication (a full queue loses events, `loader.go:233`, which `docs/modules.mdx:285` does not say); answers are those of the configured provider |
| `LinesReach` | a follower misses only lines published while its channel was full; the files keep each line they took until `prune` may remove it (a line that a failing disk or a stuck writer refuses is on the bus only) |
| `UpdatesSafe` | what a call no publish overlaps is returned is the published release with its own signature, after publishes that were whole; a whole server binary is at the path or beside it, and at the path unless a replacement is under way, was cut off or could not be put back |
| `MediaHonest` | a skin is not staler than the mirror allows, the mirror stays within its memory, the news kept never go back (a call whose own request failed answers with none, `news.go:115`) |

Time is counted in ticks and lifetimes are 1 or 2 of them, with the clock
running far enough for each to pass twice over; a request takes at most one
tick (`CallTime`, `FetchTime`, `AnswerTime`), the client's timeout. Caches and tables are
bounded to one entry so that eviction happens. The settings file has one block at
a time (`OneBlock`), the section with a default adapter or the entry without. `MaxRequests = 3` lets a reply to
an old question of the wizard arrive after two newer ones; `MaxReports = 5` lets a
sender be forgotten and report again.

### Disagreements between the code and what it says of itself

Five runs expect a violation; the findings in `PROJECT.json` quote the lines.

- `jobs_recovery` (`UnfinishedRecovers`): after one failed write to a log,
  later events follow the broken line; if the process then ends before the
  record is final, `New` refuses the log and the server does not start.
  The documentation says that unfinished work becomes `interrupted`.
- `catalog_away` (`KeptUnlessDeleted` with the folder unreachable once): a folder that
  becomes unreachable between `index` and `collect` empties the snapshot, and
  the unchanged stamp keeps it empty.
- `objects_shared` (`PublishedIntact`, which over S3 fails): wrong bytes are visible under
  the key before they are compared, and their removal may hit right ones.
- `install_stuck` (`MoveFinishes`): a move to the shared layout that stops after
  it removed the directory of its first platform is never finished, because the
  next install walks that directory again and ends with its absence. Nothing is
  lost (`PlatformsWhole`), but the build cannot be installed any more.
- `access_unreadable` (`UnreadableCloses`, on the instance `MCAccess`, one build
  with a file list): the documentation says that a list file that cannot be read
  closes the build for everybody; the code goes on with the roster it had when the
  file is gone, and between two looks after one it could not parse.

What the models contain and the properties leave out on purpose is in the notes
of the hazards: a refresh that read its session before a revocation writes it
back unrevoked over Redis; a game session's refresh may survive a sign-out over
Redis; a ban on a group does not follow a merge; an account file edited between
`load` and `save` is overwritten; an install line used again makes old stamps
count; a SQLite file may be torn in an archive; an interrupted delete of one
build hides all of them after a restart; an archive with a file above 512 MiB is
written and cannot be restored; a count without a TTL locks a player out for
ever; a prune over SQL deletes the account a check has just recorded on a machine
that stays (`erased`); a cleared discriminator leaves the old adapter's block, while
`settings_test.go:133` says of a switch that it must be dropped; a server that
leaves may remove the pid file the next one wrote between `ReleasePid`'s comparison
and its removal, and without a public address two starts may remove each other's
socket (`crossed`); the next server may recover the jobs while the previous one
still closes them; an update removes `.old` even when nothing is at the path, which
happens with two overlapping updates and with a retry after one that could not be
put back (`clashed`; the message of `selfupdate.go:114` and
`docs/server/updates.mdx:34` count on `.old`); a publication of the launcher that
stops between its files, or overlaps another, leaves a pair that does not verify
(`halfDone`), and a call that overlaps a publication may be returned one.

### Fairness

`Jobs!FairSpec`: the service manager restarts the process and `New` runs to its
end; workers, the ticker of `run()`, streams and clients go on when they can. A
command is assumed to return only after its context has been cancelled; a
command that is not cancelled may run for ever. `Catalog!FairSpec`: launchers
keep asking, calls return, the interval passes, the folder comes back; nothing is
assumed of commands, which may stop half way. `Converges` therefore has the
hypothesis that in the end no half-deleted build is left. The modules of players
and of operation state safety only and assume no fairness.

## Proofs

Every theorem holds for any values of the constants that satisfy the named
assumptions of the modules: any number of builds, jobs, calls, players,
processes, any limits and lifetimes. A theorem `Spec => []P` states the very
definition `P` that a run checks. The assumptions say that sentinels are not
values (`NoneIsNoValue`, `NoneIsNoRecord`, `Sentinels`, `NobodyAssumption`,
`FreeAssumption`, part of `ModulesAssumption`), that limits and lifetimes are
numbers and, where the code divides or waits, positive ones, and:
`IsFiniteSet(SignCalls)` (a process runs finitely many calls; the bound counts
them), `ChallengeTTL >= 2` (half a lifetime, after which a challenge is renewed,
is some time), `Content \in [Digests -> Seq(Nat)]` (a file is a sequence of
bytes), `SourceOrder` and `ModuleFiles` being lists, the second without
repetition (two modules are two files), as is `Order` (two platforms are two
directories); `ConsoleAssumption`: the server has an answer, perhaps an empty
one, for every Minecraft version and loader, and the names of players are texts;
`Pictures # {}` (there is something behind a URL at the beginning).

| Module | Proves | Inductive invariant |
|---|---|---|
| `ReleaseStoreProofs` | `TypeCorrect`, `HistoryAlwaysReadable`, `ReferencedAlwaysComplete`, `LegacyAlwaysKept`, `NoOpAlwaysSound`, `ApplyAlwaysReplacesPlanned`, `PublishedNeverRewritten`, `RefinesHistory` | `Inductive` |
| `ObjectStoreProofs` | `ReferencedAlwaysIntact` (file system), `WrongAlwaysReported` (both backends) | `Knows`, `Verified`, `Caught` |
| `JobsProofs` | `TypeCorrect`, `KeyNamesOneJob`, `AnswersSurvive`, `SuccessIsTrue`, `WatchReceivesAll`, `FinalStays` | `IInv` |
| `CatalogProofs` | `HolderAlwaysDownloads`, `SnapshotsNeverOlder`, `ServedIsKept` | `IInv` |
| `SignInProofs` | `TokensStaySound`, `CodesOnlyForward`, `SignOutStays`, `LimitsAlwaysHold` | `SessionInv`, `CodesInv`, `GameInv`, `SignInInv` and `CrashInv` |
| `AccessProofs` | `EntriesAreTraced`, `CommandsKeepTheRest`, `RemovedPlayersLoseAccess`, `MachinesAlwaysHold` | `TicketInv`, `AccountsInv`, `AccessInv`, `MachinesInv` |
| `ServerProofs` | `ShutOutStaysOut`, `UpdatesStaySafe`, `ServingIsReachable`, `FilesStayWhole`, `ConsoleStaysFaithful`, `SecretsAlwaysStay` | `TokenInv` and `WebInv`, `BinaryInv` and `PairInv`, `LifecycleInv`, `UploadInv` and `BackupInv`, `ConsoleInv`, `SettingsInv` |
| `OperationProofs` | `ModulesAlwaysHeard`, `LinesAlwaysReach`, `PlatformsAlwaysWhole`, `MediaStaysHonest` | `EventInv`, `SubscribedInv`, `ProviderInv`; `RingInv`, `StreamInv`, `FileInv`; `InstallInv`; `MediaInv` |

### Releases and objects

None of the properties of `ReleaseStore` is inductive alone: between
`ReadPrevious` and `Commit` a command carries a history it read earlier.
`Inductive` adds what makes that safe. `Locked`: a running command holds its
build's lock, and no two work with one build. `PointerOK` and `ReleasesOK`: what
the files satisfy between any two file operations (identifiers are used ones,
the history has no repetitions, named releases are complete, the pointer's
metadata is that of its release, a description is recorded only with the digest
of the published tree). `WorkerOK`: what a command relies on at each step, above
all `HistoryRead`, that the history it read is still the one on disk. One lemma
per command shows that it keeps all of this for its own build and command;
`Localized` shows that then every other build and command is untouched. The
refinement uses the same invariant: only `Commit`, `Rollback` and
`RemovePointer` change the pointer (`PointerChanges`), and each is a step of
`ReleaseHistory`.

In `ObjectStore`, `Knows` is what a caller knows at each step, `Verified` says
that over the file system no object is ever wrong, and `Caught` that wrong bytes
nobody was told of have a caller that uploaded these very bytes and will
compare them.

### Jobs

`IInv` puts together what the record, the log and the memory say of one job
(`JobOK`). `Stored`: a job without a record has left nothing, and an "ok" in the
log or a record that says so is of a job that succeeded. `Kept`: a worker is
there exactly while the job runs in memory, and then the record on disk says
"running" too; the log has as many lines as `LastSequence` says until a write
fails; a final state in memory is the one on disk unless a write failed.
`OneRecord`: two records never share owner and key, which needs that a serving
process has loaded every record (`AllLoaded`). `Counted` makes `m.running` the
cardinality of the workers. `StreamOK`: a client's position is inside the log, and
once the server saw the job finished before it sent, the end of what it sends is
the end of the log for good.

### Catalog

`IInv` has the lock of `refresh` (`Mutex`); `Used`, that no identifier named or
seen anywhere is given out again; and `ScanAt`, what a scan that is under way has
read against the files as they are now (`StampOK`: the history it read of a build is
part of the present one or has nothing in common with it, contains every
release that launchers have seen and is still published, and is no older than
the snapshot's). `CurrentOK` says the same of the snapshot: it owns what was
seen and is still published, of builds that are whole. `SnapshotsNeverOlder` and
`ServedIsKept` are action properties that follow from it in the one step that
replaces the snapshot.

### Players

`SessionInv` says that numbers are not issued twice, what each call has read and
since when (`CallOK`), and for how long a cached subject may outlive its token.
`CodesInv`: the verifier forgets a user only when the newest code is older than
any it would still take. `InMemoryInv` keeps every game session in memory later
than the last sign-out of its player. `SignInInv` bounds, for each key, the count
of a window together with the calls that passed the counter and have yet to feed
it (`Pending`) by `Room`, the limit less one plus the number of calls.
`CrashInv`: the list of a sender still has every report let through in the last
hour, so that counting the list is counting those; a sender who was swept has
none in the hour.

`TicketInv` follows a nonce: its challenge (`NoncesOK`), the report that holds it
(`ReportsOK`) and the ticket made from it (`TicketsOK`), one of each at most.
`AccountsInv` says with `TaskOK` what the copy, the file and what a command has
read have in common at each step, while nothing overlaps the command. `AccessInv`
carries the age of what was read through all the places it may wait in: the
file's copy (`RosterFresh`), the table (`EntryFresh`) and the call that fetches
or waits (`AskFresh`); of a file that could not be read for a while it says that a
member of the roster was on the list at the last answer before that. `MachinesInv` says which groups a check that nothing
overlapped has yet to move (`CheckOK`): a machine its report resembled is in the
check's group or in one still to be merged into it, and before the verdict the account
is recorded on the machine (or was erased from it), so that a login without a report
meets the same bans. No other check runs meanwhile; of the operator's commands nothing
is needed, since a prune only takes machines, signals and accounts away.

### Operation

`TokenInv` bounds the time of the next look at a request by an interval from now
and by an interval from the revocation of its token; `WebInv` says that forgotten
sessions are in no file and no table. `BinaryInv`: at most one update has the
binary aside, what it set aside is whole and there unless another one removed it, and
nobody updates a server that does not run. `PairInv`: a publication that is alone is
the only one between its files and the signature there is its own (`FilesOK`); what a
call has read (`ReadingOK`) and what is kept under a time and size (`CacheOK`) is the
release that was written then, so a pair mixed by an overlapping publication is kept
under a stamp that is over when the publication is. `LifecycleInv` has for each
process what it holds (`HeldBy`). With a public address the port is the lock of a
start: from the port to the end of serving nobody else has it, and the socket is found
unanswered after the port was taken, so nobody else listens any more. Without one the
same holds of a process that was not crossed when it bound the socket. The pid file is
that of whoever wrote it uncrossed, since nobody else finds his own pid there.
`UploadInv`: between look and write nobody else touches the part, so it grows by
what fits the file, and only a part with the right hash gets the name.
`BackupInv`: a copy is the beginning of what was opened, and every item of an
archive but the databases is a content its file had.

`EventInv` orders the events on their way to a module, those given, in hand and
waiting (`LineOK`), and says that a publisher's event is not yet on its way to the
targets it has left; `SubscribedInv` that a module has subscribed once.
`ProviderInv`: the provider of a name is an object that the name's owner opened for it.
`RingInv`: the ring holds the last lines in order, so what `Follow` takes from it
joins what comes after; `StreamInv`: from its first line on a follower lacks only
what its full channel lost. `FileInv`: every line acknowledged is in the file, in
a rotated one or in one that `prune` was right to remove, for which `rotatedName`
must find a free name (a pigeonhole argument).

`InstallInv` has two halves. `MoveInv`: while the old layout is being left, the mod
of a platform is in its old directory or where its players find it; of the
platforms that still have their directories at most one has begun to move
(`OneBegun`), so what it put in the root is not overwritten by another one; a move
that was cut off later than that has removed a directory and can only end with an
error, which keeps every file where it is. `StampInv`: a platform that carries the
recorded line has its Java and its files, at every step of the next install; the
files are of the line once the last of them, those of the installer, the mods and
authlib, are written.

`ConsoleInv` says of each screen what it holds (`ContentOK`): a menu's cursor is on
a row that can be chosen when there is one, which is what `move` and `clamp` are
shown to bring about (`MoveIs`, `TurnReaches`); a wizard past a page has chosen
there what the server offers for the Minecraft version whose reply filled its lists
(`Consistent`), and so has every earlier wizard that Escape can bring back. A late
reply keeps this because it is taken only if it is for the latest request.

`SettingsInv`: in every document there is, the file, a page, the revision of a patch, a
write under way, each block has no secret, the one of the adapter in force, or the
default adapter in force (`Docs`); and what is on a screen is what its patch makes of the revision it was
shown (`ScreenOK`), so a secret is typed for the adapter that is seen. Every change
keeps this; a mask does because it is taken only with the adapter the entry names.
What a patch makes of a document is a recursion over its changes; its two facts,
no change (`NoChanges`) and one more (`OneChangeMore`), come from the existence of
the function on every prefix by way of a smallest counterexample (`RunsExist`,
`RunsAgree`), since the library's induction theorems cannot be used.

`MediaInv` has three parts. `MirrorInv`: what a call found was behind the URL when it
began or later, unless the site failed since (`Sound`), and a name is remembered at
most `AnswerTime` after its call began; both survive a change of the picture, which is
what `SoundStays` is for. `HeldInv`: the order has no repetition, holds what is kept,
and its bytes are the count; that dropping the oldest subtracts exactly their bytes is
`PartCounted`, over prefix sums by the same kind of argument. `NewsInv`: one call asks
at a time, so what it got is not older than the news there are.

### Only model-checked

The liveness properties `WatchEnds`, `RevokedStops` and `Converges`: fairness
is beyond the prover. Every invariant and action property of a passing run is a
theorem.

## Not modelled

- Bytes: hashes do not collide, signatures are part of a manifest, atomic
  file replacement (`atomicfile.Write`) is one step, a rename survives.
- Platforms of a build in `ReleaseStore`: `publish` signs all of them before the
  release is written, so they are one value there; `BuildInstall` tells them
  apart.
- `CAS.Put` of a stream: it hashes what it stores.
- Jobs: log sizes in bytes (`MaxLog` events stand for 8 MiB), progress
  throttling, `CancelRequested`, the difference between `Exec` and jobs.
- Composition across the modules of players: whether credentials are right and
  whether a machine is banned are choices in `Session` and `GameSessions`.
- Sign-in attempts at the control API have the shape of `SignIn`; scopes of
  control tokens are one set.
- Parsing, formatting, layout and wording everywhere; fields of settings other
  than a discriminator and a secret.
- The launcher core (`client/core`, Rust): sync of a build and swap of the
  launcher's binary on the player's machine. It shares no state with the server but
  the API, and is a project of its own size.
- Everything marked `not_modelled` in `PROJECT.json`.

## Plan

1. Composition: `Catalog` over the pointers of `ReleaseStore`; `Session` over
   the verdicts of `Machines`.
2. `ClientSync` and `ClientUpdate` (`client/core`): an interrupted sync reaches the
   manifest's files, user files are kept; the swap of the launcher binary always
   leaves one that starts.
