# WorkBuddy gateway: a TLA+ model of the router plugin

The repository is a plugin for ASUS routers with the koolshare software centre. One Go
program, `wb2api-ctl` (`guard/`), is at once a daemon (`serve`, a reverse proxy that
authenticates, limits, forwards and audits requests to an upstream gateway on the loopback
interface) and a command line tool. Shell scripts (`workbuddy/scripts-ipq64/`), run by the
router's httpd as CGI, by cron and at boot, start and stop the service and run the commands.
A web page (`workbuddy/webs/Module_workbuddy.asp`) posts actions to the scripts and polls
the files they leave.

Nothing in it takes a lock across processes. Everything that is shared, keys.json first of
all, is a file that several processes read, change in memory and replace. That is where the
model starts.

## 1. Inventory

| component | state | operations | who else touches it |
|---|---|---|---|
| atomic save (`common.go` `atomicWrite`) | `<path>`, `<path>.tmp`, the inodes they name | open, write, sync, close, chmod, rename, remove on error | every process that saves the same path |
| key store (`keys.go`, `proxy.go` `flush`) | keys.json; per process the store in memory; the daemon's `tokDelta`, `dirty` | key add, del, enable, disable; `noteUsage`, `flush` | commands and the daemon, with no lock |
| gateway daemon (`proxy.go`) | `g.keys`, `g.mtimeKey`, `g.sem`, deltas; per request a `*KeyEntry` | `newGuard`, `reloadIfChanged`, `ServeHTTP`, the flush goroutine, SIGTERM | handlers, flush goroutine, commands, stop script |
| admission (`checkIPLimit`, `ipfilter.go`) | guard.json, the compiled lists, `g.ipSeen` | policy set, reload, admit, refuse, purge after 24 h | handlers, commands |
| answers (`ring`, `sniffRC`, `extractUsage`) | the last 64 KB of an answer | write, read back, look for usage | one handler each |
| audit log (`audit.go`, `cleanAudit`) | one file a day, rotated files | append, rotate, clean, tail, stat | handlers, a 6 h goroutine, `log clean` |
| lifecycle (`workbuddy_config.sh`) | processes, firewall rules, cron entry, dbus | start, stop, restart, watchdog, web_submit | page, cron, boot, migration, login |
| result channel (`workbuddy_env.sh`, the page) | result files, their copies, one dbus key | `wb_result_clear`, `wb_result`, `wb_out`; `post`, `fetchFile`, `run` | overlapping scripts and polls |
| login and accounts (`login.go`) | credential files | url, poll, list, remove, signin | page; the upstream reads the files when it starts |
| migration (`migrate.go`) | old and new directory, dbus | copy, verify, remove, restart | the daemon, still running |
| upstream config (`config.go`) | config.json | `cfg render` | page, start, people |
| binary extraction (`wb_prep`) | `/tmp/wb-bin/<name>`, `.tmp` | extract, measure, move | every script, at its start |
| task polling (page) | one interval timer, answers under way | start, stop, load | the user |
| status, panel, installer, build | none, or used once | | |

What is hard in it, and the properties that follow:

* *Overlapping saves.* All processes use one temporary name: a rename publishes whatever it
  names by then. Saves must be atomic and durable as long as they do not overlap, and one
  save made alone must repair what overlapping ones have left.
* *Read-change-save without a lock.* A flush and a command overwrite each other. Tokens must
  never be charged twice; when sequences do not overlap nothing may be lost.
* *Hot reload by modification time.* stat, load and record are three steps; saves fall
  between them. What a request is checked against must not be older than the request.
* *Snapshots.* A handler works with an entry it has looked up long ago: the body is read as
  slowly as the client sends it.
* *Every way out of a handler*, panics of the reverse proxy included, must give its slot back.
* *Shutdown.* SIGTERM flushes and exits under running handlers; one second later kill -9.
* *A directory nobody locks.* Handlers append and rotate, a cleaner removes and a query reads
  file after file, all at once.
* *Scripts that overlap.* The page, cron and the boot run one script at the same time, and
  each decides by what `pidof` lists at that moment.
* *Results that are polled.* A file and a dbus key are cleared by one script and read by the
  page of another action.
* *Copying what is being written.*

`PROJECT.json` lists the hazards one by one, at their lines, with the properties that cover
them.

## 2. Modules

```
AtomicFile          the register a caller of atomicWrite relies on (abstract)
   ^ refines (one writer)
AtomicWrite         atomicWrite, one action per system call        <- AtomicWriteProofs
   ^ INSTANCE (File)                                                      ^ INSTANCE
KeyStore            commands and flush over AtomicWrite's steps    <- KeyStoreProofs
Gateway             the daemon, with saves as single steps         <- GatewayProofs
Admission           what Gateway leaves to a choice: lists, address places   <- PartsProofs
Tail                and the usage found at the end of an answer              <- PartsProofs
AuditLog            the audit directory, system call by system call   <- AuditLogProofs
AuditQuery          what `log tail` and `log stat` make of the records       <- PartsProofs
Service             workbuddy_config.sh, command by command           <- ServiceProofs
Channel             page, scripts, result files, account commands     <- ChannelProofs
Migrate             the data directory while it moves                 <- MigrateProofs
Config              cfg render                                <- PartsProofs
```

`MCAtomicWrite`, `MCKeyStore`, `MCGateway`, `MCAuditLog`, `MCService`, `MCMigrate` and
`MCParts` add the definitions TLC's configurations need; `MCParts` puts five modules that
share no state (Config, Admission, Tail, AuditQuery, Channel) next to each other, so that one
run checks them all. A definition whose comment says "Variant of X" is X with one plausible
mistake; no specification uses it. Replacing X by it is how each property was seen to fail.

### AtomicWrite (`guard/common.go` 96-142)

Two directory entries (`target`, `tmp`), inodes with a content and a length, the set of
`durable` inodes, and for each writer its place in `atomicWrite`, its descriptor and its
document. `Open` is OpenFile with O_TRUNC: it empties the inode `<path>.tmp` names even
when another writer holds it open. `Write` writes at offset 0 of the inode, so a shorter
document over a longer one leaves a tail. `Chmod` and `Rename` look the name up again.
Every error path is an action. `Kill` ends a writer at any line; `PowerLoss` ends all of them
and loses any part of what is not durable. A rename is taken to be on the disk when it
returns (jffs2 logs it at once).

* `IntactUnlessCrowded`: absent or whole unless saves have overlapped since the last lone one.
* `OkMeansPublished`: nil from a call nobody overlapped means its own document is in place,
  on the disk.
* `AtomicForOneWriter`: a single writer implements `AtomicFile`.
* `NeverHalfAFile`: the comment's promise without a condition. It holds for one writer; with
  two TLC finds a half file (see section 5).

### KeyStore (`guard/keys.go` 42-58, 94-219; `guard/proxy.go` 197-233)

Each process has at most one `job`: the store it has read and changed and is now saving
through `File`, an instance of `AtomicWrite`. The store is changed in the same step as it is
read (it is private to the process); the save runs system call by system call. `Take` and
`Merge`/`MergeFails` are the two halves of `flush`. A process may be killed at any point: the
stop script kills every `wb2api-ctl` there is, commands included. `issued`, `billed`,
`promised`, `raced`, `dropped` are history.

* `NeverOverbilled`: tokens on file plus those still to be added never exceed those billed.
* `UsageExact`, `CommandsStick`: nothing is lost as long as read-change-save sequences do not
  overlap (and, for usage, no flush fails).

### Gateway (`guard/proxy.go` 107-233, 326-507, 552-598)

A request passes `Arrive` (stat, under g.mu), possibly `Load` or `LoadFails` and `Stamp`,
then `Acquire`, `Authorize`, `Forward`, `NoteUsage`, `Audit`, and may leave by `TooMany`,
`Refuse`, `BodyFails`, `Deny` or `Abort`. `mu` is a variable only where a step is taken while
the lock is held across others; every action that needs the lock has the guard `Free`.
A modification time is modelled by the comparison the code makes with it: `stamped` says the
recorded time is the file's, `statted` that the time a reload has read still is. Saves of
keys.json are single steps here; what happens inside them is the subject of the two other
modules. The reload of guard.json and the refusals by address are in Admission.

Nothing is assumed of the clock, of the moment of a save or of a reload. In three cases the
code misses a change, and all are steps of the model: a save that gets the modification time
of the file it replaces (jffs2 counts seconds), a save between newGuard's read and its stamp,
and a read that fails, whose time is recorded all the same. The history `missed` says that
such a change is in the file and nothing was loaded since; `misled` are the requests that came
then, or whose own stat or read failed. The properties except exactly these, until the next
change is seen.

* `ReloadMissesNothing`: unless `missed`, a store stamped with the file's time is the file.
* `NoStaleForward`: unless `misled`, a request is forwarded only if the file has allowed its key
  at some moment since it came in.
* `SlotsAccounted`, `UsageAddsUp`, `CleanExit` and, under fairness, `UsageReachesFile`.

### Admission (`guard/proxy.go` 107-186, 235-262, 357-429; `guard/ipfilter.go`; `guard/keys.go` 221-265)

The checks on the address of a request, step by step as in Gateway: `Arrive` (stat),
`LoadPolicy` or `LoadPolicyFails` and `Stamp` under one hold of g.mu, the lists as they are in
force later (`RefuseByList`, `PassLists`, after the slot was taken, or `TurnedAway`), the place
of the key after that (`TakePlace`, `RefusePlace`), with other requests, the clock, saves of
guard.json and restarts between any two of them. newGuard reads (`BootLoad`) and stamps
(`BootStamp`) in two steps. A CIDR is a name with the addresses it covers; one text of `Nets`
is none. People may write a guard.json that does not compile, `policy set` may not. `missed`
and `misled` are Gateway's, for guard.json; `outrun` are the requests that had read the file
before it was last saved.

* `AddressesBounded`: within any window a key is used from at most `max_ips` addresses.
* `KnownAddressStays`: a client let in within the window is let in again.
* `JudgedByFile`: nobody is past the lists that the lists now in guard.json would have
  refused, whatever bad files have come in between, but for requests in `outrun` or `misled`.

### Tail (`guard/proxy.go` 28-71, 276-284, 307-324, 470-477)

The ring byte by byte, and `extractUsage` over what it gives back.

* `RingHoldsTail`: the ring is the end of the answer, in order.
* `UsageOfAnswer`: usage is billed exactly when its last marker is within the window, and it
  is then the one the whole answer ends with, never an earlier chunk's.

### AuditLog (`guard/audit.go` 37-123, 268-287; `guard/proxy.go` 485-507, 529-550, 583-588)

`StatFile`, `Rotate`, `OpenFile`, `WriteLine` are the calls of appendAudit, each a step
between those of other handlers; a descriptor follows its file through a rename. `CleanList`
and `CleanRemove` are cleanAudit; `QueryList`, `QueryRead`, `QueryFinish` are auditFiles and
readAuditLines. A record is filed under the second its request began, not the one it is
written in. Writes may stop short (`Torn`), renames may fail, the daemon is killed, and a
power loss takes the end of a file.

* `KeptWithinRetention`: an acknowledged record stays in some file as long as its day is kept.
  Excepted: power losses, and days on which two handlers rotated at once (section 5).
* `FilesBounded`: a file exceeds its limit by one line a handler, and one a failed rename.
* `QueryComplete`, `QueryOnce`: what a query shows next to appends and rotations.
* `OldFilesGo`: every file past its retention is removed in the end.

### AuditQuery (`guard/audit.go` 15-35, 148-266)

`LogTail` and `LogStat` as operators over the sorted records; TLC evaluates them for every
sequence of records within the bounds and every combination of filters.

* `TailShowsNewest`: no matching record that is newer than one shown is missing.
* `StatAddsUp`: the tables add up to the total; the sum of credits is below the sums per key
  by less than one credit a record.

### Service (`workbuddy_config.sh`)

Each run of the script is a list of commands still to do (`StartSteps`, `StopSteps`, ...) and
the port it read when it began; each command reads dbus, `pidof` and iptables at the moment it
runs. Processes start, take their port or end when it is taken, take their time to end, and
die. `Command` is a wb2api-ctl of some other script, which `pidof` cannot tell from the daemon.

* `StopLeavesNothing`, `SubmitInForce`: after a stop, or a save, that nothing came across: no
  process and no open port; or one upstream with the new settings, one daemon on the new port,
  and the rule the settings ask for.
* `ServiceReturns`: while the service is enabled and watched it is up again and again,
  whatever runs have overlapped and whatever has died.

### Channel (`workbuddy_env.sh` 43-59, 157-190; `workbuddy_account.sh`; `login.go`; the page 564-697)

A post is a script (clear, open, command, write, copy, dbus, look for ok, restart, respond)
and the page's side of it (file, copy, dbus key). Two scripts that share a result file write
over each other; a restart kills every wb2api-ctl, commands of other scripts included.

* `OwnResult`: what the page shows for an action is that action's result, unless two runs met
  on one file or a restart killed the command.
* `FreshResult`: what it finds in the result file or in its copy is never the result of a run
  that had ended before the action was posted. Through the dbus key it may be, after a kill or
  a meeting of two runs: three posts are what that takes.
* `PoolFollows`: when no script runs the upstream works with the credentials on the disk.

### Migrate (`guard/migrate.go`, `workbuddy_migrate.sh`)

A file is the set of updates it holds. The walk visits the files one by one while the service
goes on updating the old ones; a replaced file is copied as it was when it was opened, one
that grows to its end of then. Copies fail, what copyFile has not synced is `volatile`, the
removal may leave any part of the old directory, wb2api-ctl may be killed at any moment, and
the last flush of the stopped service is an update like any other. A path is a place and
whether it ends with a slash. The page passes the directory alone; a person at the shell may
put --delete-old in front of it, which is the only place where it has an effect, and the
script then gives dbus the flag for a directory (`Astray`): the data is in the new directory,
and the service starts in a relative one of that name, which the model does not follow. `home`
is the place the data was moved to last, whatever dbus says.

* `NothingLeftBehind`: `home` holds every update, at every moment of a migration. Excepted:
  files updated elsewhere or after their copy, failed copies, power losses, and files copied
  onto themselves or, after a removal that was cut short, onto the data (`clobbered`).
* `DeletesOnlyCopied`: --delete-old removes no update that no other directory has.
* `RunsWhereConfigured`: outside a migration daemon and commands use one directory, unless dbus
  is astray, and until something was removed that directory is `home`.
* `MigrationsKeepAll` is `NothingLeftBehind` without the exception of `clobbered`; the run
  `Migrate_same` refutes it.

### Config (`guard/config.go`)

`Refuse`, `Load`/`LoadFails`, `BeginSave`, `Save` and `SaveFails` are cfgRender, with the
conversions (`NormDuration`, `ParseHours`) and paths (`SetPath`, `GetPath`) as operators over a
small JSON; of the fifty fields there is one of each kind. `Wrap` is the overflow of an int,
which has seven bits in the instance. `Decoded` is json.Unmarshal into map[string]any: a
number becomes the float64 next to it (`Float`), exact up to `Exact`, which is 2^53. The save of
a run that saves alone is one step, as AtomicWrite shows; runs that save at the same time
(`crowded`) share config.json.tmp, and `SaveCrowded` and `Tear` leave a file that does not
parse or one of several runs, also when another run has renamed the .tmp already.

* `RenderedAsMeant`: the file that a render leaves, saved alone and not edited since, holds
  what its user meant: rate and window are as long as they were typed, in whatever unit. The
  two exceptions of the code (no unit, very many days) are named.
* `BrokenKept`: a bad setting, the port included, or a file that does not parse is an error,
  and nothing is saved, also among renders that tear the file for each other.
* `UnknownKept`: every field a render does not own stays, unless the file was saved or edited
  between its read and its save, or another saved at the same time; a number beyond 2^53
  becomes the float64 next to it, and what stands in the place of one of its own fields is
  lost.

## 3. Runs

| run | instance | states | shows |
|---|---|---|---|
| `AtomicWrite_two` | 2 writers, 2 documents, 4 inodes | 74 thousand | overlapping saves |
| `AtomicWrite_one` | 1 writer, 3 inodes | 410 | the register, refinement |
| `KeyStore_race` | 1 key, 1 command process, the flusher | 613 thousand | no double charge in any interleaving |
| `KeyStore_serial` | 2 keys, 1 command process, the flusher | 222 thousand | nothing lost without overlap |
| `Gateway_core` | 2 requests, 1 slot, 1 key, quota 1, 1 token | 247 thousand | slots, reloads, who is forwarded |
| `Gateway_live` | 2 requests, 2 slots, 1 key, quota 1, 1 token | 660 thousand | usage adds up and reaches the file; a clean exit |
| `AuditLog_race` | 2 handlers, a cleaner, 5 records, 4 seconds of 2 days, 1 fault | 1.6 million | nothing is lost to rotation and retention |
| `AuditLog_query` | and a query; 3 records, 3 seconds | 271 thousand | what a query returns; old files go |
| `Migrate_dir` | 2 places, 2 files, paths with and without a slash, 2 updates, 2 migrations, 1 power loss | 4.0 million | where the data is, and where the service runs |
| `Migrate_same` | the same without power losses | violated | one directory, spelled in two ways |
| `Service` | 1 call of the page, cron, 3 processes, 1 death or reboot, 1 command | 451 thousand | stop, save, and the watchdog |
| `Parts` | two renders, requests and posts; the rest in `MCParts` | 1.7 million | the five small parts |

Bounds, and why they are enough:

* Two writers are what it takes to overlap, and the temporary name makes all others alike.
  `|Writers| + 2` inodes are never all in use (two names and one descriptor each), so `Open`
  is never blocked for want of one. Two documents of different length give the tail.
* One process runs commands one after the other, any number of them; with the flusher that
  makes the two overlapping writers the code can have when the page is used by one person.
  One token (`MaxBilled = 1`) is enough to be lost or charged twice; the variant of `Take`
  that charges twice is found at once.
* In `KeyStore_race` the VIEW leaves out results, histories of overlap and which command a
  key saw last: no guard and neither property of that run reads them (`promised` is kept as
  far as `Bill` reads it). In `KeyStore_serial` the CONSTRAINT `~raced` cuts off what its two
  properties say nothing about: `raced` is never reset.
* Two requests over one slot make the semaphore fill and refuse, and one reload while the other
  is anywhere; over two slots (`Gateway_live`) two handlers run at once. A quota of 1 and 1
  token let a key be used up. An answer may also bill no token, and is flushed
  all the same: `Gateway_live` has the token noted while such a flush is under way, or put over
  the quota by a handler that had passed the check before. Keys are independent in every action of Gateway
  except the flush, which treats each alike; one is enough, with every status and a re-add.
* Audit: a limit of one line and two handlers make them rotate at once and into a file the
  other has just begun; days of two seconds, with nothing kept, let a record be filed under
  yesterday and its file be removed under a handler. A limit of a megabyte is not written
  twice in one second: `RateAssumption` says so, and without it two rotations in one second
  would replace each other's copy also without a race.
* Migrate: one file that is replaced and one that grows are the two ways copyFile can meet; two
  migrations make a directory be used, left and used again, and let one that was cut short
  after the removal be followed by another.
* Service: one call of the page, the runs of cron and the boot overlap in every way; it is cron
  that has started what a stop or a save of the page then finds running. Two ports (the
  service has the first one when a behaviour begins), settings that render and settings that do
  not, and one process that dies, or a power loss.
* Parts: a window and a clock that make an address exactly as old as the window and one second
  older; two requests, lists that deny, allow and do not compile, and any number of saves, so
  that one reload overlaps another request at each of its steps; settings that are refused for
  each reason, an edit with a number beyond `Exact`, two renders that save at once; answers one byte and more longer than the ring, with a marker at every place; three
  posts over the shared result file, the shared dbus key, and a restart.
* Symmetry: inodes, keys, handlers, requests, posts and places are used by no definition by name. The
  runs that check liveness use none.

Deadlock is checked in the runs of AtomicWrite, KeyStore and Gateway and in `AuditLog_query`.
In the others everything may come to rest: the clock, the updates or the posts are bounded, an
answer is over once and for all, and a service that is disabled and not watched stays stopped.

Fairness.

* `Gateway!Fairness`: strong fairness of the ticker's flush: the ticker fires for ever, and a
  goroutine waiting for a `sync.Mutex` gets it even when others keep taking it (starvation
  mode). Weak fairness of the second half of a flush and of a reload under the lock: both are
  file operations that end. Nothing is assumed of clients, the upstream, handlers, or of anyone
  who starts, stops or kills the daemon; the property therefore allows the daemon to stop
  being up.
* `AuditLog!FairSpec`: the ticker of the cleaner fires for ever and a removal ends. Nothing is
  assumed of handlers or queries.
* `Service!Fairness`: cron fires again and again, a shell that runs goes on to its next command,
  a process that starts takes its port, and one that was told to end ends. Nothing is assumed of
  the page; the property is about the time in which the service stays enabled and watched.

## 4. Proofs

All are checked by TLAPS for every value of the constants.

* `AtomicWriteProofs`. The invariant `IInv` adds to the type: who holds which inode
  (`Held`), that a writer no other has overlapped is the only one to have `<path>.tmp`'s inode
  (`LoneIsAlone`), how far it has come with it (`LoneProgress`), that the two names never meet
  (`NamesDiffer`) and that the published inode is whole and durable (`TargetSafe`). The
  property alone is not inductive: a rename is safe only because of what the writer has done
  to that inode since its own open. From it: `TypeCorrect`, `Intact`, `Published`, and, when
  there is one writer, `OneWriterNeverHalf` (`NeverHalfAFile`) and `OneWriterIsAtomic`, the step
  simulation of `AtomicFile`. With two writers both are false (section 5).
* `KeyStoreProofs`. `KInv` takes `IInv` over through an instance, and adds that a process
  saves the store of its job (`SavesItsJob`), that at most one of taken deltas and a flusher's
  job is outstanding (`FlushesOnce`), and `AllCovered`: not only keys.json but every document
  on any inode and every job is covered by what was billed. That is the point: after a crash
  or a lost race any of them may become the file. From it: `TypeCorrect`, `NobodyOverbilled`.
  `SerialInductive` is the other half, without which `UsageExact` and `CommandsStick` do not
  hold: as long as no two read-change-save sequences have overlapped, at most one process has
  a job (`OneAtATime`), what keys.json and that job hold is what commands have promised
  (`PromisesKept`), and tokens on file, taken and still to be added make up those billed
  (`Balanced`). From it: `AcknowledgedStays`, `NothingUnbilled`. Two assumptions on the
  constants are needed, both stated in KeyStore: a key that is not in the store has no usage
  there, and the content of a damaged file is no job of anybody. `SavesAreSingleSteps` is why
  Gateway may take a save for one step: until two sequences overlap, keys.json changes only
  when a save is published, to what that command (`Edited`) or flush (`Charged`) makes of the
  file as it is then, and a command has reported success exactly when that has happened;
  every other step, a failure, a kill or a power loss among them, is not seen at all. It
  needs that whoever has read the file still holds a change of the present one
  (`JobsCurrent`). How many tokens a flush adds is settled by `NothingUnbilled`.
* `GatewayProofs`. `RInv` says a request inside a reload holds the lock (`Locked`), what is
  loaded is the file unless it is `missed` or the time recorded, or about to be, says otherwise
  (`Loaded`), and that the file, the store in memory and the entry looked up can each only let a
  request that is not `misled` through if the file has allowed it since it came in (`Vouched`).
  The properties alone are not inductive: what a handler does is right only because of what
  it, or the request that loaded the store, saw under the lock. From it, for any clock and any
  reload: `NothingMissed` (`ReloadMissesNothing`), `RevokedStayOut` (`NoStaleForward`). `GInv`
  says which requests hold a slot, that tokens in the file, in the deltas, and taken by a flush
  that is under way are the tokens billed or were lost in a way the property names, and that a
  daemon that is down has no requests and no deltas. From it: `NoSlotLeaks`,
  `AccountsInductive`, `TypeCorrect`, `NothingChargedTwice` (`UsageAddsUp`), `ShutdownFlushes`
  (`CleanExit`). No assumption is made about the environment.
* `PartsProofs`, Admission. `AInv` says a key has noted no more addresses than it may have
  (`PlacesBounded`), that whoever was let in within the window is still noted, with that time or
  a later one (`PlacesKept`), that a reload holds g.mu (`Locked`), that a recorded time of a file
  that compiles means its lists are in force unless `missed` (`ListsInForce`), and that they are
  in force for every request before the lists that neither came before the last save nor was
  misled (`ListsRead`). `AddressesBounded` alone is not inductive: what is counted is `ipSeen`,
  and it bounds the addresses let in only because nothing is dropped from it early; the same
  fact gives `KnownAddressStays`. From it: `PlacesLimited`, `NoAddressDisplaced`, `ListsObeyed`
  (`JudgedByFile`), `TypeCorrect`, for any window, limits, lists and number of requests, and any
  order of saves, failed reads and restarts.
* `PartsProofs`, Tail. `TInv` says which byte of the answer each place of the ring holds, before
  the ring is full (`Filling`) and after (`Turning`). From it: `RingKeepsTail`, for a ring of any
  size and answers of any length. `UsageOfTail` is about extractUsage alone: markers, braces
  and the object between them are where they are in the whole answer, only further to the
  front (`MarkersMove`, `CountsMove`, `DecodeMoves`), so the end of an answer gives the usage of
  the whole or, without a marker, none. Together: `BilledIsTheAnswers` (`UsageOfAnswer`).
* `PartsProofs`, Config. `CInv` says that a run past the checks has settings that passed them
  (`RunsChecked`), that the copy of a run nothing overtook is what json.Unmarshal makes of the
  file (`CopiesCurrent`), and that what was saved last, and alone, is in place
  (`AppliedInPlace`). Under it lie lemmas about the
  operators: what reading does to the numbers (`DecodedFields`), what a render makes of each
  field (`RenderedFields`) and leaves as it was (`RenderedKeeps`), what an accepted duration is (`NormDurationMeant`, with `WrapWithin` for the
  overflow), and that a list by rank is complete and ascends (`EveryRankTaken`,
  `AscendingSorted`, by the pigeonhole principle). From it: `RendersAreMeant`,
  `BrokenFilesAreKept`, `UnknownFieldsAreKept`. The attempt corrected `UnknownKept`, which had
  claimed too much: an object a person has put in the place of `listen` is replaced with all
  it holds. The assumptions say what a typed duration is, that an address, a record, is not
  the text `Bad`, and that numbers up to `Exact` are floats (`FloatAssumption`).
* `PartsProofs`, AuditQuery. Both properties are about lists of any length, and what the library
  knows of induction takes an operator as parameter. A smallest counterexample takes its place:
  a non-empty set of numbers has a least one (`HasLeast`), one of finite sets a minimal one
  (`HasMinimal`). With it the sum over a finite set is shown to exist, to be the same in any
  order (`SumsAgree`, `TotalTake`), to fall apart by groups (`TotalByGroup`) and to lose less
  than one credit a record when tenths are cut off (`CutOff`); from it: `StatsAddUp`
  (`StatAddsUp`). The loop of `log tail` keeps the matching records in their order
  (`KeptMatches`), and what is shown is their end: `NewestAreShown` (`TailShowsNewest`).
  `CreditsAssumption`: credits are counted in whole tenths.
* `AuditLogProofs`. Four properties, none of them inductive.
  *Retention.* `RInv` says that records are filed under their day (`Filed`), that no name bears
  a second to come (`Stamped`), that what a cleaner means to remove is past its retention and
  stays so (`DoomedExpired`), that a writer's descriptor has a name of its record's day unless
  that day is excused (`Opened`), and `FreshCopies`: if the name a rotation would give a day's
  file in this second is taken, the file has got all its lines in this second and nobody finds
  it too large. This is where `RateAssumption` is used: without it the second rename of one
  second replaces the copy the first has made. From it: `TypeCorrect`, `RetentionInductive`,
  `NothingLostEarly`.
  *Size.* `Room` counts, for every name, its lines and the handlers that have still to write one
  to it; a rotation moves them along. From it: `FilesStayBounded`, for any limit and any
  number of handlers.
  *Queries.* A record is in one file, once (`Once`), and one that is still to be written is
  nowhere, neither in a file nor in what a query has read (`Unwritten`, which rests on
  `Numbered`); what a query has still to read it does not have (`NotTwice`). A rotation would
  break that if it gave a file a name the query has listed: `FreshCopies` excludes it. From
  it: `QueriesRepeatNothing`. `Found` says where a record that is due is to be found until the
  query ends. From it: `QueriesMissNothing`.
* `MigrateProofs`. `MInv` says where the walk is, where the service runs and what dbus says of
  `home` (`WInv`), what each file and each copy hold (`Contents`, `Copies`), and that what was
  copied onto itself or onto the data is noted (`Onto`). `NothingLeftBehind` alone is not
  inductive: the removal, or dbus set, moves `home` to a directory of which only `Copies` says
  that it has everything. From it: `TypesAndPlaces`, `TypeCorrect`, `ServiceFollows`
  (`RunsWhereConfigured`), `NothingIsLeftBehind`, `RemovesOnlyCopied`, for any places and any
  spellings of their paths. Without the exception of `clobbered` the third is false: the run
  `Migrate_same` shows it (section 5).
* `ChannelProofs`. `CInv` says what a file, a copy and the dbus key can hold at each command of
  the script that owns them: the result of a run that wrote there, and of which one. From it:
  `ResultsInductive`, `ShowsItsOwn`, `ShowsNothingOld`, `UpstreamFollows`, for any number of
  posts and accounts and without assumptions.
* `ServiceProofs`. `OnItsWay` says of a stop or a save that nothing else has come across that it
  is the only run, and what it has reached by what it has still to do (`StopCourse`,
  `OffCourse`, `OnCourse`): after kill -9 no process at all, after the rules are deleted a
  closed port, after rendering the new config.json, and after each launch exactly the
  processes launched so far (`Just`), on the saved port. That a single iptables -D closes the
  port needs `OneEach`, that equal rules are noted in `piled`. From it: `TypeCorrect`,
  `StopIsComplete` (`StopLeavesNothing`), `SubmitTakesEffect` (`SubmitInForce`), for any number of
  calls, slots, ports and settings. `SettingsAssumption` only gives the fields of dbus their
  types.

Every safety invariant and action property of the runs that pass is thus a theorem, for every
value of the constants. Only model-checked: liveness (`UsageReachesFile`, `OldFilesGo`,
`ServiceReturns`), which rests on fairness, hence on ENABLED, and is beyond this prover.

## 5. Where code and words part

Found while modelling. The first is a run; the others hold of the code as it is, and the
properties above name them as exceptions or assumptions.

* **One directory, two spellings** (`migrate.go:31`, run `Migrate_same`): dbus keeps a path as it
  was typed, the comparison trims only the new one; migrating `/x/` to `/x` truncates every
  file before copying it onto itself.
* *Half a file* (`common.go:96` promises none): two processes share `<path>.tmp`; one renames what
  the other has just truncated. `NeverHalfAFile` with two writers.
* *A key add lost to a flush* (`proxy.go:197`): no lock spans loadKeys and saveKeys. This is what
  `raced` excepts in `CommandsStick`.
* *A save during boot is missed* (`proxy.go:115`, `119` and `137`): newGuard stats keys.json and
  guard.json after it has read them. *Two saves in one tick* of a file system clock that counts
  seconds look like one. *A reload that fails* records the new time all the same (lines 157-161
  and 164-168). In all three old keys or old lists stay in force until the next save; the
  histories `missed` and `misled` except just that.
* *A client that leaves in the middle of an answer* (`proxy.go:468`) leaves no audit record
  and is not billed; README.md:58 describes audit as the last stage of every request.
* *Rotation*: two handlers that rotate in one second replace each other's copy; nothing bounds
  the copies of a day (README.md:156 says about 6 MB).
* *Migration*: `<dir> --delete-old`, the usage in `workbuddy_migrate.sh:4` and `migrate.go:22`,
  removes nothing: flag.Parse stops at `<dir>`. With the flag in front the old directory is
  removed and dbus gets the text `--delete-old` for a directory (`workbuddy_migrate.sh:11,21`),
  so that the service starts in a relative directory of that name, without keys or
  credentials; the page uses neither form. copyFile never syncs, and RemoveAll follows at once;
  its error is ignored; a kill before dbus set leaves dbus with what was removed, and a second
  migration then copies what little has been made there anew over the data. A name that
  vanishes during the walk, such as a save's `.tmp`, ends the migration; usage flushed after
  the copy of keys.json stays behind.
* *Service*: web_submit answers ok although the settings were refused; a changed port leaves the
  old rule open; runs that overlap add equal rules, of which a stop removes one; `pidof` takes
  a short command for the daemon, until the watchdog comes; `start` at boot does not register
  the watchdog; `workbuddy_auto_start` (page, line 380) is read by no script.
* *Result channel*: start, stop and restart poll workbuddy_action.json (page, 1391), which the
  script neither clears nor writes for them; `log stat` polls workbuddy_stat.json (page, 1184)
  while workbuddy_log.sh writes workbuddy_log.json; a 404 is taken for "not yet" (page, 602),
  so that the copy and the dbus key are asked only when a file is there that does not parse;
  a restart kills another script's login poll; two runs on one result file may leave the
  service with old credentials; workbuddy_migrate.sh:13-15 ends without wb_respond.
* *Configuration*: `config.go:250` promises that unknown fields are kept as they are; a whole
  number beyond 2^53 comes back as the float64 next to it. Two renders that save at once may
  leave a config.json that does not parse, after which every render refuses to touch it. Durations without a unit may be 0 or negative, very many days wrap around;
  a config.json of `null` makes setPath panic. A guard.json edited by hand that does not
  compile is tolerated by a running daemon and keeps a starting one down; a key's ip_allow that
  does not compile is passed over.
* *Statistics*: credit_total cuts every record to whole credits, credit_by_key does not.
* *Extraction* (`workbuddy_env.sh` 78-103): scripts share `<name>.tmp`, and one binary cut short
  above 1 MB is installed.

## 6. Not modelled, and the plan

* wb_prep: a second user of one shared temporary name, which AtomicWrite treats, over three
  programs of the firmware.
* The page's timers and forms, status, panel and model queries (stateless HTTP), argument
  parsing and the conversions of `common.go`, `log service`, the installer, packaging and CI.
* The upstream gateway appears only as an answer that comes, fails or breaks off, and as the
  process that loads credentials and config when it starts.
* The arithmetic of CIDRs is net.IPNet's: a name with the addresses it covers.
* The page's save button stores the field of the data directory in dbus like any other setting,
  without moving anything; only the script of the migration is modelled. A kill of that script
  itself, between dbus set and the restart, is left out; a power loss there is not. So is the
  directory dbus names when it is `Astray`.

What is left open: a composition of KeyStore with Gateway, in which reloads and overlapping
saves meet. `SavesAreSingleSteps` covers the saves that do not overlap; what overlapping ones
may lose is stated by KeyStore alone.
