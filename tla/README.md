# StatTrack-cli (wakatime-cli): a verification project

The program is started by an editor plugin for every few edits. It turns its flags into
*heartbeats*, sends them to the WakaTime API in bulk, keeps what could not be sent in a bbolt
database (the offline queue) and sends it at a later start. Each start is a short process; many
run at the same time, and all of them share the queue file and the internal config file. The
promise that matters is the one in the doc of `WithQueue` (`src/pkg/offline/offline.go:53-58`):
a heartbeat that could not be sent is stored and its sending is retried. These modules check and
prove how far the code keeps it.

## Inventory

| Component | State | Operations | Meets | Hard behaviour | What makes it correct |
|---|---|---|---|---|---|
| Offline queue database (`pkg/offline/offline.go` 258-572) | bbolt file, its file lock | push with retry, pop, read, count | every command | concurrent processes, lock timeout, failed commit, kill, unreadable value, refused id | calls are atomic, none hangs |
| Offline sending (`WithQueue`, `handleResults`) and syncing (`Sync`, `WithSync`) | batch in memory, `alreadySent` | send new heartbeats, pop-send loop, requeue by result | queue, API client | partial answers, failures, kill with a popped batch, several syncs | nothing dropped, nothing sent again once an answer has settled it, limits kept, the loop ends |
| API bulk sending (`pkg/api/heartbeat.go`, `pkg/apikey`) | none | group by key, one request each, parse results | sending, syncing | an error after the first group, an answer lost after the API took the batch, results in key order | results answer their heartbeats |
| Heartbeat command (`cmd/heartbeat`, `cmd/offline`) | rate limit stamp | rate limit, extra heartbeats in a goroutine, send, save on auth error | queue, backoff, config | exit before the goroutine is done, swallowed errors, double save | no heartbeat is neither sent nor saved |
| Offline sync command (`cmd/offlinesync`) | legacy queue file | sync legacy file and remove it, sync | queue, config | removal with entries left, or just put back by another command | the file is removed only when empty |
| Backoff (`pkg/backoff`) | retries and time in the internal config | decide, count up, reset | config, sending | values read at start are stale at the end | failures of all processes are counted, a success resets |
| Internal config (`pkg/ini`) | ini file, named mutex | load, set keys, save whole file | backoff, rate limit, params | load before the mutex, mutex timeout | a write of one key undoes no other |
| Command dispatch (`cmd/run.go`) | exit code | run, recover panic, diagnostics, then sync | all commands | save after a config error, panic | one exit code, sync only after success |
| Heartbeat pipeline (`pkg/heartbeat`, `filter`, `apikey`, `remote`) | heartbeats, temporary files | handle options in a fixed order | heartbeat command, queue | cleanup on every path, drop on a failed download, keys lost in the queue | sanitized before sent, no file left behind, none dropped without a reason |
| Parameters (`cmd/params`, `pkg/vipertools`) | viper | first key that is set, patterns, API keys, extra heartbeats | pipeline | precedence, defaults, an invalid part | what was asked to be hidden is |
| Project detection (`pkg/project`) | `.wakatime-project` files | overrides, map, detectors, obfuscation | pipeline, other processes | priorities, folders that do not hold the file, two writers of one project file | names stay hidden, the user's files as they are |
| API client (`pkg/api` rest) | none | NTLM and DNS retry | sending | retry of a body already read | one answer per request |
| Language, dependencies, lexers; dashboards; config commands; logging | none | parsing and output | - | - | left to unit tests |

`PROJECT.json` lists the same components with their status, and under `hazards` what is hard to
test, at its line.

## Modules

* `QueueCalls`: the calls on the queue, what each answers and leaves behind. An id is a number:
  its place in the byte order bbolt keeps keys in. A batch popped is the set of its ids; its slice
  order is the order of the ids.
* `AtomicQueue`: the abstract specification. A call takes effect at one instant, or fails without
  effect; its caller may die at any time.
* `OfflineQueue`: the code. `OpenDB`, `OpenTimeout`, `OpenError` are `openDB`; `Begin`, one of
  `PushMany`, `PopMany`, `ReadMany`, `Count`, then `Commit`, `CommitError` or `Rollback`, and
  `CloseDB` are the body of `pushHeartbeats`, `popHeartbeats`, `ReadHeartbeats`,
  `CountHeartbeats`; `GiveUpTry` and `Wake` are the loop of `pushHeartbeatsWithRetry`; `Crash` is
  a kill. A client is any opener of the file, also a goroutine. The mapping at the end
  of the module (`phaseBar`, `gotBar`) takes the file to `AtomicQueue`: a call has taken effect once
  its result is `ok`, and has failed when its last error is returned.
* `OfflineSync`: senders (`WithQueue`) and syncers (`Sync`) over an atomic queue, with
  `Client.SendHeartbeats` in between. `StartSend`/`StartSync` begin a command, `RequestAnswered`
  is one request to the API with any per-heartbeat results, `RequestError` any error, before or after the API
  took some of the group (a timeout, an answer that cannot be read or parsed), `Requeue` what follows an error, `HandleResults` and `HandleLeftovers` the two halves of `handleResults`,
  `SyncPop`, `SyncStop`, `SyncLimitReached` the loop of `Sync`. `created`, `settled` (what
  the API took or refused), `unheard` (those of them whose answer was lost), `lost`, `taken` and `faults` are history
  and bounds; the code does not have them. A client cannot know of what is `unheard`, so that a
  heartbeat may reach the API twice: `NeverSentAgain` says that only these may, and `NoSilentLoss` and `Settled` count a heartbeat
  as settled when an answer said so (`Heard`).
* `HeartbeatLife`: the abstract specification of sending and syncing, which the docs of `WithQueue` and `Sync` describe. A heartbeat is created
  by one command, is in one process' hands or stored, is taken oldest first, and ends settled by an answer of the API (`Settle`), or lost, which costs a
  failure; `LoseAnswer` is a request whose answer is lost, after which the process still has all of it. The mapping at the end of
  `OfflineSync` (`handsBar`, `lostBar`) leaves out what a process still holds of heartbeats an answer has already settled.
* `HeartbeatCommand`: starts of the program with `--entity`, each from its flags to its exit code.
  `Start` is `RunE` (config files), `LoadParams`, `SaveRateLimited`, `SplitHeartbeats`, `NewClient`,
  `NewClientFails`, `SaveExtra` (the goroutine) and `SaveAtEnd` the parts of `SendHeartbeats` and `Run`;
  `Answered`, `RequestFails`, `Requeue`, `HandleResults` one request through `WithBackoff` and `WithQueue` or
  `WithSync`; `ResetRateLimit` the stamp; `SkipSync`, `StartSync`, `SyncPop`, `SyncPopFails`, `SyncDone` the sync
  of the legacy file and then of the queue, and `RemoveLegacy` the removal of the legacy file between the two: the look that found it empty
  is over by then and the file is not locked, so that another command may have pushed a batch back.
  `late` is the history of these. `pc` is where the main goroutine is; `file` is `new` while it
  sends its own heartbeats and names the queue file during a sync.
* `InternalConfig`: the shared ini file. `Invoke` to `NewWriterFails` are `NewWriter`, `Acquire` to `Release`
  are `Write`; `SaveTo` is `Truncate` and `Save`, between which others can load an empty file, and two
  overlapping saves leave parts of each (`Overlaid`). `Abandon` is a kill, which frees the mutex.
* `ApiClient`: one request of `Client.Do`, attempt by attempt: `RetryNtlm` and `PanicNtlm` are the NTLM option,
  `RetryAddress` the retry when the API's name is not found. `body` says that an attempt has consumed the body.
* `Backoff`: starts of the program that send through `WithBackoff`, over the two modules above. `seen` is what
  a process read from the config at its start, `Clamped` as `LoadAPIParams` does it; `BackOff`, `Attempt`,
  `CountFailure`, `Reset` are the branches of `WithBackoff`, `Queue` is `WithQueue`'s, `ResetRateLimit` a
  rewrite of the same file that sets another key, `Panic` the recovery of `runCmd`.
* `ProjectDetection`: `Detect` and `DetectWithRevControl` with the detectors, as operators on a tree of folders. `Search` is the loop of
  `FindFileOrDirectory`, a recursive function on the folders.
* `Params`: what the pipeline reads from flags and config, as operators on the settings viper found.
* `Pipeline`: batches of heartbeats through `initHandleOptions`, option by option: `Filter`; `SkipLocal`,
  `CreateTemp`, `Download`, `DownloadFails`, `Fallback` (`remote.WithDetection`); `ReplaceKeys`; `Describe`;
  `DetectProject`, `CheckFile`, `CreateFile`, `WriteFile`, `WriteFileFails` (`project.WithDetection`, whose hiding of
  names reads and writes shared project files); `Exclude`; `Sanitize`; `Cleanup`; `Send` (or queue, or both when the
  answer of a request is lost); `Sync` is a later sync of the queue. What is shared by the batches is `contents` (project files), `temps` and `queue`.
* `OfflineQueueProofs`, `OfflineSyncProofs`, `HeartbeatCommandProofs`, `BackoffProofs`; `ProjectDetectionProofs`, which
  `PipelineProofs` extends, `HeartbeatProofs` that one, and `BatchProofs` that one: theorems. `MCOfflineQueue`, `MCOfflineSync`,
  `MCHeartbeatCommand`, `MCBackoff`, `MCPipeline`: instances.

`OfflineSync` uses the queue as `AtomicQueue` promises it, and `OfflineQueueProofs` proves that
`OfflineQueue` keeps that promise. The one call that does not return, the push of an id the
bucket refuses, is excluded there (`Unstorable = {}`) and shown by `queue_hang`. `HeartbeatCommand` has the
same queue and takes the handling of an answer as one step, which `OfflineSync` has in detail.

Operators whose comment says *Mutant of* are plausible bugs: each property fails when its mutant
replaces the definition it is a mutant of.

## Runs

| Run | Asks | Bounds | Result |
|---|---|---|---|
| `queue` | is the file an atomic queue, does every call return | 2 clients, 4 ids of which one unreadable and one refused, batches `{1,3}` and `{4}`, limit 2, 3 tries | holds |
| `queue_hang` | is every push given up after its tries | same | violated |
| `sync` | is a heartbeat dropped, doubled, sent again after an answer; are small limits kept; does each sync end, is each heartbeat settled; do they all implement `HeartbeatLife` | a sender of 2 and syncs with limits 1 and 0, 4 heartbeats, 2 per request, 2 faults, one key | holds |
| `sync_two_keys` | the same loss property with two API keys | same, heartbeats 1, 2 with the later key | violated |
| `sync_limit` | is every limit kept | a sync with limit 3 | violated |
| `commands` | is a heartbeat forgotten, is a disabled queue touched, does each command exit | 2 commands with 3 and 1 heartbeats, 1 in the legacy file, each queue disabled or not, 2 per request, unlimited syncs, rate limit 1, time to 2, 2 faults | holds; forgotten are only unsaved extra heartbeats and what came back into the legacy file before its removal |
| `commands_extra` | are extra heartbeats awaited | a command of 3 heartbeats | violated |
| `commands_save` | are rate limited heartbeats saved | as `commands` | violated |
| `commands_legacy_limit` | do heartbeats leave the legacy file only to be sent | sync limits 1 and 0, a legacy heartbeat | violated |
| `backoff` | are retries and time set together, each failure counted once, each backoff due and over in the end; does every write return; are heartbeats queued after an error | 2 processes, one with an NTLM proxy; 2 failed requests, 1 fault; time 4 and 7, factor 1, maximum 2 | holds |
| `pipeline` | are temporary files deleted, names and paths hidden, keys kept, project files of the user left alone, heartbeats given to the command accounted for | 2 batches of up to 2 heartbeats, 13 folders, 5 settings, 3 sets of project files, 2 faults | holds |
| `pipeline_path` | is a full path never sent with `hide_project_folder` | same | violated |

*Why the bounds suffice.* Two clients show every conflict on one lock; the limit 2 of 4 keys makes a
pop partial and lets the unreadable value be first, second or beyond the batch. `SendLimit` 2 and
four heartbeats make a sync take several batches and a partial answer split one. `MaxFaults` bounds
how often the API, the queue or a process fails; two failures fail a request *and* the push after
it, or crash two processes. Two commands and two instants show a stamp another command wrote after
this one read it, and a command that is or is not limited at each of its two looks at it. `sync` has about 102,000
distinct states, `commands` 635,000, `pipeline` 546,000. What is also proved holds without these bounds.
In `backoff` the exponents that matter are one retry (2 s, within the maximum) and two (4 s, beyond it), and time moves
past the end of either; two processes suffice for one to read, or overwrite, what the other writes. In `pipeline` the tree
has a repository with a submodule and a worktree and one project of each other system; each of the five settings hides or
excludes by another mechanism; two batches suffice for two writers of one project file, of one process or of two.

*Fairness.* `FairSpec` of the modules: a process that can step does (the system schedules it, and
bbolt and HTTP calls return or time out). Starting, failing, crashing, the goroutine that saves
extra heartbeats and the clock are never forced.
`KeepsRunning` of `Backoff` adds that time goes on and that editors start the program again, both of which a backoff needs to
end; that a writer comes past a held mutex is `defaultTimeout` (5 s).
`KeepsSyncing` also repeats each sync: it is the "next usages of the wakatime cli" of the doc of
`WithQueue`, without which nothing queued is ever sent. The liveness results hold because faults are
bounded: an API that answers every heartbeat with a 5xx status for ever makes `Sync` pop what it
pushed for ever, since nothing in its loop notices.

## Proofs

All for any number of processes, ids, limits and failures.

* `OfflineQueueProofs`. The inductive invariant `IInv` is the type invariant, `OneTransaction`, and
  `ClientInv`: what holds of one client's call, result and view at each place. `NoLostUpdate` is
  not inductive alone: that a transaction's view is current when it commits follows from nobody
  else being inside, and that from the lock. From `IInv` follow `TypeCorrect`, `MutualExclusion`,
  `NoUpdateIsLost`, `UnreadableStays` (`[][..]_vars`), and `ImplementsAtomicQueue`: one lemma per kind of
  step says which abstract step, or stutter, it is.
* `OfflineSyncProofs`. `PlaceInv` gives `SyncTypeCorrect` and `HeartbeatsInOnePlace` for any API keys;
  it needs that a heartbeat is not both requeued for its status and kept as a leftover
  (`PlacesApart`), whatever the pairing. Under `SingleKey` (all heartbeats have one API key)
  `Pairing` shows that index `n` of the results answers index `n` of the batch, and `SettleInv` gives
  `NothingLostSilently` and `SettledOnce` (again only after a lost answer). The hypothesis is needed: `sync_two_keys` violates the
  conclusion without it. `ImplementsHeartbeatLife` needs `LostInv` besides, that what is lost is nowhere else: otherwise the API could take
  a lost heartbeat, which the abstract specification does not let it. Each step then maps to one that creates, takes, settles, stores or
  loses heartbeats, to a mere failure, or to none. `SmallLimitsRespected` rests on `OldestCount`: a pop for `n` takes no more than `n`, for the places of
  what it takes are different numbers below `n`; `CountInv` adds that `alreadySent` counts what was taken whenever the limit is
  below `SendLimit`, which is all the loop of `Sync` has to go by.
* `HeartbeatCommandProofs`. `CommandTypeCorrect` needs that a sync always has a file (`SyncFile`). `DisabledCommandKeepsOut`
  strengthens its property to `OutInv`: nobody else ever holds a heartbeat of a command with a disabled queue, and that command
  never gets to its sync. For `OnlyExtrasAreForgotten`, `MemoryInv` says what a command may have in memory at each
  place, and `Conserved` that a step puts everything somewhere. It holds if no sync has a limit (`Unlimited`): then `LateInv` says
  that what is in a legacy file about to be removed came back after the last look into it. With a limit, `RemoveLegacy`
  removes heartbeats that were never looked at, and `OthersAreRemembered` shows that this is all that is forgotten besides.
* `BackoffProofs`. `TypeInv` has the types of all that is read, loaded or about to be stored. `FailuresCountedOnce` bounds each
  of these by the history of failures, so that no mixture of two saves can exceed it. `ConfigPaired` follows who has the mutex and when
  the file is empty, up to the first writer that goes on without it. `BackoffIsJustified` needs no arithmetic of exponents: a
  delay is in `0 .. MaxBackoff` or there is none. `HeartbeatsTakenOrQueued` follows the fate of a process' heartbeats by its place.
* `ProjectDetectionProofs`. TLA+ gives a recursive function a value even if its equation has no solution. `SearchEquation` shows that
  the one of `Search` has: the largest set of folders closed under parents on which it could be solved is everything, or
  `UpwardAssumption` would name a folder outside it whose parent is inside. The lemmas then say of `Nearest` what the program relies on: it is
  in the set looked for, has the path within it, and is found exactly if something above the path is in the set; and of each
  detector, which folder it names and when that folder is above the file.
* `PipelineProofs`. `UserFilesKept`: whoever is about to write a project file has seen that its user has none there (`Cautious`),
  and what was so at first stays so. `Batch` says that an option is never called without a heartbeat.
* `HeartbeatProofs`. The inductive invariant `HeartInv` says what each heartbeat is like at the option it waits for (`Good`): its key is one
  for its path once `WithReplacing` has seen it, its project's name and folder are as the detectors leave them once `WithDetection` has
  (`Named`, `Placed`), its path is as sanitizing leaves it after that (`Hidden`). Those queued and sent keep all of it (`Done`), those
  sent have a key that `Paid` allows. `HiddenNames`, `HiddenPaths` and `ProjectKeys` follow. None of them is inductive: each looks only at what
  was sent, and rests on what an option did to heartbeats that were still under way. `Placed` is the one
  that needs the detectors: a project's folder is above the file unless a link, a URL or the editor led elsewhere.
* `BatchProofs`. `BatchInv` follows whole batches. The heartbeats under way have different ids (`Apart`) and are among those given; each
  that was given is under way, queued or sent, or there is a `Reason` (`Complete`); a failure was counted before a remote file's
  heartbeat is dropped (`Fetching`); the temporary files are those of the heartbeats under way (`Owned`), for which the ids must be different:
  otherwise the deletion of one file would take another heartbeat's. `PipelineTyped`, `TempFilesDeleted`, `NoneForgotten` follow.
  `NoneForgotten` speaks of all heartbeats the command was given, before `ParseExtraHeartbeats`; `ParsedGiven` and `BuildLength` say that none is missing from
  the batch unless one could not be parsed. That a heartbeat may only be left out as of an unknown project if none is found for it with its user's files needs
  `NameInv`: project files the batches write never make a project unknown (`DetectEarly`).

The assumptions are the named `ASSUME`s: ids are finitely many naturals, unreadable values were not
written by the program, commands create distinct heartbeats, limits are natural. Those of the pipeline: every way up through the parents
ends at the root (`UpwardAssumption`: a path has finitely many components; the code gives up after 500 of them, which is left
out); a project file is a sequence of lines, and is not none (`FileAssumption`); a local file's path is absolute, as `WithFormatting` has made it, so that
it is in the tree, and the heartbeats of one command have different ids, as their times differ (`InputAssumption`).

Every invariant and action property of a passing run, and each refinement, is stated by a theorem. Only model-checked are the liveness properties
(`CallsReturn`, `SyncEnds`, `Settled`, `CommandEnds`, `WritesEnd`, `Recovers`), which are out of the prover's reach.

## Findings

* `pushHeartbeats` does not end its transaction when `PushMany` fails, and `db.Close` waits for it: the
  process hangs with the file lock (`queue_hang`). Others time out after 30 s and go on (`CallsReturn`).
* With several API keys the results are paired with the wrong heartbeats (`sync_two_keys`).
* A sync limit of `SendLimit` or more is not kept (`sync_limit`).
* The goroutine that saves the extra heartbeats is never awaited: its condition looks at a slice already
  cut to `SendLimit` (`commands_extra`). `commands` shows that this, and the removal of the legacy file below, is how heartbeats are forgotten.
* `SaveHeartbeats` has no error for a failed push, so a rate limited command neither saves nor sends
  (`commands_save`).
* A file in a submodule keeps its full path under `hide_project_folder`, because the submodule's folder is taken from its git
  directory (`pipeline_path`); `PathsHidden` says where else this happens: worktrees, Subversion, a project path that is not above
  the file.
* The legacy file is removed after a sync that stopped at its limit, with what is in it
  (`commands_legacy_limit`). With no limit it is removed with what another command put back meanwhile (`late` in `commands`).

## Abstractions

Bodies, texts, logging and backoff times of requests are left out. An answer has at most one result
per heartbeat of its group (surplus results are dropped by the code when there is one key). A commit that
reports an error wrote nothing. `openDB` recovering from a panic is an error without the lock. A file lock
given back and a timeout that came just before it are the same `OpenError`. Heartbeats of different
commands have different ids (their times differ). In `HeartbeatCommand` a heartbeat saved twice by one command
has one id; in the code the second copy has a newer time when none was given. Flags that make no heartbeat,
and a panic other than as a kill are left out there, and the backoff is one of the errors of `RequestFails`. There
`settled` is what an answer has settled: a heartbeat whose answer was lost is one that failed.

*Met while modelling, with no document against them* and therefore only stated in comments or as exceptions of a property: a
second failure through an NTLM proxy panics and its heartbeats are neither sent nor queued (`TakenOrQueued`); a heartbeat queued with
a hidden path loses the API key of its project (`KeyOfPath`); a project file read while another process writes it gives the
folder's name (`NamesHidden`); one extra heartbeat that cannot be parsed drops all of them (`Accounted`);
a heartbeat whose answer was lost is sent twice (`NeverSentAgain`); a batch put back into the legacy file just before its removal is lost (`OnlyExtrasForgotten`); the folder of a Mercurial or TFVC
project is the parent of the project, so the file with its random name lands there and names its neighbours too.

In `Backoff` a start that does not back off makes one request; a push to the queue is one step and does not fail. In `Pipeline`
regular expressions are the sets of folders they match, files are told apart by their folder, one name stands for any
random name, an option that can neither drop a heartbeat nor touch what is shared is one step for its batch, and being a prefix is being an ancestor
or being the root. Deleting a
temporary file does not fail. All processes have one configuration. Entities are real paths already, and Windows is left out.

## Not modelled

* `pkg/heartbeat/language.go`, `pkg/language`, `pkg/lexer` and the parsers of `pkg/deps` are over half of the code: an enumeration of
  languages with its conversions and lexers over file contents. They keep no state and meet nobody; what they return is only carried along.
  This bounds the share of the code the modules can stand for.
* Dashboards, `--config-read`, `--config-write`, `--user-agent`, printing and counting: one request or one read and its rendering.
* Logging, diagnostics, the SSH connection of remote files, certificates, proxies other than NTLM: input and output.
* Parameters no module uses: time, entity, language, URL, timeouts, proxies, offline limits (taken as given).

## Plan

What is left: a composition of `Pipeline` with `OfflineSync`'s queue instead of a set. `Backoff`'s liveness for any factor stays with TLC.
