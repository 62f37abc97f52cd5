# xclaude-gateway: TLA+ models, checks and proofs

xclaude-gateway puts a wrapper process (`packages/proxy`) in front of every MCP
connector of Claude Desktop, records what passes through it in a local audit
trail, records Claude Code through a hook (`xcg-cchook`), and shows the trail in
a desktop app (`apps/desktop`).  Nothing is a server: several short-lived or
long-lived processes of the same user share files, a Keychain item and a few
timers.  What can go wrong is therefore almost entirely a matter of two
processes acting on the same path between two system calls, of a crash between
two writes, and of what is left pending when a process shuts down.

The source is translated, not its documentation: `PROJECT.json` ("map") names the
lines each definition stands for.

## Inventory

| Component | State | Operations | Talks to |
|---|---|---|---|
| Claude Code capture: `xcg-cchook` (`cchook.ts`, `cchook-cap.ts`) and the ingester (`cchook-ingester.ts`) | one file per hook call in `claude-code/spool/`; `ingest-state.json` (watermark), `sessions.json`; one trail file per session | hook: cap check, redaction, exclusive create; app: 15 s cycle, append + fsync, state, unlink | hooks and app share the directory only |
| Spool-dropped counter (`cchook-cap.ts`, `cchook-dropped.ts`, `recovery-writer.ts`) | `spool-dropped` (one byte per event), `spool-dropped.taking.*`, the notice file | hook appends a byte; the pass renames, measures, records, adds to the notice, removes; the user dismisses | hooks and app |
| Refresh lock (`refresh-lock.ts`) | one lock file per connector | acquire with O_EXCL, stale verdict, reclaim by rename, release | every wrapper and login of a connector |
| Token refresh (`refresh-fetch.ts`, `oauth-provider.ts`, `keychain.ts`) | Keychain record, per-process token cache, recent-refresh memo | intercepted refresh POST under the lock, save, invalidate, retry | lock, Keychain, authorization server |
| Interactive login (`login.ts`, `oauth-authorized.ts`, `login-runner.ts`, `connect-handler.ts`) | client and token records, the callback's tab, the reference of the last authorization | register, authorize, exchange, persist, record, connect | Keychain, browser, desktop app |
| Proxy lifecycle (`main.ts`, `shutdown.ts`), both routes | child process or HTTP transport, tail buffers, single-flight shutdown | start, forward, signals, exit, teardown, terminal event | trail, NER worker |
| NER detector (`detection/ner/async-detector.ts`) | queue of at most 256 jobs, one in flight, forked worker | submit, answer, skip, death, terminate | proxy lifecycle |
| Frame observation (`frame-processor.ts`, `latency.ts`, `parser.ts`, `events.ts`) | request id maps, tripped output | classify, pair, mask, truncate, emit | trail |
| Detection and masking (`detection/`, `cchook-ingest.ts`, `cchook-spool.ts`) | the salt of the install, the key each process cached | match, strip, mask, report | both routes into the trail |
| Connector-surface baselines (`detection/section-store.ts`, `manifest*.ts`) | a v1 and a v2 file per connector | read, compare, review, migrate, replace | every proxy of one connector, of any build |
| Trail compaction (`compactor.ts`) | `wrappers/*.jsonl`, one day file per day | group by day, append, fsync, re-stat, unlink | writers of the trail |
| Retention (`retention.ts`, `index.ts`, `SettingsDrawer.tsx`) | the mode in `settings.json`, its cache, the size, the markers | choose, sweep by age, tell | writers of the trail, drawer |
| Audit store and list (`audit-store.ts`, `detection-reader.ts`, `detection-page.ts`, `useDetectionPage.ts`) | per-file offset and parsed events, pages shown | refresh, invalidate, filter, page | the same files, read only |
| Connector changes, notifications, relogin (`connector-changes.ts`, `change-notify.ts`, `relogin-notify.ts`) | cache per file, marks, what was notified, the tray counts | read, mark, notify once | trail, tray, view |
| Hook installation and integrity (`cchook-install.ts`, `cchook-integrity.ts`, `claude-settings-write.ts`) | `~/.claude/settings.json`, its copies, the memory of the check | install, update, remove, probe, notice | Claude Code, the user |
| Claude Desktop / Claude Code configuration (`shared/src/config`, `config-cc`, `health-handlers.ts`) | the two configuration files, the backup, the stable link | plan, wrap, unwrap, add, repair | user and the Claude apps |
| Self-test (`selftest-runner.ts`) | a wrapper of its own, a deadline | start, send, read back, end | proxy, trail |
| The window's sources and gallery (`App.tsx`, `usePolledConfigStatus`, `Setup.tsx`, `ConnectorInspector.tsx`, `AddConnectorModal.tsx`, `ConnectorSetupWizard.tsx`) | two results of the poll, exclusions, notices, what each card says, a wizard's page | poll, compare, remove, reconnect, open, ask, add, set up | configuration, Keychain, hook |
| Desktop shell and the rest of the renderer | windows, timers | start-up order, IPC | everything above |

### What is hard here

* **Two processes between two calls**: the ULID that orders a spool file is minted
  before the file exists; the counter is renamed while a hook holds it open; a
  stale-lock verdict and the rename that acts on it are two awaits; two wrappers
  of one connector refresh the same rotating token.
* **Crashes and half-done writes**: append, state, unlink are three calls; an
  append can be cut in the middle of a line; a refresh token is spent by the
  server before it is saved.
* **Ordering by name**: the watermark is a ULID, so everything that makes a later
  name be processed first (a skipped file, a slow hook, a clock stepped back)
  turns into deletion.
* **Shutdown**: what is queued for the NER worker, buffered in the splitter or
  still flowing from the child when the terminal event is written.
* **Retries and timeouts**: fail-open locks, the SDK's second attempt after an
  invalidation, polls that must end, a self-test against a wrapper that hangs.
* **Files others own**: the Claude apps, the user and two copies of this program edit
  the same JSON files without a lock.
* **Incremental views**: what is cached or shown was true when it was read; the
  files move, shrink and are rewritten, answers come late and out of order.
* **Text that must not be kept**: two routes, three generations of hooks, cuts in the
  middle of a payload, ids that print alike.

The full list, line by line, is `PROJECT.json` ("hazards").

## Modules

### CcSpool (with CaptureLedger, SpoolLockProofs)

Every file-system call of the hook and of the ingest cycle is one action.

| Module | Code |
|---|---|
| `hpc`, `name`, actions `CheckCap`, `Drop`, `Mint`, `Create`, `Write`, `HookDies` | `runCchook`, `spoolOverCap`, `recordSpoolDrop` |
| `file[u]` | the life of `spool/<ulid>.json`: minted, created empty ("partial"), whole, gone |
| `pc`, `todo`, `cur`, `got`, `wm`, `sess` | the locals of `drainSpool` |
| `dwm`, `dsess`, `seeded` | `ingest-state.json`, `sessions.json` and whether each exists (a first write is not atomic, a later one is a rename) |
| `torn`, `copies`, `filed` | what the trail holds: files ending in a cut line, readable copies of a capture, files of a session |
| `window[u]` | history: why a capture could be lost |

A ULID is a number; `Span` of them share a millisecond; numeric order is the
order of the names.  A trail batch is represented by its first line.

`CaptureLedger` is what the path promises: a capture waits, is recorded at least
once, and is retired only when recorded or when it was *exposed*.  `CcSpool`
implements it (`LedgerSpec`) with the spool file as the waiting entry.

The four windows of `LossOnlyInWindow` are the only ways a capture disappears:
`late` (its file appears below the watermark because its hook was slow),
`half` (the app read it between the hook's create and write), `skipped` (an error
left it behind and a later file moved the watermark over it), `glued` (its first
line was appended right after a cut line of a failed append, and cannot be
parsed).  The last one means that after a torn append the state can advance past
a capture nobody can read; the property names it instead of hiding it.

### SpoolDropped

The counter is a set of inodes: a hook's byte goes to the file it opened,
whatever its name has become.  The pass (`List`, `Stat`, `Line`, `Notice`,
`Unlink`) is synchronous in the app, so only hooks and a crash interleave.
`CountKept` joins what is lost, what is repeated and what is told: a drop is in the
trail or still in a file of the next pass, unless its hook opened the counter before
it was taken and wrote after it was measured; without failures none is recorded twice
and the notice says what the trail says.

### RefreshLock

A lock file is an inode, so that a process can act on a path that has come to name
another file.  Ageing (30 s) is a step of the environment that may happen at any
moment; polling is counted to `MaxPoll`; a dead owner's pid may look alive
("reuse").  Release is by pid.  Renames that fail
("rename") are in the model but in no run: `refresh-lock.ts:110` goes back to the
open without the deadline check of line 113, so a stale lock that can never be
renamed away is retried for ever, and `AlwaysAnswers` fails as soon as that fault
is allowed.

### TokenRefresh

The refresh of one connector's tokens by several wrappers, over the lock of the
previous module seen by what it gives (held by one call, taken over, given up).

| Module | Code |
|---|---|
| a number `n` | a token set as the server issued it, with its refresh token; `root[n]` is the login it descends from |
| `kc`, `cached`, `cache`, `saved` | the Keychain item; `tokensCache` (null, or a value) and `lastTokensSaveAt` of each process |
| `call[c]` | the locals of one `auth()`: `req` is the refresh token of the SDK's POST, `grant` the one that is spent, `res` the set of the response |
| `LoadRead`, `Load`, `Begin` | `tokens()` on both sides of its await, `discoveryState()` |
| `Acquire`, `TimeOut`, `Steal`, `Reread`, `PostOk`, `PostRejected`, `PostLost`, `Persist`, `Release` | `createRefreshFetch` |
| `Save`, `AnswerGrant`, `AnswerError`, `Retry` | the SDK on the answer, `saveTokens`, the repeated request |
| `InvalidateRecent`, `Invalidate`, `Check`, `Delete` | `invalidateCredentials('tokens')`, one action per await; a read that fails in `Check` goes on to the deletion |
| `GiveUp`, `Exit` | `oauth_failed` and the shutdown `auth_failed`; the client starts the wrapper again |
| `live`, `minted`, `reused` | the server: it always rotates, rejects a spent token, and may revoke the whole grant on seeing one |

`window[g]` names what may make a grant be lost or one of its tokens be spent
twice, and the two invariants say nothing else does: `unlocked` (a POST of a
call without the lock: it timed out, was taken over, or a sibling released by
pid), `stolen` (the lock went from a call with a set still to store), `lost` (the
server rotated and the answer never came), `unsaved` (the Keychain refused),
`overwritten` (`saveTokens` runs after the lock is released and puts back a set
that has been rotated away meanwhile: the header of `refresh-fetch.ts` calls this
save idempotent, which holds only while nobody else takes the lock in between),
`wiped` (the item deleted was a fresh one), `killed` (the process ended with a set
to store), `replaced` (a login and a refresh of the grant before it).

Abstracted: one authorization server (issuer binding), the client item, and the
clocks. A stored access token may be usable or not whenever `accessTokenUsable`
is asked, the ten seconds of `RECENT_REFRESH_MS` may be over at any time, and the
lock's 15 s and 30 s may run out at any time.

### NerQueue and StdioWrapper (with StdioWrapperProofs)

`StdioWrapper` extends `NerQueue`: the wrapper calls `Enqueue` for every request it
records and `Terminate` in its shutdown, and stops the detector's events when it
exits. A step is one callback of the event loop with the microtasks behind it.

| Module | Code |
|---|---|
| `ready`, `alive`, `inFlight`, `queue` | the fields of `AsyncDetectorNer` |
| `Enqueue` (`Refuse`, `DropNewest`, `Accept`), `Drain`, `ReceiveReady`, `ReceiveReply`, `OnWorkerDeath` | `enqueue`, `drain`, `handleMessage`, `onWorkerDeath` |
| `worker`, `task`, `inbox`, `exitDue`, `errorDue` | the forked process, its ordered messages, and its `exit` and `error` events, which may come before or after them |
| `Terminate`, `TerminateTimeout`, `term` | `terminate(1000)` and its timer |
| `pend`, `Track`, `Match`, `Key` | `InflightTracker` and `requestMethods`, which hold the same keys |
| `child`, `childAlive`, `out` | the MCP server, whether its `exit` event has been seen, its stdout pipe, which outlives it |
| `sd`, `cause`, `GracefulShutdown`, `GraceTimeout`, `TermTimeout`, `Conclude`, `Exit` | `createGracefulShutdown`: the cached promise, the two races, SIGKILL, steps 4 to 6b, the end |

`entered`, `outcome` and `refused` are histories. A job has an outcome when a
result or a skip came, or a line `proxy.ner_dropped` was written for it; results
name their own job, errors the job in flight, as in the code. `JobsInOrder` says
the accepted jobs are exactly the outcomes followed by what is in flight and
queued.

Left as they are: `terminate()` clears `alive` before it kills the worker, so that
jobs still queued leave no line, where `shutdown.ts:190` expects one
(`proxy.ner_dropped`, `proxy.ner_worker_died`); a write to a child whose stdin is
closed (`childStdin` has no `error` listener, so an EPIPE ends the wrapper without
a terminal event: for `Compactor` it is a killed wrapper); `proxy.ner_dropped` names
an id without its direction.

### HttpWrapper

The other route: `runHttp`, from the first connection to the exit.

| Module | Code |
|---|---|
| `phase`, `first` | starting, open, closing (`shuttingDown` is set), exited; what called `runHttpShutdown` first |
| `at[m]` | what the client writes: its requests and notices, and its replies to what the server asks (`unasked` until then): sending, accepted (2xx), answered, refused |
| `told`, `trail` | answers written to the client, lines of the session |
| `SendFails`, `AnswerForwardFailure`, `RunHttpShutdown`, `TearDownTail` | the `catch` of `stdioServer.onmessage`, `answerForwardFailure`, `runHttpShutdown` and what it awaits |
| `RemoteAsks`, `ClientSends`, `RecordedAs` | `httpClient.onmessage` with a question of the server; `stdioServer.onmessage`, which observes whatever the client writes: a reply is an `mcp.response` in the trail |
| `signIn` | history: whether the server refused the login, and whether since then it has answered (`alive`) or only the client has (`covered`) |

`EndTold` says that the session's end is told once and truly, that no request that
could not be forwarded is left without an answer, before the end where that failure
caused it, and that the alert to log in stands exactly until a successful response is
recorded after the refusal: the server's, or the client's own to a question of the
server, which the reader of the trail (`detection-reader.ts:322`) does not tell from
it. It speaks of what the code keeps: lines may still follow `proxy.shutdown`
(`compactor.ts:6-8` calls it terminal), and a request whose event stream is lost after
the POST was accepted stays open.

### TrailText, LaunchArgs, FrameTrail, HookTrail and ShellCommand

What is written into the trail, by both routes. A text is the set of what it holds
(a credential, its mask under this or another key, what a user typed, what the
injection rules match, parts of a URL), which is all the masking can tell apart.

| Module | Code |
|---|---|
| `TrailText` | `engine.ts` and the detectors' order, `masking.ts`, `redactionFor`, the whitelist of an elicitation |
| `LaunchArgs` | `launch-redaction.ts`: which tokens of the server's command line are recorded, flag by flag |
| `FrameTrail` | `parser.ts` and `frame-processor.ts`: each kind of frame, the pairing by `requestMethods`, `EventSink.emit` (mask, then leaf by leaf truncation), the child's stderr |
| `HookTrail` | `cchook.ts`, `cchook-spool.ts`: strip, mask, cut; `cchook-ingest.ts`: read back, translate, classify; the salt and the cached key of both processes |
| `ShellCommand` | `audit-trail-modification.ts`: segments, utilities, options, redirections and the current directory, beside the reading a shell would make (`RealOps`) |

A payload may come from three generations of hooks (`raw`, `v1`, `v2`), from an
entry with or without `--event`, and cut at the size limit before or after its
event is named. `FrameTrail.lines` holds only what the last frame appended: the
trail only grows.

`TrailClean` is of what both routes leave: what a user typed is in no line, with the
exceptions named (`raw` hooks, an entry without `--event` cut early, two ids that print
alike), and a credential is reported where it was and nowhere else, and is in clear in no
line but what no detector reads of an unmasked spool file. `TamperingReported` compares
what the detector finds in a Bash command with what a shell would do, for literal
paths and a directory that is followed by `&&`.

### Compactor

One session file per ULID, one day file per day. A line is its id. The scan's
stat and read, the load of the day file, the append, the fsync, the second stat and
the unlink of each source are separate steps, and the sweep, the wrappers, kills,
crashes and power losses come between any two of them; the Claude Code ingester
runs before the compaction of the same cycle, so it only writes when `pc` is idle.

| Module | Code |
|---|---|
| `present`, `text`, `torn`, `mtime` | the session files: names, whole lines, a piece of a line at the end, last write |
| `ended` | a terminal line is in the file (`proxy.shutdown`, `proxy.child_exited`, `SessionEnd`) |
| `writer` | a wrapper: running, still writing after its terminal line, gone |
| `dtext`, `dopen`, `synced` | the day files: lines, no newline at the end, how much an fsync covers |
| `pc`, `todo`, `token`, `batch`, `cur`, `ids`, `payload` | the locals of `scanCandidates` and `runCompactionCycle` |
| `sweeping` | the targets of `collectPurgable`, not yet unlinked |

`NothingLost` has four windows: `gap` (a line written between the second stat and
the unlink), `orphan` (a line written to an unlinked file that a live wrapper holds
open), `swept` (a line or a day's lines that went into a file after the sweep had
stat'ed it) and `unsynced` (a power loss after the fsync was skipped because the
lines were found in the day file). The comment of `runCompactionCycle`
(`compactor.ts:545`) says a live wrapper's file is never a candidate; a wrapper
silent for more than seven days is one (`compactor.ts:255`), which is how `gap` and
`orphan` come about without any other writer.

Abstracted: the freshness token is the size (every write grows a file, and none is
created again within a cycle); the second directory fsync, whose loss would bring
an already copied source back; the durability of the session files themselves,
which is their writers'; the name of the day file.

### AuditStore and DetectionPage

`AuditStore` is `audit-store.ts` with the re-login notices that live on its answers;
`DetectionPage` the list's hook and the page the main process cuts for it.

| Module | Code |
|---|---|
| `disk`, `rest` | the files, which grow by half lines, so that a read can end inside one |
| `cache[f]` | `FileCacheEntry`: offset, pending tail, parsed events, signals |
| `Stat`, `Read`, `ReadFails`, `Assemble`, `pend`, `ref` | `refreshFile`, `refresh`, the invalidations that wait for a refresh in flight, the shared promise |
| `Parse`, `Backfill`, `Signature` | `parseAuditContent`, the pairing of an answer with a request of an earlier read, the early exit when nothing changed |
| `tray`, `note`, `Announce`, `Save` | `runReloginPass`, `computeReloginTransitions`, the notified map and its file |
| `head`, `older`, `calls`, `Paginate`, `AnswerHead`, `AnswerMore` | `useDetectionPage`, `paginate` |

`CacheIsParse` is the implementation relation: what pieces gave equals what one full
read of the same bytes gives. Its exceptions are differences of the two readers as
they are: requests that share an id, and text cut inside a UTF-8 character.
`AnswerFaithful` says no answer misses an event that was there when its refresh
began, unless the compactor or the sweep moved it during that refresh. A `get()`
that joins a refresh already in flight may return what an invalidation made stale.
`PageWalk` leaves out an older page of another filter that comes late (nothing
cancels it) and a head that has slid away from the older pages.

### SurfaceBaseline

What the proxies remember of a connector's tools, prompts and resources: the v1 file
of older builds and the v2 file, each observation a read, a comparison, a write
(temporary file and rename) and the lines it owes, with two proxies interleaved
between these steps, clients that switch builds, failing writes, damaged files and
files of a newer format.

| Module | Code |
|---|---|
| `v1`, `v2` | `manifest.ts`, `manifest-v2.ts`: kinds of file, sections, `reviewed_with` (`rev`) |
| `proc[p]`; `Respond`, `SeedSection`, `Compare`, `Check`, `Rename`, `Emit` | `section-store.ts`, `manifest-sections.ts`, one action per call |
| `OldRespond`, `OldWrite` | `checkAndUpdate` of the builds that know v1 only |
| `PlanMigration`, `Migrate`, `SeedReviews` | `manifest-migrate.ts`, the review of what was stored before there were rules |
| `DescribeChanges`, `Marked`, `ScanRules` | `heuristics.ts`, `security-projection.ts`: which fields changed, which definitions the rules match |

`ReportedOnce`: nothing recorded is replaced without a line about it, and there are no
more lines of a section than times one observation differed from the one before.
`PoisonFound`: a definition the rules match is found, at whatever step it came. Each names
the windows it does not hold in. What may lose a line: a crash between the write and the
line, a damaged file, two proxies of which one writes over what the other has just
recorded, and three that belong to an upgrade or a downgrade:

* the v1 file could not be written, or a proxy of the newer build is about to write it for
  the first time, so the older build compares with nothing ("v1 lost", "v1 late");
* the app is downgraded, the older build records a change in the v1 file, and the app is
  upgraded again: the newer build compares with its own snapshot, which is from before the
  downgrade, and a server that has gone back to it changes in silence ("v2 behind";
  `section-store.ts:10-16` keeps the v1 file in step, and nothing reads it back);
* a result without its tools, which `section-store.ts:98-107` writes to the v1 file as an
  empty manifest: the older build then compares with that.

`PoisonFound` also names an edit of nothing but fields the v1 format did not watch, and
a change recorded under older rules, which the comments of `security-projection.ts`
("a field nobody thought was interesting is still examined") and
`manifest-sections.ts:134` ("the STORED snapshot is reviewed once") leave out.

### ConnectorChanges

How the changes are read back, collapsed, marked, announced and shown: the minute's
pass, the list of the view and the handler of a click read the trail file by file
over one cache and can all be half way at once.

| Module | Code |
|---|---|
| `cache`, `call`, `Stat`, `Read` | `ChangesCache`, the loop of `readConnectorChanges` with an await per file |
| `AggregateChanges`, `Collapse`, `StatusOf` | `aggregate`, `collapseDuplicates`, `foldReviewStatus` |
| `WriteMark`, `NoteAppended`, `Count` | the handler of `changes:set-review-status` |
| `Notifications`, `notifiedChanges` | `computeChangeNotifications`, `runChangesPass` |
| `ui`, `PageRows`, `asked` | `useChangePage`, `Changes.tsx` |

`ClicksHold` ties the click, the markers, the screen and the tray count;
`MarkNeverHidden` says that collapsing copies never shows a reviewed change as
unreviewed; `NotifiedOnce` holds across passes that overlap and restarts.

### ConfigFile, ClaudeConfig, ProxyCli and McpJson

`ConfigFile` holds the pure functions on a configuration (recognise, wrap, unwrap,
add, replace, remove, pin); `ClaudeConfig` runs the app's and the CLI's handlers on
`claude_desktop_config.json` step by step (read, back up, rename, link), with the
owner editing it between any two; `ProxyCli` is what Claude Desktop starts with an
entry (`cli.ts`, `main.ts`): what the composition is asked for (`UserEntriesKept`) is
that the entry a handler leaves, started, is the user's server. `McpJson` is the
optimistic write of `.mcp.json` (`config-cc`): stat, read, plan, stat, rename, read back,
one retry. Its `ServersKept` says what a foreign write loses: only one that came between
the last stat and the rename, which `writer.ts:18` declares. The two say the same of the
two files and are checked as one property, `UserServersKept`.

What the property excuses is what the code does, and each of these was met as a
counterexample of an earlier form of it. `wrapEntry` wraps any name and command, and the
strict `parseArgs` of `runStdioMain` refuses `--name` or `--wrap` followed by a word that
begins with "-": such an entry still unwraps to the user's own, but its wrap does not
start. An approved plan of another state of `.mcp.json` can wrap an entry whose command is
gone; the unwrap then gives an empty command where there was none (`CmdToken`). A bridge
that someone wrote by hand is re-homed like ours. An uninstall mangles a bridge, which has
a run of its own, `config_mangled`.

### Login

`login.ts` for each login, the browser's tab and the authorization server, the
connect handler, and the record of which server authorized. `tab` and `by` tell which
login answered the tab; `AuthServer` and `SendsIss` whether the answer names its
issuer. `LoginTruthful`: a tab that says "complete" was answered by a login that had
stored its tokens, and the trail says a change of authorization server exactly when
there was one, as long as the reference of the last record was written. A record that
fails (`login.ts:296-306`) leaves the login a success without a line.

### HookSettings

Install, update and uninstall of the capture hook in `~/.claude/settings.json`
(guarded read, copy, compare, rename, verify), and the 15 s integrity check with its
memory. `BytesKept`: the rename replaces bytes the app never read only when they came
between the comparison and the rename, and what it read is in a kept copy (unless the
clock was set back behind the copies' names). `NoticeTruthful`: a removal the memory
turned into a notice is in the trail first, and was made by somebody else, or by an
Uninstall of the app that ended before it was recorded. `HandMade` are the entries a user
may write by hand.

### Retention

The mode in `settings.json` with its other writers, the daily sweep up to each of its
awaits, the markers, the size and the drawer. `PurgeAsChosen` joins them: only session
files, under a mode in force since the sweep began, old by name and by last write, told
by a marker, and shown as such. Days are units of time, thresholds one and two; `Born` is the time
the name of a session's file bears.

### SelfTest

"Verify detection": the wrapper the app starts, the discovery of its file from its
stderr, the polling of the file against a deadline, the verdict, and SIGTERM then
SIGKILL. The wrapper may be silent, die, hang or write half a line at any moment.

### Sources and Gallery

What two parts of the window know of the connectors, against what there is. Both depend on
answers that come after the state they describe has changed.

| Module | Code |
|---|---|
| `Read`, `Tick`, `StatusArrives`, `answers` | the handler of `config:status`, `usePolledConfigStatus`: a request, its answer, a result that differs moves the pair on |
| `snap`, `drawn`, `Render`, `diffVanishedConnectors`, `pruneAgedRemoves` | the pair of results and the effect of `App.tsx` that compares them, once per rendering |
| `RemoveRemote`, `DeleteCredentials`, `Connected`, `AnswerArrives` | the handlers of remove and connect: the config first, then the Keychain, then the answer; `handleRemoved` with its exclusion and the leftover credentials |
| `inspector`, `Select`, `ConfirmRemove`, `Reconnect`, `Inspected` | `ConnectorInspector.tsx`, `Setup.tsx`: an inspector belongs to a listed connector and hears only the answer it asked for |
| `world`, `display`, `check`, `Query`, `CheckEnds` | the three effects of `AddConnectorModal.tsx` at each opening, one question after the other, and the states they set at the end |
| `handleConnect`, `handleInstallHook`, `Seeds`, `Ends`, `Answer` | the cards' buttons, what main writes, and who is there to hear the answer |
| `wizard`, `Back`, `Forward`, `Type`, `handleSave` | `ConnectorSetupWizard.tsx` |

`VanishedTruthful`: the notice "removed by another program" is true, except of names
removed here from a screen that was behind, or while another program wrote them
(`crossed`). The first is a behaviour of the
code: a second Remove of a connector, confirmed while the first one clears the Keychain,
finds nothing and answers "noop", which lifts the exclusion (`App.tsx:327`) before the
result without the connector is compared. The converse is not claimed: a removal that
spans an unreadable config, or two results rendered together, is never told.
`GalleryTruthful`: once the questions of an opening are answered, a card says what there is
unless somebody else changed it, a question failed, nobody was there for an answer, or the
source was added after its own question and before the last one.

## Runs

| Run | Module | Expectation | What it shows |
|---|---|---|---|
| `capture` (`Capture.cfg`) | MCCapture | pass | Two racing hooks, the ingester and the dropped-events counter with two failures or crashes: the watermark is backed by an append, a session keeps its trail file, every drop is counted or still on disk outside one named race, and the capture path implements the at-least-once ledger. Properties: `WatermarkBacked`, `SessionStable`, `CountKept`, `LedgerSpec`. |
| `live` (`Live.cfg`) | MCLive | pass | Under the timers' fairness: every spool file is removed or left by a crash, and disappears unread only in the named windows; every call for the refresh lock returns and two holders at once only follow a reclaim on an old verdict; a self-test ends, with its wrapper gone, however the wrapper behaves. Properties: `LossOnlyInWindow`, `Exclusion`, `Drained`, `AlwaysAnswers`, `SelfTestEnds`. |
| `refresh` (`TokenRefresh.cfg`) | MCTokenRefresh | pass | Three requests of two wrapper processes that got a 401, with one failure, login, crash or revocation at any point: no spent refresh token is presented, and the grant stays usable, except through a named window. Properties: `SpentOnlyInWindow`, `GrantKept`. |
| `wrapper` (`StdioWrapper.cfg`) | MCStdioWrapper | pass | A wrapper with two requests of the client and one of the server under one id, a NER queue of one place, and the child, the NER worker, the client and the signals ending in any order: detector jobs are accounted for in order, responses are paired with their requests, and the shutdown ends with one truthful terminal line. Properties: `JobsInOrder`, `Paired`, `RefusedExplained`, `ShutdownTruthful`, `ShutdownEnds`. |
| `compactor` (`Compactor.cfg`) | MCCompactor | pass | The compaction and the retention sweep against a live wrapper and the ingester, with two failures, kills, crashes or power losses: no line is lost outside the named windows or before its age, none is twice in a day file, and every file with a terminal line is compacted. Properties: `NothingLost`, `OncePerDay`, `Compacted`. |
| `audit_view` (`AuditView.cfg`) | MCAuditView | pass | The incremental reader of the trail and the list it feeds, while files grow by half lines, are compacted and purged: what it caches is what a full read would say, its answers neither go back nor invent, a failure is announced once, and walking the pages shows every detection once. Properties: `CacheIsParse`, `ToldOnce`, `PageWalk`, `AnswerFaithful`. |
| `connectors` (`Connectors.cfg`) | MCConnectors | pass | Two proxies that observe one connector across upgrades, faults and downgrades, and the app that reads, marks, announces and shows their changes with several calls half way at once: a change is reported once, a poisoned description is found at whatever step it appears, and a review mark is neither hidden, contradicted nor announced again. Properties: `ReportedOnce`, `PoisonFound`, `MarkNeverHidden`, `ClicksHold`, `NotifiedOnce`. |
| `config` (`Config.cfg`) | MCConfig | pass | Install, repair, uninstall, add and remove of the app and the CLI on one Claude Desktop file that its owner also edits, and the optimistic writes of the Claude Code file against another writer: the user's servers survive, the backup stays the file from before, and a repair that says it healed did. Properties: `UserServersKept`, `BackupFromBefore`, `RepairHeals`. |
| `desktop` (`Desktop.cfg`) | MCDesktop | pass | Two logins with servers that name themselves or not, the hook entries of a settings file that others write too, the cleanup of the trail, and the window's list and gallery of sources over the same config, with failures, restarts, answers on their way and changes of mind: the page the user sees, the file, the cards, the notices and the cleanup say and do what happened. Properties: `LoginTruthful`, `BytesKept`, `NoticeTruthful`, `PurgeAsChosen`, `VanishedTruthful`, `GalleryTruthful`. |
| `trail` (`Trail.cfg`) | MCTrail | pass | Everything that reaches the trail by either route, wrapper frames and Claude Code payloads of three generations of hooks: nothing a user typed and no credential a rule knows is kept, a Bash command that touches the data folder is reported, and an HTTP wrapper tells its end and its want of a login. Properties: `TrailClean`, `TamperingReported`, `EndTold`. |
| `config_mangled` (`Config_mangled.cfg`) | MCConfig | violation | Uninstall turns a bridge to a remote connector into a local server whose command is the option "--url", with the address lost. Properties: `NoEntryMangled`. |
| `answer_kept` (`Trail_answer.cfg`) | MCTrail | violation | Two open requests of the server whose ids print alike (1 and "1"): the answer to the elicitation is recorded as it was typed. Properties: `AnswerNeverKept`. |

Modules that share nothing are checked in one run where their questions are alike:
the MC module then holds a variable `scene`, chosen at first, that says which of them
moves, and the others rest in one state. Nothing is composed by it: such a run is the
sum of its parts, and each part's property speaks of that part. Where components do
interact the model composes them: `StdioWrapper` with `NerQueue`, `Compactor` with the
sweep and the ingester, `AuditStore` with the compaction and the sweep as its
environment, `ClaudeConfig` with `ProxyCli`, `HookTrail` with `TrailText` and
`ShellCommand`, `FrameTrail` with `LaunchArgs`, `CcSpool` with the ledger it implements.

`CHECK_DEADLOCK FALSE` stands where a behaviour may end: a process has exited, a
bounded environment has no step left, or the finite feed of lines is used up.

### Bounds

* Two hooks are what every window needs (one slow, one fast); three ULIDs give a
  middle one that is overtaken on either side; two failures let a retry fail too.
  Hooks are symmetric and only their interleaving counts. The liveness run takes one
  failure and a clock that may step back.
* Two counter files and three open hooks let one file be taken while another is
  created and a third drop straddle them.
* Two lock callers and three calls: an owner, a contender with an old verdict, the
  owner's second lock. Two examples for the self-test: one found, one missing.
* Three refresh calls: two share a process, its cache and its pid, the third
  contends from another; three token sets let a set be rotated away twice, so that
  a late save can put back a spent one. One failure: each of the eight kinds is
  met at every step.
* Three requests under one id and a queue of one place: one job in flight, one queued,
  one dropped; both directions of the same id at once, and its reuse.
* A wrapper's file and a Claude Code file of one day with one line each, two failures:
  a batch can be cut between the files' lines, a crash can be followed by a power
  loss or a failing retry. Three units of time: silence (one), retention (two).
* Three files for the reader: one that the compactor moves, its day file, one whose ten
  lines reuse ids and answer in later reads; half lines make every cut. Five events and
  pages of one row: two older pages and a hole in the middle.
* Two proxies, two sections, three observations, two moves of the server, three switches
  of build, one failure (none in a behaviour with the third switch): an edit and its undo,
  an upgrade, a downgrade and an upgrade again with an observation by each build. Two clients
  at once keep their build, one client switches it. Two passes, two clicks, two views and two failures over four files.
* Two servers, three operations, one edit of the owner, one failure on the Desktop file:
  install, repair and uninstall in any order by both programs. Two updates, three
  foreign writes on the other: the first attempt, its retry and a write in the window.
* Two logins, one with a server that names itself; three writes to a settings file of
  two events; two session files, three units of time, two changes of mind.
* One connector, two removes or connects, two messages on their way, one write of another
  program: an answer before and after the poll it belongs to, a second remove. In the
  gallery two cards, one of which needs a client, one call and one change of others at a
  time, and one kind of card in each behaviour (the other two rest). The proofs drop
  these bounds: any connectors, cards, calls and messages, and all kinds together.
* Five frames under three ids (1, 2, "1"); every combination of hook generation,
  `--event`, cut and failing salt with each payload; commands of one or two segments.
* For the remote session two of two requests and a notice (`MaxSent`; the requests are
  symmetric), one question of the server with its reply, nine lines (`MaxLines`): a
  refusal with its four lines, the end's two, and a question and two answers around them.
* Every `Max...` constant bounds what a behaviour explores, in guards, and nothing else.

### Fairness

* `CcSpool`: weak fairness of the app's own steps.  `index.ts`
  starts a cycle at launch and every 15 s for as long as the app runs, and the
  cycle's calls all settle.  Hooks, failures, crashes and the restart are never
  fair: Claude Code may kill a hook and the user may leave the app closed.
* `RefreshLock`: weak fairness of each process's attempt; it is a loop over
  file-system calls and a timer.
* `SelfTest`: weak fairness of the timers and events of the main process (discovery
  timeout, scan, deadline, kill timer, the child's exit) and of the death of a wrapper
  that was sent SIGKILL. Nothing is assumed of the wrapper before that.
* `StdioWrapper`: weak fairness of the shutdown's own steps (timers and the child's
  `exit` event), of the worker's `exit` event or the timer that replaces it, and of
  the death of a child that was sent SIGKILL. Nothing is assumed of the client, of
  the MCP server or of the NER worker.
* `Compactor`: weak fairness of the cycle, which the 15 s timer starts for as long as
  the app runs; crashes are bounded by `MaxFault`.

## Proofs

The proof modules hold for any number of processes, sessions, files, requests and
failures. They rest on the named assumptions of the modules that declare the
constants, which every run evaluates: bounds are numbers, `Faults` names kinds there
are, the sets that are counted (`Call`, `Proc`, `Source`, `Line`, `Hook`) are finite,
and the markers for "nobody" are not members. Some carry an argument.
`DayAssumption`: the names of day files are not names of session files.
`HookAssumption`: at least one copy of the settings is kept and at least one event is
offered to every Claude Code (without one, an Install writes nothing and has nothing to
verify). `FileAssumption`: a file the app itself keeps is never named like a session.
`GalleryAssumption`: what a client of the user's own is for is in the gallery, and the
hook's card is none of these. `OthersAssumption` and `ConfigAssumption`: the first file and
what others write are entries, none of them of ours; an option is no safe name.
`FeedAssumption`: the app's own file is in the directory and is nobody else's.
`SurfaceAssumption`: no catalog, manifest or stored state is `None`; tools is a section; a
result is full, a page or malformed; versions of the rules are numbers, and a rule's is
never 0, which is what `reviewed_with` says of a catalog nobody has reviewed.

| Theorem | Property | Statement |
|---|---|---|
| `SpoolLockProofs!TypeCorrect` |  | The type invariant of the capture path holds for any number of hooks, ULIDs, sessions and failures. |
| `SpoolLockProofs!NothingLostOutsideWindows` | `LossOnlyInWindow` | No spool file disappears without a readable copy in the trail, except through one of the four named windows. |
| `SpoolLockProofs!WatermarkAfterAppend` | `WatermarkBacked` | The saved watermark never names a capture the app has not appended. |
| `SpoolLockProofs!NeverReprocessed` |  | A capture at or below the saved watermark is never appended again while the state file can be read. |
| `SpoolLockProofs!OneTrailFilePerSession` | `SessionStable` | A session keeps one trail file across cycles, crashes and restarts while sessions.json can be read and saved. |
| `SpoolLockProofs!CapOvershoot` |  | Concurrent hooks exceed the file cap by at most one file per hook. |
| `SpoolLockProofs!SpoolImplementsLedger` | `LedgerSpec` | The capture path implements the abstract at-least-once ledger: every step is a ledger step or a stutter. |
| `StdioWrapperProofs!WrapperTypeCorrect` |  | The type invariant of a stdio wrapper and its NER queue holds for any requests, ids and queue bound; in particular the queue never exceeds QUEUE_MAX. |
| `StdioWrapperProofs!NerJobsInOrder` | `JobsInOrder` | Every job the detector accepts has one outcome, in the order of acceptance, or is still pending, through replies, errors, the worker's death and terminate(). |
| `StdioWrapperProofs!NerWorkerBusy` |  | A ready worker never idles beside a waiting job. |
| `StdioWrapperProofs!RefusalsExplained` | `RefusedExplained` | A job the detector ignores is explained by a worker death or a shutdown recorded in the trail. |
| `StdioWrapperProofs!ShutdownLineTruthful` | `ShutdownTruthful` | A wrapper whose child was spawned exits with exactly one proxy.shutdown line, which tells the cause and the escalation as they were. |
| `StdioWrapperProofs!ResponsesPaired` | `Paired` | A recorded response is matched with its own request unless one side used an id twice at once, in either direction. |
| `TokenRefreshProofs!TypeCorrect` |  | The type invariant of the token refresh, for any processes, calls, token sets and failures: no call names a set the server has not issued. |
| `TokenRefreshProofs!SpentOnlyInWindowHolds` | `SpentOnlyInWindow` | A refresh token is presented a second time only for a grant that met one of the eight named windows. |
| `TokenRefreshProofs!GrantKeptHolds` | `GrantKept` | With the lock free the stored token of a grant outside the windows is one the server takes, and no wrapper gives up without a failure or a window. |
| `SpoolLockProofs!LockTypeCorrect` |  | The type invariant of the refresh lock, for any finite set of processes and any number of calls. |
| `SpoolLockProofs!OneHolder` |  | At most one process has the lock as long as nobody dies and no lock file gets too old. |
| `SpoolLockProofs!StolenOnlyOnOldVerdictHolds` |  | A reclaim moves a live owner's lock away only when the verdict was about another file of that name or about an old one. |
| `SpoolLockProofs!ReleaseOnlyOwnHolds` |  | When a release goes on to its unlink the file of that name is its own. |
| `SpoolLockProofs!ExclusionHolds` | `Exclusion` | The three facts together, which the liveness run checks for two callers. |
| `CompactorProofs!TypeCorrect` |  | The type invariant of the compaction, with any sessions, days, lines and failures: no fsync covers more than is in the day file. |
| `CompactorProofs!NothingLostHolds` | `NothingLost` | A written line is readable in its session's file or a day file at every moment, until the retention takes it, except through the four named windows. |
| `CompactorProofs!OncePerDayHolds` | `OncePerDay` | No line is twice in a day file, whatever fails or restarts between its append and the unlink of its source. |
| `DesktopProofs!LoginTypeCorrect` |  | The type invariant of the connect handler, the login processes, the browser and the stores, for any logins and authorization servers. |
| `DesktopProofs!LoginTruthfulHolds` | `LoginTruthful` | A browser reads of success only when the tokens of that very login are stored, and a record says that the authorization server changed exactly when it did. |
| `DesktopProofs!GalleryTypeCorrect` |  | The type invariant of the gallery and its wizard, for any cards, families of clients and calls. |
| `DesktopProofs!GalleryTruthfulHolds` | `GalleryTruthful` | Once the questions of an opening are answered each card says what there is, except for the named changes behind the gallery's back, for any cards, calls, closings and reopenings. |
| `DesktopProofs!SourcesTypeCorrect` |  | The type invariant of the window's list of sources: the poll, the inspector, the exclusions, the notices and the messages on their way. |
| `DesktopProofs!VanishedTruthfulHolds` | `VanishedTruthful` | The notice names a connector as removed by another program only when it was, unless it was removed here from a screen that was behind, for any connectors, polls, calls and writes of others. |
| `DesktopProofs!TypeCorrect` |  | The type invariant of Claude Code's settings, the kept copies and the check's memory, for any events and interference. |
| `DesktopProofs!BytesKeptHolds` | `BytesKept` | A rename replaces bytes the app has not read only between its comparison and the rename, and what it read is in a kept copy unless the clock went back. |
| `DesktopProofs!NoticeTruthfulHolds` | `NoticeTruthful` | The user is told of a removal only when somebody removed the hook or an uninstall ended unrecorded, and never before the trail. |
| `DesktopProofs!CleanupTypeCorrect` |  | The type invariant of the cleanup, for any files and modes; in particular no sweep ever targets or counts a file that is not a session's. |
| `DesktopProofs!PurgeAsChosenHolds` | `PurgeAsChosen` | A sweep removes only old session files under a mode in force since it began, accounts for each, and the size, the last cleanup and the estimate shown are true, for any sessions, clicks and writers of settings.json. |
| `ConfigProofs!BackupFromBeforeHolds` | `BackupFromBefore` | The backup writeAtomic keeps holds no entry of ours that the first file had not, as long as no two handlers were under way at once, for any entries, edits of others, moves of the app, deaths and failed writes. |
| `ConfigProofs!RepairHealsHolds` | `RepairHeals` | A repair that answers ok, with nobody else acting under it and the launcher in the bundle, has left the link, the file and every command of ours sound. |
| `ConnectorsProofs!NotifiedOnceHolds` | `NotifiedOnce` | A change of authorization is announced once, for any trail and any number of passes, clicks and views half way over one cache, failed markers and restarts that find the marker. |
| `TrailProofs!SessionTypeCorrect` |  | The type invariant of a remote wrapper's session, for any messages; before it is open nothing has begun its end. |
| `TrailProofs!EndToldHolds` | `EndTold` | A remote wrapper's end is told once and truly, each request is answered at most once and its answer recorded, and the alert to log in stands exactly until a successful response is recorded after it, the server's or the client's own to a question of the server, for any messages and order of callbacks. |
| `ConnectorsProofs!ReportedOnceHolds` |  | No recorded change of what the rules watch goes without its line and none has two, outside the named windows, for any catalogs, proxies, builds, switches, failures and crashes. |
| `ConnectorsProofs!PoisonFoundHolds` |  | A definition that the rules of reviewed_with match has its finding once recorded, or was edited only where v1 never looked, outside the named windows, for any catalogs, rules, builds and faults. |
| `ConfigProofs!UserServersKeptHolds` |  | In either file every entry is what someone else wrote under its name but for one wrap, or the bridge asked for, and starts it, for any names, entries, plans, edits of others, deaths and faults. |
| `ConfigProofs!UserEntriesKeptHolds` |  | The same of Claude Desktop's file and its backup alone, a specification of its own. |
| `ConfigProofs!ServersKeptHolds` |  | The same of a project's .mcp.json alone: only a write between the last stat and the rename is lost, and no plan, old or retried, corrupts a server. |

None of the properties is inductive as it stands. What strengthens each:

**SpoolLockProofs**, on the capture. `LossOnlyInWindow` needs to know where a file is relative to
the cycle: `Position` (the loop visits names in order, what it holds in hand is
its smallest), `Covered` (whatever is at or below the watermark, in memory or on
disk, is readable, exposed, or not yet created), `Visited` (a file below the
loop's place that is still there was skipped) and `Appends` (between the append
and the unlink the capture in hand is in the trail).  `IInv` is the conjunction
with `TypeOK`.  `SInv` (the in-memory session map is the
saved one, and no trail file is shared) strengthens `SessionStable`; `CapInv`
counts the hooks past their check and strengthens `CapBound`.  The refinement
theorem maps each step to a ledger step or a stutter under `IInv`.

**StdioWrapperProofs.** `JobsInOrder` and `IdleWorkerNoQueue` need to know where a job
can be: `Flight` says that at most one message of the worker is on its way, that a
job with the worker or in its answer is the one in flight (until the worker is
given up), and that before "ready" nothing is in flight; `Process` says what a
worker that is loading or dead can still send.  `NerInv` is their conjunction with
the type.  `Stage` ties each stage of the shutdown to its cause, to `killed` and to
the number of lines, and strengthens `ShutdownTruthful`.  `WireInv` (each frame in
the child's pipe is the only one of its request) and `PairInv` (an awaited request
has its entry in the maps or has clashed) strengthen `Paired`.  `RefusedExplained`
follows from `GivenUp`: the detector is alive, or its reason is in the trail.

**TokenRefreshProofs.** A grant is *clean* while it met no window. `SetInv` says that a
grant has at most one live set; `StoredInv`, that the live set of a clean grant is in
the Keychain or in the hands of the call that holds the lock and is about to store it;
`PostInv`, that the holder posts that set or none of the grant; `PersistInv` and
`OwnInv`, that a call about to store holds the live set alone, or its grant is no longer
clean; `RevokedInv`, that a clean grant nobody revoked has a live set at all.
`GrantInv` is their conjunction with `LockInv`. `SpentOnlyInWindow` follows because a
clean grant's POST can only spend its live set. `GrantKept` also speaks of the wrappers
that gave up: `QuietInv` says that while nothing failed and no window was met the item is
in the Keychain and no call saw an error, started over or invalidates anything. That windows never
close (`WindowsStay`) is a lemma of its own, for it carries every case.

On the lock: `CountInv` (files created, plus calls that may still create one,
are at most the calls made) bounds the inodes, so that the type is closed under the
open. `MineInv` and `OwnerInv`: a lock file is one process's from its open on, and
nobody else writes in it. `PathInv`: while the name bears a live process's pid, it is
that process's file, which is why a release by pid unlinks its own. `VerdictInv` keeps
what a verdict of staleness was about until the rename that acts on it. `CalmInv` gives
one holder while nobody died and nothing got old. `Exclusion` is one invariant and two
action properties; all three follow.

**CompactorProofs.** A line moves from a session file to a batch, to the payload, to the
day file, under an fsync, and only then may its source go. `StagedInv` and `PayloadInv`
follow it through the five phases of a group; `BackedInv` says that what a batch holds
is in its file still, or its group is at the unlinks; `UnsyncedInv`, that what no fsync
covers is in a session file (this is what a power loss needs); `ScanInv`, that a
file the scan has yet to reach has an empty batch. `TextOwner`, `BatchOwner`,
`DayOwner` and `CurInv` keep lines with their session and their day. `IInv` is
`TypeOK`, `CycleInv` (what the cycle holds) and `TrailInv` (what the files hold).

**DesktopProofs**, on the login: `PortInv`: of all logins only the one that has the loopback port is past
the start of its callback. It is what orders the two writes that `LoginTruthful` compares:
`RecordInv` says that between a login's record and its reference there is no other
record, `RefInv` that a reference that fits is that of the last record, `ToldInv` that a
login which answers browsers has stored its tokens.

On the gallery: `ToldOfCards` says of each card, while the questions are open, what
`GalleryTruthful` will need when the last one is answered: it has yet to be asked about, or
was found exactly if it is there, or it changed, or a call has written it and the answer is
on its way. `FoundInv`: what was found is there or has changed. `CallInv`: what a call that
somebody waits for has written is there, or has changed, or will be asked about still.
`ModalInv`: only a mounted gallery is open. `GInv` joins them.

On the sources: a result of the config passes through places, which `Places` puts in order:
the older and the newer of the pair not yet rendered, those on their way, the config
itself. The window's comparison looks at two neighbours, so `NamesInv` says of each name
that is not `crossed`, and of all the places at once: at most one
remove is under way (`OneRemove`); the name is a bridge up to the place where that remove
took it out (`BridgeTill`); a place where it has gone although nobody else took it comes
with an exclusion (`GoesExcluded`), and there is one such place (`GoesOnce`). `AnswersInv`
ties the messages to the calls, `ScreenInv` the inspector to what is listed. A poll, its
delivery and the rendering only move or merge places; the lemma `NameStep` says that a
step which maps the new places monotonically into the old ones, with the same content,
keeps `NamesInv`, and each of them gives its map.

On the hook: `GapInv` (what the comparison found is still so at the
rename, unless somebody wrote in the gap), `CopyInv` (between the copy and the rename,
what was read is in a kept copy or the clock went back: the pruning removes the oldest
stamps, so the newest copy survives, by a lemma on `Newest` and cardinalities), `CauseInv`
(a hook that is expected, or about to be, and is not there was removed by others or by an
Uninstall that ended unrecorded) and `MarkInv` (the mark is counted before the notice can
be). On the cleanup: `SweepInv` (the sweep's mode was in `settings.json` since it began;
each target is old by name and by its last write, or was written after the sweep's "now"),
`RemovedInv` (each removed file is in the sweep's count, a marker or untold), `SizeInv`
(only the unlinks of a sweep outdate the size) and `AskedInv` (the estimate that is waited
for is that of the pending mode). `Max` is a CHOOSE: `Greatest` proves that it finds the
greatest of a finite set of numbers.

**TrailProofs.** The session's lines only grow, so everything is said by where a line of a
kind stands: `EndInv` (no line of an end before it began, then one, true, after that of
the peer that left), `AnswerInv` (a request that is answered or refused was told once and
has one recorded answer, any other none), `CauseInv` (the refusal that began the end was
answered before it) and `AlertInv`. One lemma per part says what lines leave it standing
(`EndKept`, `AnswerKept`, `CauseKept`, `AlertKept`) and the steps show that theirs do; the
refusal, which writes up to four lines, is taken apart by `WithThreeParts`. That a session
which is not open yet has no first cause is what makes the end's line unique.

**ConfigProofs.** `BackupInv` is the argument for first-write-wins: nobody renames before
there is a backup, so without one the file still has none of our entries but those of the
first file; and while handlers never overlap, the one that copies is the only one and found
no backup. `RepairInv` follows a repair while nobody else acts (`calm`): its link is the
launcher's, what it is about to write has no entry of ours whose command is missing, and so
has the file once it is written. Every other's step, and every rename, takes the calm from
whoever is under way (`DisturbedFacts`, `ActedStep`). `ShapeOK` says that files are configs
whatever the handlers make of them (`ResultShape`). Both properties are parts of `CInv`.

`UserServersKept` has an invariant for each file. `EInv`: every entry of the file, of its
backup and of what a handler is about to write is fine (`Fine`): a server of someone else
written for that name, a wrap of one, or the bridge asked for, which the handler's own
addition counts among (`With`). That is inductive because each function of `ConfigFile`
takes a fine entry to a fine one (`FineWrap`, `FineRehome`, `FineUnwrap`, `FineBridge`; an
unwrapped bridge is fine only as the mangled entry it is), so that no handler need be
compared with the file it has read, and since what others wrote only grows (`ConfigGrows`).
What a fine entry is worth is `FineKept`: it gives back the user's entry, reads like it
and starts it. `ParsedWrap` and `StartsBridge` follow the token list through `ParsedArgs` for
that, which is why that operator is written without recursion. `SInv` is the same for
`.mcp.json` and its plans: each action of a plan, whatever the plan was made of, leaves an
entry equal to itself but for a wrap (`ActionKeeps`, from `WrapRoundTrip`), and a write of
others is replaced unseen only if the last stat came before it (`WindowInv`).
`ServersAssumption` and `McpAssumption` say what the users of the two files do: they write
no wrap by hand in one and no wrap of a wrap in the other.

**ConnectorsProofs.** What a pass announces it has not seen announced, so everything lies in
what it may still see: an announced change is in `notifiedChanges`, or its marker is in the
app's file and nobody has read the file without it (`Marked`): not the cache, not a click that
will write back what the cache held, not a call half way, which has the app's file before it
or its markers in hand (`Hears`). One lemma (`OneStep`) carries every step of a call; a restart
empties the memory, but what it then finds marked is `Marked` afresh.

On the baselines `SurfaceInv` has three parts. `SurfaceShape`: an observation that is under
way has read a file, plans one and owes at most a review and a change (`Observation`).
`KeptInv` is what no line gets lost by. The v2 file holds what was recorded last, unless an
older build has recorded since (`Held`). There is a v1 file once tools were recorded, or a
proxy is about to write the first; and where the v2 file has no tools the v1 file says what
was recorded, or that has its line, or it is empty after a result without tools (`V1Kept`).
A proxy that will put tools where the v2 file has none, or any of an older build, owes the
line by the v1 file (`KeptBy`). `OnceInv` is what no line is written twice by: while none of the windows
has opened one proxy at a time observes, what is recorded is what the last observation saw
unless that one is still under way, and the lines in the trail and the one it owes are no
more than the differences so far. The lemmas on `ChangeBetween` and `PlanMigration` say only
that a change of what is watched has one report and no change has none: what a report
contains is of no account here.

It is of account in `PoisonFound`, for which `PoisonInv` is added. What the v2 file holds of
tools is answered for by the rules its `reviewed_with` names (`StoredAnswered`), and so is
what a proxy is about to write, but for items edited where v1 never looked
(`PlanAnswered`): those get their entry in `silent` at the rename, which puts one catalog
over the other. The argument is in `ComparePoison`: an item that moved is judged by every
rule of the build, one that did not is answered for already or, if the rules are new to the
file, in the review of the stored catalog, and what is left is an edit that no rule sees.
`Unwatched` names that edit and nothing else; its first form excused any item that the last
change had left alone, which the proof does not need and the property no longer allows.

Each proof has one step per action and states what an action leaves alone once, in a
lemma for all the actions that do (`ProcessStep`, `LookFacts`, `DrawerFacts`, `FilesStep`).

### What is only model-checked

* The liveness properties (`Drained`, `AlwaysAnswers`, `SelfTestEnds`, `ShutdownEnds`,
  `Compacted`): they rest on fairness, which the prover does not reason about.
* Properties of what a recursive definition computes, which needs induction over data, out of
  the provers' reach here: `CountKept` compares sums over sets of drops; `CacheIsParse`,
  `ToldOnce`, `AnswerFaithful` and `PageWalk` rest on what a parse of a file in pieces
  (`FlattenSeq`, `SelectSeq`) yields; `MarkNeverHidden` and `ClicksHold` on the fold that
  collapses the copies of a review. For the text (`TrailClean`, `TamperingReported`) the runs enumerate every shape of the
  alphabet instead, in the initial states.

`CapBound` and the type invariants are proved and no run repeats them.

## Disagreements between code and comments

Two have a run whose counterexample shows them:

* `NoEntryMangled` (`config_mangled`): unwrap() takes every entry isAlreadyWrapped accepts, the bridge entries of addRemoteToConfig included, and unwrapEntry reads args[1] (or args[2]) as the command: an uninstall (SettingsDrawer.tsx:258) turns [http, --url, u, --name, n] into a server whose command is "--url" and whose arguments are empty: the URL is lost. packages/shared/src/config/transform.ts:100 says: "Inverse of applyWrap. Iterates mcpServers and restores any entry detected as wrapped"; applyWrap never made these.
* `AnswerNeverKept` (`answer_kept`): requestMethods is keyed by the text of the id, so of two open requests of the server with the ids 1 and "1" the later one's method replaces the elicitation's, and the user's answer is recorded without the whitelist. packages/proxy/src/frame-processor.ts:78 says: "On accept, result.content holds what the user typed: never persisted, not even truncated".

The models show more, where a property names the exception instead of a run of its own:

* Capture: the `glued` window against "the envelopes must be durable BEFORE the state
  advances" (`cchook-ingester.ts:105`); `late` takes captures of any earlier
  millisecond, not only of the same one (`cchook-ingester.ts:197` and `:208`); a byte
  appended by a hook that opened the counter before it was taken is not counted, against
  "never a drop lost" (`cchook-dropped.ts:7`).
* Lock: two contenders that judge the same stale file can both win, against
  `refresh-lock.ts:99` ("rename() succeeds for exactly one contender").
* Compaction: lines found in the day file are not fsynced again before their source is
  unlinked (`compactor.ts:506`, `:511`); a wrapper silent for seven days is a candidate
  (`compactor.ts:545-548`); a crash between append and unlink can show a change twice.
* Wrappers: `proxy.shutdown` is not the last line of an HTTP session
  (`compactor.ts:6-8`); a full disk ends a wrapper without a terminal line.
  While an `auth_failed` shutdown is under way the wrapper still records: a late answer of
  the server clears the alert to log in, though the session ends; and so does the client's
  answer to a question of the server (ping, roots/list, an elicitation; `main.ts:448-449`,
  `detection-reader.ts:322`), although the server has answered nothing, against "failing
  calls do not clear the alert, only a successful response does"
  (`docs/remote-connectors.md:30`). `EndTold` names that case (`signIn = "covered"`).
* Audit view: `get()` during a refresh returns what an invalidation made stale; text cut
  inside a UTF-8 character is garbled in the cache; requests that share an id end
  differently in the two readers; changing the filter does not cancel `loadMore`; the
  export ignores a status filter the view applies (`audit-export.ts:169`,
  `detection-page.ts:176`).
* Baselines: with two proxies or a failed write a change can be reported twice;
  `projection_migrated` is repeated until a write succeeds; `security_hash`,
  `recent_wire_hashes` and `last_changed_generation` are written and never read.
* Changes: `recovery-writer.ts:287` swallows a failed write of which `Changes.tsx:272`
  would tell; overlapping readings of the view can be answered out of order; a row opened
  while a click is written shows the old status; a pass that read before a click puts the
  old tray count back until the next one; the tray counts changes of the previous
  format, which `useChangePage.ts:33-35` keeps out of every count.
* Configuration: two handlers at once can lose one's change, or copy a `.bak` that already
  holds entries of ours; `isNoop` does not see a re-homing; a server whose name begins
  with "-" is wrapped in a way `parseArgs` refuses; nothing under `apps` calls
  `config-cc`.
* Login: the tab of an abandoned login can bring its code to the next one, which listens on
  the same port; a kill between the client's and the tokens' write leaves a pair that
  does not match; a failed exchange may delete tokens that were valid.
* Hooks: `backupSettings` keeps the last names, not the last copies; a mention of the
  hook elsewhere in the file hides its removal; an Uninstall that ends before it is
  recorded is taken for somebody else's.
* Retention: while a sweep that read the old mode is under way, "xCLAUDE Gateway keeps
  every audit event" (`SettingsDrawer.tsx:164`) is not true; a garbled `settings.json`
  loses its other keys on the next write; lines a session writes between the stat and the
  unlink go with the file.
* Trail: `loadOrCreateAuditSalt` can read a salt file another process has created and not
  yet written, and then masks with an empty key for as long as it runs
  (`masking.ts:85-92` promises one salt); a quoted mask is counted as a credential when
  the same secret is masked elsewhere in the payload; the proxy does not scan JSON-RPC
  error answers, which the hook's route does; `cd` followed by `;` or a newline does not
  move the detector's directory, and a removal of a folder above the data folder is not
  seen.
* Self-test: a write to a wrapper that has died is an uncaught EPIPE in the main process;
  a wrapper that was sent SIGKILL leaves no terminal line; a remounted tab can start a
  second run.

## Not modelled, and the plan

Done, in this order: the capture path and its counter, the refresh lock and the token
refresh, the wrappers of both routes with the NER queue, the compaction with the
sweep, the reader of the trail and its list, the baselines and the changes they feed,
the configuration files, login, hooks, retention, the self-test, and what reaches the
trail on either route, and last the window's sources and gallery. Proved: the capture
path and the stdio wrapper first, then the token refresh, the lock, the compaction, the
login, the hook's settings, the cleanup, the session of a remote wrapper, the gallery,
the notice of vanished connectors, the backup and the repair of the configuration, the
announcements and the baselines, and that the servers of a user are kept in both files. The baselines were checked with two switches of build
before they were proved; the proof would not go through, and a third switch (back to the
newer build) showed why: the window "v2 behind" above.

Left out:

* The regular expressions of the detectors and of the masking, and the wording rules
  of the heuristics: functions of a text, of which the models keep the classes.
* The splitting of a byte stream into lines, and the two tail buffers beyond their
  order at the end of a session.
* The renderer but for the hooks and views whose state outlives a call; Electron's
  wiring (windows, menus, IPC registration); the Time Machine exclusion of the spool.
* `baseline-history.ts`, the export's columns and every formatting.
* The Keychain, the authorization server, the browser, the MCP server, Claude Desktop and
  Claude Code are environments, modelled by what the code lets them do.

Left out inside what is modelled, because no property would tell it apart:

* `FrameTrail`: a peer answers a request once, and no frame has the id null
  (`parser.ts:31`, `:61-65`).
* `HttpWrapper`: the lines of a session have different times, and an alert is read within
  a day (`detection-reader.ts:505` drops older ones; so in `AuditStore!Alert`). The sign
  that a reconnect succeeded is written by the app, in `AuditStore`'s feed.
* `HookSettings!Copy`: two copies are not made in one millisecond; the code gives the
  second the suffix `-1` (`claude-settings-write.ts:149-156`) where the model has none.
* `Retention!Open`: a status still on its way to a closed drawer, which the one of the
  next opening overwrites (`index.ts:342-347`).
* `ConnectorChanges!Resolve`: the list asked for after the tab was left
  (`Changes.tsx:287-288`), whose answer nobody shows.
* `SurfaceBaseline!PlanMigration`: the migration's scan sees the tools without the fields
  `extractTools` drops (`manifest.ts:180-193`), in the model with them.
* `SessionStable` is said while `sessions.json` can be read and saved: a save that fails
  gives the session a second trail file after a restart, as does a file that cannot be read.
