# ccdash in TLA+

ccdash watches and drives Claude Code sessions. On each machine a *collector* (`ccdash server`) receives
Claude Code's hooks, keeps sessions, events and approvals in SQLite, and hosts claudes in PTYs. A TUI and a
web portal show what the collector knows. A *hub* joins the collectors of several machines: each one keeps a
tunnel to it, portals reach the collectors through it, and several replicas of it may share one state.

This directory models the parts of that whose correctness depends on the order of events, checks them with
TLC and proves what matters most with TLAPS. Paths below are under `src/internal/`.

## The system's parts

| part | state | operations | hard behaviour | what makes it correct |
|---|---|---|---|---|
| approval holds (`server/server.go`, `db/db.go`) | approval rows; the channels of the hooks on hold | PermissionRequest, decide, PostTool, sweep | a decision, a timer and a hang-up race in one select; rows are closed from three sides; the channels die with the process | Claude hears the decision that was accepted; the row tells what Claude heard; no row stays pending |
| hub state document (`hub/k8sstore.go`, `hub/state.go`, `hub/store.go`) | devices, secrets and preferences, push subscriptions | create, rename, letter, rotate, delete, ... | replicas write the whole document; conflicts and retries; lost answers; old reads installed late | each edit is made once, on the current document |
| hosted claudes (`server/pty.go`, `server/restart.go`, `attach/attach.go`) | the map from pid-N and session ids to PTYs; `resume-on-start.json` | start, restart, close, alias, stop, resume | check-then-act on the map; hooks and discovery name sessions late; exits race successors | one claude a conversation; every claude can be found; restarts lose none |
| screens and streams (`server/screen.go`, `attach/stream.go`, `screen/`) | an emulator and its viewers for each PTY | write, view, input, resize | slow viewers, mode changes | data more than control |
| scheduled restart (`server/restartwait.go`) | one schedule, its deadline, the last outcome | schedule, cancel, look, restart | a turn begins between a look and the stop; deadlines move | nobody's turn is cut off |
| attention (`server/attention.go`, `db/db.go`) | what a session wants, what it declared to wait for | hooks, screen watcher, seen | the watcher's memory against the hooks' writes | no lost "needs you" |
| sessions and discovery (`server/server.go`, `discovery/`, `db/db.go`, `server/autoarchive.go`) | one row a session | hooks, a scan every 10 s, automatic archiving, the operator's archive and looks | a scan reads the transcript, the process and the clock one after the other and writes later; hooks are late or lost | the row catches up with the session; NEW means news; what the operator archived stays archived |
| hub tunnels (`hub/hub.go`, `server/hub.go`, `tunnel/`) | the live connection of each device; `hub.json` on the device | authenticate, register, drop, revalidate, reconnect, join, leave | a token is rotated while its device connects; a drop runs when the table holds another tunnel | a device that should be connected is, once; a revoked token loses its tunnel |
| hub replicas (`hub/cluster.go`) | each replica's snapshot of the others | poll, relay, drop | drop requests are sent once; stale snapshots | one owner a device; the board is up to date |
| notifications (`hub/notify.go`) | last state seen and last time notified, for each session; the device's snapshot | look, push, subscribe | two watchers of one device; a request of a look fails; a change within the cooldown | each change is told once; no snapshot outlives its watcher |
| tasks (`db/tasks.go`, `tasks/`) | one list a machine, in SQLite | edits, notes, order, import, merge of an automated run | several processes over one file; runs that start from an old list | no edit is lost; the person's decisions stand |
| intake (`hub/intakeapps.go`) | drafts in the hub state | submit, relay | a lost draft | - |
| TUI (`tui/tui.go`) | the session list, cursor, tab, view; a question on the screen | lists, moves, tabs, archive, edits, starts | lists and calls run in the background and end in any order, for a view or a tab that was left | the cursor stays on its session; what is shown is what there is |
| portal, MCP servers, command line | views of the above | - | stale lists | modelled where they act on the above |

How they interact: Claude Code calls the collector's hooks over HTTP (PermissionRequest is answered, all
others are posted from the background and may be late or lost). Operators call the collector, directly or
through the hub's tunnels. The discovery loop of the collector sweeps approvals, scans transcripts and
aliases PTYs every 10 s. Hooks share the PTY map with the PTY handlers. Hub replicas share a Kubernetes
Secret and exchange snapshots. `ccdash tasks` and `ccdash mcp` open the same SQLite file as the collector.

## Modules

| module | models |
|---|---|
| `Approvals`, `ApprovalsProofs` | approval holds, and theorems about them |
| `StateDoc` | the hub's document and its edits: pure operators |
| `StateStore` | the abstract store: an edit happens at one moment |
| `StateSecret`, `StateSecretProofs` | `k8sStore`: replicas, copies, puts, reads, crashes; that it implements `StateStore` |
| `PtyHost`, `PtyHostProofs` | hosted claudes: starts, restarts, aliases, stops and resumes |
| `RestartSchedule`, `RestartScheduleProofs` | a restart scheduled for when the hosted claudes are idle |
| `Attention`, `AttentionProofs` | what a hosted session wants from the operator |
| `HubTunnels`, `HubTunnelsProofs` | the tunnels between devices and replicas of the hub |
| `Notifications`, `NotificationsProofs` | the watchers of a device: pushes, snapshots and the board |
| `Tasks` | the task list and all its writers (theorems: the second part of `NotificationsProofs`, which extends both) |
| `Sessions`, `SessionsProofs` | one session's row and all its writers |
| `Tui` | the dashboard's session list (theorems: the second part of `SessionsProofs`, which extends both) |
| `MCApprovals`, `MCStateSecret`, `MCPtyHost`, `MCHubTunnels`, `MCNotifications`, `MCTasks`, `MCTui` | instances for TLC (the others need none) |

`StateSecret` composes `StateDoc` (its edits) and refines `StateStore`. `HubTunnels` takes from it that a write of the
shared state is one step and that each replica reads a copy of some age; `Notifications` takes from `HubTunnels` that
tunnels of one device come and go, on any replica. `RestartSchedule` and `PtyHost` share the moment of the stop:
the first is about when it comes, the second about what becomes of the claudes.

A definition headed "Mutant" is a plausible mistake, kept next to the definition it would replace; a property is worth
its place only if such a mistake breaks it. A property headed "Not true of the code" states what a comment or a
document says and the code does not keep (see Disagreements). `Tasks` and `Tui` name their `tasksVars`, `TasksInit`,
`TuiNext` and so on after the module, since each is extended together with another specification.

### Approvals

`status` is the approvals table, `pending` and `chan` are `Server.pending` and the one-slot channels,
`handler` is the program counter of `handlePermissionRequest`: *inserted* (row written, settings not yet
read), *waiting* (in the select), *decided* or *expired* (a case was taken), *recorded* (row updated),
*leaving* (answered, the deferred delete to come), *done*. `decide` is an operator's request: a row seen in a
list, the channel found under the lock, and its answer. `call` and `post` are Claude's side.

- `Register` reads the settings: with approval blocking on it registers and waits, with it off Claude is
  answered at once.
- `TakeDecision`, `TakeTimer`, `TakeCancel` are the select's cases; when several are ready any is taken.
- `Record` is `UpdateApprovalStatus`, which sets the status whatever it was. Under a cancelled request it writes
  nothing, and the database may refuse the write at any time (a busy file, a full disk): the code drops the error and
  Claude gets its answer all the same. `unwritten` is history: the rows this happened to while Claude listened.
- `LookUp` and `Send` are the two halves of `handleApprovalDecide`, before and after the unlock.
- `PostTool` closes the oldest pending row of its session and tool. The `tool_use_id` update before it
  matches no row: PermissionRequest hooks carry none.
- `Sweep` is `MarkStalePendingTimeout`; `Crash` and `Restart` lose the channels and keep the rows.

Time is counted in units. The assumption is `HoldWindow < StaleAge` (25 s and 45 s in the code). `Tick`
waits for what is due: a handler's own steps, a ready select, the sweep. That is the one idealisation, and
it is what the code's margins (20 s between the window and the sweep's age) stand for. Of the writes that fail, those of
a decided row and of a row to be inserted (`CallUnheld`) are there; a sweep or a PostTool update that fails is not. The
next sweep makes up for either, a period later than `PendingIsBounded` says.

Bounds: two calls of one session, with two tools (one a dialog), and two operators who decide once each;
25 s, 45 s and 10 s shrink to 1, 2 and 1. Two calls of one tool are what a late PostTool hook needs to close
the wrong row, two operators what a race on one row needs. The proofs below cover any number of each.

`CHECK_DEADLOCK FALSE`: calls are bounded, and a collector that crashed may stay down.

### StateDoc, StateStore, StateSecret

`StateDoc` holds the functions given to `mutate`: when one refuses, when it finds nothing to do, and the
documents it may return. Random values (tokens, ids, generated secrets) are named by the call that made
them, so "the same secret" is equality. Letters are numbers in `nextLetter`'s order.

`touchDevice` may find nothing to do for a device that was seen less than five minutes ago (`MayRest`).

`StateSecret` has the Secret with its version, and for each replica the copy, what its reads were answered and is
not installed yet (the poll's, and `deviceByToken`'s for a token the copy does not know), and the life of the
process. A call of `mutate` is a process: *ready* (about to run the function on a clone),
*put* (request sent), *won* (committed, answer under way), *conflict*, *fetched* (re-read, not yet
installed), and its ends. The replica's lock covers the copy only, so calls and reads of one replica overlap, and a
read may install an older document over a newer one (`Installed` compares versions for
inequality, as `refresh` does). `Fail` is any request that errs. A put that errs, and
one whose replica dies (`Crash`), the one of its import or backfill too, stays on its way with nobody waiting for it
(*orphan*): it is committed after all, or never.

`StateStore` is what the interface in `hub/state.go` promises. A call begins, is applied at one moment to
the current document (or refused by it, or found to be nothing), and returns; a call that fails may have
been applied. `Promise` maps *won* and *strayed* to "applied".

A successful "nothing to do" and a refusal are judged on the replica's copy, which may be two seconds old;
`StateStore` allows a call to end so without looking at the document, and no property claims more.

Bounds: two replicas and two calls; a replica that died comes back once what its last process sent has been decided,
while the other goes on. `state_secret` creates, renames, letters, rotates and deletes devices
with two names and two letters, so that letters run out and a rename collides with a create; each replica has up to
two reads that were answered and not installed (`MaxReads`), so that they are installed in either order, and one in
`state_secret_keys`, whose puts on their way are what its size goes to. Replicas and calls are interchangeable
(`MCSymmetry`).
`state_secret_keys` reads or generates one secret and adds or removes one push subscription, with both
replicas mortal and both holding a `hub.sqlite` to import into an empty Secret. `MaxTries` is 1 where the
code has 8: every retry starts from the state the first attempt started from. The proofs cover any number.

### PtyHost

`ptys` is `Server.ptyMap`; a key is a session id or a child (its `pid-N`). `child` is a claude with the session it
runs and those it ran before a `/clear`. A request is a process: *spawn* and *file* are `spawnPTY` after its look in
the map, *found*, *removed*, *closing* and *check* are `handlePTYRestart`. `resumeSaved` is one more requester that
goes through `queue`. `scan` is a discovery tick: `Scan` has listed the transcripts, `Snapshot` the processes, `Look`
the spawns without a session, and `Alias` writes the keys and the rows. `Hook` is `ensureSessionAt` with the tag of
the PTY, for any session the claude runs or ran; that of a claude which was reaped meanwhile finds no entry and writes
the row only (`HookOfReaped`). `Register` is the TUI's: the session is any that the claude has run and that has a row,
because the TUI found the PID in a row which may be old by then. `Save`, `CloseAll` and `Die` are a stop; `Boot` reads
the list and removes it.

What the model takes for granted:

- `Overlap = FALSE` says that two requests about one conversation do not overlap, and that a PTY is not
  registered while its claude exits, or for a session that another claude has the key of (one it ran before a `/clear`
  and that was resumed elsewhere). The code does not enforce it. `pty_host` runs so, and `OneClaude` and
  `ClaudesAreReachable` assume it; `pty_two_claudes` shows what happens otherwise. `KeysNameConversations` and
  `PtyTypeCorrect` do without.
- A start names the session to resume twice, as `sessionId` and `resumeId`. The code would take two different ones; every
  caller in the repository (`tui/tui.go:2849`, `server/restart.go`, the portal's `app.js`, the MCP servers) passes one.
- A registration is for a session that the claude has run. `handlePTYRegister` takes any; its only caller, the TUI,
  takes the session from a row with the PTY's process id. A process id used again for another claude is left out.
  A request is also about the conversations of the claude it has found (`FindRestart`): a claude that is dead and was
  filed again by `Alias` may be found under a session which it no longer runs.
- A claude comes up later than `spawnPTY` files its entry (`Settled`).
- What is typed after a `/clear` is typed after its hook, so a transcript of a cleared claude has a row.
- The end of the collector hangs up its terminals, so no claude outlives it. (External.)
- The 5 s of a restart are not reached: `Close` escalates to SIGKILL after 1.5 s.
- Session ids of claudes gone before anybody saw them are forgotten, to keep `Sessions` small.

`CHECK_DEADLOCK FALSE`: claudes and starts of the collector are bounded, and a model that used them up stops.

Bounds: two sessions (one known from before), three claudes, one client besides `resumeSaved` and discovery,
one further start of the collector. Three claudes are one to be replaced, one that replaces it and one next
to them; the double start (`pty_two_claudes`) needs a second client.

### RestartSchedule

`sched` is `Server.restartSched` with the time it has left, `loop` the goroutine of each schedule: *wait* (in
its select), *read* (about to read the schedule under the lock), *expire*, *look*, *take* (about to compare
and take the schedule) and *save* (`restartNow`). Between any two of these a request or a hook may come, a
claude may begin or end a turn, show a dialog, or be cleared. `key` and `row` are what `restartBlockers`
goes by: the map's keys, and status, pending approvals and declared wait of a session's row in one. `busy`
and `calm` are history: whether a claude has been busy since before the last tick, and how long a goroutine's
looks have been clear; so is `dropped`, the schedules whose DELETE was answered. `RestartAtOnce` and `SaveAtOnce` are
`POST /api/restart` without a "when", whose save
finds no rows when the caller has hung up.

What the model takes for granted:

- `Prompt = TRUE`: a goroutine whose schedule was cancelled ends before the next schedule is made. It has a
  period of its ticker for that. With `FALSE`, TLC finds that it may take its tick, read the new schedule as
  its own, find nothing busy because its context has ended, and restart at once.
- A goroutine that is due, a hook, and the 300 ms between the save and the stop take less than a unit. So
  `NoFirstSessionIsCutOff` is about claudes busy since before the last tick; a turn that begins in the last
  moment is cut off, as it would be by any restart.
- The hosted claudes are the same throughout (starts and exits are `PtyHost`'s), each has a session, and
  status is set by hooks only.

`MaxTime` is `restartMaxTimeout`.

Bounds: two claudes and a third session for a `/clear`; three requests, so that a schedule can be cancelled and made
again, or extended and superseded; looks every unit, two units of quiet, deadlines of 1 (shorter than the quiet time)
and 4. `CHECK_DEADLOCK FALSE`: the collector stops.

### Attention

`mark` is the attention column with who set it, `wait` and `stopped` the columns of a declared wait. `shown` is the
watcher's memory, `look` its step: what it has read is acted on later, and hooks come in between. `hook` is the hook
on its way. Claude and the operator at its terminal begin turns (with a prompt, or woken by something in the
background), declare waits and take them back, show dialogs with or without a hook, answer or interrupt them, and
exit.

What the model takes for granted:

- A hook is handled before claude goes on: hooks are posted to the same machine and handled at once, claude takes
  seconds for a step. (`install.go:349-362` posts them in the background and waits for none of them.) A hook handled
  late may take the mark off a later dialog for good, since the watcher sets a text only once.
- The same text does not come back on the screen before the watcher has looked (every 2 s): `closed`.
- The session is not headless, and has no approval on hold (that counts as needs_you when the row is read).

`exited` and the turn *interrupted* are there for what the properties cannot promise: the mark of a dialog at
which claude exited is forgotten (`ScreenMarksEnd` excludes it), and a wait declared in a turn that was
interrupted is taken for the declaration of the next one, if that begins without a prompt.

Bounds: two texts, the least that lets one dialog replace another between looks. Nothing else is bounded.

### HubTunnels

`state` is the shared document (tokens and letters, with a version), `past` the versions it has had, `copy` each
replica's copy: a read that is answered early may be installed late, over a newer copy; `box` is `hub.json`
and the `hub_enabled` setting of a device. A tunnel in `tun` has two ends. The hub's goes from *authed* (the token was
found, the connection is not in the table yet) to *open*, *closed* and *gone* (its deferred end has run, which
deletes the table's entry if it is still its own); the device's end is up or down. A tunnel taken out of the table, or
replaced in it, is *dropped* until the call that did so, having released the lock, closes it. `conns` is `Hub.conns`.
`dropping` holds calls of `dropConn` that were decided on and not yet run: they close whatever the table holds by
then. `mail` holds `POST /cluster/drop` requests, which are sent once and may be lost.

- `Dial` is `handleAgent` up to the look in the copy; `Serve` is `serveDevice`: the replaced tunnel is dropped, the
  peers are asked to drop theirs. `TestDial` is the dial of `ccdash hub join` before it saves the token: the hub
  serves it like any other, and replaces the device's tunnel by one that ends at once (it counts as the fault).
- `RotateDevice`, `DeleteDevice`, `SetLetter` write the state, drop here and ask the peers. `Refresh` installs a
  version of the state and drops what it no longer vouches for (`revalidateConns`). `Touch` is a change of something
  else.
- `HubNotices` and `DeviceNotices` are an end that finds the other closed; `LoseLink` takes down the device's end, so
  the hub's is half-open until yamux's keep-alive finds it. `Watch` is the device's watcher of its settings file.
- `Join`, `Leave`, `TurnOff`, `TurnOn` are the operator at the device.

Taken for granted: a replica reads the state within a refresh period for as long as it lives (the liveness property
has such reads succeed in the end); a replica that restarts reads the state before it serves; the replicas' clocks
agree on which of two tunnels of a device began later (`since` is compared across replicas, `cluster.go:268`). A clock
that lags may have a newer tunnel dropped for an older one; the device then dials again. Bounds: two replicas and one
device, because devices share nothing but the table; two tunnels at a time, which is what replacing needs; one change
and one fault, in every order. `late` marks a tunnel whose token was void before it reached the table.

### Notifications

A watcher is the goroutine `watchDevice` of one tunnel. It is *asleep*, *read* (the sessions have been read,
the other requests follow) or *store* (about to push what is `due` and to store the snapshot); `seen` is its memory
of signatures, `cool` the cooldown of each subject and kind. `Unserve` ends its context, and `End` is the deferred
end: the select may take the ticker first, so a watcher may look once more after its tunnel is gone, and may drop
the snapshot its successor has stored. `views` is what the portal's replica last heard of each peer's snapshots.
`known` and `blind` are history, for `ChangesArePushedOnce`.

Taken for granted: the three requests after the sessions' are made at one moment (changes may come between the
sessions' and them); a tunnel leaves the table and its watcher's context ends in one step (`Unserve`,
`hub.go:953-959`: a watcher whose `End` is still to come looks on as one whose context has not ended yet); a dead
tunnel is found in one step (`HubTunnels` has it in full). Bounds: two watchers in a row on two replicas, one session,
one approval's tool and the scheduled restart, one change and one fault. With one session the cooldown and the other
subjects do not interfere, as they share nothing in the code either; two tunnels are what a late end needs.
`CHECK_DEADLOCK FALSE`: tunnels are bounded.

### Tasks

`list` is the tasks table, a function on ids; `seq` is SQLite's sequence, `since` the `last_sync` that an automated run
starts from, `rev` the revision that an edit bumps. A call is a process: `Begin` reads the clock, `Load` the list inside
a transaction, `Commit` writes what `Result` makes of what was read. SQLite refuses a write on a snapshot that
is no longer the latest, and `Fail` is that and every other error. `Result` is the pure part: `AddNote`, `SetStatus`,
`Replan`, `Apply`, `Merge`, the order, the import, each as the code's functions of that name do it. `Merge` works through
the proposal by a recursive function, one task after the other, so that a task added for one entry is met by the next.

`RequestsAssumption` types what can be asked: `Patches`, `Proposals`, and the file of an import (`IsExport`). The code
checks an import's ids and titles; that only finished tasks in it are archived or have a day of finishing is
assumed, because an export writes it so. `byHand` is history: the day on which a person has set a task's plan. It is
the rule's reference, so it is kept by who asked and when, not read back from `planBy` and `planOn`.

Left out of a task: title, priority, note, due date, project, links and sessions, which no rule looks at. Bounds:
three calls of any kind, two days of two seconds, a list of at most three tasks. Three calls are an edit, what
overlaps it and what is made of the result. The requests include adding with and without a key and in each status that
is not final, reopening, archiving, planning by hand and automatically, a dry run, proposals for known and unknown
keys, and for none (which a merge skips), one that names a key twice (its second move goes back to where the first
came from), and an import. `CHECK_DEADLOCK FALSE`: each call is made once.

### Sessions

`claude` is the process, `transcript` its file's last entry, last prompt and entrypoint; `hooks` are on their way, in
no order, and any may be lost. `row` is the sessions row: status, `last_seen`, last activity, the operator's last
look, the archived flag and whether it was set automatically. `scan` is the discovery loop: `List` has read the
directory, `Snapshot` the processes, `Discover` writes the row, and `Skip` is a scan or an upsert that fails: nothing
of it is used. `Archive` is `AutoArchive` at the end of a tick, once a day, or again where it failed or its day could
not be noted. `hide_headless` is whatever it is at each write (`hides`). A claude may compact its context at any time
of its turn, or be told to: the hook is a SessionStart that counts as fresh, like that of a start. A `/clear` begins
another session, whose row is another one. `Merge` and `Inserted` are the two halves of `upsertSession`. `news`,
`byHand` and `filed` are history.

Left out: colors, projects, titles, numbers, git data (fields one write sets); hosted claudes, whose hooks come with a
tag (`PtyHost`); and a read of the day of the last archiving that fails (`maybeAutoArchive` drops that error and
archives again, as where the day was not noted). Bounds: two moments, before and after which six hours, the archive
age and the end of a day lie; one claude from before and one more, in a terminal or `claude -p` (claudes that write
down no entrypoint are in the theorems only: `Clients`); one hook on its way at a time, which may be kept until after
any later scan. The proofs cover any number of each. `CHECK_DEADLOCK FALSE`: the clock and the starts are bounded.

### Tui

`all` is the last list delivered, with the view it was asked for, `shown` the rows of the tab in order, `sel` the cursor
(from 1), `removed` the row that `x` took. `lists` are on their way: asked for (`Refresh`, `SwitchView`, the end of
`ArchiveTab`), read by a background command, and delivered as `sessionsMsg`, in any order. `writes` are calls of
`SetArchived` and `SetUserGroup` on their way. `ask` is the prompt for a tab's archiving or the group editor; while it
is open, keys go to it, the wheel still moves the cursor and lists still arrive.

The order of a list is any, so sorting, pins and projects are covered; where the cursor goes in a tab that it was in
before (`groupSel`) is any row, which covers what is remembered. A session's tab is the group the operator gave it, or
else its repository or directory (`Home`, which does not change; `GroupOf`); clearing a group goes back to that.
`auto_repo_tabs` may be either in each step; `AutoRepoTabsOff` is `R`, which leaves a tab that goes. Where the chosen
tab is gone, the code takes the first in its order and the model any (`NextTab`): the order is of names, which the
model does not have. Left out: filters, and `selectSpawned`, which moves the cursor to a session that was just
started. Bounds (`MCTui`): two sessions in two tabs, which is what a tab needs that empties while the other does not;
two lists under way, one of which is older or for the other view; one call of the operator (a tab's archiving makes
two writes) and one change by others.

## Runs

| run | properties | shows |
|---|---|---|
| `approvals` | `AnswerIsFirstAccepted`, `RowTellsTheAnswer`, `SweepSparesHolds`, `PendingIsBounded` | the hold is correct in every order of decisions, timers, hang-ups, hooks, sweeps and a crash |
| `state_secret` | `TypeOK`, `DevicesAreDistinct` | names and letters stay distinct |
| `state_secret_keys` | `SecretsAgree`, `EditsAreAtomic` | one generated secret for everyone; `StateSecret` implements `StateStore` |
| `pty_host` | `TypeOK`, `OneClaudePerConversation`, `EveryClaudeIsReachable`, `KeysNameTheirConversations` | the map and the claudes agree |
| `pty_two_claudes` | `OneClaudePerConversation` (violated) | overlapping starts |
| `restart_schedule` | `TypeOK`, `NoFirstSessionIsCutOff`, `RestartsAreDue`, `AllHostedAreSaved`, `ScheduleEnds` | a scheduled restart waits for quiet, can be cancelled until it is taken, saves everything, and ends |
| `attention` | `DialogStaysMarked`, `ScreenMarksEnd`, `TurnEndsAsDeclared` | the mark follows the screen and the declared waits |
| `hub_tunnels` | `TypeOK`, `OpenIsServed`, `RevokedIsOnItsWayOut`, `WantedIsConnected` | the table holds the open tunnels, a change is acted on by every replica, and a device that should be connected is, once |
| `tasks` | `TasksTypeOK`, `DecisionsStand`, `EditsAreAtomic` | transactions that overlap lose no edit, and no automated call overrides the person |
| `notifications` | `SnapshotsAreWatched`, `ChangesArePushedOnce`, `BoardCatchesUp` | two watchers of one device do not tell twice, and the board recovers from a late end |
| `sessions` | `TypeOK`, `NewIsNews`, `ArchivedByHandStays`, `HeadlessIsFiled`, `RowCatchesUp`, `ResultsAreShown` | late, lost and overtaken hooks and scans |
| `dashboard` | `TuiTypeOK`, `TabIsNotEmpty`, `CursorStays`, `ListCatchesUp` | lists of either view in any order, under an operator who moves, archives and answers |

The type invariants of `Approvals`, `Attention` and `Notifications` are proved and need no run.

Fairness, where a property needs it, is of the program only; nothing is assumed of claudes, operators, hooks or faults.

- `restart_schedule`: weak fairness of the steps of each goroutine, of a request under way, of the stop and of the
  clock: goroutines run and tickers fire.
- `attention`: of handling a hook, and of the watcher's look and act.
- `hub_tunnels`: of each replica's refresh, of drops decided on, of a device's dials, of the handlers of a tunnel and
  of the device's watcher of its settings (tickers, goroutines and yamux's keep-alive), and of delivering drop requests,
  which may be lost instead as long as faults last.
- `notifications`: of a watcher's steps, of finding a dead tunnel and of the replicas' polls; strong fairness of a
  watcher's end, because Go's select takes each of two ready cases in the end.
- `sessions`: of the discovery loop's steps, and strong fairness of `Discover`: a tick that is made again and again, and
  may fail, succeeds again and again.
- `dashboard`: of the refresh and of delivering lists (the event loop and its tick); strong fairness of reading a list:
  a call that is made again and again, and may fail, succeeds again and again.

### Disagreements with comments and documents

Found while modelling. The first is shown by a run. Those with a property in parentheses are stated in the module, with
a comment that says whose promise it is; TLC finds a counterexample to each when its run's cfg is given that property
alone (`NewWaitsArePushed` needs `MaxChanges` to be 3, where one watcher is enough). The others were found by reading.

1. `spawnPTY` "reuses" a live entry of the session, but looks and files in two critical sections. Two overlapping
   starts run two claudes on one conversation, and one of them is in no map (`pty_two_claudes`).
2. `handleApprovalDecide` "returns 410 if no handler is waiting". A handler that left its select has not
   yet removed its channel; a decision sent then gets 202 and is dropped (`AcceptedWhileWaiting`).
3. A restart loses no hosted session (`restart.go:3`). `saveResumeList` overwrites the list with the sessions hosted
   now; those that `resumeSaved` has read and not started (2 s apart) are not resumed by the next collector
   (`RestartsLoseNoSession`).
4. "Nobody's turn is cut off" by a scheduled restart (`restartwait.go`). A claude that was cleared has the keys of two
   sessions; `restartBlockers` keeps one of them, in the map's order, and reads that row only. If it is the old
   session's, the claude counts as idle while it works (`NoTurnIsCutOff`).
5. The mark of a declared wait "stays until the next prompt" (`attention.go`). The watcher clears whatever needs_you
   there is when a dialog it marked is gone (`DeclaredWaitStays`).
6. Rotating or deleting a device cuts its tunnel (`docs/security.md:114-116`). A dial that was let in before the change
   and reaches the table after it stays connected on the revoked token (`RevokedIsCut`).
7. After a change of its letter a device reconnects and learns it. Only the replica that made the change drops the
   tunnel; a device on another keeps its letter until it reconnects for another reason (`LetterIsLearnt`).
8. Changes are pushed (`docs/hub.md:57-59`). A change within the cooldown is remembered as seen and never pushed, and
   a second wait that looks like the first, with an answer in between that no look saw, is no news
   (`NewWaitsArePushed`).
9. Each change is pushed once (`docs/decisions/0008-hub-ha.md:78-79`). When one request of a look fails the look goes
   on; what it would have told counts as gone, and is pushed again at the next look (`ReadRest`).
10. Known tasks are matched by key (`tasks/context.go:88-91`). A task without a key is told to an automated run as
    "id:N"; the merge looks that key up among the keys and adds the task again (`KnownTasksAreMatched`).
11. Around midnight, an automated replan goes by the day on which its call began, which is read before the
    transaction; and a timeline entry is known by its stamp, which has a second's grain, and the start of its text, so
    two of one second that begin alike are one (`AddNote`).
12. An archived session that runs comes back, and a running one is not archived (`docs/usage_en.md:251`). When a late
    SessionEnd comes between the loop's upsert and `AutoArchive`, a running session is archived until the next tick.
13. "We require an explicit tab" (`promptArchiveCurrentGroup`, `tui/tui.go`). A list that arrives between the question
    and the `y` may move to another tab, or to All, and all that is listed then is archived (`DashboardIsSpared`).
14. The title, group and project prompts and the restart of a session act on the session under the cursor when they
    are answered, not on the one they were opened for; the wheel and arriving lists move the cursor meanwhile.
    (Opening a second claude, the shell command and the title generator keep theirs.)
15. A transcript read that answers "unchanged" is taken for the session under the cursor (`tailMsg`), also when the pane
    shows another session's; the commands offered by `e` are then the other session's (`tui/bang.go:3-7`).
16. A list of PTYs read before a start replaces what the dashboard knows of that start (`ptyListMsg`): the placeholder
    goes, and the cursor does not follow to the new session (`selectSpawned`).

## Proofs

All of these hold for every value of the constants that meets the named assumptions.

`ApprovalsProofs` (from `TimesAssumption`, `BoundsAssumption`):

- `TypeCorrect` proves `TypeOK`.
- `AnswersAreAccepted` needs to know where a decision is on its way to Claude: what lies in the channel, or
  was taken by the handler, is the head of `accepted` (and a channel is filled at most once while its
  handler waits).
- `RowsTellTheAnswer` and `VerdictsAreFinal` need that a call still on hold has no verdict and that a row
  recorded for a call still listening holds what it will be told, unless its write was refused; closers touch pending
  rows only.
- `SweepsSpareHolds` needs that a waiting handler's row is no older than its window: `Tick` does not pass
  a due handler, and the window is shorter than the sweep's age.
- `PendingRowsAreBounded` needs that age and time since the last sweep grow together.

`StateSecretProofs` (from `DocAssumption`, `SecretAssumption`):

- `TypeCorrect` needs, for `NextLetter` and `Backfills`, facts about the least unused number.
- `DevicesStayDistinct` and `SecretsAreAgreed` rest on one inductive invariant: a version names one
  document. Every copy, read and re-read at version *v* equals the Secret if *v* is its current version, and
  none is ahead of it. So a put that is let through was computed from the current document.
- `SecretImplementsStore` uses the same invariant: a put that wins is `Apply`, and every other step is a
  beginning, an end or a stutter of `StateStore`.

`AttentionProofs` (from `AttentionAssumption`):

- `TurnsEndAsDeclared` needs that a row between turns holds no wait that has not been through a Stop, and
  in a turn (or after an interrupted one) what was declared (`DeclaredInv`).
- `DialogsStayMarked` needs that no hook that takes a mark away is on its way at a dialog (`QuietInv`), and
  that a text the watcher remembers, or has just read, was closed since its last look or is on the screen
  and marked (`MarkedInv`).

`NotificationsProofs` (from `NotificationsAssumption`):

- `TypeCorrect`, and `NoSnapshotIsLeft`, which proves `SnapshotsAreWatched`. The invariant adds that a table's entry is
  a watcher at work on that replica (`InTable`) and the types of the watchers' memories: a snapshot is stored by a
  watcher at work, and the last one of a replica to end drops it.
- `NoChangeIsPushedTwice` proves `ChangesArePushedOnce`. What is known is not in the invariant by who has seen it, but
  by whom it matters to: the watcher of the tunnel there is (`Remembered`). Unless it has not looked yet, its memory has
  every known subject as it is, and a look under way has read it so. A watcher whose tunnel is gone can only miss
  requests, and a first look pushes nothing; so a successor need not know what its predecessors told.

Its second part is about `Tasks` (from `TasksAssumption` and `RequestsAssumption`), for any calls, tasks and requests,
all from `TasksInv`:

- `SnapshotsAreCurrent`: a transaction whose revision is still the latest has read the list as it stands
  (`SnapshotsHold`). This is inductive because every write that changes anything moves the revision on. `NoEditIsLost`
  proves `EditsAreAtomic` from it: what is committed is one request made of the list as it stands.
- `TasksTypeCorrect` (`TasksTypeOK`) and `DecisionsWin` (`DecisionsStand`) rest on `ResultKeeps`, which says of every
  request, made of any well-formed list at any time, what it does (`Follows`): the new list is well-formed, no task is
  gone, an automated request lets every plan that was set by hand on its day be, a merge also what is finished, and a
  plan that differs was set by hand on that day if a person has asked. `HandsAreNoted` then ties the history to the
  list: a plan whose day `byHand` has is marked as set by hand on that day, and by nobody since.
- A merge goes through a proposal of any length. The library's induction takes an operator, which the provers cannot
  instantiate, so `InductionTo` derives induction up to a number from the set of those it holds of: if some number were
  missing, there would be a least one (`LeastNumber`, from the well-foundedness of < on the naturals). `MergingExists`
  uses it to show that the recursive function of `Merge` exists, `MergeKeeps` that every step of it lets the person's
  decisions stand, `GreatestNumber` that a finite set has the maximum an import numbers on from.
- The step that needs both is a call that is automated, reads, and writes after a person's edit: it cannot, since the
  edit has moved the revision on (`CommitIsCurrent`), so that what `Result` looks at is what the person has set.

`PtyHostProofs` (from `PtyAssumption`):

- `PtyTypeCorrect` and `KeysNameConversations` hold however requests overlap. The second needs that what a request is
  about to file runs the session it was started for, and that a tick has seen in a claude what it ran (`KeyInv`).
- `OneClaude` and `ClaudesAreReachable` assume `~Overlap`: without it both are false, and `pty_two_claudes` shows the
  first. Neither is inductive, and they go together: a claude that is in no map is one that
  a start does not reuse. `PtyInv` says where a live claude can be: under its session's key as soon as the session has
  a row, or in the hand of a request (`FiledInv`), and under some key that no request is about to replace
  (`ReachInv`); that who is about to run a session is the only one (`StartInv`), two requests share neither
  a conversation nor a live claude (`ApartInv`), a claude being filed is in nobody else's hands (`FileInv`), and a tick
  that lists a transcript without a row has seen who runs it or will, in the list of processes and among the spawns
  (`ScanInv`). The rest is what requests, children and
  the saved list know of rows (`RequestInv`, `ChildInv`, `QueueInv`). The guard of `FindRestart` named above came from
  looking for this invariant.

`RestartScheduleProofs` (from `ScheduleAssumption`):

- `TypeCorrect` holds whenever cancelled goroutines end.
- `RestartsWait` (`RestartsAreDue`), `FirstSessionsAreSpared` (`NoFirstSessionIsCutOff`) and `HostedAreSaved`
  (`AllHostedAreSaved`) assume `Prompt`; with `FALSE` TLC finds the late goroutine described above. `ScheduleInv` says
  that one goroutine at a time is awake and the schedule, if there is one, is its own and not cancelled (`OneLooks`);
  that a run of clear looks is no longer than the calm (`CalmLooks`); that the rows tell what the claudes do, but for
  dialogs (`RowsTell`); and that from the clear look until the stop nobody with one key has been busy since before the
  last tick (`SparedWhenTaken`).

`HubTunnelsProofs` (from `HubAssumption`, `TunnelAssumption`):

- `HubTypeCorrect`, `OpenServed` (`OpenIsServed`) and `RevokedOnItsWayOut` (`RevokedIsOnItsWayOut`), all from `HubInv`: a
  table has only the replica's own tunnels, which it is still to take out (`TableInv`). Every document that a read may
  bring is judged as it is installed, so nothing is asked of the copies, however late the reads: a tunnel stays only
  with a copy that vouches for it, or is on its way out.
  Drop requests stay finitely many, because starting times are numbered by their rank among those in tunnels and
  requests.

`SessionsProofs` (from `SessionsAssumption`), the first part from `SessionInv`:

- `HandsStay`: what the operator archived is not marked as archived automatically (`HandInv`), and only what is
  is brought back.
- `HeadlessFiled`: nobody who writes the row of a headless session takes it for an interactive one, and its row is
  filed, or its entrypoint is not known yet and the row still young (`FiledInv`).
- `NewMeansNews`: when there is no news, the transcript, what a scan has read of it, and every activity of the row
  are from before the look, and no hook about work is on its way (`NewsInv`).
- Its second part is about `Tui` (from `TuiAssumption`): `DashboardTypeCorrect` (`TuiTypeOK`; the cursor never leaves
  the list), `TabsHaveSessions` (`TabIsNotEmpty`) and `CursorKeepsItsSession` (`CursorStays`). The invariant is that
  what is shown is the chosen tab of the last list, and that a chosen tab has a session there (`ShownInv`), whether
  repositories have tabs or not.

`VerdictsAreFinal` and the type invariants of `Approvals`, `Attention` and `Notifications` are proved and not checked by
a run.

Only model-checked:

- all liveness (`ScheduleEnds`, `ScreenMarksEnd`, `WantedIsConnected`, `BoardCatchesUp`, `RowCatchesUp`,
  `ResultsAreShown`, `ListCatchesUp`), which is out of the prover's reach, as is ENABLED.

Every invariant and action property of a passing run is proved. No module declares a RECURSIVE operator.

## Plan

In this order:

1. The hazards that no property covers yet: the cooldown, and a look of which one request fails.
2. More of the dashboard: the placeholder of a claude being started and the list of PTYs; the right pane with its reads.
3. The SQLite store of a hub without replicas against `StateStore`.

## Not modelled

- Screens, streams and the dashboard's live panes: terminal emulation and frames, one lock an entry; data more than
  control.
- The right pane, filters, grid, task pane and settings of the dashboard: with the right pane's reads its list has
  too many states for one run, and the filters only narrow a list that is any list already.
- The portal's front end (browser code), MCP servers, command line, store front ends and intake: they call the parts
  above and keep no state another part depends on.
- The local portal: one device and no replicas, a special case of the hub.
- Hooks installation, self update, settings and configuration files: each is one file that is read afresh or replaced.
- Transcripts, usage, skills, summaries and titles, redaction, tracing, i18n, build information, the wrapper: readers,
  text and formatting.
- The hub's cookies and sessions, proxied requests and relays between replicas, and push delivery: requests that pass
  through.
