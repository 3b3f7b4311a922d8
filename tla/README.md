# A verification development of sessions-cli

sessions-cli keeps AI agents in tmux windows. A daemon, `sessionsd`, tracks the
windows; agents report through hooks (`sessions notify` processes); sidebars
subscribe to the daemon and show one row per window; `sessions up`, `down` and
`close` create, restore and remove sessions. This directory holds TLA+ modules
of the parts of that system where several processes, threads and files meet,
TLC configurations that check them on small instances, and TLAPS proofs of the
most important invariants for all instances.

Paths below are relative to `src/src/`, the Rust sources of the repository.

    tlc -workers 2 -config ManifestSync_queue.cfg ManifestSync.tla   # a run
    tlapm ManifestSyncProof.tla                                      # a proof

## 1. The system

### Components

| component | state | operations | modelled by |
|---|---|---|---|
| Manifest sync queue (`daemon/manifest_sync.rs`, `session/manifest.rs`) | pending patches, dirty flag, generation; `session-manifest.json` | enqueue by hooks; debounced loop; `FlushManifest`; flush at SIGTERM; load-change-save by every other writer | ManifestSync |
| Turn tracking (`daemon/state/{mod,notify,merge,disk_sync}.rs`, `model.rs`) | one row per pane, `pane-{id}.state`, `messaged_at` in queue and manifest | hook handling, poll (copy, compute, apply), `Focus`, `AcknowledgeCompletion` | TurnState, TurnTracking |
| Sidebar feed (`daemon/server.rs`, `bar/client.rs`, `bar/app/session_list/daemon.rs`) | daemon version, broadcast ring, each sidebar's last version and rows | publish, subscribe, lag, reconnect, coalesce, gate, apply | SidebarFeed |
| Notify spool (`notify/mod.rs`, `daemon/spool.rs`) | one file per undelivered hook, quarantined files | send or spool, drain at start and every 2 s, ack | NotifySpool, AtLeastOnce |
| Identity resolution (`daemon/state/{identity,notify,merge}.rs`, `session/{managed,env}.rs`) | the agent session of a row: row, managed record, manifest entry, env file, agents' files | hook, its file work, poll that reads, repairs and merges | AgentBinding |
| Daemon state file (`daemon/persist.rs`, loops of `daemon/server.rs`) | rows, dirty flag, `sessionsd.json`, its temporary file | debounced flush, SIGTERM flush, load, quarantine | StateFile |
| Session lifecycle (`session/{lifecycle,restore,manifest,live_snapshot,managed}.rs`, `daemon/state/mod.rs`, `cli/commands/session.rs`) | tmux windows, rows, close markers, `booting`, manifest entries, allowlist, managed records | create, close (daemon, CLI), up, down, refresh, auto reconcile | SessionLifecycle |
| Warm pool (`session/warm_pool.rs`, `daemon/tmux/windows.rs`) | windows with pool option, name and id; manifest entries | claim, cold creation, refill, top-up of the poll loop | WarmPool |
| Automations (`automation/`, `daemon/automation.rs`, `cli/commands/automation.rs`) | definition, run files, `state.json` | tick, fire, reconcile, run by hand, pause, delete, mark-read | AutomationRuns |
| Agent adapters (`agents/`) | agents' logs, the parse cache | prompts, ends and phases of a turn, read by overlapping polls | AgentLogs |
| Sidebar's session list (`bar/app/session_list`, `session/group_order.rs`, `bar/ui/sessions`) | rows, highlight, optimistic focus and rows, folded and expanded directories, saved order | snapshot, patch, keys, clicks, drag, close mode | SidebarList |
| Notes (`bar/app/notepad_section.rs`, `bar/notepad.rs`) | notes in memory, a file each, preferences | edit, paste, drag, rename, delete, autosave, quit, kill | Notepad |
| MCP panel and sync (`mcp/`, `bar/overlay/mcps/state.rs`) | agents' configuration files, gateway, stored matrix, open panels | toggle, refresh, add, sync | McpSync |
| Window of sidebar and workspace (`daemon/tmux/popups.rs` and its callers) | panes and their start commands, panel flag, draft | open, close, toggle, click, Esc, launch, `sessions up`, repair | Panels |
| Titles, workspace catalogue, skills, CLI/doctor/upgrade, hook installation, telemetry, metrics, OS utilities | mostly none of their own | see section 8 | not modelled |

### How they interact

* A hook is a process. It connects to the daemon's socket or leaves a file in the
  spool (NotifySpool). `handle_notify` decides whose row it is (AgentBinding), changes
  the row under the write lock (TurnTracking), gives the change a version and an event,
  and after the lock is gone writes the pane file, enqueues a manifest patch
  (ManifestSync) and broadcasts the event (SidebarFeed).
* A poll every two seconds, every `Refresh` and every new subscriber run the same
  refresh: copy the rows, ask tmux, read files and agent logs (AgentLogs) with no lock
  held, take the lock again and merge (TurnTracking and AgentBinding for one row,
  SessionLifecycle for which rows there are). Refreshes overlap.
* `persist_loop` writes dirty rows to `sessionsd.json` (StateFile), which a new
  daemon loads and which CLI processes read when they resolve a window to close
  (SessionLifecycle) and when a run of an automation is judged (AutomationRuns).
* The manifest is shared: the sync loop, `create_unified`, claims of warm windows,
  `close_unified`, refreshes, `sessions up` and `sessions down`, in different processes
  and without a lock between them. The allowlist (`live snapshot`) is written by
  refreshes, by creation, close and `down`, and decides together with the manifest
  what `up` restores.
* Windows are named by tmux's index, which tmux gives to another window as soon as the
  first is gone. Claims, seeds, closes and repairs hold one over several commands
  (WarmPool, SessionLifecycle, Panels).
* The sidebar shows what the feed brings (SidebarFeed) and turns keys and clicks into
  requests, against rows of an earlier snapshot (SidebarList).

### What is hard, and what makes each part correct

PROJECT.json lists the hazards line by line. In short:

* **Manifest queue**: the copy, the write, the second look at the generation and the
  clear are separate critical sections with flushers in parallel. *Correct* when no
  patch leaves the queue unsaved, when a flush that answers ok has saved what was
  there when it was called, and when a failed write is retried.
* **Turns**: hooks are lost and late, their file work is out of order, polls apply what
  they computed from old copies. *Correct* when a completion is not undone by a poll,
  and when a turn that ended stops spinning even if its stop hook never came.
* **Feed**: events are sent after the lock, so out of order; a snapshot is taken before
  the subscription starts; slow receivers lose events; versions restart at zero.
  *Correct* when what is shown of a row never goes back, and when a snapshot of the
  current rows ends every disagreement.
* **Spool**: a daemon that dies, a file that is not removed, a file that is half
  written. *Correct* when what was accepted is delivered at least once.
* **Identity**: agents run agents in one pane, and their hooks come before the files
  that tell them apart. *Correct* when no session known to be foreign keeps a row, and
  when rows and records heal.
* **State file**: a crash between truncation and rename, a change during a write, two
  flushes at once. *Correct* when the file is always whole and never goes back.
* **Lifecycle**: six places remember a session and each is updated from an old look at
  another. *Correct* when a closed row stays closed, no session gets two windows, what
  was live comes back, and rows converge to windows.
* **Warm pool**: claims, seeds and top-ups list the windows once and then issue command
  after command. *Correct* when what is shown and what the manifest has are the same
  sessions, and when a directory gets its spare back.
* **Automations**: a run is launched seconds before it is recorded; every file is
  loaded and saved whole; verdicts come from old looks. *Correct* when a slot fires
  once and in the end, and when a verdict has a cause and every run gets one.
* **Sidebar and window**: keys act on indices of an earlier list, processes act on pane
  lists of an earlier call, notes and configurations are several files. *Correct* when
  no event takes back what a user chose, notes are on disk, a sync does what was
  shown, and `sessions up` leaves a sidebar and a workspace.

## 2. Modules

| module | what it is |
|---|---|
| `ManifestSync` | queue, flushers, other writers |
| `ManifestSyncProof` | types; nothing lost outside the window; ok means saved |
| `TurnState` | the row's transitions as operators: hook, poll merge, focus |
| `TurnTracking` | one pane, its agent, hooks in flight, polls, user |
| `TurnTrackingProof` | types; a poll never takes a completion away |
| `SidebarFeed` | daemon versions, ring, wire, coalescing sidebar |
| `AtLeastOnce` | abstract delivery: accepted messages are delivered, perhaps again |
| `NotifySpool` | hooks, spool, drain, crashes; uses TurnState for the row, implements AtLeastOnce |
| `AgentBinding` | whose row it is: hooks, records, env files, polls |
| `HookPath` | the two ends of a hook's way, NotifySpool and AgentBinding, one of them per behaviour |
| `HookPathProof` | types; accepted is not lost; steps of the spool are steps of AtLeastOnce; rows keep their agent |
| `StateFile` | flushes over a small file system of names and open files |
| `StateFileProof` | types; the file is whole; it never goes back |
| `SessionLifecycle` | windows, rows, markers, manifest, allowlist and the commands |
| `SessionLifecycleProof` | types; one window for each session; closed rows stay closed |
| `WarmPool` | spares, claims, cold creations, seeds, tmux command by command |
| `WarmPoolProof` | types; what is shown is what the manifest has |
| `AutomationRuns` | one automation: ticks, runs, files, deaths |
| `AutomationRunsProof` | types; one run per slot; verdicts have causes; covered slots are answered |
| `SidebarList`, `Notepad`, `McpSync`, `Panels`, `AgentLogs` | the sidebar's list and notes, the MCP panels, the window, the agents' logs |
| `Parts` | these five, one of them per behaviour |
| `SidebarProof` | SidebarFeed: types, rows never go back; Notepad: notes are on disk; Panels: panels are shown as asked, `up` leaves a live window |

`TurnTracking`, `NotifySpool` and `AgentLogs` use `TurnState`; nothing else is shared,
because the components meet through few values: a hook, a patch, a version, a row.
`HookPath` and `Parts` put parts that share no variable into one state machine; the
variable `part` says which of them a behaviour is of, and the others keep an initial
value. That is a way to check several parts in one run and says nothing about their
interaction. The configurations give the constants directly to the modules, so there
is no separate MC module. Two-element model sets are small enough that symmetry is
not used (it would not be sound for the liveness runs).

## 3. How state and actions correspond to the code

### ManifestSync

`patches`, `dirty`, `generation` are `QueueInner` and the atomic beside it; `disk` is
the manifest file; `pc`, `stable`, `snap`, `copy`, `rounds` are the locals of each
`flush_all` under way: the loop's and those of `FlushManifest` commands (the flush at
SIGTERM is one more of the latter). One action is one critical section or one file
access: `ReadGeneration`, `SnapshotPending`, `LoadManifest`, `SaveManifest`,
`RecheckGeneration`, `ClearPending`. `FlushRound` and `NextRound` are the loop of
`flush_all` with its `MAX_ROUNDS`; `PersistFails` is the error return, which leaves the
queue alone. `WriterLoad`/`WriterSave` are `append_entry`, closing and reopening by
other tasks and processes. `ApplyPatches` writes what an entry takes (`Accepted`): an
id of a known subagent (`Subagents`) is not written, and its patch is cleared all the
same; a flush of it answers ok, which `skipped` remembers as `FlushOkMeansSaved` and
`NothingLostOutsideWindow` excuse it. Of the fields of a patch the agent session id and
`messaged_at` are modelled; title and agent, which an entry refuses for what it has
already, are left out. A value of a field is the generation of the enqueue that set
it, so "newer" is a comparison. Five history variables say what was enqueued, what was
saved and what came in between a second look and its clear; no guard reads them.

### TurnState and TurnTracking

`TurnState` has one operator for each function that makes a row from a row:
`ApplyThreadHook`, `SyncLiveActivity`, `SyncTurnCompletion`, `KeepCompletion`,
`MergeAcknowledged`, `MergeUnfinished`, `MergeRefresh`, `AcknowledgeOnFocus`. A row is
its state, its thread title, its completion, prompt and message times, and the flags
those functions read. `TurnTracking` adds the agent (external: it starts a turn, logs
it, uses tools, ends it and sends a hook for each), hooks in flight, which are delivered
in any order or lost, and the daemon: `HookHandled` is all that `handle_notify_inner`
does under the lock; `EffectPane` and `EffectEnqueue` are the file work after it; a poll
is `PollSnapshot` (copy), `PollTmux` (pane file, active window), `PollCompute` (log and
manifest) and `PollApply`, which puts the result in only if the row is untouched.

### SidebarFeed

`content` and `version` are the daemon's rows and `StateInner.version`; an event made
under the lock waits in `pending` until its task sends it, so events leave in any order.
`queue` and `lagged` are a receiver of the broadcast channel, `Subscribe` takes the first
snapshot and `Listen` joins the channel after it. A sidebar drains `wire` into one
batch, reorders it (`Orders`: patches, then the best snapshots, `Best`) and applies it
through the version gates. `Crash`/`Restart` begin an incarnation whose versions start at zero.

### NotifySpool and AtLeastOnce

A hook is `Fire`, then `Send` when the daemon accepts or `Create` and `Write` when it
does not, and it can be killed at each step. The drain lists, reads, quarantines,
applies and acks file by file. `Crash` loses everything in memory; the row that a new
daemon starts from is the one in `sessionsd.json`. `AtLeastOnce` has two variables,
`accepted` and `delivered`; `Delivery == INSTANCE AtLeastOnce WITH ...` maps them to
`accepted` and to the `handled` part of it.

### StateFile

The file system is a set of inodes, two names (`path`, `tmp`) and the files tasks have
open, because what goes wrong is about a name that is taken over while a file is open.
A flush is `CheckDirty`, `ReadRows`, `CreateTmp`, `WriteTmp`, `Rename`, `ClearDirty`, or
`WriteFails`. `Stop`, the shutdown task's flush and `Exit` are the SIGTERM arm of
`run_daemon`. The rows are the number of the change that made them.

### SessionLifecycle

A session is a window that carries a session id. `win` is tmux, `rows`, `markers`,
`booting` the daemon, `file` its state file, `entry` the manifest, `allow` the live
snapshot, `record` the managed records. A refresh is `RefreshLook` (is the agents
session there), `RefreshCopy`, `RefreshPoll`, `RefreshApply` and its three follow-ups
`RefreshReopen`, `RefreshMark`, `RefreshSave`. Creation is `NewStarts`, `MakeEntry`,
`MakeAllowed`, `MakeWindow` or `MakeFails`; a close is `CloseStarts` (daemon) or
`CliCloseStarts`, `CloseTombstones`, `CloseKills` or `CloseRefused`, `CloseForgets` or
`CliCloseTells`; `up` and `down` are the `Up...` and `Down...` actions.

What it abstracts:

* `new-window` and the `set-option @sessions.id` after it are one step, as are one
  load-change-save of the manifest or of the allowlist (ManifestSync splits the former)
  and the reads of `UpLoads` and `AutoReconcile`.
* `workspaces.toml` has one slot, and the seed of a manifest whose slots are all closed
  is merged with the bootstrap. The skip of entries whose directory is gone is left out.
* At a time there is one `up`, one `down`, one close and one creation by a user.
* Matching by agent session id and by pane marker is folded into the session id.
* A row may be replaced by a hook while a refresh looks (`touched`); which rows is
  nondeterministic, and each counts as a hook command.
* Claims of warm windows, manual titles and the repair of the manifest are left out.

### AgentBinding and HookPath

`kind` is the agent a window was launched with and `home` where each agent session
runs; both are the world's. `row`, `record` (managed record), `saved` (manifest) with
its `queue`, and `env` are the four places that remember the binding; `known` are the
sessions whose files are there. `Hook` is what `handle_notify` changes under the lock
(`Targets`, `FromIndex`, `Recorded`), `HookEffects` the env file after it, `Flush` the
manifest. A poll is `PollCopies`, `PollTmux`, then for each window `PollLoads` and
`PollMerges` (`Merged`, `Repaired`), and `PollApplies`, which drops rows hooks have
`touched`. `Forget` is a daemon that starts without its rows.

All files of a session come at once, panes are not restarted, and one working directory
is shared. The console, windows nobody manages and the choice between two rows of one
session are left out.

### WarmPool

`open` and `win` are tmux's windows by index, `entries` the open entries of the
manifest, `proc` what each client (sidebar or CLI) and each top-up is doing: its step,
directory, the index it works on, its session id, and whether that window has gone
meanwhile (`lost`). One step is one tmux command. A claim is `Claim` (list and choose),
`ClaimSetsOptions`, `ClaimRenames`, `ClaimEnds` (manifest entry, and the
refill begins) or `ClaimFails`; a cold creation `ColdCreate`, `ColdOpens`,
`ColdSetsOptions`; a refill and a top-up (`Maintain`) go through `EnsureSpare`,
`SeedOpens`, `SeedSetsId`, `SeedSetsFlag` to `SeedDone`. `CliExits` takes the refill
thread with it. Three flags of a window are history: `failed` (its claim failed),
`rushed` (claimed before its seed had set everything) and `strayed` (hit by a command
for an earlier window at its index).

### AutomationRuns

`definition`, `runs` and `state` are the three kinds of files; `win`, `ended`, `known`
and `aged` are the world's: windows, agents, what the daemon's state file says, and
STALE_RUN_TIMEOUT. Time is the number of slots that have passed. A tick is
`ReconcileStart` (what is live; a list that tmux does not give counts as empty), `ListRuns` (the newest `MaxListed` runs, with the daemon's file: `Plans`),
`ReconcileRun` and `VerdictSaved` for each planned verdict, and `TickFire`, which asks whether
one of the newest `MaxChecked` runs is running; firing is
`Fire`, `Launch`, `SaveRunning` or `SaveFailedRun`, and `RecordFired`, each one file
access; a failure's `BumpFailureState` and a success' save of `state.json` write the copy
that was loaded before. The command fires the same way (`RunNow`), pauses, deletes,
creates or marks as read (`MarkLoad`, `MarkSave`). That `fire_automation` returns before
anything is saved (a worktree, a directory that is gone) is `definition` being "paused".
`Dies` and `Restart` are deaths of either. Four variables are history: `for` and `torn`
say for which slot a run was fired and that the bookkeeping of a fire was cut off, taken
back or deleted; `answered` are the slots that had passed at the last launch, `missed`
those that passed between a launch and its record.

### SidebarList

`bar` is the part of `App` the list has: the daemon's sessions, active and selected row,
the rows painted, the target of close mode, the optimistic focus, expanded and folded
directories, the saved order and the drag. A handler is one action: `Snapshot`, `Patch`,
`Move`, `ClickRow`, `CreateSession`, `CreateInGroup`, `PressGroup` to `Drop`, `HoldD`,
`AimClose`, `CloseEnter`, `CloseGroup`. `Rebuild` is `rebuild_rows`, whose parts have
the names of the code's. Ids stand for row ids, tab indices and session ids alike;
stamps are ranks; a behaviour exercises one kind of
gesture (`Scenes`). Below the sessions are the titles of the notes (`NoteRows`), which
close mode aims at too; they are those of an open section of folded notes, and what Enter
asks on one is in Notepad.

### Notepad

`mem` is what the application keeps and `disk` the files: one for each note and the
preferences that list them. A handler changes `mem` and leaves in `todo` what it still
has to write; `WriteNext` and `WriteFails` are one file each, and `Restart` may come
between them. A text is the number of its last change. Cursor, scrolling, the limit of
2000 characters and a paste's saves before its insertion are left out.

### McpSync

`files` are the agents' configurations, `obot` the gateway, `stored` the enablement file
and `panel` each open panel with its matrix and the sync it runs. A sync is
`SyncLists`, then for each agent `SyncReads`, `SyncMerges`, `SyncRenames`; `Inventory`,
`EnabledOr`, `PlanAction`, `Upsert` and `Merge` are the functions it calls. Agents,
users and the gateway change their files at any step, and an agent's file can be half
written. A behaviour begins with at most one oddity: an entry that is an inline table, a
file whose servers are not in a table or object (`odd`, which a merge refuses), or a name
that TOML must quote (`quoted`), which `Saved` makes a file that does not parse.

### AgentLogs

`log` is a session's log of lines (kind, time, text that tells lines apart), `torn` a
last line that is not all there ("line") or ends inside a character ("char", when the
file cannot be read at all, `Unread`), `cache` the newest entry of the parse cache and `poll`
the refreshes that read. A Codex event without payload ("bare") may end the parse
(`Aborts`). OpenCode is asked by two statements, `ReadStart` and `ReadEnd`. `ReadAnew`, `Lookup`, `ReadFile`, `Store` are one poll's look at
the file; `Boundary`, `Running`, `Short` are the adapters' rules of a turn's begin and
end. `said` is an answer with how the turn really stood, which is history.

### Panels

`panes` is the window: pane 0 the sidebar, pane 1 the workspace, each with the start
command tmux keeps and whether its process lives. `task` is what each process is doing:
two panel commands at a time, the sidebar and one `sessions up`; a step is one tmux call.
`side` is the sidebar's panel flag with its grace period, `draft` the draft of a new
session. "mcps" stands for the automations and skills panels too. `Own`, `Others`,
`Spawn` are an open or a toggle; `Respawn`, `Restore`, `Fix` the repair; `UpSidebar`
to `UpVerify` the steps of `up`; `Breaks` and `Killed` panes that die.

## 4. Runs

Every property of a passing run is broken by a mutant, a plausible bug in a mapped
definition, listed in PROJECT.json. The operators of the mutants stand beside the
definitions they change.

| run | checks | shows |
|---|---|---|
| `manifest_queue` | `TypeOK`, `FlushOkMeansSaved`, `NothingLostOutsideWindow`, `EventuallySaved` | With the loop, a `FlushManifest`, another writer and a failing write in parallel, ok means saved (or refused by the entry: a known subagent's id), patches disappear only through the gap of `manifest_clear`, and every patch is written in the end. |
| `manifest_clear` (violation) | `ClearOnlyWhenGenerationStable` | The queue is cleared although a hook has enqueued since the second look at the generation. |
| `turn_safety` | `TypeOK`, `CompletionSurvivesPolls` | No poll undoes a completion, whatever it read and whatever came in between. |
| `turn_liveness` | `SpinnerStops` | With the stop hook lost, the poll of the log ends the turn. |
| `sidebar_feed` | `TypeOK`, `RowsNeverRegress`, `SnapshotHeals` | No row goes back to an older state of the same daemon, and a current snapshot brings the sidebar up to date. |
| `hook_path` | `PathTypeOK`, `AcceptedNotLost`, `DeliversAtLeastOnce`, `RowKeepsItsAgent`, `Heals` | A hook read whole from the spool is applied or still in its file, and the spool refines `AtLeastOnce`, liveness included; no poll leaves a row with a session known to be foreign, a known subagent does not take its parent's row, and rows and records heal. |
| `statefile_durability` | `TypeOK`, `FileWhole`, `SavedNeverOlder`, `EventuallySaved` | Under crashes and failed writes the file is whole, never goes back, and catches up with the rows. |
| `lifecycle_windows` | `TypeOK`, `NoZombieRow`, `RowsConverge` | Around one slow refresh: closed rows stay closed, and rows converge to windows. |
| `lifecycle_restore` | `OneWindowEach`, `LiveComeBack` | However often tmux dies during `up` and `down`, what was live comes back, in one window each. |
| `warm_pool` | `TypeOK`, `PoolMatchesManifest`, `SpareComesBack` | What is shown as a session has a manifest entry and no session of the manifest is a spare, but for failed and overtaken claims and commands that hit the next window; a live directory gets its spare back. |
| `automation_runs` | `TypeOK`, `SlotFiredOnce`, `VerdictForCause`, `RunsEnd`, `EventuallyFires` | One run per slot unless its bookkeeping was torn; verdicts for cause, of which one is a list that tmux did not give; every run that is still among the newest ends; a missed slot, or one whose launch failed, is answered by a launch after it, unless it passed while a launch was on its way into `state.json`. |
| `sidebar_parts` | `PartsTypeOK`, `ChoiceHolds`, `IndicesHitRows`, `SyncAsShown`, `ReportsAreTrue`, `NotesOnDisk`, `PanelAsAsked`, `UpLeavesUi` | The highlight and the opened session survive daemon events, keys hit rows, and the close target stays on sessions and titles of notes; an undisturbed sync does what was shown and no more; what a poll says of a turn is so; no keystroke is lost to a kill; a request to a window at rest is fulfilled; `up` leaves a sidebar and a second live pane. |

### Bounds, and why they are enough

* `manifest_queue`: one session, because patches of sessions do not interact (the proof
  is for any number); two enqueues, so that one is being flushed while the other
  arrives; `MAX_ROUNDS` is 1 instead of 64, so that its end is reached (2 in
  `manifest_clear`); one failure. The second enqueue is a
  subagent's (`Subagents`), known or not yet known when it is flushed.
* `turn_*`: one turn and one poller. Polls meet only in the row, which `PollApply`
  replaces only if nothing else has; the proof covers any number of pollers and turns.
* `sidebar_feed`: one row and one sidebar (sidebars share nothing, and events name one
  row or all; the proof covers any number of both); a ring of one, so that lag happens;
  two changes in a daemon and one restart; two undrained events on the wire, so that
  coalescing has a choice.
* `hook_path`, the spool: two hooks, so that order and a second file matter; two crashes,
  so that the recovery is crashed too; one failing removal. The binding: one window, a
  session of each agent and a subagent, of which two begin; two hooks; one daemon that
  starts without its rows.
* `statefile_durability`: four changes, one failure, two deaths: enough for a change
  during a flush, a failed flush, and a daemon that starts on what another left.
* `lifecycle_windows`: three sessions of which one is new and one is workspaces.toml's,
  three indices, so that an index can be taken again; two commands and one fault.
* `lifecycle_restore`: four commands and two deaths of tmux: an `up` that is cut off, the
  `up` after it, and `down`s between them.
* `warm_pool`: two directories, a sidebar, a CLI process and a top-up, so that two claims
  and a seed meet; a pool of two, four windows, six ids; one window goes, so that an
  index is taken again under a command.
* `automation_runs`: two runs, one slot, one fault: two runs for one slot need no more,
  and `MaxFaults` counts deaths, failures, pauses, deletions and mark-reads together. One
  run is looked at (`MaxListed`, `MaxChecked`; 30 and 5 in the code), so that the other
  is out of sight; with two the run takes longer and passes as well, and the proofs are
  for any numbers.
* `sidebar_parts`. List: three sessions in two directories, one row per directory before
  the clip, one title of a note, one event after the first snapshot, three inputs (the create scene two); one
  session changes per snapshot, and only snapshots that move the focus alone
  acknowledge. MCP: one server, three file formats, one panel, one change by others,
  three keys. Logs: two overlapping refreshes, two turns, one other line, four ticks of
  which two are a second; three lines stand for Grok's 64 KiB. Notes: two notes, two
  edits, one kill, one failing write. Window: three requests, one thing that breaks.

`CHECK_DEADLOCK FALSE` stands where the bounded system stops because its changes, turns,
runs, windows, keys or deaths are used up; HookPath, ManifestSync and SessionLifecycle
always have a step.

### Fairness

* Daemon tasks (loops, running flushes, file work after a hook, drains, sends,
  refreshes, ticks, top-ups) are tokio tasks or threads that the runtime schedules: weak
  fairness.
* A started process (a spooling hook, a creation, an `up`, a claim, `automation run`)
  runs: weak fairness. An agent's files come in the end.
* A daemon that is down is started by the next CLI command (`ensure_daemon_running`);
  NotifySpool and AutomationRuns assume there is one. SessionLifecycle and StateFile do
  not.
* Time passes: a run gets older than STALE_RUN_TIMEOUT in the end, however often that is
  interrupted (strong fairness of `Ages`, which the model lets happen between ticks only).
* Agents, users, failures and deaths are never forced. Hooks may all be lost.
* `SpinnerStops` is about an agent that has ended its turn in its log and a user
  who sends no further `Focus`. `SnapshotHeals` is about a first daemon that stays up.
  `RowsConverge` is about a daemon that stays up and is not booting: `booting` ends only
  when a user runs `sessions up`. `EventuallySaved` of StateFile lets the daemon be
  told to stop first. `Heals` is about what is so from some point on, after the bounded
  hooks. `SpareComesBack` and `EventuallyFires` name their excuses in their definitions.

## 5. Proofs

TLC says that a formula holds on the instances above. The proofs say it of every value
of the constants, from the named assumptions on them alone (`ManifestSyncAssumption`,
`TurnTrackingAssumption` and TurnState's `TitleAssumption`, `StateFileAssumption`,
`NotifySpoolAssumption`, `HookPathAssumption`,
`SidebarFeedAssumption`, `AutomationRunsAssumption`,
`LifecycleAssumption`, `WarmPoolAssumption`, `PartsAssumption`), which the runs evaluate. They say that bounds are numbers and that
sets of processes or of agent sessions are disjoint; WarmPool's also that there are finitely many processes
and that each client has a session id of its own, SessionLifecycle's that window
indices are 1 to some number.

| theorem | states | argument |
|---|---|---|
| `ManifestSyncProof!TypeCorrect` | `[]TypeOK` | Inductive with `RoundsLeft`: a flusher inside a round has one left, so the count stays in range. |
| `ManifestSyncProof!NothingLost` | `[]NothingLostOutsideWindow` | Below. |
| `ManifestSyncProof!FlushOkSaves` | `[]FlushOkMeansSaved` | Below. |
| `TurnTrackingProof!TurnTypeCorrect` | `[]TypeOK` | One lemma for each operator of TurnState (a row from a row), then one case for each action. |
| `TurnTrackingProof!CompletionSurvives` | `CompletionSurvivesPolls` | `CarriesCompletion`: a poll that copied a confirmed completion brings one back or saw the user come to the window, and it is applied only to the row it copied. |
| `StateFileProof!StateTypeCorrect` | `[]TypeOK` | `Opened` and `TemporaryFile`: there is always an unused inode for the next temporary file. |
| `StateFileProof!FileIsWhole` | `[]FileWhole` | Below. |
| `StateFileProof!NeverOlder` | `SavedNeverOlder` | Below. |
| `HookPathProof!SpoolTypeCorrect` | `[]TypeOK` of NotifySpool | Below. |
| `HookPathProof!AcceptedIsKept` | `[]AcceptedNotLost` | Below. |
| `HookPathProof!SpoolRefines` | `Delivery!Init /\ [][Delivery!Next]_(Delivery!vars)` | `StepDelivers`: a read must not make accepted what was delivered before, and does not, because what the socket delivers is never in a file (`Owned`); what a drain applies was accepted (`Distinct`); a crash takes neither back. |
| `HookPathProof!PathTypeCorrect` | `[]PathTypeOK` | Both parts; a file that is written anew is taken out first. |
| `HookPathProof!RowStaysWithAgent` | `RowKeepsItsAgent` | Below. |
| `SidebarProof!FeedTypeCorrect` | `[]TypeOK` | A conjunct of the invariant below, with what `Orders` makes of a batch. |
| `SidebarProof!RowsOnlyAdvance` | `RowsNeverRegress` | Below. |
| `SidebarProof!NotesSurvive` | `[]NotesOnDisk` | Below. |
| `SidebarProof!PanelShownAsAsked` | `[]PanelAsAsked` | Below. |
| `SidebarProof!UpLeavesLiveWindow` | `UpLeavesUi` | Below. |
| `AutomationRunsProof!RunsTypeCorrect` | `[]TypeOK` | `RunsPlaced` and `ProcsPlaced`: whoever fires has a run of its own, which has a window from its launch on. |
| `AutomationRunsProof!OneRunForASlot` | `[]SlotFiredOnce` | Below. |
| `AutomationRunsProof!VerdictsHaveCauses` | `VerdictForCause` | Below. |
| `AutomationRunsProof!CoveredSlots` | `[]CoveredForCause` | Below. |
| `SessionLifecycleProof!LifecycleTypeCorrect` | `[]TypeOK` | `WorkType`: who makes or closes a window knows which. |
| `SessionLifecycleProof!OneWindowForEach` | `[]Apart => []OneWindowEach` | Below. |
| `SessionLifecycleProof!ClosedRowsStayClosed` | `[]Alone => []NoZombieRow` | Below. |
| `WarmPoolProof!PoolTypeCorrect` | `[]TypeOK` | A conjunct of the invariant below. |
| `WarmPoolProof!PoolIsManifest` | `[]PoolMatchesManifest` | Below. |

**ManifestSync.** Neither property is inductive: that clearing the queue is harmless
depends on what the flusher copied and wrote some steps ago. `LossInv` adds what a
flusher knows at each of its steps. `SnapshotCovers`: from the copy on, its copy has
every queued value that is not newer than the generation it read first.
`SnapshotWritten`: from the write on, every value of its copy is saved, was refused or had
no entry to go to. `WindowCatches`: between its second look and its clear, what is queued and
newer came in within that window. `QueueInv` bounds generations and says that a clean
queue is empty. At the clear the three cover every queued value. That another flusher
clears, or another writer overwrites, at any of these steps is a case of the same proof.

**StateFile.** What makes the rename safe is that until SIGTERM there is one writer.
`OneWriter` says so: only the loop has a temporary file open, it is the one at the
temporary name and not the one at the path; what the loop renames is the whole of its
copy; and the copy is no older than the file and no newer than the rows. `Opened`,
`AtRest` and `Known` tie program counters to open files and contents to changes. After
SIGTERM `OneWriter` is void, and `StateFile_sigterm.cfg` shows what then happens.

**NotifySpool.** A message that was accepted is lost if anybody but the ack of its own
application removes its file. `SpoolInv` says why nobody does. `Numbered`: hooks are
numbered as they fire, so file names differ. `Owned`: a hook is the socket's or the
spool's, and what is accepted was written whole. `Distinct`: the files a round has still
to read and the messages it has still to apply are different, each of them once, and the
latter were accepted. `Stands`: what is about to be quarantined was never accepted, and
what is about to be acked was applied.

**AgentBinding.** That a merge drops foreigners is one step. That a subagent does not
take its parent's row is not: a poll copies rows, asks record, manifest and env files,
repairs and merges, and any hook may come in between. The chain runs back from the
merge. `Copied`: where no hook has touched the row it is what the poll copied.
`MergedOfParent`: what is merged into a copied row of the parent is no late subagent
(known before its first hook), for `FreshOfParent`: the poll has found none, because it
asks the record first and that is not empty. `ParentRecorded`: whatever place names the
parent, the record has been set, by its first hook at the latest; `OwnRecord`: and never
cleared. `KeptClean` and `LateKnown`: no record and no manifest entry is a late subagent,
because it stays known. Beside an agent of another kind `OwnRecord` fails: its hook
takes the record, the next poll clears it and binds the youngest env file's session
(`ParentKeepsRowBesideForeign`, section 6).

**SidebarFeed.** A version gate is a look at one number, so the number of an event has to
say enough about each of its rows. `Copies(r)` are all copies of a row: the daemon's,
those on their way and those shown. `NewestAtDaemon`: the daemon's is the newest.
`NumberedAsMade`: an event is numbered no lower than the rows it carries. `GateIsEnough`:
an event that is as new as some copy of a row carries no older one. `ShownByVersion`:
what a sidebar shows is no newer than the version it stands at. Sending, lag,
reconnection, reordering in a batch and dropping move copies or take them away and
leave all four; only a change of the rows and a restart make a copy, and have cases of
their own.

**AutomationRuns.** Between a launch and the save of `last_fired_at` the slot is due for
everyone who reads `state.json`. `SlotsRecorded` says what saves it: while nothing was
torn, `last_fired_at` covers every slot for which the scheduler has launched a run,
except that of the run it is working on, and that slot is later than the others. A
verdict is saved some steps after it was made, so `CausesStand` says that causes last:
a plan to call a run done means that its agent has ended, a plan to fail it that it is
too old, gone, ended or not among the runs that were born when the windows were listed,
or that the windows could not be listed. `HistoryPlaced` is behind `CoveredForCause`: what
`state.json` says, and what a process may save over it, covers a slot only if a run was
launched after it or it passed while a launch was on its way to be recorded.

**SessionLifecycle.** Nothing that makes a window asks whether its session has one: a
creation relies on a new id, a restore on what it saw when it listed the windows, however
long ago. `NewIdsAreNew`: a session without an entry has no window, so a new id is safe,
and it has its entry before its window. `MadeOnce`: what is being made, or is left of the
restore's plan, has no window, is planned once, and is left over only while `up` creates.
Windows that exit, are killed or die with their server, and entries that others close
and reopen, only help (`WindowsGo`). The theorem assumes `[]Apart`: nobody creates
sessions while `sessions up` runs. The code does not prevent that, and then the property
fails: a new session has its entry and is in the allowlist before it has its window, so
an `up` that lists the windows in between restores it too (section 6).

`NoZombieRow` is about `gone`, the sessions that a close has removed (`Removed`).
`NothingLeft` of them is a window, a record or a row, so neither a hook nor a poll of
now brings one back. What can is a poll that listed the windows before the kill and is
merged after it. `KeptAway` says that such a poll finds the marker and has not copied
it before, so that its merge skips the row and does not drop the marker;
`MarkersStay` that what a refresh has copied is still a marker when it is merged. Two
refreshes between copy and merge break that, hence the assumption `[]Alone`, and TLC
shows the row that comes back then (section 6).

`LiveComeBack` is about `up`, `down` and deaths of tmux only: `Undisturbed` says that
nobody creates or closes sessions, that the daemon stays up and that its refreshes
come one at a time and are not slow. Section 6 has a counterexample for creations and
slow refreshes. `RestoreInv` is what makes the rest safe. `WantedKept`: a session
that is live, or was when tmux died, has an open entry and is allowed. `AtRest`:
between restores rows, allowlist and entries are what tmux has, so nothing is promised.
`UpLoaded`, `UpGoesOn` and `UpDone` follow what is `Due` through a restore: it has been
loaded, it is live or still to be made, it is live. `Doomed` is the restore whose tmux
died and that cannot start another; it makes no window and ends without a server, which
`LiveComeBack` leaves to the next `up`. `Prompt`, `Polls` and `Tells` say that the refreshes
meanwhile, whose polls may be of a dead server, drop nobody who is wanted: either the
daemon is booting, or they show what they polled. `Reconciled` follows the one that
ends the restore, and `Downs` the list of `down`.

**WarmPool.** Nobody holds a lock, so what a process knows of its window ends with the
window. `At(p, i)` is that p works on the window at i and it has not gone. `Placed`: then
it is there, and one process makes it. `Traced` and `Marked`: a window that has a
process's id, and was hit by no stray command, is the one it works on, and its id, name
and flag are what the process's step says. `IdsApart`, `Unwritten` and `Reserved`: an id
is on one window, a chosen id is on none before it is written, and a client's id for a
cold creation is nobody's before. `Entered`: a creation has its manifest entry before
its window, a seed's window has one only if a claim overtook it. `Overtaken`: such a
claim has noticed. `Renamed`: a window not called a spare is a session of the manifest,
failed, stray, or about to be entered. With `ManagedIsShown` they are inductive, and
`ShownIsManaged` follows.

**Notepad.** Between the files a handler writes, memory and disk differ; what keeps the
notes is that `todo` accounts for every difference. `TodoOK`: a handler removes only a
deleted note's file, and that first, and writes the preferences after every note.
`FilesKnown`: what the preferences name is a file or was deleted, and a file is a note's,
a deleted note's or one that a sidebar without preferences left. `NothingForgotten`
says of each note that its text and its place are on disk, or are still to be written,
or that a write has failed. A kill replaces memory by what `Loaded` reads, and the same
conjuncts say that this is what memory was, up to the write that the kill cut off.

**Panels.** No command knows of the others, so the proof follows what the window will
show. `Coming` is what a process at its step will leave, given what is shown now.
`AskedComes`: while the outcome can be told, the window is whole, at most one process
is at work, and what is shown or `Coming` is what was asked; `Plain`: that process
takes no way that mends. For `up` it is `UpMends`: as long as nothing has broken since
it began, each of its steps finds what it can go on from (`Mends`) - at `ensure` a
second pane that lives, at `verify` no dead pane if there are two. Other commands keep
that, because all they do to a window is to replace panes by live ones or to add one
(`Replaced`, `Added`, lemma `MendsHold`), and a pane that was listed is respawned by its
number, which is no other pane's (`PanesOK`, `FreshFacts`).

Only model-checked:

* Everything about liveness, which needs ENABLED: `EventuallySaved` twice,
  `SpinnerStops`, `SnapshotHeals`, `DeliversAtLeastOnce` beyond its safety part,
  `Heals`, `RowsConverge`, `SpareComesBack`, `RunsEnd`, `EventuallyFires`.
* `LiveComeBack` of SessionLifecycle, under the conditions of its run (no creations, no
  closes, no slow refreshes, no deaths of the daemon); section 6 has what happens without.
* Of Parts, `PartsTypeOK`, and what the list, the MCP panels and the logs promise:
  `ChoiceHolds`, `IndicesHitRows`, `SyncAsShown`, `ReportsAreTrue`. They rest on sorted,
  filtered and folded sequences, which the library defines by CHOOSE and by recursion
  and the prover has no induction for.

No module uses RECURSIVE.

## 6. Findings, and further counterexamples

`manifest_clear` contradicts what the repository says of itself; PROJECT.json quotes the
line: `flush` compares the generation and clears under another lock
(`daemon/manifest_sync.rs:179`), so a hook in between loses its patch.

The modules state more sentences that are not so, each checked by hand with one of the
configurations below. TLC stops at the first property that is violated; to see another
one, leave the ones above it out. They say where the passing properties stop.

| configuration | property | what the code says | what happens |
|---|---|---|---|
| `ManifestSync_tombstone` | `TombstoneOnlyReopened` | `session/lifecycle.rs:512`: the tombstone comes before the kill so that a race cannot leave the slot open | The sync's load-change-save (`session/manifest.rs:329`) writes the closed entry back open. |
| `TurnTracking_gaps` | `CompletedPaneFileIdle` | `daemon/state/mod.rs:519`: pane files must not retain `working` | File work of a tool hook follows that of the stop hook (`daemon/state/mod.rs:593`). |
| | `CompletionNotOlderThanPrompt` | `docs/architecture/universal-pty-naming.md:93`: hooks win for turn boundaries | A poll takes the last turn's end in the log for the end of this one (`daemon/state/disk_sync.rs:83`). |
| | `MessagedAtNeverRegresses` | `daemon/state/disk_sync.rs:16`: order is hook-owned | A poll takes `messaged_at` from a manifest that lags (`daemon/state/disk_sync.rs:130`). |
| | `LateHookHarmless` | `docs/architecture/universal-pty-naming.md:93`, as above | A stop hook of the last turn that comes after the prompt of this one completes it (`daemon/state/notify.rs:223`). |
| | `BellForCompletion` | `model.rs:131`: highlight and bell both use `thread_is_complete` | A poll completes the row first and the stop hook rings nothing (`daemon/state/mod.rs:507`). |
| `SidebarFeed_gaps` | `ReconnectingOnlyWhileDown` | `bar/app/mod.rs:115`: true while reconnecting | Snapshots of a restarted daemon are below the sidebar's version and dropped (`bar/app/session_list/daemon.rs:75`). |
| | `PatchesOfABatchApplied` | `bar/app/session_list/daemon.rs:20`: patches first, so that bells are not dropped | The older patch of a batch that was sent out of order is dropped (`:170`). |
| `NotifySpool_gaps` | `QuarantinedNeverValid` | `daemon/spool.rs:34`: invalid files can never be applied | A file seen between its creation and its writing (`notify/mod.rs:262`) is quarantined, and its message with it. |
| | `RedeliveryIdempotent` | `daemon/spool.rs:22`: `handle_notify` must remain idempotent | A redelivered prompt restarts a turn that has completed. |
| `StateFile_sigterm` | `SigtermSaves` | `daemon/server.rs:132`: SIGTERM flushes `sessionsd.json` | Two flushes share `sessionsd.tmp`, and the process ends in the middle of the loop's. |
| | `CleanIsSaved` | | Rows that change between the copy and the clear are marked clean (`daemon/server.rs:334`). |
| `SessionLifecycle_races` | `VanishedAreGone` | `daemon/state/mod.rs:774`: tombstone only what is truly gone | An older refresh tombstones a session that a newer one has added. |
| | `NoZombieRow` | `daemon/state/mod.rs:1009`: tombstones block concurrent polls | With two refreshes one drops the marker and the other puts the row back. |
| | `ClosesItsOwn` | `daemon/state/mod.rs:1008`: kill the session's window | The window is killed by an index that another session may have by now. |
| `SessionLifecycle_gaps` | `NoPruneWhileBooting` | `daemon/state/mod.rs:118`: blocks poll prune | `booting` is copied before the poll and used after it. |
| | `ClosedReopen` | `daemon/state/merge.rs:137`: a closed session on a live pane is healed | The last window is refused after its entry was closed, and nothing reopens it. |
| | `ClosedSlotNotRestored` | `session/lifecycle.rs:512`, as above | `up` decides from a manifest it loaded before the close. |
| `SessionLifecycle_remember` | `LiveComeBack` | `session/lifecycle.rs:155`: new sessions are in the allowlist at once | A refresh that polled before saves its own list over it (`daemon/state/mod.rs:817`). |
| | `OneWindowEach` | `session/restore.rs:104`: live ids once, duplicates skipped | A new session is remembered before its window exists (`session/lifecycle.rs:155`), and an `up` that lists the windows in between makes it a second one. |
| `SessionLifecycle_down` | `LiveComeBack` | `cli/commands/session.rs:261`: the daemon's list is the truth | A session newer than the last poll is closed and dropped by `down`. |
| `WarmPool_gaps` | `OneClaimPerSpare` | a claim takes a spare out of the pool | Two claims list the same spare (`session/warm_pool.rs:94`) and share its window. |
| | `NothingHidden`, `NoStrays` | | A seed sets the pool option of a spare that was claimed by its name; a command hits the next window at its index. |
| | `FailedClaimRestorable` | | A claim fails after the pool option is cleared and before its entry is written (`session/warm_pool.rs:109`); the window is shown and cannot be restored. |
| | `OneSparePerCwd` | `session/warm_pool.rs:4`: one detached spare per agent and directory | Two refills list before either has created. |
| `WarmPool_cap` | `PoolCapped` | `session/warm_pool.rs:27`: cap of the total | Two seeds count the spares before either has created one. |
| `AutomationRuns_gaps` | `OneLiveRun` | | A run by hand starts while another runs. |
| | `FiredOnce` | `automation/runner.rs:321`: fire once each | Whoever fires dies between the launch and the save of `last_fired_at` (`automation/runner.rs:111`). |
| | `CoveredIsAnswered` | `automation/schedule.rs:136`: catch-up, a single fire | A slot that passes in that gap is covered by the time that is saved. |
| | `FailedIfGone` | `automation/runner.rs:163` | A list of windows that tmux does not give is an empty one, and every running run fails. |
| | `AllRunsEnd` | `automation/runner.rs:16`: how long a run may stay `running` | A run that thirty newer ones have pushed out of the list is not looked at (`automation/runner.rs:173`). |
| | `VerdictStands` | | mark-read saves the run it has loaded over a verdict (`automation/store.rs:231`). |
| `AgentBinding_gaps` | `ForeignNeverRotates` | `daemon/state/notify.rs:144`: an agent's hooks do not rotate away a session of another agent | The files that tell come after the hook. |
| | `ShownOnce`, `SubagentNeverBound`, `ParentAlwaysKeepsRow`, `RecordKept` | | Two rows, or a subagent, take an identity until a poll repairs it. |
| | `ParentKeepsRowBesideForeign` | `daemon/tmux/poll.rs:250`: the record before the env files | A foreign agent's hook takes the record, the repair clears it, and the poll binds the subagent that wrote the youngest env file. |
| `SidebarList_gaps` | `SavedHighlight` | `bar/app/session_list/selection.rs:222`: at a cold start the persisted one is preferred | The list is rebuilt empty before the first snapshot, which clears it. |
| | `SameOrdinal` | `sessions focus N` is the N-th row | Expanded directories are not known to it. |
| | `ActiveShown`, `RowsInPlace`, `CloseTargetStays`, `CloseTargetIsNoNote` | | A snapshot with the same ids rebuilds nothing; close mode aims at an index, which may be the title of a note when the list has become shorter. |
| `Notepad_gaps` | `SelectionOfActive`, `KeysReachActive`, `ActiveExists`, `FirstNoteShown`, `FailureIsRetried`, `ConfirmIsModal` | | Keys during a drag, a kill before the preferences, and a failed write without a retry. |
| `McpSync_gaps` | `DryRunStoresNothing` | `bar/overlay/mcps/state.rs:752`: not written until Sync | A dry run stores the toggles too. |
| | `DefinitionKept`, `SyncIdle`, `StoredKept`, `BrokenKept`, `ConfigKept`, `OffIsGone` | | The only definition of a server, another panel's or agent's change, or a broken file is replaced. `StoredKept` needs two panels, `ConfigKept` two keys. |
| | `InlineKept` | `mcp/adapters/mod.rs:22`: must not delete | An entry that is an inline table is replaced by an empty one first, and what it held is lost (`:140`). |
| | `SavedIsRead` | | The name of a server is written without the quotes it needs (`mcp/enablement.rs:54`); the file does not parse any more. |
| `AgentLogs_gaps` | `OneSnapshot`, `HalfCharIsDropped`, `BareIsSkipped` | | OpenCode's two statements see two states; a log that ends inside a character is not read at all (`agents/claude/disk.rs:271`); an event without payload ends the parse of a Codex log (`agents/codex/disk.rs:151`). |
| | `KeptIsCurrent`, `ShortTurnsEnd`, `CancelledTurnsEnd`, `HiddenPromptRuns`, `PhaseOfThisTurn`, `TailIsRead` | | What `ReportsAreTrue` excepts (`agents/parse_cache.rs:121` for the first). |
| `Panels_gaps` | `LaunchedDraftGone` | `bar/overlay/skills/input.rs:13` warns of this race | The launch respawns its own pane before it clears the draft. |
| | `TwoPanes`, `ClickNotLost`, `CloseStays`, `DeadPanelReopens`, `UpRepairsBoth`, `UpShowsWorkspace` | | Two repairs split the window twice; a stale flag swallows a click; `up` looks at pane 0 only. |

They bound what the runs may claim:

* `NoZombieRow` holds while no two refreshes overlap, and for the sessions that are
  `Removed`: a close leaves a way back open to a session that has another row or
  window, that was made again before the close had forgotten it, whose marker is an
  old one that a refresh is about to drop, or that was not the one that the daemon's
  row named because `sessionsd.json` was stale.
* `VanishedAreGone` fails with a single refresh as well, when a close forgets the row of
  an index that a new window has taken.
* `LiveComeBack` holds without new sessions, closes, slow refreshes and deaths of the
  daemon: each of them makes `down` or a refresh save a list that is out of date.

* `CompletionSurvivesPolls` and `SpinnerStops` are about polls and lost hooks: a hook of
  an earlier turn is not excluded (`LateHookHarmless`).
* `RowsNeverRegress` is about one incarnation of the daemon (`ReconnectingOnlyWhileDown`).
* `EventuallySaved` of StateFile is about failed writes and changes outside a flush
  (`CleanIsSaved`).
* `PoolMatchesManifest` excuses windows whose claim failed, was too early or was hit by a
  stray command (`FailedClaimRestorable`, `NothingHidden`, `NoStrays`); it does not say
  that a spare is claimed once (`OneClaimPerSpare`).
* `SlotFiredOnce` excuses a fire whose bookkeeping was cut off or taken back (`torn`;
  `FiredOnce`), `EventuallyFires` a slot that passed while a launch was on its way to be
  recorded, `VerdictForCause` a failed list of windows, and `RunsEnd` runs out of sight.
* `SyncAsShown` is about syncs that nobody disturbs (`ConfigKept`), `ReportsAreTrue` about
  answers that were not read or kept while the log grew (`KeptIsCurrent`, `OneSnapshot`)
  and logs that can be read.
* `UpLeavesUi` excepts a window whose panes were both dead when `up` began
  (`UpRepairsBoth`), and `PanelAsAsked` a window that is not at rest. That a tmux call
  takes too long is not modelled.

## 7. Plan

Done: sections 2 to 5. Next:

1. Locks and names of the start of a daemon (two daemons at once), and the manifest's
   shared temporary file, with StateFile's file system.

## 8. Not modelled, and why

* Titles and names made from process trees (`pty/`, `daemon/state/titles.rs`): string
  processing. A title in TurnState is confident or weak, which is all that the
  completion rules ask of it.
* The tmux adapter beyond the calls that SessionLifecycle, WarmPool and Panels make:
  key and mouse bindings, widths, colours, parsing of tmux's output.
* Agents' launch commands, hook payloads, models, usage; OpenCode's database beyond the
  rows a poll reads.
* The sidebar beyond its list, notes, panel flags and intake of events: the contents of
  other overlays (new session, automations, settings), rename, scrolling, animation,
  painting. They are forms of one process, whose effects on sessions are commands of
  SessionLifecycle, AutomationRuns and Panels.
* The file and the migrations of the workspace catalogue; the gateway's HTTP calls and
  setup; skills.
* The arithmetic of schedules (RRULE, jitter, time zones): a counter of slots in
  AutomationRuns. The text that classifies a run's outcome.
* CLI reports, doctor, upgrade, hook installation, telemetry, metrics, OS utilities:
  sequential, best effort, and no session state depends on them.
* A second daemon that starts at the same time.
