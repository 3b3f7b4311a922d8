--------------------------- MODULE SessionLifecycle ----------------------------
(***************************************************************************)
(* Which sessions there are, and which come back.                          *)
(*                                                                         *)
(* A session is a tmux window that carries the session's id.  Five places  *)
(* remember it: the daemon's rows, the close markers beside them, the copy *)
(* of the rows in sessionsd.json, the session's entry in the manifest and  *)
(* the allowlist of the sessions that were live at the last healthy poll.  *)
(* `sessions up` restores the entries that are open, allowed and not live. *)
(* They are changed by the daemon's refreshes, by CloseSession, by hooks,  *)
(* and by CLI processes that create, close, restore and shut down.         *)
(*                                                                         *)
(* One load-change-save of the manifest or of the allowlist is one step:   *)
(* ManifestSync is about what happens when it is not.  workspaces.toml has *)
(* one slot.  Rows are windows' indices with the id of a session.          *)
(***************************************************************************)
EXTENDS Naturals, FiniteSets

CONSTANTS
    Ssn,         \* sessions
    Slot,        \* the one workspaces.toml names
    New,         \* the sessions that do not exist at first
    Index,       \* tmux window indices, 1..n
    None,        \* no session
    NoId,        \* a row that has no session id
    Refresher,   \* refreshes that can overlap
    SlowPoll,    \* whether time passes between the copy of the rows and the
                 \* look at tmux of a refresh
    Commands,    \* what users and agents do
    MaxCommands, \* bound: how often
    Faults,      \* what goes wrong
    MaxFaults    \* bound: how often

ASSUME LifecycleAssumption ==
    /\ Slot \in Ssn
    /\ New \subseteq Ssn
    /\ IsFiniteSet(Index) /\ Index = 1..Cardinality(Index)
    /\ None \notin Ssn /\ NoId \notin Ssn /\ None # NoId
    /\ SlowPoll \in BOOLEAN
    /\ Commands \subseteq {"new", "close", "cli_close", "up", "down", "hook", "bare_hook"}
    /\ Faults \subseteq {"exit", "server", "daemon"}
    /\ MaxCommands \in Nat /\ MaxFaults \in Nat

VARIABLES
    win,      \* tmux: the session in each window
    daemon,   \* sessionsd runs
    rows,     \* StateInner.sessions
    markers,  \* StateInner.closed_sessions
    booting,  \* StateInner.booting
    auto,     \* try_auto_reconcile has not run yet
    file,     \* sessionsd.json
    entry,    \* session-manifest.json
    allow,    \* the live snapshot
    record,   \* managed/*.json: the window a session was created in, 0: none
    rf,       \* refreshes under way
    making,   \* create_unified under way
    restore,  \* `sessions up` under way
    closing,  \* a close under way
    downing,  \* `sessions down` under way
    commands, faults,
    promised, \* history: sessions that were live when the tmux server died, not
              \* under `sessions up`, or was killed
    gone      \* history: sessions this daemon has closed, see Removed, and that
              \* have not been made again

tmux    == <<win>>
state   == <<daemon, rows, markers, booting, auto>>
disk    == <<entry, allow, record>>
work    == <<rf, making, restore, closing, downing>>
bounds  == <<commands, faults>>
history == <<promised, gone>>
vars    == <<tmux, state, file, disk, work, bounds, history>>

Place == [Index -> Ssn \cup {None, NoId}]
Empty == [i \in Index |-> None]

\* Mutant: rows without an id are not filtered out.
SsnsOfAllRows(place) == {place[i] : i \in Index} \ {None}

\* The session ids of the rows that have one.
SsnsOf(place) == {place[i] : i \in Index} \ {None, NoId}
Live   == SsnsOf(win)
Server == \E i \in Index : win[i] # None

IdleRefresh == [pc |-> "idle", prev |-> Empty, closed |-> {}, boot |-> FALSE,
                polled |-> Empty, healed |-> {}, vanished |-> {}, live |-> {}]
IdleMaking  == [pc |-> "idle", s |-> None, bootstrap |-> FALSE]
IdleRestore == [pc |-> "idle", manifest |-> {}, cold |-> FALSE, missing |-> FALSE,
                todo |-> {}, bootstrap |-> FALSE, by |-> None]
IdleClose   == [pc |-> "idle", i |-> 0, s |-> None, at |-> 0, ssn |-> None, cli |-> FALSE]
IdleDown    == [pc |-> "idle", live |-> {}]

\* At first the sessions that exist are live, in some order of the windows,
\* and everybody knows.
Init ==
    /\ win \in {w \in [Index -> Ssn \cup {None}] :
                   /\ SsnsOf(w) = Ssn \ New
                   /\ \A i \in Index, j \in Index : i < j /\ w[j] # None => w[i] # None /\ w[i] # w[j]}
    /\ daemon = TRUE
    /\ rows = win
    /\ markers = {}
    /\ booting = FALSE
    /\ auto = FALSE
    /\ file = win
    /\ entry = [s \in Ssn |-> IF s \in New THEN "absent" ELSE "open"]
    /\ allow = Ssn \ New
    /\ record = [s \in Ssn |-> IF s \in New THEN 0 ELSE CHOOSE i \in Index : win[i] = s]
    /\ rf = [r \in Refresher |-> IdleRefresh]
    /\ making = [c \in {"new", "up"} |-> IdleMaking]
    /\ restore = IdleRestore
    /\ closing = IdleClose
    /\ downing = IdleDown
    /\ commands = 0 /\ faults = 0
    /\ promised = {} /\ gone = {}

Command(c) == c \in Commands /\ commands < MaxCommands /\ commands' = commands + 1
Fault(f)   == f \in Faults /\ faults < MaxFaults /\ faults' = faults + 1

-----------------------------------------------------------------------------
(* The manifest, the allowlist and the windows                               *)

\* append_entry leaves an entry that exists alone, a closed one too.
Appended(s) == [entry EXCEPT ![s] = IF @ = "absent" THEN "open" ELSE @]

\* mark_entries_closed, reopen_manifest_entry
Closed(S)   == [s \in Ssn |-> IF s \in S /\ entry[s] = "open" THEN "closed" ELSE entry[s]]
Reopened(S) == [s \in Ssn |-> IF s \in S /\ entry[s] = "closed" THEN "open" ELSE entry[s]]
OpenEntries == {s \in Ssn : entry[s] = "open"}

\* live_snapshot::remember; there is an allowlist since the first session.
Remembered(s) == allow \cup {s}

\* Mutant: sessions that are live are restored as well.
NeedRestoreLiveToo(open) == open \cap allow

\* entries_needing_restore_with_allowlist
NeedRestore(open) == (open \ Live) \cap allow

-----------------------------------------------------------------------------
(* A refresh                                                                 *)

Refresh(r, rec) == rf' = [rf EXCEPT ![r] = rec]

\* What a refresh does next, after its step "pc".
After(rec, pc) ==
    LET todo == (IF pc = "apply" /\ rec.healed # {} THEN {"reopen"} ELSE {})
                \cup (IF pc \in {"apply", "reopen"} /\ rec.vanished # {} THEN {"mark"} ELSE {})
                \cup (IF ~rec.boot THEN {"save"} ELSE {})
    IN  CASE "reopen" \in todo -> [rec EXCEPT !.pc = "reopen"]
          [] "reopen" \notin todo /\ "mark" \in todo -> [rec EXCEPT !.pc = "mark", !.healed = {}]
          [] todo = {"save"} -> [IdleRefresh EXCEPT !.pc = "save", !.live = rec.live]
          [] OTHER -> IdleRefresh

\* The agents session is missed: the daemon is booting again.
RefreshLook(r) ==
    /\ daemon
    /\ rf[r].pc = "idle"
    /\ booting' = (booting \/ ~Server)
    /\ Refresh(r, [rf[r] EXCEPT !.pc = "copy"])
    /\ UNCHANGED <<tmux, daemon, rows, markers, auto, file, disk, making, restore, closing, downing,
                   bounds, history>>

\* Mutant: the refresh does not care whether the daemon is booting.
CopiedNeverBooting(r) == [rf[r] EXCEPT !.prev = rows, !.closed = markers]

Copied(r) == [rf[r] EXCEPT !.prev = rows, !.closed = markers, !.boot = booting]

\* The copy under the read lock; list-windows, which fails without a session,
\* and then the refresh ends.
Polled(rec) ==
    IF Server THEN [rec EXCEPT !.pc = "apply", !.polled = win] ELSE IdleRefresh

RefreshCopy(r) ==
    /\ rf[r].pc = "copy"
    /\ Refresh(r, IF SlowPoll THEN [Copied(r) EXCEPT !.pc = "poll"] ELSE Polled(Copied(r)))
    /\ UNCHANGED <<tmux, state, file, disk, making, restore, closing, downing, bounds, history>>

RefreshPoll(r) ==
    /\ rf[r].pc = "poll"
    /\ Refresh(r, Polled(rf[r]))
    /\ UNCHANGED <<tmux, state, file, disk, making, restore, closing, downing, bounds, history>>

\* Mutant: the markers of the copy stay, not those of now.
KeptOfCopy(rec) == rec.closed \cap SsnsOf(rec.polled)

\* The markers that stay: not healed, and the session was still polled.
KeptMarkers(rec) == (markers \cap SsnsOf(rec.polled)) \ rec.closed

\* Mutant: nothing is pruned.
MergedUnpruned(rec, touched) ==
    [i \in Index |->
       IF rec.polled[i] \notin KeptMarkers(rec) \cup {None} /\ rows[i] = rec.prev[i] /\ i \notin touched
       THEN rec.polled[i] ELSE rows[i]]

\* The rows after the merge.  A polled row replaces one that is what it was
\* when it was copied; "touched" are the rows a hook (one of the commands) has
\* changed since in ways that are not modelled.  Without booting the rows that were copied and not
\* polled go.
Merged(rec, touched) ==
    [i \in Index |->
       IF rec.polled[i] # None
       THEN IF rec.polled[i] \notin KeptMarkers(rec) /\ rows[i] = rec.prev[i] /\ i \notin touched
            THEN rec.polled[i] ELSE rows[i]
       ELSE IF ~rec.boot /\ rec.prev[i] # None THEN None ELSE rows[i]]

\* A hook with a session id leaves only the row of that session what it was.
Touchable(rec) ==
    {i \in Index : /\ rec.prev[i] # None
                   /\ \/ "bare_hook" \in Commands
                      \/ "hook" \in Commands /\ \E s \in Ssn : rec.prev[i] = s /\ record[s] = i}

\* Mutant: the rows of now are compared with the poll of before.
VanishedSincePoll(rec, next) == SsnsOf(rows) \ SsnsOf(rec.polled)

\* sessions_session_ids_to_tombstone: a session that has another row did not go.
Vanished(rec, next) == SsnsOf(rec.prev) \ SsnsOf(next)

\* The write lock: markers are dropped, rows merged and pruned; the sessions
\* that have no row any more are to be closed and the others to be allowed.
RefreshApply(r) ==
    /\ rf[r].pc = "apply"
    /\ \E touched \in SUBSET Touchable(rf[r]) :
          LET rec  == rf[r]
              next == Merged(rec, touched)
          IN  /\ commands' = commands + Cardinality(touched)
              /\ commands' <= MaxCommands
              /\ rows' = next
              /\ markers' = KeptMarkers(rec)
              /\ Refresh(r, After([rec EXCEPT
                     !.healed   = rec.closed \cap SsnsOf(rec.polled),
                     !.vanished = IF rec.boot THEN {} ELSE Vanished(rec, next),
                     !.live     = IF rec.boot THEN {} ELSE SsnsOf(next),
                     !.prev = Empty, !.polled = Empty, !.closed = {}], "apply"))
    /\ UNCHANGED <<tmux, daemon, booting, auto, file, disk, making, restore, closing, downing,
                   faults, history>>

\* After the lock: closed entries whose window was seen are opened ...
RefreshReopen(r) ==
    /\ rf[r].pc = "reopen"
    /\ entry' = Reopened(rf[r].healed)
    /\ Refresh(r, After(rf[r], "reopen"))
    /\ UNCHANGED <<tmux, state, file, allow, record, making, restore, closing, downing, bounds,
                   history>>

\* ... the entries of the sessions that vanished are closed ...
RefreshMark(r) ==
    /\ rf[r].pc = "mark"
    /\ entry' = Closed(rf[r].vanished)
    /\ Refresh(r, After(rf[r], "mark"))
    /\ UNCHANGED <<tmux, state, file, allow, record, making, restore, closing, downing, bounds,
                   history>>

\* ... and the sessions of the rows are the ones to restore from now on.
RefreshSave(r) ==
    /\ rf[r].pc = "save"
    /\ allow' = rf[r].live
    /\ Refresh(r, IdleRefresh)
    /\ UNCHANGED <<tmux, state, file, entry, record, making, restore, closing, downing, bounds,
                   history>>

RefreshStep(r) ==
    \/ RefreshLook(r) \/ RefreshCopy(r) \/ RefreshPoll(r) \/ RefreshApply(r)
    \/ RefreshReopen(r) \/ RefreshMark(r) \/ RefreshSave(r)

-----------------------------------------------------------------------------
(* The daemon                                                                *)

\* persist_loop (StateFile has its steps).
Persist ==
    /\ daemon
    /\ file # rows
    /\ file' = rows
    /\ UNCHANGED <<tmux, state, disk, work, bounds, history>>

\* The row of another session has another pane: a hook leaves it alone.
HookTargets(s) == rows[record[s]] \in {None, NoId, s}

\* A hook of the agent in a session's window.  It finds the row by the
\* window's index in the managed record.
Hook(s) ==
    /\ Command("hook")
    /\ daemon
    /\ record[s] # 0
    /\ s \notin markers
    /\ HookTargets(s)
    /\ rows' = [rows EXCEPT ![record[s]] = s]
    /\ UNCHANGED <<tmux, daemon, markers, booting, auto, file, disk, work, faults, history>>

\* A hook of an agent that was started by hand in a session's shell: it has no
\* session id and finds the row by its pane.
BareHook(i) ==
    /\ Command("bare_hook")
    /\ daemon
    /\ win[i] # None
    /\ win[i] \notin markers
    /\ rows[i] = None
    /\ rows' = [rows EXCEPT ![i] = NoId]
    /\ UNCHANGED <<tmux, daemon, markers, booting, auto, file, disk, work, faults, history>>

\* The daemon dies, with what it was doing.
DaemonDies ==
    /\ Fault("daemon")
    /\ daemon
    /\ daemon' = FALSE
    /\ rows' = Empty /\ markers' = {} /\ booting' = FALSE /\ auto' = FALSE
    /\ rf' = [r \in Refresher |-> IdleRefresh]
    /\ closing' = IF closing.cli THEN closing ELSE IdleClose
    /\ gone' = {}
    /\ UNCHANGED <<tmux, file, disk, making, restore, downing, commands, promised>>

\* DaemonState::new
DaemonStarts ==
    /\ ~daemon
    /\ daemon' = TRUE
    /\ rows' = file
    /\ markers' = {s \in Ssn : entry[s] = "closed"}
    /\ booting' = TRUE
    /\ auto' = TRUE
    /\ UNCHANGED <<tmux, file, disk, work, bounds, history>>

\* try_auto_reconcile, once per daemon: with nothing to restore it is not
\* booting any more.
AutoReconcile ==
    /\ daemon
    /\ auto
    /\ auto' = FALSE
    /\ booting' = (booting /\ (~Server \/ NeedRestore(OpenEntries) # {}))
    /\ UNCHANGED <<tmux, daemon, rows, markers, file, disk, work, bounds, history>>

-----------------------------------------------------------------------------
(* create_unified                                                            *)

Making(c, rec) == making' = [making EXCEPT ![c] = rec]

NewStarts(s) ==
    /\ Command("new")
    /\ Server
    /\ making["new"].pc = "idle"
    /\ entry[s] = "absent"
    /\ Making("new", [pc |-> "append", s |-> s, bootstrap |-> FALSE])
    /\ UNCHANGED <<tmux, state, file, disk, rf, restore, closing, downing, faults, history>>

MakeEntry(c) ==
    /\ making[c].pc = "append"
    /\ entry' = Appended(making[c].s)
    /\ Making(c, [making[c] EXCEPT !.pc = "remember"])
    /\ UNCHANGED <<tmux, state, file, allow, record, rf, restore, closing, downing, bounds, history>>

MakeAllowed(c) ==
    /\ making[c].pc = "remember"
    /\ allow' = Remembered(making[c].s)
    /\ Making(c, [making[c] EXCEPT !.pc = "window"])
    /\ UNCHANGED <<tmux, state, file, entry, record, rf, restore, closing, downing, bounds, history>>

Free(i) == win[i] = None /\ \A j \in Index : j < i => win[j] # None

\* new-window, or new-session for the first one, the window's id and the
\* managed record.  The window gets the first index that is free.
MakeWindow(c) ==
    /\ making[c].pc = "window"
    /\ making[c].bootstrap # Server
    /\ \E i \in Index :
          /\ Free(i)
          /\ win' = [win EXCEPT ![i] = making[c].s]
          /\ record' = [record EXCEPT ![making[c].s] = i]
    /\ Making(c, IdleMaking)
    /\ gone' = gone \ {making[c].s}
    /\ UNCHANGED <<state, file, entry, allow, rf, restore, closing, downing, bounds, promised>>

\* tmux refuses, and `sessions up` gives up.
MakeFails(c) ==
    /\ making[c].pc = "window"
    /\ making[c].bootstrap = Server
    /\ Making(c, IdleMaking)
    /\ restore' = IF c = "up" THEN IdleRestore ELSE restore
    /\ UNCHANGED <<tmux, state, file, disk, rf, closing, downing, bounds, history>>

MakeStep(c) == MakeEntry(c) \/ MakeAllowed(c) \/ MakeWindow(c) \/ MakeFails(c)

-----------------------------------------------------------------------------
(* sessions up                                                               *)

UpLoads ==
    /\ Command("up")
    /\ restore.pc = "idle" /\ downing.pc = "idle"
    /\ restore' = [IdleRestore EXCEPT !.pc = "prepare", !.manifest = OpenEntries,
                                      !.cold = NeedRestore(OpenEntries) # {},
                                      !.missing = ~Server]
    /\ UNCHANGED <<tmux, state, file, disk, rf, making, closing, downing, faults, history>>

\* PrepareRestore, to the daemon that runs by now.
UpPrepares ==
    /\ restore.pc = "prepare"
    /\ daemon
    /\ booting' = TRUE
    /\ restore' = [restore EXCEPT !.pc = "workspace"]
    /\ UNCHANGED <<tmux, daemon, rows, markers, auto, file, disk, rf, making, closing, downing,
                   bounds, history>>

\* bootstrap_workspaces, when there is something to restore or there was no
\* agents session: if there is none now the slot is created, and opened first
\* if it was closed.
UpBootstraps ==
    /\ restore.pc = "workspace"
    /\ restore' = [restore EXCEPT !.pc = "pending"]
    /\ IF Server \/ ~(restore.cold \/ restore.missing) THEN UNCHANGED <<entry, making>>
       ELSE /\ entry' = Reopened({Slot})
            /\ Making("up", [pc |-> "append", s |-> Slot, bootstrap |-> TRUE])
    /\ UNCHANGED <<tmux, state, file, allow, record, rf, closing, downing, bounds, history>>

\* restore_missing_from_manifest: the manifest is the one that was loaded,
\* the windows and the allowlist are looked at again.
UpLists ==
    /\ restore.pc = "pending"
    /\ making["up"].pc = "idle"
    /\ restore' = [restore EXCEPT
                     !.pc = "each", !.manifest = {},
                     !.todo = IF restore.cold THEN NeedRestore(restore.manifest) ELSE {},
                     !.bootstrap = ~Server]
    /\ UNCHANGED <<tmux, state, file, disk, rf, making, closing, downing, bounds, history>>

UpCreates ==
    /\ restore.pc = "each"
    /\ making["up"].pc = "idle"
    /\ \E s \in restore.todo :
          /\ Making("up", [pc |-> "append", s |-> s, bootstrap |-> restore.bootstrap])
          /\ restore' = [restore EXCEPT !.todo = @ \ {s}, !.bootstrap = FALSE]
    /\ UNCHANGED <<tmux, state, file, disk, rf, closing, downing, bounds, history>>

\* gc_stale_managed_after_restore: the records of windows that are another
\* session's.
UpCollects ==
    /\ restore.pc = "each"
    /\ restore.todo = {}
    /\ making["up"].pc = "idle"
    /\ record' = [s \in Ssn |-> IF record[s] # 0 /\ win[record[s]] \notin {None, s}
                                THEN 0 ELSE record[s]]
    /\ restore' = [restore EXCEPT !.pc = "complete"]
    /\ UNCHANGED <<tmux, state, file, entry, allow, rf, making, closing, downing, bounds, history>>

\* RestoreComplete: not booting any more, and a refresh ...
UpCompletes ==
    /\ restore.pc = "complete"
    /\ daemon
    /\ \E r \in Refresher :
          /\ rf[r].pc = "idle"
          /\ Refresh(r, [rf[r] EXCEPT !.pc = "copy"])
          /\ restore' = [restore EXCEPT !.pc = "reconcile", !.by = r]
    /\ booting' = ~Server
    /\ UNCHANGED <<tmux, daemon, rows, markers, auto, file, disk, making, closing, downing, bounds,
                   history>>

UpFails ==
    /\ restore.pc = "complete"
    /\ ~daemon
    /\ restore' = IdleRestore
    /\ UNCHANGED <<tmux, state, file, disk, rf, making, closing, downing, bounds, history>>

\* ... that is over, or the daemon is.
UpEnds ==
    /\ restore.pc = "reconcile"
    /\ rf[restore.by].pc = "idle"
    /\ restore' = IdleRestore
    /\ promised' = IF Server THEN {} ELSE promised
    /\ UNCHANGED <<tmux, state, file, disk, rf, making, closing, downing, bounds, gone>>

UpStep == UpPrepares \/ UpBootstraps \/ UpLists \/ UpCreates \/ UpCollects \/ UpCompletes
          \/ UpFails \/ UpEnds

-----------------------------------------------------------------------------
(* Closing a session                                                         *)

\* CloseSession(tmux:win:i), by the sidebar.
CloseStarts(i) ==
    /\ Command("close")
    /\ daemon
    /\ closing.pc = "idle"
    /\ rows[i] # None
    /\ closing' = [pc |-> "tombstone", i |-> i, s |-> rows[i], at |-> i, ssn |-> None,
                   cli |-> FALSE]
    /\ UNCHANGED <<tmux, state, file, disk, rf, making, restore, downing, faults, history>>

\* sessions close: the window that is active.
CliCloseStarts(i) ==
    /\ Command("cli_close")
    /\ closing.pc = "idle"
    /\ win[i] # None
    /\ closing' = [pc |-> "tombstone", i |-> i, s |-> None, at |-> i, ssn |-> None, cli |-> TRUE]
    /\ UNCHANGED <<tmux, state, file, disk, rf, making, restore, downing, faults, history>>

\* resolve_session_for_close looks in sessionsd.json: for the row of the
\* window, then for one of the session, which says another window.
Resolved ==
    IF file[closing.i] # None THEN {closing.i}
    ELSE {j \in Index : closing.s \in Ssn /\ file[j] = closing.s}

\* The manifest first ...
CloseTombstones ==
    /\ closing.pc = "tombstone"
    /\ \E j \in IF Resolved = {} THEN {closing.i} ELSE Resolved :
          LET s == IF file[j] \in Ssn THEN file[j] ELSE closing.s IN
          /\ entry' = Closed({s})
          /\ closing' = [closing EXCEPT !.pc = "kill", !.at = j, !.ssn = s]
    /\ UNCHANGED <<tmux, state, file, allow, record, rf, making, restore, downing, bounds, history>>

\* ... then the window, whoever it is by now, unless it is the last one ...
CloseKills ==
    /\ closing.pc = "kill"
    /\ Cardinality({i \in Index : win[i] # None}) # 1
    /\ win' = [win EXCEPT ![closing.at] = None]
    /\ record' = [s \in Ssn |-> IF s = closing.ssn THEN 0 ELSE record[s]]
    /\ closing' = IF closing.cli THEN [closing EXCEPT !.pc = "tell"]
                                 ELSE [closing EXCEPT !.pc = "forget"]
    /\ UNCHANGED <<state, file, entry, allow, rf, making, restore, downing, bounds, history>>

CloseRefused ==
    /\ closing.pc = "kill"
    /\ Cardinality({i \in Index : win[i] # None}) = 1
    /\ closing' = IdleClose
    /\ UNCHANGED <<tmux, state, file, disk, rf, making, restore, downing, bounds, history>>

\* For the history: the sessions that the close has removed, with their row.
\* The window was looked for where the row said; the session has not been made
\* again since, has no other row or window, and had no marker, which a refresh
\* under way would take for an old one.
Removed ==
    {s \in Ssn : /\ s = closing.s /\ s = closing.ssn /\ closing.at = closing.i
                 /\ record[s] = 0 /\ s \notin Live /\ s \notin markers
                 /\ \A j \in Index : j # closing.i => rows[j] # s}

\* ... then, in the daemon, the row; a marker keeps it away.
CloseForgets ==
    /\ closing.pc = "forget"
    /\ markers' = markers \cup ({closing.s} \cap Ssn)
    /\ rows' = [rows EXCEPT ![closing.i] = None]
    /\ gone' = gone \cup Removed
    /\ closing' = IdleClose
    /\ UNCHANGED <<tmux, daemon, booting, auto, file, disk, rf, making, restore, downing, bounds,
                   promised>>

\* sync_daemon_after_close: the daemon is told to close the row of the window.
CliCloseTells ==
    /\ closing.pc = "tell"
    /\ closing' = IF daemon /\ rows[closing.at] # None
                  THEN [pc |-> "tombstone", i |-> closing.at, s |-> rows[closing.at],
                        at |-> closing.at, ssn |-> None, cli |-> FALSE]
                  ELSE IdleClose
    /\ UNCHANGED <<tmux, state, file, disk, rf, making, restore, downing, bounds, history>>

CloseStep == CloseTombstones \/ CloseKills \/ CloseRefused \/ CloseForgets \/ CliCloseTells

-----------------------------------------------------------------------------
(* sessions down                                                             *)

\* The daemon's rows, or those in the file, are what is live ...
DownLists ==
    /\ Command("down")
    /\ downing.pc = "idle" /\ restore.pc = "idle"
    /\ downing' = [pc |-> "tombstone",
                   live |-> IF daemon /\ rows # Empty THEN SsnsOf(rows) ELSE SsnsOf(file)]
    /\ UNCHANGED <<tmux, state, file, disk, rf, making, restore, closing, faults, history>>

\* ... all other entries are closed ...
DownTombstones ==
    /\ downing.pc = "tombstone"
    /\ entry' = Closed(Ssn \ downing.live)
    /\ downing' = [downing EXCEPT !.pc = "allow"]
    /\ UNCHANGED <<tmux, state, file, allow, record, rf, making, restore, closing, bounds, history>>

DownAllows ==
    /\ downing.pc = "allow"
    /\ allow' = downing.live
    /\ downing' = [downing EXCEPT !.pc = "prepare"]
    /\ UNCHANGED <<tmux, state, file, entry, record, rf, making, restore, closing, bounds, history>>

DownPrepares ==
    /\ downing.pc = "prepare"
    /\ booting' = (booting \/ daemon)
    /\ downing' = [downing EXCEPT !.pc = "kill"]
    /\ UNCHANGED <<tmux, daemon, rows, markers, auto, file, disk, rf, making, restore, closing,
                   bounds, history>>

\* ... and the agents session is killed.
DownKills ==
    /\ downing.pc = "kill"
    /\ win' = Empty
    /\ downing' = IdleDown
    /\ promised' = Live
    /\ UNCHANGED <<state, file, disk, rf, making, restore, closing, bounds, gone>>

DownStep == DownTombstones \/ DownAllows \/ DownPrepares \/ DownKills

-----------------------------------------------------------------------------
(* What goes wrong                                                           *)

\* The program in a window ends.
WindowExits(i) ==
    /\ Fault("exit")
    /\ win[i] # None
    /\ win' = [win EXCEPT ![i] = None]
    /\ promised' = promised \ {win[i]}
    /\ UNCHANGED <<state, file, disk, work, commands, gone>>

\* The tmux server dies, or the machine is restarted and the daemon with it.
ServerDies ==
    /\ Fault("server")
    /\ Server
    /\ win' = Empty
    /\ promised' = IF restore.pc = "idle" THEN promised \cup Live ELSE promised
    /\ UNCHANGED <<state, file, disk, work, commands, gone>>

-----------------------------------------------------------------------------

Next ==
    \/ \E r \in Refresher : RefreshStep(r)
    \/ Persist
    \/ \E s \in Ssn : Hook(s)
    \/ \E i \in Index : BareHook(i)
    \/ DaemonDies
    \/ DaemonStarts
    \/ AutoReconcile
    \/ \E s \in Ssn : NewStarts(s)
    \/ \E c \in {"new", "up"} : MakeStep(c)
    \/ UpLoads
    \/ UpStep
    \/ \E i \in Index : CloseStarts(i) \/ CliCloseStarts(i)
    \/ CloseStep
    \/ DownLists
    \/ DownStep
    \/ \E i \in Index : WindowExits(i)
    \/ ServerDies

Spec == Init /\ [][Next]_vars

\* The tasks and the processes go on; who starts them is nobody's duty.
FairSpec ==
    /\ Spec
    /\ \A r \in Refresher : WF_vars(RefreshStep(r))
    /\ WF_vars(CloseStep) /\ WF_vars(UpStep) /\ WF_vars(DownStep)
    /\ \A c \in {"new", "up"} : WF_vars(MakeStep(c))

-----------------------------------------------------------------------------
(* Properties                                                                *)

\* Every variable keeps its type.
TypeOK ==
    /\ win \in [Index -> Ssn \cup {None}]
    /\ daemon \in BOOLEAN /\ booting \in BOOLEAN /\ auto \in BOOLEAN
    /\ rows \in Place /\ file \in Place
    /\ markers \subseteq Ssn
    /\ entry \in [Ssn -> {"absent", "open", "closed"}]
    /\ allow \subseteq Ssn
    /\ record \in [Ssn -> Index \cup {0}]
    /\ promised \subseteq Ssn /\ gone \subseteq Ssn

\* No session has two windows: neither a restore (restore_missing_from_manifest)
\* nor a creation (create_unified) asks, when it makes one, whether there is one.
OneWindowEach == \A i, j \in Index : win[i] # None /\ win[i] = win[j] => i = j

\* A refresh closes the entries of sessions whose window is gone, of no others:
\* hooks, other refreshes, closes and new windows at old indices may all come
\* between what it polls and what it closes.
VanishedAreGone == \A r \in Refresher : rf[r].vanished \cap Live = {}

\* "Tombstones block concurrent polls and late hook events from re-adding the
\* row" (close_session): the row of a session that was closed does not come
\* back until the session is made again.
NoZombieRow == gone \cap SsnsOf(rows) = {}

\* While the daemon is booting no row goes because it was not polled ("Blocks
\* poll prune until `sessions up` finishes manifest restore").
NoPruneWhileBooting ==
    [][booting /\ booting' /\ daemon' /\ closing' = closing =>
          \A i \in Index : rows[i] # None => rows'[i] # None]_vars

\* What was live when the tmux server died or `sessions down` killed it is live
\* again when `sessions up` is done.
LiveComeBack ==
    [][restore.pc = "reconcile" /\ restore'.pc = "idle" /\ Server => promised \subseteq Live]_vars

\* "Tombstone the manifest *before* killing the window so a crash / last-window
\* refusal / sessions-up race cannot leave a workspace_bootstrap slot open and
\* have cold-boot restore recreate it" (close_unified).
ClosedSlotNotRestored ==
    [][making["up"].pc = "window" /\ making["up"].s = Slot /\ win' # win => entry[Slot] = "open"]_vars

\* "Kill the tmux window, tombstone the session, and remove it from state"
\* (close_session): the window that CloseSession kills is the session's own.
ClosesItsOwn ==
    [][closing.pc = "kill" /\ ~closing.cli /\ win' # win /\ closing.s \in Ssn =>
          win[closing.at] \in {None, closing.s}]_vars

\* Once nobody gets in the way the sidebar shows the windows there are.
RowsConverge == <>[](daemon /\ ~booting) => <>[](rows = win)

\* "Live windows that were false-closed must re-open so restore/hooks work."
ClosedReopen ==
    \A s \in Ssn : <>[](daemon /\ ~booting /\ s \in Live) => <>[](entry[s] # "closed")
===============================================================================
