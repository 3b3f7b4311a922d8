----------------------------- MODULE TurnTracking -----------------------------
(***************************************************************************)
(* One agent pane and the daemon's row for it (daemon/state/mod.rs).  The  *)
(* agent's hooks reach the daemon as separate processes, in any order;     *)
(* each is applied under the write lock and does its file work after the   *)
(* lock is gone.  Polls copy the row, read the pane file, the agent's log  *)
(* and the manifest without a lock, and put their result in only if the    *)
(* row is still the one they copied.  The user looks at the window, or     *)
(* acknowledges the completion, at any time.                               *)
(*                                                                         *)
(* The clock is the agent's: turn n starts at 2n and ends at 2n + 1.       *)
(***************************************************************************)
EXTENDS TurnState, FiniteSets

CONSTANTS
    Pollers,    \* poll_loop and the Refresh commands
    ToolEvents, \* hooks an agent may send once in each turn
    Managed,    \* the pane was launched by sessions-cli: it has a manifest entry
    MaxTurn     \* bound: turns of the agent

ASSUME TurnTrackingAssumption ==
    /\ MaxTurn \in Nat \ {0}
    /\ Managed \in BOOLEAN
    /\ ToolEvents \subseteq {"pre_tool", "approval_required", "post_tool", "tool_fail"}

Hook   == [event : HookEvent, turn : 1..MaxTurn]
\* A pane file never says Done: a completion is the row's.
PaneState == AgentState \ {"Done"}

Effect == [hook : Hook, pane : PaneState, stamp : Nat, step : {"pane", "enqueue"}]

VARIABLES
    turn,       \* turns the agent has begun
    phase,      \* what the agent is doing
    log,        \* the agent's own log
    sent,       \* tool hooks sent in this turn
    hooks,      \* hooks on their way to the daemon
    effects,    \* handled hooks whose file work is still to be done
    row,        \* StateInner.sessions[id]
    paneFile,   \* pane-{id}.state
    queued,     \* messaged_at waiting in the manifest queue (0: none)
    manifestAt, \* messaged_at of the manifest entry (0: there is none)
    window,     \* the window is the active one in tmux
    focus,      \* a Focus command between focus_exec and commit_focus_state
    polls       \* the polls in progress

agent   == <<turn, phase, log, sent>>
files   == <<queued, manifestAt>>
user    == <<window, focus>>
vars    == <<agent, hooks, effects, row, paneFile, files, user, polls>>

NewRow == [state |-> "Idle", thread |-> Weak, completed |-> None,
           completedAt |-> 0, messagedAt |-> 1, active |-> FALSE]

NoPoll == [pc |-> "idle", prev |-> NewRow, touched |-> FALSE, pane |-> "Idle",
           active |-> FALSE, fresh |-> NewRow]

Now == IF phase = "idle" THEN 2 * turn + 1 ELSE 2 * turn

Init ==
    /\ turn = 0
    /\ phase = "idle"
    /\ log = [started |-> 0, completed |-> 0, phase |-> "Working"]
    /\ sent = {}
    /\ hooks = {}
    /\ effects = {}
    /\ row = NewRow
    /\ paneFile = "Idle"
    /\ queued = 0
    /\ manifestAt = IF Managed THEN 1 ELSE 0
    /\ window = FALSE
    /\ focus = "none"
    /\ polls = [p \in Pollers |-> NoPoll]

-----------------------------------------------------------------------------
(* The agent and the network (external)                                      *)

Send(event, n) == hooks' = hooks \cup {[event |-> event, turn |-> n]}

\* The user submits a prompt: the hook fires before the agent writes its log.
AgentStarts ==
    /\ phase = "idle"
    /\ turn < MaxTurn
    /\ turn' = turn + 1
    /\ phase' = "submitted"
    /\ sent' = {}
    /\ Send("prompt", turn + 1)
    /\ UNCHANGED <<log, effects, row, paneFile, files, user, polls>>

AgentLogsStart ==
    /\ phase = "submitted"
    /\ phase' = "running"
    /\ log' = [log EXCEPT !.started = Now]
    /\ UNCHANGED <<turn, sent, hooks, effects, row, paneFile, files, user, polls>>

AgentUsesTool(event) ==
    /\ phase = "running"
    /\ event \in ToolEvents \ sent
    /\ sent' = sent \cup {event}
    /\ Send(event, turn)
    /\ UNCHANGED <<turn, phase, log, effects, row, paneFile, files, user, polls>>

AgentEnds ==
    /\ phase = "running"
    /\ phase' = "idle"
    /\ log' = [log EXCEPT !.completed = 2 * turn + 1]
    /\ Send("turn_complete", turn)
    /\ UNCHANGED <<turn, sent, effects, row, paneFile, files, user, polls>>

\* A hook that never arrives.
HookLost(h) ==
    /\ h \in hooks
    /\ hooks' = hooks \ {h}
    /\ UNCHANGED <<agent, effects, row, paneFile, files, user, polls>>

-----------------------------------------------------------------------------
(* handle_notify                                                             *)

\* The thread a prompt gives the row: a confident title or no change.
Retitled(event) ==
    IF event = "prompt" THEN {[row EXCEPT !.thread = t] : t \in Title \cup {row.thread}}
                        ELSE {row}

\* The work left for after the lock: the pane file, and for a prompt in a
\* managed pane the patch with the row's messaged_at.
EffectOf(h, after) ==
    [hook |-> h, pane |-> PaneStateAfter(h.event), step |-> "pane",
     stamp |-> IF Managed /\ h.event = "prompt" THEN after.messagedAt ELSE 0]

\* The hook under the write lock.  A poll that copied the row before will not
\* find it unchanged: every applied hook moves a timestamp.
HookHandled(h) ==
    /\ h \in hooks
    /\ hooks' = hooks \ {h}
    /\ IF HookApplies(row, h.event)
       THEN \E before \in Retitled(h.event) :
               LET after == ApplyThreadHook(before, h.event, Now) IN
               /\ row' = after
               /\ effects' = effects \cup {EffectOf(h, after)}
               /\ polls' = [p \in Pollers |-> [polls[p] EXCEPT !.touched = polls[p].pc # "idle"]]
       ELSE UNCHANGED <<effects, row, polls>>
    /\ UNCHANGED <<agent, paneFile, files, user>>

\* apply_notify_side_effects.
EffectPane(e) ==
    /\ e \in effects
    /\ e.step = "pane"
    /\ paneFile' = e.pane
    /\ effects' = (effects \ {e}) \cup (IF e.stamp # 0 THEN {[e EXCEPT !.step = "enqueue"]} ELSE {})
    /\ UNCHANGED <<agent, hooks, row, files, user, polls>>

\* manifest_sync().enqueue.
EffectEnqueue(e) ==
    /\ e \in effects
    /\ e.step = "enqueue"
    /\ queued' = e.stamp
    /\ effects' = effects \ {e}
    /\ UNCHANGED <<agent, hooks, row, paneFile, manifestAt, user, polls>>

\* The queue is flushed to the manifest (module ManifestSync).
ManifestFlush ==
    /\ queued # 0
    /\ manifestAt' = queued
    /\ queued' = 0
    /\ UNCHANGED <<agent, hooks, effects, row, paneFile, user, polls>>

-----------------------------------------------------------------------------
(* The user                                                                  *)

\* Switching windows in tmux, without the daemon.
UserSelects(b) ==
    /\ window # b
    /\ window' = b
    /\ UNCHANGED <<agent, hooks, effects, row, paneFile, files, focus, polls>>

\* A Focus command on this window or on another one: first tmux,
FocusExec(b) ==
    /\ focus = "none"
    /\ window' = b
    /\ focus' = IF b THEN "this" ELSE "other"
    /\ UNCHANGED <<agent, hooks, effects, row, paneFile, files, polls>>

\* then the rows and, for a completion that is seen now, the pane file.
CommitFocusState ==
    /\ focus # "none"
    /\ row' = LET r == [row EXCEPT !.active = (focus = "this")] IN
              IF focus = "this" THEN AcknowledgeIfDone(r) ELSE r
    /\ paneFile' = IF focus = "this" /\ ThreadIsComplete(row) THEN "Idle" ELSE paneFile
    /\ focus' = "none"
    /\ UNCHANGED <<agent, hooks, effects, files, window, polls>>

AcknowledgeCompletion ==
    /\ ThreadIsComplete(row)
    /\ row' = AcknowledgeIfDone(row)
    /\ paneFile' = "Idle"
    /\ UNCHANGED <<agent, hooks, effects, files, user, polls>>

-----------------------------------------------------------------------------
(* refresh_from_tmux                                                         *)

PollSnapshot(p) ==
    /\ polls[p].pc = "idle"
    /\ polls' = [polls EXCEPT ![p] = [NoPoll EXCEPT !.pc = "tmux", !.prev = row]]
    /\ UNCHANGED <<agent, hooks, effects, row, paneFile, files, user>>

PollTmux(p) ==
    /\ polls[p].pc = "tmux"
    /\ polls' = [polls EXCEPT ![p].pc = "compute", ![p].pane = paneFile, ![p].active = window]
    /\ UNCHANGED <<agent, hooks, effects, row, paneFile, files, user>>

\* The row compute_refresh makes, before it looks at the focus.
Refreshed(q, title) ==
    ApplyRefreshMessagedAt(
        MergeRefresh(q.prev, PolledRow(q.pane, title, q.active, Now), log), manifestAt)

PollCompute(p) ==
    /\ polls[p].pc = "compute"
    /\ \E title \in Thread :
          LET q      == polls[p]
              merged == Refreshed(q, title)
              fresh  == AcknowledgeOnFocus(q.prev, merged)
          IN  /\ polls' = [polls EXCEPT ![p] = [NoPoll EXCEPT !.pc = "apply", !.prev = q.prev,
                                             !.touched = q.touched, !.fresh = fresh]]
              /\ paneFile' = IF \/ ThreadIsComplete(merged) /\ ~ThreadIsComplete(q.prev)
                                \/ fresh # merged
                             THEN "Idle" ELSE paneFile
    /\ UNCHANGED <<agent, hooks, effects, row, files, user>>

\* Mutant: the result goes in whatever happened meanwhile.
PollApplyBlind(p) ==
    /\ polls[p].pc = "apply"
    /\ row' = polls[p].fresh
    /\ polls' = [polls EXCEPT ![p] = NoPoll]
    /\ UNCHANGED <<agent, hooks, effects, paneFile, files, user>>

\* The result goes in under the write lock if the row is still the one the
\* poll copied.
PollApply(p) ==
    /\ polls[p].pc = "apply"
    /\ row' = IF row = polls[p].prev /\ ~polls[p].touched THEN polls[p].fresh ELSE row
    /\ polls' = [polls EXCEPT ![p] = NoPoll]
    /\ UNCHANGED <<agent, hooks, effects, paneFile, files, user>>

PollStep(p) == PollSnapshot(p) \/ PollTmux(p) \/ PollCompute(p) \/ PollApply(p)

-----------------------------------------------------------------------------

AgentStep == AgentStarts \/ AgentLogsStart \/ AgentEnds \/ \E e \in ToolEvents : AgentUsesTool(e)

HookStep == \E h \in hooks : HookHandled(h) \/ HookLost(h)

EffectStep == \E e \in effects : EffectPane(e) \/ EffectEnqueue(e)

UserStep ==
    \/ \E b \in BOOLEAN : UserSelects(b) \/ FocusExec(b)
    \/ CommitFocusState
    \/ AcknowledgeCompletion

Next ==
    \/ AgentStep
    \/ HookStep
    \/ EffectStep
    \/ ManifestFlush
    \/ UserStep
    \/ \E p \in Pollers : PollStep(p)

\* Hooks arrive or are lost, the daemon's tasks run; agent and user are free.
Fairness ==
    /\ WF_vars(HookStep)
    /\ WF_vars(EffectStep)
    /\ WF_vars(ManifestFlush)
    /\ \A p \in Pollers : WF_vars(PollStep(p))

Spec == Init /\ [][Next]_vars
FairSpec == Spec /\ Fairness

-----------------------------------------------------------------------------
(* Properties                                                                *)

PollType == [pc : {"idle", "tmux", "compute", "apply"}, prev : RowType,
             touched : BOOLEAN, pane : PaneState, active : BOOLEAN, fresh : RowType]

\* Every variable keeps its type.
TypeOK ==
    /\ turn \in 0..MaxTurn
    /\ phase \in {"idle", "submitted", "running"}
    /\ log \in LogType
    /\ sent \subseteq ToolEvents
    /\ hooks \subseteq Hook
    /\ effects \subseteq Effect
    /\ row \in RowType
    /\ paneFile \in PaneState
    /\ queued \in Nat
    /\ manifestAt \in Nat
    /\ window \in BOOLEAN
    /\ focus \in {"none", "this", "other"}
    /\ polls \in [Pollers -> PollType]

\* A completion with a confirmed title that the user has not seen is not taken
\* away by a poll, whenever the poll copied the row, unless the poll is the
\* one that sees the user come to the window.
CompletionSurvivesPolls ==
    [][\A p \in Pollers :
          PollApply(p) /\ ThreadIsComplete(row) /\ Confident(row) =>
             ThreadIsComplete(row') \/ (row'.active /\ ~row.active)]_vars

\* Once the agent has stopped for good and no Focus command follows, the row
\* stops saying that the agent runs, even if hooks were lost or came late, and
\* although a stale pane file may start it again for a while.  (Focus commands
\* without end could change the row under every poll.)
SpinnerStops ==
    <>[](phase = "idle" /\ focus = "none") => <>[](~IsInProgress(row))

\* What handle_notify's comment says of a completion: "pane files must not
\* retain `working`/`approval` or stale `done` across polls".
CompletedPaneFileIdle ==
    ThreadIsComplete(row) /\ effects = {} => paneFile = "Idle"

\* What universal-pty-naming.md says: "Hooks win for [...] per-turn boundaries".
\* After the hook of a prompt a row is not complete with an older turn's end.
CompletionNotOlderThanPrompt ==
    ThreadIsComplete(row) => row.completedAt >= row.messagedAt

\* A hook of an earlier turn changes nothing once the prompt of this turn has
\* been handled: not a stop hook, which completes the turn that runs.
LateHookHarmless ==
    [][\A h \in hooks :
          HookHandled(h) /\ h.turn < turn /\ row.messagedAt = 2 * turn => row' = row]_vars

\* What disk_sync.rs says of messaged_at: sidebar order is hook-owned after the
\* first prompt, so a poll does not move it back.
MessagedAtNeverRegresses == [][row'.messagedAt >= row.messagedAt]_vars

\* What the README's table says of done, "green highlight, bell", and the
\* comment of thread_is_complete: "green highlight and bell both use this".  A
\* completion hook that leaves the row highlighted has rung the bell.
BellForCompletion ==
    [][\A h \in hooks :
          HookHandled(h) /\ MarksThreadComplete(h.event) /\ ThreadIsComplete(row') =>
             Rings(row, row', h.event)]_vars
===============================================================================
