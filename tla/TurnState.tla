------------------------------ MODULE TurnState ------------------------------
(***************************************************************************)
(* How one sidebar row follows the turn its agent is in: the predicates of *)
(* model.rs, the hook transitions of daemon/state/notify.rs and the poll   *)
(* merge of daemon/state/merge.rs and disk_sync.rs, as operators.          *)
(*                                                                         *)
(* A row keeps the part of Session those functions read or write for a     *)
(* pane that is bound to an agent session: no console rows, no manual      *)
(* titles, no change of binding.  A thread title is confident (sticky, in  *)
(* Title) or Weak (a placeholder); times are numbers, and 0 is None.       *)
(***************************************************************************)
EXTENDS Naturals

CONSTANTS
    Title,  \* confident thread titles
    Weak,   \* a title that is not confident
    None    \* no completed_thread

ASSUME TitleAssumption == Weak \notin Title /\ None \notin Title \cup {Weak}

Thread     == Title \cup {Weak}
AgentState == {"Idle", "Working", "Approval", "Error", "Done"}
InFlight   == {"Working", "Approval", "Error"}

RowType == [state : AgentState, thread : Thread, completed : Thread \cup {None},
            completedAt : Nat, messagedAt : Nat, active : BOOLEAN]

\* What the agent's own log says: when its last turn started and ended, and
\* what its current phase amounts to.
LogType == [started : Nat, completed : Nat, phase : InFlight]

HookEvent == {"session_start", "prompt", "pre_tool", "approval_required",
              "post_tool", "tool_fail", "turn_complete"}

-----------------------------------------------------------------------------
(* model.rs *)

\* Done and unacknowledged: the green highlight.
ThreadIsComplete(row) == row.state = "Done" /\ row.completed # None

\* Done, and the user has opened it since.
CompletionAcknowledged(row) == row.state = "Idle" /\ row.completed # None

IsInProgress(row) == row.state \in InFlight

AcknowledgeIfDone(row) ==
    IF ThreadIsComplete(row) THEN [row EXCEPT !.state = "Idle"] ELSE row

-----------------------------------------------------------------------------
(* Hooks: notify/events.rs and daemon/state/notify.rs *)

EventToState == [session_start |-> "Idle", prompt |-> "Working", pre_tool |-> "Approval",
                 approval_required |-> "Approval", post_tool |-> "Working",
                 tool_fail |-> "Error", turn_complete |-> "Done"]

MarksThreadComplete(event) == event = "turn_complete"

\* Whether apply_thread_hook changes the row.  handle_notify passes it no
\* prompt, so a session_start is always taken for a resume artifact.
HookApplies(row, event) ==
    CASE event = "session_start" ->
            ~ThreadIsComplete(row) /\ ~CompletionAcknowledged(row) /\ row.messagedAt = 0
      [] event = "prompt" -> TRUE
      [] event = "turn_complete" ->
            ~(/\ ThreadIsComplete(row) \/ CompletionAcknowledged(row)
              /\ row.completed = row.thread)
      [] event = "approval_required" -> TRUE
      [] OTHER -> ~ThreadIsComplete(row)

\* The row apply_thread_hook leaves when it applies.
ApplyThreadHook(row, event, now) ==
    CASE event \in {"session_start", "prompt"} ->
            [row EXCEPT !.state = EventToState[event], !.completed = None,
                        !.completedAt = 0, !.messagedAt = now]
      [] event = "turn_complete" ->
            [row EXCEPT !.state = "Done", !.completed = row.thread, !.completedAt = now]
      [] OTHER ->
            [row EXCEPT !.state = EventToState[event], !.completed = None, !.completedAt = 0]

\* The alert rings for a request for help and for a completion that becomes
\* visible.
Rings(before, after, event) ==
    \/ event = "approval_required"
    \/ /\ MarksThreadComplete(event)
       /\ ThreadIsComplete(after)
       /\ ~ThreadIsComplete(before)

\* Mutant: the completion is written to the pane's file.
PaneStateDone(event) == EventToState[event]

\* The state kept in the pane's file for the next polls.
PaneStateAfter(event) ==
    IF MarksThreadComplete(event) THEN "Idle" ELSE EventToState[event]

-----------------------------------------------------------------------------
(* Polls: daemon/state/merge.rs *)

AgentStateRank == [Idle |-> 0, Done |-> 1, Working |-> 2, Approval |-> 3, Error |-> 4]

PolledStateForRefresh(polled, polledCompletion) ==
    IF polled = "Done" /\ ~polledCompletion THEN "Idle" ELSE polled

CoalesceAgentState(stored, polled, polledCompletion) ==
    LET seen == PolledStateForRefresh(polled, polledCompletion) IN
    CASE stored = "Done" -> stored
      [] stored # "Done" /\ polledCompletion /\ seen = "Done" -> seen
      [] OTHER -> IF AgentStateRank[seen] > AgentStateRank[stored] THEN seen ELSE stored

\* Mutant: the boundaries compared the wrong way round.
TurnIsCompleteSwapped(log) == log.completed # 0 /\ log.completed < log.started

\* agents/adapter.rs: the last turn in the log has ended.
TurnIsComplete(log) == log.completed # 0 /\ (log.started = 0 \/ log.completed > log.started)

LiveActivity(log) == log.started # 0 /\ ~TurnIsComplete(log)

\* disk_sync.rs: a turn the agent's log shows as running starts the spinner,
\* unless it is the turn whose completion the user has already opened.
SyncLiveActivity(row, log) ==
    IF /\ row.state # "Done"
       /\ LiveActivity(log)
       /\ ~(CompletionAcknowledged(row) /\ row.completedAt # 0
                /\ log.started <= row.completedAt)
       /\ \/ row.state = "Idle"
          \/ AgentStateRank[log.phase] > AgentStateRank[row.state]
    THEN [row EXCEPT !.state = log.phase, !.completed = None, !.completedAt = 0]
    ELSE row

\* disk_sync.rs: a row in progress whose log shows an ended turn completes.
SyncTurnCompletion(row, log) ==
    IF IsInProgress(row) /\ TurnIsComplete(log)
    THEN [row EXCEPT !.state = "Done", !.completed = row.thread,
                     !.completedAt = log.completed]
    ELSE row

\* poll.rs: the row a poll makes of the pane, before it is merged.  The title
\* is the one the naming code settles on.
PolledRow(paneState, title, active, now) ==
    [state |-> paneState, thread |-> title,
     completed |-> IF paneState = "Done" THEN title ELSE None,
     completedAt |-> IF paneState = "Done" THEN now ELSE 0,
     messagedAt |-> 0, active |-> active]

Confident(row) == row.thread \in Title /\ row.completed \in Title

\* The completion of a prior row is kept; one whose title was never confirmed
\* is renamed, or dropped when there is still no confident title.
KeepCompletion(prior, fresh) ==
    IF Confident(prior)
    THEN [fresh EXCEPT !.state = prior.state, !.completed = prior.completed,
                       !.completedAt = prior.completedAt, !.thread = prior.thread]
    ELSE LET title == IF fresh.thread \in Title THEN fresh.thread ELSE prior.thread IN
         IF title \in Title
         THEN [fresh EXCEPT !.state = prior.state, !.completed = title,
                            !.completedAt = prior.completedAt, !.thread = title]
         ELSE [fresh EXCEPT !.state = "Idle", !.completed = None,
                            !.completedAt = 0, !.thread = Weak]

\* A row the user has opened since stays idle until something newer runs.
MergeAcknowledged(fresh, log) ==
    LET live == IF IsInProgress(fresh) THEN fresh ELSE SyncLiveActivity(fresh, log) IN
    IF IsInProgress(live)
    THEN [live EXCEPT !.completed = None]
    ELSE [live EXCEPT !.state = "Idle"]

MergeUnfinished(prior, fresh, log) ==
    LET completion == fresh.completed # None /\ fresh.state = "Done"
        merged == [fresh EXCEPT !.state = CoalesceAgentState(prior.state, fresh.state, completion)]
    IN  SyncTurnCompletion(SyncLiveActivity(merged, log), log)

\* merge_session_refresh_state, for a row whose binding stays.
MergeRefresh(prior, polled, log) ==
    LET fresh == [polled EXCEPT
                    !.completedAt = IF @ = 0 THEN prior.completedAt ELSE @,
                    !.messagedAt  = prior.messagedAt]
        carried == [fresh EXCEPT
                    !.completed = IF @ = None /\ ~IsInProgress(prior) THEN prior.completed
                                                                     ELSE @]
    IN  CASE ThreadIsComplete(prior) -> KeepCompletion(prior, fresh)
          [] CompletionAcknowledged(prior) -> MergeAcknowledged(carried, log)
          [] OTHER -> MergeUnfinished(prior, carried, log)

\* apply_refresh_messaged_at, for a row the manifest has an entry for.
ApplyRefreshMessagedAt(row, manifestAt) ==
    IF manifestAt # 0 THEN [row EXCEPT !.messagedAt = manifestAt] ELSE row

\* acknowledge_completion_on_focus: the poll sees the window become active.
AcknowledgeOnFocus(prior, fresh) ==
    IF fresh.active /\ ~prior.active THEN AcknowledgeIfDone(fresh) ELSE fresh
===============================================================================
