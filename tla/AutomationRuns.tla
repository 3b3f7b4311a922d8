---------------------------- MODULE AutomationRuns ----------------------------
(***************************************************************************)
(* One automation: its definition, its runs and its bookkeeping            *)
(* (automation/runner.rs, automation/store.rs, daemon/automation.rs,       *)
(* cli/commands/automation.rs).                                            *)
(*                                                                         *)
(* The daemon ticks: it first reconciles the runs with the windows that    *)
(* are live and with what its state file says of their agents, and then    *)
(* fires the automation when it is due.  `automation run`, in a process of *)
(* its own, fires it as well, and `mark-read` rewrites run files.  Every   *)
(* file is loaded and saved whole, with no lock, and the daemon and the    *)
(* commands may die between any two steps.                                 *)
(*                                                                         *)
(* Time is the number of slots of the schedule that have passed; that a    *)
(* run is older than STALE_RUN_TIMEOUT is a flag that can rise at any time *)
(* after its launch.                                                       *)
(***************************************************************************)
EXTENDS Naturals, FiniteSets

CONSTANTS
    MaxListed,  \* the newest runs that reconcile_running_runs looks at (30)
    MaxChecked, \* and those a tick looks at before it fires (5)
    MaxRuns,    \* bound: run files
    MaxSlots,   \* bound: slots of the schedule
    MaxFaults   \* bound: deaths of the daemon or of a command, launches and
                \* state saves that fail, changes of the definition, mark-reads

ASSUME AutomationRunsAssumption ==
    /\ MaxRuns \in Nat \ {0}
    /\ MaxListed \in Nat \ {0} /\ MaxChecked \in 1..MaxListed
    /\ {MaxSlots, MaxFaults} \subseteq Nat

Run  == 1..MaxRuns               \* in the order of started_at
Proc == {"scheduler", "command"}
Never == MaxSlots + 1            \* last_fired_at is None

\* `done` is Done or Archived, which differ by the text in the pane.
RunStatus == {"none", "pending", "running", "done", "failed"}
Fired     == 0..Never
Window    == {"none", "live", "gone"}
Plan      == {"keep", "done", "failed"}

Pc == {"idle", "down", "list_runs", "verdict", "verdict_save", "check",
       "launch", "save_failed", "bump_save", "save_running", "fired_save", "mark_save"}

VARIABLES
    definition, \* automation.toml: "active", "paused" (or active, but nothing that
                \* fire_automation takes: a worktree, or its directory is gone) or
                \* "none"
    runs,       \* the status in each run file
    state,      \* last_fired_at in state.json
    proc,       \* where the scheduler and the command are, and what they loaded
    tick,       \* what the scheduler has read when it reconciles
    slot,       \* slots that have passed
    win,        \* the window of each run
    ended,      \* its agent has finished, or reported an error
    known,      \* the daemon's state file says so
    aged,       \* the run is older than STALE_RUN_TIMEOUT
    for,        \* history: the slot for which the scheduler fired each run
    torn,       \* history: last_fired_at was not saved, taken back or deleted
    answered,   \* history: the slots that had passed at the last launch of a run
    missed,     \* history: the slots that passed between a launch and its record
    count       \* what the bounds count

files == <<definition, runs, state>>
procs == <<proc, tick>>
clock == <<slot, aged>>
world == <<win, ended, known>>
history == <<for, torn, answered, missed>>
vars == <<files, procs, clock, world, history, count>>

IdleProc == [pc |-> "idle", run |-> 1, copy |-> Never, mark |-> "none"]
NoTick   == [listed |-> TRUE, live |-> {}, born |-> {}, plan |-> [r \in Run |-> "keep"]]

Init ==
    /\ definition = "active"
    /\ runs = [r \in Run |-> "none"]
    /\ state = 0
    /\ proc = [p \in Proc |-> IdleProc]
    /\ tick = NoTick
    /\ slot = 0
    /\ win = [r \in Run |-> "none"]
    /\ ended = [r \in Run |-> FALSE]
    /\ known = [r \in Run |-> FALSE]
    /\ aged = [r \in Run |-> FALSE]
    /\ for = [r \in Run |-> Never]
    /\ torn = FALSE
    /\ answered = 0
    /\ missed = {}
    /\ count = [runs |-> 0, faults |-> 0]

Terminal(status) == status \in {"done", "failed"}

Fault ==
    /\ count.faults < MaxFaults
    /\ count' = [count EXCEPT !.faults = @ + 1]

-----------------------------------------------------------------------------
(* fire_automation, by the scheduler and by `automation run` *)

Goto(p, pc) == proc' = [proc EXCEPT ![p].pc = pc]

\* Mutant: what was loaded is kept for the next run.
EndsKeeping(p) == Goto(p, "idle")

Ends(p) == proc' = [proc EXCEPT ![p] = IdleProc]

\* save_run: the file is written whole, its directory made again if need be.
SaveRun(r, status) == runs' = [runs EXCEPT ![r] = status]

\* The run record, saved as pending before anything is launched.  That
\* fire_automation returns before it with an error is the automation's being
\* "paused", and that a command is not given.
Fire(p) ==
    LET r == count.runs + 1 IN
    /\ count.runs < MaxRuns
    /\ count' = [count EXCEPT !.runs = r]
    /\ SaveRun(r, "pending")
    /\ proc' = [proc EXCEPT ![p] = [IdleProc EXCEPT !.pc = "launch", !.run = r]]
    /\ for' = [for EXCEPT ![r] = IF p = "scheduler" THEN slot ELSE Never]

\* create_unified.
Launch(p) ==
    LET r == proc[p].run IN
    /\ proc[p].pc = "launch"
    /\ \/ /\ win' = [win EXCEPT ![r] = "live"]
          /\ Goto(p, "save_running")
          /\ answered' = slot
          /\ UNCHANGED count
       \/ /\ Fault
          /\ Goto(p, "save_failed")
          /\ UNCHANGED <<win, answered>>
    /\ UNCHANGED <<files, tick, clock, ended, known, for, torn, missed>>

\* The failed run, and then load_state: an unreadable file counts as a new one.
SaveFailedRun(p) ==
    /\ proc[p].pc = "save_failed"
    /\ SaveRun(proc[p].run, "failed")
    /\ proc' = [proc EXCEPT ![p].pc = "bump_save", ![p].copy = state]
    /\ UNCHANGED <<definition, state, tick, clock, world, history, count>>

SaveRunning(p) ==
    /\ proc[p].pc = "save_running"
    /\ SaveRun(proc[p].run, "running")
    /\ Goto(p, "fired_save")
    /\ UNCHANGED <<definition, state, tick, clock, world, history, count>>

\* save_state of the copy that was loaded, with the count of failures changed:
\* it takes back a last_fired_at that was saved since.
SaveCopy(p) ==
    /\ state' = proc[p].copy
    /\ torn' = (torn \/ state # proc[p].copy)

\* Mutant: a launch that failed counts as a fire.
BumpAsFired(p) ==
    /\ proc[p].pc = "bump_save"
    /\ state' = slot
    /\ Ends(p)
    /\ UNCHANGED <<definition, runs, tick, clock, world, history, count>>

\* bump_failure_state leaves last_fired_at alone: the slot stays due.
BumpFailureState(p) ==
    /\ proc[p].pc = "bump_save"
    /\ SaveCopy(p)
    /\ Ends(p)
    /\ UNCHANGED <<definition, runs, tick, clock, world, for, answered, missed, count>>

\* Mutant: only a run by hand records when it was fired.
RecordFiredByHand(p) ==
    /\ proc[p].pc = "fired_save"
    /\ state' = IF p = "command" THEN slot ELSE state
    /\ Ends(p)
    /\ UNCHANGED <<definition, runs, tick, clock, world, history, count>>

\* last_fired_at is the time after the launch and its pause, whatever the file
\* says; that the save fails is ignored.
RecordFired(p) ==
    /\ proc[p].pc = "fired_save"
    /\ \/ /\ state' = slot
          /\ UNCHANGED <<torn, count>>
       \/ /\ Fault
          /\ torn' = TRUE
          /\ UNCHANGED state
    /\ Ends(p)
    /\ UNCHANGED <<definition, runs, tick, clock, world, for, answered, missed>>

-----------------------------------------------------------------------------
(* tick_scheduler: reconcile_running_runs, then the automation if it is due *)

\* list_live_sessions_session_ids, before any run file is read: a list that
\* fails, or takes tmux too long, counts as empty.
ReconcileStart ==
    /\ proc["scheduler"].pc = "idle"
    /\ LET windows == {r \in Run : win[r] = "live"} IN
       \E live \in {windows, {}} :
          tick' = [NoTick EXCEPT !.listed = (live = windows),
                                 !.live = live,
                                 !.born = {r \in Run : win[r] # "none"}]
    /\ Goto("scheduler", "list_runs")
    /\ UNCHANGED <<files, clock, world, history, count>>

\* Only a run that was saved as running has its session id in the file.
HasSsn(r) == runs[r] = "running"

\* Mutant: a run whose window is gone is done.
PlansGoneIsDone(r) ==
    CASE aged[r]                                     -> {"failed"}
      [] HasSsn(r) /\ known[r]                       -> {"done", "failed"}
      [] HasSsn(r) /\ r \notin tick.live             -> {"done"}
      [] OTHER                                       -> {"keep"}

\* Mutant: a state the daemon has not saved yet counts as an error.
PlansUnknownFails(r) ==
    CASE aged[r]                                     -> {"failed"}
      [] HasSsn(r) /\ known[r]                       -> {"done", "failed"}
      [] HasSsn(r)                                   -> {"failed"}
      [] OTHER                                       -> {"keep"}

\* Mutant: the timeout is only for runs that have a session.
PlansStaleSsn(r) ==
    CASE HasSsn(r) /\ aged[r]                        -> {"failed"}
      [] HasSsn(r) /\ known[r]                       -> {"done", "failed"}
      [] HasSsn(r) /\ r \notin tick.live             -> {"failed"}
      [] OTHER                                       -> {"keep"}

\* The timeout first; then what the daemon knows of the agent, done or error;
\* a window that is gone before the daemon saved that is a failure.
Plans(r) ==
    CASE aged[r]                                     -> {"failed"}
      [] HasSsn(r) /\ known[r]                       -> {"done", "failed"}
      [] HasSsn(r) /\ r \notin tick.live             -> {"failed"}
      [] OTHER                                       -> {"keep"}

\* list_runs: the newest so many of the runs that have a file.
Newest(limit) ==
    {r \in Run : /\ runs[r] # "none"
                 /\ Cardinality({q \in Run : q > r /\ runs[q] # "none"}) < limit}

\* The state file, the automations and their newest runs: what is to become of
\* each.
ListRuns ==
    LET open == {r \in Newest(MaxListed) : runs[r] \in {"pending", "running"}}
    IN
    /\ proc["scheduler"].pc = "list_runs"
    /\ \E plan \in [Run -> Plan] :
          /\ \A r \in Run : plan[r] \in IF r \in open THEN Plans(r) ELSE {"keep"}
          /\ IF definition = "none" \/ plan = NoTick.plan
             THEN Goto("scheduler", "check") /\ tick' = NoTick
             ELSE Goto("scheduler", "verdict") /\ tick' = [tick EXCEPT !.live = {}, !.plan = plan]
    /\ UNCHANGED <<files, clock, world, history, count>>

\* A bound on the states: nothing below asks what becomes of the agent, the
\* window and the age of a run with a verdict, unless a mark-read is about to
\* undo the verdict.
Settled(r) ==
    IF proc["command"].pc = "mark_save" /\ proc["command"].run = r THEN UNCHANGED <<world, aged>>
    ELSE /\ win' = [win EXCEPT ![r] = IF @ = "none" THEN @ ELSE "gone"]
         /\ ended' = [ended EXCEPT ![r] = FALSE]
         /\ known' = [known EXCEPT ![r] = FALSE]
         /\ aged' = [aged EXCEPT ![r] = FALSE]

Planned == {r \in Run : tick.plan[r] # "keep"}

\* The newest run first: its file is written from the copy that was read, and
\* state.json is loaded.
ReconcileRun ==
    /\ proc["scheduler"].pc = "verdict"
    /\ \E r \in Planned :
          /\ \A q \in Planned : q <= r
          /\ SaveRun(r, tick.plan[r])
          /\ tick' = [tick EXCEPT !.plan[r] = "keep"]
          /\ Settled(r)
    /\ proc' = [proc EXCEPT !["scheduler"].pc = "verdict_save", !["scheduler"].copy = state]
    /\ UNCHANGED <<definition, state, slot, history, count>>

\* consecutive_failures, by the verdict.
VerdictSaved ==
    LET next == IF tick.plan = NoTick.plan THEN "check" ELSE "verdict" IN
    /\ proc["scheduler"].pc = "verdict_save"
    /\ SaveCopy("scheduler")
    /\ tick' = IF next = "check" THEN NoTick ELSE tick
    /\ proc' = [proc EXCEPT !["scheduler"] = [IdleProc EXCEPT !.pc = next]]
    /\ UNCHANGED <<definition, runs, clock, world, for, answered, missed, count>>

\* is_due: a slot has passed since the last fire; an automation that was
\* never fired may or may not have a slot in the last two minutes.
DueAnswers == IF state = Never THEN BOOLEAN ELSE {state < slot}

\* One fire for however many slots have passed, and none while one of the
\* automation's newest runs is running.
TickFire ==
    /\ proc["scheduler"].pc = "check"
    /\ \E due \in DueAnswers :
          IF /\ definition = "active"
             /\ \A r \in Newest(MaxChecked) : runs[r] # "running"
             /\ due
             /\ count.runs < MaxRuns
          THEN Fire("scheduler")
          ELSE Ends("scheduler") /\ UNCHANGED <<runs, for, count>>
    /\ UNCHANGED <<definition, state, tick, clock, world, torn, answered, missed>>

-----------------------------------------------------------------------------
(* The commands, one at a time *)

\* `automation run`: the definition is there; neither schedule, status nor
\* other runs matter.
RunNow ==
    /\ proc["command"].pc = "idle"
    /\ definition # "none"
    /\ Fire("command")
    /\ UNCHANGED <<definition, state, tick, clock, world, torn, answered, missed>>

\* pause and resume; the directory of an automation goes and comes back.
SetStatus ==
    /\ Fault
    /\ definition # "none"
    /\ definition' \in {"active", "paused"} \ {definition}
    /\ UNCHANGED <<runs, state, procs, clock, world, history>>

\* delete takes the whole directory, runs and state.json too.
Delete ==
    /\ Fault
    /\ definition # "none"
    /\ definition' = "none"
    /\ runs' = [r \in Run |-> "none"]
    /\ state' = Never
    /\ torn' = TRUE
    /\ UNCHANGED <<procs, clock, world, for, answered, missed>>

\* create, under the old id or a new one.
Create ==
    /\ definition = "none"
    /\ definition' = "active"
    /\ UNCHANGED <<runs, state, procs, clock, world, history, count>>

\* mark_run_read loads the file of a run, whatever its status, and saves it
\* again later.  A bound: a file with a verdict is written as it was.
MarkLoad ==
    /\ proc["command"].pc = "idle"
    /\ Fault
    /\ \E r \in Run :
          /\ runs[r] \in {"pending", "running"}
          /\ proc' = [proc EXCEPT !["command"] =
                        [IdleProc EXCEPT !.pc = "mark_save", !.run = r, !.mark = runs[r]]]
    /\ UNCHANGED <<files, tick, clock, world, history>>

MarkSave ==
    /\ proc["command"].pc = "mark_save"
    /\ SaveRun(proc["command"].run, proc["command"].mark)
    /\ Ends("command")
    /\ UNCHANGED <<definition, state, tick, clock, world, history, count>>

-----------------------------------------------------------------------------
(* The world *)

\* The same bound: what the verdict of a run may still depend on.
Open(r) == ~Terminal(runs[r]) /\ ~aged[r]

SlotPasses ==
    /\ slot < MaxSlots
    /\ slot' = slot + 1
    /\ missed' = IF \E p \in Proc : proc[p].pc \in {"save_running", "fired_save"}
                 THEN missed \cup {slot'} ELSE missed
    /\ UNCHANGED <<files, procs, aged, world, for, torn, answered, count>>

\* Two hours after the start; a launch takes seconds.  Only a tick reads it.
Ages(r) ==
    /\ proc["scheduler"].pc \in {"idle", "down"}
    /\ ~aged[r]
    /\ runs[r] \in {"pending", "running"}
    /\ \A p \in Proc : proc[p].pc \in {"launch", "save_running"} => proc[p].run # r
    /\ aged' = [aged EXCEPT ![r] = TRUE]
    /\ UNCHANGED <<files, procs, slot, world, history, count>>

AgentEnds(r) ==
    /\ Open(r) /\ win[r] = "live" /\ ~ended[r]
    /\ ended' = [ended EXCEPT ![r] = TRUE]
    /\ UNCHANGED <<files, procs, clock, win, known, history, count>>

\* That its agent had ended matters from then on only if the daemon saved it.
WindowGoes(r) ==
    /\ Open(r) /\ win[r] = "live"
    /\ win' = [win EXCEPT ![r] = "gone"]
    /\ ended' = [ended EXCEPT ![r] = known[r]]
    /\ UNCHANGED <<files, procs, clock, known, history, count>>

\* The daemon saves its rows: that the agent has ended, or that the row of a
\* window that is gone is no more.
DaemonSaves(r) ==
    LET now == win[r] = "live" /\ ended[r] IN
    /\ proc["scheduler"].pc # "down"
    /\ Open(r) /\ known[r] # now
    /\ known' = [known EXCEPT ![r] = now]
    /\ UNCHANGED <<files, procs, clock, win, ended, history, count>>

\* A death between the launch and the save of last_fired_at is remembered.
Dies(p) ==
    /\ proc[p].pc \notin {"idle", "down"}
    /\ Fault
    /\ proc' = [proc EXCEPT ![p] = [IdleProc EXCEPT !.pc = IF p = "scheduler" THEN "down" ELSE "idle"]]
    /\ tick' = IF p = "scheduler" THEN NoTick ELSE tick
    /\ torn' = (torn \/ proc[p].pc \in {"save_running", "fired_save"})
    /\ UNCHANGED <<files, clock, world, for, answered, missed>>

Restart ==
    /\ proc["scheduler"].pc = "down"
    /\ Ends("scheduler")
    /\ UNCHANGED <<files, tick, clock, world, history, count>>

-----------------------------------------------------------------------------

FireStep(p) ==
    \/ Launch(p)
    \/ SaveFailedRun(p)
    \/ SaveRunning(p)
    \/ BumpFailureState(p)
    \/ RecordFired(p)

Tick ==
    \/ ReconcileStart
    \/ ListRuns
    \/ ReconcileRun
    \/ VerdictSaved
    \/ TickFire
    \/ FireStep("scheduler")

Command ==
    \/ FireStep("command")
    \/ MarkSave

Next ==
    \/ Tick
    \/ Command
    \/ RunNow
    \/ SetStatus
    \/ Delete
    \/ Create
    \/ MarkLoad
    \/ SlotPasses
    \/ \E r \in Run : Ages(r) \/ AgentEnds(r) \/ WindowGoes(r) \/ DaemonSaves(r)
    \/ \E p \in Proc : Dies(p)
    \/ Restart

\* automation_loop ticks for ever, a command goes on unless it dies, and runs
\* get older; the service manager starts the daemon again.
Fairness ==
    /\ WF_vars(Tick \/ Restart)
    /\ WF_vars(Command)
    /\ SF_vars(\E r \in Run : Ages(r))

Spec == Init /\ [][Next]_vars
FairSpec == Spec /\ Fairness

-----------------------------------------------------------------------------
(* Properties *)

\* Every variable keeps its type; only a run that was launched has a window or
\* is saved as running, and a process that is idle holds no copy of a file.
TypeOK ==
    /\ definition \in {"active", "paused", "none"}
    /\ runs \in [Run -> RunStatus]
    /\ state \in Fired
    /\ proc \in [Proc -> [pc : Pc, run : Run, copy : Fired, mark : RunStatus]]
    /\ tick.live \subseteq tick.born /\ tick.born \subseteq Run /\ tick.plan \in [Run -> Plan]
    /\ win \in [Run -> Window]
    /\ known \in [Run -> BOOLEAN]
    /\ for \in [Run -> 0..Never]
    /\ answered \in 0..slot /\ missed \subseteq 1..slot
    /\ \A r \in Run : win[r] # "none" => r <= count.runs
    /\ \A r \in Run : runs[r] = "running" => win[r] # "none"
    /\ \A p \in Proc : proc[p].pc = "idle" => proc[p] = IdleProc

\* "fire once each": the scheduler launches one run for a slot, however many
\* ticks see it due, unless it died or could not save between a launch and
\* last_fired_at, or a save of state.json went over it, or the automation was
\* deleted with its bookkeeping.
SlotFiredOnce ==
    \A r, q \in Run :
        /\ r # q
        /\ for[r] = for[q] /\ for[r] # Never
        /\ win[r] # "none" /\ win[q] # "none"
        => torn

\* A run counts as done only when its agent has finished, and is failed while
\* its agent works only when it is too old, when its window is gone, when it was
\* launched after the windows were listed, or when they could not be listed.
VerdictForCause ==
    [][\A r \in Run :
          /\ runs[r] # "done" /\ runs'[r] = "done" => ended[r]
          /\ runs[r] = "running" /\ runs'[r] = "failed" =>
                aged[r] \/ win[r] = "gone" \/ ended[r] \/ r \notin tick.born \/ ~tick.listed]_vars

\* Every run ends: one that was orphaned by a death of whoever fired it, or
\* whose agent never ends, by its age.  One that so many newer runs have pushed
\* out of reconcile_running_runs' sight may stay as it is.
RunsEnd ==
    \A r \in Run :
        runs[r] \in {"pending", "running"} ~>
            \/ runs[r] \notin {"pending", "running"}
            \/ r \notin Newest(MaxListed)
            \/ definition = "none"

\* A slot that passes while the daemon is down, while a run is running or while
\* launches fail is caught up in the end by a run that is launched after it.
\* One that passes between a launch and its record is taken for answered, and
\* an automation that was deleted and made anew has no slots to catch up.
EventuallyFires ==
    \A n \in 1..MaxSlots :
        definition = "active" /\ state < n /\ slot >= n ~>
            \/ answered >= n
            \/ state \in n..MaxSlots /\ n \in missed
            \/ state = Never
            \/ definition # "active"
            \/ count.runs = MaxRuns            \* the bound

\* A slot that last_fired_at covers has been answered by a launch after it, or
\* passed while a launch was on its way into state.json.
CoveredForCause ==
    \A n \in 1..slot : state \in n..MaxSlots => answered >= n \/ n \in missed

\* "fire once each", come what may: not when whoever fires dies before
\* last_fired_at is saved, nor when an older copy of state.json is saved over it.
FiredOnce ==
    \A r, q \in Run :
        r # q /\ for[r] = for[q] /\ for[r] # Never /\ win[r] # "none" /\ win[q] # "none"
        => definition = "none" \/ state = Never

\* What a verdict says is final.
VerdictStands ==
    [][\A r \in Run :
          Terminal(runs[r]) /\ definition' # "none" => Terminal(runs'[r])]_vars

\* "Window gone - treat as interrupted" (reconcile_running_runs): a run fails
\* while its agent works only for its age or its window.
FailedIfGone ==
    [][\A r \in Run : runs[r] = "running" /\ runs'[r] = "failed" =>
          aged[r] \/ win[r] = "gone" \/ ended[r]]_vars

\* "run timed out (stale)" (reconcile_running_runs): every run ends.
AllRunsEnd ==
    \A r \in Run :
        runs[r] \in {"pending", "running"} ~>
            runs[r] \notin {"pending", "running"} \/ definition = "none"

\* "catch-up: single fire" (is_due): what last_fired_at covers has been answered
\* by a run that was launched after it.
CoveredIsAnswered ==
    \A n \in 1..slot : state \in n..MaxSlots => answered >= n

\* At most one run of the automation is live at a time.
OneLiveRun ==
    \A r, q \in Run :
        r # q /\ win[r] = "live" /\ win[q] = "live" =>
            ended[r] \/ ended[q]
===============================================================================
