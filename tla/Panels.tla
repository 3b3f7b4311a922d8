--------------------------------- MODULE Panels ---------------------------------
(***************************************************************************)
(* The user interface's tmux window: pane 0 is the sidebar, pane 1 the     *)
(* workspace, which shows the agents or one panel.  Panels are opened by   *)
(* short-lived `sessions panel` commands that tmux key bindings and the    *)
(* sidebar start, closed by the sidebar, by a command or from inside, and  *)
(* the window is repaired by `sessions up`; nothing serialises them but    *)
(* the tmux server, one call at a time.  A step is one tmux call.          *)
(*                                                                         *)
(* Sequences count from 1: panes[1] is tmux's pane 0.  Probes of the       *)
(* other panels of one command are one step.                               *)
(***************************************************************************)
EXTENDS Naturals, Sequences, SequencesExt

CONSTANTS MaxRequests,  \* requests of a user in a behaviour
          MaxBreaks     \* panes that die or are killed

VARIABLES
    panes,   \* the window's panes; empty while the session does not exist
    task,    \* what each process is doing
    side,    \* the sidebar's panel flag and whether its grace period runs
    draft,   \* the new-session panel has a draft on disk
    asks     \* what was asked and what broke, for the properties and bounds

panelVars == <<panes, task, side, draft, asks>>

\* "mcps" stands for the automations and skills panels too: their code is the same.
Panel == {"settings", "new", "mcps"}
Cmds  == {"cmd1", "cmd2"}            \* `sessions panel` processes
Actor == Cmds \cup {"bar", "up"}

NoTask   == [op |-> "none", at |-> "idle", want |-> "none", fix |-> <<"none", 0>>]
NoSide   == [flag |-> "none", grace |-> FALSE]
Pane(id, start) == [id |-> id, start |-> start,
                    at |-> IF start = "attach" THEN "tmux" ELSE "run"]

PanelTypeOK ==
    /\ panes \in Seq([id : Nat, start : {"bar", "attach"} \cup Panel,
                      at : {"run", "tmux", "dead"}])
    /\ DOMAIN task = Actor
    /\ \A a \in Actor : (task[a].at = "idle") = (task[a] = NoTask)
    /\ side \in [flag : Panel \cup {"none"}, grace : BOOLEAN]
    /\ draft \in BOOLEAN
    /\ asks.asked \in Panel \cup {"none", "any"}
    /\ asks.broke \in {"no", "before", "since"}

-----------------------------------------------------------------------------
(* Reading the window *)

\* Mutant: the start command alone tells a panel.
RunningAtAll(p) == Len(panes) >= 2 /\ panes[2].start = p

\* workspace_pane_is_panel_mode: a pane started as a panel whose command is
\* not yet the attach that follows it.  A dead pane's command is not tmux.
Running(p) == Len(panes) >= 2 /\ panes[2].start = p /\ panes[2].at # "tmux"

\* A number of no pane; there are more of them than panes and processes.
NewIds == 1..Len(panes) + 5
FreshId == CHOOSE i \in NewIds :
              \A j \in 1..Len(panes) : panes[j].id # i /\ \A a \in Actor : task[a].fix[2] # i

\* What repair_ui_workspace does about the panes it listed.
Repairs ==
    IF Len(panes) = 2 /\ panes[2].at = "dead" THEN <<"respawn", panes[2].id>>
    ELSE IF Len(panes) = 1
         THEN <<IF panes[1].start = "bar" THEN "after" ELSE "before", panes[1].id>>
         ELSE <<"none", 0>>

BarUp == panes # <<>> /\ panes[1].start = "bar" /\ panes[1].at = "run"

-----------------------------------------------------------------------------
(* What a user sees and asked for *)

Quiet == \A a \in Actor : task[a] = NoTask
Whole == Len(panes) = 2 /\ \A i \in 1..2 : panes[i].at # "dead"
Shown == IF Len(panes) >= 2 /\ panes[2].start \in Panel /\ panes[2].at = "run"
         THEN panes[2].start ELSE "none"

\* A request whose outcome can be told: it meets a whole window at rest.
Asks(result, told) ==
    /\ asks.requests < MaxRequests
    /\ asks' = [asks EXCEPT !.requests = @ + 1,
                            !.asked = IF Quiet /\ Whole /\ told THEN result ELSE "any"]

Toggled(p) == IF Shown = p THEN "none" ELSE p

-----------------------------------------------------------------------------
(* The steps the processes share *)

Goto(a, at)  == task' = [task EXCEPT ![a].at = at]
Stop(a)      == task' = [task EXCEPT ![a] = NoTask]
Respawn(i, start) == panes' = [panes EXCEPT ![i] = Pane(@.id, start)]

\* A tmux call on a pane that is not there is an error, and ends the caller.
Fails(a) == Stop(a) /\ UNCHANGED <<panes, side>>

\* The end of restore_workspace_attach: an open goes on to its respawn, the
\* sidebar clears its flags, `up` goes on to the bar.
Restored(a) ==
    /\ CASE task[a].op = "open" -> Goto(a, "spawn")
         [] task[a].op = "up"   -> Goto(a, "bar")
         [] OTHER               -> Stop(a)
    /\ side' = IF a = "bar" THEN NoSide ELSE side

\* restore_workspace_attach: is there a workspace pane?
Restore(a) ==
    /\ task[a].at = "list"
    /\ \/ panes = <<>> /\ Fails(a)
       \/ Len(panes) = 1 /\ Goto(a, "repair") /\ UNCHANGED <<panes, side>>
       \/ Len(panes) >= 2 /\ Goto(a, "attach") /\ UNCHANGED <<panes, side>>
    /\ UNCHANGED <<draft, asks>>

Attach(a) ==
    /\ task[a].at = "attach"
    /\ \/ Len(panes) < 2 /\ Fails(a)
       \/ Len(panes) >= 2 /\ Respawn(2, "attach") /\ Restored(a)
    /\ UNCHANGED <<draft, asks>>

\* repair_ui_workspace lists the panes, and then acts on a pane by its id.
Repair(a) ==
    /\ task[a].at = "repair"
    /\ \/ panes = <<>> /\ Fails(a)
       \/ panes # <<>> /\ task' = [task EXCEPT ![a].at = "fix", ![a].fix = Repairs]
                       /\ UNCHANGED <<panes, side>>
    /\ UNCHANGED <<draft, asks>>

Fixed(a) ==
    IF task[a].want # "boot" THEN Restored(a)
    ELSE /\ task' = [task EXCEPT ![a].at = IF task[a].fix[1] = "none" THEN "needs" ELSE "ensure",
                                 ![a].fix = NoTask.fix]
         /\ UNCHANGED side

Fix(a) ==
    LET kind == task[a].fix[1]
        on   == {i \in 1..Len(panes) : panes[i].id = task[a].fix[2]}
    IN /\ task[a].at = "fix"
       /\ \/ kind # "none" /\ on = {} /\ Fails(a)
          \/ kind = "none" /\ Fixed(a) /\ UNCHANGED panes
          \/ \E i \in on :
                /\ \/ kind = "respawn" /\ Respawn(i, "attach")
                   \/ kind = "after"   /\ panes' = InsertAt(panes, i + 1, Pane(FreshId, "attach"))
                   \/ kind = "before"  /\ panes' = InsertAt(panes, i, Pane(FreshId, "bar"))
                /\ Fixed(a)
       /\ UNCHANGED <<draft, asks>>

-----------------------------------------------------------------------------
(* `sessions panel`: open_workspace_*, toggle_workspace_*, dismiss *)

Command(op, p) == [NoTask EXCEPT !.op = op, !.at = "own", !.want = p]
ByKey(p) == Command(IF p = "settings" THEN "toggle" ELSE "open", p)
Start(t) == \E c \in Cmds : task[c] = NoTask /\ task' = [task EXCEPT ![c] = t]

\* A key binding of the window: settings toggle, the others only open.
KeyPress(p) ==
    /\ panes # <<>>
    /\ Asks(IF p = "settings" THEN Toggled(p) ELSE p, TRUE)
    /\ Start(ByKey(p))
    /\ UNCHANGED <<panes, side, draft>>

\* `sessions panel new-session` toggles; `sessions panel dismiss` closes.
ToggleNew ==
    /\ Asks(Toggled("new"), TRUE)
    /\ Start(Command("toggle", "new"))
    /\ UNCHANGED <<panes, side, draft>>
Dismiss ==
    /\ Asks("none", TRUE)
    /\ Start(Command("dismiss", "none"))
    /\ UNCHANGED <<panes, side, draft>>

Own(a) ==
    LET t == task[a] IN
    /\ t.at = "own"
    /\ \/ t.op = "open" /\ Running(t.want) /\ Stop(a)
       \/ t.op = "open" /\ ~Running(t.want) /\ Goto(a, "others")
       \/ t.op = "toggle" /\ Running(t.want) /\ Goto(a, "list")
       \/ t.op = "toggle" /\ ~Running(t.want) /\ t.want = "settings" /\ Goto(a, "spawn")
       \/ t.op = "toggle" /\ ~Running(t.want) /\ t.want = "new"
          /\ task' = [task EXCEPT ![a].op = "open"]
       \/ t.op = "dismiss" /\ \E p \in Panel : Running(p) /\ Goto(a, "list")
       \/ t.op = "dismiss" /\ (\A p \in Panel : ~Running(p)) /\ Stop(a)
    /\ UNCHANGED <<panes, side, draft, asks>>

\* One panel at a time: another one is closed before this one is opened.
Others(a) ==
    /\ task[a].at = "others"
    /\ Goto(a, IF \E p \in Panel \ {task[a].want} : Running(p) THEN "list" ELSE "spawn")
    /\ UNCHANGED <<panes, side, draft, asks>>

Spawn(a) ==
    /\ task[a].at = "spawn"
    /\ \/ Len(panes) < 2 /\ Fails(a)
       \/ Len(panes) >= 2 /\ Respawn(2, task[a].want) /\ Stop(a) /\ UNCHANGED side
    /\ UNCHANGED <<draft, asks>>

-----------------------------------------------------------------------------
(* The sidebar *)

\* A click on a toolbar button: the probe, the flag, and either a command
\* or the closing of what is open.  The flag is set before the panel is up.
Click(p) ==
    LET open == Running(p) \/ side.flag = p IN
    /\ BarUp /\ task["bar"] = NoTask
    /\ Asks(IF p = "new" THEN p ELSE Toggled(p), side.flag = Shown)
    /\ \/ open /\ p = "new" /\ side' = [side EXCEPT !.flag = p] /\ UNCHANGED task
       \/ open /\ p # "new" /\ UNCHANGED side
          /\ task' = [task EXCEPT !["bar"] = [NoTask EXCEPT !.op = "close", !.at = "probe"]]
       \/ ~open /\ side' = [flag |-> p, grace |-> TRUE] /\ Start(ByKey(p))
    /\ UNCHANGED <<panes, draft>>

\* Opening a session or the search closes the panel.
Close ==
    /\ BarUp /\ task["bar"] = NoTask
    /\ Asks("none", side.flag = Shown)
    /\ task' = [task EXCEPT !["bar"] = [NoTask EXCEPT !.op = "close", !.at = "probe"]]
    /\ UNCHANGED <<panes, side, draft>>

\* restore_workspace_if_panel_open
CloseProbe ==
    /\ task["bar"].at = "probe"
    /\ \/ (\E p \in Panel : Running(p)) /\ Goto("bar", "list") /\ UNCHANGED side
       \/ (\A p \in Panel : ~Running(p)) /\ Stop("bar")
          /\ side' = IF side.flag = "none" THEN side ELSE NoSide
    /\ UNCHANGED <<panes, draft, asks>>

\* sync_workspace_panel_state: no panel seen during the grace period says nothing.
Sync ==
    /\ BarUp /\ task["bar"] = NoTask
    /\ \/ /\ \A p \in Panel : ~Running(p)
          /\ ~side.grace
          /\ side' = NoSide
       \/ \E p \in Panel : Running(p) /\ side' = [flag |-> p, grace |-> FALSE]
    /\ UNCHANGED <<panes, task, draft, asks>>

GraceEnds == side.grace /\ side' = [side EXCEPT !.grace = FALSE]
             /\ UNCHANGED <<panes, task, draft, asks>>

-----------------------------------------------------------------------------
(* Inside a panel *)

InPanel(p) == Len(panes) >= 2 /\ panes[2].start = p /\ panes[2].at = "run"
Leaves == asks' = [asks EXCEPT !.asked = IF Quiet /\ Whole THEN "none" ELSE "any"]

\* The panel quits and the attach that follows it in its command runs.
Escape(p) ==
    /\ InPanel(p)
    /\ panes' = [panes EXCEPT ![2].at = "tmux"]
    /\ Leaves
    /\ UNCHANGED <<task, side, draft>>

\* The new-session panel saves its draft while it is open, or clears it when
\* there is nothing worth saving.
Autosave ==
    /\ InPanel("new")
    /\ draft' \in BOOLEAN
    /\ UNCHANGED <<panes, task, side, asks>>

\* Launching opens the session by respawning the panel's own pane, which
\* ends the panel: the draft may or may not be cleared before.
Launch ==
    /\ InPanel("new")
    /\ Respawn(2, "attach")
    /\ draft' \in {draft, FALSE}
    /\ Leaves
    /\ UNCHANGED <<task, side>>

-----------------------------------------------------------------------------
(* `sessions up`: bootstrap_ui_session, respawn_sidebar_bar, verify_ui_runtime *)

NewSide(i) == IF i = 1 THEN NoSide ELSE side
NewBar(i, t) == IF i = 1 THEN [t EXCEPT !["bar"] = NoTask] ELSE t

\* What `up` cannot repair: both panes dead, or the workspace alone and dead.
AgentsDown == \/ Len(panes) = 2 /\ \A i \in 1..2 : panes[i].at = "dead"
              \/ Len(panes) = 1 /\ panes[1].start # "bar" /\ panes[1].at = "dead"

Up ==
    /\ task["up"] = NoTask /\ asks.requests < MaxRequests
    /\ task' = [task EXCEPT !["up"] = [NoTask EXCEPT !.op = "up", !.at = "sidebar",
                                                    !.want = "boot"]]
    /\ asks' = [asks EXCEPT !.requests = @ + 1, !.asked = IF Quiet /\ Whole THEN @ ELSE "any",
                            !.broke = IF AgentsDown THEN "before" ELSE "no", !.up = "none"]
    /\ UNCHANGED <<panes, side, draft>>

\* repair_ui_sidebar
UpSidebar ==
    /\ task["up"].at = "sidebar"
    /\ \/ panes = <<>> /\ Goto("up", "new") /\ UNCHANGED <<panes, side>>
       \/ Len(panes) = 2 /\ panes[1].at = "dead"
          /\ Respawn(1, "bar") /\ Goto("up", "ensure") /\ side' = NoSide
       \/ panes # <<>> /\ ~(Len(panes) = 2 /\ panes[1].at = "dead")
          /\ Goto("up", "repair") /\ UNCHANGED <<panes, side>>
    /\ UNCHANGED <<draft, asks>>

\* ui_session_needs_repair, and the kill of a window that does
UpNeeds ==
    /\ task["up"].at = "needs"
    /\ \/ panes = <<>> /\ Fails("up")
       \/ panes # <<>> /\ Whole /\ Goto("up", "ensure") /\ UNCHANGED <<panes, side>>
       \/ panes # <<>> /\ ~Whole /\ panes' = <<>> /\ side' = NoSide
          /\ task' = [task EXCEPT !["up"].at = "new", !["bar"] = NoTask]
    /\ UNCHANGED <<draft, asks>>

UpNew ==
    /\ task["up"].at = "new"
    /\ panes' = <<Pane(FreshId, "attach")>>
    /\ Goto("up", "split")
    /\ UNCHANGED <<side, draft, asks>>

UpSplit ==
    /\ task["up"].at = "split"
    /\ \/ panes = <<>> /\ Fails("up")
       \/ panes # <<>> /\ panes' = InsertAt(panes, Len(panes), Pane(FreshId, "bar"))
          /\ Goto("up", "ensure") /\ UNCHANGED side
    /\ UNCHANGED <<draft, asks>>

\* ensure_ui_workspace_pane, at the end of configure_ui_session
UpEnsure ==
    /\ task["up"].at = "ensure"
    /\ \/ panes = <<>> /\ Fails("up")
       \/ Len(panes) = 1 /\ task' = [task EXCEPT !["up"].at = "repair", !["up"].want = "none"]
                         /\ UNCHANGED <<panes, side>>
       \/ Len(panes) >= 2 /\ Goto("up", "bar") /\ UNCHANGED <<panes, side>>
    /\ UNCHANGED <<draft, asks>>

UpBar ==
    /\ task["up"].at = "bar"
    /\ \/ panes = <<>> /\ Fails("up")
       \/ panes # <<>> /\ Respawn(1, "bar") /\ side' = NoSide
          /\ task' = [task EXCEPT !["up"].at = "verify", !["up"].fix = NoTask.fix,
                                  !["bar"] = NoTask]
    /\ UNCHANGED <<draft, asks>>

\* Mutant: the panes are not counted.
VerifiedBar == panes # <<>> /\ panes[1].start = "bar"

\* verify_ui_runtime
Verified == Len(panes) = 2 /\ panes[1].start = "bar"

UpVerify ==
    /\ task["up"].at = "verify"
    /\ Stop("up")
    /\ asks' = [asks EXCEPT !.up = IF Verified THEN "ok" ELSE "failed"]
    /\ UNCHANGED <<panes, side, draft>>

-----------------------------------------------------------------------------
(* Faults: a pane's process ends (the window keeps the pane), or a user kills it *)

Breaks(i, to) ==
    /\ asks.breaks < MaxBreaks
    /\ panes' = to
    /\ asks' = [asks EXCEPT !.breaks = @ + 1, !.asked = "any", !.broke = "since"]
    /\ side' = NewSide(i) /\ task' = NewBar(i, task)
    /\ UNCHANGED draft

Dies(i)   == panes[i].at # "dead" /\ Breaks(i, [panes EXCEPT ![i].at = "dead"])
Killed(i) == Breaks(i, RemoveAt(panes, i))
SessionKilled == panes # <<>> /\ Breaks(1, <<>>)

-----------------------------------------------------------------------------
PanelInit ==
    /\ panes = <<Pane(1, "bar"), Pane(2, "attach")>>
    /\ task = [a \in Actor |-> NoTask]
    /\ side = NoSide
    /\ draft = FALSE
    /\ asks = [asked |-> "none", requests |-> 0, breaks |-> 0, broke |-> "no", up |-> "none"]

PanelNext ==
    \/ \E p \in Panel : KeyPress(p) \/ Click(p) \/ Escape(p)
    \/ ToggleNew \/ Dismiss \/ Close
    \/ \E a \in Actor : Restore(a) \/ Attach(a) \/ Repair(a) \/ Fix(a)
    \/ \E c \in Cmds : Own(c) \/ Others(c) \/ Spawn(c)
    \/ CloseProbe \/ Sync \/ GraceEnds \/ Autosave \/ Launch
    \/ Up \/ UpSidebar \/ UpNeeds \/ UpNew \/ UpSplit \/ UpEnsure \/ UpBar \/ UpVerify
    \/ \E i \in 1..Len(panes) : Dies(i) \/ Killed(i)
    \/ SessionKilled

PanelSpec == PanelInit /\ [][PanelNext]_panelVars

-----------------------------------------------------------------------------
(* Properties *)

\* Whatever opened and closed panels before, and from where, a request that
\* meets a window at rest leaves the workspace showing what it asked for:
\* the pane's start command still names a panel that was left long ago
\* (popups.rs workspace_pane_is_panel_mode).
PanelAsAsked == Quiet /\ asks.asked # "any" => Shown = asks.asked

\* When `sessions up` reports success and nothing broke meanwhile, the
\* window is a live sidebar and a second live pane, whatever panel commands ran
\* at the same time and whatever was missing or dead before, unless both
\* panes were there and dead (UpRepairsBoth).
UpLeavesUi ==
    [][asks.up = "none" /\ asks'.up = "ok" /\ asks.broke = "no" => Whole /\ BarUp]_panelVars

-----------------------------------------------------------------------------
(* Properties the code does not have; Panels_gaps.cfg shows how. *)

\* A click opens the panel whatever the sidebar's flag says.  After an Esc
\* inside the panel the flag is stale until the next probe, and the click
\* only clears it.
ClickNotLost ==
    [][\A p \in Panel \ {"new"} :
          Click(p) /\ Quiet /\ Whole /\ Shown = "none" => task'["bar"] = NoTask]_panelVars

\* A closed panel stays closed.  A close while the panel's command is still
\* on its way finds nothing to close, and the panel comes up after it.
CloseStays ==
    [][CloseProbe /\ task'["bar"] = NoTask => \A c \in Cmds : task[c].at # "spawn"]_panelVars

\* A panel whose pane died is opened by its key; a dead pane counts as open.
DeadPanelReopens ==
    [][\A c \in Cmds : Own(c) /\ task[c].op = "open" /\ task'[c] = NoTask
          => panes[2].at # "dead"]_panelVars

\* `sessions up` repairs whatever is broken when it starts.  A dead sidebar
\* is repaired instead of a dead workspace, and the check looks at neither.
UpRepairsBoth ==
    [][asks.up = "none" /\ asks'.up = "ok" /\ asks.broke # "since" => Whole]_panelVars

\* The second pane is the workspace.  The check only asks for two panes of
\* which the first is a sidebar, and after two repairs at once so may be the
\* second.
UpShowsWorkspace ==
    [][asks.up = "none" /\ asks'.up = "ok" => panes[2].start # "bar"]_panelVars

\* The window never has more than two panes.  Two processes that repair it
\* at once both split it.
TwoPanes == Len(panes) <= 2

\* A launched session leaves no draft of itself behind.
LaunchedDraftGone == [][Launch => ~draft']_panelVars
================================================================================
