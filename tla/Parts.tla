--------------------------------- MODULE Parts ---------------------------------
(***************************************************************************)
(* Parts of the system that share no state, checked in one run: the        *)
(* session list and the notes of a sidebar, the MCP panels, the window that *)
(* shows them, the logs of the agents.  A behaviour is one of a single     *)
(* part, and the variables of the other parts keep a value that says       *)
(* nothing.                                                                *)
(***************************************************************************)
EXTENDS Naturals, Sequences, FiniteSets

CONSTANTS
    NumSessions, NumDirs, MaxAt, Cap, NumTitles, MaxEvents, MaxInputs, \* SidebarList
    Key, Agents, Panels, MaxUrl, MaxChanges, MaxKeys,       \* McpSync
    Tools, Pollers, Second, TailLines, MaxTurns, MaxWork, MaxNow, \* AgentLogs
    MaxNotes, MaxEdits, MaxKills, MaxFaults,                \* Notepad
    MaxRequests, MaxBreaks                                  \* Panels

\* A note's number is a natural number.
ASSUME PartsAssumption == MaxNotes \in Nat

VARIABLES
    part,                                    \* the part this behaviour is of
    list,                                    \* SidebarList
    files, quoted, obot, stored, panel, quiet, count, \* McpSync
    tool, log, torn, split, now, cache, poll, said, \* AgentLogs
    mem, disk, todo, past,                   \* Notepad
    panes, task, side, draft, asks           \* Panels

List  == INSTANCE SidebarList WITH bar <- list
Mcps  == INSTANCE McpSync
Logs  == INSTANCE AgentLogs
Notes == INSTANCE Notepad
Ui    == INSTANCE Panels

listVars == list
mcpVars  == <<files, quoted, obot, stored, panel, quiet, count>>
logVars  == <<tool, log, torn, split, now, cache, poll, said>>
padVars  == <<mem, disk, todo, past>>
uiVars   == <<panes, task, side, draft, asks>>
partsVars == <<part, listVars, mcpVars, logVars, padVars, uiVars>>

PartsInit ==
    /\ part \in {"list", "mcps", "logs", "notes", "window"}
    /\ part # "mcps" =>
          /\ files = [a \in Agents |-> [whole |-> TRUE, odd |-> FALSE, map |-> [k \in Key |-> Mcps!NoEntry]]]
          /\ quoted = {}
          /\ obot = [up |-> FALSE, urls |-> [k \in Key |-> 0]]
    /\ Mcps!Init
    /\ List!Init
    /\ part # "list" => list.scene = "focus" /\ list.ssn = 0
    /\ Logs!LogInit
    /\ part # "logs" => tool = "codex"
    /\ Notes!PadInit
    /\ Ui!PanelInit

PartsNext ==
    /\ UNCHANGED part
    /\ \/ part = "list" /\ UNCHANGED <<mcpVars, logVars, padVars, uiVars>> /\ List!Next
       \/ part = "mcps" /\ UNCHANGED <<listVars, logVars, padVars, uiVars>> /\ Mcps!Next
       \/ part = "logs" /\ UNCHANGED <<listVars, mcpVars, padVars, uiVars>> /\ Logs!LogNext
       \/ part = "notes" /\ UNCHANGED <<listVars, mcpVars, logVars, uiVars>> /\ Notes!PadNext
       \/ part = "window" /\ UNCHANGED <<listVars, mcpVars, logVars, padVars>> /\ Ui!PanelNext

PartsSpec == PartsInit /\ [][PartsNext]_partsVars

-----------------------------------------------------------------------------
(* Properties; the modules say what they are about. *)

\* Every state of the part that runs is well typed.
PartsTypeOK ==
    /\ part = "list" => List!TypeOK
    /\ part = "mcps" => Mcps!TypeOK
    /\ part = "logs" => Logs!LogTypeOK
    /\ part = "notes" => Notes!PadTypeOK
    /\ part = "window" => Ui!PanelTypeOK

\* No daemon event moves the highlight off a session a user is browsing, and
\* no late snapshot takes the focus back from the session just opened.
ChoiceHolds == List!ChoiceHolds

\* The highlight and the close target stay on rows that keys can act on.
IndicesHitRows == part = "list" => List!IndicesHitRows

\* A sync leaves the agents with what the panel showed, and no drift, and
\* changes only the entries it was asked to.
SyncAsShown == Mcps!SyncAsShown

\* A poll says of an agent's turn what its log says.
ReportsAreTrue == part = "logs" => Logs!ReportsAreTrue

\* No note and no keystroke is lost when a sidebar is killed.
NotesOnDisk == part = "notes" => Notes!NotesOnDisk

\* A panel is shown when it was asked for, and not when it was closed.
PanelAsAsked == part = "window" => Ui!PanelAsAsked

\* After a successful `sessions up` the window has its two live panes, if not
\* both were there and dead when it began.
UpLeavesUi == Ui!UpLeavesUi
================================================================================
