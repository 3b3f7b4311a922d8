------------------------------- MODULE StateFile -------------------------------
(***************************************************************************)
(* How the daemon's rows get into sessionsd.json and back (daemon/         *)
(* persist.rs; persist_loop, flush_persist_if_dirty and the SIGTERM arm of *)
(* run_daemon in daemon/server.rs).                                        *)
(*                                                                         *)
(* A flush looks at the dirty flag, copies the rows and clears the flag    *)
(* under three separate locks, and writes the copy to a temporary file     *)
(* that it renames.  The loop flushes when a change has been left alone    *)
(* for a while; SIGTERM flushes once more, in the task that accepts        *)
(* connections, while the loop goes on.  Both use one temporary name.      *)
(*                                                                         *)
(* The rows are the number of the change that made them, 0 for none.       *)
(***************************************************************************)
EXTENDS Naturals, FiniteSets

CONSTANTS
    MaxChanges, \* bound: changes of the rows
    MaxFails,   \* bound: writes that fail
    MaxDeaths,  \* bound: daemons that stop or die
    Sigterm     \* whether a daemon is told to stop

ASSUME StateFileAssumption ==
    /\ MaxChanges \in Nat
    /\ MaxFails \in Nat
    /\ MaxDeaths \in Nat
    /\ Sigterm \in BOOLEAN

Task == {"loop", "shutdown"}

\* The file at the path, the one at the temporary name and one per task that
\* is open and has lost its name.
Inode == 1..4
NoFile == 0
Empty  == MaxChanges + 1  \* what File::create leaves; not valid JSON

VARIABLES
    up,       \* the daemon runs
    changes,  \* changes there were, of all daemons
    rows,     \* StateInner.sessions
    dirty,    \* StateInner.dirty
    stable,   \* rows that the loop saw at its last look (their version)
    pc,       \* what each task is about to do
    copy,     \* the rows it has copied
    open,     \* the file it has opened
    data,     \* what each file holds
    path,     \* sessionsd.json
    tmp,      \* sessionsd.tmp
    asked,    \* the rows when SIGTERM came
    fails, deaths

memory == <<rows, dirty>>
tasks  == <<stable, pc, copy, open>>
disk   == <<data, path, tmp>>
bounds == <<fails, deaths>>
vars   == <<up, changes, memory, tasks, disk, asked, bounds>>

NoSignal == Empty

Written == 0..MaxChanges
Whole == path # NoFile => data[path] # Empty

\* What load_state makes of the file.
Saved == IF path = NoFile \/ ~Whole THEN 0 ELSE data[path]

Init ==
    /\ up = TRUE
    /\ changes = 0
    /\ rows = 0
    /\ dirty = FALSE
    /\ stable = 0
    /\ pc = [t \in Task |-> "idle"]
    /\ copy = [t \in Task |-> 0]
    /\ open = [t \in Task |-> NoFile]
    /\ data = [i \in Inode |-> Empty]
    /\ path = NoFile
    /\ tmp = NoFile
    /\ asked = NoSignal
    /\ fails = 0
    /\ deaths = 0

Goto(t, label) == pc' = [pc EXCEPT ![t] = label]

\* A hook, a poll or a command changes the rows.
Change ==
    /\ up
    /\ changes < MaxChanges
    /\ changes' = changes + 1
    /\ rows' = changes + 1
    /\ dirty' = TRUE
    /\ UNCHANGED <<up, tasks, disk, asked, bounds>>

-----------------------------------------------------------------------------
(* When to flush                                                             *)

\* persist_loop: the rows are dirty, and their version is noted.
LoopWake ==
    /\ up
    /\ pc["loop"] = "idle"
    /\ dirty
    /\ stable' = rows
    /\ Goto("loop", "debounce")
    /\ UNCHANGED <<up, changes, memory, copy, open, disk, asked, bounds>>

\* After the pause it flushes if the version is the same, and waits again if
\* it is not.
LoopDebounced ==
    /\ up
    /\ pc["loop"] = "debounce"
    /\ stable' = rows
    /\ Goto("loop", CASE ~dirty -> "idle" [] rows = stable -> "check" [] OTHER -> "debounce")
    /\ UNCHANGED <<up, changes, memory, copy, open, disk, asked, bounds>>

\* SIGTERM.
Stop ==
    /\ Sigterm
    /\ up
    /\ deaths < MaxDeaths
    /\ asked = NoSignal
    /\ asked' = rows
    /\ Goto("shutdown", "check")
    /\ UNCHANGED <<up, changes, memory, stable, copy, open, disk, bounds>>

-----------------------------------------------------------------------------
(* flush_persist_if_dirty                                                    *)

At(t, label) == up /\ pc[t] = label

CheckDirty(t) ==
    /\ At(t, "check")
    /\ Goto(t, IF dirty THEN "read" ELSE "done")
    /\ UNCHANGED <<up, changes, memory, stable, copy, open, disk, asked, bounds>>

\* session_list.  The version that is read after it is written as well and
\* never used.
ReadRows(t) ==
    /\ At(t, "read")
    /\ copy' = [copy EXCEPT ![t] = rows]
    /\ Goto(t, "create")
    /\ UNCHANGED <<up, changes, memory, stable, open, disk, asked, bounds>>

Unused == Inode \ ({path, tmp} \cup {open[t] : t \in Task})

\* Mutant: the file itself is opened.
CreateTmpInPlace(t) ==
    /\ At(t, "create")
    /\ LET file == IF path = NoFile THEN CHOOSE i \in Unused : TRUE ELSE path IN
          /\ path' = file
          /\ tmp' = file
          /\ data' = [data EXCEPT ![file] = Empty]
          /\ open' = [open EXCEPT ![t] = file]
    /\ Goto(t, "write")
    /\ UNCHANGED <<up, changes, memory, stable, copy, asked, bounds>>

\* File::create makes the temporary file or empties the one there is.
CreateTmp(t) ==
    /\ At(t, "create")
    /\ LET file == IF tmp = NoFile THEN CHOOSE i \in Unused : TRUE ELSE tmp IN
          /\ tmp' = file
          /\ data' = [data EXCEPT ![file] = Empty]
          /\ open' = [open EXCEPT ![t] = file]
    /\ Goto(t, "write")
    /\ UNCHANGED <<up, changes, memory, stable, copy, path, asked, bounds>>

\* write_all and sync_all, to the file that was opened whatever its name.
WriteTmp(t) ==
    /\ At(t, "write")
    /\ data' = [data EXCEPT ![open[t]] = copy[t]]
    /\ open' = [open EXCEPT ![t] = NoFile]
    /\ Goto(t, "rename")
    /\ UNCHANGED <<up, changes, memory, stable, copy, path, tmp, asked, bounds>>

\* Of the temporary name, which may be gone by now.
Rename(t) ==
    /\ At(t, "rename")
    /\ path' = IF tmp = NoFile THEN path ELSE tmp
    /\ tmp' = NoFile
    /\ Goto(t, IF tmp = NoFile THEN "done" ELSE "clear")
    /\ UNCHANGED <<up, changes, memory, stable, copy, open, data, asked, bounds>>

\* Mutant: a write that fails leaves the rows clean.
WriteFailsClean(t) ==
    /\ up
    /\ pc[t] \in {"create", "write", "rename"}
    /\ fails < MaxFails
    /\ fails' = fails + 1
    /\ open' = [open EXCEPT ![t] = NoFile]
    /\ Goto(t, "clear")
    /\ UNCHANGED <<up, changes, memory, stable, copy, disk, asked, deaths>>

\* A write that fails is logged; the rows stay dirty.
WriteFails(t) ==
    /\ up
    /\ pc[t] \in {"create", "write", "rename"}
    /\ fails < MaxFails
    /\ fails' = fails + 1
    /\ open' = [open EXCEPT ![t] = NoFile]
    /\ Goto(t, "done")
    /\ UNCHANGED <<up, changes, memory, stable, copy, disk, asked, deaths>>

\* clear_dirty, after the rows may have changed again.
ClearDirty(t) ==
    /\ At(t, "clear")
    /\ dirty' = FALSE
    /\ Goto(t, "done")
    /\ UNCHANGED <<up, changes, rows, stable, copy, open, disk, asked, bounds>>

LoopAgain ==
    /\ At("loop", "done")
    /\ Goto("loop", "idle")
    /\ UNCHANGED <<up, changes, memory, stable, copy, open, disk, asked, bounds>>

-----------------------------------------------------------------------------
(* The end of a daemon and the next one                                      *)

Gone ==
    /\ up' = FALSE
    /\ deaths' = deaths + 1
    /\ pc' = [t \in Task |-> "idle"]
    /\ copy' = [t \in Task |-> 0]
    /\ open' = [t \in Task |-> NoFile]
    /\ stable' = 0
    /\ rows' = 0
    /\ dirty' = FALSE
    /\ UNCHANGED <<changes, disk, fails>>

\* run_daemon returns, and the loop goes with it wherever it is.
Exit ==
    /\ At("shutdown", "done")
    /\ Gone
    /\ UNCHANGED asked

Crash ==
    /\ up
    /\ deaths < MaxDeaths
    /\ asked = NoSignal
    /\ Gone
    /\ UNCHANGED asked

\* load_state: a file that is no JSON gets another name, and there are no rows.
Restart ==
    /\ ~up
    /\ up' = TRUE
    /\ asked' = NoSignal
    /\ rows' = Saved
    /\ path' = IF Whole THEN path ELSE NoFile
    /\ UNCHANGED <<changes, dirty, tasks, data, tmp, bounds>>

-----------------------------------------------------------------------------

Flush(t) ==
    \/ CheckDirty(t) \/ ReadRows(t) \/ CreateTmp(t) \/ WriteTmp(t)
    \/ Rename(t) \/ WriteFails(t) \/ ClearDirty(t)

LoopStep == LoopWake \/ LoopDebounced \/ LoopAgain \/ Flush("loop")

Next ==
    \/ Change
    \/ LoopStep
    \/ Stop
    \/ Flush("shutdown")
    \/ Exit
    \/ Crash
    \/ Restart

Spec == Init /\ [][Next]_vars

\* The task persist_loop runs.
FairSpec == Spec /\ WF_vars(LoopStep)

-----------------------------------------------------------------------------
(* Properties                                                                *)

\* Every variable keeps its type; four files are enough, and no file has both
\* names.
TypeOK ==
    /\ up \in BOOLEAN
    /\ changes \in Written /\ rows \in Written /\ stable \in Written
    /\ dirty \in BOOLEAN
    /\ pc \in [Task -> {"idle", "debounce", "check", "read", "create", "write", "rename",
                        "clear", "done"}]
    /\ copy \in [Task -> Written]
    /\ open \in [Task -> Inode \cup {NoFile}]
    /\ data \in [Inode -> Written \cup {Empty}]
    /\ path \in Inode \cup {NoFile} /\ tmp \in Inode \cup {NoFile}
    /\ path = tmp => path = NoFile
    /\ asked \in Written \cup {NoSignal}
    /\ fails \in 0..MaxFails /\ deaths \in Nat

\* Until a daemon is told to stop, sessionsd.json is whole at every step, so a
\* daemon that dies anywhere leaves a file the next one can read.
FileWhole == asked = NoSignal => Whole

\* A flush that has succeeded leaves on disk the rows it copied or, while only
\* the loop writes, never older ones than were there: what is lost by clearing
\* the flag late is never more than what changed after the copy.
SavedNeverOlder ==
    [][asked = NoSignal /\ asked' = NoSignal /\ up /\ up' => Saved' >= Saved]_vars

\* What changed while the loop was not flushing reaches the disk, also after
\* failed writes, unless the daemon goes or is told to stop first.
EventuallySaved ==
    \A v \in 1..MaxChanges :
       (up /\ rows = v /\ dirty /\ pc["loop"] \in {"idle", "debounce"})
          ~> (Saved >= v \/ ~up \/ asked # NoSignal)

\* Rows that are marked clean are in the file: not those that changed between
\* the copy and the clear (server.rs:334).
CleanIsSaved == up /\ ~dirty /\ Whole => Saved = rows

\* What run_daemon logs when SIGTERM arrives: "flushing sessionsd.json".  When
\* the daemon is gone the file holds the rows of that moment, or later ones.
SigtermSaves == ~up /\ asked # NoSignal => Whole /\ Saved >= asked
===============================================================================
