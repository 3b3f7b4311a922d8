------------------------- MODULE AutomationRunsProof -------------------------
(***************************************************************************)
(* For any number of runs, slots and faults: the variables keep their      *)
(* types, the scheduler launches one run for a slot, and no run gets a     *)
(* verdict without its cause.                                              *)
(*                                                                         *)
(* Neither holds by a look at the file alone.  Between a launch and the    *)
(* save of last_fired_at the slot is still due for everyone who reads      *)
(* state.json; what saves it is that the scheduler is the only one who     *)
(* asks, and is itself in between.  And a verdict is saved some steps      *)
(* after what it was read from, so its cause has to outlive those steps.   *)
(***************************************************************************)
EXTENDS AutomationRuns, TLAPS

Process  == [pc : Pc, run : Run, copy : Fired, mark : RunStatus]
TickType == [listed : BOOLEAN, live : SUBSET Run, born : SUBSET Run, plan : [Run -> Plan]]

RunsType ==
    /\ definition \in {"active", "paused", "none"}
    /\ runs \in [Run -> RunStatus]
    /\ state \in Fired
    /\ proc \in [Proc -> Process]
    /\ tick \in TickType
    /\ slot \in 0..MaxSlots
    /\ win \in [Run -> Window]
    /\ ended \in [Run -> BOOLEAN]
    /\ known \in [Run -> BOOLEAN]
    /\ aged \in [Run -> BOOLEAN]
    /\ for \in [Run -> 0..Never]
    /\ torn \in BOOLEAN
    /\ count \in [runs : 0..MaxRuns, faults : 0..MaxFaults]

\* A process with a run of its own in hand.
Firing(p) == proc[p].pc \in {"launch", "save_failed", "save_running", "fired_save"}

\* Runs are numbered as they are fired; one has a window from its launch on, and
\* the slot it was fired for tells whose it is.
RunsPlaced ==
    /\ \A r \in Run : r > count.runs => win[r] = "none" /\ for[r] = Never
    /\ \A r \in Run : for[r] = Never \/ for[r] <= slot
    /\ \A r \in Run : runs[r] = "running" => win[r] # "none"

ProcPlaced(p) ==
    /\ Firing(p) =>
          /\ proc[p].run <= count.runs
          /\ (win[proc[p].run] = "none") <=> (proc[p].pc \in {"launch", "save_failed"})
          /\ (for[proc[p].run] = Never) <=> (p = "command")
    /\ proc[p].pc = "idle" => proc[p] = IdleProc
    /\ proc[p].pc = "mark_save" =>
          /\ proc[p].mark \in {"pending", "running"}
          /\ proc[p].mark = "running" => win[proc[p].run] # "none"

ProcsPlaced == \A p \in Proc : ProcPlaced(p)

\* The run the scheduler has launched and not recorded yet.
Unrecorded(r) == proc["scheduler"].pc \in {"save_running", "fired_save"} /\ proc["scheduler"].run = r

Launched(r) == win[r] # "none" /\ for[r] # Never

\* last_fired_at covers every slot the scheduler launched a run for, but the one
\* it is at, and that is later than all of them.
SlotsRecorded ==
    ~torn =>
       /\ state <= slot
       /\ \A r \in Run : Launched(r) /\ ~Unrecorded(r) => for[r] <= state
       /\ \A r \in Run :
             Launched(r) /\ proc["scheduler"].pc \in {"launch", "save_running", "fired_save"}
                         /\ r # proc["scheduler"].run => for[r] < for[proc["scheduler"].run]

Past(fired)    == fired <= slot \/ fired = Never
Covered(fired) == \A n \in 1..slot : fired \in n..MaxSlots => answered >= n \/ n \in missed

\* The cause of a planned verdict stands until the verdict is saved.
CausesStand ==
    /\ tick.live \subseteq tick.born
    /\ \A r \in Run : (known[r] => ended[r]) /\ (ended[r] => win[r] # "none")
    /\ proc["scheduler"].pc = "list_runs" =>
          \A r \in tick.born \ tick.live : win[r] = "gone" \/ ~tick.listed
    /\ \A r \in Run : tick.plan[r] = "done" => ended[r] /\ (win[r] = "live" => known[r])
    /\ \A r \in Run : tick.plan[r] = "failed" =>
          aged[r] \/ win[r] = "gone" \/ ended[r] \/ r \notin tick.born \/ ~tick.listed

\* What last_fired_at, or a copy of it that may still be saved, covers has been
\* answered by a launch or passed in the middle of one; so will what a launch
\* that is not recorded yet is about to cover.
HistoryPlaced ==
    /\ answered \in 0..slot /\ missed \subseteq 1..slot
    /\ Past(state) /\ Covered(state)
    /\ \A p \in Proc : Past(proc[p].copy) /\ Covered(proc[p].copy)
    /\ \A p \in Proc : proc[p].pc \in {"save_running", "fired_save"} => Covered(slot)

RunsInv ==
    RunsType /\ RunsPlaced /\ ProcsPlaced /\ SlotsRecorded /\ SlotFiredOnce /\ CausesStand

-----------------------------------------------------------------------------

LEMMA Bounds ==
  /\ MaxRuns \in Nat \ {0} /\ MaxSlots \in Nat /\ MaxFaults \in Nat
  /\ Never \in Nat /\ Never = MaxSlots + 1
  /\ 1 \in Run /\ Run \subseteq Nat /\ 0..MaxSlots \subseteq Fired /\ Never \in Fired
  /\ IdleProc \in Process /\ IdleProc.pc = "idle"
  /\ "scheduler" \in Proc /\ "command" \in Proc
  /\ NoTick \in TickType
  /\ NoTick.live = {} /\ NoTick.born = {} /\ \A r \in Run : NoTick.plan[r] = "keep"
<1>1. /\ MaxRuns \in Nat \ {0} /\ MaxSlots \in Nat /\ MaxFaults \in Nat
      /\ Never \in Nat /\ Never = MaxSlots + 1
      /\ 1 \in Run /\ Run \subseteq Nat /\ 0..MaxSlots \subseteq Fired /\ Never \in Fired
  BY AutomationRunsAssumption DEF Run, Never, Fired
<1>2. IdleProc \in Process /\ IdleProc.pc = "idle"
  BY <1>1 DEF IdleProc, Process, Pc, RunStatus
<1> QED BY <1>1, <1>2 DEF Proc, NoTick, Plan, TickType

\* Where a step leaves the processes.
LEMMA GoesTo ==
  ASSUME proc \in [Proc -> Process], NEW p \in Proc, NEW pc \in Pc, Goto(p, pc)
  PROVE  /\ proc' \in [Proc -> Process]
         /\ proc'[p].pc = pc /\ proc'[p].run = proc[p].run /\ proc'[p].copy = proc[p].copy
         /\ proc'[p].mark = proc[p].mark
         /\ \A q \in Proc \ {p} : proc'[q] = proc[q]
<1> DEFINE x == [proc[p] EXCEPT !.pc = pc]
<1>1. proc[p] \in Process
  OBVIOUS
<1>2. x \in Process /\ x.pc = pc /\ x.run = proc[p].run /\ x.copy = proc[p].copy /\ x.mark = proc[p].mark
  BY <1>1 DEF Process
<1>3. proc' = [proc EXCEPT ![p] = x]
  BY DEF Goto
<1> HIDE DEF x
<1> QED BY <1>2, <1>3

LEMMA LoadsState ==
  ASSUME RunsType, NEW p \in Proc, NEW pc \in Pc,
         proc' = [proc EXCEPT ![p].pc = pc, ![p].copy = state]
  PROVE  /\ proc' \in [Proc -> Process]
         /\ proc'[p].pc = pc
         /\ \A q \in Proc \ {p} : proc'[q] = proc[q]
<1> DEFINE y == [proc[p] EXCEPT !.pc = pc]
           x == [y EXCEPT !.copy = state]
<1>1. proc[p] \in Process /\ state \in Fired
  BY DEF RunsType
<1>2. y \in Process /\ y.pc = pc
  BY <1>1 DEF Process
<1>3. x \in Process /\ x.pc = pc
  BY <1>1, <1>2 DEF Process
<1>4. proc' = [proc EXCEPT ![p] = x]
  OBVIOUS
<1> HIDE DEF x
<1>5. proc \in [Proc -> Process]
  BY DEF RunsType
<1> QED BY <1>3, <1>4, <1>5

LEMMA EndsIdle ==
  ASSUME proc \in [Proc -> Process], NEW p \in Proc, Ends(p)
  PROVE  /\ proc' \in [Proc -> Process]
         /\ proc'[p] = IdleProc /\ proc'[p].pc = "idle"
         /\ \A q \in Proc \ {p} : proc'[q] = proc[q]
  BY Bounds DEF Ends

LEMMA FaultCounts ==
  ASSUME RunsType, Fault
  PROVE  count' \in [runs : 0..MaxRuns, faults : 0..MaxFaults] /\ count'.runs = count.runs
  BY Bounds DEF RunsType, Fault

\* A process is placed as before when nothing of its own run has changed.
LEMMA OthersPlaced ==
  ASSUME NEW q \in Proc, ProcPlaced(q), RunsType, RunsType', RunsPlaced, proc'[q] = proc[q],
         count.runs <= count'.runs, \A r \in Run : for'[r] = for[r] \/ r > count.runs,
         (win'[proc[q].run] = "none" <=> win[proc[q].run] = "none")
           \/ (win[proc[q].run] = "none" /\ ~Firing(q))
  PROVE  ProcPlaced(q)'
<1>1. proc[q].run \in Run /\ proc[q].run \in Nat /\ count.runs \in Nat /\ count'.runs \in Nat
  <2>1. proc[q].run \in Run
    BY DEF RunsType, Process
  <2>2. count.runs \in 0..MaxRuns /\ count'.runs \in 0..MaxRuns
    BY DEF RunsType
  <2> QED BY <2>1, <2>2, AutomationRunsAssumption DEF Run
<1>2. Firing(q)' <=> Firing(q)
  BY DEF Firing
<1>3. Firing(q) => for'[proc[q].run] = for[proc[q].run]
  BY <1>1 DEF ProcPlaced
<1> QED BY <1>1, <1>2, <1>3 DEF ProcPlaced

LEMMA RunsInit ==
  ASSUME Init
  PROVE  RunsInv
<1> USE Bounds DEF Init
<1>1. RunsType
  <2>1. count \in [runs : 0..MaxRuns, faults : 0..MaxFaults] /\ tick = NoTick
    OBVIOUS
  <2>2. state \in Fired /\ slot \in 0..MaxSlots /\ proc \in [Proc -> Process] /\ for \in [Run -> 0..Never]
    OBVIOUS
  <2> QED BY <2>1, <2>2 DEF RunsType, RunStatus, Window
<1>2. RunsPlaced /\ ProcsPlaced
  BY DEF RunsPlaced, ProcsPlaced, ProcPlaced, Firing
<1>3. SlotsRecorded /\ SlotFiredOnce /\ CausesStand
  BY DEF SlotsRecorded, SlotFiredOnce, CausesStand, Launched
<1> QED BY <1>1, <1>2, <1>3 DEF RunsInv

-----------------------------------------------------------------------------
(* fire_automation                                                           *)

LEMMA LaunchKeeps ==
  ASSUME RunsInv, NEW p \in Proc, Launch(p)
  PROVE  RunsInv'
<1> USE Bounds DEF RunsInv, ProcsPlaced
<1> DEFINE r == proc[p].run
<1>1. /\ proc[p].pc = "launch" /\ Firing(p) /\ r \in Run /\ r <= count.runs /\ win[r] = "none"
      /\ for[r] = Never <=> p = "command"
      /\ UNCHANGED <<definition, runs, state, tick, slot, aged, ended, known, for, torn>>
  BY DEF Launch, Firing, ProcPlaced, RunsType, Process, files, clock, history
<1>2. CASE win' = [win EXCEPT ![r] = "live"] /\ Goto(p, "save_running") /\ UNCHANGED count
  <2>1. /\ proc' \in [Proc -> Process] /\ proc'[p].pc = "save_running" /\ proc'[p].run = r
        /\ \A q \in Proc \ {p} : proc'[q] = proc[q]
    BY <1>2, GoesTo DEF RunsType, Pc
  <2>2. /\ win' \in [Run -> Window] /\ win'[r] = "live" /\ \A q \in Run \ {r} : win'[q] = win[q]
    BY <1>1, <1>2 DEF RunsType, Window
  <2>3. RunsType'
    BY <1>1, <1>2, <2>1, <2>2 DEF RunsType
  <2>4. RunsPlaced' /\ ProcsPlaced'
    <3>1. ProcPlaced(p)'
      BY <1>1, <1>2, <2>1, <2>2 DEF ProcPlaced, Firing
    <3>2. ASSUME NEW q \in Proc \ {p} PROVE ProcPlaced(q)'
      <4>1. proc[q].run \in Run
        BY DEF RunsType, Process
      <4>2. Firing(q) => proc[q].run # r
        BY <1>1 DEF ProcPlaced, Proc
      <4> QED BY <1>1, <1>2, <2>1, <2>2, <2>3, <4>1, <4>2, OthersPlaced DEF RunsType
    <3>3. RunsPlaced'
      <4>1. count.runs \in Nat
        BY DEF RunsType
      <4>2. \A q \in Run : q > count.runs => q # r
        <5>1. r \in Nat /\ r <= count.runs
          BY <1>1
        <5> HIDE DEF r
        <5>2. ASSUME NEW q \in Nat, q > count.runs PROVE q # r
          BY <4>1, <5>1, <5>2
        <5> QED BY <5>2
      <4> QED BY <1>1, <1>2, <2>2, <4>2 DEF RunsPlaced
    <3> QED BY <3>1, <3>2, <3>3
  <2>5. SlotsRecorded' /\ SlotFiredOnce'
    <3>1. CASE p = "command"
      <4>1. \A q \in Run : Launched(q)' <=> Launched(q)
        BY <1>1, <2>2, <3>1 DEF Launched
      <4>2. proc'["scheduler"] = proc["scheduler"]
        BY <2>1, <3>1
      <4>3. SlotsRecorded'
        BY <1>1, <4>1, <4>2 DEF SlotsRecorded, Unrecorded
      <4> QED BY <1>1, <4>1, <4>3 DEF SlotFiredOnce, Launched
    <3>2. CASE p = "scheduler"
      <4>1. \A q \in Run \ {r} : Launched(q)' <=> Launched(q)
        BY <1>1, <2>2 DEF Launched
      <4>2. \A q \in Run : Unrecorded(q)' <=> q = r
        BY <1>1, <2>1, <3>2 DEF Unrecorded
      <4>3. SlotsRecorded'
        BY <1>1, <2>1, <3>2, <4>1, <4>2 DEF SlotsRecorded, Unrecorded
      <4>4. ~torn => \A q \in Run \ {r} : Launched(q) => for[q] < for[r]
        BY <1>1, <3>2 DEF SlotsRecorded
      <4>5. \A q \in Run : for[q] \in Nat
        BY DEF RunsType
      <4>6. SlotFiredOnce'
        BY <1>1, <2>2, <4>1, <4>4, <4>5 DEF SlotFiredOnce, Launched
      <4> QED BY <4>3, <4>6
    <3> QED BY <3>1, <3>2 DEF Proc
  <2>6. CausesStand'
    <3>1. proc["scheduler"].pc = "list_runs" <=> proc'["scheduler"].pc = "list_runs"
      BY <1>1, <2>1
    <3>2. ~ended[r] /\ tick.plan[r] # "done"
      BY <1>1 DEF CausesStand
    <3>3. \A q \in Run : win[q] = "gone" => win'[q] = "gone"
      BY <1>1, <2>2
    <3>4. \A q \in Run : (known'[q] => ended'[q]) /\ (ended'[q] => win'[q] # "none")
      BY <1>1, <2>2 DEF CausesStand
    <3>5. \A q \in Run : tick'.plan[q] = "done" => ended'[q] /\ (win'[q] = "live" => known'[q])
      BY <1>1, <2>2, <3>2 DEF CausesStand
    <3> QED BY <1>1, <3>1, <3>3, <3>4, <3>5 DEF CausesStand, RunsType, TickType
  <2> QED BY <2>3, <2>4, <2>5, <2>6
<1>3. CASE Fault /\ Goto(p, "save_failed") /\ UNCHANGED win
  <2>1. /\ proc' \in [Proc -> Process] /\ proc'[p].pc = "save_failed" /\ proc'[p].run = r
        /\ \A q \in Proc \ {p} : proc'[q] = proc[q]
    BY <1>3, GoesTo DEF RunsType, Pc
  <2>2. RunsType' /\ count'.runs = count.runs /\ count.runs \in Nat
    BY <1>1, <1>3, <2>1, FaultCounts DEF RunsType
  <2>3. RunsPlaced' /\ ProcPlaced(p)'
    BY <1>1, <1>3, <2>1, <2>2 DEF RunsPlaced, ProcPlaced, Firing
  <2>4. ASSUME NEW q \in Proc \ {p} PROVE ProcPlaced(q)'
    BY <1>1, <1>3, <2>1, <2>2, OthersPlaced
  <2>5. SlotsRecorded' /\ SlotFiredOnce'
    BY <1>1, <1>3, <2>1 DEF SlotsRecorded, SlotFiredOnce, Launched, Unrecorded
  <2>6. CausesStand'
    BY <1>1, <1>3, <2>1 DEF CausesStand
  <2> QED BY <2>2, <2>3, <2>4, <2>5, <2>6
<1> QED BY <1>2, <1>3 DEF Launch

\* A step of process p inside a firing that leaves the runs' windows alone.
LEMMA FiringGoesOn ==
  ASSUME RunsInv, RunsType', NEW p \in Proc, Firing(p),
         \A q \in Proc \ {p} : proc'[q] = proc[q],
         \/ proc'[p] = IdleProc
         \/ /\ proc'[p].pc = "fired_save" /\ proc[p].pc = "save_running"
            /\ proc'[p].run = proc[p].run
         \/ proc'[p].pc = "bump_save",
         UNCHANGED <<slot, win, for, count>>
  PROVE  ProcsPlaced'
<1> USE DEF RunsInv, ProcsPlaced
<1>1. ProcPlaced(p)'
  BY Bounds DEF ProcPlaced, Firing
<1>2. ASSUME NEW q \in Proc \ {p} PROVE ProcPlaced(q)'
  <2>1. count.runs \in Nat
    BY Bounds DEF RunsType
  <2> QED BY <2>1, OthersPlaced
<1> QED BY <1>1, <1>2

LEMMA SaveFailedRunKeeps ==
  ASSUME RunsInv, NEW p \in Proc, SaveFailedRun(p)
  PROVE  RunsInv'
<1> USE Bounds DEF RunsInv
<1> DEFINE r == proc[p].run
<1>1. /\ proc[p].pc = "save_failed" /\ Firing(p) /\ r \in Run /\ win[r] = "none"
      /\ runs' = [runs EXCEPT ![r] = "failed"]
      /\ UNCHANGED <<definition, state, tick, slot, aged, win, ended, known, for, torn, count>>
  BY DEF SaveFailedRun, SaveRun, Firing, ProcsPlaced, ProcPlaced, RunsType, Process, clock, world, history
<1>2. /\ proc' \in [Proc -> Process] /\ proc'[p].pc = "bump_save"
      /\ \A q \in Proc \ {p} : proc'[q] = proc[q]
  BY LoadsState DEF SaveFailedRun, Pc
<1>3. RunsType'
  BY <1>1, <1>2 DEF RunsType, RunStatus
<1>4. ProcsPlaced'
  BY <1>1, <1>2, <1>3, FiringGoesOn
<1>5. RunsPlaced'
  BY <1>1 DEF RunsPlaced, RunsType
<1>6. SlotsRecorded'
  BY <1>1, <1>2 DEF SlotsRecorded, Launched, Unrecorded
<1>7. SlotFiredOnce'
  BY <1>1 DEF SlotFiredOnce
<1>8. CausesStand'
  <2>1. proc["scheduler"].pc = "list_runs" <=> proc'["scheduler"].pc = "list_runs"
    BY <1>1, <1>2
  <2> QED BY <1>1, <2>1 DEF CausesStand
<1> QED BY <1>3, <1>4, <1>5, <1>6, <1>7, <1>8

LEMMA SaveRunningKeeps ==
  ASSUME RunsInv, NEW p \in Proc, SaveRunning(p)
  PROVE  RunsInv'
<1> USE Bounds DEF RunsInv
<1> DEFINE r == proc[p].run
<1>1. /\ proc[p].pc = "save_running" /\ Firing(p) /\ r \in Run /\ win[r] # "none"
      /\ runs' = [runs EXCEPT ![r] = "running"]
      /\ UNCHANGED <<definition, state, tick, slot, aged, win, ended, known, for, torn, count>>
  BY DEF SaveRunning, SaveRun, Firing, ProcsPlaced, ProcPlaced, RunsType, Process, clock, world, history
<1>2. /\ proc' \in [Proc -> Process] /\ proc'[p].pc = "fired_save" /\ proc'[p].run = r
      /\ \A q \in Proc \ {p} : proc'[q] = proc[q]
  BY GoesTo DEF SaveRunning, RunsType, Pc
<1>3. RunsType'
  BY <1>1, <1>2 DEF RunsType, RunStatus
<1>4. ProcsPlaced'
  BY <1>1, <1>2, <1>3, FiringGoesOn
<1>5. RunsPlaced'
  BY <1>1 DEF RunsPlaced, RunsType
<1>6. SlotsRecorded'
  BY <1>1, <1>2 DEF SlotsRecorded, Launched, Unrecorded
<1>7. SlotFiredOnce'
  BY <1>1 DEF SlotFiredOnce
<1>8. CausesStand'
  <2>1. proc["scheduler"].pc = "list_runs" <=> proc'["scheduler"].pc = "list_runs"
    BY <1>1, <1>2
  <2> QED BY <1>1, <2>1 DEF CausesStand
<1> QED BY <1>3, <1>4, <1>5, <1>6, <1>7, <1>8

\* A copy that is saved is what the file has, or the history says so.
LEMMA BumpFailureStateKeeps ==
  ASSUME RunsInv, NEW p \in Proc, BumpFailureState(p)
  PROVE  RunsInv'
<1> USE Bounds DEF RunsInv
<1>1. /\ proc[p].pc = "bump_save" /\ proc[p] \in Process /\ state' = proc[p].copy
      /\ torn' = (torn \/ state # proc[p].copy)
      /\ UNCHANGED <<definition, runs, tick, slot, aged, win, ended, known, for, count>>
  BY DEF BumpFailureState, SaveCopy, RunsType, clock, world
<1>2. /\ proc' \in [Proc -> Process] /\ proc'[p] = IdleProc /\ proc'[p].pc = "idle"
      /\ \A q \in Proc \ {p} : proc'[q] = proc[q]
  BY EndsIdle DEF BumpFailureState, RunsType
<1>3. RunsType'
  BY <1>1, <1>2 DEF RunsType, Process
<1>4. ProcsPlaced'
  <2>1. ProcPlaced(p)'
    BY <1>2 DEF ProcPlaced, Firing
  <2>2. count.runs \in Nat
    BY DEF RunsType
  <2>3. ASSUME NEW q \in Proc \ {p} PROVE ProcPlaced(q)'
    BY <1>1, <1>2, <1>3, <2>2, OthersPlaced DEF ProcsPlaced
  <2> QED BY <2>1, <2>3 DEF ProcsPlaced
<1>5. RunsPlaced'
  BY <1>1 DEF RunsPlaced
<1>6. SlotsRecorded'
  <2>1. ~torn' => state' = state /\ ~torn
    BY <1>1
  <2>2. \A r \in Run : Launched(r)' <=> Launched(r)
    BY <1>1 DEF Launched
  <2>3. \A r \in Run : Unrecorded(r)' <=> Unrecorded(r)
    BY <1>1, <1>2 DEF Unrecorded
  <2> QED BY <1>1, <1>2, <2>1, <2>2, <2>3 DEF SlotsRecorded
<1>7. SlotFiredOnce'
  BY <1>1 DEF SlotFiredOnce
<1>8. CausesStand'
  <2>1. proc["scheduler"].pc = "list_runs" <=> proc'["scheduler"].pc = "list_runs"
    BY <1>1, <1>2
  <2> QED BY <1>1, <2>1 DEF CausesStand
<1> QED BY <1>3, <1>4, <1>5, <1>6, <1>7, <1>8

\* The launch is covered from here on.
LEMMA RecordFiredKeeps ==
  ASSUME RunsInv, NEW p \in Proc, RecordFired(p)
  PROVE  RunsInv'
<1> USE Bounds DEF RunsInv
<1>1. /\ proc[p].pc = "fired_save" /\ Firing(p)
      /\ UNCHANGED <<definition, runs, tick, slot, aged, win, ended, known, for>>
      /\ (state' = slot /\ torn' = torn) \/ (state' = state /\ torn' = TRUE)
  BY DEF RecordFired, Firing, clock, world
<1>2. /\ proc' \in [Proc -> Process] /\ proc'[p] = IdleProc /\ proc'[p].pc = "idle"
      /\ \A q \in Proc \ {p} : proc'[q] = proc[q]
  BY EndsIdle DEF RecordFired, RunsType
<1>3. count' \in [runs : 0..MaxRuns, faults : 0..MaxFaults] /\ count'.runs = count.runs
  BY FaultCounts DEF RecordFired, RunsType
<1>4. RunsType'
  BY <1>1, <1>2, <1>3 DEF RunsType
<1>5. ProcsPlaced'
  <2>1. ProcPlaced(p)'
    BY <1>2 DEF ProcPlaced, Firing
  <2>2. count.runs \in Nat
    BY DEF RunsType
  <2>3. ASSUME NEW q \in Proc \ {p} PROVE ProcPlaced(q)'
    BY <1>1, <1>2, <1>3, <1>4, <2>2, OthersPlaced DEF ProcsPlaced
  <2> QED BY <2>1, <2>3 DEF ProcsPlaced
<1>6. RunsPlaced'
  BY <1>1, <1>3 DEF RunsPlaced
<1>7. SlotsRecorded'
  <2>1. \A r \in Run : Launched(r)' <=> Launched(r)
    BY <1>1 DEF Launched
  <2>2. \A r \in Run : for'[r] = for[r] /\ for[r] \in Nat /\ (Launched(r) => for[r] <= slot)
    BY <1>1 DEF Launched, RunsPlaced, RunsType
  <2>3. slot \in Nat
    BY DEF RunsType
  <2>4. proc'["scheduler"].pc = "idle" \/ proc'["scheduler"] = proc["scheduler"]
    BY <1>2
  <2> QED BY <1>1, <2>1, <2>2, <2>3, <2>4 DEF SlotsRecorded
<1>8. SlotFiredOnce' /\ CausesStand'
  BY <1>1, <1>2 DEF SlotFiredOnce, CausesStand
<1> QED BY <1>4, <1>5, <1>6, <1>7, <1>8

-----------------------------------------------------------------------------
(* A run is fired                                                            *)

\* A new run is numbered above all others and has no window yet.
LEMMA FireKeeps ==
  ASSUME RunsInv, NEW p \in Proc, Fire(p), proc[p].pc \in {"idle", "check"},
         p = "scheduler" => torn \/ state < slot,
         UNCHANGED <<definition, state, tick, slot, aged, win, ended, known, torn>>
  PROVE  RunsInv'
<1> USE Bounds DEF RunsInv
<1> DEFINE r == count.runs + 1
           x == [IdleProc EXCEPT !.pc = "launch", !.run = r]
           s == IF p = "scheduler" THEN slot ELSE Never
<1>1. /\ r \in Run /\ r \in Nat /\ r > count.runs /\ count.runs \in Nat /\ r \in 0..MaxRuns
      /\ win[r] = "none" /\ for[r] = Never
  <2>1. count.runs \in 0..MaxRuns /\ count.runs < MaxRuns
    BY DEF Fire, RunsType
  <2>2. r \in Run /\ r \in Nat /\ r > count.runs /\ count.runs \in Nat /\ r \in 0..MaxRuns
    BY <2>1 DEF Run
  <2> QED BY <2>2 DEF RunsPlaced
<1>2. /\ count' = [count EXCEPT !.runs = r]
      /\ runs' = [runs EXCEPT ![r] = "pending"]
      /\ proc' = [proc EXCEPT ![p] = x]
      /\ for' = [for EXCEPT ![r] = s]
  BY DEF Fire, SaveRun
<1>3. s \in 0..Never /\ (s = Never <=> p = "command") /\ slot \in Nat /\ slot < Never
  BY DEF RunsType, Proc
<1>4. x \in Process /\ x.pc = "launch" /\ x.run = r
  <2> HIDE DEF r
  <2> QED BY <1>1 DEF IdleProc, Process, Pc, RunStatus
<1>5. count' \in [runs : 0..MaxRuns, faults : 0..MaxFaults] /\ count'.runs = r
  <2> HIDE DEF r
  <2> QED BY <1>1, <1>2 DEF RunsType
<1> HIDE DEF x, r, s
<1>6. /\ proc' \in [Proc -> Process] /\ proc'[p] = x
      /\ \A q \in Proc \ {p} : proc'[q] = proc[q]
  BY <1>2, <1>4 DEF RunsType
<1>7. /\ for' \in [Run -> 0..Never] /\ for'[r] = s
      /\ \A q \in Run \ {r} : for'[q] = for[q]
  BY <1>1, <1>2, <1>3 DEF RunsType
<1>8. runs' \in [Run -> RunStatus] /\ runs'[r] = "pending" /\ \A q \in Run \ {r} : runs'[q] = runs[q]
  BY <1>1, <1>2 DEF RunsType, RunStatus
<1>9. RunsType'
  BY <1>5, <1>6, <1>7, <1>8 DEF RunsType
<1>10. ProcsPlaced'
  <2>1. ProcPlaced(p)'
    BY <1>1, <1>3, <1>4, <1>5, <1>6, <1>7 DEF ProcPlaced, Firing
  <2>2. count.runs <= count'.runs /\ \A q \in Run : for'[q] = for[q] \/ q > count.runs
    BY <1>1, <1>5, <1>7
  <2>3. ASSUME NEW q \in Proc \ {p} PROVE ProcPlaced(q)'
    BY <1>6, <1>9, <2>2, OthersPlaced DEF ProcsPlaced
  <2> QED BY <2>1, <2>3 DEF ProcsPlaced
<1>11. RunsPlaced'
  <2>1. \A q \in Run : q > count'.runs => win'[q] = "none" /\ for'[q] = Never
    <3>1. \A q \in Run : q > r => q # r /\ q > count.runs
      BY <1>1 DEF Run
    <3> QED BY <1>5, <1>7, <3>1 DEF RunsPlaced
  <2>2. \A q \in Run : for'[q] = Never \/ for'[q] <= slot'
    <3>1. s = Never \/ s <= slot
      BY <1>3 DEF s
    <3> QED BY <1>7, <3>1 DEF RunsPlaced
  <2>3. \A q \in Run : runs'[q] = "running" => win'[q] # "none"
    BY <1>8 DEF RunsPlaced
  <2> QED BY <2>1, <2>2, <2>3 DEF RunsPlaced
<1>12. \A q \in Run : (Launched(q)' <=> Launched(q)) /\ (Launched(q) => q # r)
  BY <1>1, <1>7 DEF Launched
<1>13. SlotsRecorded'
  <2>1. CASE p = "command"
    <3>1. proc'["scheduler"] = proc["scheduler"]
      BY <1>6, <2>1
    <3>2. proc["scheduler"].pc \in {"launch", "save_running", "fired_save"} =>
             proc["scheduler"].run # r
      BY <1>1 DEF ProcsPlaced, ProcPlaced, Firing, Proc
    <3>3. proc["scheduler"].run \in Run
      BY DEF RunsType, Process
    <3> QED BY <1>7, <1>12, <3>1, <3>2, <3>3 DEF SlotsRecorded, Unrecorded
  <2>2. CASE p = "scheduler"
    <3>1. \A q \in Run : ~Unrecorded(q) /\ ~Unrecorded(q)'
      BY <1>4, <1>6, <2>2 DEF Unrecorded
    <3>2. ~torn => state < slot /\ \A q \in Run : Launched(q) => for[q] <= state
      BY <2>2, <3>1 DEF SlotsRecorded
    <3>3. for'[r] = slot
      BY <1>7, <2>2 DEF s
    <3>4. \A q \in Run : for[q] \in Nat
      BY DEF RunsType
    <3>5. state \in Nat
      BY DEF RunsType, Fired
    <3>6. ~torn => \A q \in Run : Launched(q)' => for'[q] = for[q] /\ for[q] <= state /\ for[q] < slot
      BY <1>3, <1>7, <1>12, <3>2, <3>4, <3>5
    <3> QED BY <1>4, <1>6, <2>2, <3>1, <3>2, <3>3, <3>6 DEF SlotsRecorded
  <2> QED BY <2>1, <2>2 DEF Proc
<1>14. SlotFiredOnce'
  BY <1>7, <1>12 DEF SlotFiredOnce, Launched
<1>15. CausesStand'
  BY <1>4, <1>6 DEF CausesStand
<1> QED BY <1>9, <1>10, <1>11, <1>13, <1>14, <1>15

LEMMA RunNowKeeps ==
  ASSUME RunsInv, RunNow
  PROVE  RunsInv'
  BY FireKeeps, Bounds DEF RunNow, clock, world

-----------------------------------------------------------------------------
(* The tick                                                                  *)

\* Where nothing but the scheduler and what it has read moves.
LEMMA SchedulerMoves ==
  ASSUME RunsInv, RunsType', NEW p \in Proc,
         \A q \in Proc \ {p} : proc'[q] = proc[q],
         p = "scheduler" =>
            proc[p].pc \notin {"save_running", "fired_save"} \/ torn',
         torn => torn', ~torn' => state' = state,
         ~Firing(p)', proc'[p].pc # "mark_save",
         proc'[p].pc = "idle" => proc'[p] = IdleProc,
         UNCHANGED <<slot, win, for>>, count'.runs = count.runs,
         \A r \in Run : runs'[r] = "running" => runs[r] = "running"
  PROVE  RunsPlaced' /\ ProcsPlaced' /\ SlotsRecorded' /\ SlotFiredOnce'
<1> USE DEF RunsInv
<1>1. RunsPlaced'
  BY DEF RunsPlaced
<1>2. ProcsPlaced'
  <2>1. ProcPlaced(p)'
    BY DEF ProcPlaced
  <2>2. count.runs \in Nat
    BY Bounds DEF RunsType
  <2>3. ASSUME NEW q \in Proc \ {p} PROVE ProcPlaced(q)'
    BY <2>2, OthersPlaced DEF ProcsPlaced
  <2> QED BY <2>1, <2>3 DEF ProcsPlaced
<1>3. SlotsRecorded'
  <2>1. \A r \in Run : Launched(r)' <=> Launched(r)
    BY DEF Launched
  <2>2. CASE p = "scheduler"
    BY <2>1, <2>2 DEF SlotsRecorded, Unrecorded, Firing
  <2>3. CASE p = "command"
    <3>1. proc'["scheduler"] = proc["scheduler"]
      BY <2>3, Bounds
    <3> QED BY <2>1, <3>1 DEF SlotsRecorded, Unrecorded
  <2> QED BY <2>2, <2>3 DEF Proc
<1>4. SlotFiredOnce'
  BY DEF SlotFiredOnce
<1> QED BY <1>1, <1>2, <1>3, <1>4

LEMMA ReconcileStartKeeps ==
  ASSUME RunsInv, ReconcileStart
  PROVE  RunsInv'
<1> USE Bounds DEF RunsInv
<1>1. /\ proc["scheduler"].pc = "idle"
      /\ UNCHANGED <<definition, runs, state, slot, aged, win, ended, known, for, torn, count>>
  BY DEF ReconcileStart, files, clock, world, history
<1>2. /\ proc' \in [Proc -> Process] /\ proc'["scheduler"].pc = "list_runs"
      /\ \A q \in Proc \ {"scheduler"} : proc'[q] = proc[q]
  BY GoesTo DEF ReconcileStart, RunsType, Pc
<1>3. /\ tick'.live = {r \in Run : win[r] = "live"} \/ ~tick'.listed
      /\ tick'.live \subseteq {r \in Run : win[r] = "live"}
      /\ tick'.born = {r \in Run : win[r] # "none"}
      /\ tick'.plan = NoTick.plan
      /\ tick' \in TickType
  <2> DEFINE windows == {r \in Run : win[r] = "live"}
             born    == {r \in Run : win[r] # "none"}
  <2>1. PICK live \in {windows, {}} :
           tick' = [NoTick EXCEPT !.listed = (live = windows), !.live = live, !.born = born]
    BY DEF ReconcileStart
  <2>2. live \in SUBSET Run /\ born \in SUBSET Run /\ (live = windows) \in BOOLEAN /\ live \subseteq windows
    OBVIOUS
  <2> HIDE DEF windows, born
  <2>3. tick' = [listed |-> (live = windows), live |-> live, born |-> born, plan |-> NoTick.plan]
    BY <2>1 DEF NoTick
  <2>4. NoTick.plan \in [Run -> Plan]
    BY DEF TickType
  <2>5. tick' \in TickType
    BY <2>2, <2>3, <2>4 DEF TickType
  <2> QED BY <2>2, <2>3, <2>5 DEF windows, born
<1>4. RunsType'
  BY <1>1, <1>2, <1>3 DEF RunsType
<1>5. RunsPlaced' /\ ProcsPlaced' /\ SlotsRecorded' /\ SlotFiredOnce'
  BY <1>1, <1>2, <1>4, SchedulerMoves DEF Firing
<1>6. CausesStand'
  <2>1. \A r \in Run : win[r] \in Window
    BY DEF RunsType
  <2>2. tick'.live \subseteq tick'.born
    BY <1>3
  <2>3. \A r \in tick'.born \ tick'.live : win[r] = "gone" \/ ~tick'.listed
    BY <1>3, <2>1 DEF Window
  <2> QED BY <1>1, <1>3, <2>2, <2>3 DEF CausesStand
<1> QED BY <1>4, <1>5, <1>6

LEMMA ListRunsKeeps ==
  ASSUME RunsInv, ListRuns
  PROVE  RunsInv'
<1> USE Bounds DEF RunsInv
<1> DEFINE open == {r \in Newest(MaxListed) : runs[r] \in {"pending", "running"}}
<1>1. /\ proc["scheduler"].pc = "list_runs"
      /\ UNCHANGED <<definition, runs, state, slot, aged, win, ended, known, for, torn, count>>
  BY DEF ListRuns, files, clock, world, history
<1>2. PICK plan \in [Run -> Plan] :
          /\ \A r \in Run : plan[r] \in IF r \in open THEN Plans(r) ELSE {"keep"}
          /\ IF definition = "none" \/ plan = NoTick.plan
             THEN Goto("scheduler", "check") /\ tick' = NoTick
             ELSE Goto("scheduler", "verdict") /\ tick' = [tick EXCEPT !.live = {}, !.plan = plan]
  BY DEF ListRuns
<1>3. PICK pc \in {"check", "verdict"} : Goto("scheduler", pc)
  BY <1>2
<1>4. /\ proc' \in [Proc -> Process] /\ proc'["scheduler"].pc \in {"check", "verdict"}
      /\ \A q \in Proc \ {"scheduler"} : proc'[q] = proc[q]
  <2>1. pc \in Pc /\ proc \in [Proc -> Process]
    BY DEF RunsType, Pc
  <2>2. /\ proc' \in [Proc -> Process] /\ proc'["scheduler"].pc = pc
        /\ \A q \in Proc \ {"scheduler"} : proc'[q] = proc[q]
    BY <1>3, <2>1, GoesTo
  <2> QED BY <2>2
<1>5. /\ tick' \in TickType
      /\ tick' = NoTick \/ (/\ tick'.live = {} /\ tick'.born = tick.born /\ tick'.plan = plan
                            /\ tick'.listed = tick.listed)
  <2> DEFINE T == TickType
             x == [tick EXCEPT !.live = {}]
             y == [x EXCEPT !.plan = plan]
  <2>1. x \in T /\ x.live = {} /\ x.born = tick.born /\ x.listed = tick.listed
    BY DEF RunsType, TickType
  <2>2. y \in T /\ y.live = {} /\ y.born = tick.born /\ y.plan = plan /\ y.listed = tick.listed
    <3> HIDE DEF x
    <3> QED BY <2>1 DEF TickType
  <2>3. tick' = NoTick \/ tick' = y
    BY <1>2
  <2> HIDE DEF y
  <2> QED BY <2>2, <2>3
<1>7. RunsType'
  BY <1>1, <1>4, <1>5 DEF RunsType
<1>8. RunsPlaced' /\ ProcsPlaced' /\ SlotsRecorded' /\ SlotFiredOnce'
  BY <1>1, <1>4, <1>7, SchedulerMoves DEF Firing
<1>9. \A r \in Run :
        /\ plan[r] = "done" => ended[r] /\ known[r]
        /\ plan[r] = "failed" =>
              aged[r] \/ win[r] = "gone" \/ ended[r] \/ r \notin tick.born \/ ~tick.listed
  <2> TAKE r \in Run
  <2>1. plan[r] = "keep" \/ plan[r] \in Plans(r)
    BY <1>2
  <2>2. plan[r] \in Plans(r) =>
           \/ plan[r] = "keep"
           \/ plan[r] = "failed" /\ aged[r]
           \/ known[r]
           \/ plan[r] = "failed" /\ r \notin tick.live
    BY DEF Plans
  <2> QED BY <1>1, <2>1, <2>2 DEF CausesStand
<1>10. CausesStand'
  BY <1>1, <1>4, <1>5, <1>9 DEF CausesStand
<1> QED BY <1>7, <1>8, <1>10

\* The verdict that is saved, and what is forgotten about its run.
LEMMA ReconcileRunIs ==
  ASSUME RunsInv, ReconcileRun
  PROVE  /\ proc["scheduler"].pc = "verdict"
         /\ UNCHANGED <<definition, state, slot, for, torn, count>>
         /\ \E r \in Run :
              /\ runs' = [runs EXCEPT ![r] = tick.plan[r]]
              /\ tick.plan[r] \in {"done", "failed"}
              /\ tick' = [tick EXCEPT !.plan = [tick.plan EXCEPT ![r] = "keep"]]
              /\ Settled(r)
<1>1. /\ proc["scheduler"].pc = "verdict"
      /\ UNCHANGED <<definition, state, slot, for, torn, count>>
  BY DEF ReconcileRun, history
<1>2. PICK r \in Planned : /\ runs' = [runs EXCEPT ![r] = tick.plan[r]]
                          /\ tick' = [tick EXCEPT !.plan[r] = "keep"]
                          /\ Settled(r)
  BY DEF ReconcileRun, SaveRun
<1>3. r \in Run /\ tick.plan[r] \in {"done", "failed"}
  BY DEF Planned, RunsInv, RunsType, TickType, Plan
<1>4. tick' = [tick EXCEPT !.plan = [tick.plan EXCEPT ![r] = "keep"]]
  BY <1>2
<1> QED BY <1>1, <1>2, <1>3, <1>4

LEMMA ReconcileRunKeeps ==
  ASSUME RunsInv, ReconcileRun
  PROVE  RunsInv'
<1> USE Bounds DEF RunsInv
<1>1. /\ proc["scheduler"].pc = "verdict"
      /\ UNCHANGED <<definition, state, slot, for, torn, count>>
  BY ReconcileRunIs
<1>2. PICK r \in Run :
              /\ runs' = [runs EXCEPT ![r] = tick.plan[r]]
              /\ tick.plan[r] \in {"done", "failed"}
              /\ tick' = [tick EXCEPT !.plan = [tick.plan EXCEPT ![r] = "keep"]]
              /\ Settled(r)
  BY ReconcileRunIs
<1>3. /\ proc' \in [Proc -> Process] /\ proc'["scheduler"].pc = "verdict_save"
      /\ \A q \in Proc \ {"scheduler"} : proc'[q] = proc[q]
  BY LoadsState DEF ReconcileRun, Pc
<1>4. /\ win' \in [Run -> Window]
      /\ ended' \in [Run -> BOOLEAN] /\ known' \in [Run -> BOOLEAN] /\ aged' \in [Run -> BOOLEAN]
      /\ \A q \in Run : (win'[q] = "none") <=> (win[q] = "none")
      /\ \A q \in Run \ {r} : /\ win'[q] = win[q] /\ ended'[q] = ended[q]
                            /\ known'[q] = known[q] /\ aged'[q] = aged[q]
      /\ (known'[r] => ended'[r]) /\ (ended'[r] => win'[r] # "none")
  <2>1. CASE UNCHANGED <<world, aged>>
    BY <2>1 DEF world, RunsType, CausesStand
  <2>2. CASE /\ win' = [win EXCEPT ![r] = IF @ = "none" THEN @ ELSE "gone"]
             /\ ended' = [ended EXCEPT ![r] = FALSE]
             /\ known' = [known EXCEPT ![r] = FALSE]
             /\ aged' = [aged EXCEPT ![r] = FALSE]
    <3>1. ended' \in [Run -> BOOLEAN] /\ known' \in [Run -> BOOLEAN] /\ aged' \in [Run -> BOOLEAN]
      BY <2>2 DEF RunsType
    <3>2. win' \in [Run -> Window] /\ \A q \in Run : (win'[q] = "none") <=> (win[q] = "none")
      BY <2>2 DEF RunsType, Window
    <3>3. ~known'[r] /\ ~ended'[r]
      BY <2>2 DEF RunsType
    <3> QED BY <2>2, <3>1, <3>2, <3>3 DEF RunsType
  <2> QED BY <1>2, <2>1, <2>2 DEF Settled
<1>5. /\ runs' \in [Run -> RunStatus] /\ \A q \in Run : runs'[q] = "running" => runs[q] = "running"
      /\ tick' \in TickType
  BY <1>2 DEF RunsType, TickType, RunStatus, Plan
<1>6. RunsType'
  BY <1>1, <1>3, <1>4, <1>5 DEF RunsType
<1>7. RunsPlaced'
  BY <1>1, <1>4, <1>5 DEF RunsPlaced
<1>8. ProcsPlaced'
  <2>1. ProcPlaced("scheduler")'
    BY <1>3 DEF ProcPlaced, Firing
  <2>2. count.runs \in Nat /\ \A q \in Proc : proc[q].run \in Run
    BY DEF RunsType, Process
  <2>3. ASSUME NEW q \in Proc \ {"scheduler"} PROVE ProcPlaced(q)'
    <3>1. ProcPlaced(q) /\ proc'[q] = proc[q] /\ count.runs <= count'.runs
      BY <1>1, <1>3, <2>2 DEF ProcsPlaced
    <3>2. (win'[proc[q].run] = "none") <=> (win[proc[q].run] = "none")
      BY <1>4, <2>2
    <3>3. \A k \in Run : for'[k] = for[k]
      BY <1>1
    <3> QED BY <1>6, <3>1, <3>2, <3>3, OthersPlaced
  <2> QED BY <2>1, <2>3 DEF ProcsPlaced
<1>9. SlotsRecorded' /\ SlotFiredOnce'
  <2>1. \A q \in Run : (Launched(q)' <=> Launched(q)) /\ ~Unrecorded(q) /\ ~Unrecorded(q)'
    BY <1>1, <1>3, <1>4 DEF Launched, Unrecorded
  <2> QED BY <1>1, <1>3, <1>4, <2>1 DEF SlotsRecorded, SlotFiredOnce
<1>10. CausesStand'
  <2>1. /\ tick'.live = tick.live /\ tick'.born = tick.born /\ tick'.listed = tick.listed
        /\ tick'.plan[r] = "keep"
    BY <1>2 DEF RunsType, TickType
  <2>2. \A q \in Run \ {r} : tick'.plan[q] = tick.plan[q]
    BY <1>2 DEF RunsType, TickType
  <2>3. \A q \in Run : (known'[q] => ended'[q]) /\ (ended'[q] => win'[q] # "none")
    BY <1>4 DEF CausesStand
  <2>4. \A q \in Run : tick'.plan[q] = "done" => ended'[q] /\ (win'[q] = "live" => known'[q])
    <3>1. \A q \in Run \ {r} : tick'.plan[q] = "done" => ended'[q] /\ (win'[q] = "live" => known'[q])
      BY <1>4, <2>2 DEF CausesStand
    <3> QED BY <2>1, <3>1
  <2>5. \A q \in Run : tick'.plan[q] = "failed" =>
           aged'[q] \/ win'[q] = "gone" \/ ended'[q] \/ q \notin tick'.born \/ ~tick'.listed
    <3>1. \A q \in Run \ {r} : tick'.plan[q] = "failed" =>
             aged'[q] \/ win'[q] = "gone" \/ ended'[q] \/ q \notin tick'.born \/ ~tick'.listed
      BY <1>4, <2>1, <2>2 DEF CausesStand
    <3> QED BY <2>1, <3>1
  <2> QED BY <1>3, <2>1, <2>3, <2>4, <2>5 DEF CausesStand
<1> QED BY <1>6, <1>7, <1>8, <1>9, <1>10

LEMMA VerdictSavedKeeps ==
  ASSUME RunsInv, VerdictSaved
  PROVE  RunsInv'
<1> USE Bounds DEF RunsInv
<1> DEFINE next == IF tick.plan = NoTick.plan THEN "check" ELSE "verdict"
           x    == [IdleProc EXCEPT !.pc = next]
<1>1. /\ proc["scheduler"].pc = "verdict_save" /\ proc["scheduler"] \in Process
      /\ state' = proc["scheduler"].copy
      /\ torn' = (torn \/ state # proc["scheduler"].copy)
      /\ tick' = NoTick \/ tick' = tick
      /\ proc' = [proc EXCEPT !["scheduler"] = x]
      /\ UNCHANGED <<definition, runs, slot, aged, win, ended, known, for, count>>
  BY DEF VerdictSaved, SaveCopy, RunsType, clock, world
<1>2. x \in Process /\ x.pc \in {"check", "verdict"}
  BY DEF IdleProc, Process, Pc, RunStatus
<1> HIDE DEF next, x
<1>3. /\ proc' \in [Proc -> Process] /\ proc'["scheduler"].pc \in {"check", "verdict"}
      /\ \A q \in Proc \ {"scheduler"} : proc'[q] = proc[q]
  BY <1>1, <1>2 DEF RunsType
<1>4. RunsType'
  BY <1>1, <1>3 DEF RunsType, Process
<1>5. RunsPlaced' /\ ProcsPlaced' /\ SlotsRecorded' /\ SlotFiredOnce'
  BY <1>1, <1>3, <1>4, SchedulerMoves DEF Firing
<1>6. CausesStand'
  <2>1. proc'["scheduler"].pc # "list_runs"
    BY <1>3
  <2>2. CASE tick' = NoTick
    BY <1>1, <2>1, <2>2 DEF CausesStand
  <2>3. CASE tick' = tick
    BY <1>1, <2>1, <2>3 DEF CausesStand
  <2> QED BY <1>1, <2>2, <2>3
<1> QED BY <1>4, <1>5, <1>6

\* The scheduler fires only for a slot that last_fired_at does not cover.
LEMMA TickFireKeeps ==
  ASSUME RunsInv, TickFire
  PROVE  RunsInv'
<1> USE Bounds DEF RunsInv
<1>1. /\ proc["scheduler"].pc = "check"
      /\ UNCHANGED <<definition, state, tick, slot, aged, win, ended, known, torn>>
  BY DEF TickFire, clock, world
<1>2. PICK due \in DueAnswers :
          IF /\ definition = "active"
             /\ \A r \in Newest(MaxChecked) : runs[r] # "running"
             /\ due
             /\ count.runs < MaxRuns
          THEN Fire("scheduler")
          ELSE Ends("scheduler") /\ UNCHANGED <<runs, for, count>>
  BY DEF TickFire
<1>3. CASE Fire("scheduler") /\ due
  <2>1. torn \/ state < slot
    <3>1. CASE state = Never
      BY <3>1 DEF SlotsRecorded, RunsType
    <3>2. CASE state # Never
      BY <1>3, <3>2 DEF DueAnswers
    <3> QED BY <3>1, <3>2
  <2> QED BY <1>1, <1>3, <2>1, FireKeeps
<1>4. CASE Ends("scheduler") /\ UNCHANGED <<runs, for, count>>
  <2>1. /\ proc' \in [Proc -> Process] /\ proc'["scheduler"] = IdleProc /\ proc'["scheduler"].pc = "idle"
        /\ \A q \in Proc \ {"scheduler"} : proc'[q] = proc[q]
    BY <1>4, EndsIdle DEF RunsType
  <2>2. RunsType'
    BY <1>1, <1>4, <2>1 DEF RunsType
  <2>3. RunsPlaced' /\ ProcsPlaced' /\ SlotsRecorded' /\ SlotFiredOnce'
    BY <1>1, <1>4, <2>1, <2>2, SchedulerMoves DEF Firing
  <2>4. CausesStand'
    BY <1>1, <2>1 DEF CausesStand
  <2> QED BY <2>2, <2>3, <2>4
<1> QED BY <1>2, <1>3, <1>4

-----------------------------------------------------------------------------
(* The commands and the world                                                *)

LEMMA SetStatusKeeps ==
  ASSUME RunsInv, SetStatus
  PROVE  RunsInv'
<1> USE DEF RunsInv
<1>1. /\ count'.runs = count.runs /\ count' \in [runs : 0..MaxRuns, faults : 0..MaxFaults]
      /\ definition' \in {"active", "paused", "none"}
      /\ UNCHANGED <<runs, state, proc, tick, slot, aged, win, ended, known, for, torn>>
  BY FaultCounts DEF SetStatus, procs, clock, world, history
<1>2. RunsType'
  BY <1>1 DEF RunsType
<1>3. RunsPlaced' /\ ProcsPlaced'
  BY <1>1 DEF RunsPlaced, ProcsPlaced, ProcPlaced, Firing
<1>4. SlotsRecorded' /\ SlotFiredOnce' /\ CausesStand'
  BY <1>1 DEF SlotsRecorded, SlotFiredOnce, CausesStand, Launched, Unrecorded
<1> QED BY <1>2, <1>3, <1>4

LEMMA DeleteKeeps ==
  ASSUME RunsInv, Delete
  PROVE  RunsInv'
<1> USE Bounds DEF RunsInv
<1>1. /\ count'.runs = count.runs /\ count' \in [runs : 0..MaxRuns, faults : 0..MaxFaults]
      /\ definition' = "none" /\ runs' = [r \in Run |-> "none"] /\ state' = Never
      /\ torn' = TRUE
      /\ UNCHANGED <<proc, tick, slot, aged, win, ended, known, for>>
  BY FaultCounts DEF Delete, procs, clock, world
<1>2. RunsType'
  BY <1>1 DEF RunsType, RunStatus
<1>3. RunsPlaced' /\ ProcsPlaced'
  BY <1>1 DEF RunsPlaced, ProcsPlaced, ProcPlaced, Firing
<1>4. SlotsRecorded' /\ SlotFiredOnce' /\ CausesStand'
  BY <1>1 DEF SlotsRecorded, SlotFiredOnce, CausesStand
<1> QED BY <1>2, <1>3, <1>4

LEMMA CreateKeeps ==
  ASSUME RunsInv, Create
  PROVE  RunsInv'
<1> USE DEF RunsInv
<1>1. /\ definition' = "active"
      /\ UNCHANGED <<runs, state, proc, tick, slot, aged, win, ended, known, for, torn, count>>
  BY DEF Create, procs, clock, world, history
<1>2. RunsType'
  BY <1>1 DEF RunsType
<1>3. RunsPlaced' /\ ProcsPlaced'
  BY <1>1 DEF RunsPlaced, ProcsPlaced, ProcPlaced, Firing
<1>4. SlotsRecorded' /\ SlotFiredOnce' /\ CausesStand'
  BY <1>1 DEF SlotsRecorded, SlotFiredOnce, CausesStand, Launched, Unrecorded
<1> QED BY <1>2, <1>3, <1>4

LEMMA MarkLoadKeeps ==
  ASSUME RunsInv, MarkLoad
  PROVE  RunsInv'
<1> USE Bounds DEF RunsInv
<1>1. PICK r \in Run :
         /\ runs[r] \in {"pending", "running"}
         /\ proc' = [proc EXCEPT !["command"] =
                       [IdleProc EXCEPT !.pc = "mark_save", !.run = r, !.mark = runs[r]]]
  BY DEF MarkLoad
<1> DEFINE x == [IdleProc EXCEPT !.pc = "mark_save", !.run = r, !.mark = runs[r]]
<1>2. x \in Process /\ x.pc = "mark_save" /\ x.run = r /\ x.mark = runs[r]
  BY <1>1 DEF IdleProc, Process, Pc, RunStatus
<1> HIDE DEF x
<1>3. /\ count'.runs = count.runs /\ count' \in [runs : 0..MaxRuns, faults : 0..MaxFaults]
      /\ UNCHANGED <<definition, runs, state, tick, slot, aged, win, ended, known, for, torn>>
  BY FaultCounts DEF MarkLoad, files, clock, world, history
<1>4. /\ proc' \in [Proc -> Process] /\ proc'["command"] = x /\ proc'["scheduler"] = proc["scheduler"]
      /\ \A q \in Proc \ {"command"} : proc'[q] = proc[q]
  BY <1>1, <1>2 DEF RunsType, x
<1>5. RunsType'
  BY <1>3, <1>4 DEF RunsType
<1>6. RunsPlaced'
  BY <1>3 DEF RunsPlaced
<1>7. ProcsPlaced'
  <2>1. ProcPlaced("command")'
    BY <1>1, <1>2, <1>3, <1>4 DEF ProcPlaced, Firing, RunsPlaced
  <2>2. count.runs \in Nat
    BY DEF RunsType
  <2>3. ASSUME NEW q \in Proc \ {"command"} PROVE ProcPlaced(q)'
    BY <1>3, <1>4, <1>5, <2>2, OthersPlaced DEF ProcsPlaced
  <2> QED BY <2>1, <2>3 DEF ProcsPlaced
<1>8. SlotsRecorded' /\ SlotFiredOnce' /\ CausesStand'
  BY <1>3, <1>4 DEF SlotsRecorded, SlotFiredOnce, CausesStand, Launched, Unrecorded
<1> QED BY <1>5, <1>6, <1>7, <1>8

LEMMA MarkSaveKeeps ==
  ASSUME RunsInv, MarkSave
  PROVE  RunsInv'
<1> USE Bounds DEF RunsInv
<1> DEFINE r == proc["command"].run
<1>1. /\ proc["command"].pc = "mark_save" /\ proc["command"] \in Process /\ r \in Run
      /\ runs' = [runs EXCEPT ![r] = proc["command"].mark]
      /\ proc["command"].mark = "running" => win[r] # "none"
      /\ UNCHANGED <<definition, state, tick, slot, aged, win, ended, known, for, torn, count>>
  BY DEF MarkSave, SaveRun, ProcsPlaced, ProcPlaced, RunsType, Process, clock, world, history
<1>2. /\ proc' \in [Proc -> Process] /\ proc'["command"] = IdleProc /\ proc'["command"].pc = "idle"
      /\ \A q \in Proc \ {"command"} : proc'[q] = proc[q]
      /\ proc'["scheduler"] = proc["scheduler"]
  BY EndsIdle DEF MarkSave, RunsType
<1>3. RunsType'
  BY <1>1, <1>2 DEF RunsType, Process
<1>4. RunsPlaced'
  BY <1>1 DEF RunsPlaced, RunsType
<1>5. ProcsPlaced'
  <2>1. ProcPlaced("command")'
    BY <1>2 DEF ProcPlaced, Firing
  <2>2. count.runs \in Nat
    BY DEF RunsType
  <2>3. ASSUME NEW q \in Proc \ {"command"} PROVE ProcPlaced(q)'
    BY <1>1, <1>2, <1>3, <2>2, OthersPlaced DEF ProcsPlaced
  <2> QED BY <2>1, <2>3 DEF ProcsPlaced
<1>6. SlotsRecorded' /\ SlotFiredOnce' /\ CausesStand'
  BY <1>1, <1>2 DEF SlotsRecorded, SlotFiredOnce, CausesStand, Launched, Unrecorded
<1> QED BY <1>3, <1>4, <1>5, <1>6

\* A step of the clock or of the world, which moves no process.
LEMMA WorldMoves ==
  ASSUME RunsInv, RunsType', UNCHANGED <<runs, state, proc, tick, for, torn, count>>, slot <= slot',
         \A r \in Run : win'[r] = win[r] \/ (win[r] = "live" /\ win'[r] = "gone"),
         \A r \in Run : (known'[r] => ended'[r]) /\ (ended'[r] => win'[r] # "none"),
         \A r \in Run : aged[r] => aged'[r],
         \A r \in Run : ended[r] => ended'[r] \/ (win'[r] = "gone" /\ tick.plan[r] # "done"),
         \A r \in Run : tick.plan[r] = "done" /\ win'[r] = "live" => known'[r]
  PROVE  RunsInv'
<1> USE Bounds DEF RunsInv
<1>1. \A r \in Run : (win'[r] = "none") <=> (win[r] = "none")
  OBVIOUS
<1>2. RunsPlaced'
  <2>1. \A r \in Run : for[r] \in Nat /\ slot \in Nat /\ slot' \in Nat
    BY DEF RunsType
  <2> QED BY <1>1, <2>1 DEF RunsPlaced
<1>3. ProcsPlaced'
  <2>1. \A p \in Proc : proc[p].run \in Run
    BY DEF RunsType, Process
  <2> SUFFICES ASSUME NEW p \in Proc PROVE ProcPlaced(p)'
    BY DEF ProcsPlaced
  <2>2. (win'[proc[p].run] = "none") <=> (win[proc[p].run] = "none")
    BY <1>1, <2>1
  <2> QED BY <2>2 DEF ProcsPlaced, ProcPlaced, Firing
<1>4. SlotsRecorded' /\ SlotFiredOnce'
  <2>1. \A r \in Run : Launched(r)' <=> Launched(r)
    BY <1>1 DEF Launched
  <2>2. slot \in Nat /\ slot' \in Nat /\ state \in Nat
    BY DEF RunsType, Fired
  <2>3. SlotsRecorded'
    BY <2>1, <2>2 DEF SlotsRecorded, Unrecorded
  <2> QED BY <1>1, <2>3 DEF SlotFiredOnce
<1>5. CausesStand'
  <2>1. \A r \in Run : win[r] = "gone" => win'[r] = "gone"
    OBVIOUS
  <2>2. \A r \in Run : tick.plan[r] = "done" => ended'[r] /\ (win'[r] = "live" => known'[r])
    BY DEF CausesStand
  <2>3. \A r \in Run : tick.plan[r] = "failed" =>
           aged'[r] \/ win'[r] = "gone" \/ ended'[r] \/ r \notin tick.born \/ ~tick.listed
    BY <2>1 DEF CausesStand
  <2> QED BY <2>1, <2>2, <2>3 DEF CausesStand, RunsType, TickType
<1> QED BY <1>2, <1>3, <1>4, <1>5

LEMMA SlotPassesKeeps ==
  ASSUME RunsInv, SlotPasses
  PROVE  RunsInv'
<1> USE Bounds DEF RunsInv
<1>1. /\ slot' \in 0..MaxSlots /\ slot <= slot'
      /\ UNCHANGED <<definition, runs, state, proc, tick, aged, win, ended, known, for, torn, count>>
  BY DEF SlotPasses, RunsType, files, procs, world, history
<1>2. RunsType'
  BY <1>1 DEF RunsType
<1> QED BY <1>1, <1>2, WorldMoves DEF CausesStand

LEMMA WorldKeeps ==
  ASSUME RunsInv, NEW r \in Run, Ages(r) \/ AgentEnds(r) \/ WindowGoes(r) \/ DaemonSaves(r)
  PROVE  RunsInv'
<1> USE Bounds DEF RunsInv
<1>1. slot \in Nat /\ slot <= slot
  BY DEF RunsType
<1>2. CASE Ages(r)
  <2>1. /\ aged' = [aged EXCEPT ![r] = TRUE]
        /\ UNCHANGED <<definition, runs, state, proc, tick, slot, win, ended, known, for, torn, count>>
    BY <1>2 DEF Ages, files, procs, world, history
  <2>2. aged' \in [Run -> BOOLEAN] /\ \A q \in Run : aged[q] => aged'[q]
    BY <2>1 DEF RunsType
  <2>3. RunsType'
    BY <2>1, <2>2 DEF RunsType
  <2> QED BY <1>1, <2>1, <2>2, <2>3, WorldMoves DEF CausesStand
<1>3. CASE AgentEnds(r)
  <2>1. /\ ended' = [ended EXCEPT ![r] = TRUE] /\ win[r] = "live"
        /\ UNCHANGED <<definition, runs, state, proc, tick, slot, aged, win, known, for, torn, count>>
    BY <1>3 DEF AgentEnds, files, procs, clock, history
  <2>2. /\ ended' \in [Run -> BOOLEAN] /\ \A q \in Run : ended[q] => ended'[q]
        /\ \A q \in Run \ {r} : ended'[q] = ended[q]
    BY <2>1 DEF RunsType
  <2>3. RunsType'
    BY <2>1, <2>2 DEF RunsType
  <2>4. \A q \in Run : (known'[q] => ended'[q]) /\ (ended'[q] => win'[q] # "none")
    BY <2>1, <2>2 DEF CausesStand
  <2>5. \A q \in Run : tick.plan[q] = "done" /\ win'[q] = "live" => known'[q]
    BY <2>1 DEF CausesStand
  <2> QED BY <1>1, <2>1, <2>2, <2>3, <2>4, <2>5, WorldMoves
<1>4. CASE WindowGoes(r)
  <2>1. /\ win[r] = "live" /\ win' = [win EXCEPT ![r] = "gone"]
        /\ ended' = [ended EXCEPT ![r] = known[r]]
        /\ UNCHANGED <<definition, runs, state, proc, tick, slot, aged, known, for, torn, count>>
    BY <1>4 DEF WindowGoes, files, procs, clock, history
  <2>2. /\ win' \in [Run -> Window] /\ win'[r] = "gone" /\ \A q \in Run \ {r} : win'[q] = win[q]
        /\ ended' \in [Run -> BOOLEAN] /\ (ended'[r] <=> known[r]) /\ \A q \in Run \ {r} : ended'[q] = ended[q]
    BY <2>1 DEF RunsType, Window
  <2>3. RunsType'
    BY <2>1, <2>2 DEF RunsType
  <2>4. \A q \in Run : (known'[q] => ended'[q]) /\ (ended'[q] => win'[q] # "none")
    <3>1. known' = known
      BY <2>1
    <3>2. \A q \in Run \ {r} : (known'[q] => ended'[q]) /\ (ended'[q] => win'[q] # "none")
      BY <2>2, <3>1 DEF CausesStand
    <3> QED BY <2>2, <3>1, <3>2
  <2>5. tick.plan[r] # "done" \/ ended'[r]
    BY <2>1, <2>2 DEF CausesStand
  <2>6. \A q \in Run : tick.plan[q] = "done" /\ win'[q] = "live" => known'[q]
    <3> SUFFICES ASSUME NEW q \in Run, tick.plan[q] = "done", win'[q] = "live" PROVE known'[q]
      BY <2>1
    <3>1. q # r /\ win[q] = "live"
      BY <2>2
    <3> QED BY <2>1, <3>1 DEF CausesStand
  <2>7. \A q \in Run : ended[q] => ended'[q] \/ (win'[q] = "gone" /\ tick.plan[q] # "done")
    BY <2>2, <2>5
  <2>8. \A q \in Run : win'[q] = win[q] \/ (win[q] = "live" /\ win'[q] = "gone")
    BY <2>1, <2>2
  <2> QED BY <1>1, <2>1, <2>3, <2>4, <2>6, <2>7, <2>8, WorldMoves
<1>5. CASE DaemonSaves(r)
  <2> DEFINE now == win[r] = "live" /\ ended[r]
  <2>1. /\ known' = [known EXCEPT ![r] = now]
        /\ UNCHANGED <<definition, runs, state, proc, tick, slot, aged, win, ended, for, torn, count>>
    BY <1>5 DEF DaemonSaves, files, procs, clock, history
  <2>2. known' \in [Run -> BOOLEAN] /\ (known'[r] => ended[r]) /\ \A q \in Run \ {r} : known'[q] = known[q]
    BY <2>1 DEF RunsType
  <2>3. RunsType'
    BY <2>1, <2>2 DEF RunsType
  <2>4. \A q \in Run : (known'[q] => ended'[q]) /\ (ended'[q] => win'[q] # "none")
    BY <2>1, <2>2 DEF CausesStand
  <2>5. \A q \in Run : tick.plan[q] = "done" /\ win'[q] = "live" => known'[q]
    <3> SUFFICES ASSUME NEW q \in Run, tick.plan[q] = "done", win[q] = "live" PROVE known'[q]
      BY <2>1
    <3>1. ended[q] /\ known[q]
      BY DEF CausesStand
    <3>2. CASE q = r
      <4>1. r \in Run /\ known \in [Run -> BOOLEAN]
        BY DEF RunsType
      <4>2. now
        BY <3>1, <3>2
      <4> HIDE DEF now
      <4> QED BY <2>1, <3>2, <4>1, <4>2
    <3>3. CASE q # r
      BY <2>2, <3>1, <3>3
    <3> QED BY <3>2, <3>3
  <2> QED BY <1>1, <2>1, <2>3, <2>4, <2>5, WorldMoves
<1> QED BY <1>2, <1>3, <1>4, <1>5

\* A death between a launch and its record is in the history.
LEMMA DiesKeeps ==
  ASSUME RunsInv, NEW p \in Proc, Dies(p)
  PROVE  RunsInv'
<1> USE Bounds DEF RunsInv
<1> DEFINE x == [IdleProc EXCEPT !.pc = IF p = "scheduler" THEN "down" ELSE "idle"]
<1>1. /\ proc' = [proc EXCEPT ![p] = x]
      /\ tick' = NoTick \/ (p = "command" /\ tick' = tick)
      /\ torn' = (torn \/ proc[p].pc \in {"save_running", "fired_save"})
      /\ count'.runs = count.runs /\ count' \in [runs : 0..MaxRuns, faults : 0..MaxFaults]
      /\ UNCHANGED <<definition, runs, state, slot, aged, win, ended, known, for>>
  BY FaultCounts DEF Dies, files, clock, world, Proc
<1>2. x \in Process /\ x.pc \in {"down", "idle"} /\ (x.pc = "idle" => x = IdleProc)
  BY DEF IdleProc, Process, Pc, RunStatus
<1> HIDE DEF x
<1>3. /\ proc' \in [Proc -> Process] /\ proc'[p] = x
      /\ \A q \in Proc \ {p} : proc'[q] = proc[q]
  BY <1>1, <1>2 DEF RunsType
<1>4. RunsType'
  BY <1>1, <1>3 DEF RunsType
<1>5. RunsPlaced' /\ ProcsPlaced' /\ SlotsRecorded' /\ SlotFiredOnce'
  BY <1>1, <1>2, <1>3, <1>4, SchedulerMoves DEF Firing
<1>6. CausesStand'
  BY <1>1, <1>2, <1>3 DEF CausesStand
<1> QED BY <1>4, <1>5, <1>6

LEMMA RestartKeeps ==
  ASSUME RunsInv, Restart
  PROVE  RunsInv'
<1> USE Bounds DEF RunsInv
<1>1. /\ proc["scheduler"].pc = "down" /\ Ends("scheduler")
      /\ UNCHANGED <<definition, runs, state, tick, slot, aged, win, ended, known, for, torn, count>>
  BY DEF Restart, files, clock, world, history
<1>2. /\ proc' \in [Proc -> Process] /\ proc'["scheduler"] = IdleProc /\ proc'["scheduler"].pc = "idle"
      /\ \A q \in Proc \ {"scheduler"} : proc'[q] = proc[q]
  BY <1>1, EndsIdle DEF RunsType
<1>3. RunsType'
  BY <1>1, <1>2 DEF RunsType
<1>4. RunsPlaced' /\ ProcsPlaced' /\ SlotsRecorded' /\ SlotFiredOnce'
  BY <1>1, <1>2, <1>3, SchedulerMoves DEF Firing
<1>5. CausesStand'
  BY <1>1, <1>2 DEF CausesStand
<1> QED BY <1>3, <1>4, <1>5

-----------------------------------------------------------------------------
(* The theorems                                                              *)

LEMMA RunsStep ==
  ASSUME RunsInv, [Next]_vars
  PROVE  RunsInv'
<1>1. CASE UNCHANGED vars
  BY <1>1 DEF vars, files, procs, clock, world, history, RunsInv, RunsType, RunsPlaced, ProcsPlaced,
              ProcPlaced, Firing, SlotsRecorded, Launched, Unrecorded, SlotFiredOnce, CausesStand
<1>2. ASSUME NEW p \in Proc, FireStep(p) PROVE RunsInv'
  BY <1>2, LaunchKeeps, SaveFailedRunKeeps, SaveRunningKeeps, BumpFailureStateKeeps, RecordFiredKeeps
     DEF FireStep
<1>3. CASE Tick
  BY <1>2, <1>3, Bounds, ReconcileStartKeeps, ListRunsKeeps, ReconcileRunKeeps, VerdictSavedKeeps,
     TickFireKeeps DEF Tick
<1>4. CASE Command
  BY <1>2, <1>4, Bounds, MarkSaveKeeps DEF Command
<1>5. CASE RunNow \/ SetStatus \/ Delete \/ Create \/ MarkLoad
  BY <1>5, RunNowKeeps, SetStatusKeeps, DeleteKeeps, CreateKeeps, MarkLoadKeeps
<1>6. CASE \/ SlotPasses \/ Restart
           \/ \E r \in Run : Ages(r) \/ AgentEnds(r) \/ WindowGoes(r) \/ DaemonSaves(r)
           \/ \E p \in Proc : Dies(p)
  BY <1>6, SlotPassesKeeps, WorldKeeps, DiesKeeps, RestartKeeps
<1> QED BY <1>1, <1>3, <1>4, <1>5, <1>6 DEF Next

\* A step that only moves what a process holds, and what is in state.json.
LEMMA HistoryKept ==
  ASSUME RunsType, RunsType', HistoryPlaced, UNCHANGED <<slot, answered, missed>>,
         \/ state' = state \/ state' = Never
         \/ \E p \in Proc : state' = proc[p].copy
         \/ state' = slot /\ \E p \in Proc : proc[p].pc = "fired_save",
         \A p \in Proc : proc'[p].copy \in {proc[p].copy, state, Never},
         \A p \in Proc : proc'[p].pc \in {"save_running", "fired_save"} =>
                            proc[p].pc \in {"save_running", "fired_save"}
  PROVE  HistoryPlaced'
<1> USE Bounds
<1>1. slot \in Nat /\ slot <= MaxSlots
  BY DEF RunsType
<1>2. Past(Never) /\ Covered(Never) /\ Past(slot)
  BY <1>1 DEF Past, Covered
<1>3. Past(state') /\ Covered(state')
  BY <1>2 DEF HistoryPlaced
<1>4. \A p \in Proc : Past(proc'[p].copy) /\ Covered(proc'[p].copy)
  BY <1>2 DEF HistoryPlaced
<1>5. \A f : (Past(f) <=> (f <= slot' \/ f = Never))
           /\ (Covered(f) <=> \A n \in 1..slot' : f \in n..MaxSlots => answered' >= n \/ n \in missed')
  BY DEF Past, Covered
<1> QED BY <1>3, <1>4, <1>5 DEF HistoryPlaced, Past, Covered

\* What a process holds of state.json is Never, as it was, or the file.
LEMMA CopiesOf ==
  ASSUME RunsType, NEW p \in Proc, NEW x \in Process, proc' = [proc EXCEPT ![p] = x],
         x.copy \in {proc[p].copy, state, Never},
         x.pc \in {"save_running", "fired_save"} => proc[p].pc \in {"save_running", "fired_save"}
  PROVE  /\ \A q \in Proc : proc'[q].copy \in {proc[q].copy, state, Never}
         /\ \A q \in Proc : proc'[q].pc \in {"save_running", "fired_save"} =>
                               proc[q].pc \in {"save_running", "fired_save"}
  BY DEF RunsType

LEMMA HistoryStep ==
  ASSUME RunsType, RunsType', HistoryPlaced, [Next]_vars
  PROVE  HistoryPlaced'
<1> USE Bounds
<1> DEFINE Kept ==
      /\ UNCHANGED <<slot, answered, missed>>
      /\ \/ state' = state \/ state' = Never
         \/ \E p \in Proc : state' = proc[p].copy
         \/ state' = slot /\ \E p \in Proc : proc[p].pc = "fired_save"
      /\ \A p \in Proc : proc'[p].copy \in {proc[p].copy, state, Never}
      /\ \A p \in Proc : proc'[p].pc \in {"save_running", "fired_save"} =>
                            proc[p].pc \in {"save_running", "fired_save"}
<1>1. Kept => HistoryPlaced'
  BY HistoryKept
<1>2. ASSUME NEW p \in Proc, NEW pc \in Pc, Goto(p, pc),
             pc \in {"save_running", "fired_save"} => proc[p].pc \in {"save_running", "fired_save"}
      PROVE  /\ \A q \in Proc : proc'[q].copy \in {proc[q].copy, state, Never}
             /\ \A q \in Proc : proc'[q].pc \in {"save_running", "fired_save"} =>
                                   proc[q].pc \in {"save_running", "fired_save"}
  BY <1>2, GoesTo DEF RunsType
<1>3. ASSUME NEW p \in Proc, Ends(p)
      PROVE  /\ \A q \in Proc : proc'[q].copy \in {proc[q].copy, state, Never}
             /\ \A q \in Proc : proc'[q].pc \in {"save_running", "fired_save"} =>
                                   proc[q].pc \in {"save_running", "fired_save"}
  <2>1. proc'[p] = IdleProc /\ \A q \in Proc \ {p} : proc'[q] = proc[q]
    BY <1>3, EndsIdle DEF RunsType
  <2> QED BY <2>1 DEF IdleProc
<1>4. ASSUME NEW p \in Proc, Fire(p)
      PROVE  /\ \A q \in Proc : proc'[q].copy \in {proc[q].copy, state, Never}
             /\ \A q \in Proc : proc'[q].pc \in {"save_running", "fired_save"} =>
                                   proc[q].pc \in {"save_running", "fired_save"}
  <2> DEFINE x == [IdleProc EXCEPT !.pc = "launch", !.run = count.runs + 1]
  <2>1. proc' = [proc EXCEPT ![p] = x] /\ x.copy = Never /\ x.pc = "launch"
    BY <1>4 DEF Fire, IdleProc
  <2> HIDE DEF x
  <2>2. proc'[p] = x /\ \A q \in Proc \ {p} : proc'[q] = proc[q]
    BY <2>1 DEF RunsType
  <2> QED BY <2>1, <2>2
<1>5. CASE UNCHANGED vars
  BY <1>1, <1>5 DEF vars, files, procs, clock, history
<1>6. CASE SlotPasses
  <2>1. /\ slot' = slot + 1 /\ slot \in Nat /\ slot < MaxSlots
        /\ UNCHANGED <<state, proc, answered>>
        /\ missed' = IF \E p \in Proc : proc[p].pc \in {"save_running", "fired_save"}
                     THEN missed \cup {slot'} ELSE missed
    BY <1>6 DEF SlotPasses, RunsType, files, procs
  <2>2. ASSUME NEW f \in Fired, Past(f), Covered(f)
        PROVE  f <= slot' \/ f = Never
    BY <2>1, <2>2 DEF Past, Fired
  <2>3. ASSUME NEW f \in Fired, Past(f), Covered(f), NEW n \in 1..slot', f \in n..MaxSlots
        PROVE  answered' >= n \/ n \in missed'
    <3>1. n \in 1..slot
      BY <2>1, <2>3 DEF Past, Fired
    <3> QED BY <2>1, <2>3, <3>1 DEF Covered
  <2>4. \A p \in Proc : proc[p].copy \in Fired /\ state \in Fired
    BY DEF RunsType, Process
  <2>5. ASSUME NEW p \in Proc, proc'[p].pc \in {"save_running", "fired_save"}, NEW n \in 1..slot'
        PROVE  answered' >= n \/ n \in missed'
    <3>1. proc[p].pc \in {"save_running", "fired_save"} /\ slot' \in missed'
      BY <2>1, <2>5
    <3>2. n # slot' => n \in 1..slot /\ slot \in n..MaxSlots
      BY <2>1
    <3> QED BY <2>1, <3>1, <3>2 DEF HistoryPlaced, Covered
  <2>6. answered' \in 0..slot' /\ missed' \subseteq 1..slot'
    BY <2>1 DEF HistoryPlaced
  <2>7. (Past(state) /\ Covered(state))'
    BY <2>1, <2>2, <2>3, <2>4 DEF HistoryPlaced, Past, Covered
  <2>8. \A p \in Proc : (Past(proc[p].copy) /\ Covered(proc[p].copy))'
    BY <2>1, <2>2, <2>3, <2>4 DEF HistoryPlaced, Past, Covered
  <2>9. \A p \in Proc : (proc[p].pc \in {"save_running", "fired_save"} => Covered(slot))'
    BY <2>5 DEF Covered
  <2> QED BY <2>6, <2>7, <2>8, <2>9 DEF HistoryPlaced
<1>7. ASSUME NEW p \in Proc, Launch(p) PROVE HistoryPlaced'
  <2>1. UNCHANGED <<state, slot, missed>> /\ proc[p].pc = "launch"
    BY <1>7 DEF Launch, files, clock
  <2>2. CASE Goto(p, "save_running") /\ answered' = slot
    <3>1. slot \in Nat /\ \A n \in 1..slot : answered' >= n
      BY <2>2 DEF RunsType
    <3>2. \A q \in Proc : proc'[q].copy = proc[q].copy
      <4>1. "save_running" \in Pc
        BY DEF Pc
      <4> QED BY <2>2, <4>1, GoesTo DEF RunsType
    <3>3. answered' \in 0..slot'
      BY <2>1, <2>2, <3>1
    <3> QED BY <2>1, <3>1, <3>2, <3>3 DEF HistoryPlaced, Past, Covered
  <2>3. CASE Goto(p, "save_failed") /\ UNCHANGED answered
    <3>1. "save_failed" \in Pc
      BY DEF Pc
    <3> QED BY <1>1, <1>2, <2>1, <2>3, <3>1
  <2> QED BY <1>7, <2>2, <2>3 DEF Launch
<1>8. ASSUME NEW p \in Proc, SaveFailedRun(p) \/ SaveRunning(p) \/ BumpFailureState(p) \/ RecordFired(p)
      PROVE  Kept
  <2>1. UNCHANGED <<slot, answered, missed>>
    BY <1>8 DEF SaveFailedRun, SaveRunning, BumpFailureState, RecordFired, clock, history
  <2>2. CASE SaveFailedRun(p)
    <3>1. state' = state /\ proc' = [proc EXCEPT ![p].pc = "bump_save", ![p].copy = state]
      BY <2>2 DEF SaveFailedRun
    <3>2. /\ proc'[p].pc = "bump_save" /\ proc'[p].copy = state
          /\ \A q \in Proc \ {p} : proc'[q] = proc[q]
      <4> DEFINE y == [proc[p] EXCEPT !.pc = "bump_save"]
                 x == [y EXCEPT !.copy = state]
      <4>1. proc[p] \in Process
        BY DEF RunsType
      <4>2. y \in Process /\ y.pc = "bump_save"
        BY <4>1 DEF Process, Pc
      <4>3. x.pc = "bump_save" /\ x.copy = state
        BY <4>2 DEF Process
      <4>4. proc' = [proc EXCEPT ![p] = x]
        BY <3>1
      <4> HIDE DEF x
      <4> QED BY <4>3, <4>4 DEF RunsType
    <3> QED BY <2>1, <3>1, <3>2
  <2>3. CASE SaveRunning(p)
    <3>1. "fired_save" \in Pc /\ state' = state /\ Goto(p, "fired_save") /\ proc[p].pc = "save_running"
      BY <2>3 DEF SaveRunning, Pc
    <3> QED BY <1>2, <2>1, <3>1
  <2>4. CASE BumpFailureState(p)
    BY <1>3, <2>1, <2>4 DEF BumpFailureState, SaveCopy
  <2>5. CASE RecordFired(p)
    BY <1>3, <2>1, <2>5 DEF RecordFired
  <2> QED BY <1>8, <2>2, <2>3, <2>4, <2>5
<1>9. CASE ReconcileStart \/ ListRuns
  <2>1. UNCHANGED <<state, slot, answered, missed>>
    BY <1>9 DEF ReconcileStart, ListRuns, files, clock, history
  <2>2. PICK pc \in {"list_runs", "check", "verdict"} : Goto("scheduler", pc)
    BY <1>9 DEF ReconcileStart, ListRuns
  <2>3. pc \in Pc
    BY DEF Pc
  <2> QED BY <1>1, <1>2, <2>1, <2>2, <2>3
<1>10. CASE ReconcileRun
  <2>1. /\ UNCHANGED <<state, slot, answered, missed>>
        /\ proc' = [proc EXCEPT !["scheduler"].pc = "verdict_save", !["scheduler"].copy = state]
    BY <1>10 DEF ReconcileRun, history
  <2> DEFINE y == [proc["scheduler"] EXCEPT !.pc = "verdict_save"]
             x == [y EXCEPT !.copy = state]
  <2>2. proc["scheduler"] \in Process
    BY DEF RunsType
  <2>3. y \in Process /\ y.pc = "verdict_save"
    BY <2>2 DEF Process, Pc
  <2>4. x \in Process /\ x.pc = "verdict_save" /\ x.copy = state
    BY <2>3 DEF Process, RunsType
  <2>5. proc' = [proc EXCEPT !["scheduler"] = x]
    BY <2>1
  <2> HIDE DEF x
  <2> QED BY <1>1, <2>1, <2>4, <2>5, CopiesOf
<1>11. CASE VerdictSaved
  <2> DEFINE x == [IdleProc EXCEPT !.pc = IF tick.plan = NoTick.plan THEN "check" ELSE "verdict"]
  <2>1. /\ state' = proc["scheduler"].copy /\ UNCHANGED <<slot, answered, missed>>
        /\ proc' = [proc EXCEPT !["scheduler"] = x]
    BY <1>11 DEF VerdictSaved, SaveCopy, clock
  <2>2. x \in Process /\ x.pc \in {"check", "verdict"} /\ x.copy = Never
    BY DEF IdleProc, Process, Pc, RunStatus
  <2> HIDE DEF x
  <2> QED BY <1>1, <2>1, <2>2, CopiesOf
<1>12. CASE TickFire
  <2>1. UNCHANGED <<state, slot, answered, missed>> /\ (Fire("scheduler") \/ Ends("scheduler"))
    BY <1>12 DEF TickFire, clock
  <2> QED BY <1>1, <1>3, <1>4, <2>1
<1>13. CASE RunNow
  <2>1. UNCHANGED <<state, slot, answered, missed>> /\ Fire("command")
    BY <1>13 DEF RunNow, clock
  <2> QED BY <1>1, <1>4, <2>1
<1>14. CASE MarkSave
  <2>1. UNCHANGED <<state, slot, answered, missed>> /\ Ends("command")
    BY <1>14 DEF MarkSave, clock, history
  <2> QED BY <1>1, <1>3, <2>1
<1>15. CASE MarkLoad
  <2>1. PICK r \in Run : /\ runs[r] \in {"pending", "running"}
                         /\ proc' = [proc EXCEPT !["command"] =
                              [IdleProc EXCEPT !.pc = "mark_save", !.run = r, !.mark = runs[r]]]
    BY <1>15 DEF MarkLoad
  <2> DEFINE x == [IdleProc EXCEPT !.pc = "mark_save", !.run = r, !.mark = runs[r]]
  <2>2. x.pc = "mark_save" /\ x.copy = Never
    BY DEF IdleProc
  <2> HIDE DEF x
  <2>3. proc'["command"] = x /\ \A q \in Proc \ {"command"} : proc'[q] = proc[q]
    BY <2>1 DEF RunsType, x
  <2>4. UNCHANGED <<state, slot, answered, missed>>
    BY <1>15 DEF MarkLoad, files, clock, history
  <2> QED BY <1>1, <2>2, <2>3, <2>4
<1>16. ASSUME NEW p \in Proc, Dies(p) PROVE Kept
  <2> DEFINE x == [IdleProc EXCEPT !.pc = IF p = "scheduler" THEN "down" ELSE "idle"]
  <2>1. proc' = [proc EXCEPT ![p] = x] /\ UNCHANGED <<state, slot, answered, missed>>
    BY <1>16 DEF Dies, files, clock
  <2>2. x \in Process /\ x.pc \in {"down", "idle"} /\ x.copy = Never
    BY DEF IdleProc, Process, Pc, RunStatus
  <2> HIDE DEF x
  <2> QED BY <2>1, <2>2, CopiesOf
<1>17. CASE Restart
  <2>1. UNCHANGED <<state, slot, answered, missed>> /\ Ends("scheduler")
    BY <1>17 DEF Restart, files, clock, history
  <2> QED BY <1>1, <1>3, <2>1
<1>18. CASE SetStatus \/ Delete \/ Create
  BY <1>1, <1>18 DEF SetStatus, Delete, Create, procs, clock, history
<1>19. ASSUME NEW r \in Run, Ages(r) \/ AgentEnds(r) \/ WindowGoes(r) \/ DaemonSaves(r) PROVE Kept
  BY <1>19 DEF Ages, AgentEnds, WindowGoes, DaemonSaves, files, procs, clock, history
<1>20. ASSUME NEW p \in Proc, FireStep(p) PROVE HistoryPlaced'
  BY <1>1, <1>7, <1>8, <1>20 DEF FireStep
<1>21. Tick => HistoryPlaced'
  BY <1>9, <1>10, <1>11, <1>12, <1>20 DEF Tick
<1>22. Command => HistoryPlaced'
  BY <1>14, <1>20 DEF Command
<1> QED BY <1>1, <1>5, <1>6, <1>13, <1>15, <1>16, <1>17, <1>18, <1>19, <1>21, <1>22 DEF Next

\* Where the runs, the processes that work on them and last_fired_at stand to
\* each other, through every interleaving, death and fault.
THEOREM RunsInvariant == Spec => []RunsInv
<1>1. Init => RunsInv
  BY RunsInit
<1>2. RunsInv /\ [Next]_vars => RunsInv'
  BY RunsStep
<1> QED BY <1>1, <1>2, PTL DEF Spec

\* The history and the copies of state.json, through every interleaving.
THEOREM HistoryInvariant == Spec => []HistoryPlaced
<1>1. Init => HistoryPlaced
  BY Bounds DEF Init, HistoryPlaced, Past, Covered, IdleProc
<1>2. RunsInv /\ RunsInv' /\ HistoryPlaced /\ [Next]_vars => HistoryPlaced'
  BY HistoryStep DEF RunsInv
<1> QED BY <1>1, <1>2, RunsInvariant, PTL DEF Spec

\* What last_fired_at covers has been answered: by a launch, of the scheduler or
\* by hand, that came when the slot had passed, or the slot passed while such a
\* launch was on its way into state.json.  So no failed launch, no older copy and
\* no lost save ever makes the schedule forget a slot that nothing ran for.
THEOREM CoveredSlots == Spec => []CoveredForCause
<1>1. HistoryPlaced => CoveredForCause
  BY DEF HistoryPlaced, Covered, CoveredForCause
<1> QED BY <1>1, HistoryInvariant, PTL

\* Every variable keeps its type; only a run that was launched has a window or
\* is saved as running, and a process that is idle holds no copy of a file.
THEOREM RunsTypeCorrect == Spec => []TypeOK
<1>1. RunsInv /\ HistoryPlaced => TypeOK
  <2> SUFFICES ASSUME RunsInv, HistoryPlaced PROVE TypeOK
    OBVIOUS
  <2>1. \A r \in Run : win[r] # "none" => r <= count.runs
    <3>1. count.runs \in Nat /\ Run \subseteq Nat
      BY Bounds DEF RunsInv, RunsType
    <3> QED BY <3>1 DEF RunsInv, RunsPlaced
  <2> QED BY <2>1 DEF RunsInv, RunsType, RunsPlaced, ProcsPlaced, ProcPlaced, CausesStand, HistoryPlaced, Process, TickType,
                     TypeOK
<1> QED BY <1>1, RunsInvariant, HistoryInvariant, PTL

\* "fire once each": whatever the ticks see due, and whoever else saves
\* state.json, the scheduler launches one run for a slot, unless the history
\* says that last_fired_at was not saved, taken back or deleted.
THEOREM OneRunForASlot == Spec => []SlotFiredOnce
<1>1. RunsInv => SlotFiredOnce
  BY DEF RunsInv
<1> QED BY <1>1, RunsInvariant, PTL

\* A run counts as done only when its agent has finished, and as failed while its
\* agent works only for its age, its window, a launch the tick could not see or
\* windows that could not be listed.
THEOREM VerdictsHaveCauses == Spec => VerdictForCause
<1> DEFINE A == \A r \in Run :
                   /\ runs[r] # "done" /\ runs'[r] = "done" => ended[r]
                   /\ runs[r] = "running" /\ runs'[r] = "failed" =>
                         aged[r] \/ win[r] = "gone" \/ ended[r] \/ r \notin tick.born \/ ~tick.listed
<1>1. RunsInv /\ [Next]_vars => [A]_vars
  <2> SUFFICES ASSUME RunsInv, Next PROVE A
    BY DEF vars
  <2> USE DEF RunsInv
  <2>1. CASE UNCHANGED runs
    BY <2>1
  <2>2. CASE ReconcileRun
    <3>1. PICK r \in Run : /\ runs' = [runs EXCEPT ![r] = tick.plan[r]]
                         /\ tick.plan[r] \in {"done", "failed"}
      BY <2>2, ReconcileRunIs
    <3>2. \A q \in Run : runs'[q] = runs[q] \/ runs'[q] = tick.plan[q]
      BY <3>1 DEF RunsType
    <3> QED BY <3>2 DEF CausesStand
  <2>3. CASE \E p \in Proc : SaveFailedRun(p)
    <3>1. PICK p \in Proc : SaveFailedRun(p)
      BY <2>3
    <3> DEFINE r == proc[p].run
    <3>2. r \in Run /\ runs' = [runs EXCEPT ![r] = "failed"] /\ runs[r] # "running"
      BY <3>1 DEF SaveFailedRun, SaveRun, RunsType, Process, ProcsPlaced, ProcPlaced, Firing, RunsPlaced
    <3> QED BY <3>2 DEF RunsType
  <2>4. CASE \A q \in Run : runs'[q] \in {runs[q], "pending", "running", "none"}
    BY <2>4
  <2>5. \A p \in Proc : Fire(p) => \A q \in Run : runs'[q] \in {runs[q], "pending"}
    BY DEF Fire, SaveRun, RunsType
  <2>6. \A p \in Proc : SaveRunning(p) => \A q \in Run : runs'[q] \in {runs[q], "running"}
    BY DEF SaveRunning, SaveRun, RunsType
  <2>7. TickFire \/ RunNow => UNCHANGED runs \/ \A q \in Run : runs'[q] \in {runs[q], "pending"}
    BY <2>5, Bounds DEF TickFire, RunNow
  <2>8. Delete => \A q \in Run : runs'[q] = "none"
    BY DEF Delete
  <2>9. MarkSave => \A q \in Run : runs'[q] \in {runs[q], "pending", "running"}
    BY Bounds DEF MarkSave, SaveRun, RunsType, ProcsPlaced, ProcPlaced
  <2>10. ASSUME NEW p \in Proc, FireStep(p) PROVE UNCHANGED runs \/ SaveFailedRun(p) \/ SaveRunning(p)
    BY <2>10 DEF FireStep, Launch, BumpFailureState, RecordFired, files
  <2>11. CASE Tick
    BY <2>1, <2>2, <2>3, <2>4, <2>6, <2>7, <2>10, <2>11, Bounds
       DEF Tick, ReconcileStart, ListRuns, VerdictSaved, files
  <2>12. CASE Command
    BY <2>1, <2>3, <2>4, <2>6, <2>9, <2>10, <2>12, Bounds DEF Command
  <2>13. CASE ~Tick /\ ~Command
    BY <2>1, <2>4, <2>7, <2>8, <2>13 DEF Next, SetStatus, Create, MarkLoad, SlotPasses, Ages, AgentEnds,
       WindowGoes, DaemonSaves, Dies, Restart, files
  <2> QED BY <2>11, <2>12, <2>13
<1> QED BY <1>1, RunsInvariant, PTL DEF Spec, VerdictForCause
===============================================================================
