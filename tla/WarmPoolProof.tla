---------------------------- MODULE WarmPoolProof ----------------------------
(***************************************************************************)
(* Proofs about WarmPool, for any number of directories, claims, top-ups   *)
(* and windows: its types, and that between them the windows shown and the *)
(* manifest are the same sessions (PoolMatchesManifest).                   *)
(*                                                                         *)
(* Nobody holds a lock, so what a process knows of its window ends with    *)
(* the window.  The invariant says what it knows until then, and that a    *)
(* session id is on one window only, whoever has written it, as long as no *)
(* command has strayed.                                                    *)
(***************************************************************************)
EXTENDS WarmPool, TLAPS

Claiming == {"claim_options", "claim_name", "select"}
Seeding  == {"new", "seed_id", "seed_flag"}
Making   == {"cold_options", "seed_id", "seed_flag"}

\* The id has been chosen and is on no window yet.
Unused   == {"cold", "cold_options", "new", "seed_id"}

\* The id of a client's cold creation is still to be used.
Reserving == {"idle"} \cup Claiming

ClientPc == {"idle", "done", "cold", "cold_options", "list"} \cup Claiming \cup Seeding
TaskPc   == {"idle", "list"} \cup Seeding

\* The window a process works on has not gone.
At(p, i)   == proc[p].idx = i /\ proc[p].pc \in Holding /\ ~proc[p].lost
Clean(i)   == i \in open /\ ~win[i].strayed

-----------------------------------------------------------------------------
(* The inductive invariant *)

\* Clients claim, top-ups do not; whoever works has an id.
Roles ==
    /\ \A p \in Clients : proc[p].pc \in ClientPc
    /\ \A t \in Tasks : proc[t].pc \in TaskPc
    /\ \A p \in Procs : proc[p].pc \notin {"idle", "done", "list"} => proc[p].ssn # 0

\* Until it goes, the window a process works on is open, and one process
\* makes it.
Placed ==
    /\ \A p \in Procs, i \in Index : At(p, i) => i \in open
    /\ \A p, q \in Procs, i \in Index :
            p # q /\ At(p, i) /\ At(q, i) => proc[p].pc \notin Making \/ proc[q].pc \notin Making

\* Two windows have the same id only when commands for others hit both.
IdsApart ==
    \A i, j \in open : i # j /\ win[i].ssn = win[j].ssn /\ win[i].ssn # 0
                            => win[i].strayed /\ win[j].strayed

\* A chosen id is nowhere before it is written, and the id of a cold creation
\* nowhere before it begins.
Unwritten ==
    \A p \in Procs : proc[p].pc \in Unused =>
        /\ \A i \in open : win[i].ssn # proc[p].ssn
        /\ \A q \in Procs : q # p => proc[q].ssn # proc[p].ssn

Reserved ==
    \A p \in Clients : proc[p].pc \in Reserving =>
        /\ \A i \in open : win[i].ssn # OwnId(p)
        /\ \A q \in Procs : proc[q].ssn # OwnId(p)

\* A window that has a process's id is the one it works on, unless it has
\* strayed; and the window it works on has its id.
Traced ==
    \A p \in Procs, i \in Index :
        /\ Clean(i)
        /\ win[i].ssn = proc[p].ssn
        /\ proc[p].ssn # 0
        => At(p, i)

Marked ==
    \A p \in Procs, i \in Index :
        At(p, i) /\ Clean(i) =>
            /\ proc[p].pc \in Claiming \cup {"seed_flag"} => win[i].ssn = proc[p].ssn
            /\ proc[p].pc \in {"cold_options", "seed_id"} => win[i].ssn = 0
            /\ proc[p].pc = "seed_id" => win[i].named
            /\ proc[p].pc = "cold_options" => ~win[i].named
            /\ proc[p].pc \in {"claim_name", "select"} => ~win[i].flag \/ win[i].rushed
            /\ proc[p].pc = "select" => ~win[i].named

\* A creation has its entry before its window; a spare has none before it is
\* made, and one that has was claimed meanwhile.
Entered ==
    \A p \in Procs :
        /\ proc[p].pc = "cold_options" => proc[p].ssn \in entries
        /\ proc[p].pc \in {"new", "seed_id"} => proc[p].ssn \notin entries
        /\ proc[p].pc = "seed_flag" /\ proc[p].ssn \in entries =>
              \A i \in open : win[i].ssn = proc[p].ssn => win[i].rushed \/ win[i].strayed

\* A claim that overtakes the seed of its window has noticed.
Overtaken ==
    \A p, q \in Procs, i \in Index :
        /\ At(p, i) /\ proc[p].pc \in {"claim_name", "select"}
        /\ At(q, i) /\ proc[q].pc \in {"seed_id", "seed_flag"}
        => win[i].rushed

\* A window that is not called a spare is a session of the manifest, or its
\* claim is about to end.
Renamed ==
    \A i \in open :
        \/ win[i].named \/ win[i].ssn = 0 \/ win[i].failed \/ win[i].strayed
        \/ win[i].ssn \in entries
        \/ \E p \in Procs : proc[p].pc = "select" /\ proc[p].ssn = win[i].ssn

PoolInv ==
    /\ TypeOK
    /\ Roles
    /\ Placed
    /\ IdsApart
    /\ Unwritten
    /\ Reserved
    /\ Traced
    /\ Marked
    /\ Entered
    /\ Overtaken
    /\ Renamed
    /\ ManagedIsShown

-----------------------------------------------------------------------------
(* The operators *)

Process == [pc : Pc, cwd : Cwd, idx : Index, ssn : Id, todo : SUBSET Cwd, lost : BOOLEAN]

LEMMA Bounds ==
  /\ NumCwds \in Nat \ {0} /\ MaxWindows \in Nat \ {0} /\ MaxIds \in Nat \ {0} /\ MaxGone \in Nat
  /\ 1 \in Cwd /\ 1 \in Index /\ 0 \in Id /\ Index \subseteq Nat /\ Id \subseteq Nat
  /\ Idle \in Process /\ Idle.pc = "idle" /\ Idle.ssn = 0
  /\ \A t \in Tasks : t \notin Clients
  /\ \A p \in Clients : OwnId(p) \in Id /\ OwnId(p) # 0 /\ OwnId(p) \notin Cwd
  /\ \A p, q \in Clients : OwnId(p) = OwnId(q) => p = q
<1>1. /\ NumCwds \in Nat \ {0} /\ MaxWindows \in Nat \ {0} /\ MaxIds \in Nat \ {0} /\ MaxGone \in Nat
      /\ 1 \in Cwd /\ 1 \in Index /\ 0 \in Id /\ Index \subseteq Nat /\ Id \subseteq Nat
  BY WarmPoolAssumption DEF Cwd, Index, Id
<1>2. Idle \in Process /\ Idle.pc = "idle" /\ Idle.ssn = 0
  BY <1>1 DEF Idle, Process, Pc
<1>3. \A t \in Tasks : t \notin Clients
  BY WarmPoolAssumption
<1>4. \A p \in Clients : p \in Nat \ {0} /\ NumCwds + p <= MaxIds
  BY WarmPoolAssumption
<1>5. \A p \in Clients : OwnId(p) \in Id /\ OwnId(p) # 0 /\ OwnId(p) \notin Cwd
  BY <1>1, <1>4 DEF OwnId, Id, Cwd
<1>6. \A p, q \in Clients : OwnId(p) = OwnId(q) => p = q
  BY <1>1, <1>4 DEF OwnId
<1> QED BY <1>1, <1>2, <1>3, <1>5, <1>6

LEMMA NewWindowType ==
  ASSUME NEW c \in Cwd, NEW named \in BOOLEAN
  PROVE  /\ NewWindow(c, named) \in Window
         /\ NewWindow(c, named).ssn = 0 /\ NewWindow(c, named).named = named
         /\ ~NewWindow(c, named).flag /\ ~NewWindow(c, named).strayed
BY Bounds DEF NewWindow, Window

\* A window whose options are set for a claim, a creation or a seed, or that is
\* renamed.
Claimed(w, s, rushed, lost) ==
    [[w EXCEPT !.ssn = s, !.flag = FALSE, !.rushed = @ \/ rushed] EXCEPT !.strayed = @ \/ lost]
Unnamed(w, lost)    == [[w EXCEPT !.named = FALSE] EXCEPT !.strayed = @ \/ lost]
Created(w, s, lost) == [w EXCEPT !.ssn = s, !.flag = FALSE, !.strayed = @ \/ lost]
Numbered(w, s, lost) == [[w EXCEPT !.ssn = s] EXCEPT !.strayed = @ \/ lost]
Flagged(w, lost)    == [w EXCEPT !.flag = TRUE, !.strayed = @ \/ lost]

LEMMA ClaimedWindow ==
  ASSUME NEW w \in Window, NEW s \in Id, NEW r \in BOOLEAN, NEW lost \in BOOLEAN
  PROVE  LET x == Claimed(w, s, r, lost) IN
         /\ x \in Window /\ x.ssn = s /\ ~x.flag /\ x.named = w.named /\ x.failed = w.failed
         /\ x.rushed = (w.rushed \/ r) /\ x.strayed = (w.strayed \/ lost)
BY DEF Window, Claimed

LEMMA UnnamedWindow ==
  ASSUME NEW w \in Window, NEW lost \in BOOLEAN
  PROVE  LET x == Unnamed(w, lost) IN
         /\ x \in Window /\ x.ssn = w.ssn /\ x.flag = w.flag /\ ~x.named /\ x.failed = w.failed
         /\ x.rushed = w.rushed /\ x.strayed = (w.strayed \/ lost)
BY DEF Window, Unnamed

LEMMA CreatedWindow ==
  ASSUME NEW w \in Window, NEW s \in Id, NEW lost \in BOOLEAN
  PROVE  LET x == Created(w, s, lost) IN
         /\ x \in Window /\ x.ssn = s /\ ~x.flag /\ x.named = w.named /\ x.failed = w.failed
         /\ x.rushed = w.rushed /\ x.strayed = (w.strayed \/ lost)
BY DEF Window, Created

LEMMA NumberedWindow ==
  ASSUME NEW w \in Window, NEW s \in Id, NEW lost \in BOOLEAN
  PROVE  LET x == Numbered(w, s, lost) IN
         /\ x \in Window /\ x.ssn = s /\ x.flag = w.flag /\ x.named = w.named /\ x.failed = w.failed
         /\ x.rushed = w.rushed /\ x.strayed = (w.strayed \/ lost)
BY DEF Window, Numbered

LEMMA FlaggedWindow ==
  ASSUME NEW w \in Window, NEW lost \in BOOLEAN
  PROVE  LET x == Flagged(w, lost) IN
         /\ x \in Window /\ x.ssn = w.ssn /\ x.flag /\ x.named = w.named /\ x.failed = w.failed
         /\ x.rushed = w.rushed /\ x.strayed = (w.strayed \/ lost)
BY DEF Window, Flagged

-----------------------------------------------------------------------------
(* What a step does to the process that takes it *)

OthersStay(p) == proc' \in [Procs -> Process] /\ \A q \in Procs \ {p} : proc'[q] = proc[q]

\* It has nothing in hand any more.
Freed(p) ==
    /\ OthersStay(p)
    /\ proc'[p].ssn = 0
    /\ proc'[p].pc \in {"idle", "done", "list"}
    /\ proc'[p].pc = "idle" => p \in Tasks
    /\ proc'[p].pc = "done" => p \in Clients

\* It goes on with the same window and the same id.
WentOn(p, pc) ==
    /\ OthersStay(p)
    /\ proc'[p].pc = pc
    /\ proc'[p].ssn = proc[p].ssn /\ proc'[p].idx = proc[p].idx /\ proc'[p].lost = proc[p].lost

LEMMA ProcTypes ==
  ASSUME TypeOK
  PROVE  /\ proc \in [Procs -> Process]
         /\ \A p \in Procs : /\ proc[p] \in Process /\ proc[p].pc \in Pc /\ proc[p].cwd \in Cwd
                              /\ proc[p].idx \in Index /\ proc[p].ssn \in Id
                              /\ proc[p].todo \in SUBSET Cwd /\ proc[p].lost \in BOOLEAN
<1>1. proc \in [Procs -> Process]
  BY DEF TypeOK, Process
<1> QED BY <1>1 DEF Process

LEMMA EndFrees ==
  ASSUME TypeOK, NEW p \in Procs, Ends(p)
  PROVE  Freed(p)
<1> DEFINE x == IF p \in Tasks THEN Idle ELSE [Idle EXCEPT !.pc = "done"]
<1>1. proc \in [Procs -> Process] /\ p \in Clients \cup Tasks
  BY ProcTypes DEF Procs
<1>2. [Idle EXCEPT !.pc = "done"] \in Process /\ [Idle EXCEPT !.pc = "done"].pc = "done"
      /\ [Idle EXCEPT !.pc = "done"].ssn = 0
  BY Bounds DEF Process, Idle, Pc
<1>3. x \in Process /\ x.ssn = 0 /\ x.pc \in {"idle", "done", "list"}
      /\ (x.pc = "idle" => p \in Tasks) /\ (x.pc = "done" => p \in Clients)
  BY <1>1, <1>2, Bounds
<1>4. proc' = [proc EXCEPT ![p] = x]
  BY DEF Ends
<1> HIDE DEF x
<1> QED BY <1>1, <1>3, <1>4 DEF Freed, OthersStay

LEMMA RefillFrees ==
  ASSUME TypeOK, NEW p \in Procs, Refill(p)
  PROVE  Freed(p)
<1> DEFINE x == [Idle EXCEPT !.pc = "list", !.cwd = proc[p].cwd]
<1>1. proc \in [Procs -> Process] /\ proc[p].cwd \in Cwd
  BY ProcTypes
<1>2. x \in Process /\ x.ssn = 0 /\ x.pc = "list"
  BY <1>1, Bounds DEF Process, Idle, Pc
<1>3. proc' = [proc EXCEPT ![p] = x]
  BY DEF Refill
<1> HIDE DEF x
<1> QED BY <1>1, <1>2, <1>3 DEF Freed, OthersStay

LEMMA NextFrees ==
  ASSUME TypeOK, NEW p \in Procs, NEW todo \in SUBSET Cwd, NextCwd(p, todo)
  PROVE  Freed(p)
<1>1. PICK c \in todo : proc' = [proc EXCEPT ![p] = [Idle EXCEPT !.pc = "list", !.cwd = c,
                                                                !.todo = todo \ {c}]]
  BY DEF NextCwd
<1> DEFINE x == [Idle EXCEPT !.pc = "list", !.cwd = c, !.todo = todo \ {c}]
<1>2. proc \in [Procs -> Process] /\ c \in Cwd /\ todo \ {c} \in SUBSET Cwd
  BY ProcTypes
<1>3. x \in Process /\ x.ssn = 0 /\ x.pc = "list"
  BY <1>2, Bounds DEF Process, Idle, Pc
<1>4. proc' = [proc EXCEPT ![p] = x]
  BY <1>1
<1> HIDE DEF x
<1> QED BY <1>2, <1>3, <1>4 DEF Freed, OthersStay

LEMMA DoneFrees ==
  ASSUME TypeOK, NEW p \in Procs, NEW n, SeedDone(p, n)
  PROVE  Freed(p)
<1>1. proc[p].todo \in SUBSET Cwd
  BY ProcTypes
<1> QED BY <1>1, EndFrees, NextFrees DEF SeedDone

-----------------------------------------------------------------------------
(* Steps that open and close no window *)

LEMMA WindowTypes ==
  ASSUME TypeOK
  PROVE  /\ open \subseteq Index /\ entries \subseteq 1..MaxIds
         /\ win \in [Index -> Window]
         /\ \A i \in Index : /\ win[i] \in Window /\ win[i].ssn \in Id /\ win[i].flag \in BOOLEAN
                             /\ win[i].named \in BOOLEAN /\ win[i].strayed \in BOOLEAN
                             /\ win[i].rushed \in BOOLEAN /\ win[i].failed \in BOOLEAN
                             /\ win[i].cwd \in Cwd
BY DEF TypeOK, Window

\* The window at j keeps its id, or gets that of the process that works on it;
\* and the command has strayed when that one is gone.
KeepsOrTakes(p, j) ==
    \/ win'[j] = win[j]
    \/ /\ j = proc[p].idx /\ j \in open /\ proc[p].pc \in Holding
       /\ win'[j].strayed <=> win[j].strayed \/ proc[p].lost
       /\ win'[j].ssn \in {win[j].ssn, proc[p].ssn}

\* At most that window is changed.
StepOn(p) ==
    /\ open' = open
    /\ entries \subseteq entries' /\ entries' \subseteq 1..MaxIds /\ gone' = gone
    /\ win' \in [Index -> Window]
    /\ \A j \in Index : KeepsOrTakes(p, j)

\* A process frees itself, or goes on with a claim or to the last step of a seed.
Advances(p) ==
    \/ Freed(p)
    \/ \E pc \in {"claim_name", "select"} : WentOn(p, pc) /\ proc[p].pc \in Claiming
    \/ WentOn(p, "seed_flag") /\ proc[p].pc = "seed_id"

LEMMA StepFrame ==
  ASSUME PoolInv, NEW p \in Procs, StepOn(p), Advances(p)
  PROVE  TypeOK' /\ Roles' /\ Placed' /\ IdsApart' /\ Unwritten' /\ Reserved' /\ Traced'
<1>1. /\ proc \in [Procs -> Process]
      /\ \A q \in Procs : /\ proc[q] \in Process /\ proc[q].idx \in Index /\ proc[q].ssn \in Id
                           /\ proc[q].lost \in BOOLEAN
      /\ open \subseteq Index /\ win \in [Index -> Window]
      /\ \A i \in Index : win[i].strayed \in BOOLEAN /\ win[i].ssn \in Id
  BY ProcTypes, WindowTypes DEF PoolInv
<1>2. /\ open' = open /\ win' \in [Index -> Window] /\ \A j \in Index : KeepsOrTakes(p, j)
      /\ \A i \in Index : win'[i].strayed \in BOOLEAN
  BY DEF StepOn, Window
<1>3. OthersStay(p) /\ proc' \in [Procs -> Process] /\ \A q \in Procs \ {p} : proc'[q] = proc[q]
  BY DEF Advances, Freed, WentOn, OthersStay
<1>4. \/ /\ proc'[p].pc \in {"idle", "done", "list"} /\ proc'[p].ssn = 0
         /\ proc'[p].pc = "idle" => p \in Tasks
         /\ proc'[p].pc = "done" => p \in Clients
      \/ /\ proc'[p].pc \in {"claim_name", "select"} /\ proc[p].pc \in Claiming
         /\ proc'[p].ssn = proc[p].ssn /\ proc'[p].idx = proc[p].idx /\ proc'[p].lost = proc[p].lost
      \/ /\ proc'[p].pc = "seed_flag" /\ proc[p].pc = "seed_id"
         /\ proc'[p].ssn = proc[p].ssn /\ proc'[p].idx = proc[p].idx /\ proc'[p].lost = proc[p].lost
  BY DEF Advances, Freed, WentOn
<1>5. \A q \in Procs, i \in Index : At(q, i)' => At(q, i) /\ proc'[q].ssn = proc[q].ssn
  BY <1>3, <1>4 DEF At, Holding, Claiming
<1>6. \A i \in Index : Clean(i)' => Clean(i) /\ (win'[i] = win[i] \/ At(p, i))
  BY <1>1, <1>2 DEF KeepsOrTakes, Clean, At
<1>7. \A i \in Index : Clean(i)' =>
        \/ win'[i].ssn = win[i].ssn
        \/ At(p, i) /\ proc[p].pc \in Unused /\ win'[i].ssn = proc[p].ssn
  <2> SUFFICES ASSUME NEW i \in Index, Clean(i)', win'[i].ssn # win[i].ssn
               PROVE  At(p, i) /\ proc[p].pc \in Unused /\ win'[i].ssn = proc[p].ssn
    OBVIOUS
  <2>1. At(p, i) /\ Clean(i) /\ win'[i].ssn = proc[p].ssn
    BY <1>2, <1>6 DEF KeepsOrTakes
  <2>2. proc[p].pc \in Claiming \cup {"seed_flag"} => win[i].ssn = proc[p].ssn
    BY <2>1 DEF PoolInv, Marked
  <2> QED BY <2>1, <2>2 DEF At, Holding, Claiming, Unused
<1>8. \A i \in Index : win[i].strayed => win'[i].strayed
  BY <1>2 DEF KeepsOrTakes
<1>9. \A i \in Index : win'[i].ssn \in {win[i].ssn, proc[p].ssn} /\ (i # proc[p].idx => win'[i] = win[i])
  BY <1>2 DEF KeepsOrTakes
<1>10. TypeOK'
  <2>1. proc' \in [Procs -> [pc : Pc, cwd : Cwd, idx : Index, ssn : Id, todo : SUBSET Cwd, lost : BOOLEAN]]
    BY <1>3 DEF Process
  <2>2. \A i \in Index \ open : win'[i] = NewWindow(1, FALSE)
    BY <1>2 DEF PoolInv, TypeOK, KeepsOrTakes
  <2>3. \A q \in Procs : proc'[q].pc \in {"idle", "done", "list"} => proc'[q].ssn = 0
    BY <1>3, <1>4 DEF PoolInv, TypeOK
  <2>4. entries' \subseteq 1..MaxIds /\ gone' \in 0..MaxGone /\ open' \subseteq Index
    BY <1>1, <1>2 DEF StepOn, PoolInv, TypeOK
  <2> QED BY <1>2, <2>1, <2>2, <2>3, <2>4 DEF TypeOK
<1>11. Roles'
  <2>1. Roles /\ p \in Clients \cup Tasks /\ Clients \cap Tasks = {}
    BY WarmPoolAssumption DEF PoolInv, Procs
  <2>2. \A q \in Clients : proc'[q].pc \in ClientPc
    BY <1>3, <1>4, <2>1 DEF Roles, ClientPc, Claiming, Seeding, Procs
  <2>3. \A q \in Tasks : proc'[q].pc \in TaskPc
    BY <1>3, <1>4, <2>1 DEF Roles, TaskPc, Claiming, Seeding, Procs
  <2>4. \A q \in Procs : proc'[q].pc \notin {"idle", "done", "list"} => proc'[q].ssn # 0
    BY <1>3, <1>4, <2>1 DEF Roles, Claiming
  <2> QED BY <2>2, <2>3, <2>4 DEF Roles
<1>12. Placed'
  <2>1. \A q \in Procs, i \in Index : At(q, i)' /\ proc'[q].pc \in Making => proc[q].pc \in Making
    BY <1>3, <1>4 DEF At, Making, Holding
  <2>2. \A q \in Procs, i \in Index : At(q, i)' => i \in open'
    BY <1>2, <1>5 DEF PoolInv, Placed
  <2>3. \A q, r \in Procs, i \in Index :
           q # r /\ At(q, i)' /\ At(r, i)' => proc'[q].pc \notin Making \/ proc'[r].pc \notin Making
    BY <1>5, <2>1 DEF PoolInv, Placed
  <2> QED BY <2>2, <2>3 DEF Placed
<1>13. IdsApart'
  <2> SUFFICES ASSUME NEW i \in open, NEW j \in open, i # j, win'[i].ssn = win'[j].ssn, win'[i].ssn # 0,
                      ~win'[i].strayed
               PROVE  FALSE
    BY <1>1, <1>2 DEF IdsApart
  <2>1. i \in Index /\ j \in Index /\ Clean(i)' /\ Clean(i)
    BY <1>1, <1>2, <1>6 DEF Clean
  <2>2. CASE win'[i].ssn = win[i].ssn /\ win'[j].ssn = win[j].ssn
    BY <2>1, <2>2 DEF PoolInv, IdsApart, Clean
  <2>3. CASE win'[i].ssn # win[i].ssn
    <3>1. At(p, i) /\ proc[p].pc \in Unused /\ win'[i].ssn = proc[p].ssn
      BY <1>7, <2>1, <2>3
    <3>2. win'[j] = win[j]
      BY <1>9, <2>1, <3>1 DEF At
    <3> QED BY <3>1, <3>2 DEF PoolInv, Unwritten
  <2>4. CASE win'[i].ssn = win[i].ssn /\ win'[j].ssn # win[j].ssn
    <3>1. win[i].ssn = proc[p].ssn /\ proc[p].ssn # 0 /\ j = proc[p].idx
      BY <1>9, <2>1, <2>4
    <3>2. At(p, i)
      BY <2>1, <3>1 DEF PoolInv, Traced
    <3> QED BY <3>1, <3>2 DEF At
  <2> QED BY <2>2, <2>3, <2>4
<1>14. Unwritten'
  <2> SUFFICES ASSUME NEW q \in Procs, proc'[q].pc \in Unused
               PROVE  /\ \A i \in open : win'[i].ssn # proc'[q].ssn
                      /\ \A r \in Procs : r # q => proc'[r].ssn # proc'[q].ssn
    BY <1>2 DEF Unwritten
  <2>1. q # p /\ proc'[q] = proc[q]
    BY <1>3, <1>4 DEF Unused
  <2>2. /\ \A i \in open : win[i].ssn # proc[q].ssn
        /\ \A r \in Procs : r # q => proc[r].ssn # proc[q].ssn
        /\ proc[q].ssn # 0
    BY <2>1 DEF PoolInv, Unwritten, Roles, Unused
  <2>3. \A i \in open : win'[i].ssn # proc[q].ssn
    BY <1>1, <1>9, <2>1, <2>2
  <2>4. \A r \in Procs : r # q => proc'[r].ssn # proc[q].ssn
    BY <1>3, <1>4, <2>2
  <2> QED BY <2>1, <2>3, <2>4
<1>15. Reserved'
  <2> SUFFICES ASSUME NEW q \in Clients, proc'[q].pc \in Reserving
               PROVE  /\ \A i \in open : win'[i].ssn # OwnId(q)
                      /\ \A r \in Procs : proc'[r].ssn # OwnId(q)
    BY <1>2 DEF Reserved, OwnId
  <2>1. proc[q].pc \in Reserving
    BY <1>3, <1>4, Bounds DEF Reserving, Procs, Claiming
  <2>2. /\ \A i \in open : win[i].ssn # OwnId(q)
        /\ \A r \in Procs : proc[r].ssn # OwnId(q)
        /\ OwnId(q) # 0
    BY <2>1, Bounds DEF PoolInv, Reserved
  <2>3. \A i \in open : win'[i].ssn # OwnId(q)
    BY <1>1, <1>9, <2>2
  <2>4. \A r \in Procs : proc'[r].ssn # OwnId(q)
    BY <1>3, <1>4, <2>2
  <2> QED BY <2>3, <2>4
<1>16. Traced'
  <2> SUFFICES ASSUME NEW q \in Procs, NEW i \in Index, Clean(i)', win'[i].ssn = proc'[q].ssn,
                      proc'[q].ssn # 0
               PROVE  At(q, i)'
    BY DEF Traced
  <2>1. proc'[q].ssn = proc[q].ssn /\ proc'[q].idx = proc[q].idx /\ proc'[q].lost = proc[q].lost
        /\ (proc[q].pc \in Holding => proc'[q].pc \in Holding)
    BY <1>3, <1>4 DEF Holding
  <2>2. CASE win'[i].ssn = win[i].ssn
    <3>1. At(q, i)
      BY <1>6, <2>1, <2>2 DEF PoolInv, Traced
    <3> QED BY <2>1, <3>1 DEF At
  <2>3. CASE win'[i].ssn # win[i].ssn
    <3>1. At(p, i) /\ proc[p].pc \in Unused /\ win'[i].ssn = proc[p].ssn
      BY <1>7, <2>3
    <3>2. q = p
      BY <2>1, <3>1 DEF PoolInv, Unwritten
    <3> QED BY <2>1, <3>1, <3>2 DEF At
  <2> QED BY <2>2, <2>3
<1> QED BY <1>10, <1>11, <1>12, <1>13, <1>14, <1>15, <1>16

\* A process frees itself and no window changes: what the others know stands.
LEMMA FreedFrame ==
  ASSUME PoolInv, NEW p \in Procs, Freed(p), win' = win, open' = open
  PROVE  /\ Marked' /\ Overtaken'
         /\ \A q \in Procs : proc'[q].pc \in {"select", "cold_options", "new", "seed_id", "seed_flag"} =>
              q # p /\ proc'[q] = proc[q]
<1>1. /\ \A q \in Procs : q # p => proc'[q] = proc[q]
      /\ proc'[p].pc \in {"idle", "done", "list"}
  BY DEF Freed, OthersStay
<1>2. \A q \in Procs, i \in Index : At(q, i)' => At(q, i) /\ proc'[q] = proc[q]
  BY <1>1 DEF At, Holding
<1>3. \A i \in Index : Clean(i)' = Clean(i)
  BY DEF Clean
<1>4. Marked'
  BY <1>2, <1>3 DEF PoolInv, Marked
<1>5. Overtaken'
  BY <1>2 DEF PoolInv, Overtaken
<1> QED BY <1>1, <1>4, <1>5

\* So it is for the manifest, when the id it drops is on no window.
LEMMA DropsUnused ==
  ASSUME PoolInv, NEW p \in Procs, Freed(p), UNCHANGED <<open, win, gone>>,
         entries' \in {entries, entries \cup {proc[p].ssn}},
         proc[p].pc \in {"idle", "list"} => entries' = entries,
         proc[p].pc \in {"idle", "list"} \cup Unused
  PROVE  PoolInv'
<1>1. StepOn(p)
  BY WindowTypes, ProcTypes DEF StepOn, KeepsOrTakes, PoolInv, Roles, Unused, Id
<1>2. TypeOK' /\ Roles' /\ Placed' /\ IdsApart' /\ Unwritten' /\ Reserved' /\ Traced'
  BY <1>1, StepFrame DEF Advances
<1>3. Marked' /\ Overtaken'
      /\ \A q \in Procs : proc'[q].pc \in {"select", "cold_options", "new", "seed_id", "seed_flag"} =>
           q # p /\ proc'[q] = proc[q]
  BY FreedFrame
<1>4. /\ \A q \in Procs : q # p => proc'[q] = proc[q]
      /\ proc[p].pc \in {"idle", "list"} => proc[p].ssn = 0
      /\ proc[p].pc \in Unused => /\ \A i \in open : win[i].ssn # proc[p].ssn
                                 /\ \A q \in Procs : q # p => proc[q].ssn # proc[p].ssn
  BY DEF Freed, OthersStay, PoolInv, TypeOK, Unwritten
<1>5. Entered'
  <2> SUFFICES ASSUME NEW q \in Procs
               PROVE  /\ proc'[q].pc = "cold_options" => proc'[q].ssn \in entries'
                      /\ proc'[q].pc \in {"new", "seed_id"} => proc'[q].ssn \notin entries'
                      /\ proc'[q].pc = "seed_flag" /\ proc'[q].ssn \in entries' =>
                           \A i \in open' : win'[i].ssn = proc'[q].ssn => win'[i].rushed \/ win'[i].strayed
    BY DEF Entered
  <2>1. CASE proc'[q].pc \notin {"cold_options", "new", "seed_id", "seed_flag"}
    BY <2>1
  <2>2. CASE proc'[q].pc \in {"cold_options", "new", "seed_id", "seed_flag"}
    <3>1. q # p /\ proc'[q] = proc[q]
      BY <1>3, <2>2
    <3>2. proc[q].ssn \in entries' => proc[q].ssn \in entries
      BY <1>4, <3>1
    <3> QED BY <3>1, <3>2 DEF PoolInv, Entered
  <2> QED BY <2>1, <2>2
<1>6. Renamed'
  <2>1. \A q \in Procs : proc[q].pc = "select" => proc'[q] = proc[q]
    BY <1>4 DEF Unused
  <2> QED BY <2>1 DEF PoolInv, Renamed
<1>7. ManagedIsShown'
  <2> SUFFICES ASSUME NEW i \in open, Pool(win[i]), win[i].ssn \in entries', ~win[i].rushed, ~win[i].strayed
               PROVE  UnderWay(win[i].ssn)'
    BY DEF ManagedIsShown, Spares, Pool, UnderWay
  <2>1. win[i].ssn \in entries /\ win[i].ssn # 0
    BY <1>4, WindowTypes DEF PoolInv, StepOn
  <2>2. PICK q \in Procs : proc[q].ssn = win[i].ssn
    BY <2>1 DEF PoolInv, ManagedIsShown, Spares, UnderWay
  <2>3. q # p
    BY <1>4, <2>1, <2>2
  <2> QED BY <1>4, <2>2, <2>3 DEF UnderWay
<1> QED BY <1>2, <1>3, <1>5, <1>6, <1>7 DEF PoolInv

-----------------------------------------------------------------------------
(* Claims *)

\* A cold creation begins, with its own id: at once, or after a failed claim,
\* whose window is marked unless it has gone.
LEMMA ColdBegins ==
  ASSUME PoolInv, NEW p \in Clients, NEW c \in Cwd, proc[p].pc \in {"idle", "claim_name", "select"},
         ColdCreate(p, c), UNCHANGED <<open, entries, gone>>,
         win' = IF proc[p].pc = "select" /\ proc[p].idx \in open /\ ~proc[p].lost
                THEN [win EXCEPT ![proc[p].idx].failed = TRUE] ELSE win,
         proc[p].pc = "claim_name" => proc[p].idx \notin open
  PROVE  PoolInv'
<1> DEFINE x == [Idle EXCEPT !.pc = "cold", !.cwd = c, !.ssn = OwnId(p)]
           i0 == proc[p].idx
           w0 == [win[i0] EXCEPT !.failed = TRUE]
<1>1. /\ p \in Procs /\ proc \in [Procs -> Process]
      /\ \A q \in Procs : proc[q] \in Process /\ proc[q].idx \in Index /\ proc[q].ssn \in Id
      /\ open \subseteq Index /\ win \in [Index -> Window] /\ entries \subseteq 1..MaxIds
      /\ \A i \in Index : win[i] \in Window /\ win[i].ssn \in Id
  BY ProcTypes, WindowTypes DEF PoolInv, Procs
<1>2. x \in Process /\ x.pc = "cold" /\ x.ssn = OwnId(p) /\ OwnId(p) \in Id /\ OwnId(p) # 0
  BY Bounds DEF Process, Idle, Pc
<1>3. proc' = [proc EXCEPT ![p] = x]
  BY DEF ColdCreate
<1>4. /\ proc' \in [Procs -> Process] /\ proc'[p].pc = "cold" /\ proc'[p].ssn = OwnId(p)
      /\ \A q \in Procs : q # p => proc'[q] = proc[q]
  <2> HIDE DEF x
  <2> QED BY <1>1, <1>2, <1>3
<1>5. w0 \in Window /\ w0.failed /\ w0.ssn = win[i0].ssn /\ w0.flag = win[i0].flag
      /\ w0.named = win[i0].named /\ w0.strayed = win[i0].strayed /\ w0.rushed = win[i0].rushed
  <2>1. i0 \in Index /\ win[i0] \in Window
    BY <1>1
  <2> HIDE DEF i0
  <2> QED BY <2>1 DEF Window
<1>6. /\ win' \in [Index -> Window]
      /\ \A i \in Index : /\ win'[i].ssn = win[i].ssn /\ win'[i].flag = win[i].flag
                          /\ win'[i].named = win[i].named /\ win'[i].strayed = win[i].strayed
                          /\ win'[i].rushed = win[i].rushed
                          /\ i \notin open => win'[i] = win[i]
                          /\ win[i].failed => win'[i].failed
      /\ proc[p].pc = "select" /\ i0 \in open /\ ~proc[p].lost => win'[i0].failed
  <2>1. CASE proc[p].pc = "select" /\ i0 \in open /\ ~proc[p].lost
    <3>1. win' = [win EXCEPT ![i0] = w0]
      BY <2>1
    <3> HIDE DEF w0
    <3> QED BY <1>1, <1>5, <2>1, <3>1
  <2>2. CASE ~(proc[p].pc = "select" /\ i0 \in open /\ ~proc[p].lost)
    <3>1. win' = win
      BY <2>2
    <3> QED BY <1>1, <2>2, <3>1
  <2> QED BY <2>1, <2>2
<1> HIDE DEF x, w0, i0
<1>7. /\ \A i \in open : win[i].ssn # OwnId(p)
      /\ \A q \in Procs : proc[q].ssn # OwnId(p)
  BY DEF PoolInv, Reserved, Reserving, Claiming
<1>8. open' = open /\ entries' = entries /\ gone' = gone
  OBVIOUS
<1>9. \A q \in Procs, i \in Index : At(q, i)' => q # p /\ At(q, i) /\ proc'[q] = proc[q]
  BY <1>4 DEF At, Holding
<1>10. \A i \in Index : Clean(i)' <=> Clean(i)
  BY <1>6, <1>8 DEF Clean
<1>11. TypeOK'
  <2>1. proc' \in [Procs -> [pc : Pc, cwd : Cwd, idx : Index, ssn : Id, todo : SUBSET Cwd, lost : BOOLEAN]]
    BY <1>4 DEF Process
  <2>2. \A i \in Index \ open : win'[i] = NewWindow(1, FALSE)
    BY <1>6 DEF PoolInv, TypeOK
  <2>3. \A q \in Procs : proc'[q].pc \in {"idle", "done", "list"} => proc'[q].ssn = 0
    BY <1>4 DEF PoolInv, TypeOK
  <2> QED BY <1>1, <1>6, <1>8, <2>1, <2>2, <2>3 DEF TypeOK, PoolInv
<1>12. Roles'
  <2>1. Roles /\ p \notin Tasks
    BY Bounds DEF PoolInv
  <2> QED BY <1>2, <1>4, <2>1 DEF Roles, ClientPc, TaskPc, Claiming, Seeding, Procs
<1>13. Placed'
  BY <1>8, <1>9 DEF PoolInv, Placed
<1>14. IdsApart'
  BY <1>1, <1>6, <1>8 DEF PoolInv, IdsApart
<1>15. Unwritten'
  BY <1>1, <1>4, <1>6, <1>7, <1>8 DEF PoolInv, Unwritten
<1>16. Reserved'
  <2>1. \A q \in Clients : q # p => OwnId(q) # OwnId(p) /\ q \in Procs
    BY Bounds DEF Procs
  <2>2. "cold" \notin Reserving
    BY DEF Reserving, Claiming
  <2> QED BY <1>1, <1>4, <1>6, <1>8, <2>1, <2>2 DEF PoolInv, Reserved, OwnId
<1>17. Traced'
  <2> SUFFICES ASSUME NEW q \in Procs, NEW i \in Index, Clean(i)', win'[i].ssn = proc'[q].ssn,
                      proc'[q].ssn # 0
               PROVE  At(q, i)'
    BY DEF Traced
  <2>1. q # p
    BY <1>4, <1>6, <1>7, <1>10 DEF Clean
  <2>2. At(q, i)
    BY <1>4, <1>6, <1>10, <2>1 DEF PoolInv, Traced
  <2> QED BY <1>4, <2>1, <2>2 DEF At
<1>18. Marked'
  BY <1>6, <1>9, <1>10 DEF PoolInv, Marked
<1>19. Entered'
  BY <1>1, <1>4, <1>6, <1>8 DEF PoolInv, Entered
<1>20. Overtaken'
  BY <1>6, <1>9 DEF PoolInv, Overtaken
<1>21. \A i \in open : Clean(i) /\ win[i].ssn = proc[p].ssn /\ proc[p].ssn # 0 =>
          i = i0 /\ ~proc[p].lost /\ proc[p].pc = "select"
  BY <1>1 DEF PoolInv, Traced, At, Holding, i0
<1>22. Renamed'
  <2> SUFFICES ASSUME NEW i \in open, ~win[i].named, win[i].ssn # 0, ~win'[i].failed, ~win[i].strayed,
                      win[i].ssn \notin entries
               PROVE  \E q \in Procs : proc'[q].pc = "select" /\ proc'[q].ssn = win[i].ssn
    BY <1>1, <1>6, <1>8 DEF Renamed
  <2>1. PICK q \in Procs : proc[q].pc = "select" /\ proc[q].ssn = win[i].ssn
    BY <1>1, <1>6 DEF PoolInv, Renamed
  <2>2. q # p
    BY <1>6, <1>21, <2>1 DEF Clean
  <2> QED BY <1>4, <2>1, <2>2
<1>23. ManagedIsShown'
  <2> SUFFICES ASSUME NEW i \in open, Pool(win[i]), win[i].ssn \in entries, ~win[i].rushed, ~win[i].strayed
               PROVE  \E q \in Procs : proc'[q].ssn = win[i].ssn
    BY <1>1, <1>6, <1>8 DEF ManagedIsShown, Spares, Pool, UnderWay
  <2>1. PICK q \in Procs : proc[q].ssn = win[i].ssn
    BY DEF PoolInv, ManagedIsShown, Spares, UnderWay
  <2>2. win[i].ssn # 0
    BY <1>1
  <2>3. CASE q = p
    <3>1. At(p, i) /\ proc[p].pc = "select"
      BY <1>1, <1>21, <2>1, <2>2, <2>3 DEF PoolInv, Traced, Clean
    <3> QED BY <1>1, <3>1 DEF PoolInv, Marked, Clean, Pool, Claiming
  <2> QED BY <1>4, <2>1, <2>3
<1> QED BY <1>11, <1>12, <1>13, <1>14, <1>15, <1>16, <1>17, <1>18, <1>19, <1>20, <1>22, <1>23
        DEF PoolInv

LEMMA ClaimKeeps ==
  ASSUME PoolInv, NEW p \in Clients, NEW c \in Cwd, Claim(p, c)
  PROVE  PoolInv'
<1>1. CASE Claimable(c) = {}
  BY <1>1, ColdBegins DEF Claim
<1>2. CASE Claimable(c) # {}
  <2>1. PICK i0 \in Claimable(c) :
           proc' = [proc EXCEPT ![p] = [Idle EXCEPT !.pc = "claim_options", !.cwd = c,
                                                   !.idx = i0, !.ssn = win[i0].ssn]]
    BY <1>2 DEF Claim
  <2> DEFINE x == [Idle EXCEPT !.pc = "claim_options", !.cwd = c, !.idx = i0, !.ssn = win[i0].ssn]
  <2>2. /\ p \in Procs /\ proc \in [Procs -> Process] /\ proc[p].pc = "idle" /\ proc[p].ssn = 0
        /\ open \subseteq Index /\ win \in [Index -> Window] /\ entries \subseteq 1..MaxIds
        /\ i0 \in open /\ i0 \in Index /\ win[i0].ssn \in Id /\ win[i0].ssn # 0
        /\ open' = open /\ win' = win /\ entries' = entries /\ gone' = gone
    BY ProcTypes, WindowTypes DEF PoolInv, Procs, Claim, Claimable, SparesOf, Spares, TypeOK
  <2>3. x \in Process /\ x.pc = "claim_options" /\ x.ssn = win[i0].ssn /\ x.idx = i0 /\ ~x.lost
    BY <2>2, Bounds DEF Process, Idle, Pc
  <2>4. /\ proc' \in [Procs -> Process] /\ proc'[p].pc = "claim_options" /\ proc'[p].ssn = win[i0].ssn
        /\ proc'[p].idx = i0 /\ ~proc'[p].lost
        /\ \A q \in Procs : q # p => proc'[q] = proc[q]
    <3>1. proc' = [proc EXCEPT ![p] = x]
      BY <2>1
    <3> HIDE DEF x
    <3> QED BY <2>2, <2>3, <3>1
  <2> HIDE DEF x
  <2>5. \A q \in Procs, i \in Index : At(q, i)' =>
          \/ q # p /\ At(q, i) /\ proc'[q] = proc[q]
          \/ q = p /\ i = i0 /\ proc'[q].pc = "claim_options" /\ proc'[q].ssn = win[i].ssn
    BY <2>4 DEF At
  <2>6. \A i \in Index : Clean(i)' <=> Clean(i)
    BY <2>2 DEF Clean
  <2>7. TypeOK'
    <3>1. proc' \in [Procs -> [pc : Pc, cwd : Cwd, idx : Index, ssn : Id, todo : SUBSET Cwd, lost : BOOLEAN]]
      BY <2>4 DEF Process
    <3>2. \A q \in Procs : proc'[q].pc \in {"idle", "done", "list"} => proc'[q].ssn = 0
      BY <2>4 DEF PoolInv, TypeOK
    <3> QED BY <2>2, <3>1, <3>2 DEF TypeOK, PoolInv
  <2>8. Roles'
    <3>1. Roles /\ p \notin Tasks
      BY Bounds DEF PoolInv
    <3> QED BY <2>2, <2>4, <3>1 DEF Roles, ClientPc, TaskPc, Claiming, Seeding, Procs
  <2>9. Placed'
    BY <2>2, <2>5 DEF PoolInv, Placed, Making
  <2>10. IdsApart' /\ Renamed'
    BY <2>2, <2>4 DEF PoolInv, IdsApart, Renamed
  <2>11. Unwritten'
    BY <2>2, <2>4 DEF PoolInv, Unwritten, Unused
  <2>12. Reserved'
    <3> SUFFICES ASSUME NEW q \in Clients, proc'[q].pc \in Reserving
                 PROVE  /\ \A i \in open : win[i].ssn # OwnId(q)
                        /\ \A r \in Procs : proc'[r].ssn # OwnId(q)
      BY <2>2 DEF Reserved, OwnId
    <3>1. proc[q].pc \in Reserving
      BY <2>2, <2>4 DEF Reserving, Procs
    <3>2. /\ \A i \in open : win[i].ssn # OwnId(q)
          /\ \A r \in Procs : proc[r].ssn # OwnId(q)
      BY <3>1 DEF PoolInv, Reserved
    <3> QED BY <2>2, <2>4, <3>2
  <2>13. Traced'
    <3> SUFFICES ASSUME NEW q \in Procs, NEW i \in Index, Clean(i), win[i].ssn = proc'[q].ssn,
                        proc'[q].ssn # 0
                 PROVE  At(q, i)'
      BY <2>2, <2>6 DEF Traced
    <3>1. CASE q = p
      <4>1. i = i0
        BY <2>2, <2>4, <3>1 DEF PoolInv, IdsApart, Clean
      <4> QED BY <2>4, <3>1, <4>1 DEF At, Holding
    <3>2. CASE q # p
      BY <2>4, <3>2 DEF PoolInv, Traced, At
    <3> QED BY <3>1, <3>2
  <2>14. Marked'
    BY <2>2, <2>5, <2>6 DEF PoolInv, Marked, Claiming
  <2>15. Entered'
    BY <2>2, <2>4 DEF PoolInv, Entered
  <2>16. Overtaken'
    BY <2>2, <2>5 DEF PoolInv, Overtaken
  <2>17. ManagedIsShown'
    <3> SUFFICES ASSUME NEW i \in open, Pool(win[i]), win[i].ssn \in entries, ~win[i].rushed, ~win[i].strayed
                 PROVE  \E q \in Procs : proc'[q].ssn = win[i].ssn
      BY <2>2 DEF ManagedIsShown, Spares, Pool, UnderWay
    <3>1. PICK q \in Procs : proc[q].ssn = win[i].ssn
      BY DEF PoolInv, ManagedIsShown, Spares, UnderWay
    <3> QED BY <2>2, <2>4, <3>1
  <2> QED BY <2>7, <2>8, <2>9, <2>10, <2>11, <2>12, <2>13, <2>14, <2>15, <2>16, <2>17 DEF PoolInv
<1> QED BY <1>1, <1>2

\* A command of a claim, a creation or a seed makes w of the window at its index,
\* when there is one: the other windows are as before, and if the one it meant is
\* gone, the one it hit has strayed.
LEMMA WriteSteps ==
  ASSUME TypeOK, NEW p \in Procs, proc[p].pc \in Holding, NEW w \in Window,
         win' = IF proc[p].idx \in open THEN [win EXCEPT ![proc[p].idx] = w] ELSE win,
         open' = open, entries' = entries, gone' = gone,
         w.strayed = (win[proc[p].idx].strayed \/ proc[p].lost),
         w.ssn \in {win[proc[p].idx].ssn, proc[p].ssn}
  PROVE  /\ StepOn(p)
         /\ proc[p].idx \in open => win'[proc[p].idx] = w
         /\ \A j \in Index : win'[j] = win[j] \/ (j = proc[p].idx /\ win'[j] = w)
         /\ \A j \in Index : Clean(j)' =>
               Clean(j) /\ (win'[j] = win[j] \/ (j = proc[p].idx /\ At(p, j) /\ win'[j] = w))
<1> DEFINE i0 == proc[p].idx
<1>1. /\ i0 \in Index /\ open \subseteq Index /\ win \in [Index -> Window] /\ entries \subseteq 1..MaxIds
      /\ \A j \in Index : win[j].strayed \in BOOLEAN
      /\ proc[p].lost \in BOOLEAN
  BY ProcTypes, WindowTypes
<1> HIDE DEF i0
<1>2. win' = IF i0 \in open THEN [win EXCEPT ![i0] = w] ELSE win
  BY DEF i0
<1>3. /\ win' \in [Index -> Window] /\ (i0 \in open => win'[i0] = w)
      /\ \A j \in Index : win'[j] = win[j] \/ (j = i0 /\ win'[j] = w /\ i0 \in open)
  BY <1>1, <1>2
<1>4. w.strayed = (win[i0].strayed \/ proc[p].lost) /\ w.ssn \in {win[i0].ssn, proc[p].ssn}
  BY DEF i0
<1>5. ASSUME NEW j \in Index
      PROVE  KeepsOrTakes(p, j)
  <2>1. CASE win'[j] = win[j]
    BY <2>1 DEF KeepsOrTakes
  <2>2. CASE j = i0 /\ i0 \in open /\ win'[j] = w
    <3>1. (win'[j].strayed <=> win[j].strayed \/ proc[p].lost) /\ win'[j].ssn \in {win[j].ssn, proc[p].ssn}
      BY <1>4, <2>2
    <3> QED BY <2>2, <3>1 DEF KeepsOrTakes, i0
  <2> QED BY <1>3, <2>1, <2>2
<1>6. StepOn(p)
  BY <1>1, <1>3, <1>5 DEF StepOn
<1>7. ASSUME NEW j \in Index, Clean(j)'
      PROVE  Clean(j) /\ (win'[j] = win[j] \/ (j = i0 /\ At(p, j) /\ win'[j] = w))
  <2>1. j \in open /\ ~win'[j].strayed
    BY <1>7 DEF Clean
  <2>2. CASE win'[j] = win[j]
    BY <2>1, <2>2 DEF Clean
  <2>3. CASE j = i0 /\ win'[j] = w
    <3>1. ~win[j].strayed /\ ~proc[p].lost
      BY <1>1, <1>4, <2>1, <2>3
    <3> QED BY <2>1, <2>3, <3>1 DEF Clean, At, i0
  <2> QED BY <1>3, <2>2, <2>3
<1> QED BY <1>3, <1>6, <1>7 DEF i0

LEMMA GoesOn ==
  ASSUME TypeOK, NEW p \in Procs, NEW pc \in Pc, proc' = [proc EXCEPT ![p].pc = pc]
  PROVE  WentOn(p, pc)
<1> DEFINE x == [proc[p] EXCEPT !.pc = pc]
<1>1. proc \in [Procs -> Process] /\ proc[p] \in Process
  BY ProcTypes
<1>2. x \in Process /\ x.pc = pc /\ x.ssn = proc[p].ssn /\ x.idx = proc[p].idx /\ x.lost = proc[p].lost
  BY <1>1 DEF Process
<1>3. proc' = [proc EXCEPT ![p] = x]
  OBVIOUS
<1> HIDE DEF x
<1> QED BY <1>1, <1>2, <1>3 DEF WentOn, OthersStay

LEMMA ClaimSetsKeeps ==
  ASSUME PoolInv, NEW p \in Procs, ClaimSetsOptions(p)
  PROVE  PoolInv'
<1> DEFINE i0 == proc[p].idx
           w0 == Claimed(win[i0], proc[p].ssn, BeingMade(i0), proc[p].lost)
<1>1. /\ TypeOK /\ proc[p].pc = "claim_options" /\ i0 \in Index /\ win[i0] \in Window
      /\ proc[p].ssn \in Id /\ proc[p].lost \in BOOLEAN /\ proc[p].ssn # 0
      /\ open \subseteq Index /\ open' = open /\ entries' = entries /\ gone' = gone
  BY ProcTypes, WindowTypes DEF PoolInv, ClaimSetsOptions, Write, Roles
<1>2. BeingMade(i0) \in BOOLEAN
  BY DEF BeingMade
<1>3. /\ w0 \in Window /\ w0.ssn = proc[p].ssn /\ ~w0.flag /\ w0.named = win[i0].named
      /\ w0.failed = win[i0].failed
      /\ w0.strayed = (win[i0].strayed \/ proc[p].lost)
      /\ w0.rushed = (win[i0].rushed \/ BeingMade(i0))
  BY <1>1, <1>2, ClaimedWindow
<1>4. win' = IF i0 \in open THEN [win EXCEPT ![i0] = w0] ELSE win
  BY DEF ClaimSetsOptions, Write, Claimed
<1>5. WentOn(p, "claim_name")
  BY <1>1, GoesOn DEF ClaimSetsOptions, Write, Pc
<1> HIDE DEF w0
<1>6. /\ StepOn(p) /\ (i0 \in open => win'[i0] = w0)
      /\ \A j \in Index : win'[j] = win[j] \/ (j = i0 /\ win'[j] = w0)
      /\ \A j \in Index : Clean(j)' =>
            Clean(j) /\ (win'[j] = win[j] \/ (j = i0 /\ At(p, j) /\ win'[j] = w0))
  BY <1>1, <1>3, <1>4, WriteSteps DEF Holding
<1> HIDE DEF i0
<1>7. Advances(p)
  BY <1>1, <1>5 DEF Advances, Claiming
<1>8. TypeOK' /\ Roles' /\ Placed' /\ IdsApart' /\ Unwritten' /\ Reserved' /\ Traced'
  BY <1>6, <1>7, StepFrame
<1>9. /\ \A q \in Procs : q # p => proc'[q] = proc[q]
      /\ proc'[p].pc = "claim_name" /\ proc'[p].ssn = proc[p].ssn /\ proc'[p].idx = i0
      /\ proc'[p].lost = proc[p].lost
  BY <1>5 DEF WentOn, OthersStay, i0
<1>10. \A q \in Procs, i \in Index : At(q, i)' <=> At(q, i)
  BY <1>1, <1>9 DEF At, Holding, i0
\* What is still clean at i0 has its id as before.
<1>11. \A i \in Index : Clean(i)' => Clean(i) /\ (win'[i] = win[i] \/ (i = i0 /\ At(p, i) /\ win'[i] = w0))
  BY <1>6
<1>12. \A i \in Index : Clean(i) /\ At(p, i) => win[i].ssn = proc[p].ssn
  BY <1>1 DEF PoolInv, Marked, Claiming
<1>13. Marked'
  <2> SUFFICES ASSUME NEW q \in Procs, NEW i \in Index, At(q, i), Clean(i)'
               PROVE  /\ proc'[q].pc \in Claiming \cup {"seed_flag"} => win'[i].ssn = proc'[q].ssn
                      /\ proc'[q].pc \in {"cold_options", "seed_id"} => win'[i].ssn = 0
                      /\ proc'[q].pc = "seed_id" => win'[i].named
                      /\ proc'[q].pc = "cold_options" => ~win'[i].named
                      /\ proc'[q].pc \in {"claim_name", "select"} => ~win'[i].flag \/ win'[i].rushed
                      /\ proc'[q].pc = "select" => ~win'[i].named
    BY <1>10 DEF Marked
  <2>1. Clean(i) /\ win'[i].ssn = win[i].ssn /\ win'[i].named = win[i].named
        /\ (win'[i] = win[i] \/ ~win'[i].flag)
    BY <1>3, <1>11, <1>12
  <2>2. CASE q = p
    <3>1. At(p, i) /\ i = i0 /\ i \in open
      BY <2>1, <2>2 DEF At, Clean, i0
    <3>2. win'[i].ssn = proc[p].ssn /\ ~win'[i].flag
      BY <1>3, <1>6, <3>1
    <3> QED BY <1>9, <2>2, <3>2
  <2>3. CASE q # p
    BY <1>9, <2>1, <2>3 DEF PoolInv, Marked
  <2> QED BY <2>2, <2>3
<1>14. Entered'
  <2> SUFFICES ASSUME NEW q \in Procs, proc[q].pc = "seed_flag", proc[q].ssn \in entries, q # p,
                      NEW i \in open, win'[i].ssn = proc[q].ssn, ~win'[i].strayed
               PROVE  win'[i].rushed
    BY <1>1, <1>9 DEF PoolInv, Entered
  <2>1. Clean(i)' /\ i \in Index
    BY <1>1 DEF Clean
  <2>2. Clean(i) /\ win'[i].ssn = win[i].ssn /\ (win[i].rushed => win'[i].rushed)
    BY <1>3, <1>11, <1>12, <2>1
  <2> QED BY <2>2 DEF PoolInv, Entered, Clean
<1>15. Overtaken'
  <2> SUFFICES ASSUME NEW q \in Procs, NEW r \in Procs, NEW i \in Index, At(q, i), At(r, i),
                      proc'[q].pc \in {"claim_name", "select"}, proc'[r].pc \in {"seed_id", "seed_flag"}
               PROVE  win'[i].rushed
    BY <1>10 DEF Overtaken
  <2>1. r # p /\ proc'[r] = proc[r]
    BY <1>9
  <2>2. CASE q = p
    <3>1. i = i0 /\ i \in open
      BY <2>2 DEF At, PoolInv, Placed, i0
    <3>2. BeingMade(i0)
      BY <2>1, <3>1 DEF BeingMade, At
    <3> QED BY <1>3, <1>6, <3>1, <3>2
  <2>3. CASE q # p
    <3>1. win[i].rushed
      BY <1>9, <2>1, <2>3 DEF PoolInv, Overtaken
    <3> QED BY <1>3, <1>6, <3>1
  <2> QED BY <2>2, <2>3
<1>16. Renamed'
  <2> SUFFICES ASSUME NEW i \in open, ~win'[i].named, win'[i].ssn # 0, ~win'[i].failed, ~win'[i].strayed,
                      win'[i].ssn \notin entries
               PROVE  \E q \in Procs : proc'[q].pc = "select" /\ proc'[q].ssn = win'[i].ssn
    BY <1>1 DEF Renamed
  <2>1. Clean(i)' /\ i \in Index
    BY <1>1 DEF Clean
  <2>2. Clean(i) /\ win'[i].ssn = win[i].ssn /\ win'[i].named = win[i].named /\ win'[i].failed = win[i].failed
    BY <1>3, <1>11, <1>12, <2>1
  <2>3. PICK q \in Procs : proc[q].pc = "select" /\ proc[q].ssn = win[i].ssn
    BY <2>2 DEF PoolInv, Renamed, Clean
  <2> QED BY <1>1, <1>9, <2>2, <2>3
<1>17. ManagedIsShown'
  <2> SUFFICES ASSUME NEW i \in open, Pool(win'[i]), win'[i].ssn \in entries, ~win'[i].rushed,
                      ~win'[i].strayed
               PROVE  \E q \in Procs : proc'[q].ssn = win'[i].ssn
    BY <1>1 DEF ManagedIsShown, Spares, Pool, UnderWay
  <2>1. Clean(i)' /\ i \in Index
    BY <1>1 DEF Clean
  <2>2. Clean(i) /\ win'[i].ssn = win[i].ssn /\ (win[i].rushed => win'[i].rushed)
        /\ (Pool(win'[i]) => Pool(win[i]))
    BY <1>3, <1>11, <1>12, <2>1 DEF Pool
  <2>3. PICK q \in Procs : proc[q].ssn = win[i].ssn
    BY <2>2 DEF PoolInv, ManagedIsShown, Spares, UnderWay, Clean
  <2> QED BY <1>9, <2>2, <2>3
<1> QED BY <1>8, <1>13, <1>14, <1>15, <1>16, <1>17 DEF PoolInv

LEMMA ClaimRenamesKeeps ==
  ASSUME PoolInv, NEW p \in Procs, ClaimRenames(p)
  PROVE  PoolInv'
<1> DEFINE i0 == proc[p].idx
           w0 == Unnamed(win[i0], proc[p].lost)
<1>1. /\ TypeOK /\ proc[p].pc = "claim_name" /\ i0 \in Index /\ win[i0] \in Window
      /\ proc[p].ssn \in Id /\ proc[p].lost \in BOOLEAN /\ proc[p].ssn # 0 /\ proc[p].cwd \in Cwd
      /\ open \subseteq Index
  BY ProcTypes, WindowTypes DEF PoolInv, ClaimRenames, Roles
<1>2. CASE i0 \notin open
  <2>1. p \in Clients
    BY <1>1 DEF PoolInv, Roles, TaskPc, Seeding, Procs
  <2>2. ClaimFails(p)
    BY <1>2 DEF ClaimRenames
  <2> QED BY <1>1, <1>2, <2>1, <2>2, ColdBegins DEF ClaimFails
<1>3. CASE i0 \in open
  <2>1. /\ w0 \in Window /\ w0.ssn = win[i0].ssn /\ w0.flag = win[i0].flag /\ ~w0.named
        /\ w0.failed = win[i0].failed /\ w0.rushed = win[i0].rushed
        /\ w0.strayed = (win[i0].strayed \/ proc[p].lost)
    BY <1>1, UnnamedWindow
  <2>2. /\ Write(p, [win[i0] EXCEPT !.named = FALSE], "select")
        /\ win' = IF i0 \in open THEN [win EXCEPT ![i0] = w0] ELSE win
        /\ open' = open /\ entries' = entries /\ gone' = gone
    BY <1>3 DEF ClaimRenames, Write, Unnamed
  <2>3. WentOn(p, "select")
    BY <1>1, <2>2, GoesOn DEF Write, Pc
  <2> HIDE DEF w0
  <2>4. /\ StepOn(p) /\ (i0 \in open => win'[i0] = w0)
        /\ \A j \in Index : win'[j] = win[j] \/ (j = i0 /\ win'[j] = w0)
        /\ \A j \in Index : Clean(j)' =>
              Clean(j) /\ (win'[j] = win[j] \/ (j = i0 /\ At(p, j) /\ win'[j] = w0))
    BY <1>1, <2>1, <2>2, WriteSteps DEF Holding
  <2>5. /\ \A q \in Procs : q # p => proc'[q] = proc[q]
        /\ proc'[p].pc = "select" /\ proc'[p].ssn = proc[p].ssn /\ proc'[p].idx = i0
        /\ proc'[p].lost = proc[p].lost
    BY <2>3 DEF WentOn, OthersStay
  <2> HIDE DEF i0
  <2>6. TypeOK' /\ Roles' /\ Placed' /\ IdsApart' /\ Unwritten' /\ Reserved' /\ Traced'
    BY <1>1, <2>3, <2>4, StepFrame DEF Advances, Claiming
  <2>7. \A q \in Procs, i \in Index : At(q, i)' <=> At(q, i)
    BY <1>1, <2>5 DEF At, Holding, i0
  <2>8. \A j \in Index : /\ win'[j].ssn = win[j].ssn /\ win'[j].flag = win[j].flag
                         /\ win'[j].rushed = win[j].rushed /\ win'[j].failed = win[j].failed
                         /\ win'[j].named => win[j].named
    BY <2>1, <2>4
  <2>9. Marked'
    <3> SUFFICES ASSUME NEW q \in Procs, NEW i \in Index, At(q, i), Clean(i)'
                 PROVE  /\ proc'[q].pc \in Claiming \cup {"seed_flag"} => win'[i].ssn = proc'[q].ssn
                        /\ proc'[q].pc \in {"cold_options", "seed_id"} => win'[i].ssn = 0
                        /\ proc'[q].pc = "seed_id" => win'[i].named
                        /\ proc'[q].pc = "cold_options" => ~win'[i].named
                        /\ proc'[q].pc \in {"claim_name", "select"} => ~win'[i].flag \/ win'[i].rushed
                        /\ proc'[q].pc = "select" => ~win'[i].named
      BY <2>7 DEF Marked
    <3>1. Clean(i)
      BY <2>4
    <3>2. CASE q = p
      <4>1. win[i].ssn = proc[p].ssn /\ (~win[i].flag \/ win[i].rushed)
        BY <1>1, <3>1, <3>2 DEF PoolInv, Marked, Claiming
      <4>2. ~win'[i].named
        BY <1>3, <2>1, <2>4, <3>2 DEF At, i0
      <4> QED BY <2>5, <2>8, <3>2, <4>1, <4>2
    <3>3. CASE q # p
      <4>1. proc[q].pc = "seed_id" => ~At(p, i)
        BY <1>1, <3>1 DEF PoolInv, Marked, Claiming
      <4>2. proc[q].pc = "seed_id" => win'[i] = win[i]
        BY <2>4, <4>1
      <4> QED BY <2>5, <2>8, <3>1, <3>3, <4>2 DEF PoolInv, Marked
    <3> QED BY <3>2, <3>3
  <2>10. Entered'
    <3> SUFFICES ASSUME NEW q \in Procs, proc[q].pc = "seed_flag", proc[q].ssn \in entries, q # p,
                        NEW i \in open, win'[i].ssn = proc[q].ssn, ~win'[i].strayed
                 PROVE  win'[i].rushed
      BY <1>1, <2>2, <2>5 DEF PoolInv, Entered
    <3>1. Clean(i)' /\ i \in Index
      BY <1>1, <2>2 DEF Clean
    <3>2. Clean(i)
      BY <2>4, <3>1
    <3> QED BY <2>8, <3>1, <3>2 DEF PoolInv, Entered, Clean
  <2>11. Overtaken'
    <3> SUFFICES ASSUME NEW q \in Procs, NEW r \in Procs, NEW i \in Index, At(q, i), At(r, i),
                        proc'[q].pc \in {"claim_name", "select"}, proc'[r].pc \in {"seed_id", "seed_flag"}
                 PROVE  win'[i].rushed
      BY <2>7 DEF Overtaken
    <3>1. proc[q].pc \in {"claim_name", "select"} /\ proc[r].pc \in {"seed_id", "seed_flag"}
      BY <1>1, <2>5
    <3>2. win[i].rushed
      BY <3>1 DEF PoolInv, Overtaken
    <3> QED BY <2>8, <3>2
  <2>12. Renamed'
    <3> SUFFICES ASSUME NEW i \in open, ~win'[i].named, win'[i].ssn # 0, ~win'[i].failed, ~win'[i].strayed,
                        win'[i].ssn \notin entries
                 PROVE  \E q \in Procs : proc'[q].pc = "select" /\ proc'[q].ssn = win'[i].ssn
      BY <2>2 DEF Renamed
    <3>1. Clean(i)' /\ i \in Index
      BY <1>1, <2>2 DEF Clean
    <3>2. Clean(i)
      BY <2>4, <3>1
    <3>3. CASE At(p, i)
      <4>1. win[i].ssn = proc[p].ssn
        BY <1>1, <3>1, <3>2, <3>3 DEF PoolInv, Marked, Claiming
      <4> QED BY <2>5, <2>8, <3>1, <4>1
    <3>4. CASE ~At(p, i)
      <4>1. win'[i] = win[i]
        BY <2>4, <3>1, <3>4
      <4>2. PICK q \in Procs : proc[q].pc = "select" /\ proc[q].ssn = win[i].ssn
        BY <4>1 DEF PoolInv, Renamed
      <4> QED BY <1>1, <2>5, <4>1, <4>2
    <3> QED BY <3>3, <3>4
  <2>13. ManagedIsShown'
    <3> SUFFICES ASSUME NEW i \in open, Pool(win'[i]), win'[i].ssn \in entries, ~win'[i].rushed,
                        ~win'[i].strayed
                 PROVE  \E q \in Procs : proc'[q].ssn = win'[i].ssn
      BY <2>2 DEF ManagedIsShown, Spares, Pool, UnderWay
    <3>1. Clean(i)' /\ i \in Index
      BY <1>1, <2>2 DEF Clean
    <3>2. Clean(i) /\ Pool(win[i])
      BY <2>4, <2>8, <3>1 DEF Pool
    <3>3. PICK q \in Procs : proc[q].ssn = win[i].ssn
      BY <2>8, <3>1, <3>2 DEF PoolInv, ManagedIsShown, Spares, UnderWay, Clean
    <3> QED BY <2>5, <2>8, <3>1, <3>3
  <2> QED BY <2>6, <2>9, <2>10, <2>11, <2>12, <2>13 DEF PoolInv
<1> QED BY <1>2, <1>3

LEMMA ClaimEndsKeeps ==
  ASSUME PoolInv, NEW p \in Procs, ClaimEnds(p)
  PROVE  PoolInv'
<1>1. /\ TypeOK /\ proc[p].pc = "select" /\ proc[p].ssn \in Id /\ proc[p].ssn # 0
      /\ proc[p].idx \in Index /\ proc[p].cwd \in Cwd
      /\ open \subseteq Index /\ entries \subseteq 1..MaxIds /\ p \in Clients
  BY ProcTypes, WindowTypes DEF PoolInv, ClaimEnds, Roles, TaskPc, Seeding, Procs
<1>2. CASE ClaimFails(p)
  BY <1>1, <1>2, ColdBegins DEF ClaimFails
<1>3. CASE entries' = entries \cup {proc[p].ssn} /\ Refill(p) /\ UNCHANGED <<open, win, gone>>
  <2>1. Freed(p) /\ win' = win /\ open' = open
    BY <1>1, <1>3, RefillFrees
  <2>2. StepOn(p)
    <3>1. entries' \subseteq 1..MaxIds
      <4>1. MaxIds \in Nat
        BY Bounds
      <4>2. proc[p].ssn \in 1..MaxIds
        BY <1>1, <4>1 DEF Id
      <4> QED BY <1>1, <1>3, <4>2
    <3> QED BY <1>3, <2>1, <3>1, <1>1, WindowTypes DEF StepOn, KeepsOrTakes
  <2>3. TypeOK' /\ Roles' /\ Placed' /\ IdsApart' /\ Unwritten' /\ Reserved' /\ Traced'
    BY <2>1, <2>2, StepFrame DEF Advances
  <2>4. Marked' /\ Overtaken'
        /\ \A q \in Procs : proc'[q].pc \in {"select", "cold_options", "new", "seed_id", "seed_flag"} =>
             q # p /\ proc'[q] = proc[q]
    BY <2>1, FreedFrame
  <2>5. \A q \in Procs : q # p => proc'[q] = proc[q]
    BY <2>1 DEF Freed, OthersStay
  <2>6. \A i \in open : win[i].ssn = proc[p].ssn /\ ~win[i].strayed =>
           At(p, i) /\ ~win[i].named /\ (~win[i].flag \/ win[i].rushed)
    BY <1>1 DEF PoolInv, Traced, Marked, Clean
  <2>7. Entered'
    <3> SUFFICES ASSUME NEW q \in Procs, q # p, proc'[q] = proc[q]
                 PROVE  /\ proc[q].pc = "cold_options" => proc[q].ssn \in entries'
                        /\ proc[q].pc \in {"new", "seed_id"} => proc[q].ssn \notin entries'
                        /\ proc[q].pc = "seed_flag" /\ proc[q].ssn \in entries' =>
                             \A i \in open : win[i].ssn = proc[q].ssn => win[i].rushed \/ win[i].strayed
      BY <1>3, <2>1, <2>4 DEF Entered
    <3>1. proc[q].pc \in {"new", "seed_id"} => proc[q].ssn # proc[p].ssn
      BY DEF PoolInv, Unwritten, Unused
    <3>2. ASSUME proc[q].pc = "seed_flag", proc[q].ssn = proc[p].ssn, NEW i \in open,
                 win[i].ssn = proc[q].ssn, ~win[i].strayed
          PROVE  win[i].rushed
      <4>1. At(p, i) /\ At(q, i) /\ i \in Index
        BY <1>1, <3>2 DEF PoolInv, Traced, Clean
      <4> QED BY <1>1, <3>2, <4>1 DEF PoolInv, Overtaken
    <3> QED BY <1>3, <3>1, <3>2 DEF PoolInv, Entered
  <2>8. Renamed'
    <3> SUFFICES ASSUME NEW i \in open, ~win[i].named, win[i].ssn # 0, ~win[i].failed, ~win[i].strayed,
                        win[i].ssn \notin entries'
                 PROVE  \E q \in Procs : proc'[q].pc = "select" /\ proc'[q].ssn = win[i].ssn
      BY <1>3 DEF Renamed
    <3>1. PICK q \in Procs : proc[q].pc = "select" /\ proc[q].ssn = win[i].ssn
      BY <1>3 DEF PoolInv, Renamed
    <3> QED BY <1>3, <2>5, <3>1
  <2>9. ManagedIsShown'
    <3> SUFFICES ASSUME NEW i \in open, Pool(win[i]), win[i].ssn \in entries', ~win[i].rushed, ~win[i].strayed
                 PROVE  \E q \in Procs : proc'[q].ssn = win[i].ssn
      BY <1>3 DEF ManagedIsShown, Spares, Pool, UnderWay
    <3>1. win[i].ssn # proc[p].ssn
      BY <2>6 DEF Pool
    <3>2. PICK q \in Procs : proc[q].ssn = win[i].ssn
      BY <1>3, <3>1 DEF PoolInv, ManagedIsShown, Spares, UnderWay
    <3> QED BY <2>5, <3>1, <3>2
  <2> QED BY <2>3, <2>4, <2>7, <2>8, <2>9 DEF PoolInv
<1> QED BY <1>2, <1>3 DEF ClaimEnds

-----------------------------------------------------------------------------
(* Creations and seeds *)

\* A window is opened for a creation that has just entered its id, or for a seed.
LEMMA OpenKeeps ==
  ASSUME PoolInv, NEW p \in Procs, NEW c \in Cwd, NEW named \in BOOLEAN, NEW next \in Pc,
         OpenWindow(p, c, named, next),
         \/ /\ proc[p].pc = "cold" /\ next = "cold_options" /\ named = FALSE
            /\ entries' = entries \cup {proc[p].ssn}
         \/ proc[p].pc = "new" /\ next = "seed_id" /\ named = TRUE /\ entries' = entries
  PROVE  PoolInv'
<1>1. PICK i0 \in Index :
        /\ Least(i0, Index \ open)
        /\ open' = open \cup {i0}
        /\ win' = [win EXCEPT ![i0] = NewWindow(c, named)]
        /\ proc' = [proc EXCEPT ![p] = [@ EXCEPT !.pc = next, !.idx = i0, !.lost = FALSE]]
        /\ gone' = gone
  BY DEF OpenWindow
<1> DEFINE x == [proc[p] EXCEPT !.pc = next, !.idx = i0, !.lost = FALSE]
           w0 == NewWindow(c, named)
<1>2. /\ TypeOK /\ proc \in [Procs -> Process] /\ proc[p] \in Process
      /\ proc[p].ssn \in Id /\ proc[p].ssn # 0 /\ proc[p].pc \in {"cold", "new"}
      /\ open \subseteq Index /\ entries \subseteq 1..MaxIds /\ win \in [Index -> Window]
      /\ i0 \notin open /\ MaxIds \in Nat
  BY <1>1, ProcTypes, WindowTypes, Bounds DEF PoolInv, Roles, Least
<1>3. /\ w0 \in Window /\ w0.ssn = 0 /\ w0.named = named /\ ~w0.flag /\ ~w0.strayed
  BY NewWindowType
<1>4. x \in Process /\ x.pc = next /\ x.idx = i0 /\ x.ssn = proc[p].ssn /\ ~x.lost
  BY <1>2 DEF Process
<1> HIDE DEF x, w0
<1>5. /\ proc' \in [Procs -> Process] /\ proc'[p].pc = next /\ proc'[p].ssn = proc[p].ssn
      /\ proc'[p].idx = i0 /\ ~proc'[p].lost
      /\ \A q \in Procs : q # p => proc'[q] = proc[q]
  <2>1. proc' = [proc EXCEPT ![p] = x]
    BY <1>1 DEF x
  <2> QED BY <1>2, <1>4, <2>1
<1>6. /\ win' \in [Index -> Window] /\ win'[i0] = w0
      /\ \A i \in Index : i # i0 => win'[i] = win[i]
  <2>1. win' = [win EXCEPT ![i0] = w0]
    BY <1>1 DEF w0
  <2> QED BY <1>2, <1>3, <2>1
<1>7. next \in {"cold_options", "seed_id"} /\ open' = open \cup {i0} /\ gone' = gone
      /\ entries' \in {entries, entries \cup {proc[p].ssn}}
  BY <1>1
<1>8. /\ \A i \in open : win[i].ssn # proc[p].ssn
      /\ \A q \in Procs : q # p => proc[q].ssn # proc[p].ssn
  BY <1>2 DEF PoolInv, Unwritten, Unused
<1>9. \A q \in Procs, i \in Index : At(q, i)' =>
        \/ q = p /\ i = i0
        \/ q # p /\ i # i0 /\ i \in open /\ At(q, i) /\ proc'[q] = proc[q] /\ win'[i] = win[i]
  BY <1>2, <1>5, <1>6 DEF At, PoolInv, Placed
<1>10. TypeOK'
  <2>1. proc' \in [Procs -> [pc : Pc, cwd : Cwd, idx : Index, ssn : Id, todo : SUBSET Cwd, lost : BOOLEAN]]
    BY <1>5 DEF Process
  <2>2. \A i \in Index \ open' : win'[i] = NewWindow(1, FALSE)
    BY <1>6, <1>7 DEF PoolInv, TypeOK
  <2>3. \A q \in Procs : proc'[q].pc \in {"idle", "done", "list"} => proc'[q].ssn = 0
    BY <1>5, <1>7 DEF PoolInv, TypeOK
  <2>4. proc[p].ssn \in 1..MaxIds
    BY <1>2 DEF Id
  <2>5. entries' \subseteq 1..MaxIds /\ gone' \in 0..MaxGone /\ open' \subseteq Index
    BY <1>2, <1>7, <2>4 DEF TypeOK
  <2> QED BY <1>6, <2>1, <2>2, <2>3, <2>5 DEF TypeOK
<1>11. Roles'
  <2>1. proc[p].pc = "cold" => p \notin Tasks
    BY DEF PoolInv, Roles, TaskPc, Seeding
  <2> QED BY <1>2, <1>5, <1>7, <2>1 DEF PoolInv, Roles, ClientPc, TaskPc, Claiming, Seeding, Procs
<1>12. Placed'
  BY <1>7, <1>9 DEF PoolInv, Placed
<1>13. IdsApart'
  BY <1>2, <1>3, <1>6, <1>7 DEF PoolInv, IdsApart
<1>14. Unwritten'
  <2>1. \A q \in Procs : proc'[q].pc \in Unused => proc[q].pc \in Unused /\ proc[q].ssn # 0
    BY <1>2, <1>5 DEF Unused, PoolInv, Roles
  <2>2. \A q \in Procs : proc'[q].ssn = proc[q].ssn
    BY <1>5
  <2> QED BY <1>2, <1>3, <1>6, <1>7, <2>1, <2>2 DEF PoolInv, Unwritten
<1>15. Reserved'
  <2> SUFFICES ASSUME NEW q \in Clients, proc'[q].pc \in Reserving
               PROVE  /\ \A i \in open' : win'[i].ssn # OwnId(q)
                      /\ \A r \in Procs : proc'[r].ssn # OwnId(q)
    BY DEF Reserved, OwnId
  <2>1. proc[q].pc \in Reserving
    BY <1>5, <1>7 DEF Reserving, Claiming, Procs
  <2>2. /\ \A i \in open : win[i].ssn # OwnId(q)
        /\ \A r \in Procs : proc[r].ssn # OwnId(q)
        /\ OwnId(q) # 0
    BY <2>1, Bounds DEF PoolInv, Reserved
  <2>3. \A i \in open' : win'[i].ssn # OwnId(q)
    BY <1>2, <1>3, <1>6, <1>7, <2>2
  <2>4. \A r \in Procs : proc'[r].ssn # OwnId(q)
    BY <1>5, <2>2
  <2> QED BY <2>3, <2>4
<1>16. Traced'
  <2> SUFFICES ASSUME NEW q \in Procs, NEW i \in Index, Clean(i)', win'[i].ssn = proc'[q].ssn,
                      proc'[q].ssn # 0
               PROVE  At(q, i)'
    BY DEF Traced
  <2>1. i # i0 /\ i \in open /\ win'[i] = win[i] /\ Clean(i)
    BY <1>3, <1>6, <1>7 DEF Clean
  <2>2. q # p
    BY <1>5, <1>8, <2>1
  <2>3. At(q, i)
    BY <1>5, <2>1, <2>2 DEF PoolInv, Traced
  <2> QED BY <1>5, <2>2, <2>3 DEF At
<1>17. Marked'
  <2> SUFFICES ASSUME NEW q \in Procs, NEW i \in Index, At(q, i)', Clean(i)'
               PROVE  /\ proc'[q].pc \in Claiming \cup {"seed_flag"} => win'[i].ssn = proc'[q].ssn
                      /\ proc'[q].pc \in {"cold_options", "seed_id"} => win'[i].ssn = 0
                      /\ proc'[q].pc = "seed_id" => win'[i].named
                      /\ proc'[q].pc = "cold_options" => ~win'[i].named
                      /\ proc'[q].pc \in {"claim_name", "select"} => ~win'[i].flag \/ win'[i].rushed
                      /\ proc'[q].pc = "select" => ~win'[i].named
    BY DEF Marked
  <2>1. CASE q = p /\ i = i0
    BY <1>3, <1>5, <1>6, <1>7, <2>1 DEF Claiming
  <2>2. CASE q # p /\ At(q, i) /\ proc'[q] = proc[q] /\ win'[i] = win[i] /\ i \in open
    <3>1. Clean(i)
      BY <2>2 DEF Clean
    <3> QED BY <2>2, <3>1 DEF PoolInv, Marked
  <2> QED BY <1>9, <2>1, <2>2
<1>18. Entered'
  <2> SUFFICES ASSUME NEW q \in Procs
               PROVE  /\ proc'[q].pc = "cold_options" => proc'[q].ssn \in entries'
                      /\ proc'[q].pc \in {"new", "seed_id"} => proc'[q].ssn \notin entries'
                      /\ proc'[q].pc = "seed_flag" /\ proc'[q].ssn \in entries' =>
                           \A i \in open' : win'[i].ssn = proc'[q].ssn => win'[i].rushed \/ win'[i].strayed
    BY DEF Entered
  <2>1. CASE q = p
    BY <1>5, <1>7, <2>1 DEF PoolInv, Entered
  <2>2. CASE q # p
    <3>1. proc'[q] = proc[q] /\ proc[q].ssn # proc[p].ssn /\ (proc[q].pc = "seed_flag" => proc[q].ssn # 0)
      BY <1>5, <1>8, <2>2 DEF PoolInv, Roles
    <3>2. proc[q].ssn \in entries' <=> proc[q].ssn \in entries
      BY <1>7, <3>1
    <3> QED BY <1>2, <1>3, <1>6, <1>7, <3>1, <3>2 DEF PoolInv, Entered
  <2> QED BY <2>1, <2>2
<1>19. Overtaken'
  <2> SUFFICES ASSUME NEW q \in Procs, NEW r \in Procs, NEW i \in Index, At(q, i)', At(r, i)',
                      proc'[q].pc \in {"claim_name", "select"}, proc'[r].pc \in {"seed_id", "seed_flag"}
               PROVE  win'[i].rushed
    BY DEF Overtaken
  <2>1. q # p
    BY <1>5, <1>7
  <2>2. i # i0 /\ At(q, i) /\ At(r, i) /\ proc'[q] = proc[q] /\ proc'[r] = proc[r] /\ win'[i] = win[i]
    BY <1>9, <2>1
  <2> QED BY <2>2 DEF PoolInv, Overtaken
<1>20. Renamed'
  <2> SUFFICES ASSUME NEW i \in open', ~win'[i].named, win'[i].ssn # 0, ~win'[i].failed, ~win'[i].strayed,
                      win'[i].ssn \notin entries'
               PROVE  \E q \in Procs : proc'[q].pc = "select" /\ proc'[q].ssn = win'[i].ssn
    BY DEF Renamed
  <2>1. i \in open /\ win'[i] = win[i] /\ win[i].ssn \notin entries
    BY <1>2, <1>3, <1>6, <1>7
  <2>2. PICK q \in Procs : proc[q].pc = "select" /\ proc[q].ssn = win[i].ssn
    BY <2>1 DEF PoolInv, Renamed
  <2> QED BY <1>2, <1>5, <2>1, <2>2
<1>21. ManagedIsShown'
  <2> SUFFICES ASSUME NEW i \in open', Pool(win'[i]), win'[i].ssn \in entries', ~win'[i].rushed,
                      ~win'[i].strayed
               PROVE  \E q \in Procs : proc'[q].ssn = win'[i].ssn
    BY DEF ManagedIsShown, Spares, Pool, UnderWay
  <2>1. 0 \notin entries'
    BY <1>2, <1>7
  <2>2. i \in open /\ win'[i] = win[i]
    BY <1>2, <1>3, <1>6, <1>7, <2>1
  <2>3. win[i].ssn \in entries
    BY <1>7, <1>8, <2>2
  <2>4. PICK q \in Procs : proc[q].ssn = win[i].ssn
    BY <2>2, <2>3 DEF PoolInv, ManagedIsShown, Spares, UnderWay
  <2> QED BY <1>5, <2>2, <2>4
<1> QED BY <1>10, <1>11, <1>12, <1>13, <1>14, <1>15, <1>16, <1>17, <1>18, <1>19, <1>20, <1>21
        DEF PoolInv

LEMMA ColdOpensKeeps ==
  ASSUME PoolInv, NEW p \in Procs, ColdOpens(p)
  PROVE  PoolInv'
<1>1. TypeOK /\ proc[p].pc = "cold" /\ proc[p].cwd \in Cwd
  BY ProcTypes DEF PoolInv, ColdOpens
<1>2. CASE OpenWindow(p, proc[p].cwd, FALSE, "cold_options") /\ entries' = entries \cup {proc[p].ssn}
  BY <1>1, <1>2, OpenKeeps DEF Pc
<1>3. CASE entries' \in {entries, entries \cup {proc[p].ssn}} /\ Ends(p) /\ UNCHANGED <<open, win, gone>>
  BY <1>1, <1>3, EndFrees, DropsUnused DEF Unused
<1> QED BY <1>2, <1>3 DEF ColdOpens

LEMMA SeedOpensKeeps ==
  ASSUME PoolInv, NEW p \in Procs, SeedOpens(p)
  PROVE  PoolInv'
<1>1. TypeOK /\ proc[p].pc = "new" /\ proc[p].cwd \in Cwd
  BY ProcTypes DEF PoolInv, SeedOpens
<1>2. CASE OpenWindow(p, proc[p].cwd, TRUE, "seed_id") /\ UNCHANGED entries
  BY <1>1, <1>2, OpenKeeps DEF Pc
<1>3. CASE SeedDone(p, Cardinality(Spares)) /\ UNCHANGED <<open, win, entries, gone>>
  <2>1. Freed(p)
    BY <1>1, <1>3, DoneFrees
  <2> QED BY <1>1, <1>3, <2>1, DropsUnused DEF Unused
<1> QED BY <1>2, <1>3 DEF SeedOpens

LEMMA MaintainKeeps ==
  ASSUME PoolInv, NEW t \in Tasks, Maintain(t)
  PROVE  PoolInv'
<1>1. TypeOK /\ t \in Procs /\ LiveCwds \in SUBSET Cwd
  BY WindowTypes DEF PoolInv, Procs, LiveCwds, Shown
<1>2. Freed(t)
  BY <1>1, NextFrees DEF Maintain
<1> QED BY <1>1, <1>2, DropsUnused DEF Maintain

\* A process whose window is in the making has it to itself: nobody claims it
\* before it has its id.
LEMMA MakesAlone ==
  ASSUME PoolInv, NEW p \in Procs, NEW q \in Procs, q # p, NEW i \in Index, Clean(i),
         At(p, i), At(q, i), proc[p].pc \in {"cold_options", "seed_id"}
  PROVE  FALSE
<1>1. win[i].ssn = 0
  BY DEF PoolInv, Marked
<1>2. proc[q].pc \notin Making
  BY DEF PoolInv, Placed, Making
<1>3. proc[q].pc \in Claiming /\ proc[q].ssn # 0
  BY <1>2 DEF At, Holding, Making, Claiming, PoolInv, Roles
<1>4. win[i].ssn = proc[q].ssn
  BY <1>3 DEF PoolInv, Marked
<1> QED BY <1>1, <1>3, <1>4

LEMMA ColdSetsKeeps ==
  ASSUME PoolInv, NEW p \in Procs, ColdSetsOptions(p)
  PROVE  PoolInv'
<1> DEFINE i0 == proc[p].idx
           w0 == Created(win[i0], proc[p].ssn, proc[p].lost)
<1>1. /\ TypeOK /\ proc[p].pc = "cold_options" /\ i0 \in Index /\ win[i0] \in Window
      /\ proc[p].ssn \in Id /\ proc[p].lost \in BOOLEAN /\ proc[p].ssn # 0 /\ proc[p].ssn \in entries
      /\ open \subseteq Index /\ open' = open /\ entries' = entries /\ gone' = gone
  BY ProcTypes, WindowTypes DEF PoolInv, ColdSetsOptions, Roles, Entered
<1>2. /\ w0 \in Window /\ w0.ssn = proc[p].ssn /\ ~w0.flag /\ w0.named = win[i0].named
      /\ w0.failed = win[i0].failed /\ w0.rushed = win[i0].rushed
      /\ w0.strayed = (win[i0].strayed \/ proc[p].lost)
  BY <1>1, CreatedWindow
<1>3. win' = IF i0 \in open THEN [win EXCEPT ![i0] = w0] ELSE win
  BY DEF ColdSetsOptions, Created
<1>4. Freed(p)
  BY <1>1, RefillFrees DEF ColdSetsOptions
<1> HIDE DEF w0
<1>5. /\ StepOn(p) /\ (i0 \in open => win'[i0] = w0)
      /\ \A j \in Index : win'[j] = win[j] \/ (j = i0 /\ win'[j] = w0)
      /\ \A j \in Index : Clean(j)' =>
            Clean(j) /\ (win'[j] = win[j] \/ (j = i0 /\ At(p, j) /\ win'[j] = w0))
  BY <1>1, <1>2, <1>3, WriteSteps DEF Holding
<1> HIDE DEF i0
<1>6. /\ \A q \in Procs : q # p => proc'[q] = proc[q]
      /\ proc'[p].pc \in {"idle", "done", "list"}
  BY <1>4 DEF Freed, OthersStay
<1>7. TypeOK' /\ Roles' /\ Placed' /\ IdsApart' /\ Unwritten' /\ Reserved' /\ Traced'
  BY <1>4, <1>5, StepFrame DEF Advances
<1>8. \A q \in Procs, i \in Index : At(q, i)' => q # p /\ At(q, i) /\ proc'[q] = proc[q]
  BY <1>6 DEF At, Holding
<1>9. /\ \A i \in open : win[i].ssn # proc[p].ssn
      /\ \A q \in Procs : q # p => proc[q].ssn # proc[p].ssn
  BY <1>1 DEF PoolInv, Unwritten, Unused
<1>10. Marked'
  <2> SUFFICES ASSUME NEW q \in Procs, NEW i \in Index, At(q, i)', Clean(i)'
               PROVE  q # p /\ At(q, i) /\ proc'[q] = proc[q] /\ Clean(i) /\ win'[i] = win[i]
    BY DEF PoolInv, Marked
  <2> QED BY <1>1, <1>5, <1>8, MakesAlone
<1>11. Entered'
  <2> SUFFICES ASSUME NEW q \in Procs, proc[q].pc = "seed_flag", proc[q].ssn \in entries, q # p,
                      NEW i \in open, win'[i].ssn = proc[q].ssn, ~win'[i].strayed
               PROVE  win'[i].rushed
    BY <1>1, <1>6 DEF PoolInv, Entered
  <2>1. win'[i] = win[i]
    BY <1>1, <1>2, <1>5, <1>9
  <2> QED BY <2>1 DEF PoolInv, Entered
<1>12. Overtaken'
  <2>1. \A i \in Index : win[i].rushed => win'[i].rushed
    BY <1>2, <1>5
  <2> QED BY <1>8, <2>1 DEF PoolInv, Overtaken
<1>13. Renamed'
  <2> SUFFICES ASSUME NEW i \in open, ~win'[i].named, win'[i].ssn # 0, ~win'[i].failed, ~win'[i].strayed,
                      win'[i].ssn \notin entries
               PROVE  \E q \in Procs : proc'[q].pc = "select" /\ proc'[q].ssn = win'[i].ssn
    BY <1>1 DEF Renamed
  <2>1. win'[i] = win[i]
    BY <1>1, <1>2, <1>5
  <2>2. PICK q \in Procs : proc[q].pc = "select" /\ proc[q].ssn = win[i].ssn
    BY <2>1 DEF PoolInv, Renamed
  <2> QED BY <1>1, <1>6, <2>1, <2>2
<1>14. ManagedIsShown'
  <2> SUFFICES ASSUME NEW i \in open, Pool(win'[i]), win'[i].ssn \in entries, ~win'[i].rushed,
                      ~win'[i].strayed
               PROVE  \E q \in Procs : proc'[q].ssn = win'[i].ssn
    BY <1>1 DEF ManagedIsShown, Spares, Pool, UnderWay
  <2>1. Clean(i)' /\ i \in Index
    BY <1>1 DEF Clean
  <2>2. win'[i] = win[i]
    <3> SUFFICES ASSUME At(p, i), win'[i] = w0, i = i0, Clean(i)
                 PROVE  FALSE
      BY <1>5, <2>1
    <3>1. ~win[i].named
      BY <1>1 DEF PoolInv, Marked
    <3> QED BY <1>2, <3>1 DEF Pool
  <2>3. PICK q \in Procs : proc[q].ssn = win[i].ssn
    BY <2>2 DEF PoolInv, ManagedIsShown, Spares, UnderWay
  <2>4. q # p
    BY <1>9, <2>3
  <2> QED BY <1>6, <2>2, <2>3, <2>4
<1> QED BY <1>7, <1>10, <1>11, <1>12, <1>13, <1>14 DEF PoolInv

LEMMA SeedSetsIdKeeps ==
  ASSUME PoolInv, NEW p \in Procs, SeedSetsId(p)
  PROVE  PoolInv'
<1> DEFINE i0 == proc[p].idx
           w0 == Numbered(win[i0], proc[p].ssn, proc[p].lost)
<1>1. /\ TypeOK /\ proc[p].pc = "seed_id" /\ i0 \in Index /\ win[i0] \in Window
      /\ proc[p].ssn \in Id /\ proc[p].lost \in BOOLEAN /\ proc[p].ssn # 0 /\ proc[p].ssn \notin entries
      /\ open \subseteq Index /\ open' = open /\ entries' = entries /\ gone' = gone
  BY ProcTypes, WindowTypes DEF PoolInv, SeedSetsId, Write, Roles, Entered
<1>2. /\ w0 \in Window /\ w0.ssn = proc[p].ssn /\ w0.flag = win[i0].flag /\ w0.named = win[i0].named
      /\ w0.failed = win[i0].failed /\ w0.rushed = win[i0].rushed
      /\ w0.strayed = (win[i0].strayed \/ proc[p].lost)
  BY <1>1, NumberedWindow
<1>3. win' = IF i0 \in open THEN [win EXCEPT ![i0] = w0] ELSE win
  BY DEF SeedSetsId, Write, Numbered
<1>4. WentOn(p, "seed_flag")
  BY <1>1, GoesOn DEF SeedSetsId, Write, Pc
<1> HIDE DEF w0
<1>5. /\ StepOn(p) /\ (i0 \in open => win'[i0] = w0)
      /\ \A j \in Index : win'[j] = win[j] \/ (j = i0 /\ win'[j] = w0)
      /\ \A j \in Index : Clean(j)' =>
            Clean(j) /\ (win'[j] = win[j] \/ (j = i0 /\ At(p, j) /\ win'[j] = w0))
  BY <1>1, <1>2, <1>3, WriteSteps DEF Holding
<1> HIDE DEF i0
<1>6. /\ \A q \in Procs : q # p => proc'[q] = proc[q]
      /\ proc'[p].pc = "seed_flag" /\ proc'[p].ssn = proc[p].ssn /\ proc'[p].idx = proc[p].idx
      /\ proc'[p].lost = proc[p].lost
  BY <1>4 DEF WentOn, OthersStay
<1>7. TypeOK' /\ Roles' /\ Placed' /\ IdsApart' /\ Unwritten' /\ Reserved' /\ Traced'
  BY <1>1, <1>4, <1>5, StepFrame DEF Advances
<1>8. \A q \in Procs, i \in Index : At(q, i)' <=> At(q, i)
  BY <1>1, <1>6 DEF At, Holding
<1>9. /\ \A i \in open : win[i].ssn # proc[p].ssn
      /\ \A q \in Procs : q # p => proc[q].ssn # proc[p].ssn
  BY <1>1 DEF PoolInv, Unwritten, Unused
<1>10. \A i \in Index : win[i].rushed => win'[i].rushed
  BY <1>2, <1>5
<1>11. Marked'
  <2> SUFFICES ASSUME NEW q \in Procs, NEW i \in Index, At(q, i), Clean(i)'
               PROVE  /\ proc'[q].pc \in Claiming \cup {"seed_flag"} => win'[i].ssn = proc'[q].ssn
                      /\ proc'[q].pc \in {"cold_options", "seed_id"} => win'[i].ssn = 0
                      /\ proc'[q].pc = "seed_id" => win'[i].named
                      /\ proc'[q].pc = "cold_options" => ~win'[i].named
                      /\ proc'[q].pc \in {"claim_name", "select"} => ~win'[i].flag \/ win'[i].rushed
                      /\ proc'[q].pc = "select" => ~win'[i].named
    BY <1>8 DEF Marked
  <2>1. CASE q = p
    <3>1. i = i0 /\ i \in open
      BY <2>1 DEF At, Clean, i0, PoolInv, Placed
    <3> QED BY <1>2, <1>5, <1>6, <2>1, <3>1 DEF Claiming
  <2>2. CASE q # p
    <3>1. Clean(i) /\ win'[i] = win[i]
      BY <1>1, <1>5, <2>2, MakesAlone
    <3> QED BY <1>6, <2>2, <3>1 DEF PoolInv, Marked
  <2> QED BY <2>1, <2>2
<1>12. Entered'
  <2> SUFFICES ASSUME NEW q \in Procs, proc[q].pc = "seed_flag", proc[q].ssn \in entries, q # p,
                      NEW i \in open, win'[i].ssn = proc[q].ssn, ~win'[i].strayed
               PROVE  win'[i].rushed
    BY <1>1, <1>6 DEF PoolInv, Entered
  <2>1. win'[i] = win[i]
    BY <1>1, <1>2, <1>5, <1>9
  <2> QED BY <2>1 DEF PoolInv, Entered
<1>13. Overtaken'
  <2>1. \A q \in Procs : /\ proc'[q].pc \in {"claim_name", "select"} => proc[q].pc \in {"claim_name", "select"}
                         /\ proc'[q].pc \in {"seed_id", "seed_flag"} => proc[q].pc \in {"seed_id", "seed_flag"}
    BY <1>1, <1>6
  <2> QED BY <1>8, <1>10, <2>1 DEF PoolInv, Overtaken
<1>14. Renamed'
  <2> SUFFICES ASSUME NEW i \in open, ~win'[i].named, win'[i].ssn # 0, ~win'[i].failed, ~win'[i].strayed,
                      win'[i].ssn \notin entries
               PROVE  \E q \in Procs : proc'[q].pc = "select" /\ proc'[q].ssn = win'[i].ssn
    BY <1>1 DEF Renamed
  <2>1. Clean(i)' /\ i \in Index
    BY <1>1 DEF Clean
  <2>2. win'[i] = win[i]
    <3> SUFFICES ASSUME At(p, i), win'[i] = w0, i = i0, Clean(i)
                 PROVE  FALSE
      BY <1>5, <2>1
    <3>1. win[i].named
      BY <1>1 DEF PoolInv, Marked
    <3> QED BY <1>2, <3>1
  <2>3. PICK q \in Procs : proc[q].pc = "select" /\ proc[q].ssn = win[i].ssn
    BY <2>2 DEF PoolInv, Renamed
  <2> QED BY <1>1, <1>6, <2>2, <2>3
<1>15. ManagedIsShown'
  <2> SUFFICES ASSUME NEW i \in open, Pool(win'[i]), win'[i].ssn \in entries, ~win'[i].rushed,
                      ~win'[i].strayed
               PROVE  \E q \in Procs : proc'[q].ssn = win'[i].ssn
    BY <1>1 DEF ManagedIsShown, Spares, Pool, UnderWay
  <2>1. win'[i] = win[i]
    BY <1>1, <1>2, <1>5
  <2>2. PICK q \in Procs : proc[q].ssn = win[i].ssn
    BY <2>1 DEF PoolInv, ManagedIsShown, Spares, UnderWay
  <2> QED BY <1>6, <2>1, <2>2
<1> QED BY <1>7, <1>11, <1>12, <1>13, <1>14, <1>15 DEF PoolInv

\* A list finds no spare, and an id is chosen that nobody has.
LEMMA EnsureKeeps ==
  ASSUME PoolInv, NEW p \in Procs, EnsureSpare(p)
  PROVE  PoolInv'
<1>1. /\ TypeOK /\ proc \in [Procs -> Process] /\ proc[p] \in Process /\ proc[p].pc = "list" /\ proc[p].ssn = 0
      /\ \A i \in Index : win[i].ssn \in Id
      /\ open \subseteq Index /\ open' = open /\ win' = win /\ entries' = entries /\ gone' = gone
  BY ProcTypes, WindowTypes DEF PoolInv, EnsureSpare, TypeOK
<1>2. CASE SeedDone(p, Cardinality(Spares))
  <2>1. Freed(p)
    BY <1>1, <1>2, DoneFrees
  <2> QED BY <1>1, <2>1, DropsUnused
<1>3. CASE \E id \in FreshIds :
             proc' = [proc EXCEPT ![p] = [@ EXCEPT !.pc = "new", !.ssn = id]]
  <2>1. PICK id \in FreshIds : proc' = [proc EXCEPT ![p] = [@ EXCEPT !.pc = "new", !.ssn = id]]
    BY <1>3
  <2> DEFINE x == [proc[p] EXCEPT !.pc = "new", !.ssn = id]
  <2>2. /\ id \in 1..MaxIds /\ MaxIds \in Nat /\ id \in Id /\ id # 0 /\ id \notin entries
        /\ \A i \in open : win[i].ssn # id
        /\ \A q \in Procs : proc[q].ssn # id
        /\ \A q \in Clients : OwnId(q) # id
    BY Bounds DEF FreshIds, UsedIds, Id
  <2>3. x \in Process /\ x.pc = "new" /\ x.ssn = id
    BY <1>1, <2>2 DEF Process, Pc
  <2>4. /\ proc' \in [Procs -> Process] /\ proc'[p].pc = "new" /\ proc'[p].ssn = id
        /\ \A q \in Procs : q # p => proc'[q] = proc[q]
    <3>1. proc' = [proc EXCEPT ![p] = x]
      BY <2>1
    <3> HIDE DEF x
    <3> QED BY <1>1, <2>3, <3>1
  <2> HIDE DEF x
  <2>5. \A q \in Procs, i \in Index : At(q, i)' => q # p /\ At(q, i) /\ proc'[q] = proc[q]
    BY <2>4 DEF At, Holding
  <2>6. \A i \in Index : Clean(i)' <=> Clean(i)
    BY <1>1 DEF Clean
  <2>7. TypeOK'
    <3>1. proc' \in [Procs -> [pc : Pc, cwd : Cwd, idx : Index, ssn : Id, todo : SUBSET Cwd, lost : BOOLEAN]]
      BY <2>4 DEF Process
    <3>2. \A q \in Procs : proc'[q].pc \in {"idle", "done", "list"} => proc'[q].ssn = 0
      BY <2>4 DEF PoolInv, TypeOK
    <3> QED BY <1>1, <3>1, <3>2 DEF TypeOK
  <2>8. Roles'
    BY <2>2, <2>4 DEF PoolInv, Roles, ClientPc, TaskPc, Seeding, Procs
  <2>9. Placed'
    BY <1>1, <2>5 DEF PoolInv, Placed
  <2>10. IdsApart'
    BY <1>1 DEF PoolInv, IdsApart
  <2>11. Unwritten'
    BY <1>1, <2>2, <2>4 DEF PoolInv, Unwritten
  <2>12. Reserved'
    <3> SUFFICES ASSUME NEW q \in Clients, proc'[q].pc \in Reserving
                 PROVE  /\ \A i \in open : win[i].ssn # OwnId(q)
                        /\ \A r \in Procs : proc'[r].ssn # OwnId(q)
      BY <1>1 DEF Reserved, OwnId
    <3>1. proc[q].pc \in Reserving
      BY <2>4 DEF Reserving, Claiming, Procs
    <3> QED BY <2>2, <2>4, <3>1 DEF PoolInv, Reserved
  <2>13. Traced'
    <3> SUFFICES ASSUME NEW q \in Procs, NEW i \in Index, Clean(i), win[i].ssn = proc'[q].ssn,
                        proc'[q].ssn # 0
                 PROVE  At(q, i)'
      BY <1>1, <2>6 DEF Traced
    <3>1. q # p
      BY <2>2, <2>4 DEF Clean
    <3> QED BY <2>4, <3>1 DEF PoolInv, Traced, At
  <2>14. Marked'
    BY <1>1, <2>5, <2>6 DEF PoolInv, Marked
  <2>15. Entered'
    BY <1>1, <2>2, <2>4 DEF PoolInv, Entered
  <2>16. Overtaken'
    BY <1>1, <2>5 DEF PoolInv, Overtaken
  <2>17. Renamed'
    BY <1>1, <2>4 DEF PoolInv, Renamed
  <2>18. ManagedIsShown'
    <3> SUFFICES ASSUME NEW i \in open, Pool(win[i]), win[i].ssn \in entries, ~win[i].rushed, ~win[i].strayed
                 PROVE  \E q \in Procs : proc'[q].ssn = win[i].ssn
      BY <1>1 DEF ManagedIsShown, Spares, Pool, UnderWay
    <3>1. PICK q \in Procs : proc[q].ssn = win[i].ssn
      BY DEF PoolInv, ManagedIsShown, Spares, UnderWay
    <3>2. win[i].ssn # 0
      BY <1>1 DEF TypeOK
    <3> QED BY <1>1, <2>4, <3>1, <3>2
  <2> QED BY <2>7, <2>8, <2>9, <2>10, <2>11, <2>12, <2>13, <2>14, <2>15, <2>16, <2>17, <2>18 DEF PoolInv
<1> QED BY <1>2, <1>3 DEF EnsureSpare

LEMMA SeedSetsFlagKeeps ==
  ASSUME PoolInv, NEW p \in Procs, SeedSetsFlag(p)
  PROVE  PoolInv'
<1> DEFINE i0 == proc[p].idx
           w0 == Flagged(win[i0], proc[p].lost)
<1>1. /\ TypeOK /\ proc[p].pc = "seed_flag" /\ i0 \in Index /\ win[i0] \in Window
      /\ proc[p].ssn \in Id /\ proc[p].lost \in BOOLEAN /\ proc[p].ssn # 0
      /\ open \subseteq Index /\ open' = open /\ entries' = entries /\ gone' = gone
  BY ProcTypes, WindowTypes DEF PoolInv, SeedSetsFlag, Roles
<1>2. /\ w0 \in Window /\ w0.ssn = win[i0].ssn /\ w0.flag /\ w0.named = win[i0].named
      /\ w0.failed = win[i0].failed /\ w0.rushed = win[i0].rushed
      /\ w0.strayed = (win[i0].strayed \/ proc[p].lost)
  BY <1>1, FlaggedWindow
<1>3. win' = IF i0 \in open THEN [win EXCEPT ![i0] = w0] ELSE win
  BY DEF SeedSetsFlag, Flagged
<1>4. Freed(p)
  BY <1>1, DoneFrees DEF SeedSetsFlag
<1> HIDE DEF w0
<1>5. /\ StepOn(p) /\ (i0 \in open => win'[i0] = w0)
      /\ \A j \in Index : win'[j] = win[j] \/ (j = i0 /\ win'[j] = w0)
      /\ \A j \in Index : Clean(j)' =>
            Clean(j) /\ (win'[j] = win[j] \/ (j = i0 /\ At(p, j) /\ win'[j] = w0))
  BY <1>1, <1>2, <1>3, WriteSteps DEF Holding
<1> HIDE DEF i0
<1>6. /\ \A q \in Procs : q # p => proc'[q] = proc[q]
      /\ proc'[p].pc \in {"idle", "done", "list"}
  BY <1>4 DEF Freed, OthersStay
<1>7. TypeOK' /\ Roles' /\ Placed' /\ IdsApart' /\ Unwritten' /\ Reserved' /\ Traced'
  BY <1>4, <1>5, StepFrame DEF Advances
<1>8. \A q \in Procs, i \in Index : At(q, i)' => q # p /\ At(q, i) /\ proc'[q] = proc[q]
  BY <1>6 DEF At, Holding
<1>9. \A j \in Index : /\ win'[j].ssn = win[j].ssn /\ win'[j].named = win[j].named
                       /\ win'[j].rushed = win[j].rushed /\ win'[j].failed = win[j].failed
  BY <1>2, <1>5
<1>10. \A i \in Index : Clean(i) /\ At(p, i) => win[i].ssn = proc[p].ssn
  BY <1>1 DEF PoolInv, Marked
<1>11. Marked'
  <2> SUFFICES ASSUME NEW q \in Procs, NEW i \in Index, At(q, i), Clean(i)', q # p, proc'[q] = proc[q]
               PROVE  /\ proc[q].pc \in Claiming \cup {"seed_flag"} => win'[i].ssn = proc[q].ssn
                      /\ proc[q].pc \in {"cold_options", "seed_id"} => win'[i].ssn = 0
                      /\ proc[q].pc = "seed_id" => win'[i].named
                      /\ proc[q].pc = "cold_options" => ~win'[i].named
                      /\ proc[q].pc \in {"claim_name", "select"} => ~win'[i].flag \/ win'[i].rushed
                      /\ proc[q].pc = "select" => ~win'[i].named
    BY <1>8 DEF Marked
  <2>1. Clean(i) /\ (win'[i] = win[i] \/ At(p, i))
    BY <1>5
  <2>2. At(p, i) /\ proc[q].pc \in {"claim_name", "select"} => win[i].rushed
    BY <1>1 DEF PoolInv, Overtaken
  <2>3. proc[q].pc \in {"claim_name", "select"} => ~win[i].flag \/ win[i].rushed
    BY <2>1 DEF PoolInv, Marked
  <2>4. proc[q].pc \in {"claim_name", "select"} => ~win'[i].flag \/ win'[i].rushed
    BY <1>9, <2>1, <2>2, <2>3
  <2> QED BY <1>9, <2>1, <2>4 DEF PoolInv, Marked
<1>12. Entered'
  <2> SUFFICES ASSUME NEW q \in Procs, proc[q].pc = "seed_flag", proc[q].ssn \in entries, q # p,
                      NEW i \in open, win'[i].ssn = proc[q].ssn, ~win'[i].strayed
               PROVE  win'[i].rushed
    BY <1>1, <1>6 DEF PoolInv, Entered
  <2>1. Clean(i)' /\ i \in Index
    BY <1>1 DEF Clean
  <2>2. Clean(i)
    BY <1>5, <2>1
  <2> QED BY <1>9, <2>1, <2>2 DEF PoolInv, Entered, Clean
<1>13. Overtaken'
  BY <1>8, <1>9 DEF PoolInv, Overtaken
<1>14. Renamed'
  <2> SUFFICES ASSUME NEW i \in open, ~win'[i].named, win'[i].ssn # 0, ~win'[i].failed, ~win'[i].strayed,
                      win'[i].ssn \notin entries
               PROVE  \E q \in Procs : proc'[q].pc = "select" /\ proc'[q].ssn = win'[i].ssn
    BY <1>1 DEF Renamed
  <2>1. Clean(i)' /\ i \in Index
    BY <1>1 DEF Clean
  <2>2. Clean(i)
    BY <1>5, <2>1
  <2>3. PICK q \in Procs : proc[q].pc = "select" /\ proc[q].ssn = win[i].ssn
    BY <1>9, <2>1, <2>2 DEF PoolInv, Renamed, Clean
  <2> QED BY <1>1, <1>6, <1>9, <2>1, <2>3
<1>15. ManagedIsShown'
  <2> SUFFICES ASSUME NEW i \in open, Pool(win'[i]), win'[i].ssn \in entries, ~win'[i].rushed,
                      ~win'[i].strayed
               PROVE  \E q \in Procs : proc'[q].ssn = win'[i].ssn
    BY <1>1 DEF ManagedIsShown, Spares, Pool, UnderWay
  <2>1. Clean(i)' /\ i \in Index
    BY <1>1 DEF Clean
  <2>2. Clean(i) /\ (win'[i] = win[i] \/ At(p, i))
    BY <1>5, <2>1
  <2>3. win[i].ssn # proc[p].ssn
    BY <1>1, <1>9, <2>1, <2>2 DEF PoolInv, Entered, Clean
  <2>4. win'[i] = win[i]
    BY <1>10, <2>1, <2>2, <2>3
  <2>5. PICK q \in Procs : proc[q].ssn = win[i].ssn
    BY <2>4 DEF PoolInv, ManagedIsShown, Spares, UnderWay
  <2> QED BY <1>6, <2>3, <2>4, <2>5
<1> QED BY <1>7, <1>11, <1>12, <1>13, <1>14, <1>15 DEF PoolInv

\* A CLI process ends with its refill: the seed it was making stays as it is.
LEMMA ExitKeeps ==
  ASSUME PoolInv, NEW p \in Procs, CliExits(p)
  PROVE  PoolInv'
<1>1. /\ TypeOK /\ proc[p].pc \in {"list", "new", "seed_id", "seed_flag"} /\ Freed(p)
      /\ open' = open /\ win' = win /\ entries' = entries /\ gone' = gone
  BY EndFrees DEF PoolInv, CliExits
<1>2. CASE proc[p].pc # "seed_flag"
  BY <1>1, <1>2, DropsUnused DEF Unused
<1>3. CASE proc[p].pc = "seed_flag"
  <2>1. StepOn(p)
    BY <1>1, WindowTypes DEF StepOn, KeepsOrTakes
  <2>2. TypeOK' /\ Roles' /\ Placed' /\ IdsApart' /\ Unwritten' /\ Reserved' /\ Traced'
    BY <1>1, <2>1, StepFrame DEF Advances
  <2>3. Marked' /\ Overtaken'
        /\ \A q \in Procs : proc'[q].pc \in {"select", "cold_options", "new", "seed_id", "seed_flag"} =>
             q # p /\ proc'[q] = proc[q]
    BY <1>1, FreedFrame
  <2>4. \A q \in Procs : q # p => proc'[q] = proc[q]
    BY <1>1 DEF Freed, OthersStay
  <2>5. Entered'
    BY <1>1, <2>3 DEF PoolInv, Entered
  <2>6. Renamed'
    BY <1>1, <1>3, <2>4 DEF PoolInv, Renamed
  <2>7. ManagedIsShown'
    <3> SUFFICES ASSUME NEW i \in open, Pool(win[i]), win[i].ssn \in entries, ~win[i].rushed, ~win[i].strayed
                 PROVE  \E q \in Procs : proc'[q].ssn = win[i].ssn
      BY <1>1 DEF ManagedIsShown, Spares, Pool, UnderWay
    <3>1. win[i].ssn # proc[p].ssn
      BY <1>3 DEF PoolInv, Entered
    <3>2. PICK q \in Procs : proc[q].ssn = win[i].ssn
      BY DEF PoolInv, ManagedIsShown, Spares, UnderWay
    <3> QED BY <2>4, <3>1, <3>2
  <2> QED BY <2>2, <2>3, <2>5, <2>6, <2>7 DEF PoolInv
<1> QED BY <1>2, <1>3

\* The window that goes takes with it all that was known of it.
LEMMA GoneKeeps ==
  ASSUME PoolInv, NEW i0 \in Index, WindowGoes(i0)
  PROVE  PoolInv'
<1> DEFINE x(p) == [proc[p] EXCEPT !.lost = @ \/ (proc[p].idx = i0 /\ proc[p].pc \in Holding)]
<1>1. /\ TypeOK /\ proc \in [Procs -> Process] /\ \A p \in Procs : proc[p] \in Process
      /\ open \subseteq Index /\ win \in [Index -> Window]
      /\ i0 \in open /\ open' = open \ {i0} /\ entries' = entries
      /\ gone' = gone + 1 /\ gone < MaxGone /\ gone \in 0..MaxGone /\ MaxGone \in Nat
      /\ proc' = [p \in Procs |-> x(p)]
      /\ win' = [win EXCEPT ![i0] = NewWindow(1, FALSE)]
  BY ProcTypes, WindowTypes, Bounds DEF PoolInv, WindowGoes, TypeOK
<1>2. ASSUME NEW p \in Procs
      PROVE  /\ x(p) \in Process /\ x(p).pc = proc[p].pc /\ x(p).idx = proc[p].idx /\ x(p).ssn = proc[p].ssn
             /\ x(p).lost = (proc[p].lost \/ (proc[p].idx = i0 /\ proc[p].pc \in Holding))
  <2>1. (proc[p].idx = i0 /\ proc[p].pc \in Holding) \in BOOLEAN
    OBVIOUS
  <2> QED BY <1>1, <2>1 DEF Process
<1> HIDE DEF x
<1>3. /\ proc' \in [Procs -> Process]
      /\ \A p \in Procs : /\ proc'[p].pc = proc[p].pc /\ proc'[p].idx = proc[p].idx
                           /\ proc'[p].ssn = proc[p].ssn
                           /\ proc'[p].lost = (proc[p].lost \/ (proc[p].idx = i0 /\ proc[p].pc \in Holding))
  BY <1>1, <1>2
<1>4. NewWindow(1, FALSE) \in Window
  BY NewWindowType, Bounds
<1>5. /\ win' \in [Index -> Window] /\ win'[i0] = NewWindow(1, FALSE)
      /\ \A i \in Index : i # i0 => win'[i] = win[i]
  BY <1>1, <1>4
<1>6. \A p \in Procs, i \in Index : At(p, i)' <=> At(p, i) /\ i # i0
  BY <1>3 DEF At
<1>7. \A i \in open' : i \in open /\ i \in Index /\ i # i0 /\ win'[i] = win[i]
  BY <1>1, <1>5
<1>8. \A i \in Index : Clean(i)' => Clean(i) /\ i # i0 /\ win'[i] = win[i]
  BY <1>7 DEF Clean
<1>9. TypeOK'
  <2>1. proc' \in [Procs -> [pc : Pc, cwd : Cwd, idx : Index, ssn : Id, todo : SUBSET Cwd, lost : BOOLEAN]]
    BY <1>3 DEF Process
  <2>2. \A i \in Index \ open' : win'[i] = NewWindow(1, FALSE)
    BY <1>1, <1>5 DEF TypeOK
  <2>3. \A q \in Procs : proc'[q].pc \in {"idle", "done", "list"} => proc'[q].ssn = 0
    BY <1>1, <1>3 DEF TypeOK
  <2>4. gone' \in 0..MaxGone
    BY <1>1
  <2> QED BY <1>1, <1>5, <2>1, <2>2, <2>3, <2>4 DEF TypeOK
<1>10. Roles'
  BY <1>3 DEF PoolInv, Roles, Procs
<1>11. Placed'
  BY <1>1, <1>3, <1>6 DEF PoolInv, Placed
<1>12. IdsApart'
  BY <1>7 DEF PoolInv, IdsApart
<1>13. Unwritten'
  BY <1>3, <1>7 DEF PoolInv, Unwritten
<1>14. Reserved'
  BY <1>3, <1>7 DEF PoolInv, Reserved, OwnId, Procs
<1>15. Traced'
  BY <1>3, <1>6, <1>8 DEF PoolInv, Traced
<1>16. Marked'
  <2> SUFFICES ASSUME NEW q \in Procs, NEW i \in Index, At(q, i), Clean(i), win'[i] = win[i]
               PROVE  /\ proc[q].pc \in Claiming \cup {"seed_flag"} => win'[i].ssn = proc[q].ssn
                      /\ proc[q].pc \in {"cold_options", "seed_id"} => win'[i].ssn = 0
                      /\ proc[q].pc = "seed_id" => win'[i].named
                      /\ proc[q].pc = "cold_options" => ~win'[i].named
                      /\ proc[q].pc \in {"claim_name", "select"} => ~win'[i].flag \/ win'[i].rushed
                      /\ proc[q].pc = "select" => ~win'[i].named
    BY <1>3, <1>6, <1>8 DEF Marked
  <2> QED BY DEF PoolInv, Marked
<1>17. Entered'
  BY <1>1, <1>3, <1>7 DEF PoolInv, Entered
<1>18. Overtaken'
  BY <1>3, <1>5, <1>6 DEF PoolInv, Overtaken
<1>19. Renamed'
  <2> SUFFICES ASSUME NEW i \in open', ~win'[i].named, win'[i].ssn # 0, ~win'[i].failed, ~win'[i].strayed,
                      win'[i].ssn \notin entries'
               PROVE  \E q \in Procs : proc'[q].pc = "select" /\ proc'[q].ssn = win'[i].ssn
    BY DEF Renamed
  <2>1. PICK q \in Procs : proc[q].pc = "select" /\ proc[q].ssn = win[i].ssn
    BY <1>1, <1>7 DEF PoolInv, Renamed
  <2> QED BY <1>3, <1>7, <2>1
<1>20. ManagedIsShown'
  <2> SUFFICES ASSUME NEW i \in open', Pool(win'[i]), win'[i].ssn \in entries', ~win'[i].rushed,
                      ~win'[i].strayed
               PROVE  \E q \in Procs : proc'[q].ssn = win'[i].ssn
    BY DEF ManagedIsShown, Spares, Pool, UnderWay
  <2>1. PICK q \in Procs : proc[q].ssn = win[i].ssn
    BY <1>1, <1>7 DEF PoolInv, ManagedIsShown, Spares, UnderWay
  <2> QED BY <1>3, <1>7, <2>1
<1> QED BY <1>9, <1>10, <1>11, <1>12, <1>13, <1>14, <1>15, <1>16, <1>17, <1>18, <1>19, <1>20
        DEF PoolInv

LEMMA InitPool ==
  ASSUME Init
  PROVE  PoolInv
<1> DEFINE w(i) == IF i \in Cwd THEN [NewWindow(i, FALSE) EXCEPT !.ssn = i] ELSE NewWindow(1, FALSE)
<1>1. /\ NumCwds <= MaxWindows /\ NumCwds <= MaxIds /\ open = Cwd /\ entries = Cwd
      /\ win = [i \in Index |-> w(i)] /\ proc = [p \in Procs |-> Idle] /\ gone = 0
  BY DEF Init
<1>2. Cwd \subseteq Index /\ Cwd \subseteq 1..MaxIds /\ Cwd \subseteq Id /\ 0 \notin Cwd /\ 0 \in 0..MaxGone
  BY <1>1, Bounds DEF Cwd, Index, Id
<1>3. ASSUME NEW i \in Index
      PROVE  /\ w(i) \in Window /\ ~w(i).named /\ ~w(i).flag /\ ~w(i).strayed
             /\ (i \in Cwd => w(i).ssn = i) /\ (i \notin Cwd => w(i) = NewWindow(1, FALSE))
  <2>1. CASE i \in Cwd
    <3>1. NewWindow(i, FALSE) \in Window /\ ~NewWindow(i, FALSE).named /\ ~NewWindow(i, FALSE).flag
          /\ ~NewWindow(i, FALSE).strayed
      BY <2>1, NewWindowType
    <3>2. LET y == [NewWindow(i, FALSE) EXCEPT !.ssn = i] IN
          y \in Window /\ ~y.named /\ ~y.flag /\ ~y.strayed /\ y.ssn = i
      BY <1>2, <2>1, <3>1 DEF Window
    <3> QED BY <2>1, <3>2
  <2>2. CASE i \notin Cwd
    BY <2>2, NewWindowType, Bounds
  <2> QED BY <2>1, <2>2
<1> HIDE DEF w
<1>4. /\ win \in [Index -> Window]
      /\ \A i \in Index : ~win[i].named /\ ~win[i].flag /\ ~win[i].strayed
      /\ \A i \in open : win[i].ssn = i /\ i # 0
      /\ \A i \in Index \ open : win[i] = NewWindow(1, FALSE)
  BY <1>1, <1>2, <1>3
<1>5. /\ proc \in [Procs -> Process] /\ \A p \in Procs : proc[p].pc = "idle" /\ proc[p].ssn = 0
  BY <1>1, Bounds
<1>6. TypeOK
  BY <1>1, <1>2, <1>4, <1>5 DEF TypeOK, Process
<1>7. \A p \in Procs, i \in Index : ~At(p, i)
  BY <1>5 DEF At, Holding
<1>8. Roles
  BY <1>5 DEF Roles, ClientPc, TaskPc, Procs
<1>9. Placed /\ Marked /\ Overtaken
  BY <1>7 DEF Placed, Marked, Overtaken
<1>10. IdsApart
  BY <1>4 DEF IdsApart
<1>11. Unwritten /\ Entered
  BY <1>5 DEF Unwritten, Unused, Entered
<1>12. Reserved
  BY <1>1, <1>4, <1>5, Bounds DEF Reserved
<1>13. Traced
  BY <1>5 DEF Traced
<1>14. Renamed
  <2>1. \A i \in open : win[i].ssn \in entries
    BY <1>1, <1>2, <1>4
  <2> QED BY <2>1 DEF Renamed
<1>15. ManagedIsShown
  BY <1>1, <1>2, <1>4 DEF ManagedIsShown, Spares, Pool
<1> QED BY <1>6, <1>8, <1>9, <1>10, <1>11, <1>12, <1>13, <1>14, <1>15 DEF PoolInv

LEMMA StepKeeps ==
  ASSUME PoolInv, Next
  PROVE  PoolInv'
<1>1. ASSUME NEW p \in Clients, NEW c \in Cwd, Claim(p, c)
      PROVE  PoolInv'
  BY <1>1, ClaimKeeps
<1>2. ASSUME NEW p \in Procs, ClaimStep(p)
      PROVE  PoolInv'
  BY <1>2, ClaimSetsKeeps, ClaimRenamesKeeps, ClaimEndsKeeps, ColdOpensKeeps, ColdSetsKeeps DEF ClaimStep
<1>3. ASSUME NEW p \in Procs, SeedStep(p)
      PROVE  PoolInv'
  BY <1>3, EnsureKeeps, SeedOpensKeeps, SeedSetsIdKeeps, SeedSetsFlagKeeps DEF SeedStep
<1>4. ASSUME NEW p \in Procs, CliExits(p)
      PROVE  PoolInv'
  BY <1>4, ExitKeeps
<1>5. ASSUME NEW t \in Tasks, Maintain(t)
      PROVE  PoolInv'
  BY <1>5, MaintainKeeps
<1>6. ASSUME NEW i \in Index, WindowGoes(i)
      PROVE  PoolInv'
  BY <1>6, GoneKeeps
<1> QED BY <1>1, <1>2, <1>3, <1>4, <1>5, <1>6 DEF Next

LEMMA StutterKeeps ==
  ASSUME PoolInv, UNCHANGED vars
  PROVE  PoolInv'
<1>1. open' = open /\ win' = win /\ entries' = entries /\ proc' = proc /\ gone' = gone
  BY DEF vars
<1>2. TypeOK' /\ Roles' /\ IdsApart' /\ Unwritten' /\ Entered' /\ Renamed'
  BY <1>1 DEF PoolInv, TypeOK, Roles, IdsApart, Unwritten, Entered, Renamed
<1>3. Placed' /\ Reserved' /\ Traced' /\ Marked' /\ Overtaken'
  BY <1>1 DEF PoolInv, Placed, Reserved, Traced, Marked, Overtaken, At, Clean, OwnId
<1>4. ManagedIsShown'
  BY <1>1 DEF PoolInv, ManagedIsShown, Spares, Pool, UnderWay
<1> QED BY <1>2, <1>3, <1>4 DEF PoolInv

-----------------------------------------------------------------------------
(* The theorems *)

\* What each process knows of its window, and that an id is on one window, is
\* kept by every claim, creation, seed, exit and closing of a window.
THEOREM PoolInvariant == Spec => []PoolInv
<1>1. Init => PoolInv
  BY InitPool
<1>2. PoolInv /\ [Next]_vars => PoolInv'
  BY StepKeeps, StutterKeeps
<1> QED BY <1>1, <1>2, PTL DEF Spec

\* Every variable keeps its type, an index without a window holds nothing, and
\* a process between two windows has dropped its session id.
THEOREM PoolTypeCorrect == Spec => []TypeOK
<1>1. PoolInv => TypeOK
  BY DEF PoolInv
<1> QED BY <1>1, PoolInvariant, PTL

\* claim_warm_window, create_quick_agent and seed_spare between them: a window
\* shown as a session has a manifest entry or is being given one, and a session
\* of the manifest is not taken for a spare, but for failed and overtaken claims
\* and commands that hit the next window at an index.
THEOREM PoolIsManifest == Spec => []PoolMatchesManifest
<1>1. PoolInv => PoolMatchesManifest
  <2> SUFFICES ASSUME PoolInv
               PROVE  ShownIsManaged
    BY DEF PoolInv, PoolMatchesManifest
  <2> QED BY DEF PoolInv, Renamed, ShownIsManaged, Shown, Pool, UnderWay
<1> QED BY <1>1, PoolInvariant, PTL

===============================================================================
