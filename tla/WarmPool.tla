------------------------------- MODULE WarmPool -------------------------------
(***************************************************************************)
(* The warm pool (session/warm_pool.rs): detached windows that already run *)
(* a slow agent, so that a new session in a known directory only has to    *)
(* claim one.                                                              *)
(*                                                                         *)
(* Sidebars and CLI processes claim, the daemon's poll loop tops the pool  *)
(* up, and every claim starts a thread that refills it.  None of them      *)
(* takes a lock: each lists the windows once, decides, and then issues one *)
(* tmux command after the other against a window INDEX, which tmux gives   *)
(* to another window as soon as the first is gone.  A window is a spare    *)
(* when its option @sessions.pool is set or its name starts with `pool ·`. *)
(*                                                                         *)
(* A directory is a number: live_cwd_labels sorts them.  One poolable      *)
(* agent is modelled; the second one doubles the keys and nothing else.    *)
(***************************************************************************)
EXTENDS Naturals, FiniteSets

CONSTANTS
    NumCwds,    \* directories 1..NumCwds
    Bars,       \* requests made in a sidebar, which goes on running
    Clis,       \* requests by a CLI process, which ends and its thread with it
    Tasks,      \* top-up tasks the poll loop has spawned
    MaxPool,    \* MAX_POOL_WINDOWS (8 in the code)
    MaxWindows, \* bound: windows of the tmux session
    MaxIds,     \* bound: sessions_session_ids in use at a time
    MaxGone     \* bound: windows that go

Clients == Bars \cup Clis     \* numbers, after which their ids are named
Procs   == Clients \cup Tasks

ASSUME WarmPoolAssumption ==
    /\ NumCwds \in Nat \ {0}
    /\ MaxPool \in Nat \ {0}
    /\ MaxWindows \in Nat \ {0}
    /\ MaxIds \in Nat \ {0}
    /\ MaxGone \in Nat
    /\ Bars \cap Clis = {} /\ Clients \cap Tasks = {}
    /\ IsFiniteSet(Procs) /\ Clients \subseteq Nat \ {0}
    /\ \A p \in Clients : NumCwds + p <= MaxIds

Cwd   == 1..NumCwds
Id    == 0..MaxIds          \* 0: @sessions.id is not set
Index == 1..MaxWindows

\* `strayed` is history: a command meant for an earlier window at this index
\* reached this one.  `rushed`: it was claimed while it was still being made.
\* `failed`: the claim of it ended in an error.
Window == [cwd : Cwd, ssn : Id, flag : BOOLEAN, named : BOOLEAN,
           strayed : BOOLEAN, rushed : BOOLEAN, failed : BOOLEAN]

Pc == {"idle", "done", "claim_options", "claim_name", "select",
       "cold", "cold_options", "list", "new", "seed_id", "seed_flag"}

VARIABLES
    open,    \* indices that have a window
    win,     \* the window at each index
    entries, \* ids with an open entry in session-manifest.json
    proc,    \* what each process is doing
    gone     \* windows that have gone

vars == <<open, win, entries, proc, gone>>

NewWindow(c, named) ==
    [cwd |-> c, ssn |-> 0, flag |-> FALSE, named |-> named,
     strayed |-> FALSE, rushed |-> FALSE, failed |-> FALSE]

\* `lost` is history: the window this process works on is gone.
Idle == [pc |-> "idle", cwd |-> 1, idx |-> 1, ssn |-> 0, todo |-> {}, lost |-> FALSE]

\* One session in each directory, as after `sessions up`.
Init ==
    /\ NumCwds <= MaxWindows /\ NumCwds <= MaxIds
    /\ open = Cwd
    /\ win = [i \in Index |-> IF i \in Cwd THEN [NewWindow(i, FALSE) EXCEPT !.ssn = i]
                                           ELSE NewWindow(1, FALSE)]
    /\ entries = Cwd
    /\ proc = [p \in Procs |-> Idle]
    /\ gone = 0

-----------------------------------------------------------------------------
(* What a list of the windows shows *)

\* parse_window_line: by the option, or by the name.
Pool(w)   == w.flag \/ w.named
Spares    == {i \in open : Pool(win[i])}
Shown     == {i \in open : ~Pool(win[i])}

\* agent_matches_window looks at the name only: a spare that was renamed is
\* nobody's spare even when its option is set.
SparesOf(c) == {i \in Spares : win[i].cwd = c /\ win[i].named}
Claimable(c) == {i \in SparesOf(c) : win[i].ssn # 0}

\* live_cwd_labels: the directories of the rows, which are the windows shown.
LiveCwds == {win[i].cwd : i \in Shown}

\* new_sessions_session_id.
UsedIds == {win[i].ssn : i \in open} \cup entries \cup {proc[p].ssn : p \in Procs}
OwnId(p) == NumCwds + p
FreshIds == (1..MaxIds) \ (UsedIds \cup {OwnId(p) : p \in Clients})

\* What a sorted set, a list and tmux itself pick first.
Least(i, S) == i \in S /\ \A j \in S : i <= j

-----------------------------------------------------------------------------
(* tmux *)

\* Where a process holds the index of a window it means to change.
Holding == {"claim_options", "claim_name", "select",
            "cold_options", "seed_id", "seed_flag"}

\* new-window: the lowest index that is free.
OpenWindow(p, c, named, next) ==
    \E i \in Index :
        /\ Least(i, Index \ open)
        /\ open' = open \cup {i}
        /\ win' = [win EXCEPT ![i] = NewWindow(c, named)]
        /\ proc' = [proc EXCEPT ![p] = [@ EXCEPT !.pc = next, !.idx = i, !.lost = FALSE]]
        /\ UNCHANGED gone

\* A command by index: it hits whatever window is there now, or none.
Write(p, w, next) ==
    LET i == proc[p].idx IN
    /\ win' = IF i \in open
              THEN [win EXCEPT ![i] = [w EXCEPT !.strayed = @ \/ proc[p].lost]]
              ELSE win
    /\ proc' = [proc EXCEPT ![p].pc = next]
    /\ UNCHANGED <<open, entries, gone>>

\* The agent quits, or the user closes the window.
WindowGoes(i) ==
    /\ i \in open
    /\ gone < MaxGone
    /\ gone' = gone + 1
    /\ open' = open \ {i}
    /\ win' = [win EXCEPT ![i] = NewWindow(1, FALSE)]
    /\ proc' = [p \in Procs |-> [proc[p] EXCEPT
                    !.lost = @ \/ (proc[p].idx = i /\ proc[p].pc \in Holding)]]
    /\ UNCHANGED entries

-----------------------------------------------------------------------------
(* claim_or_create_quick_agent *)

\* The process that has nothing more to do forgets its locals.
Ends(p) ==
    proc' = [proc EXCEPT ![p] = IF p \in Tasks THEN Idle ELSE [Idle EXCEPT !.pc = "done"]]

\* Mutant: the refill reuses the id of the session just created.
RefillKeepsId(p) ==
    proc' = [proc EXCEPT ![p].pc = "list"]

\* schedule_refill: the thread is the process from here on.
Refill(p) ==
    proc' = [proc EXCEPT ![p] = [Idle EXCEPT !.pc = "list", !.cwd = proc[p].cwd]]

ColdCreate(p, c) ==
    proc' = [proc EXCEPT ![p] = [Idle EXCEPT !.pc = "cold", !.cwd = c, !.ssn = OwnId(p)]]

\* Mutant: a spare is taken without its id.
ClaimAny(p, c) ==
    /\ proc[p].pc = "idle"
    /\ IF SparesOf(c) # {}
       THEN \E i \in SparesOf(c) :
            /\ Least(i, SparesOf(c))
            /\ proc' = [proc EXCEPT ![p] = [Idle EXCEPT !.pc = "claim_options", !.cwd = c,
                                                        !.idx = i, !.ssn = win[i].ssn]]
       ELSE ColdCreate(p, c)
    /\ UNCHANGED <<open, win, entries, gone>>

\* try_claim lists the windows and takes the first spare that matches.
Claim(p, c) ==
    /\ proc[p].pc = "idle"
    /\ IF Claimable(c) # {}
       THEN \E i \in Claimable(c) :
            /\ Least(i, Claimable(c))
            /\ proc' = [proc EXCEPT ![p] = [Idle EXCEPT !.pc = "claim_options", !.cwd = c,
                                                        !.idx = i, !.ssn = win[i].ssn]]
       ELSE ColdCreate(p, c)
    /\ UNCHANGED <<open, win, entries, gone>>

\* Somebody is still setting the options of this window.
BeingMade(i) ==
    \E q \in Procs : proc[q].pc \in {"seed_id", "seed_flag"} /\ proc[q].idx = i /\ ~proc[q].lost

\* set_managed_window_options of a claim: the id it has already, and the pool
\* option off.
ClaimSetsOptions(p) ==
    LET i == proc[p].idx IN
    /\ proc[p].pc = "claim_options"
    /\ Write(p, [win[i] EXCEPT !.ssn = proc[p].ssn, !.flag = FALSE,
                              !.rushed = @ \/ BeingMade(i)], "claim_name")

\* The claim ends in an error, and a session is created cold instead.
ClaimFails(p) ==
    LET i == proc[p].idx IN
    /\ ColdCreate(p, proc[p].cwd)
    /\ win' = IF i \in open /\ ~proc[p].lost THEN [win EXCEPT ![i].failed = TRUE] ELSE win
    /\ UNCHANGED <<open, entries, gone>>

\* rename_window, whose error is returned: there is no such window.
ClaimRenames(p) ==
    LET i == proc[p].idx IN
    /\ proc[p].pc = "claim_name"
    /\ IF i \in open
       THEN Write(p, [win[i] EXCEPT !.named = FALSE], "select")
       ELSE ClaimFails(p)

\* Mutant: the entry is left to whoever created the window.
ClaimAppendsNothing(p) ==
    /\ proc[p].pc = "select"
    /\ \/ /\ Refill(p)
          /\ UNCHANGED <<open, win, entries, gone>>
       \/ ClaimFails(p)

\* select-window, if the session is to have the focus, and append_entry: their
\* errors are returned as well.
ClaimEnds(p) ==
    /\ proc[p].pc = "select"
    /\ \/ /\ entries' = entries \cup {proc[p].ssn}
          /\ Refill(p)
          /\ UNCHANGED <<open, win, gone>>
       \/ ClaimFails(p)

-----------------------------------------------------------------------------
(* create_quick_agent: the entry, the window, its options; either of the   *)
(* first two may fail and end it.                                          *)

ColdOpens(p) ==
    /\ proc[p].pc = "cold"
    /\ \/ /\ OpenWindow(p, proc[p].cwd, FALSE, "cold_options")
          /\ entries' = entries \cup {proc[p].ssn}
       \/ /\ entries' \in {entries, entries \cup {proc[p].ssn}}
          /\ Ends(p)
          /\ UNCHANGED <<open, win, gone>>

\* set_managed_window_options, and the refill.
ColdSetsOptions(p) ==
    LET i == proc[p].idx IN
    /\ proc[p].pc = "cold_options"
    /\ win' = IF i \in open
              THEN [win EXCEPT ![i] = [win[i] EXCEPT !.ssn = proc[p].ssn, !.flag = FALSE,
                                                    !.strayed = @ \/ proc[p].lost]]
              ELSE win
    /\ Refill(p)
    /\ UNCHANGED <<open, entries, gone>>

-----------------------------------------------------------------------------
(* ensure_spare and seed_spare, of a refill and of maintain *)

\* maintain goes on with the next directory.
NextCwd(t, todo) ==
    \E c \in todo :
        /\ Least(c, todo)
        /\ proc' = [proc EXCEPT ![t] = [Idle EXCEPT !.pc = "list", !.cwd = c,
                                                    !.todo = todo \ {c}]]

\* The daemon is not booting and its fourth poll is over.
Maintain(t) ==
    /\ t \in Tasks
    /\ proc[t].pc = "idle"
    /\ LiveCwds # {}
    /\ NextCwd(t, LiveCwds)
    /\ UNCHANGED <<open, win, entries, gone>>

\* Mutant: maintain leaves after its first directory.
SeedDoneEarly(p, spares) == Ends(p)

\* A refill ends; maintain counts the spares again and breaks off when the
\* pool is full.
SeedDone(p, spares) ==
    IF spares >= MaxPool \/ proc[p].todo = {} THEN Ends(p) ELSE NextCwd(p, proc[p].todo)

\* One list answers both questions: is the pool full, is there one already.
EnsureSpare(p) ==
    /\ proc[p].pc = "list"
    /\ IF Cardinality(Spares) >= MaxPool \/ SparesOf(proc[p].cwd) # {} \/ FreshIds = {}
       THEN SeedDone(p, Cardinality(Spares))
       ELSE \E id \in FreshIds :
            /\ Least(id, FreshIds)
            /\ proc' = [proc EXCEPT ![p] = [@ EXCEPT !.pc = "new", !.ssn = id]]
    /\ UNCHANGED <<open, win, entries, gone>>

\* new-window -d with the pool name, unless tmux fails.
SeedOpens(p) ==
    /\ proc[p].pc = "new"
    /\ \/ OpenWindow(p, proc[p].cwd, TRUE, "seed_id") /\ UNCHANGED entries
       \/ /\ open = Index
          /\ SeedDone(p, Cardinality(Spares))
          /\ UNCHANGED <<open, win, entries, gone>>

SeedSetsId(p) ==
    /\ proc[p].pc = "seed_id"
    /\ Write(p, [win[proc[p].idx] EXCEPT !.ssn = proc[p].ssn], "seed_flag")

SeedSetsFlag(p) ==
    LET i == proc[p].idx IN
    /\ proc[p].pc = "seed_flag"
    /\ win' = IF i \in open
              THEN [win EXCEPT ![i] = [win[i] EXCEPT !.flag = TRUE, !.strayed = @ \/ proc[p].lost]]
              ELSE win
    /\ UNCHANGED <<open, entries, gone>>
    /\ SeedDone(p, Cardinality(Spares'))

\* The CLI returns from main while its refill thread is anywhere.
CliExits(p) ==
    /\ p \in Clis
    /\ proc[p].pc \in {"list", "new", "seed_id", "seed_flag"}
    /\ Ends(p)
    /\ UNCHANGED <<open, win, entries, gone>>

-----------------------------------------------------------------------------

ClaimStep(p) ==
    \/ ClaimSetsOptions(p)
    \/ ClaimRenames(p)
    \/ ClaimEnds(p)
    \/ ColdOpens(p)
    \/ ColdSetsOptions(p)

SeedStep(p) ==
    \/ EnsureSpare(p)
    \/ SeedOpens(p)
    \/ SeedSetsId(p)
    \/ SeedSetsFlag(p)

Next ==
    \/ \E p \in Clients, c \in Cwd : Claim(p, c)
    \/ \E p \in Procs : ClaimStep(p) \/ SeedStep(p) \/ CliExits(p)
    \/ \E t \in Tasks : Maintain(t)
    \/ \E i \in Index : WindowGoes(i)

\* The poll loop goes on spawning top-ups and they run; a claim that has begun
\* and a refill go on unless their process ends.
Fairness ==
    /\ \A t \in Tasks : WF_vars(Maintain(t))
    /\ \A p \in Procs : WF_vars(ClaimStep(p) \/ SeedStep(p))

Spec == Init /\ [][Next]_vars
FairSpec == Spec /\ Fairness

-----------------------------------------------------------------------------
(* Properties *)

\* Every variable keeps its type; an index without a window holds nothing,
\* and a process that is between two windows has no session id.
TypeOK ==
    /\ open \subseteq Index
    /\ win \in [Index -> Window]
    /\ entries \subseteq 1..MaxIds
    /\ gone \in 0..MaxGone
    /\ proc \in [Procs -> [pc : Pc, cwd : Cwd, idx : Index, ssn : Id,
                           todo : SUBSET Cwd, lost : BOOLEAN]]
    /\ \A i \in Index \ open : win[i] = NewWindow(1, FALSE)
    /\ \A p \in Procs : proc[p].pc \in {"idle", "done", "list"} => proc[p].ssn = 0

\* Somebody is still at work on this session id.
UnderWay(id) == \E p \in Procs : proc[p].ssn = id

\* Whatever a user sees as a session can be restored: a window that is shown
\* has a manifest entry, or the claim or creation of it is under way, or its
\* claim failed, or a command for an earlier window at its index hit it.
ShownIsManaged ==
    \A i \in Shown :
        \/ win[i].ssn = 0
        \/ win[i].ssn \in entries
        \/ UnderWay(win[i].ssn)
        \/ win[i].failed
        \/ win[i].strayed

\* A session in the manifest is not taken for a spare, which would hide it
\* from the sidebar and give it away with the next claim, unless it was
\* claimed before its options were all set, or hit by a stray command.
ManagedIsShown ==
    \A i \in Spares :
        \/ win[i].ssn \notin entries
        \/ UnderWay(win[i].ssn)
        \/ win[i].rushed
        \/ win[i].strayed

\* claim_warm_window, seed: between them, what a user sees and what the
\* manifest says are the same sessions.
PoolMatchesManifest == ShownIsManaged /\ ManagedIsShown

\* A spare that lacks its id and that nobody is making any more.
Abandoned(c) == \E i \in SparesOf(c) : win[i].ssn = 0 /\ ~BeingMade(i)

\* A directory with a session gets its spare back after a claim, a failed
\* seed or an exit, unless the pool is full, the directory's last session
\* ends, or a CLI that exited has left half a spare there.
SpareComesBack ==
    \A c \in Cwd :
        c \in LiveCwds ~>
            \/ Claimable(c) # {}
            \/ Cardinality(Spares) >= MaxPool
            \/ c \notin LiveCwds
            \/ Abandoned(c)
            \/ open = Index \/ FreshIds = {}       \* the bounds

\* What warm_pool.rs says of itself: "one detached spare per (agent, cwd)".
OneSparePerCwd == \A c \in Cwd : Cardinality(SparesOf(c)) <= 1

\* "Cap total detached spares".
PoolCapped == Cardinality(Spares) <= MaxPool

\* A spare is handed to one user.
OneClaimPerSpare ==
    \A p, q \in Clients :
        /\ p # q
        /\ proc[p].pc \in {"claim_options", "claim_name", "select"}
        /\ proc[q].pc \in {"claim_options", "claim_name", "select"}
        => proc[p].ssn # proc[q].ssn

\* A command reaches the window it was meant for.
NoStrays == \A i \in open : ~win[i].strayed

\* A claim that ended in an error leaves no session that cannot be restored.
FailedClaimRestorable ==
    \A i \in Shown :
        win[i].failed /\ win[i].ssn # 0 /\ ~win[i].strayed =>
            win[i].ssn \in entries \/ UnderWay(win[i].ssn)

\* A session that was claimed is shown.
NothingHidden == \A i \in Spares : win[i].ssn \notin entries \/ UnderWay(win[i].ssn)
===============================================================================
