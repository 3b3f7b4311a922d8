------------------------ MODULE SessionLifecycleProof ------------------------
(***************************************************************************)
(* For any number of sessions, windows, refreshes, commands and faults:    *)
(* every variable keeps its type; unless sessions are created while        *)
(* `sessions up` runs no session has two windows; and unless refreshes     *)
(* overlap the rows of closed sessions stay closed.                        *)
(*                                                                         *)
(* Nothing that makes a window asks whether its session has one already.   *)
(* A creation relies on a new id, and a restore on what it saw when it     *)
(* listed the windows, however long ago that is.                           *)
(***************************************************************************)
EXTENDS SessionLifecycle, FiniteSetTheorems, TLAPS

RefreshRec ==
    [pc : {"idle", "copy", "poll", "apply", "reopen", "mark", "save"},
     prev : Place, closed : SUBSET Ssn, boot : BOOLEAN, polled : Place,
     healed : SUBSET Ssn, vanished : SUBSET Ssn, live : SUBSET Ssn]

MakingRec ==
    [pc : {"idle", "append", "remember", "window"}, s : Ssn \cup {None}, bootstrap : BOOLEAN]

RestoreRec ==
    [pc : {"idle", "prepare", "workspace", "pending", "each", "complete", "reconcile"},
     manifest : SUBSET Ssn, cold : BOOLEAN, missing : BOOLEAN, todo : SUBSET Ssn,
     bootstrap : BOOLEAN, by : Refresher \cup {None}]

CloseRec ==
    [pc : {"idle", "tombstone", "kill", "forget", "tell"}, i : Index \cup {0},
     s : Ssn \cup {None, NoId}, at : Index \cup {0}, ssn : Ssn \cup {None, NoId},
     cli : BOOLEAN]

DownRec == [pc : {"idle", "tombstone", "allow", "prepare", "kill"}, live : SUBSET Ssn]

\* What the processes and tasks hold; whoever makes a window knows whose, and
\* whoever closes one where.
WorkType ==
    /\ rf \in [Refresher -> RefreshRec]
    /\ making \in [{"new", "up"} -> MakingRec]
    /\ \A c \in {"new", "up"} : making[c].pc # "idle" => making[c].s \in Ssn
    /\ restore \in RestoreRec
    /\ closing \in CloseRec
    /\ closing.pc # "idle" => closing.i \in Index /\ closing.at \in Index
    /\ downing \in DownRec
    /\ commands \in Nat /\ faults \in Nat

TypeInv == TypeOK /\ WorkType

-----------------------------------------------------------------------------
(* Places and the steps of a refresh                                         *)

\* Sessions are neither of the marks that stand for none.
LEMMA Marks == Slot \in Ssn /\ New \subseteq Ssn /\ None \notin Ssn /\ NoId \notin Ssn /\ 0 \notin Index
<1>1. Cardinality(Index) \in Nat
  BY LifecycleAssumption, FS_CardinalityType
<1> QED BY <1>1, LifecycleAssumption

LEMMA PlaceFacts ==
  /\ Empty \in Place
  /\ \A p \in Place : SsnsOf(p) \subseteq Ssn
  /\ [Index -> Ssn \cup {None}] \subseteq Place
BY DEF Empty, Place, SsnsOf

LEMMA IdleRecords ==
  /\ IdleRefresh \in RefreshRec
  /\ IdleMaking \in MakingRec /\ IdleMaking.pc = "idle"
  /\ IdleRestore \in RestoreRec /\ IdleRestore.pc = "idle" /\ IdleRestore.todo = {}
  /\ IdleClose \in CloseRec /\ IdleClose.pc = "idle"
  /\ IdleDown \in DownRec
<1>1. IdleRefresh \in RefreshRec
  BY PlaceFacts DEF IdleRefresh, RefreshRec
<1> QED BY <1>1 DEF IdleMaking, MakingRec, IdleRestore, RestoreRec, IdleClose, CloseRec,
                    IdleDown, DownRec

\* Whatever a refresh does next, its record is one.
LEMMA AfterType ==
  ASSUME NEW rec \in RefreshRec, NEW pc
  PROVE  After(rec, pc) \in RefreshRec
<1> DEFINE todo == (IF pc = "apply" /\ rec.healed # {} THEN {"reopen"} ELSE {})
                   \cup (IF pc \in {"apply", "reopen"} /\ rec.vanished # {} THEN {"mark"} ELSE {})
                   \cup (IF ~rec.boot THEN {"save"} ELSE {})
<1>1. [rec EXCEPT !.pc = "reopen"] \in RefreshRec
  BY DEF RefreshRec
<1>2. [rec EXCEPT !.pc = "mark", !.healed = {}] \in RefreshRec
  BY DEF RefreshRec
<1>3. [IdleRefresh EXCEPT !.pc = "save", !.live = rec.live] \in RefreshRec
  BY IdleRecords DEF RefreshRec
<1>4. CASE "reopen" \in todo
  <2>1. After(rec, pc) = [rec EXCEPT !.pc = "reopen"]
    BY <1>4 DEF After
  <2> QED BY <2>1, <1>1
<1>5. CASE "reopen" \notin todo /\ "mark" \in todo
  <2>1. After(rec, pc) = [rec EXCEPT !.pc = "mark", !.healed = {}]
    BY <1>5 DEF After
  <2> QED BY <2>1, <1>2
<1>6. CASE "reopen" \notin todo /\ "mark" \notin todo /\ todo = {"save"}
  <2>1. After(rec, pc) = [IdleRefresh EXCEPT !.pc = "save", !.live = rec.live]
    BY <1>6 DEF After
  <2> QED BY <2>1, <1>3
<1>7. CASE "reopen" \notin todo /\ "mark" \notin todo /\ todo # {"save"}
  <2>1. After(rec, pc) = IdleRefresh
    BY <1>7 DEF After
  <2> QED BY <2>1, IdleRecords
<1> QED BY <1>4, <1>5, <1>6, <1>7

-----------------------------------------------------------------------------
(* Types                                                                     *)

LEMMA InitTypes == Init => TypeInv
<1> SUFFICES ASSUME Init PROVE TypeInv
  OBVIOUS
<1>1. win \in [Index -> Ssn \cup {None}] /\ SsnsOf(win) = Ssn \ New
  BY DEF Init
<1>2. rows \in Place /\ file \in Place
  BY <1>1, PlaceFacts DEF Init
<1>3. \A s \in Ssn \ New : (CHOOSE i \in Index : win[i] = s) \in Index
  <2> SUFFICES ASSUME NEW s \in Ssn \ New PROVE \E i \in Index : win[i] = s
    OBVIOUS
  <2> QED BY <1>1 DEF SsnsOf
<1>4. record \in [Ssn -> Index \cup {0}]
  BY <1>3 DEF Init
<1>5. TypeOK
  BY <1>1, <1>2, <1>4, Marks DEF Init, TypeOK
<1>6. WorkType
  BY IdleRecords DEF Init, WorkType
<1> QED BY <1>5, <1>6 DEF TypeInv

\* The rows after a merge are rows.
LEMMA MergedType ==
  ASSUME NEW rec \in RefreshRec, NEW touched, rows \in Place
  PROVE  Merged(rec, touched) \in Place
<1>1. rec.polled \in Place
  BY DEF RefreshRec
<1> QED BY <1>1 DEF Merged, Place

LEMMA RefreshTypes ==
  ASSUME TypeInv, NEW r \in Refresher, RefreshStep(r)
  PROVE  TypeInv'
<1> USE DEF TypeInv
<1>1. rf[r] \in RefreshRec /\ rows \in Place /\ win \in Place
  BY PlaceFacts DEF WorkType, TypeOK
<1>2. ASSUME NEW rec \in RefreshRec, Refresh(r, rec)
      PROVE  rf' \in [Refresher -> RefreshRec]
  BY <1>2 DEF Refresh, WorkType
<1>3. CASE RefreshLook(r)
  <2>1. [rf[r] EXCEPT !.pc = "copy"] \in RefreshRec
    BY <1>1 DEF RefreshRec
  <2>2. rf' \in [Refresher -> RefreshRec]
    BY <1>2, <1>3, <2>1 DEF RefreshLook
  <2> QED BY <1>3, <2>2 DEF RefreshLook, TypeOK, WorkType, tmux, disk, bounds, history
<1>4. ASSUME NEW rec \in RefreshRec PROVE Polled(rec) \in RefreshRec
  BY <1>1, IdleRecords DEF Polled, RefreshRec
<1>5. CASE RefreshCopy(r)
  <2>1. Copied(r) \in RefreshRec
    BY <1>1 DEF Copied, RefreshRec, TypeOK
  <2>2. [Copied(r) EXCEPT !.pc = "poll"] \in RefreshRec
    BY <2>1 DEF RefreshRec
  <2>3. rf' \in [Refresher -> RefreshRec]
    BY <1>2, <1>4, <1>5, <2>1, <2>2 DEF RefreshCopy
  <2> QED BY <1>5, <2>3 DEF RefreshCopy, TypeOK, WorkType, tmux, state, disk, bounds, history
<1>6. CASE RefreshPoll(r)
  <2>1. rf' \in [Refresher -> RefreshRec]
    BY <1>1, <1>2, <1>4, <1>6 DEF RefreshPoll
  <2> QED BY <1>6, <2>1 DEF RefreshPoll, TypeOK, WorkType, tmux, state, disk, bounds, history
<1>7. CASE RefreshApply(r)
  <2>1. PICK touched \in SUBSET Touchable(rf[r]) :
          /\ commands' = commands + Cardinality(touched)
          /\ rows' = Merged(rf[r], touched)
          /\ markers' = KeptMarkers(rf[r])
          /\ Refresh(r, After([rf[r] EXCEPT
                 !.healed   = rf[r].closed \cap SsnsOf(rf[r].polled),
                 !.vanished = IF rf[r].boot THEN {} ELSE Vanished(rf[r], Merged(rf[r], touched)),
                 !.live     = IF rf[r].boot THEN {} ELSE SsnsOf(Merged(rf[r], touched)),
                 !.prev = Empty, !.polled = Empty, !.closed = {}], "apply"))
    BY <1>7 DEF RefreshApply
  <2> DEFINE next == Merged(rf[r], touched)
             a == [rf[r] EXCEPT
                 !.healed   = rf[r].closed \cap SsnsOf(rf[r].polled),
                 !.vanished = IF rf[r].boot THEN {} ELSE Vanished(rf[r], next),
                 !.live     = IF rf[r].boot THEN {} ELSE SsnsOf(next),
                 !.prev = Empty, !.polled = Empty, !.closed = {}]
  <2>2. next \in Place /\ rf[r].prev \in Place
    BY <1>1, MergedType DEF RefreshRec
  <2>3. Vanished(rf[r], next) \subseteq Ssn /\ SsnsOf(next) \subseteq Ssn
    BY <2>2, PlaceFacts DEF Vanished
  <2>4. a \in RefreshRec
    <3> HIDE DEF next
    <3> QED BY <1>1, <2>3, PlaceFacts DEF RefreshRec
  <2>5. After(a, "apply") \in RefreshRec
    BY <2>4, AfterType
  <2>6. rf' \in [Refresher -> RefreshRec]
    BY <1>2, <2>1, <2>5
  <2>7. IsFiniteSet(touched) /\ Cardinality(touched) \in Nat
    <3>1. touched \subseteq Index
      BY DEF Touchable
    <3> QED BY <3>1, LifecycleAssumption, FS_Subset, FS_CardinalityType
  <2>8. commands' \in Nat
    BY <2>1, <2>7 DEF WorkType
  <2>9. markers' \subseteq Ssn
    BY <2>1 DEF KeptMarkers, TypeOK
  <2>10. rows' \in Place
    BY <2>1, <2>2
  <2>11. TypeOK'
    BY <1>7, <2>9, <2>10 DEF RefreshApply, TypeOK, tmux, disk, history
  <2> QED BY <1>7, <2>6, <2>8, <2>11 DEF RefreshApply, WorkType
<1>8. CASE RefreshReopen(r)
  <2>1. rf' \in [Refresher -> RefreshRec]
    BY <1>1, <1>2, <1>8, AfterType DEF RefreshReopen
  <2>2. entry' \in [Ssn -> {"absent", "open", "closed"}]
    BY <1>8 DEF RefreshReopen, Reopened, TypeOK
  <2> QED BY <1>8, <2>1, <2>2 DEF RefreshReopen, TypeOK, WorkType, tmux, state, bounds, history
<1>9. CASE RefreshMark(r)
  <2>1. rf' \in [Refresher -> RefreshRec]
    BY <1>1, <1>2, <1>9, AfterType DEF RefreshMark
  <2>2. entry' \in [Ssn -> {"absent", "open", "closed"}]
    BY <1>9 DEF RefreshMark, Closed, TypeOK
  <2> QED BY <1>9, <2>1, <2>2 DEF RefreshMark, TypeOK, WorkType, tmux, state, bounds, history
<1>10. CASE RefreshSave(r)
  <2>1. rf' \in [Refresher -> RefreshRec]
    BY <1>2, <1>10, IdleRecords DEF RefreshSave
  <2>2. allow' \subseteq Ssn
    BY <1>1, <1>10 DEF RefreshSave, RefreshRec
  <2> QED BY <1>10, <2>1, <2>2 DEF RefreshSave, TypeOK, WorkType, tmux, state, bounds, history
<1> QED BY <1>3, <1>5, <1>6, <1>7, <1>8, <1>9, <1>10 DEF RefreshStep

\* The daemon, its death and its start, and hooks.
LEMMA DaemonTypes ==
  ASSUME TypeInv,
         \/ Persist \/ DaemonDies \/ DaemonStarts \/ AutoReconcile
         \/ \E s \in Ssn : Hook(s)
         \/ \E i \in Index : BareHook(i)
  PROVE  TypeInv'
<1> USE DEF TypeInv
<1>1. CASE Persist
  BY <1>1 DEF Persist, TypeOK, WorkType, tmux, state, disk, work, bounds, history
<1>2. CASE DaemonDies
  <2>1. rf' \in [Refresher -> RefreshRec]
    BY <1>2, IdleRecords DEF DaemonDies
  <2>2. /\ closing' \in CloseRec
        /\ closing'.pc # "idle" => closing'.i \in Index /\ closing'.at \in Index
    BY <1>2, IdleRecords DEF DaemonDies, WorkType
  <2>3. TypeOK'
    BY <1>2, PlaceFacts DEF DaemonDies, TypeOK, tmux, disk
  <2>4. commands' \in Nat /\ faults' \in Nat /\ downing' \in DownRec
    BY <1>2 DEF DaemonDies, Fault, WorkType
  <2>5. /\ making' \in [{"new", "up"} -> MakingRec] /\ restore' \in RestoreRec
        /\ \A c \in {"new", "up"} : making'[c].pc # "idle" => making'[c].s \in Ssn
    BY <1>2 DEF DaemonDies, WorkType
  <2> QED BY <2>1, <2>2, <2>3, <2>4, <2>5 DEF WorkType
<1>3. CASE DaemonStarts
  BY <1>3 DEF DaemonStarts, TypeOK, WorkType, tmux, disk, work, bounds, history
<1>4. CASE AutoReconcile
  BY <1>4 DEF AutoReconcile, TypeOK, WorkType, tmux, disk, work, bounds, history
<1>5. ASSUME NEW s \in Ssn, Hook(s) PROVE TypeInv'
  <2>1. rows' \in Place
    BY <1>5 DEF Hook, TypeOK, Place
  <2> QED BY <1>5, <2>1 DEF Hook, Command, TypeOK, WorkType, tmux, disk, work, history
<1>6. ASSUME NEW i \in Index, BareHook(i) PROVE TypeInv'
  <2>1. rows' \in Place
    BY <1>6 DEF BareHook, TypeOK, Place
  <2> QED BY <1>6, <2>1 DEF BareHook, Command, TypeOK, WorkType, tmux, disk, work, history
<1> QED BY <1>1, <1>2, <1>3, <1>4, <1>5, <1>6

\* Creations, and the restore that makes them.
LEMMA MakeTypes ==
  ASSUME TypeInv,
         \/ \E s \in Ssn : NewStarts(s)
         \/ \E c \in {"new", "up"} : MakeStep(c)
  PROVE  TypeInv'
<1> USE DEF TypeInv
<1>1. ASSUME NEW s \in Ssn, NewStarts(s) PROVE TypeInv'
  <2>1. [pc |-> "append", s |-> s, bootstrap |-> FALSE] \in MakingRec
    BY DEF MakingRec
  <2>2. /\ making' \in [{"new", "up"} -> MakingRec]
        /\ \A c \in {"new", "up"} : making'[c].pc # "idle" => making'[c].s \in Ssn
    BY <1>1, <2>1 DEF NewStarts, Making, WorkType
  <2> QED BY <1>1, <2>2 DEF NewStarts, Command, TypeOK, WorkType, tmux, state, disk, history
<1>2. ASSUME NEW c \in {"new", "up"}, NEW pc \in {"remember", "window"}, making[c].pc # "idle",
             Making(c, [making[c] EXCEPT !.pc = pc])
      PROVE  /\ making' \in [{"new", "up"} -> MakingRec]
             /\ \A d \in {"new", "up"} : making'[d].pc # "idle" => making'[d].s \in Ssn
  <2> DEFINE m == [making[c] EXCEPT !.pc = pc]
  <2>1. m \in MakingRec /\ m.s = making[c].s
    BY DEF WorkType, MakingRec
  <2>2. making' = [making EXCEPT ![c] = m]
    BY <1>2 DEF Making
  <2> HIDE DEF m
  <2> QED BY <1>2, <2>1, <2>2 DEF WorkType
<1>3. ASSUME NEW c \in {"new", "up"}, Making(c, IdleMaking)
      PROVE  /\ making' \in [{"new", "up"} -> MakingRec]
             /\ \A d \in {"new", "up"} : making'[d].pc # "idle" => making'[d].s \in Ssn
  BY <1>3, IdleRecords DEF Making, WorkType
<1>4. ASSUME NEW c \in {"new", "up"}, MakeEntry(c) PROVE TypeInv'
  <2>1. entry' \in [Ssn -> {"absent", "open", "closed"}]
    BY <1>4 DEF MakeEntry, Appended, TypeOK, WorkType
  <2> QED BY <1>2, <1>4, <2>1 DEF MakeEntry, TypeOK, WorkType, tmux, state, bounds, history
<1>5. ASSUME NEW c \in {"new", "up"}, MakeAllowed(c) PROVE TypeInv'
  <2>1. allow' \subseteq Ssn
    BY <1>5 DEF MakeAllowed, Remembered, TypeOK, WorkType
  <2> QED BY <1>2, <1>5, <2>1 DEF MakeAllowed, TypeOK, WorkType, tmux, state, bounds, history
<1>6. ASSUME NEW c \in {"new", "up"}, MakeWindow(c) PROVE TypeInv'
  <2>1. making[c].s \in Ssn
    BY <1>6 DEF MakeWindow, WorkType
  <2>2. /\ win' \in [Index -> Ssn \cup {None}]
        /\ record' \in [Ssn -> Index \cup {0}]
    BY <1>6, <2>1 DEF MakeWindow, TypeOK
  <2> QED BY <1>3, <1>6, <2>2 DEF MakeWindow, TypeOK, WorkType, state, bounds
<1>7. ASSUME NEW c \in {"new", "up"}, MakeFails(c) PROVE TypeInv'
  <2>1. restore' \in RestoreRec
    BY <1>7, IdleRecords DEF MakeFails, WorkType
  <2> QED BY <1>3, <1>7, <2>1 DEF MakeFails, TypeOK, WorkType, tmux, state, disk, bounds, history
<1> QED BY <1>1, <1>4, <1>5, <1>6, <1>7 DEF MakeStep

LEMMA UpTypes ==
  ASSUME TypeInv, UpLoads \/ UpStep
  PROVE  TypeInv'
<1> USE DEF TypeInv
<1>1. restore \in RestoreRec /\ Live \subseteq Ssn /\ OpenEntries \subseteq Ssn
  BY PlaceFacts DEF WorkType, TypeOK, Live, OpenEntries
<1>2. \A S : S \subseteq Ssn => NeedRestore(S) \subseteq Ssn
  BY DEF NeedRestore
<1>3. CASE UpLoads
  <2>1. restore' \in RestoreRec
    BY <1>1, <1>3, IdleRecords DEF UpLoads, RestoreRec
  <2> QED BY <1>3, <2>1 DEF UpLoads, Command, TypeOK, WorkType, tmux, state, disk, history
<1>4. CASE UpPrepares
  <2>1. restore' \in RestoreRec
    BY <1>1, <1>4 DEF UpPrepares, RestoreRec
  <2> QED BY <1>4, <2>1 DEF UpPrepares, TypeOK, WorkType, tmux, disk, bounds, history
<1>5. CASE UpBootstraps
  <2>1. restore' \in RestoreRec
    BY <1>1, <1>5 DEF UpBootstraps, RestoreRec
  <2>2. [pc |-> "append", s |-> Slot, bootstrap |-> TRUE] \in MakingRec
    BY Marks DEF MakingRec
  <2>3. /\ making' \in [{"new", "up"} -> MakingRec]
        /\ \A c \in {"new", "up"} : making'[c].pc # "idle" => making'[c].s \in Ssn
    <3>1. \/ making' = making
          \/ making' = [making EXCEPT !["up"] = [pc |-> "append", s |-> Slot, bootstrap |-> TRUE]]
      BY <1>5 DEF UpBootstraps, Making
    <3> DEFINE m == [pc |-> "append", s |-> Slot, bootstrap |-> TRUE]
    <3>2. m.s \in Ssn /\ m \in MakingRec
      BY <2>2, Marks
    <3>3. making' = making \/ making' = [making EXCEPT !["up"] = m]
      BY <3>1
    <3> HIDE DEF m
    <3> QED BY <3>2, <3>3 DEF WorkType
  <2>4. entry' \in [Ssn -> {"absent", "open", "closed"}]
    BY <1>5 DEF UpBootstraps, Reopened, TypeOK
  <2> QED BY <1>5, <2>1, <2>3, <2>4 DEF UpBootstraps, TypeOK, WorkType, tmux, state, bounds, history
<1>6. CASE UpLists
  <2>1. restore' \in RestoreRec
    BY <1>1, <1>2, <1>6 DEF UpLists, RestoreRec
  <2> QED BY <1>6, <2>1 DEF UpLists, TypeOK, WorkType, tmux, state, disk, bounds, history
<1>7. CASE UpCreates
  <2>1. PICK s \in restore.todo :
          /\ Making("up", [pc |-> "append", s |-> s, bootstrap |-> restore.bootstrap])
          /\ restore' = [restore EXCEPT !.todo = @ \ {s}, !.bootstrap = FALSE]
    BY <1>7 DEF UpCreates
  <2>2. s \in Ssn /\ restore' \in RestoreRec
    BY <1>1, <2>1 DEF RestoreRec
  <2>3. [pc |-> "append", s |-> s, bootstrap |-> restore.bootstrap] \in MakingRec
    BY <1>1, <2>2 DEF MakingRec, RestoreRec
  <2>4. /\ making' \in [{"new", "up"} -> MakingRec]
        /\ \A c \in {"new", "up"} : making'[c].pc # "idle" => making'[c].s \in Ssn
    BY <2>1, <2>2, <2>3 DEF Making, WorkType
  <2> QED BY <1>7, <2>2, <2>4 DEF UpCreates, TypeOK, WorkType, tmux, state, disk, bounds, history
<1>8. CASE UpCollects
  <2>1. restore' \in RestoreRec
    BY <1>1, <1>8 DEF UpCollects, RestoreRec
  <2>2. record' \in [Ssn -> Index \cup {0}]
    BY <1>8 DEF UpCollects, TypeOK
  <2> QED BY <1>8, <2>1, <2>2 DEF UpCollects, TypeOK, WorkType, tmux, state, bounds, history
<1>9. CASE UpCompletes
  <2>1. PICK r \in Refresher :
          /\ Refresh(r, [rf[r] EXCEPT !.pc = "copy"])
          /\ restore' = [restore EXCEPT !.pc = "reconcile", !.by = r]
    BY <1>9 DEF UpCompletes
  <2>2. restore' \in RestoreRec
    BY <1>1, <2>1 DEF RestoreRec
  <2>3. [rf[r] EXCEPT !.pc = "copy"] \in RefreshRec
    BY DEF WorkType, RefreshRec
  <2>4. rf' \in [Refresher -> RefreshRec]
    BY <2>1, <2>3 DEF Refresh, WorkType
  <2>5. booting' \in BOOLEAN
    BY <1>9 DEF UpCompletes
  <2> QED BY <1>9, <2>2, <2>4, <2>5 DEF UpCompletes, TypeOK, WorkType, tmux, disk, bounds, history
<1>10. CASE UpFails
  BY <1>10, IdleRecords DEF UpFails, TypeOK, WorkType, tmux, state, disk, bounds, history
<1>11. CASE UpEnds
  BY <1>11, IdleRecords DEF UpEnds, TypeOK, WorkType, tmux, state, disk, bounds
<1> QED BY <1>3, <1>4, <1>5, <1>6, <1>7, <1>8, <1>9, <1>10, <1>11 DEF UpStep

LEMMA CloseTypes ==
  ASSUME TypeInv,
         \/ \E i \in Index : CloseStarts(i) \/ CliCloseStarts(i)
         \/ CloseStep
  PROVE  TypeInv'
<1> USE DEF TypeInv
<1>1. closing \in CloseRec /\ rows \in Place /\ file \in Place
  BY DEF WorkType, TypeOK
<1>2. ASSUME NEW i \in Index, CloseStarts(i) PROVE TypeInv'
  <2>1. rows[i] \in Ssn \cup {NoId}
    BY <1>1, <1>2 DEF CloseStarts, Place
  <2>2. closing' \in CloseRec /\ closing'.i \in Index /\ closing'.at \in Index
    BY <1>2, <2>1 DEF CloseStarts, CloseRec
  <2> QED BY <1>2, <2>2 DEF CloseStarts, Command, TypeOK, WorkType, tmux, state, disk, history
<1>3. ASSUME NEW i \in Index, CliCloseStarts(i) PROVE TypeInv'
  <2>1. closing' \in CloseRec /\ closing'.i \in Index /\ closing'.at \in Index
    BY <1>3 DEF CliCloseStarts, CloseRec
  <2> QED BY <1>3, <2>1 DEF CliCloseStarts, Command, TypeOK, WorkType, tmux, state, disk, history
<1>4. CASE CloseTombstones
  <2>1. closing.i \in Index
    BY <1>4 DEF CloseTombstones, WorkType
  <2>2. PICK j \in IF Resolved = {} THEN {closing.i} ELSE Resolved :
          LET s == IF file[j] \in Ssn THEN file[j] ELSE closing.s
          IN  /\ entry' = Closed({s})
              /\ closing' = [closing EXCEPT !.pc = "kill", !.at = j, !.ssn = s]
    BY <1>4 DEF CloseTombstones
  <2>3. j \in Index
    BY <2>1, <2>2 DEF Resolved
  <2> DEFINE s == IF file[j] \in Ssn THEN file[j] ELSE closing.s
  <2>4. s \in Ssn \cup {None, NoId}
    BY <1>1 DEF CloseRec
  <2>5. closing' = [closing EXCEPT !.pc = "kill", !.at = j, !.ssn = s] /\ entry' = Closed({s})
    BY <2>2
  <2> HIDE DEF s
  <2>6. closing' \in CloseRec /\ closing'.i \in Index /\ closing'.at \in Index
    BY <1>1, <2>1, <2>3, <2>4, <2>5 DEF CloseRec
  <2>7. entry' \in [Ssn -> {"absent", "open", "closed"}]
    BY <2>5 DEF Closed, TypeOK
  <2> QED BY <1>4, <2>6, <2>7 DEF CloseTombstones, TypeOK, WorkType, tmux, state, bounds, history
<1>5. CASE CloseKills
  <2>1. closing.at \in Index /\ closing.i \in Index
    BY <1>5 DEF CloseKills, WorkType
  <2>2. closing' \in CloseRec /\ closing'.i \in Index /\ closing'.at \in Index
    BY <1>1, <1>5, <2>1 DEF CloseKills, CloseRec
  <2>3. win' \in [Index -> Ssn \cup {None}] /\ record' \in [Ssn -> Index \cup {0}]
    BY <1>5 DEF CloseKills, TypeOK
  <2> QED BY <1>5, <2>2, <2>3 DEF CloseKills, TypeOK, WorkType, state, bounds, history
<1>6. CASE CloseRefused
  BY <1>6, IdleRecords DEF CloseRefused, TypeOK, WorkType, tmux, state, disk, bounds, history
<1>7. CASE CloseForgets
  <2>1. rows' \in Place
    BY <1>1, <1>7 DEF CloseForgets, Place
  <2>2. markers' \subseteq Ssn /\ gone' \subseteq Ssn
    BY <1>7 DEF CloseForgets, Removed, TypeOK
  <2> QED BY <1>7, <2>1, <2>2, IdleRecords DEF CloseForgets, TypeOK, WorkType, tmux, disk, bounds
<1>8. CASE CliCloseTells
  <2>1. closing.at \in Index
    BY <1>8 DEF CliCloseTells, WorkType
  <2>2. rows[closing.at] \in Ssn \cup {None, NoId}
    BY <1>1, <2>1 DEF Place
  <2>3. /\ closing' \in CloseRec
        /\ closing'.pc # "idle" => closing'.i \in Index /\ closing'.at \in Index
    BY <1>8, <2>1, <2>2, IdleRecords DEF CliCloseTells, CloseRec
  <2> QED BY <1>8, <2>3 DEF CliCloseTells, TypeOK, WorkType, tmux, state, disk, bounds, history
<1> QED BY <1>2, <1>3, <1>4, <1>5, <1>6, <1>7, <1>8 DEF CloseStep

LEMMA DownTypes ==
  ASSUME TypeInv, DownLists \/ DownStep
  PROVE  TypeInv'
<1> USE DEF TypeInv
<1>1. downing \in DownRec /\ downing.live \subseteq Ssn
  BY DEF WorkType, DownRec
<1>2. CASE DownLists
  <2>1. downing' \in DownRec
    BY <1>2, PlaceFacts DEF DownLists, DownRec, TypeOK
  <2> QED BY <1>2, <2>1 DEF DownLists, Command, TypeOK, WorkType, tmux, state, disk, history
<1>3. \A pc \in {"allow", "prepare", "kill"} : [downing EXCEPT !.pc = pc] \in DownRec
  BY <1>1 DEF DownRec
<1>4. CASE DownTombstones
  <2>1. entry' \in [Ssn -> {"absent", "open", "closed"}]
    BY <1>4 DEF DownTombstones, Closed, TypeOK
  <2> QED BY <1>3, <1>4, <2>1 DEF DownTombstones, TypeOK, WorkType, tmux, state, bounds, history
<1>5. CASE DownAllows
  BY <1>1, <1>3, <1>5 DEF DownAllows, TypeOK, WorkType, tmux, state, bounds, history
<1>6. CASE DownPrepares
  BY <1>3, <1>6 DEF DownPrepares, TypeOK, WorkType, tmux, disk, bounds, history
<1>7. CASE DownKills
  <2>1. win' \in [Index -> Ssn \cup {None}] /\ promised' \subseteq Ssn
    BY <1>7, PlaceFacts DEF DownKills, Empty, Live, TypeOK
  <2> QED BY <1>7, <2>1, IdleRecords DEF DownKills, TypeOK, WorkType, state, disk, bounds
<1> QED BY <1>2, <1>4, <1>5, <1>6, <1>7 DEF DownStep

LEMMA FaultTypes ==
  ASSUME TypeInv, ServerDies \/ \E i \in Index : WindowExits(i)
  PROVE  TypeInv'
<1> USE DEF TypeInv
<1>1. Live \subseteq Ssn
  BY PlaceFacts DEF TypeOK, Live
<1>2. CASE ServerDies
  <2>1. win' \in [Index -> Ssn \cup {None}] /\ promised' \subseteq Ssn
    BY <1>1, <1>2 DEF ServerDies, Empty, TypeOK
  <2> QED BY <1>2, <2>1 DEF ServerDies, Fault, TypeOK, WorkType, state, disk, work
<1>3. ASSUME NEW i \in Index, WindowExits(i) PROVE TypeInv'
  <2>1. win' \in [Index -> Ssn \cup {None}] /\ promised' \subseteq Ssn
    BY <1>3 DEF WindowExits, TypeOK
  <2> QED BY <1>3, <2>1 DEF WindowExits, Fault, TypeOK, WorkType, state, disk, work
<1> QED BY <1>2, <1>3

LEMMA StepTypes == TypeInv /\ [Next]_vars => TypeInv'
<1> SUFFICES ASSUME TypeInv, [Next]_vars PROVE TypeInv'
  OBVIOUS
<1>1. CASE UNCHANGED vars
  BY <1>1 DEF vars, TypeInv, TypeOK, WorkType, tmux, state, disk, work, bounds, history
<1>2. CASE Next
  BY <1>2, RefreshTypes, DaemonTypes, MakeTypes, UpTypes, CloseTypes, DownTypes, FaultTypes DEF Next
<1> QED BY <1>1, <1>2

\* The types of the variables, and that whoever makes or closes a window knows
\* which.
THEOREM LifecycleTypeCorrect == Spec => []TypeOK
<1>1. TypeInv => TypeOK
  BY DEF TypeInv
<1> QED BY <1>1, InitTypes, StepTypes, PTL DEF Spec

-----------------------------------------------------------------------------
(* One window for each session                                               *)

\* No session is created while `sessions up` runs.  A new session has its entry
\* and is in the allowlist before it has its window, so an `up` that lists the
\* windows in between restores it, and it is there twice.
Apart == making["new"].pc = "idle" \/ restore.pc = "idle"

\* A session without an entry has no window: its id is new.
NewIdsAreNew ==
    /\ \A s \in Ssn : entry[s] = "absent" => s \notin Live
    /\ \A c \in {"new", "up"} : making[c].pc \in {"remember", "window"}
                                  => entry[making[c].s] # "absent"

\* What is being made or is still to be restored has no window, and each of
\* them comes once.
MadeOnce ==
    /\ \A c \in {"new", "up"} : making[c].pc # "idle" => making[c].s \notin Live
    /\ making["up"].pc # "idle" => /\ restore.pc \in {"pending", "each"}
                                   /\ making["up"].s \notin restore.todo
    /\ restore.pc # "each" => restore.todo = {}
    /\ restore.todo \cap Live = {}

WindowInv == TypeInv /\ OneWindowEach /\ NewIdsAreNew /\ MadeOnce

LEMMA InitWindows == Init => WindowInv
<1> SUFFICES ASSUME Init PROVE WindowInv
  OBVIOUS
<1>1. TypeInv
  BY InitTypes
<1>2. \A i, j \in Index : win[i] # None /\ win[i] = win[j] => i = j
  <2> SUFFICES ASSUME NEW i \in Index, NEW j \in Index, win[i] # None, win[i] = win[j], i # j
               PROVE  FALSE
    OBVIOUS
  <2>1. Cardinality(Index) \in Nat
    BY LifecycleAssumption, FS_CardinalityType
  <2>2. Index \subseteq Nat
    BY <2>1, LifecycleAssumption
  <2>3. i < j \/ j < i
    BY <2>2
  <2> QED BY <2>3 DEF Init
<1>3. Live = Ssn \ New
  BY DEF Init, Live
<1>4. NewIdsAreNew
  BY <1>3, IdleRecords DEF Init, NewIdsAreNew
<1>5. MadeOnce
  BY <1>3, IdleRecords DEF Init, MadeOnce
<1> QED BY <1>1, <1>2, <1>4, <1>5 DEF WindowInv, OneWindowEach

\* Windows that go and entries that change leave everything as it is.
LEMMA WindowsGo ==
  ASSUME WindowInv, TypeInv', UNCHANGED <<making, restore>>,
         \A i \in Index : win'[i] \in {win[i], None},
         \A s \in Ssn : entry'[s] = "absent" => entry[s] = "absent"
  PROVE  WindowInv'
<1>1. Live' \subseteq Live
  BY DEF Live, SsnsOf
<1>2. OneWindowEach'
  BY DEF WindowInv, OneWindowEach
<1>3. NewIdsAreNew'
  BY <1>1 DEF WindowInv, TypeInv, WorkType, NewIdsAreNew
<1>4. MadeOnce'
  BY <1>1 DEF WindowInv, MadeOnce
<1> QED BY <1>2, <1>3, <1>4 DEF WindowInv

\* A step that changes neither windows nor entries, and who makes what is next.
LEMMA PlansChange ==
  ASSUME WindowInv, TypeInv', UNCHANGED <<win, entry>>, MadeOnce',
         \A c \in {"new", "up"} : making'[c].pc \in {"remember", "window"}
                                    => entry[making'[c].s] # "absent"
  PROVE  WindowInv'
<1>1. Live' = Live
  BY DEF Live
<1>2. NewIdsAreNew'
  BY <1>1 DEF WindowInv, NewIdsAreNew
<1> QED BY <1>2 DEF WindowInv, OneWindowEach

LEMMA MakeKeeps ==
  ASSUME WindowInv, Apart, TypeInv',
         \/ \E s \in Ssn : NewStarts(s)
         \/ \E c \in {"new", "up"} : MakeStep(c)
  PROVE  WindowInv'
<1>1. /\ making \in [{"new", "up"} -> MakingRec] /\ restore \in RestoreRec
      /\ win \in [Index -> Ssn \cup {None}] /\ entry \in [Ssn -> {"absent", "open", "closed"}]
      /\ \A c \in {"new", "up"} : making[c].pc # "idle" => making[c].s \in Ssn
  BY DEF WindowInv, TypeInv, TypeOK, WorkType
<1>2. ASSUME NEW s \in Ssn, NewStarts(s) PROVE WindowInv'
  <2>1. /\ making' = [making EXCEPT !["new"] = [pc |-> "append", s |-> s, bootstrap |-> FALSE]]
        /\ UNCHANGED <<win, entry, restore>> /\ entry[s] = "absent"
    BY <1>2 DEF NewStarts, Making, tmux, disk
  <2>2. /\ making'["up"] = making["up"]
        /\ making'["new"].pc = "append" /\ making'["new"].s = s
    BY <1>1, <2>1
  <2>3. Live' = Live /\ s \notin Live
    BY <2>1 DEF Live, WindowInv, NewIdsAreNew
  <2>4. MadeOnce'
    BY <2>1, <2>2, <2>3 DEF WindowInv, MadeOnce
  <2> QED BY <2>1, <2>2, <2>4, PlansChange DEF WindowInv, NewIdsAreNew
<1>3. ASSUME NEW c \in {"new", "up"}, MakeEntry(c) PROVE WindowInv'
  <2>1. /\ making[c].pc = "append" /\ making[c].s \in Ssn
        /\ entry' = [entry EXCEPT ![making[c].s] = IF @ = "absent" THEN "open" ELSE @]
        /\ making' = [making EXCEPT ![c] = [making[c] EXCEPT !.pc = "remember"]]
        /\ UNCHANGED <<win, restore>>
    BY <1>1, <1>3 DEF MakeEntry, Appended, Making, tmux
  <2> DEFINE m == [making[c] EXCEPT !.pc = "remember"]
  <2>2. m.pc = "remember" /\ m.s = making[c].s
    BY <1>1 DEF MakingRec
  <2>3. /\ making'[c].pc = "remember" /\ making'[c].s = making[c].s
        /\ \A d \in {"new", "up"} \ {c} : making'[d] = making[d]
    <3>1. making' = [making EXCEPT ![c] = m]
      BY <2>1
    <3> HIDE DEF m
    <3> QED BY <1>1, <2>2, <3>1
  <2>4. /\ entry'[making[c].s] # "absent"
        /\ \A s \in Ssn : entry'[s] = "absent" => entry[s] = "absent"
    BY <1>1, <2>1
  <2>5. Live' = Live
    BY <2>1 DEF Live
  <2>6. NewIdsAreNew'
    BY <1>1, <2>3, <2>4, <2>5 DEF WindowInv, NewIdsAreNew
  <2>7. MadeOnce'
    BY <2>1, <2>3, <2>5 DEF WindowInv, MadeOnce
  <2> QED BY <2>1, <2>6, <2>7 DEF WindowInv, OneWindowEach
<1>4. ASSUME NEW c \in {"new", "up"}, MakeAllowed(c) PROVE WindowInv'
  <2>1. /\ making[c].pc = "remember"
        /\ making' = [making EXCEPT ![c] = [making[c] EXCEPT !.pc = "window"]]
        /\ UNCHANGED <<win, entry, restore>>
    BY <1>4 DEF MakeAllowed, Making, tmux
  <2> DEFINE m == [making[c] EXCEPT !.pc = "window"]
  <2>2. m.pc = "window" /\ m.s = making[c].s
    BY <1>1 DEF MakingRec
  <2>3. /\ making'[c].pc = "window" /\ making'[c].s = making[c].s
        /\ \A d \in {"new", "up"} \ {c} : making'[d] = making[d]
    <3>1. making' = [making EXCEPT ![c] = m]
      BY <2>1
    <3> HIDE DEF m
    <3> QED BY <1>1, <2>2, <3>1
  <2>4. Live' = Live
    BY <2>1 DEF Live
  <2>5. MadeOnce'
    BY <2>1, <2>3, <2>4 DEF WindowInv, MadeOnce
  <2> QED BY <2>1, <2>3, <2>5, PlansChange DEF WindowInv, NewIdsAreNew
<1>5. ASSUME NEW c \in {"new", "up"}, Making(c, IdleMaking)
      PROVE  /\ making'[c].pc = "idle"
             /\ \A d \in {"new", "up"} \ {c} : making'[d] = making[d]
  BY <1>1, <1>5, IdleRecords DEF Making
<1>6. ASSUME NEW c \in {"new", "up"}, MakeWindow(c) PROVE WindowInv'
  <2> DEFINE s == making[c].s
  <2>1. PICK i \in Index : Free(i) /\ win' = [win EXCEPT ![i] = s]
    BY <1>6 DEF MakeWindow
  <2>2. making[c].pc = "window" /\ Making(c, IdleMaking) /\ UNCHANGED <<entry, restore>>
    BY <1>6 DEF MakeWindow
  <2>3. s \in Ssn /\ s \notin Live /\ entry[s] # "absent"
    BY <1>1, <2>2 DEF WindowInv, NewIdsAreNew, MadeOnce
  <2> HIDE DEF s
  <2>4. win'[i] = s /\ \A j \in Index \ {i} : win'[j] = win[j]
    BY <1>1, <2>1
  <2>5. \A j \in Index : win[j] # s
    BY <2>3, Marks DEF Live, SsnsOf
  <2>6. Live' \subseteq Live \cup {s}
    BY <2>4 DEF Live, SsnsOf
  <2>7. OneWindowEach'
    BY <2>4, <2>5 DEF WindowInv, OneWindowEach
  <2>8. /\ making'[c].pc = "idle"
        /\ \A d \in {"new", "up"} \ {c} : making'[d] = making[d]
    BY <1>5, <2>2
  \* The other maker is idle: `up` and a creation do not overlap.
  <2>9. \A d \in {"new", "up"} : making'[d].pc = "idle"
    BY <2>2, <2>8 DEF Apart, WindowInv, MadeOnce
  <2>10. s \notin restore.todo
    BY <2>2 DEF s, Apart, WindowInv, MadeOnce
  <2>11. NewIdsAreNew'
    BY <2>2, <2>3, <2>6, <2>9 DEF WindowInv, NewIdsAreNew
  <2>12. MadeOnce'
    BY <2>2, <2>6, <2>9, <2>10 DEF WindowInv, MadeOnce
  <2> QED BY <2>7, <2>11, <2>12 DEF WindowInv
<1>7. ASSUME NEW c \in {"new", "up"}, MakeFails(c) PROVE WindowInv'
  <2>1. /\ Making(c, IdleMaking) /\ UNCHANGED <<win, entry>>
        /\ restore' = IF c = "up" THEN IdleRestore ELSE restore
    BY <1>7 DEF MakeFails, tmux, disk
  <2>2. /\ making'[c].pc = "idle"
        /\ \A d \in {"new", "up"} \ {c} : making'[d] = making[d]
    BY <1>5, <2>1
  <2>3. Live' = Live
    BY <2>1 DEF Live
  <2>4. MadeOnce'
    BY <2>1, <2>2, <2>3, IdleRecords DEF WindowInv, MadeOnce
  <2> QED BY <2>1, <2>2, <2>4, PlansChange DEF WindowInv, NewIdsAreNew
<1> QED BY <1>2, <1>3, <1>4, <1>6, <1>7 DEF MakeStep

LEMMA UpKeeps ==
  ASSUME WindowInv, TypeInv', UpLoads \/ UpStep
  PROVE  WindowInv'
<1>1. /\ making \in [{"new", "up"} -> MakingRec] /\ restore \in RestoreRec
      /\ entry \in [Ssn -> {"absent", "open", "closed"}]
  BY DEF WindowInv, TypeInv, TypeOK, WorkType
<1>2. ASSUME UNCHANGED <<win, entry, making>>,
             restore.pc \notin {"each"} \/ restore.todo = {},
             making["up"].pc = "idle", restore'.todo = {}
      PROVE  WindowInv'
  <2>1. Live' = Live
    BY <1>2 DEF Live
  <2>2. MadeOnce'
    BY <1>2, <2>1 DEF WindowInv, MadeOnce
  <2> QED BY <1>2, <2>2, PlansChange DEF WindowInv, NewIdsAreNew
<1>3. restore.pc \notin {"pending", "each"} => making["up"].pc = "idle" /\ restore.todo = {}
  BY DEF WindowInv, MadeOnce
<1>4. CASE UpLoads
  <2>1. restore'.todo = {}
    BY <1>1, <1>4, IdleRecords DEF UpLoads, RestoreRec
  <2> QED BY <1>2, <1>3, <1>4, <2>1 DEF UpLoads, tmux, disk
<1>5. CASE UpPrepares
  <2>1. restore'.todo = restore.todo
    BY <1>1, <1>5 DEF UpPrepares, RestoreRec
  <2> QED BY <1>2, <1>3, <1>5, <2>1 DEF UpPrepares, tmux, disk
<1>6. CASE UpBootstraps
  <2>1. restore'.pc = "pending" /\ restore'.todo = {} /\ restore.pc = "workspace"
    BY <1>1, <1>3, <1>6 DEF UpBootstraps, RestoreRec
  <2>2. win' = win /\ Live' = Live
    BY <1>6 DEF UpBootstraps, tmux, Live
  <2>3. CASE Server \/ ~(restore.cold \/ restore.missing)
    <3>1. UNCHANGED <<entry, making>>
      BY <1>6, <2>3 DEF UpBootstraps
    <3> QED BY <1>2, <1>3, <2>1, <2>2, <3>1
  <2>4. CASE ~Server /\ (restore.cold \/ restore.missing)
    <3>1. /\ entry' = Reopened({Slot})
          /\ making' = [making EXCEPT !["up"] = [pc |-> "append", s |-> Slot, bootstrap |-> TRUE]]
      BY <1>6, <2>4 DEF UpBootstraps, Making
    <3>2. Live = {}
      BY <2>4 DEF Server, Live, SsnsOf
    <3>3. \A s \in Ssn : entry'[s] = "absent" => entry[s] = "absent"
      BY <3>1 DEF Reopened
    <3>4. /\ making'["up"].pc = "append" /\ making'["up"].s = Slot
          /\ making'["new"] = making["new"]
      BY <1>1, <3>1
    <3>5. NewIdsAreNew'
      <4>1. making'["new"].pc \in {"remember", "window"} => making["new"].s \in Ssn
        BY <3>4 DEF WindowInv, TypeInv, WorkType
      <4> QED BY <2>2, <3>2, <3>3, <3>4, <4>1 DEF WindowInv, NewIdsAreNew
    <3>6. MadeOnce'
      BY <2>1, <2>2, <3>2, <3>4 DEF MadeOnce
    <3> QED BY <2>2, <3>5, <3>6 DEF WindowInv, OneWindowEach
  <2> QED BY <2>3, <2>4
<1>7. CASE UpLists
  <2>1. /\ restore'.pc = "each"
        /\ restore'.todo = IF restore.cold THEN NeedRestore(restore.manifest) ELSE {}
        /\ making["up"].pc = "idle" /\ UNCHANGED <<win, entry, making>>
    BY <1>1, <1>7 DEF UpLists, RestoreRec, tmux, disk
  <2>2. restore'.todo \cap Live = {} /\ Live' = Live
    BY <2>1 DEF NeedRestore, Live
  <2>3. MadeOnce'
    BY <2>1, <2>2 DEF WindowInv, MadeOnce
  <2> QED BY <2>1, <2>3, PlansChange DEF WindowInv, NewIdsAreNew
<1>8. CASE UpCreates
  <2>1. PICK s \in restore.todo :
          /\ making' = [making EXCEPT !["up"] = [pc |-> "append", s |-> s,
                                                  bootstrap |-> restore.bootstrap]]
          /\ restore' = [restore EXCEPT !.todo = @ \ {s}, !.bootstrap = FALSE]
    BY <1>8 DEF UpCreates, Making
  <2>2. UNCHANGED <<win, entry>> /\ restore.pc = "each"
    BY <1>8 DEF UpCreates, tmux, disk
  <2>3. restore'.pc = "each" /\ restore'.todo = restore.todo \ {s}
    BY <1>1, <2>1, <2>2 DEF RestoreRec
  <2>4. /\ making'["up"].pc = "append" /\ making'["up"].s = s
        /\ making'["new"] = making["new"]
    BY <1>1, <2>1
  <2>5. s \notin Live /\ Live' = Live
    BY <2>2 DEF WindowInv, MadeOnce, Live
  <2>6. MadeOnce'
    BY <2>3, <2>4, <2>5 DEF WindowInv, MadeOnce
  <2> QED BY <2>2, <2>4, <2>6, PlansChange DEF WindowInv, NewIdsAreNew
<1>9. CASE UpCollects
  <2>1. restore'.todo = {}
    BY <1>1, <1>9 DEF UpCollects, RestoreRec
  <2> QED BY <1>2, <1>9, <2>1 DEF UpCollects, tmux
<1>10. CASE UpCompletes
  <2>1. restore'.todo = restore.todo
    BY <1>1, <1>10 DEF UpCompletes, RestoreRec
  <2> QED BY <1>2, <1>3, <1>10, <2>1 DEF UpCompletes, tmux, disk
<1>11. CASE UpFails
  BY <1>2, <1>3, <1>11, IdleRecords DEF UpFails, tmux, disk
<1>12. CASE UpEnds
  BY <1>2, <1>3, <1>12, IdleRecords DEF UpEnds, tmux, disk
<1> QED BY <1>4, <1>5, <1>6, <1>7, <1>8, <1>9, <1>10, <1>11, <1>12 DEF UpStep

\* Everybody else closes windows and entries, or leaves them alone.
LEMMA RestKeeps ==
  ASSUME WindowInv, TypeInv',
         \/ \E r \in Refresher : RefreshStep(r)
         \/ Persist \/ DaemonDies \/ DaemonStarts \/ AutoReconcile
         \/ \E s \in Ssn : Hook(s)
         \/ \E i \in Index : BareHook(i) \/ CloseStarts(i) \/ CliCloseStarts(i) \/ WindowExits(i)
         \/ CloseStep \/ DownLists \/ DownStep \/ ServerDies
  PROVE  WindowInv'
<1>1. win \in [Index -> Ssn \cup {None}] /\ entry \in [Ssn -> {"absent", "open", "closed"}]
  BY DEF WindowInv, TypeInv, TypeOK
<1>2. \A S : \A s \in Ssn : /\ Reopened(S)[s] = "absent" => entry[s] = "absent"
                            /\ Closed(S)[s] = "absent" => entry[s] = "absent"
  BY DEF Reopened, Closed
<1> DEFINE Going == /\ UNCHANGED <<making, restore>>
                    /\ \A i \in Index : win'[i] \in {win[i], None}
                    /\ \A s \in Ssn : entry'[s] = "absent" => entry[s] = "absent"
<1>3. ASSUME NEW r \in Refresher, RefreshStep(r) PROVE Going
  BY <1>2, <1>3 DEF RefreshStep, RefreshLook, RefreshCopy, RefreshPoll, RefreshApply, RefreshReopen,
                    RefreshMark, RefreshSave, tmux, disk
<1>4. ASSUME Persist \/ DaemonDies \/ DaemonStarts \/ AutoReconcile PROVE Going
  BY <1>4 DEF Persist, DaemonDies, DaemonStarts, AutoReconcile, tmux, disk, work
<1>5. ASSUME \E s \in Ssn : Hook(s) PROVE Going
  BY <1>5 DEF Hook, tmux, disk, work
<1>6. ASSUME \E i \in Index : BareHook(i) \/ CloseStarts(i) \/ CliCloseStarts(i) PROVE Going
  BY <1>6 DEF BareHook, CloseStarts, CliCloseStarts, tmux, disk, work
<1>7. ASSUME NEW i \in Index, WindowExits(i) PROVE Going
  BY <1>1, <1>7 DEF WindowExits, disk, work
<1>8. ASSUME CloseStep PROVE Going
  <2>1. CASE CloseTombstones
    BY <1>2, <2>1 DEF CloseTombstones, tmux
  <2>2. CASE CloseKills
    BY <1>1, <2>2 DEF CloseKills
  <2>3. CASE CloseRefused \/ CloseForgets \/ CliCloseTells
    BY <2>3 DEF CloseRefused, CloseForgets, CliCloseTells, tmux, disk
  <2> QED BY <1>8, <2>1, <2>2, <2>3 DEF CloseStep
<1>9. ASSUME DownLists \/ DownStep PROVE Going
  <2>1. CASE DownTombstones
    BY <1>2, <2>1 DEF DownTombstones, tmux
  <2>2. CASE DownKills
    BY <2>2 DEF DownKills, Empty, disk
  <2>3. CASE DownLists \/ DownAllows \/ DownPrepares
    BY <2>3 DEF DownLists, DownAllows, DownPrepares, tmux, disk
  <2> QED BY <1>9, <2>1, <2>2, <2>3 DEF DownStep
<1>10. ASSUME ServerDies PROVE Going
  BY <1>10 DEF ServerDies, Empty, disk, work
<1>11. Going
  BY <1>3, <1>4, <1>5, <1>6, <1>7, <1>8, <1>9, <1>10
<1> QED BY <1>11, WindowsGo

LEMMA StepWindows == WindowInv /\ Apart /\ [Next]_vars => WindowInv'
<1> SUFFICES ASSUME WindowInv, Apart, [Next]_vars PROVE WindowInv'
  OBVIOUS
<1>1. TypeInv'
  BY StepTypes DEF WindowInv
<1>2. CASE UNCHANGED vars
  BY <1>1, <1>2, WindowsGo DEF vars, tmux, disk, work
<1>3. CASE Next
  BY <1>1, <1>3, MakeKeeps, UpKeeps, RestKeeps DEF Next
<1> QED BY <1>2, <1>3

\* restore_missing_from_manifest, create_unified: however windows, servers and
\* daemons die and are closed around it, and whatever entries are reopened,
\* `sessions up` never makes a second window for a session, as long as nobody
\* creates sessions meanwhile.
THEOREM OneWindowForEach == Spec /\ []Apart => []OneWindowEach
<1>1. WindowInv => OneWindowEach
  BY DEF WindowInv
<1> QED BY <1>1, InitWindows, StepWindows, PTL DEF Spec

-----------------------------------------------------------------------------
(* The rows of closed sessions                                               *)

\* A refresh between its copy of the markers and its merge.
InFlight(r) == rf[r].pc \in {"poll", "apply"}

\* Refreshes do not overlap there.
Alone == \A r, q \in Refresher : InFlight(r) /\ InFlight(q) => r = q

\* Refreshes and closes of sessions are the daemon's, and end with it.
DaemonsOwn ==
    /\ ~daemon => gone = {} /\ \A r \in Refresher : rf[r].pc = "idle"
    /\ closing.pc = "forget" => ~closing.cli
    /\ closing.pc # "idle" /\ ~closing.cli => daemon

\* What is left of the sessions that are gone.
NothingLeft == \A s \in gone : record[s] = 0 /\ s \notin Live /\ s \notin SsnsOf(rows)

\* Markers are there until the next merge, ...
MarkersStay == \A r \in Refresher : InFlight(r) => rf[r].closed \subseteq markers

\* ... and keep away a session that was polled before it was gone.
KeptAway ==
    \A r \in Refresher : \A s \in gone :
        rf[r].pc = "apply" /\ s \in SsnsOf(rf[r].polled) => s \in markers /\ s \notin rf[r].closed

GoneInv == TypeInv /\ DaemonsOwn /\ NothingLeft /\ MarkersStay /\ KeptAway

LEMMA InitGone == Init => GoneInv
<1> SUFFICES ASSUME Init PROVE GoneInv
  OBVIOUS
<1>1. TypeInv
  BY InitTypes
<1>2. gone = {} /\ daemon /\ closing.pc = "idle" /\ \A r \in Refresher : rf[r].pc = "idle"
  BY IdleRecords DEF Init, IdleRefresh
<1> QED BY <1>1, <1>2 DEF GoneInv, DaemonsOwn, NothingLeft, MarkersStay, KeptAway, InFlight

\* A step that leaves the refreshes and the markers alone.
LEMMA GoneStay ==
  ASSUME GoneInv, TypeInv', DaemonsOwn', UNCHANGED <<markers, rf>>,
         gone' \subseteq gone,
         \A s \in gone' : record'[s] = 0 /\ s \notin Live' /\ s \notin SsnsOf(rows')
  PROVE  GoneInv'
<1>1. NothingLeft'
  BY DEF NothingLeft
<1>2. MarkersStay' /\ KeptAway'
  BY DEF GoneInv, MarkersStay, KeptAway, InFlight
<1> QED BY <1>1, <1>2 DEF GoneInv

\* Windows and records that go, and rows that lose what they say.
LEMMA GoneFade ==
  ASSUME GoneInv, TypeInv', DaemonsOwn', UNCHANGED <<markers, rf, gone>>,
         \A i \in Index : win'[i] \in {win[i], None},
         \A i \in Index : rows'[i] \in {rows[i], None, NoId},
         \A s \in Ssn : record'[s] \in {record[s], 0}
  PROVE  GoneInv'
<1>1. Live' \subseteq Live /\ SsnsOf(rows') \subseteq SsnsOf(rows)
  BY DEF Live, SsnsOf
<1>2. gone \subseteq Ssn
  BY DEF GoneInv, TypeInv, TypeOK
<1> QED BY <1>1, <1>2, GoneStay DEF GoneInv, NothingLeft

\* Whatever a refresh does after its merge, it is not in flight.
LEMMA AfterPc ==
  ASSUME NEW rec \in RefreshRec, NEW pc
  PROVE  After(rec, pc).pc \notin {"poll", "apply"}
<1>1. rec.pc \in {"idle", "copy", "poll", "apply", "reopen", "mark", "save"}
  BY DEF RefreshRec
<1>2. [rec EXCEPT !.pc = "reopen"].pc = "reopen"
  BY DEF RefreshRec
<1>3. [rec EXCEPT !.pc = "mark", !.healed = {}].pc = "mark"
  BY DEF RefreshRec
<1>4. [IdleRefresh EXCEPT !.pc = "save", !.live = rec.live].pc = "save"
  BY DEF IdleRefresh
<1>5. IdleRefresh.pc = "idle"
  BY DEF IdleRefresh
<1> DEFINE todo == (IF pc = "apply" /\ rec.healed # {} THEN {"reopen"} ELSE {})
                   \cup (IF pc \in {"apply", "reopen"} /\ rec.vanished # {} THEN {"mark"} ELSE {})
                   \cup (IF ~rec.boot THEN {"save"} ELSE {})
<1>6. After(rec, pc) \in {[rec EXCEPT !.pc = "reopen"], [rec EXCEPT !.pc = "mark", !.healed = {}],
                          [IdleRefresh EXCEPT !.pc = "save", !.live = rec.live], IdleRefresh}
  <2>1. CASE "reopen" \in todo
    BY <2>1 DEF After
  <2>2. CASE "reopen" \notin todo /\ "mark" \in todo
    BY <2>2 DEF After
  <2>3. CASE "reopen" \notin todo /\ "mark" \notin todo /\ todo = {"save"}
    BY <2>3 DEF After
  <2>4. CASE "reopen" \notin todo /\ "mark" \notin todo /\ todo # {"save"}
    BY <2>4 DEF After
  <2> QED BY <2>1, <2>2, <2>3, <2>4
<1> QED BY <1>2, <1>3, <1>4, <1>5, <1>6

\* A refresh: its merge finds the markers of the sessions that have gone since
\* it polled, and nobody else is between copy and merge.
LEMMA RefreshGone ==
  ASSUME GoneInv, Alone, TypeInv', NEW r \in Refresher, RefreshStep(r)
  PROVE  GoneInv'
<1>1. /\ rf \in [Refresher -> RefreshRec] /\ rf[r] \in RefreshRec
      /\ rows \in Place /\ win \in Place /\ gone \subseteq Ssn
  BY PlaceFacts DEF GoneInv, TypeInv, TypeOK, WorkType
<1>2. ASSUME NEW rec, Refresh(r, rec)
      PROVE  rf'[r] = rec /\ \A q \in Refresher \ {r} : rf'[q] = rf[q]
  BY <1>1, <1>2 DEF Refresh
<1>3. UNCHANGED <<daemon, gone, closing, record, win>>
  BY DEF RefreshStep, RefreshLook, RefreshCopy, RefreshPoll, RefreshApply, RefreshReopen,
         RefreshMark, RefreshSave, tmux, state, disk, history
<1>4. Live' = Live
  BY <1>3 DEF Live
<1>5. CASE RefreshApply(r)
  <2>1. PICK touched \in SUBSET Touchable(rf[r]) :
          /\ rows' = Merged(rf[r], touched)
          /\ markers' = KeptMarkers(rf[r])
          /\ Refresh(r, After([rf[r] EXCEPT
                 !.healed   = rf[r].closed \cap SsnsOf(rf[r].polled),
                 !.vanished = IF rf[r].boot THEN {} ELSE Vanished(rf[r], Merged(rf[r], touched)),
                 !.live     = IF rf[r].boot THEN {} ELSE SsnsOf(Merged(rf[r], touched)),
                 !.prev = Empty, !.polled = Empty, !.closed = {}], "apply"))
    BY <1>5 DEF RefreshApply
  <2> DEFINE next == Merged(rf[r], touched)
             a == [rf[r] EXCEPT
                 !.healed   = rf[r].closed \cap SsnsOf(rf[r].polled),
                 !.vanished = IF rf[r].boot THEN {} ELSE Vanished(rf[r], next),
                 !.live     = IF rf[r].boot THEN {} ELSE SsnsOf(next),
                 !.prev = Empty, !.polled = Empty, !.closed = {}]
  <2>2. next \in Place /\ rf[r].prev \in Place
    BY <1>1, MergedType DEF RefreshRec
  <2>3. a \in RefreshRec
    <3>1. Vanished(rf[r], next) \subseteq Ssn /\ SsnsOf(next) \subseteq Ssn
      BY <2>2, PlaceFacts DEF Vanished
    <3> HIDE DEF next
    <3> QED BY <1>1, <3>1, PlaceFacts DEF RefreshRec
  <2>4. rf'[r] = After(a, "apply") /\ \A q \in Refresher \ {r} : rf'[q] = rf[q]
    BY <1>2, <2>1
  <2>5. rf'[r].pc \notin {"poll", "apply"}
    BY <2>3, <2>4, AfterPc
  <2>6. rf[r].pc = "apply" /\ daemon
    BY <1>5 DEF RefreshApply, GoneInv, DaemonsOwn
  <2>7. \A q \in Refresher : rf'[q].pc \notin {"poll", "apply"}
    BY <2>4, <2>5, <2>6 DEF Alone, InFlight
  <2>8. MarkersStay' /\ KeptAway'
    BY <2>7 DEF MarkersStay, KeptAway, InFlight
  <2>9. \A s \in gone : s \notin SsnsOf(next)
    <3> SUFFICES ASSUME NEW s \in gone, NEW i \in Index, next[i] = s, s \in Ssn PROVE FALSE
      BY <1>1 DEF SsnsOf
    <3>1. rows[i] # s
      BY Marks DEF GoneInv, NothingLeft, SsnsOf
    <3>2. rf[r].polled[i] = s /\ s \notin KeptMarkers(rf[r])
      BY <3>1, Marks DEF Merged
    <3>3. s \in SsnsOf(rf[r].polled)
      BY <3>2, Marks DEF SsnsOf
    <3>4. s \in markers /\ s \notin rf[r].closed
      BY <2>6, <3>3 DEF GoneInv, KeptAway
    <3> QED BY <3>2, <3>3, <3>4 DEF KeptMarkers
  <2>10. NothingLeft'
    BY <1>3, <1>4, <2>1, <2>9 DEF GoneInv, NothingLeft
  <2>11. DaemonsOwn'
    BY <1>3, <2>6 DEF GoneInv, DaemonsOwn
  <2> QED BY <2>8, <2>10, <2>11 DEF GoneInv
<1>6. ASSUME UNCHANGED <<rows, markers>>, daemon,
             \A q \in Refresher \ {r} : rf'[q] = rf[q],
             rf'[r].pc \in {"poll", "apply"} => rf'[r].closed \subseteq markers,
             rf'[r].pc = "apply" => rf'[r].polled = win
      PROVE  GoneInv'
  <2>1. NothingLeft' /\ DaemonsOwn'
    BY <1>3, <1>4, <1>6 DEF GoneInv, NothingLeft, DaemonsOwn
  <2>2. MarkersStay'
    BY <1>6 DEF GoneInv, MarkersStay, InFlight
  <2>3. KeptAway'
    <3> SUFFICES ASSUME NEW q \in Refresher, NEW s \in gone, rf'[q].pc = "apply",
                        s \in SsnsOf(rf'[q].polled)
                 PROVE  s \in markers /\ s \notin rf'[q].closed
      BY <1>3, <1>6 DEF KeptAway
    <3>1. q # r
      BY <1>6 DEF GoneInv, NothingLeft, Live
    <3> QED BY <1>6, <3>1 DEF GoneInv, KeptAway
  <2> QED BY <2>1, <2>2, <2>3 DEF GoneInv
<1>7. CASE RefreshLook(r)
  <2>1. [rf[r] EXCEPT !.pc = "copy"].pc = "copy"
    BY <1>1 DEF RefreshRec
  <2> QED BY <1>2, <1>6, <1>7, <2>1 DEF RefreshLook
<1>8. rf[r].pc # "idle" => daemon
  BY DEF GoneInv, DaemonsOwn
<1>9. CASE RefreshCopy(r)
  <2>1. /\ Copied(r) \in RefreshRec /\ Copied(r).closed = markers
    BY <1>1 DEF Copied, RefreshRec, GoneInv, TypeInv, TypeOK
  <2>2. /\ [Copied(r) EXCEPT !.pc = "poll"].pc = "poll"
        /\ [Copied(r) EXCEPT !.pc = "poll"].closed = markers
    BY <2>1 DEF RefreshRec
  <2>3. /\ Polled(Copied(r)).pc \in {"idle", "apply"}
        /\ Polled(Copied(r)).pc = "apply" => /\ Polled(Copied(r)).closed = markers
                                             /\ Polled(Copied(r)).polled = win
    BY <2>1 DEF Polled, RefreshRec, IdleRefresh
  <2>4. UNCHANGED <<rows, markers>> /\ daemon
    BY <1>8, <1>9 DEF RefreshCopy, state
  <2>5. CASE SlowPoll
    <3>1. rf'[r] = [Copied(r) EXCEPT !.pc = "poll"] /\ \A q \in Refresher \ {r} : rf'[q] = rf[q]
      BY <1>2, <1>9, <2>5 DEF RefreshCopy
    <3> QED BY <1>6, <2>2, <2>4, <3>1
  <2>6. CASE ~SlowPoll
    <3>1. rf'[r] = Polled(Copied(r)) /\ \A q \in Refresher \ {r} : rf'[q] = rf[q]
      BY <1>2, <1>9, <2>6 DEF RefreshCopy
    <3> QED BY <1>6, <2>3, <2>4, <3>1
  <2> QED BY <2>5, <2>6
<1>10. CASE RefreshPoll(r)
  <2>1. /\ Polled(rf[r]).pc \in {"idle", "apply"}
        /\ Polled(rf[r]).pc = "apply" => /\ Polled(rf[r]).closed = rf[r].closed
                                         /\ Polled(rf[r]).polled = win
    BY <1>1 DEF Polled, RefreshRec, IdleRefresh
  <2>2. UNCHANGED <<rows, markers>> /\ daemon /\ rf[r].closed \subseteq markers
    BY <1>8, <1>10 DEF RefreshPoll, state, GoneInv, MarkersStay, InFlight
  <2>3. rf'[r] = Polled(rf[r]) /\ \A q \in Refresher \ {r} : rf'[q] = rf[q]
    BY <1>2, <1>10 DEF RefreshPoll
  <2> QED BY <1>6, <2>1, <2>2, <2>3
<1>11. CASE RefreshReopen(r) \/ RefreshMark(r) \/ RefreshSave(r)
  <2>1. UNCHANGED <<rows, markers>> /\ daemon
    BY <1>8, <1>11 DEF RefreshReopen, RefreshMark, RefreshSave, state
  <2>2. /\ rf'[r].pc \notin {"poll", "apply"}
        /\ \A q \in Refresher \ {r} : rf'[q] = rf[q]
    BY <1>1, <1>2, <1>11, AfterPc DEF RefreshReopen, RefreshMark, RefreshSave, IdleRefresh
  <2> QED BY <1>6, <2>1, <2>2
<1> QED BY <1>5, <1>7, <1>9, <1>10, <1>11 DEF RefreshStep

\* The daemon, and hooks: a session that is gone has no record for one to find
\* a row by.
LEMMA DaemonGone ==
  ASSUME GoneInv, TypeInv',
         \/ Persist \/ DaemonDies \/ DaemonStarts \/ AutoReconcile
         \/ \E s \in Ssn : Hook(s)
         \/ \E i \in Index : BareHook(i)
  PROVE  GoneInv'
<1>1. /\ rf \in [Refresher -> RefreshRec] /\ rows \in Place /\ gone \subseteq Ssn
      /\ record \in [Ssn -> Index \cup {0}]
  BY DEF GoneInv, TypeInv, TypeOK, WorkType
<1>2. CASE Persist \/ AutoReconcile
  <2>1. UNCHANGED <<win, daemon, rows, markers, rf, record, closing, gone>>
    BY <1>2 DEF Persist, AutoReconcile, tmux, state, disk, work, history
  <2>2. DaemonsOwn'
    BY <2>1 DEF GoneInv, DaemonsOwn
  <2> QED BY <2>1, <2>2, GoneFade
<1>3. CASE DaemonDies
  <2>1. /\ gone' = {} /\ \A r \in Refresher : rf'[r] = IdleRefresh
        /\ closing' = IF closing.cli THEN closing ELSE IdleClose
    BY <1>3 DEF DaemonDies
  <2>2. DaemonsOwn'
    BY <2>1, IdleRecords DEF GoneInv, DaemonsOwn, IdleRefresh, IdleClose
  <2> QED BY <2>1, <2>2 DEF GoneInv, NothingLeft, MarkersStay, KeptAway, InFlight, IdleRefresh
<1>4. CASE DaemonStarts
  <2>1. /\ ~daemon /\ daemon' /\ UNCHANGED <<rf, gone, closing>>
    BY <1>4 DEF DaemonStarts, work, history
  <2>2. gone = {} /\ \A r \in Refresher : rf[r].pc = "idle"
    BY <2>1 DEF GoneInv, DaemonsOwn
  <2> QED BY <2>1, <2>2 DEF GoneInv, DaemonsOwn, NothingLeft, MarkersStay, KeptAway, InFlight
<1>5. ASSUME NEW s \in Ssn, Hook(s) PROVE GoneInv'
  <2>1. /\ record[s] # 0 /\ rows' = [rows EXCEPT ![record[s]] = s]
        /\ UNCHANGED <<win, daemon, markers, rf, record, closing, gone>>
    BY <1>5 DEF Hook, tmux, disk, work, history
  <2>2. s \notin gone
    BY <2>1 DEF GoneInv, NothingLeft
  <2>3. \A i \in Index : rows'[i] \in {rows[i], s}
    BY <1>1, <2>1 DEF Place
  <2>4. SsnsOf(rows') \subseteq SsnsOf(rows) \cup {s}
    BY <2>3 DEF SsnsOf
  <2>5. Live' = Live /\ DaemonsOwn'
    BY <2>1 DEF Live, GoneInv, DaemonsOwn
  <2> QED BY <2>1, <2>2, <2>4, <2>5, GoneStay DEF GoneInv, NothingLeft
<1>6. ASSUME NEW i \in Index, BareHook(i) PROVE GoneInv'
  <2>1. /\ rows' = [rows EXCEPT ![i] = NoId]
        /\ UNCHANGED <<win, daemon, markers, rf, record, closing, gone>>
    BY <1>6 DEF BareHook, tmux, disk, work, history
  <2>2. DaemonsOwn'
    BY <2>1 DEF GoneInv, DaemonsOwn
  <2>3. \A j \in Index : rows'[j] \in {rows[j], None, NoId}
    BY <1>1, <2>1 DEF Place
  <2> QED BY <2>1, <2>2, <2>3, GoneFade
<1> QED BY <1>2, <1>3, <1>4, <1>5, <1>6

\* A session that gets a window is not gone; nothing else makes one.
LEMMA MakeGone ==
  ASSUME GoneInv, TypeInv',
         \/ \E s \in Ssn : NewStarts(s)
         \/ \E c \in {"new", "up"} : MakeStep(c)
         \/ UpLoads \/ UpStep
  PROVE  GoneInv'
<1>1. /\ win \in [Index -> Ssn \cup {None}] /\ gone \subseteq Ssn
      /\ rf \in [Refresher -> RefreshRec] /\ record \in [Ssn -> Index \cup {0}]
  BY DEF GoneInv, TypeInv, TypeOK, WorkType
<1>2. ASSUME UNCHANGED <<win, daemon, rows, markers, rf, record, closing, gone>> PROVE GoneInv'
  <2>1. DaemonsOwn'
    BY <1>2 DEF GoneInv, DaemonsOwn
  <2> QED BY <1>2, <2>1, GoneFade
<1>3. ASSUME NEW s \in Ssn, NewStarts(s) PROVE GoneInv'
  BY <1>2, <1>3 DEF NewStarts, tmux, state, disk, history
<1>4. ASSUME NEW c \in {"new", "up"}, MakeEntry(c) \/ MakeAllowed(c) \/ MakeFails(c) PROVE GoneInv'
  BY <1>2, <1>4 DEF MakeEntry, MakeAllowed, MakeFails, tmux, state, disk, history
<1>5. ASSUME NEW c \in {"new", "up"}, MakeWindow(c) PROVE GoneInv'
  <2> DEFINE s == making[c].s
  <2>1. PICK i \in Index :
          /\ win' = [win EXCEPT ![i] = s]
          /\ record' = [record EXCEPT ![s] = i]
    BY <1>5 DEF MakeWindow
  <2>2. /\ gone' = gone \ {s}
        /\ UNCHANGED <<daemon, rows, markers, rf, closing>>
    BY <1>5 DEF MakeWindow, state
  <2>3. s \in Ssn
    BY <1>5 DEF MakeWindow, GoneInv, TypeInv, WorkType
  <2> HIDE DEF s
  <2>4. Live' \subseteq Live \cup {s}
    BY <1>1, <2>1 DEF Live, SsnsOf
  <2>5. \A t \in Ssn \ {s} : record'[t] = record[t]
    BY <1>1, <2>1
  <2>6. DaemonsOwn'
    BY <2>2 DEF GoneInv, DaemonsOwn
  <2>7. \A t \in gone' : record'[t] = 0 /\ t \notin Live' /\ t \notin SsnsOf(rows')
    BY <1>1, <2>2, <2>4, <2>5 DEF GoneInv, NothingLeft
  <2> QED BY <2>2, <2>6, <2>7, GoneStay
<1>6. CASE UpLoads \/ UpPrepares \/ UpBootstraps \/ UpLists \/ UpCreates \/ UpFails \/ UpEnds
  BY <1>2, <1>6 DEF UpLoads, UpPrepares, UpBootstraps, UpLists, UpCreates, UpFails, UpEnds,
                    tmux, state, disk, history
<1>7. CASE UpCollects
  <2>1. /\ \A s \in Ssn : record'[s] \in {record[s], 0}
        /\ UNCHANGED <<win, daemon, rows, markers, rf, closing, gone>>
    BY <1>7 DEF UpCollects, tmux, state, history
  <2>2. DaemonsOwn'
    BY <2>1 DEF GoneInv, DaemonsOwn
  <2> QED BY <2>1, <2>2, GoneFade
<1>8. CASE UpCompletes
  <2>1. PICK r \in Refresher : Refresh(r, [rf[r] EXCEPT !.pc = "copy"])
    BY <1>8 DEF UpCompletes
  <2>2. rf'[r].pc = "copy" /\ \A q \in Refresher \ {r} : rf'[q] = rf[q]
    BY <1>1, <2>1 DEF Refresh, RefreshRec
  <2>3. UNCHANGED <<win, daemon, rows, markers, record, closing, gone>> /\ daemon
    BY <1>8 DEF UpCompletes, tmux, disk, history
  <2>4. Live' = Live
    BY <2>3 DEF Live
  <2>5. DaemonsOwn' /\ NothingLeft'
    BY <2>3, <2>4 DEF GoneInv, DaemonsOwn, NothingLeft
  <2>6. MarkersStay' /\ KeptAway'
    BY <2>2, <2>3 DEF GoneInv, MarkersStay, KeptAway, InFlight
  <2> QED BY <2>5, <2>6 DEF GoneInv
<1> QED BY <1>3, <1>4, <1>5, <1>6, <1>7, <1>8 DEF MakeStep, UpStep

\* Closes: what goes leaves nothing, and its marker is a new one.
LEMMA CloseGone ==
  ASSUME GoneInv, TypeInv',
         \/ \E i \in Index : CloseStarts(i) \/ CliCloseStarts(i)
         \/ CloseStep
  PROVE  GoneInv'
<1>1. /\ closing \in CloseRec /\ win \in [Index -> Ssn \cup {None}] /\ gone \subseteq Ssn
      /\ rows \in Place
      /\ closing.pc # "idle" => closing.i \in Index
  BY DEF GoneInv, TypeInv, TypeOK, WorkType
<1>2. ASSUME UNCHANGED <<win, daemon, rows, markers, rf, record, gone>>,
             closing'.pc = "forget" => ~closing'.cli,
             closing'.pc # "idle" /\ ~closing'.cli => daemon
      PROVE  GoneInv'
  <2>1. DaemonsOwn'
    BY <1>2 DEF GoneInv, DaemonsOwn
  <2> QED BY <1>2, <2>1, GoneFade
<1>3. ASSUME NEW i \in Index, CloseStarts(i) PROVE GoneInv'
  <2>1. daemon /\ closing'.pc = "tombstone"
    BY <1>3 DEF CloseStarts
  <2> QED BY <1>2, <1>3, <2>1 DEF CloseStarts, tmux, state, disk, history
<1>4. ASSUME NEW i \in Index, CliCloseStarts(i) PROVE GoneInv'
  <2>1. closing'.pc = "tombstone" /\ closing'.cli
    BY <1>4 DEF CliCloseStarts
  <2> QED BY <1>2, <1>4, <2>1 DEF CliCloseStarts, tmux, state, disk, history
<1>5. CASE CloseTombstones
  <2>1. closing'.pc = "kill" /\ closing'.cli = closing.cli /\ closing.pc = "tombstone"
    BY <1>1, <1>5 DEF CloseTombstones, CloseRec
  <2>2. ~closing.cli => daemon
    BY <2>1 DEF GoneInv, DaemonsOwn
  <2> QED BY <1>2, <1>5, <2>1, <2>2 DEF CloseTombstones, tmux, state, history
<1>6. CASE CloseKills
  <2>1. /\ closing'.cli = closing.cli /\ closing.pc = "kill"
        /\ closing'.pc = IF closing.cli THEN "tell" ELSE "forget"
    BY <1>1, <1>6 DEF CloseKills, CloseRec
  <2>2. /\ \A i \in Index : win'[i] \in {win[i], None}
        /\ \A s \in Ssn : record'[s] \in {record[s], 0}
        /\ UNCHANGED <<daemon, rows, markers, rf, gone>>
    BY <1>1, <1>6 DEF CloseKills, state, history
  <2>3. DaemonsOwn'
    BY <2>1, <2>2 DEF GoneInv, DaemonsOwn
  <2> QED BY <2>2, <2>3, GoneFade
<1>7. CASE CloseRefused
  BY <1>2, <1>7, IdleRecords DEF CloseRefused, tmux, state, disk, history
<1>8. CASE CloseForgets
  <2>1. /\ closing.pc = "forget" /\ closing' = IdleClose /\ closing.i \in Index
        /\ markers' = markers \cup ({closing.s} \cap Ssn)
        /\ rows' = [rows EXCEPT ![closing.i] = None]
        /\ gone' = gone \cup Removed
        /\ UNCHANGED <<win, daemon, rf, record>>
    BY <1>1, <1>8 DEF CloseForgets, tmux, disk
  <2>2. daemon
    BY <2>1 DEF GoneInv, DaemonsOwn
  <2>3. DaemonsOwn'
    BY <2>1, <2>2, IdleRecords DEF DaemonsOwn
  <2>4. Live' = Live
    BY <2>1 DEF Live
  <2>5. \A i \in Index : rows'[i] = IF i = closing.i THEN None ELSE rows[i]
    BY <1>1, <2>1 DEF Place
  <2>6. NothingLeft'
    <3> SUFFICES ASSUME NEW s \in gone' PROVE record[s] = 0 /\ s \notin Live /\ s \notin SsnsOf(rows')
      BY <2>1, <2>4 DEF NothingLeft
    <3>1. CASE s \in gone
      BY <2>5, <3>1 DEF GoneInv, NothingLeft, SsnsOf
    <3>2. CASE s \in Removed
      BY <2>5, <3>2, Marks DEF Removed, SsnsOf
    <3> QED BY <2>1, <3>1, <3>2
  <2>7. MarkersStay'
    BY <2>1 DEF GoneInv, MarkersStay, InFlight
  <2>8. KeptAway'
    <3> SUFFICES ASSUME NEW r \in Refresher, NEW s \in gone', rf[r].pc = "apply",
                        s \in SsnsOf(rf[r].polled)
                 PROVE  s \in markers' /\ s \notin rf[r].closed
      BY <2>1 DEF KeptAway
    <3>1. CASE s \in gone
      BY <2>1, <3>1 DEF GoneInv, KeptAway
    <3>2. CASE s \in Removed
      <4>1. s \in Ssn /\ s = closing.s /\ s \notin markers
        BY <3>2 DEF Removed
      <4>2. rf[r].closed \subseteq markers
        BY DEF GoneInv, MarkersStay, InFlight
      <4> QED BY <2>1, <4>1, <4>2
    <3> QED BY <2>1, <3>1, <3>2
  <2> QED BY <2>3, <2>6, <2>7, <2>8 DEF GoneInv
<1>9. CASE CliCloseTells
  <2>1. /\ closing'.pc # "forget"
        /\ closing'.pc # "idle" => daemon
    BY <1>9, IdleRecords DEF CliCloseTells
  <2> QED BY <1>2, <1>9, <2>1 DEF CliCloseTells, tmux, state, disk, history
<1> QED BY <1>3, <1>4, <1>5, <1>6, <1>7, <1>8, <1>9 DEF CloseStep

\* `sessions down`, and what goes wrong, make no rows and no windows.
LEMMA RestGone ==
  ASSUME GoneInv, TypeInv',
         DownLists \/ DownStep \/ ServerDies \/ \E i \in Index : WindowExits(i)
  PROVE  GoneInv'
<1>1. win \in [Index -> Ssn \cup {None}]
  BY DEF GoneInv, TypeInv, TypeOK
<1>2. UNCHANGED <<daemon, rows, markers, rf, record, closing, gone>>
  BY DEF DownLists, DownStep, DownTombstones, DownAllows, DownPrepares, DownKills, ServerDies,
         WindowExits, state, disk, work, history
<1>3. \A i \in Index : win'[i] \in {win[i], None}
  <2>1. CASE DownLists \/ DownTombstones \/ DownAllows \/ DownPrepares
    BY <2>1 DEF DownLists, DownTombstones, DownAllows, DownPrepares, tmux
  <2>2. CASE DownKills \/ ServerDies
    BY <2>2 DEF DownKills, ServerDies, Empty
  <2>3. CASE \E i \in Index : WindowExits(i)
    BY <1>1, <2>3 DEF WindowExits
  <2> QED BY <2>1, <2>2, <2>3 DEF DownStep
<1>4. DaemonsOwn'
  BY <1>2 DEF GoneInv, DaemonsOwn
<1> QED BY <1>2, <1>3, <1>4, GoneFade

LEMMA StepGone == GoneInv /\ Alone /\ [Next]_vars => GoneInv'
<1> SUFFICES ASSUME GoneInv, Alone, [Next]_vars PROVE GoneInv'
  OBVIOUS
<1>1. TypeInv'
  BY StepTypes DEF GoneInv
<1>2. CASE UNCHANGED vars
  <2>1. UNCHANGED <<win, daemon, rows, markers, rf, record, closing, gone>>
    BY <1>2 DEF vars, tmux, state, disk, work, history
  <2>2. DaemonsOwn'
    BY <2>1 DEF GoneInv, DaemonsOwn
  <2> QED BY <1>1, <2>1, <2>2, GoneFade
<1>3. CASE Next
  BY <1>1, <1>3, RefreshGone, DaemonGone, MakeGone, CloseGone, RestGone DEF Next
<1> QED BY <1>2, <1>3

\* close_session, remove_session_matching_locked: a session that a close has
\* removed, and that had no marker before, has no row again until it is made
\* again, whatever polls and hooks were under way, as long as refreshes do not
\* overlap between the copy of the markers and the merge.
THEOREM ClosedRowsStayClosed == Spec /\ []Alone => []NoZombieRow
<1>1. GoneInv => NoZombieRow
  BY DEF GoneInv, NothingLeft, NoZombieRow
<1> QED BY <1>1, InitGone, StepGone, PTL DEF Spec

=============================================================================
