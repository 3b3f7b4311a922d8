-------------------------- MODULE ManifestSyncProof --------------------------
(* The queue of manifest patches loses nothing outside the gap between the  *)
(* last look at the generation and the clearing of the queue, for any       *)
(* number of sessions, flushers, other writers, enqueues and rounds.        *)
EXTENDS ManifestSync, TLAPS

-----------------------------------------------------------------------------
(* Type correctness                                                          *)

\* A flusher inside flush still has a round left to count.
RoundsLeft ==
    \A f \in Flushers :
        pc[f] \in {"generation", "snapshot", "load", "save", "recheck", "clear"}
            => rounds[f] < MaxRounds

TypeInv == TypeOK /\ RoundsLeft

\* Merging two patches of the queue gives a patch.
LEMMA MergeType ==
    ASSUME NEW a \in Patch, NEW b \in Patch
    PROVE  Merge(a, b) \in Patch
BY DEF Merge, Patch

\* The patch of a hook is a patch whenever its generation is within bounds.
LEMMA PatchOfType ==
    ASSUME NEW flds, NEW g \in Gen
    PROVE  PatchOf(flds, g) \in Patch
BY ManifestSyncAssumption DEF PatchOf, Patch, Gen

\* The newer of two patches, field by field, is a patch.
LEMMA NewestType ==
    ASSUME NEW a \in Patch, NEW b \in Patch
    PROVE  Newest(a, b) \in Patch
BY DEF Newest, Patch

\* The empty values are of the types of the variables they start.
LEMMA EmptyType ==
    /\ NoPatch \in Patch
    /\ NoPatches \in [Ssn -> Patch]
    /\ NoManifest \in Manifest
    /\ IdleWriter \in [op : WriterOp, ssn : Ssn, copy : Manifest]
<1>1. NoPatch \in Patch
  BY ManifestSyncAssumption DEF NoPatch, Patch, Gen
<1>2. NoPatches \in [Ssn -> Patch]
  BY <1>1 DEF NoPatches
<1>3. NoManifest \in Manifest
  BY <1>1 DEF NoManifest, Manifest, Entry
<1>4. (CHOOSE s \in Ssn : TRUE) \in Ssn
  BY ManifestSyncAssumption
<1>5. QED
  BY <1>1, <1>2, <1>3, <1>4 DEF IdleWriter, WriterOp

\* What an entry takes of a patch is a patch.
LEMMA AcceptedType ==
    ASSUME NEW known, NEW p \in Patch
    PROVE  Accepted(known, p) \in Patch
BY ManifestSyncAssumption DEF Accepted, Patch, Gen

\* Applying patches to a manifest gives a manifest.
LEMMA ApplyType ==
    ASSUME NEW known, NEW m \in Manifest, NEW ps \in [Ssn -> Patch]
    PROVE  ApplyPatches(m, ps, known) \in Manifest
<1>. SUFFICES ASSUME NEW s \in Ssn
              PROVE  ApplyPatches(m, ps, known)[s] \in Entry
  BY DEF ApplyPatches, Manifest
<1>1. m[s] \in Entry /\ m[s].val \in Patch /\ ps[s] \in Patch
  BY DEF Manifest, Entry
<1>2. Merge(m[s].val, Accepted(known, ps[s])) \in Patch
  BY <1>1, MergeType, AcceptedType
<1>3. [m[s] EXCEPT !.val = Merge(@, Accepted(known, ps[s]))] \in Entry
  BY <1>1, <1>2 DEF Entry
<1>. QED
  BY <1>1, <1>3 DEF ApplyPatches

\* What another writer makes of a manifest is a manifest.
LEMMA RewrittenType ==
    ASSUME NEW m \in Manifest, NEW op, NEW s \in Ssn
    PROVE  Rewritten(m, op, s) \in Manifest
<1>1. [present |-> TRUE, closed |-> FALSE, val |-> NoPatch] \in Entry
  BY EmptyType DEF Entry
<1>2. m[s] \in Entry
  BY DEF Manifest
<1>3. \A b \in BOOLEAN : [m[s] EXCEPT !.closed = b] \in Entry
  BY <1>2 DEF Entry
<1>4. [m EXCEPT ![s] = [present |-> TRUE, closed |-> FALSE, val |-> NoPatch]] \in Manifest
  BY <1>1 DEF Manifest
<1>5. [m EXCEPT ![s].closed = TRUE] \in Manifest
  BY <1>3 DEF Manifest
<1>6. [m EXCEPT ![s].closed = FALSE] \in Manifest
  BY <1>3 DEF Manifest
<1>. QED
  BY <1>4, <1>5, <1>6 DEF Rewritten

LEMMA TypeInit == Init => TypeInv
<1>. SUFFICES ASSUME Init PROVE TypeInv
  OBVIOUS
<1>1. disk \in Manifest
  BY DEF Init, Manifest
<1>2. 0 \in Gen /\ 0 \in 0..MaxRounds /\ 0 \in 0..MaxFails
  BY ManifestSyncAssumption DEF Gen
<1>3. "idle" \in FlushPc
  BY DEF FlushPc
<1>4. pc \in [Flushers -> FlushPc]
  BY <1>3 DEF Init
<1>5. TypeOK
  BY <1>1, <1>2, <1>4, EmptyType DEF Init, TypeOK
<1>6. RoundsLeft
  BY DEF Init, RoundsLeft
<1>. QED
  BY <1>5, <1>6 DEF TypeInv

\* Every step of the queue, of a flusher or of another writer keeps the types.
LEMMA TypeNext == TypeInv /\ [Next]_vars => TypeInv'
<1>. SUFFICES ASSUME TypeInv, [Next]_vars PROVE TypeInv'
  OBVIOUS
<1>. USE DEF TypeInv
<1>1. TypeOK
  OBVIOUS
<1>2. RoundsLeft
  OBVIOUS
<1>3. ASSUME NEW s \in Ssn, NEW flds \in {{"agent_session_id"}, Field}, Enqueue(s, flds)
      PROVE  TypeInv'
  <2>1. generation + 1 \in Gen /\ generation' = generation + 1
    BY <1>1, <1>3, ManifestSyncAssumption DEF TypeOK, Gen, Enqueue
  <2>2. PatchOf(flds, generation + 1) \in Patch
    BY <2>1, PatchOfType
  <2>3. patches' \in [Ssn -> Patch] /\ last' \in [Ssn -> Patch]
    BY <1>1, <1>3, <2>2, MergeType DEF TypeOK, Enqueue
  <2>4. window' \subseteq Ssn \X Field \X Gen
    BY <1>1, <1>3, <2>1 DEF TypeOK, Enqueue, Field
  <2>5. TypeOK'
    BY <1>1, <1>3, <2>1, <2>3, <2>4 DEF TypeOK, Enqueue, flusher
  <2>6. RoundsLeft'
    BY <1>2, <1>3 DEF RoundsLeft, Enqueue, flusher
  <2>. QED
    BY <2>5, <2>6
<1>4. CASE LoopWake
  <2>1. Loop \in Flushers
    BY DEF Flushers
  <2>. QED
    BY <1>1, <1>2, <1>4, <2>1 DEF TypeOK, RoundsLeft, LoopWake, queue, history, FlushPc
<1>5. ASSUME NEW f \in Flushers, CallFlushAll(f)
      PROVE  TypeInv'
  <2>1. 0 \in Gen
    BY ManifestSyncAssumption DEF Gen
  <2>. QED
    BY <1>1, <1>2, <1>5, <2>1
       DEF TypeOK, RoundsLeft, CallFlushAll, queue, history, FlushPc
<1>6. CASE LoopDebounced
  <2>1. Loop \in Flushers /\ 0 \in Gen
    BY ManifestSyncAssumption DEF Flushers, Gen
  <2>2. CASE ~dirty
    <3>1. /\ pc' = [pc EXCEPT ![Loop] = "idle"] /\ stable' = [stable EXCEPT ![Loop] = 0]
          /\ UNCHANGED <<queue, disk, snap, copy, writer, fails, history, rounds, since>>
      BY <1>6, <2>2 DEF LoopDebounced
    <3>2. pc' \in [Flushers -> FlushPc] /\ stable' \in [Flushers -> Gen]
      BY <1>1, <2>1, <3>1 DEF TypeOK, FlushPc
    <3>3. RoundsLeft'
      BY <1>1, <1>2, <2>1, <3>1 DEF TypeOK, RoundsLeft
    <3> QED BY <1>1, <3>1, <3>2, <3>3 DEF TypeOK, queue, history
  <2>3. CASE dirty /\ stable[Loop] = generation
    BY <1>5, <1>6, <2>1, <2>3 DEF LoopDebounced
  <2>4. CASE dirty /\ stable[Loop] # generation
    BY <1>1, <1>2, <1>6, <2>1, <2>4
       DEF TypeOK, RoundsLeft, LoopDebounced, CallFlushAll, queue, history, FlushPc
  <2>. QED
    BY <2>2, <2>3, <2>4 DEF TypeOK
<1>7. ASSUME NEW f \in Flushers, CommandFlush(f)
      PROVE  TypeInv'
  BY <1>5, <1>7 DEF CommandFlush
<1>8. ASSUME NEW f \in Flushers, FlushRound(f)
      PROVE  TypeInv'
  BY <1>1, <1>2, <1>8 DEF TypeOK, RoundsLeft, FlushRound, queue, history, FlushPc
<1>9. ASSUME NEW f \in Flushers, ReadGeneration(f)
      PROVE  TypeInv'
  BY <1>1, <1>2, <1>9 DEF TypeOK, RoundsLeft, ReadGeneration, queue, history, FlushPc
<1>10. ASSUME NEW f \in Flushers, NextRound(f), rounds[f] < MaxRounds
       PROVE  /\ pc' \in [Flushers -> FlushPc]
              /\ rounds' \in [Flushers -> 0..MaxRounds]
              /\ stable' \in [Flushers -> Gen]
              /\ snap' \in [Flushers -> [Ssn -> Patch]]
              /\ RoundsLeft'
  <2>1. rounds[f] + 1 \in 0..MaxRounds /\ 0 \in Gen
    BY <1>1, <1>10, ManifestSyncAssumption DEF TypeOK, Gen
  <2>. QED
    BY <1>1, <1>2, <1>10, <2>1, EmptyType DEF TypeOK, RoundsLeft, NextRound, FlushPc
<1>11. ASSUME NEW f \in Flushers, SnapshotPending(f)
       PROVE  TypeInv'
  <2>1. CASE patches = NoPatches
    <3>1. NextRound(f) /\ rounds[f] < MaxRounds
      BY <1>2, <1>11, <2>1 DEF SnapshotPending, RoundsLeft
    <3>. QED
      BY <1>1, <1>10, <1>11, <3>1 DEF TypeOK, SnapshotPending, queue, history
  <2>2. CASE patches # NoPatches
    BY <1>1, <1>2, <1>11, <2>2
       DEF TypeOK, RoundsLeft, SnapshotPending, queue, history, FlushPc
  <2>. QED
    BY <2>1, <2>2
<1>12. ASSUME NEW f \in Flushers, LoadManifest(f)
       PROVE  TypeInv'
  BY <1>1, <1>2, <1>12 DEF TypeOK, RoundsLeft, LoadManifest, queue, history, FlushPc
<1>13. ASSUME NEW f \in Flushers, SaveManifest(f)
       PROVE  TypeInv'
  <2>1. copy[f] \in Manifest /\ snap[f] \in [Ssn -> Patch]
    BY <1>1 DEF TypeOK
  <2>2. PICK known \in SUBSET Subagents :
          LET new == ApplyPatches(copy[f], snap[f], known) IN
          /\ disk' = IF new # copy[f] THEN new ELSE disk
          /\ saved' = [s \in Ssn |-> IF copy[f][s].present
                                     THEN Newest(saved[s], Accepted(known, snap[f][s]))
                                     ELSE saved[s]]
          /\ skipped' = skipped \cup {v \in Values(snap[f]) :
                                         ~copy[f][v[1]].present \/ Refused(known, v[2], v[3])}
    BY <1>13 DEF SaveManifest
  <2>3. disk' \in Manifest
    BY <1>1, <2>1, <2>2, ApplyType DEF TypeOK
  <2>4. saved' \in [Ssn -> Patch]
    BY <1>1, <2>1, <2>2, NewestType, AcceptedType DEF TypeOK
  <2>5. skipped' \subseteq Ssn \X Field \X Gen
    BY <1>1, <2>2, ManifestSyncAssumption DEF TypeOK, Values, Gen
  <2>6. /\ copy' = [copy EXCEPT ![f] = NoManifest]
        /\ pc' = [pc EXCEPT ![f] = "recheck"] /\ pc[f] = "save"
        /\ UNCHANGED <<queue, stable, snap, rounds, since, writer, fails, last, window>>
    BY <1>13 DEF SaveManifest
  <2>7. copy' \in [Flushers -> Manifest]
    BY <1>1, <2>6, EmptyType DEF TypeOK
  <2>. QED
    BY <1>1, <1>2, <2>3, <2>4, <2>5, <2>6, <2>7 DEF TypeOK, RoundsLeft, queue, FlushPc
<1>14. ASSUME NEW f \in Flushers, PersistFails(f)
       PROVE  TypeInv'
  <2>1. 0 \in Gen /\ fails' \in 0..MaxFails
    BY <1>1, <1>14, ManifestSyncAssumption DEF TypeOK, Gen, PersistFails
  <2>. QED
    BY <1>1, <1>2, <1>14, <2>1, EmptyType
       DEF TypeOK, RoundsLeft, PersistFails, queue, history, FlushPc
<1>15. ASSUME NEW f \in Flushers, RecheckGeneration(f)
       PROVE  TypeInv'
  <2>1. CASE generation = stable[f]
    BY <1>1, <1>2, <1>15, <2>1
       DEF TypeOK, RoundsLeft, RecheckGeneration, queue, history, FlushPc
  <2>2. CASE generation # stable[f]
    <3>1. NextRound(f) /\ rounds[f] < MaxRounds
      BY <1>2, <1>15, <2>2 DEF RecheckGeneration, RoundsLeft
    <3>. QED
      BY <1>1, <1>10, <1>15, <3>1 DEF TypeOK, RecheckGeneration, queue, history
  <2>. QED
    BY <2>1, <2>2
<1>16. ASSUME NEW f \in Flushers, ClearPending(f)
       PROVE  TypeInv'
  <2>1. NextRound(f) /\ rounds[f] < MaxRounds
    BY <1>2, <1>16 DEF ClearPending, RoundsLeft
  <2>. QED
    BY <1>1, <1>10, <1>16, <2>1, EmptyType DEF TypeOK, ClearPending, history
<1>17. ASSUME NEW f \in Flushers, FlushReturns(f)
       PROVE  TypeInv'
  <2>1. 0 \in Gen /\ 0 \in 0..MaxRounds
    BY ManifestSyncAssumption DEF Gen
  <2>. QED
    BY <1>1, <1>2, <1>17, <2>1
       DEF TypeOK, RoundsLeft, FlushReturns, queue, history, FlushPc
<1>18. CASE Write
  <2>1. ASSUME NEW w \in Writers, NEW op \in WriterOps, NEW s \in Ssn,
               WriterLoad(w, op, s)
        PROVE  TypeInv'
    BY <1>1, <1>2, <2>1 DEF TypeOK, RoundsLeft, WriterLoad, WriterOp, queue, flusher, history
  <2>2. ASSUME NEW w \in Writers, WriterSave(w)
        PROVE  TypeInv'
    <3>1. writer[w].copy \in Manifest /\ writer[w].ssn \in Ssn
      BY <1>1 DEF TypeOK
    <3>2. disk' \in Manifest
      BY <1>1, <2>2, <3>1, RewrittenType DEF TypeOK, WriterSave
    <3>3. writer' \in [Writers -> [op : WriterOp, ssn : Ssn, copy : Manifest]]
      BY <1>1, <2>2, EmptyType DEF TypeOK, WriterSave
    <3>. QED
      BY <1>1, <1>2, <2>2, <3>2, <3>3
         DEF TypeOK, RoundsLeft, WriterSave, queue, flusher, history
  <2>. QED
    BY <1>18, <2>1, <2>2 DEF Write
<1>19. CASE UNCHANGED vars
  BY <1>1, <1>2, <1>19 DEF TypeOK, RoundsLeft, vars, queue, flusher, history
<1>. QED
  BY <1>3, <1>4, <1>6, <1>7, <1>8, <1>9, <1>11, <1>12, <1>13, <1>14, <1>15,
     <1>16, <1>17, <1>18, <1>19 DEF Next, Hook, FlushStep

\* The manifest queue's variables keep their types, and flush_all never makes
\* more rounds than MAX_ROUNDS (manifest_sync.rs, flush_all).
THEOREM TypeCorrect == Spec => []TypeOK
<1>1. TypeInv => TypeOK
  BY DEF TypeInv
<1>. QED
  BY <1>1, TypeInit, TypeNext, PTL DEF Spec
-----------------------------------------------------------------------------
(* Nothing is lost.  NothingLostOutsideWindow is not inductive: that clearing *)
(* the queue is harmless depends on what the flusher saw when it copied the   *)
(* queue and on what came in since.                                           *)

\* A clean queue is empty, and no generation in use is ahead of the queue's.
QueueInv ==
    /\ ~dirty => patches = NoPatches
    /\ \A s \in Ssn, fld \in Field : patches[s][fld] <= generation
    /\ \A f \in Flushers : stable[f] <= generation /\ since[f] <= generation

\* A flusher's copy of the queue has every queued value that is not newer than
\* the generation the flusher read before taking the copy.
SnapshotCovers ==
    \A f \in Flushers : pc[f] \in {"load", "save", "recheck", "clear"} =>
        \A s \in Ssn, fld \in Field :
            patches[s][fld] # 0 /\ patches[s][fld] <= stable[f]
                => snap[f][s][fld] = patches[s][fld]

\* Once the manifest is written, every value of the copy is in it or had no
\* entry to go to.
SnapshotWritten ==
    \A f \in Flushers : pc[f] \in {"recheck", "clear"} =>
        \A s \in Ssn, fld \in Field :
            \/ snap[f][s][fld] <= saved[s][fld]
            \/ <<s, fld, snap[f][s][fld]>> \in skipped

\* What is newer than the generation a flusher is about to clear at came in
\* after the flusher looked again.
WindowCatches ==
    \A f \in Flushers : pc[f] = "clear" =>
        \A s \in Ssn, fld \in Field :
            patches[s][fld] > stable[f] => <<s, fld, patches[s][fld]>> \in window

LossInv ==
    /\ TypeInv
    /\ QueueInv
    /\ SnapshotCovers
    /\ SnapshotWritten
    /\ WindowCatches
    /\ NothingLostOutsideWindow
    /\ FlushOkMeansSaved

LEMMA LossInit == Init => LossInv
<1>. SUFFICES ASSUME Init PROVE LossInv
  OBVIOUS
<1>1. TypeInv
  BY TypeInit
<1>2. \A s \in Ssn, fld \in Field : patches[s][fld] = 0 /\ last[s][fld] = 0
  BY DEF Init, NoPatches, NoPatch
<1>3. QueueInv
  BY <1>2 DEF Init, QueueInv
<1>. QED
  BY <1>1, <1>2, <1>3
     DEF Init, LossInv, SnapshotCovers, SnapshotWritten, WindowCatches,
         NothingLostOutsideWindow, FlushOkMeansSaved

\* Types of the values the invariant compares.
LEMMA ValueTypes ==
    ASSUME TypeOK, NEW s \in Ssn, NEW fld \in Field
    PROVE  /\ generation \in Nat
           /\ patches[s][fld] \in Nat
           /\ last[s][fld] \in Nat
           /\ saved[s][fld] \in Nat
           /\ \A f \in Flushers : /\ snap[f][s][fld] \in Gen
                                   /\ stable[f] \in Nat
                                   /\ since[f] \in Nat
BY ManifestSyncAssumption DEF TypeOK, Patch, Gen

\* A step that leaves the queue and the history alone, and the position and
\* the copies of every flusher that is past its copy, keeps the invariant.
LEMMA QuietStep ==
    ASSUME LossInv, TypeInv',
           UNCHANGED <<patches, dirty, generation, last, saved, skipped, window>>,
           \A g \in Flushers :
              \/ /\ pc'[g] \notin {"load", "save", "recheck", "clear", "ok"}
                 /\ stable'[g] <= generation
                 /\ since'[g] <= generation
              \/ /\ UNCHANGED <<stable[g], snap[g], since[g]>>
                 /\ \/ pc'[g] = pc[g]
                    \/ pc[g] = "load" /\ pc'[g] = "save"
    PROVE  LossInv'
<1>1. QueueInv'
  BY DEF LossInv, QueueInv
<1>2. SnapshotCovers' /\ SnapshotWritten' /\ WindowCatches'
  BY DEF LossInv, SnapshotCovers, SnapshotWritten, WindowCatches
<1>3. NothingLostOutsideWindow' /\ FlushOkMeansSaved'
  BY DEF LossInv, NothingLostOutsideWindow, FlushOkMeansSaved
<1>. QED
  BY <1>1, <1>2, <1>3 DEF LossInv
\* The invariant holds after every step: only an enqueue, the end of a round,
\* a save, a recheck and a clear touch what it speaks of.
LEMMA LossNext == LossInv /\ [Next]_vars => LossInv'
<1>. SUFFICES ASSUME LossInv, [Next]_vars PROVE LossInv'
  OBVIOUS
<1>1. TypeInv /\ TypeOK /\ TypeInv'
  BY TypeNext DEF LossInv, TypeInv
<1>2. 0 <= generation
  BY <1>1, ManifestSyncAssumption DEF TypeOK, Gen
<1>3. ASSUME NEW s \in Ssn, NEW flds \in {{"agent_session_id"}, Field}, Enqueue(s, flds)
      PROVE  LossInv'
  <2>. DEFINE g == generation + 1
  <2>1. /\ generation' = g
        /\ UNCHANGED <<pc, stable, snap, since, saved, skipped>>
        /\ window \subseteq window'
    BY <1>3 DEF Enqueue, flusher
  <2>2. flds \subseteq Field /\ g # 0 /\ generation \in Nat
    BY <1>1, <1>2, ManifestSyncAssumption DEF Field, TypeOK, Gen
  <2>3. ASSUME NEW t \in Ssn, NEW fld \in Field, t = s, fld \in flds
        PROVE  patches'[t][fld] = g /\ last'[t][fld] = g
    BY <1>1, <1>3, <2>2, <2>3 DEF Enqueue, Merge, PatchOf, TypeOK
  <2>4. ASSUME NEW t \in Ssn, NEW fld \in Field, ~(t = s /\ fld \in flds)
        PROVE  patches'[t][fld] = patches[t][fld] /\ last'[t][fld] = last[t][fld]
    BY <1>1, <1>3, <2>4 DEF Enqueue, Merge, PatchOf, TypeOK, Patch
  <2>5. QueueInv'
    <3>1. dirty'
      BY <1>3 DEF Enqueue
    <3>2. \A t \in Ssn, fld \in Field : patches'[t][fld] <= generation'
      BY <1>1, <2>1, <2>2, <2>3, <2>4, ValueTypes DEF LossInv, QueueInv
    <3>3. \A f \in Flushers : stable'[f] <= generation' /\ since'[f] <= generation'
      BY <1>1, <2>1, <2>2, ManifestSyncAssumption DEF LossInv, QueueInv, TypeOK, Gen
    <3>. QED
      BY <3>1, <3>2, <3>3 DEF QueueInv
  <2>6. \A f \in Flushers : stable[f] < g /\ since[f] < g
    BY <1>1, <2>2, ManifestSyncAssumption DEF LossInv, QueueInv, TypeOK, Gen
  <2>7. SnapshotCovers'
    <3>. SUFFICES ASSUME NEW f \in Flushers, pc[f] \in {"load", "save", "recheck", "clear"},
                         NEW t \in Ssn, NEW fld \in Field,
                         patches'[t][fld] # 0, patches'[t][fld] <= stable[f]
                  PROVE  snap[f][t][fld] = patches'[t][fld]
      BY <2>1 DEF SnapshotCovers
    <3>1. ~(t = s /\ fld \in flds)
      BY <1>1, <2>2, <2>3, <2>6, ValueTypes
    <3>. QED
      BY <2>4, <3>1 DEF LossInv, SnapshotCovers
  <2>8. SnapshotWritten'
    BY <2>1 DEF LossInv, SnapshotWritten
  <2>9. WindowCatches'
    <3>. SUFFICES ASSUME NEW f \in Flushers, pc[f] = "clear",
                         NEW t \in Ssn, NEW fld \in Field, patches'[t][fld] > stable[f]
                  PROVE  <<t, fld, patches'[t][fld]>> \in window'
      BY <2>1 DEF WindowCatches
    <3>1. CASE t = s /\ fld \in flds
      <4>1. window' = window \cup {<<s, x, g>> : x \in flds}
        BY <1>3 DEF Enqueue
      <4>. QED
        BY <2>3, <3>1, <4>1
    <3>2. CASE ~(t = s /\ fld \in flds)
      BY <2>1, <2>4, <3>2 DEF LossInv, WindowCatches
    <3>. QED
      BY <3>1, <3>2
  <2>10. NothingLostOutsideWindow'
    BY <2>1, <2>3, <2>4 DEF LossInv, NothingLostOutsideWindow
  <2>11. FlushOkMeansSaved'
    BY <2>1, <2>3, <2>4, <2>6 DEF LossInv, FlushOkMeansSaved
  <2>. QED
    BY <1>1, <2>5, <2>7, <2>8, <2>9, <2>10, <2>11 DEF LossInv
<1>4. CASE LoopWake
  <2>1. Loop \in Flushers
    BY DEF Flushers
  <2>. QED
    BY <1>1, <1>4, <2>1, QuietStep
       DEF LossInv, QueueInv, LoopWake, queue, history, TypeOK, Gen
<1>5. ASSUME NEW f \in Flushers, CallFlushAll(f)
      PROVE  LossInv'
  BY <1>1, <1>2, <1>5, QuietStep
     DEF LossInv, QueueInv, CallFlushAll, queue, history, TypeOK, Gen
<1>6. CASE LoopDebounced
  <2>1. Loop \in Flushers
    BY DEF Flushers
  <2>2. CASE ~dirty
    BY <1>1, <1>2, <1>6, <2>1, <2>2, QuietStep
       DEF LossInv, QueueInv, LoopDebounced, queue, history, TypeOK, Gen
  <2>3. CASE dirty /\ stable[Loop] = generation
    BY <1>5, <1>6, <2>1, <2>3 DEF LoopDebounced
  <2>4. CASE dirty /\ stable[Loop] # generation
    <3>1. /\ pc[Loop] = "debounce"
          /\ stable' = [stable EXCEPT ![Loop] = generation]
          /\ UNCHANGED <<queue, pc, since, snap, history>>
      BY <1>6, <2>4 DEF LoopDebounced
    <3>. QED
      BY <1>1, <1>2, <2>1, <3>1, QuietStep
         DEF LossInv, QueueInv, queue, history, TypeOK, Gen
  <2>. QED
    BY <1>1, <2>2, <2>3, <2>4 DEF TypeOK
<1>7. ASSUME NEW f \in Flushers, CommandFlush(f)
      PROVE  LossInv'
  BY <1>5, <1>7 DEF CommandFlush
<1>8. ASSUME NEW f \in Flushers, FlushRound(f)
      PROVE  LossInv'
  <2>1. CASE dirty
    BY <1>1, <1>2, <1>8, <2>1, QuietStep
       DEF LossInv, QueueInv, FlushRound, queue, history, TypeOK, Gen
  <2>2. CASE ~dirty
    <3>1. UNCHANGED <<patches, dirty, generation, last, saved, skipped, window,
                      stable, snap, since>>
      BY <1>8 DEF FlushRound, queue, history
    <3>2. /\ pc'[f] = "ok"
          /\ \A h \in Flushers \ {f} : pc'[h] = pc[h]
      BY <1>1, <1>8, <2>2 DEF FlushRound, TypeOK
    <3>3. /\ QueueInv' /\ SnapshotCovers' /\ SnapshotWritten' /\ WindowCatches'
          /\ NothingLostOutsideWindow'
      BY <3>1, <3>2 DEF LossInv, QueueInv, SnapshotCovers, SnapshotWritten,
                        WindowCatches, NothingLostOutsideWindow
    <3>4. \A s \in Ssn, fld \in Field : patches[s][fld] = 0
      BY <2>2 DEF LossInv, QueueInv, NoPatches, NoPatch
    <3>5. ASSUME NEW s \in Ssn, NEW fld \in Field
          PROVE  \/ last[s][fld] <= saved[s][fld]
                 \/ <<s, fld, last[s][fld]>> \in skipped \cup window
      BY <1>1, <3>4, ValueTypes DEF LossInv, NothingLostOutsideWindow
    <3>6. FlushOkMeansSaved'
      BY <3>1, <3>2, <3>5 DEF LossInv, FlushOkMeansSaved
    <3>. QED
      BY <1>1, <3>3, <3>6 DEF LossInv
  <2>. QED
    BY <1>1, <2>1, <2>2 DEF TypeOK
<1>9. ASSUME NEW f \in Flushers, ReadGeneration(f)
      PROVE  LossInv'
  BY <1>1, <1>2, <1>9, QuietStep
     DEF LossInv, QueueInv, ReadGeneration, queue, history, TypeOK, Gen
<1>10. ASSUME NEW f \in Flushers, NextRound(f),
              UNCHANGED <<patches, dirty, generation, last, saved, skipped, window, since>>
       PROVE  LossInv'
  BY <1>1, <1>2, <1>10, QuietStep DEF LossInv, QueueInv, NextRound, TypeOK, Gen
<1>11. ASSUME NEW f \in Flushers, SnapshotPending(f)
       PROVE  LossInv'
  <2>1. CASE patches = NoPatches
    BY <1>10, <1>11, <2>1 DEF SnapshotPending, queue, history
  <2>2. CASE patches # NoPatches
    <3>1. /\ UNCHANGED <<patches, dirty, generation, last, saved, skipped, window,
                         stable, since>>
          /\ pc'[f] = "load" /\ snap'[f] = patches
          /\ \A h \in Flushers \ {f} : pc'[h] = pc[h] /\ snap'[h] = snap[h]
      BY <1>1, <1>11, <2>2 DEF SnapshotPending, queue, history, TypeOK
    <3>. QED
      BY <1>1, <3>1 DEF LossInv, QueueInv, SnapshotCovers, SnapshotWritten,
                        WindowCatches, NothingLostOutsideWindow, FlushOkMeansSaved
  <2>. QED
    BY <2>1, <2>2
<1>12. ASSUME NEW f \in Flushers, LoadManifest(f)
       PROVE  LossInv'
  BY <1>1, <1>12, QuietStep
     DEF LossInv, QueueInv, LoadManifest, queue, history, TypeOK
<1>13. ASSUME NEW f \in Flushers, SaveManifest(f)
       PROVE  LossInv'
  <2>1. /\ UNCHANGED <<patches, dirty, generation, last, window, stable, snap, since>>
        /\ pc[f] = "save" /\ pc'[f] = "recheck"
        /\ \A h \in Flushers \ {f} : pc'[h] = pc[h]
        /\ skipped \subseteq skipped'
    BY <1>1, <1>13 DEF SaveManifest, queue, TypeOK
  <2>. PICK known \in SUBSET Subagents :
          /\ saved' = [s \in Ssn |-> IF copy[f][s].present
                                     THEN Newest(saved[s], Accepted(known, snap[f][s]))
                                     ELSE saved[s]]
          /\ skipped' = skipped \cup {v \in Values(snap[f]) :
                                         ~copy[f][v[1]].present \/ Refused(known, v[2], v[3])}
    BY <1>13 DEF SaveManifest
  <2>2. ASSUME NEW s \in Ssn, NEW fld \in Field
        PROVE  saved[s][fld] <= saved'[s][fld]
    <3>1. /\ saved[s] \in Patch /\ snap[f][s] \in Patch
          /\ Accepted(known, snap[f][s]) \in Patch
      BY <1>1, AcceptedType DEF TypeOK
    <3>2. saved[s][fld] \in Nat /\ Accepted(known, snap[f][s])[fld] \in Nat
      BY <3>1, ManifestSyncAssumption DEF Patch, Gen
    <3>3. Newest(saved[s], Accepted(known, snap[f][s]))[fld] >= saved[s][fld]
      BY <3>2 DEF Newest
    <3>. QED
      BY <3>2, <3>3
  <2>3. ASSUME NEW s \in Ssn, NEW fld \in Field
        PROVE  \/ snap[f][s][fld] <= saved'[s][fld]
               \/ <<s, fld, snap[f][s][fld]>> \in skipped'
    <3>. DEFINE g == snap[f][s][fld]
    <3>1. g \in Gen /\ saved[s][fld] \in Nat /\ saved'[s][fld] \in Nat
      BY <1>1, ManifestSyncAssumption DEF TypeInv, TypeOK, Patch, Gen
    <3>2. CASE copy[f][s].present /\ ~Refused(known, fld, g)
      <4>1. Accepted(known, snap[f][s])[fld] = g
        BY <3>2 DEF Accepted
      <4>2. saved'[s][fld] >= g
        BY <3>1, <3>2, <4>1, ManifestSyncAssumption DEF Newest, Gen
      <4>. QED
        BY <3>1, <4>2, ManifestSyncAssumption DEF Gen
    <3>3. CASE g = 0
      BY <3>1, <3>3
    <3>4. CASE g # 0 /\ (~copy[f][s].present \/ Refused(known, fld, g))
      <4>1. g \in 1..MaxGen
        BY <3>1, <3>4, ManifestSyncAssumption DEF Gen
      <4>2. <<s, fld, g>> \in Values(snap[f])
        BY <4>1 DEF Values
      <4>. QED
        BY <3>4, <4>2
    <3>. QED
      BY <3>2, <3>3, <3>4
  <2>4. ASSUME NEW s \in Ssn, NEW fld \in Field
        PROVE  /\ saved[s][fld] \in Nat /\ saved'[s][fld] \in Nat
               /\ last[s][fld] \in Nat
               /\ \A h \in Flushers : snap[h][s][fld] \in Nat
    BY <1>1, ManifestSyncAssumption DEF TypeInv, TypeOK, Patch, Gen
  <2>5. QueueInv' /\ SnapshotCovers' /\ WindowCatches'
    BY <1>1, <2>1 DEF LossInv, QueueInv, SnapshotCovers, WindowCatches
  <2>6. SnapshotWritten'
    BY <1>1, <2>1, <2>2, <2>3, <2>4 DEF LossInv, SnapshotWritten
  <2>7. NothingLostOutsideWindow' /\ FlushOkMeansSaved'
    BY <1>1, <2>1, <2>2, <2>4 DEF LossInv, NothingLostOutsideWindow, FlushOkMeansSaved
  <2>. QED
    BY <1>1, <2>5, <2>6, <2>7 DEF LossInv
<1>14. ASSUME NEW f \in Flushers, PersistFails(f)
       PROVE  LossInv'
  BY <1>1, <1>2, <1>14, QuietStep
     DEF LossInv, QueueInv, PersistFails, queue, history, TypeOK, Gen
<1>15. ASSUME NEW f \in Flushers, RecheckGeneration(f)
       PROVE  LossInv'
  <2>1. CASE generation = stable[f]
    <3>1. /\ UNCHANGED <<patches, dirty, generation, last, saved, skipped, window,
                         stable, snap, since>>
          /\ pc[f] = "recheck" /\ pc'[f] = "clear"
          /\ \A h \in Flushers \ {f} : pc'[h] = pc[h]
      BY <1>1, <1>15, <2>1 DEF RecheckGeneration, queue, history, TypeOK
    <3>2. \A s \in Ssn, fld \in Field : ~(patches[s][fld] > stable[f])
      BY <1>1, <2>1, ValueTypes DEF LossInv, QueueInv
    <3>. QED
      BY <1>1, <3>1, <3>2
         DEF LossInv, QueueInv, SnapshotCovers, SnapshotWritten, WindowCatches,
             NothingLostOutsideWindow, FlushOkMeansSaved
  <2>2. CASE generation # stable[f]
    BY <1>10, <1>15, <2>2 DEF RecheckGeneration, queue, history
  <2>. QED
    BY <2>1, <2>2
<1>16. ASSUME NEW f \in Flushers, ClearPending(f)
       PROVE  LossInv'
  <2>1. /\ UNCHANGED <<generation, last, saved, skipped, window, since>>
        /\ patches' = NoPatches /\ ~dirty'
        /\ pc[f] = "clear" /\ pc'[f] = "is_dirty" /\ stable'[f] = 0
        /\ \A h \in Flushers \ {f} :
              pc'[h] = pc[h] /\ stable'[h] = stable[h] /\ snap'[h] = snap[h]
    BY <1>1, <1>16 DEF ClearPending, NextRound, history, TypeOK
  <2>2. ASSUME NEW s \in Ssn, NEW fld \in Field
        PROVE  patches'[s][fld] = 0
    BY <2>1 DEF NoPatches, NoPatch
  <2>3. ASSUME NEW s \in Ssn, NEW fld \in Field
        PROVE  \/ last[s][fld] <= saved[s][fld]
               \/ <<s, fld, last[s][fld]>> \in skipped \cup window
    <3>1. CASE last[s][fld] # patches[s][fld]
      BY <3>1 DEF LossInv, NothingLostOutsideWindow
    <3>2. CASE patches[s][fld] = 0 /\ last[s][fld] = 0
      BY <1>1, <3>2, ValueTypes
    <3>3. CASE patches[s][fld] # 0 /\ patches[s][fld] <= stable[f]
                /\ last[s][fld] = patches[s][fld]
      BY <2>1, <3>3 DEF LossInv, SnapshotCovers, SnapshotWritten
    <3>4. CASE patches[s][fld] > stable[f] /\ last[s][fld] = patches[s][fld]
      BY <2>1, <3>4 DEF LossInv, WindowCatches
    <3>. QED
      BY <1>1, <3>1, <3>2, <3>3, <3>4, ValueTypes
  <2>4. QueueInv'
    BY <1>1, <1>2, <2>1, <2>2 DEF LossInv, QueueInv
  <2>5. SnapshotCovers' /\ SnapshotWritten' /\ WindowCatches'
    <3>1. \A h \in Flushers : stable'[h] \in Nat
      BY <1>1, ManifestSyncAssumption DEF TypeInv, TypeOK, Gen
    <3>. QED
      BY <1>1, <2>1, <2>2, <3>1 DEF LossInv, SnapshotCovers, SnapshotWritten, WindowCatches
  <2>6. NothingLostOutsideWindow' /\ FlushOkMeansSaved'
    BY <2>1, <2>3 DEF LossInv, NothingLostOutsideWindow, FlushOkMeansSaved
  <2>. QED
    BY <1>1, <2>4, <2>5, <2>6 DEF LossInv
<1>17. ASSUME NEW f \in Flushers, FlushReturns(f)
       PROVE  LossInv'
  BY <1>1, <1>2, <1>17, QuietStep
     DEF LossInv, QueueInv, FlushReturns, queue, history, TypeOK, Gen
<1>18. CASE Write
  <2>1. UNCHANGED <<patches, dirty, generation, last, saved, skipped, window,
                    pc, stable, snap, since>>
    BY <1>18 DEF Write, WriterLoad, WriterSave, queue, flusher, history
  <2>. QED
    BY <1>1, <2>1, QuietStep
<1>19. CASE UNCHANGED vars
  BY <1>1, <1>19, QuietStep DEF vars, queue, flusher, history
<1>. QED
  BY <1>3, <1>4, <1>6, <1>7, <1>8, <1>9, <1>11, <1>12, <1>13, <1>14, <1>15,
     <1>16, <1>17, <1>18, <1>19 DEF Next, Hook, FlushStep

LEMMA LossInvariant == Spec => []LossInv
BY LossInit, LossNext, PTL DEF Spec

\* flush (manifest_sync.rs) clears nothing it has not written, except what is
\* enqueued between its last look at the generation and the clearing.
THEOREM NothingLost == Spec => []NothingLostOutsideWindow
<1>1. LossInv => NothingLostOutsideWindow
  BY DEF LossInv
<1>. QED
  BY <1>1, LossInvariant, PTL

\* A FlushManifest (server.rs) that answers ok has written what the queue held
\* when the command arrived, whatever other flushers and writers did meanwhile.
THEOREM FlushOkSaves == Spec => []FlushOkMeansSaved
<1>1. LossInv => FlushOkMeansSaved
  BY DEF LossInv
<1>. QED
  BY <1>1, LossInvariant, PTL
=============================================================================
