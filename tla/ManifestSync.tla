----------------------------- MODULE ManifestSync -----------------------------
(***************************************************************************)
(* The debounced queue of manifest patches (daemon/manifest_sync.rs), the  *)
(* loop that drains it (daemon/server.rs) and the other writers of         *)
(* session-manifest.json (session/manifest.rs).                            *)
(*                                                                         *)
(* Every hook that carries both ids enqueues a patch under the queue lock  *)
(* and bumps `generation`.  A flusher reads the generation, takes a copy   *)
(* of the queue, rewrites the manifest (an unlocked load / modify / save), *)
(* reads the generation again and, if it is unchanged, clears the queue:   *)
(* five separate critical sections, so everything else may run in between. *)
(*                                                                         *)
(* A patch field is represented by the generation of the enqueue that set  *)
(* it (0 is None), which orders the values of a field by age.  An agent    *)
(* session id may be a subagent's, and the agent's files may come to say   *)
(* so after the hook that enqueued it: then it is not written.             *)
(***************************************************************************)
EXTENDS Naturals, FiniteSets

CONSTANTS
    Ssn,        \* sessions_session_ids of managed sessions
    Loop,       \* the flusher run by manifest_persist_loop
    Commands,   \* flushers run by FlushManifest handlers and by SIGTERM
    Writers,    \* other processes and tasks that rewrite the manifest
    WriterOps,  \* what those writers do: append, close, reopen an entry
    MaxGen,     \* bound: number of enqueues
    Subagents,  \* the enqueues whose agent session is a subagent's
    MaxRounds,  \* MAX_ROUNDS of flush_all (64 in the code)
    MaxFails    \* bound: number of manifest writes that fail

Flushers == {Loop} \cup Commands

ASSUME ManifestSyncAssumption ==
    /\ MaxGen \in Nat \ {0}
    /\ MaxRounds \in Nat \ {0}
    /\ MaxFails \in Nat
    /\ Subagents \subseteq 1..MaxGen
    /\ Loop \notin Commands
    /\ Ssn # {}
    /\ WriterOps \subseteq {"append", "close", "reopen"}

Field == {"agent_session_id", "messaged_at"}
Gen   == 0..MaxGen
Patch == [Field -> Gen]
Entry == [present : BOOLEAN, closed : BOOLEAN, val : Patch]
Manifest == [Ssn -> Entry]

NoPatch   == [fld \in Field |-> 0]
NoPatches == [s \in Ssn |-> NoPatch]

FlushPc == {"idle", "debounce", "is_dirty", "generation", "snapshot",
            "load", "save", "recheck", "clear", "ok", "err"}
WriterOp == WriterOps \cup {"none"}

VARIABLES
    patches,    \* QueueInner.patches
    dirty,      \* QueueInner.dirty
    generation, \* ManifestSyncQueue.generation
    disk,       \* session-manifest.json
    pc,         \* where each flusher is in flush_all / flush
    stable,     \* stable_generation of each flusher
    snap,       \* snapshot_pending() of each flusher
    copy,       \* load_manifest() of each flusher
    rounds,     \* rounds flush_all has made
    writer,     \* the read-modify-write each other writer is in
    fails,      \* writes that have failed
    last,       \* history: the newest value enqueued for each field
    saved,      \* history: the newest value saved for each field
    skipped,    \* history: values flushed while the manifest had no entry, or refused
    window,     \* history: values enqueued between a recheck and its clear
    since       \* history: generation when flush_all was called

queue   == <<patches, dirty, generation>>
flusher == <<pc, stable, snap, copy, rounds, since>>
history == <<last, saved, skipped, window>>
vars    == <<queue, disk, flusher, writer, fails, history>>

NoManifest == [s \in Ssn |-> [present |-> FALSE, closed |-> FALSE, val |-> NoPatch]]
IdleWriter == [op |-> "none", ssn |-> CHOOSE s \in Ssn : TRUE, copy |-> NoManifest]

Init ==
    /\ patches = NoPatches
    /\ dirty = FALSE
    /\ generation = 0
    /\ disk \in [Ssn -> {e \in Entry : e.val = NoPatch /\ ~e.closed}]
    /\ pc = [f \in Flushers |-> "idle"]
    /\ stable = [f \in Flushers |-> 0]
    /\ snap = [f \in Flushers |-> NoPatches]
    /\ copy = [f \in Flushers |-> NoManifest]
    /\ rounds = [f \in Flushers |-> 0]
    /\ writer = [w \in Writers |-> IdleWriter]
    /\ fails = 0
    /\ last = NoPatches
    /\ saved = NoPatches
    /\ skipped = {}
    /\ window = {}
    /\ since = [f \in Flushers |-> 0]

-----------------------------------------------------------------------------
(* The queue *)

\* ManifestPatch::merge: a field that the newer patch carries replaces the
\* older value, the others are kept.
Merge(old, new) ==
    [fld \in Field |-> IF new[fld] # 0 THEN new[fld] ELSE old[fld]]

\* The patch handle_notify builds: always the agent session id, and
\* messaged_at for a prompt or a session_start.  The title and the agent, which
\* the entry may refuse for what it has already, are left out.
PatchOf(flds, g) == [fld \in Field |-> IF fld \in flds THEN g ELSE 0]

\* enqueue: merge, mark dirty and bump the generation under the queue lock.
Enqueue(s, flds) ==
    LET g == generation + 1 IN
    /\ generation < MaxGen
    /\ patches' = [patches EXCEPT ![s] = Merge(@, PatchOf(flds, g))]
    /\ dirty' = TRUE
    /\ generation' = g
    /\ last' = [last EXCEPT ![s] = Merge(@, PatchOf(flds, g))]
    /\ window' = IF \E f \in Flushers : pc[f] = "clear"
                 THEN window \cup {<<s, fld, g>> : fld \in flds}
                 ELSE window
    /\ UNCHANGED <<disk, flusher, writer, fails, saved, skipped>>

-----------------------------------------------------------------------------
(* manifest_persist_loop: wait for dirty, then for a quiet debounce window *)

LoopWake ==
    /\ pc[Loop] = "idle"
    /\ dirty
    /\ stable' = [stable EXCEPT ![Loop] = generation]
    /\ pc' = [pc EXCEPT ![Loop] = "debounce"]
    /\ UNCHANGED <<queue, disk, snap, copy, rounds, since, writer, fails, history>>

\* Entering flush_all.
CallFlushAll(f) ==
    /\ pc' = [pc EXCEPT ![f] = "is_dirty"]
    /\ stable' = [stable EXCEPT ![f] = 0]
    /\ since' = [since EXCEPT ![f] = generation]
    /\ UNCHANGED <<queue, disk, snap, copy, rounds, writer, fails, history>>

\* One tick of the inner loop: flush_after_debounce.
LoopDebounced ==
    /\ pc[Loop] = "debounce"
    /\ \/ /\ ~dirty
          /\ pc' = [pc EXCEPT ![Loop] = "idle"]
          /\ stable' = [stable EXCEPT ![Loop] = 0]
          /\ UNCHANGED <<rounds, since>>
          /\ UNCHANGED <<queue, disk, snap, copy, writer, fails, history>>
       \/ /\ dirty
          /\ stable[Loop] = generation
          /\ CallFlushAll(Loop)
       \/ /\ dirty
          /\ stable[Loop] # generation
          /\ stable' = [stable EXCEPT ![Loop] = generation]
          /\ UNCHANGED <<queue, disk, pc, rounds, since, snap, copy, writer, fails, history>>

\* FlushManifest, or SIGTERM: flush_all without a debounce.
CommandFlush(f) ==
    /\ f \in Commands
    /\ pc[f] = "idle"
    /\ CallFlushAll(f)

-----------------------------------------------------------------------------
(* flush_all and flush *)

\* Mutant: one round too many.
FlushRoundOneMore(f) ==
    /\ pc[f] = "is_dirty"
    /\ pc' = [pc EXCEPT ![f] = IF ~dirty THEN "ok"
                               ELSE IF rounds[f] <= MaxRounds THEN "generation"
                               ELSE "err"]
    /\ UNCHANGED <<queue, disk, stable, snap, copy, rounds, since, writer, fails, history>>

\* The test of is_dirty that starts each round and ends the loop.
FlushRound(f) ==
    /\ pc[f] = "is_dirty"
    /\ pc' = [pc EXCEPT ![f] = IF ~dirty THEN "ok"
                               ELSE IF rounds[f] < MaxRounds THEN "generation"
                               ELSE "err"]
    /\ UNCHANGED <<queue, disk, stable, snap, copy, rounds, since, writer, fails, history>>

ReadGeneration(f) ==
    /\ pc[f] = "generation"
    /\ stable' = [stable EXCEPT ![f] = generation]
    /\ pc' = [pc EXCEPT ![f] = "snapshot"]
    /\ UNCHANGED <<queue, disk, snap, copy, rounds, since, writer, fails, history>>

\* flush returns Ok and its locals are gone: back to the head of flush_all.
NextRound(f) ==
    /\ pc' = [pc EXCEPT ![f] = "is_dirty"]
    /\ rounds' = [rounds EXCEPT ![f] = @ + 1]
    /\ stable' = [stable EXCEPT ![f] = 0]
    /\ snap' = [snap EXCEPT ![f] = NoPatches]

SnapshotPending(f) ==
    /\ pc[f] = "snapshot"
    /\ IF patches = NoPatches
       THEN NextRound(f)
       ELSE /\ pc' = [pc EXCEPT ![f] = "load"]
            /\ snap' = [snap EXCEPT ![f] = patches]
            /\ UNCHANGED <<rounds, stable>>
    /\ UNCHANGED <<queue, disk, copy, since, writer, fails, history>>

LoadManifest(f) ==
    /\ pc[f] = "load"
    /\ copy' = [copy EXCEPT ![f] = disk]
    /\ pc' = [pc EXCEPT ![f] = "save"]
    /\ UNCHANGED <<queue, disk, stable, snap, rounds, since, writer, fails, history>>

\* apply_sync_patch_to_entry writes all of a patch but the id of a subagent that
\* the agent's files name by now: it must not take its parent's place.
Refused(known, fld, g) == fld = "agent_session_id" /\ g \in known

Accepted(known, p) == [fld \in Field |-> IF Refused(known, fld, p[fld]) THEN 0 ELSE p[fld]]

\* apply_manifest_sync_patches: entries the manifest lacks are skipped, a
\* closed entry is patched like an open one.
ApplyPatches(manifest, ps, known) ==
    [s \in Ssn |-> IF manifest[s].present
                   THEN [manifest[s] EXCEPT !.val = Merge(@, Accepted(known, ps[s]))]
                   ELSE manifest[s]]

Values(ps) ==
    {v \in Ssn \X Field \X (1..MaxGen) : ps[v[1]][v[2]] = v[3]}

Newest(old, new) == [fld \in Field |-> IF new[fld] > old[fld] THEN new[fld] ELSE old[fld]]

\* The manifest is written only when the patches change it.  A subagent is known
\* or not: its files are written, and read, without regard to the hooks.
SaveManifest(f) ==
    \E known \in SUBSET Subagents :
        LET new == ApplyPatches(copy[f], snap[f], known) IN
        /\ pc[f] = "save"
        /\ disk' = IF new # copy[f] THEN new ELSE disk
        /\ pc' = [pc EXCEPT ![f] = "recheck"]
        /\ copy' = [copy EXCEPT ![f] = NoManifest]
        /\ saved' = [s \in Ssn |-> IF copy[f][s].present
                                   THEN Newest(saved[s], Accepted(known, snap[f][s]))
                                   ELSE saved[s]]
        /\ skipped' = skipped \cup {v \in Values(snap[f]) :
                                       ~copy[f][v[1]].present \/ Refused(known, v[2], v[3])}
        /\ UNCHANGED <<queue, stable, snap, rounds, since, writer, fails, last, window>>

\* Mutant: the result of the write is dropped.
PersistFailsIgnored(f) ==
    /\ pc[f] \in {"load", "save"}
    /\ fails < MaxFails
    /\ fails' = fails + 1
    /\ pc' = [pc EXCEPT ![f] = "recheck"]
    /\ UNCHANGED <<queue, disk, stable, snap, copy, rounds, since, writer, history>>

\* Mutant: the dirty flag is taken before the write and not put back.
PersistFailsClean(f) ==
    /\ pc[f] \in {"load", "save"}
    /\ fails < MaxFails
    /\ fails' = fails + 1
    /\ dirty' = FALSE
    /\ pc' = [pc EXCEPT ![f] = "err"]
    /\ stable' = [stable EXCEPT ![f] = 0]
    /\ snap' = [snap EXCEPT ![f] = NoPatches]
    /\ copy' = [copy EXCEPT ![f] = NoManifest]
    /\ UNCHANGED <<patches, generation, disk, rounds, since, writer, history>>

\* load_manifest or save_manifest fails: `?` leaves the queue as it is.
PersistFails(f) ==
    /\ pc[f] \in {"load", "save"}
    /\ fails < MaxFails
    /\ fails' = fails + 1
    /\ pc' = [pc EXCEPT ![f] = "err"]
    /\ stable' = [stable EXCEPT ![f] = 0]
    /\ snap' = [snap EXCEPT ![f] = NoPatches]
    /\ copy' = [copy EXCEPT ![f] = NoManifest]
    /\ UNCHANGED <<queue, disk, rounds, since, writer, history>>

\* Mutant: the generation is not looked at again.
RecheckNothing(f) ==
    /\ pc[f] = "recheck"
    /\ pc' = [pc EXCEPT ![f] = "clear"]
    /\ UNCHANGED <<queue, disk, stable, snap, copy, rounds, since, writer, fails, history>>

RecheckGeneration(f) ==
    /\ pc[f] = "recheck"
    /\ IF generation = stable[f]
       THEN /\ pc' = [pc EXCEPT ![f] = "clear"]
            /\ UNCHANGED <<rounds, stable, snap>>
       ELSE NextRound(f)
    /\ UNCHANGED <<queue, disk, copy, since, writer, fails, history>>

ClearPending(f) ==
    /\ pc[f] = "clear"
    /\ patches' = NoPatches
    /\ dirty' = FALSE
    /\ NextRound(f)
    /\ UNCHANGED <<generation, disk, copy, since, writer, fails, history>>

\* flush_all returns to its caller; the loop goes back to waiting.
FlushReturns(f) ==
    /\ pc[f] \in {"ok", "err"}
    /\ pc' = [pc EXCEPT ![f] = "idle"]
    /\ rounds' = [rounds EXCEPT ![f] = 0]
    /\ since' = [since EXCEPT ![f] = 0]
    /\ UNCHANGED <<queue, disk, stable, snap, copy, writer, fails, history>>

-----------------------------------------------------------------------------
(* The other writers: append_entry (create_unified), mark_entries_closed   *)
(* (close_unified, vanished windows) and reopen_manifest_entry (healed     *)
(* windows).  Each loads the whole file and, when its own entry changes,   *)
(* saves the whole file.                                                   *)

WriterLoad(w, op, s) ==
    /\ writer[w].op = "none"
    /\ writer' = [writer EXCEPT ![w] = [op |-> op, ssn |-> s, copy |-> disk]]
    /\ UNCHANGED <<queue, disk, flusher, fails, history>>

Rewritten(manifest, op, s) ==
    CASE op = "append" /\ ~manifest[s].present ->
            [manifest EXCEPT ![s] = [present |-> TRUE, closed |-> FALSE, val |-> NoPatch]]
      [] op = "close" /\ manifest[s].present ->
            [manifest EXCEPT ![s].closed = TRUE]
      [] op = "reopen" /\ manifest[s].present ->
            [manifest EXCEPT ![s].closed = FALSE]
      [] OTHER -> manifest

WriterSave(w) ==
    LET r   == writer[w]
        new == Rewritten(r.copy, r.op, r.ssn)
    IN  /\ r.op # "none"
        /\ disk' = IF new # r.copy THEN new ELSE disk
        /\ writer' = [writer EXCEPT ![w] = IdleWriter]
        /\ UNCHANGED <<queue, flusher, fails, history>>

-----------------------------------------------------------------------------

FlushStep(f) ==
    \/ FlushRound(f)
    \/ ReadGeneration(f)
    \/ SnapshotPending(f)
    \/ LoadManifest(f)
    \/ SaveManifest(f)
    \/ RecheckGeneration(f)
    \/ ClearPending(f)
    \/ FlushReturns(f)

Hook == \E s \in Ssn, flds \in {{"agent_session_id"}, Field} : Enqueue(s, flds)

Write ==
    \E w \in Writers :
        \/ \E op \in WriterOps, s \in Ssn : WriterLoad(w, op, s)
        \/ WriterSave(w)

Next ==
    \/ Hook
    \/ LoopWake
    \/ LoopDebounced
    \/ \E f \in Flushers : CommandFlush(f) \/ FlushStep(f) \/ PersistFails(f)
    \/ Write

\* The daemon's tasks run; hooks, commands and other writers are not forced to.
Fairness ==
    /\ WF_vars(LoopWake)
    /\ WF_vars(LoopDebounced)
    /\ \A f \in Flushers : WF_vars(FlushStep(f))

Spec == Init /\ [][Next]_vars
FairSpec == Spec /\ Fairness

-----------------------------------------------------------------------------
(* Properties *)

\* Every variable keeps its type.
TypeOK ==
    /\ patches \in [Ssn -> Patch]
    /\ dirty \in BOOLEAN
    /\ generation \in Gen
    /\ disk \in Manifest
    /\ pc \in [Flushers -> FlushPc]
    /\ stable \in [Flushers -> Gen]
    /\ snap \in [Flushers -> [Ssn -> Patch]]
    /\ copy \in [Flushers -> Manifest]
    /\ rounds \in [Flushers -> 0..MaxRounds]
    /\ writer \in [Writers -> [op : WriterOp, ssn : Ssn, copy : Manifest]]
    /\ fails \in 0..MaxFails
    /\ last \in [Ssn -> Patch]
    /\ saved \in [Ssn -> Patch]
    /\ skipped \subseteq Ssn \X Field \X Gen
    /\ window \subseteq Ssn \X Field \X Gen
    /\ since \in [Flushers -> Gen]

\* No patch disappears: the newest value enqueued for a field is still in the
\* queue, or a flush has written it (or something newer) to the manifest, or a
\* flush found no entry to write it to or refused it as the id of a subagent
\* known by then, or it was enqueued in the one gap the code leaves, after a
\* flusher rechecked the generation and before that flusher cleared the queue.
NothingLostOutsideWindow ==
    \A s \in Ssn, fld \in Field :
        \/ last[s][fld] = patches[s][fld]
        \/ last[s][fld] <= saved[s][fld]
        \/ <<s, fld, last[s][fld]>> \in skipped \cup window

\* A FlushManifest that is acknowledged with ok: whatever had been enqueued
\* when the command arrived has been superseded, written, skipped for lack of
\* an entry or as a known subagent's id, or lost in that same gap, whoever else
\* was flushing meanwhile.
FlushOkMeansSaved ==
    \A f \in Flushers : pc[f] = "ok" =>
        \A s \in Ssn, fld \in Field :
            \/ last[s][fld] > since[f]
            \/ last[s][fld] <= saved[s][fld]
            \/ <<s, fld, last[s][fld]>> \in skipped \cup window

\* Every enqueued value is eventually written, superseded by a newer one,
\* skipped as above, or lost in the recheck-to-clear gap: a
\* failed write, or an enqueue that keeps the generation moving, only delays it.
EventuallySaved ==
    \A s \in Ssn, fld \in Field, g \in 1..MaxGen :
        last[s][fld] = g ~>
            \/ last[s][fld] > g
            \/ saved[s][fld] >= g
            \/ <<s, fld, g>> \in skipped \cup window

\* What the queue's documentation says: it "only clears the queue after a
\* successful atomic_write_manifest when generation is still unchanged".
ClearOnlyWhenGenerationStable ==
    [][\A f \in Flushers : ClearPending(f) => generation = stable[f]]_vars

\* What close_unified's comment says: the tombstone it writes before it kills
\* the window cannot be undone by something else that is running; only
\* reopen_manifest_entry opens a closed entry again.
TombstoneOnlyReopened ==
    [][\A s \in Ssn :
          disk[s].closed /\ ~disk'[s].closed =>
             \E w \in Writers : /\ writer[w].op = "reopen"
                                /\ writer[w].ssn = s
                                /\ writer'[w].op = "none"]_vars
===============================================================================
