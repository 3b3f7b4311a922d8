------------------------------ MODULE SidebarFeed ------------------------------
(***************************************************************************)
(* How a change of the daemon's rows reaches the sidebars (daemon/         *)
(* server.rs, bar/client.rs and bar/app/session_list/daemon.rs).           *)
(*                                                                         *)
(* The daemon makes an event, a patch of one row or a snapshot of all,     *)
(* under its lock and numbers it with its version; the task that made it   *)
(* broadcasts it after the lock is gone, so events overtake each other.  A *)
(* subscriber first gets a snapshot and listens to the broadcast after     *)
(* that; what it is sent waits in a ring of limited size.  The sidebar     *)
(* takes whatever has arrived as one batch, reorders it and drops events   *)
(* whose version is below its own.                                         *)
(*                                                                         *)
(* A row's content is the version that last changed it, with the daemon's  *)
(* incarnation (epoch), which numbers its versions from 0 again.           *)
(***************************************************************************)
EXTENDS Naturals, Sequences, FiniteSets

CONSTANTS
    Rows,       \* row ids
    Bars,       \* sidebars
    Capacity,   \* of the broadcast ring (1024 in run_daemon)
    MaxVersion, \* bound: changes in the first daemon, one fewer in each later one
    MaxWire,    \* bound: events a sidebar is sent and has not drained
    MaxEpoch    \* bound: restarts of the daemon

ASSUME SidebarFeedAssumption ==
    /\ Rows # {}
    /\ Capacity \in Nat \ {0}
    /\ MaxVersion \in Nat
    /\ MaxWire \in Nat \ {0}
    /\ MaxEpoch \in Nat

Cell    == [on : BOOLEAN, epoch : 0..MaxEpoch, at : 0..MaxVersion]
Content == [Rows -> Cell]

Snapshot == [kind : {"snapshot"}, version : 0..MaxVersion, rows : Content]
Patch    == UNION {[kind : {"patch"}, version : 0..MaxVersion, rows : [{r} -> Cell]] : r \in Rows}
Down     == [kind |-> "down"]
Event    == Snapshot \cup Patch \cup {Down}

VARIABLES
    up,         \* the daemon runs
    epoch,      \* its incarnation
    version,    \* StateInner.version
    content,    \* StateInner.sessions
    pending,    \* events made under the lock and not sent yet
    sub,        \* the subscription of each sidebar
    queue,      \* what each receiver of the broadcast has not received yet
    lagged,     \* the ring overtook the receiver
    wire,       \* written for, and not yet drained by, each sidebar
    batch,      \* what is left of the batch a sidebar applies
    bar         \* the App of each sidebar

daemon == <<up, epoch, version, content, pending>>
feed   == <<sub, queue, lagged>>
vars   == <<daemon, feed, wire, batch, bar>>

NoCell == [on |-> FALSE, epoch |-> 0, at |-> 0]
NewBar == [version |-> 0, rows |-> [r \in Rows |-> NoCell], reconnecting |-> FALSE]

Init ==
    /\ up = TRUE
    /\ epoch = 0
    /\ version = 0
    /\ content = [r \in Rows |-> NoCell]
    /\ pending = {}
    /\ sub = [b \in Bars |-> "none"]
    /\ queue = [b \in Bars |-> <<>>]
    /\ lagged = [b \in Bars |-> FALSE]
    /\ wire = [b \in Bars |-> <<>>]
    /\ batch = [b \in Bars |-> <<>>]
    /\ bar = [b \in Bars |-> NewBar]

-----------------------------------------------------------------------------
(* The daemon                                                                *)

SnapshotEvent(c, v) == [kind |-> "snapshot", version |-> v, rows |-> c]
PatchEvent(r, cell, v) == [kind |-> "patch", version |-> v, rows |-> [x \in {r} |-> cell]]

\* The rows of set S change, those of On stay or appear, the others go.
Changed(S, On) ==
    [r \in Rows |-> IF r \in S THEN [on |-> r \in On, epoch |-> epoch, at |-> version + 1]
                               ELSE content[r]]

\* handle_notify, rename_session and acknowledge_completion change one row.
RowPatched(r) ==
    /\ up
    /\ version + epoch < MaxVersion
    /\ version' = version + 1
    /\ content' = Changed({r}, {r})
    /\ pending' = pending \cup {PatchEvent(r, content'[r], version')}
    /\ UNCHANGED <<up, epoch, feed, wire, batch, bar>>

\* refresh_from_tmux, commit_focus_state and close_session change rows, or
\* the rows there are.
RowsChanged(S, On) ==
    /\ up
    /\ version + epoch < MaxVersion
    /\ version' = version + 1
    /\ content' = Changed(S, On)
    /\ pending' = pending \cup {SnapshotEvent(content', version')}
    /\ UNCHANGED <<up, epoch, feed, wire, batch, bar>>

\* The refresh of the poll loop, whose snapshot is not sent while the daemon
\* restores its windows.
BootingRefresh(S, On) ==
    /\ up
    /\ version + epoch < MaxVersion
    /\ version' = version + 1
    /\ content' = Changed(S, On)
    /\ UNCHANGED <<up, epoch, pending, feed, wire, batch, bar>>

\* A Refresh command that finds nothing new answers and broadcasts the rows as
\* they are.
RefreshUnchanged ==
    /\ up
    /\ pending' = pending \cup {SnapshotEvent(content, version)}
    /\ UNCHANGED <<up, epoch, version, content, feed, wire, batch, bar>>

\* Mutant: a ring that grows.
BroadcastUnbounded(q, e) == Append(q, e)

\* tokio's broadcast: the oldest event gives way when the ring is full.
Broadcast(q, e) == IF Len(q) < Capacity THEN Append(q, e) ELSE Append(Tail(q), e)

\* event_tx.send, to the subscribers that listen.
SendEvent(e) ==
    /\ e \in pending
    /\ pending' = pending \ {e}
    /\ queue' = [b \in Bars |-> IF sub[b] = "listening" THEN Broadcast(queue[b], e) ELSE queue[b]]
    /\ lagged' = [b \in Bars |-> lagged[b] \/ (sub[b] = "listening" /\ Len(queue[b]) = Capacity)]
    /\ UNCHANGED <<up, epoch, version, content, sub, wire, batch, bar>>

Crash ==
    /\ up
    /\ epoch < MaxEpoch
    /\ up' = FALSE
    /\ pending' = {}
    /\ sub' = [b \in Bars |-> "none"]
    /\ queue' = [b \in Bars |-> <<>>]
    /\ lagged' = [b \in Bars |-> FALSE]
    /\ UNCHANGED <<epoch, version, content, wire, batch, bar>>

\* The new daemon has the rows that were persisted, at version 0.
Restart(On) ==
    /\ ~up
    /\ up' = TRUE
    /\ epoch' = epoch + 1
    /\ version' = 0
    /\ content' = [r \in Rows |-> [on |-> r \in On, epoch |-> epoch + 1, at |-> 0]]
    /\ UNCHANGED <<pending, feed, wire, batch, bar>>

-----------------------------------------------------------------------------
(* handle_subscriber and subscribe_loop                                      *)

\* write_all waits while the sidebar does not read.
Writable(b) == Len(wire[b]) < MaxWire

\* The refresh a new subscription does, and the snapshot it is written.  What
\* that refresh changes is not broadcast to the others.
Subscribe(b, S, On) ==
    /\ up
    /\ sub[b] = "none"
    /\ Writable(b)
    /\ S # {} => version + epoch < MaxVersion
    /\ content' = Changed(S, On)
    /\ version' = IF S = {} THEN version ELSE version + 1
    /\ sub' = [sub EXCEPT ![b] = "written"]
    /\ wire' = [wire EXCEPT ![b] = Append(@, SnapshotEvent(content', version'))]
    /\ UNCHANGED <<up, epoch, pending, queue, lagged, batch, bar>>

\* event_tx.subscribe, only after the snapshot.
Listen(b) ==
    /\ up
    /\ sub[b] = "written"
    /\ sub' = [sub EXCEPT ![b] = "listening"]
    /\ UNCHANGED <<daemon, queue, lagged, wire, batch, bar>>

Receive(b) ==
    /\ ~lagged[b]
    /\ Writable(b)
    /\ queue[b] # <<>>
    /\ wire' = [wire EXCEPT ![b] = Append(@, Head(queue[b]))]
    /\ queue' = [queue EXCEPT ![b] = Tail(@)]
    /\ UNCHANGED <<daemon, sub, lagged, batch, bar>>

\* RecvError::Lagged: a snapshot, then what the ring still holds.
ReceiveLagged(b) ==
    /\ lagged[b]
    /\ Writable(b)
    /\ wire' = [wire EXCEPT ![b] = Append(@, SnapshotEvent(content, version))]
    /\ lagged' = [lagged EXCEPT ![b] = FALSE]
    /\ UNCHANGED <<daemon, sub, queue, batch, bar>>

\* A sidebar that cannot connect is told so, once before each retry.
ConnectFails(b) ==
    /\ ~up
    /\ Down \notin {wire[b][i] : i \in DOMAIN wire[b]}
    /\ wire' = [wire EXCEPT ![b] = Append(@, Down)]
    /\ UNCHANGED <<daemon, feed, batch, bar>>

-----------------------------------------------------------------------------
(* The sidebar                                                               *)

\* max_by_key: no snapshot has a higher version, and none of the same comes later.
Best(s, i) ==
    \A j \in DOMAIN s :
       s[j].kind = "snapshot" =>
          s[j].version < s[i].version \/ (s[j].version = s[i].version /\ j <= i)

Kept(s) == {i \in DOMAIN s : s[i].kind = "snapshot" => Best(s, i)}

\* coalesce_client_events: patches first, then one snapshot.
Place(e) == CASE e.kind = "down" -> 1 [] e.kind = "patch" -> 2 [] e.kind = "snapshot" -> 3
Before(s, i, j) == Place(s[i]) < Place(s[j]) \/ (Place(s[i]) = Place(s[j]) /\ i < j)

Orders(s) ==
    {p \in [1..Cardinality(Kept(s)) -> Kept(s)] :
       \A i, j \in DOMAIN p : i < j => Before(s, p[i], p[j])}

\* drain_client_events takes what has arrived.
Drain(b) ==
    /\ batch[b] = <<>>
    /\ \E n \in 1..Len(wire[b]) : \E p \in Orders(SubSeq(wire[b], 1, n)) :
          /\ batch' = [batch EXCEPT ![b] = [k \in DOMAIN p |-> wire[b][p[k]]]]
          /\ wire' = [wire EXCEPT ![b] = SubSeq(@, n + 1, Len(@))]
    /\ UNCHANGED <<daemon, feed, bar>>

\* The next event of the batch, in apply_event.
TakeEvent(b, kind) ==
    /\ batch[b] # <<>>
    /\ Head(batch[b]).kind = kind
    /\ batch' = [batch EXCEPT ![b] = Tail(@)]

\* Mutant: no look at the version.
ApplySnapshotUngated(b) ==
    /\ TakeEvent(b, "snapshot")
    /\ LET e == Head(batch[b]) IN
       bar' = [bar EXCEPT ![b].rows = e.rows, ![b].version = e.version,
                          ![b].reconnecting = FALSE]
    /\ UNCHANGED <<daemon, feed, wire>>

\* Mutant: a snapshot of the version the sidebar has is dropped as well.
ApplySnapshotNewer(b) ==
    /\ TakeEvent(b, "snapshot")
    /\ LET e == Head(batch[b]) IN
       bar' = IF e.version > bar[b].version
              THEN [bar EXCEPT ![b].rows = e.rows, ![b].version = e.version,
                               ![b].reconnecting = FALSE]
              ELSE bar
    /\ UNCHANGED <<daemon, feed, wire>>

ApplySnapshot(b) ==
    /\ TakeEvent(b, "snapshot")
    /\ LET e == Head(batch[b]) IN
       bar' = IF e.version >= bar[b].version
              THEN [bar EXCEPT ![b].rows = e.rows, ![b].version = e.version,
                               ![b].reconnecting = FALSE]
              ELSE bar
    /\ UNCHANGED <<daemon, feed, wire>>

\* Mutant: a patch is applied whatever its version.
ApplyPatchUngated(b) ==
    /\ TakeEvent(b, "patch")
    /\ LET e == Head(batch[b]) IN
       bar' = [bar EXCEPT ![b].version = e.version,
                          ![b].rows = [r \in Rows |-> IF r \in DOMAIN e.rows THEN e.rows[r] ELSE @[r]]]
    /\ UNCHANGED <<daemon, feed, wire>>

\* A patch of a row the sidebar does not have makes it ask for a refresh.
ApplyPatch(b) ==
    /\ TakeEvent(b, "patch")
    /\ LET e     == Head(batch[b])
           known == \A r \in DOMAIN e.rows : bar[b].rows[r].on
           rows  == [r \in Rows |-> IF r \in DOMAIN e.rows THEN e.rows[r] ELSE bar[b].rows[r]]
       IN  IF e.version < bar[b].version
           THEN UNCHANGED <<bar, pending>>
           ELSE /\ bar' = [bar EXCEPT ![b].version = e.version,
                                      ![b].rows = IF known THEN rows ELSE @]
                /\ pending' = IF known \/ ~up THEN pending
                              ELSE pending \cup {SnapshotEvent(content, version)}
    /\ UNCHANGED <<up, epoch, version, content, feed, wire>>

ApplyDown(b) ==
    /\ TakeEvent(b, "down")
    /\ bar' = [bar EXCEPT ![b].reconnecting = TRUE]
    /\ UNCHANGED <<daemon, feed, wire>>

-----------------------------------------------------------------------------

ChangeStep ==
    \/ \E r \in Rows : RowPatched(r)
    \/ \E S \in SUBSET Rows \ {{}} : \E On \in SUBSET S :
          RowsChanged(S, On) \/ BootingRefresh(S, On)
    \/ RefreshUnchanged

ServeStep(b) ==
    \/ \E S \in SUBSET Rows : \E On \in SUBSET S : Subscribe(b, S, On)
    \/ Listen(b)
    \/ Receive(b)
    \/ ReceiveLagged(b)

BarStep(b) == Drain(b) \/ ApplySnapshot(b) \/ ApplyPatch(b) \/ ApplyDown(b)

Next ==
    \/ ChangeStep
    \/ \E e \in pending : SendEvent(e)
    \/ Crash
    \/ \E On \in SUBSET Rows : Restart(On)
    \/ \E b \in Bars : ServeStep(b) \/ ConnectFails(b) \/ BarStep(b)

\* The daemon's tasks and the sidebars run; nothing makes rows change.
Fairness ==
    /\ WF_vars(\E e \in pending : SendEvent(e))
    /\ \A b \in Bars : WF_vars(ServeStep(b)) /\ WF_vars(BarStep(b))

Spec == Init /\ [][Next]_vars
FairSpec == Spec /\ Fairness

-----------------------------------------------------------------------------
(* Properties                                                                *)

IsEvent(e) ==
    \/ e = Down
    \/ /\ e.kind \in {"snapshot", "patch"}
       /\ e.version \in 0..MaxVersion
       /\ DOMAIN e.rows \subseteq Rows
       /\ \A r \in DOMAIN e.rows : e.rows[r] \in Cell

\* Every variable keeps its type; the ring is not larger than its capacity.
TypeOK ==
    /\ up \in BOOLEAN
    /\ epoch \in 0..MaxEpoch
    /\ version \in 0..MaxVersion
    /\ content \in Content
    /\ \A e \in pending : IsEvent(e)
    /\ sub \in [Bars -> {"none", "written", "listening"}]
    /\ lagged \in [Bars -> BOOLEAN]
    /\ \A b \in Bars :
          /\ Len(queue[b]) <= Capacity
          /\ \A i \in DOMAIN queue[b] : IsEvent(queue[b][i])
          /\ \A i \in DOMAIN wire[b] : IsEvent(wire[b][i])
          /\ \A i \in DOMAIN batch[b] : IsEvent(batch[b][i])
          /\ bar[b].version \in 0..MaxVersion
          /\ bar[b].rows \in Content

\* However events overtake each other, are dropped by the ring or reordered in
\* a batch, a sidebar never replaces what it shows of a row by something older
\* from the same daemon.
RowsNeverRegress ==
    [][\A b \in Bars, r \in Rows :
          bar'[b].rows[r].epoch = bar[b].rows[r].epoch =>
             bar'[b].rows[r].at >= bar[b].rows[r].at]_vars

\* A snapshot of the rows as they are that a subscriber is about to receive
\* brings the sidebar up to date, whatever it missed before, unless the rows
\* change again or the daemon dies.  This is so in the first daemon only: see
\* ReconnectingOnlyWhileDown for what a restart does to the versions.
SnapshotHeals ==
    \A b \in Bars, v \in 1..MaxVersion :
       (/\ up /\ epoch = 0 /\ version = v
        /\ SnapshotEvent(content, v) \in {queue[b][i] : i \in DOMAIN queue[b]})
          ~> (bar[b].rows = content \/ version # v \/ ~up)

\* What App.reconnecting's comment says: "True while the subscribe loop is
\* reconnecting after a socket drop".  A sidebar that listens and has applied
\* all it was sent is not reconnecting.
ReconnectingOnlyWhileDown ==
    \A b \in Bars :
       bar[b].reconnecting =>
          \/ sub[b] # "listening"
          \/ wire[b] # <<>> \/ queue[b] # <<>> \/ batch[b] # <<>>

\* What coalesce_client_events' comment says: patches come first so that none
\* is dropped "via version gating" in a drain batch.  No patch stands behind one
\* with a higher version.
PatchesOfABatchApplied ==
    \A b \in Bars : \A i, j \in DOMAIN batch[b] :
       i < j /\ batch[b][i].kind = "patch" /\ batch[b][j].kind = "patch" =>
          batch[b][i].version <= batch[b][j].version
===============================================================================
