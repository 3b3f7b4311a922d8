------------------------------ MODULE NotifySpool ------------------------------
(***************************************************************************)
(* How a hook reaches the daemon's state (notify/mod.rs, daemon/spool.rs,  *)
(* daemon/server.rs).  Every hook is a `sessions notify` process: it       *)
(* writes its message to the socket, or, when nobody listens, creates a    *)
(* file in the spool and then writes the message to it.  The daemon drains *)
(* the spool before it serves its first connection and every two seconds   *)
(* after: it lists the files, reads them, quarantines what it cannot       *)
(* parse, and applies and removes the others one by one.  The rows are     *)
(* written to disk by another task, some time later.                       *)
(*                                                                         *)
(* The daemon can die at any step.  All hooks are of one pane, whose row   *)
(* follows module TurnState.                                               *)
(***************************************************************************)
EXTENDS TurnState, Sequences, FiniteSets

CONSTANTS
    Events,     \* hooks the agent sends
    MaxHooks,   \* bound: hooks sent
    MaxCrashes, \* bound: deaths of the daemon
    MaxFails    \* bound: removals of a spool file that fail

ASSUME NotifySpoolAssumption ==
    /\ Events \subseteq HookEvent
    /\ MaxHooks \in Nat \ {0}
    /\ MaxCrashes \in Nat
    /\ MaxFails \in Nat

Hooks == 1..MaxHooks

VARIABLES
    fired,      \* hooks the agent has sent so far
    event,      \* what each of them says
    stamp,      \* the millisecond in the name of its spool file
    proc,       \* how far its notify process is
    conn,       \* hooks the socket took, not handled yet
    files,      \* the spool: the hook of each .json file
    full,       \* the hooks whose message is in their file
    invalid,    \* the hooks whose file was quarantined
    pc,         \* the task that drains the spool
    serving,    \* the daemon accepts connections
    list,       \* files listed and not read yet
    batch,      \* messages read and not applied and removed yet
    row,        \* the row in memory
    saved,      \* the row in sessionsd.json
    handled,    \* hooks handle_notify was called for
    accepted,   \* hooks that drain_spool has returned as messages
    crashes, fails

process == <<fired, event, stamp, proc>>
spool   == <<files, full, invalid>>
drain   == <<pc, list, batch, accepted>>
bounds  == <<crashes, fails>>
vars    == <<process, conn, spool, drain, serving, row, saved, handled, bounds>>

NewRow == [state |-> "Idle", thread |-> Weak, completed |-> None,
           completedAt |-> 0, messagedAt |-> 1, active |-> FALSE]

Init ==
    /\ fired = 0
    /\ event = [h \in Hooks |-> "prompt"]
    /\ stamp = [h \in Hooks |-> 0]
    /\ proc = [h \in Hooks |-> "none"]
    /\ conn = {}
    /\ files = {}
    /\ full = {}
    /\ invalid = {}
    /\ pc = "list"
    /\ serving = FALSE
    /\ list = <<>>
    /\ batch = <<>>
    /\ row = NewRow
    /\ saved = NewRow
    /\ handled = {}
    /\ accepted = {}
    /\ crashes = 0
    /\ fails = 0

Up == pc # "down"

-----------------------------------------------------------------------------
(* sessions notify                                                           *)

\* The agent runs the next hook, in the same millisecond as the last one or
\* later; it does not wait for it.
Fire(e, later) ==
    /\ fired < MaxHooks
    /\ fired' = fired + 1
    /\ event' = [event EXCEPT ![fired + 1] = e]
    /\ stamp' = [stamp EXCEPT ![fired + 1] =
                    (IF fired = 0 THEN 1 ELSE stamp[fired]) + (IF later THEN 1 ELSE 0)]
    /\ proc' = [proc EXCEPT ![fired + 1] = "send"]
    /\ UNCHANGED <<conn, spool, drain, serving, row, saved, handled, bounds>>

\* Mutant: a message that was sent is spooled as well.
SendSpoolsToo(h) ==
    /\ proc[h] = "send"
    /\ proc' = [proc EXCEPT ![h] = "create"]
    /\ conn' = IF Up THEN conn \cup {h} ELSE conn
    /\ UNCHANGED <<fired, event, stamp, spool, drain, serving, row, saved, handled, bounds>>

\* try_send: the socket is bound before the spool is drained.
Send(h) ==
    /\ proc[h] = "send"
    /\ proc' = [proc EXCEPT ![h] = IF Up THEN "sent" ELSE "create"]
    /\ conn' = IF Up THEN conn \cup {h} ELSE conn
    /\ UNCHANGED <<fired, event, stamp, spool, drain, serving, row, saved, handled, bounds>>

\* spool_message: the name is the millisecond and the agent's session, and
\* create_new refuses a name that is taken.
Create(h) ==
    /\ proc[h] = "create"
    /\ IF \E g \in files : stamp[g] = stamp[h]
       THEN /\ proc' = [proc EXCEPT ![h] = "failed"]
            /\ UNCHANGED files
       ELSE /\ proc' = [proc EXCEPT ![h] = "write"]
            /\ files' = files \cup {h}
    /\ UNCHANGED <<fired, event, stamp, conn, full, invalid, drain, serving,
                   row, saved, handled, bounds>>

\* The message goes to the open file, whatever its name is by now.
Write(h) ==
    /\ proc[h] = "write"
    /\ proc' = [proc EXCEPT ![h] = "deferred"]
    /\ full' = full \cup {h}
    /\ UNCHANGED <<fired, event, stamp, conn, files, invalid, drain, serving,
                   row, saved, handled, bounds>>

\* The agent gives up on a hook before it is done.
Kill(h) ==
    /\ proc[h] \in {"send", "create", "write"}
    /\ proc' = [proc EXCEPT ![h] = "killed"]
    /\ UNCHANGED <<fired, event, stamp, conn, spool, drain, serving, row, saved, handled, bounds>>

-----------------------------------------------------------------------------
(* The daemon                                                                *)

\* handle_notify.
Handle(h) ==
    /\ row' = IF HookApplies(row, event[h]) THEN ApplyThreadHook(row, event[h], fired + 1)
                                            ELSE row
    /\ handled' = handled \cup {h}

\* A connection that was accepted, in a task of its own.
HandleConnection(h) ==
    /\ serving
    /\ h \in conn
    /\ conn' = conn \ {h}
    /\ Handle(h)
    /\ UNCHANGED <<process, spool, drain, serving, saved, bounds>>

Sorted(s) == \A i, j \in DOMAIN s : i < j => stamp[s[i]] <= stamp[s[j]]

\* The files as sequences in the order of their names.
Listings ==
    {s \in [1..Cardinality(files) -> files] :
        Sorted(s) /\ \A f \in files : \E i \in DOMAIN s : s[i] = f}

\* drain_spool: the directory is listed,
DrainList ==
    /\ pc = "list"
    /\ list' \in Listings
    /\ pc' = "read"
    /\ UNCHANGED <<process, conn, spool, batch, accepted, serving, row, saved, handled, bounds>>

\* Mutant: a file goes as soon as it is read.
DrainReadAcks ==
    /\ pc = "read"
    /\ list # <<>>
    /\ IF Head(list) \in full
       THEN /\ batch' = Append(batch, Head(list))
            /\ accepted' = accepted \cup {Head(list)}
            /\ files' = files \ {Head(list)}
            /\ list' = Tail(list)
            /\ UNCHANGED pc
       ELSE /\ pc' = "quarantine"
            /\ UNCHANGED <<batch, accepted, list, files>>
    /\ UNCHANGED <<process, conn, full, invalid, serving, row, saved, handled, bounds>>

\* then each file is read; one that has no message yet is invalid,
DrainRead ==
    /\ pc = "read"
    /\ list # <<>>
    /\ IF Head(list) \in full
       THEN /\ batch' = Append(batch, Head(list))
            /\ accepted' = accepted \cup {Head(list)}
            /\ list' = Tail(list)
            /\ UNCHANGED pc
       ELSE /\ pc' = "quarantine"
            /\ UNCHANGED <<batch, accepted, list>>
    /\ UNCHANGED <<process, conn, spool, serving, row, saved, handled, bounds>>

\* and gets another name, or goes when that name is taken.
DrainQuarantine ==
    /\ pc = "quarantine"
    /\ files' = files \ {Head(list)}
    /\ invalid' = IF \E g \in invalid : stamp[g] = stamp[Head(list)]
                  THEN invalid ELSE invalid \cup {Head(list)}
    /\ list' = Tail(list)
    /\ pc' = "read"
    /\ UNCHANGED <<process, conn, full, batch, accepted, serving, row, saved, handled, bounds>>

\* The messages are applied
DrainApply ==
    /\ pc = "read"
    /\ list = <<>>
    /\ batch # <<>>
    /\ Handle(Head(batch))
    /\ pc' = "ack"
    /\ UNCHANGED <<process, conn, spool, list, batch, accepted, serving, saved, bounds>>

\* and their files removed; a file that stays is read again in the next round.
DrainAck(removed) ==
    /\ pc = "ack"
    /\ removed \/ fails < MaxFails
    /\ files' = IF removed THEN files \ {Head(batch)} ELSE files
    /\ fails' = IF removed THEN fails ELSE fails + 1
    /\ batch' = Tail(batch)
    /\ pc' = "read"
    /\ UNCHANGED <<process, conn, full, invalid, list, accepted, serving, row, saved, handled, crashes>>

\* The end of a round; after the first one the daemon serves.
DrainEnds ==
    /\ pc = "read"
    /\ list = <<>>
    /\ batch = <<>>
    /\ pc' = "list"
    /\ serving' = TRUE
    /\ UNCHANGED <<process, conn, spool, list, batch, accepted, row, saved, handled, bounds>>

\* persist_loop.
Persist ==
    /\ serving
    /\ saved # row
    /\ saved' = row
    /\ UNCHANGED <<process, conn, spool, drain, serving, row, handled, bounds>>

Crash ==
    /\ Up
    /\ crashes < MaxCrashes
    /\ crashes' = crashes + 1
    /\ pc' = "down"
    /\ serving' = FALSE
    /\ list' = <<>>
    /\ batch' = <<>>
    /\ conn' = {}
    /\ UNCHANGED <<process, spool, accepted, row, saved, handled, fails>>

Restart ==
    /\ ~Up
    /\ pc' = "list"
    /\ row' = saved
    /\ UNCHANGED <<process, conn, spool, list, batch, accepted, serving, saved, handled, bounds>>

-----------------------------------------------------------------------------

NotifyStep == \E h \in Hooks : Send(h) \/ Create(h) \/ Write(h) \/ Kill(h)

DrainStep == DrainList \/ DrainRead \/ DrainQuarantine \/ DrainApply \/ DrainEnds
             \/ \E removed \in BOOLEAN : DrainAck(removed)

Next ==
    \/ \E e \in Events, later \in BOOLEAN : Fire(e, later)
    \/ NotifyStep
    \/ \E h \in conn : HandleConnection(h)
    \/ DrainStep
    \/ Persist
    \/ Crash
    \/ Restart

\* Processes and tasks run, and the next command starts a daemon that is down.
Fairness ==
    /\ WF_vars(NotifyStep)
    /\ WF_vars(DrainStep)
    /\ WF_vars(Restart)

Spec == Init /\ [][Next]_vars
FairSpec == Spec /\ Fairness

-----------------------------------------------------------------------------
(* Properties                                                                *)

\* Every variable keeps its type, and what the drain has listed or
\* read is in the spool: nobody else takes files out of it.
TypeOK ==
    /\ fired \in 0..MaxHooks
    /\ event \in [Hooks -> HookEvent]
    /\ stamp \in [Hooks -> 0..MaxHooks + 1]
    /\ proc \in [Hooks -> {"none", "send", "sent", "create", "write", "deferred",
                           "failed", "killed"}]
    /\ conn \subseteq Hooks
    /\ files \subseteq Hooks /\ full \subseteq Hooks /\ invalid \subseteq Hooks
    /\ pc \in {"down", "list", "read", "quarantine", "ack"}
    /\ serving \in BOOLEAN
    /\ \A i \in DOMAIN list : list[i] \in files
    /\ \A i \in DOMAIN batch : batch[i] \in files \cap full
    /\ row \in RowType /\ saved \in RowType
    /\ handled \subseteq Hooks
    /\ accepted \subseteq Hooks
    /\ crashes \in 0..MaxCrashes /\ fails \in 0..MaxFails

Delivery == INSTANCE AtLeastOnce WITH
    Messages <- Hooks, accepted <- accepted, delivered <- handled \cap accepted

\* The spool delivers what it accepted, as AtLeastOnce says: whatever crashes
\* and failed removals there are, a message it has returned once is handled.
DeliversAtLeastOnce == Delivery!Spec

\* A message that was read is in the spool until it has been handled.
AcceptedNotLost == accepted \subseteq (files \cap full) \cup handled

\* What drain_spool's comment says of the files it quarantines: "they can never
\* be applied".
QuarantinedNeverValid == invalid \cap full = {}

\* What ack's comment asks of handle_notify: it "must remain idempotent".  A
\* hook that is delivered again leaves the state of the row.
RedeliveryIdempotent ==
    [][\A h \in handled :
          pc = "read" /\ pc' = "ack" /\ Head(batch) = h => row'.state = row.state]_vars
===============================================================================
