----------------------------- MODULE AgentBinding -----------------------------
(***************************************************************************)
(* Which agent session a row of the daemon stands for (daemon/state        *)
(* identity.rs, notify.rs, merge.rs, mod.rs; daemon/tmux/poll.rs;          *)
(* session/managed.rs).                                                    *)
(*                                                                         *)
(* A window is launched with one agent, but every process in its pane      *)
(* inherits the pane and the sessions id: an agent started by the agent,   *)
(* a subagent, a second thread all send hooks for the same row.  The       *)
(* daemon tells their sessions apart by the files an agent writes, which   *)
(* come after its first hooks.  What was bound is kept in four places: the *)
(* row, the managed record, the manifest and the env file of the session.  *)
(***************************************************************************)
EXTENDS Naturals, Sequences, FiniteSets

CONSTANTS
    NumWindows,        \* windows 1..NumWindows of the managed session
    Grok, Codex, Sub,  \* agent sessions; Sub: subagents of a session of Grok
    None,              \* no session
    MaxBegun,          \* bound: sessions that begin
    MaxHooks,          \* bound: hooks
    MaxForgets         \* bound: daemons that start without their rows

Window == 1..NumWindows
Sid    == Grok \cup Codex \cup Sub
Agent  == {"grok", "codex"}
AgentOf(s) == IF s \in Codex THEN "codex" ELSE "grok"

\* A bound: subagents are of one session.
Parent == CHOOSE g \in Grok : TRUE

NoRow == [sid |-> None, agent |-> "none"]

VARIABLES
    kind,    \* the agent each window was launched with
    home,    \* the window a session runs in, or 0: it never begins
    known,   \* sessions whose files are on disk (a bound: all at once)
    row,     \* StateInner.sessions: agent_session_id and managed_agent
    record,  \* agent_session_id of the managed record
    saved,   \* agent_session_id of the manifest entry
    queue,   \* patches that wait for the manifest
    env,     \* the env files, oldest first: the pane a session is in, and its agent
    effects, \* hooks applied to a row whose env file is still to be written
    touched, \* rows a hook has changed since the poll's copy
    poll,    \* refresh_from_tmux_inner
    count    \* bounded: hooks, forgets; sessions that sent a hook before a file
vars == <<kind, home, known, row, record, saved, queue, env, effects, touched, poll, count>>

-----------------------------------------------------------------------------
(* Whose session is it? *)

\* agent_session_matches_expected_agent: unknown sessions pass.
Matches(s, agent) == s \in known => AgentOf(s) = agent
Filter(s, agent)  == IF s # None /\ Matches(s, agent) THEN s ELSE None
Or(s, t) == IF s # None THEN s ELSE t

\* parent_session_id_for_subagent
KnownSub(s) == s \in Sub /\ s \in known

TargetsBlind(w, event, s) == row[w].sid \in {None, s} \/ row[w].agent = AgentOf(s) \/ event \in {"stop", "tool"}

\* hook_targets_session; `row` exists.
Targets(w, event, s) ==
    /\ KnownSub(s) => row[w].sid # Parent /\ event \notin {"session_start", "prompt"}
    /\ \/ row[w].sid \in {None, s}
       \/ event \in {"session_start", "prompt"} /\ row[w].agent = AgentOf(s)
       \/ event \in {"stop", "tool"}

\* session_id_from_index: the youngest env file that names the pane.
FromIndex(w) ==
    LET Youngest(i) == /\ env[i].window = w
                       /\ \A j \in DOMAIN env : env[j].window = w => j <= i
    IN  IF \E i \in DOMAIN env : Youngest(i)
        THEN env[CHOOSE i \in DOMAIN env : Youngest(i)].sid ELSE None

\* Where the file of a session is among the others, and these.
EnvOf(s) == {i \in DOMAIN env : env[i].sid = s}
EnvWithout(s) ==
    LET k == CHOOSE i \in EnvOf(s) : TRUE
    IN  IF EnvOf(s) = {} THEN env
        ELSE [i \in 1..Len(env) - 1 |-> IF i < k THEN env[i] ELSE env[i + 1]]

\* write_session_env_tmux: a file that says the same keeps its age.
EnvWritten(s, w, agent) ==
    LET e == [sid |-> s, window |-> w, agent |-> agent]
    IN  env' = IF \E i \in DOMAIN env : env[i] = e THEN env ELSE Append(EnvWithout(s), e)

-----------------------------------------------------------------------------
(* Windows with their managed records, and the sessions that run in them:  *)
(* threads of the agent, its subagents, other agents run by it. *)

Idle == [at |-> "idle", left |-> <<>>, prior |-> <<>>, fresh |-> <<>>, loaded |-> None,
         merged |-> <<>>]

Init ==
    /\ kind \in [Window -> Agent]
    /\ home \in [Sid -> {0} \cup Window]
    /\ \A s \in Sub : home[s] \in {0, home[Parent]}
    /\ Cardinality({s \in Sid : home[s] # 0}) <= MaxBegun
    /\ known = {}
    /\ row = [w \in Window |-> NoRow]
    /\ record = [w \in Window |-> None]
    /\ saved = [w \in Window |-> None]
    /\ queue = [w \in Window |-> None]
    /\ env = <<>>
    /\ effects = {}
    /\ touched = {}
    /\ poll = Idle
    /\ count = [hooks |-> 0, forgets |-> 0, early |-> {}]

\* The agent writes the first file of a session.
Written(s) ==
    /\ home[s] # 0 /\ s \notin known
    /\ known' = known \cup {s}
    /\ UNCHANGED <<kind, home, row, record, saved, queue, env, effects, touched, poll, count>>

-----------------------------------------------------------------------------
(* Hooks. *)

\* update_managed_agent_session_id
Recorded(w, s) ==
    IF KnownSub(s) \/ ~Matches(s, kind[w]) THEN record[w] ELSE s

\* handle_notify_inner under the write lock.  A hook that apply_thread_hook
\* ignores has changed the row and the record all the same.
Hook(w, s, event) ==
    /\ home[s] = w /\ count.hooks < MaxHooks
    /\ IF row[w] = NoRow THEN event \in {"session_start", "prompt"} ELSE Targets(w, event, s)
    /\ row' = [row EXCEPT ![w] =
          [sid |-> IF row[w] = NoRow \/ event # "tool" THEN s ELSE @.sid, agent |-> AgentOf(s)]]
    /\ record' = [record EXCEPT ![w] = Recorded(w, s)]
    /\ touched' = IF poll.at = "idle" THEN {} ELSE touched \cup {w}
    /\ \/ effects' = effects \cup {[window |-> w, sid |-> s]}
       \/ event # "prompt" /\ UNCHANGED effects
    /\ count' = [count EXCEPT !.hooks = @ + 1, !.early = @ \cup ({s} \ known)]
    /\ UNCHANGED <<kind, home, known, saved, queue, env, poll>>

\* apply_notify_side_effects, then enqueue
HookEffects ==
    /\ \E e \in effects :
          /\ effects' = effects \ {e}
          /\ EnvWritten(e.sid, e.window, AgentOf(e.sid))
          /\ queue' = [queue EXCEPT ![e.window] = e.sid]
    /\ UNCHANGED <<kind, home, known, row, record, saved, touched, poll, count>>

\* apply_sync_patch_to_entry
Flush(w) ==
    /\ queue[w] # None
    /\ saved' = [saved EXCEPT ![w] = IF KnownSub(queue[w]) THEN @ ELSE queue[w]]
    /\ queue' = [queue EXCEPT ![w] = None]
    /\ UNCHANGED <<kind, home, known, row, record, env, effects, touched, poll, count>>

-----------------------------------------------------------------------------
(* The poll. *)

PollCopies ==
    /\ poll.at = "idle"
    /\ poll' = [Idle EXCEPT !.at = "poll", !.prior = row]
    /\ touched' = {}
    /\ UNCHANGED <<kind, home, known, row, record, saved, queue, env, effects, count>>

\* poll_tmux, one window: the record, the manifest, the env files; for Codex
\* the newest thread of the directory that this poll has not given away.
Bound(w) ==
    LET stored == Or(Filter(record[w], kind[w]), saved[w])
    IN  Filter(Or(stored, FromIndex(w)), kind[w])

Inferred(w, assigned) ==
    IF Bound(w) # None THEN {Bound(w)}
    ELSE IF kind[w] = "codex" /\ (known \cap Codex) \ assigned # {}
         THEN (known \cap Codex) \ assigned ELSE {None}

\* session_env_is_live_for_pane, unless the record names the session: the
\* panes are as old as their windows, older than any env file.
Alive(w, s) == IF s = record[w] \/ EnvOf(s) # {} THEN s ELSE None

\* The windows are polled in the order of their index.
Polled ==
    {f \in [Window -> Sid \cup {None}] :
        \A w \in Window : \E s \in Inferred(w, {f[v] : v \in {u \in Window : u < w}}) :
            f[w] = Alive(w, s)}

PollTmux ==
    /\ poll.at = "poll"
    /\ \E f \in Polled :
          poll' = [poll EXCEPT !.at = "load", !.fresh = f, !.left = [w \in Window |-> w],
                               !.merged = [w \in Window |-> NoRow]]
    /\ UNCHANGED <<kind, home, known, row, record, saved, queue, env, effects, touched, count>>

\* compute_refresh, one window: repair_session_managed_identity loads the record,
PollLoads ==
    /\ poll.at = "load" /\ poll.left # <<>>
    /\ poll' = [poll EXCEPT !.at = "merge", !.loaded = record[Head(poll.left)]]
    /\ UNCHANGED <<kind, home, known, row, record, saved, queue, env, effects, touched, count>>

MergedUnfiltered(w, fresh, rec) == Or(fresh, Or(rec, poll.prior[w].sid))

\* merge_session_refresh_state with hydrate_agent_binding_from_managed_record,
\* or hydrate_session_from_manifest for a row that was not there.
Merged(w, fresh, rec) ==
    IF poll.prior[w] # NoRow
    THEN Or(Filter(Or(fresh, Filter(rec, kind[w])), kind[w]), Filter(poll.prior[w].sid, kind[w]))
    ELSE IF fresh = None /\ ~KnownSub(saved[w]) THEN saved[w] ELSE fresh

RepairedNever(w, bad, rec) == {rec}

\* clear_managed_agent_session_id: a session the record had when it was read;
\* a hook that has put in another one since may be overwritten.
Repaired(w, bad, rec) ==
    IF poll.loaded \in bad THEN (IF rec = poll.loaded THEN {None} ELSE {rec, None})
    ELSE IF rec \in bad THEN {None} ELSE {rec}

\* ... and scrubs what is known to be another agent's; the row is merged, and
\* the env file moved to the window.
PollMerges ==
    /\ poll.at = "merge"
    /\ LET w     == Head(poll.left)
           fresh == Filter(poll.fresh[w], kind[w])
           bad   == {s \in {poll.loaded, poll.fresh[w]} : s # None /\ ~Matches(s, kind[w])}
       IN  \E rec \in Repaired(w, bad, record[w]) :
             LET s == Merged(w, fresh, rec)
             IN  /\ record' = [record EXCEPT ![w] = rec]
                 /\ poll' = [poll EXCEPT !.at = "load", !.left = Tail(@), !.loaded = None,
                                         !.merged[w] = [sid |-> s, agent |-> kind[w]]]
                 /\ IF s # None /\ ~\E i \in EnvOf(s) : env[i].window = w
                    THEN EnvWritten(s, w, kind[w]) ELSE UNCHANGED env
    /\ UNCHANGED <<kind, home, known, row, saved, queue, effects, touched, count>>

\* The merged rows go in where no hook has changed the row.
PollApplies ==
    /\ poll.at = "load" /\ poll.left = <<>>
    /\ row' = [w \in Window |->
          IF w \in DOMAIN poll.merged /\ w \notin touched THEN poll.merged[w] ELSE row[w]]
    /\ poll' = Idle /\ touched' = {}
    /\ UNCHANGED <<kind, home, known, record, saved, queue, env, effects, count>>

\* The daemon dies and starts without its rows: sessionsd.json did not parse.
Forget ==
    /\ count.forgets < MaxForgets
    /\ count' = [count EXCEPT !.forgets = @ + 1]
    /\ row' = [w \in Window |-> NoRow]
    /\ queue' = [w \in Window |-> None]
    /\ effects' = {} /\ touched' = {} /\ poll' = Idle
    /\ UNCHANGED <<kind, home, known, record, saved, env>>

Poll == PollCopies \/ PollTmux \/ PollLoads \/ PollMerges \/ PollApplies

Next ==
    \/ HookEffects \/ Poll \/ Forget
    \/ \E s \in Sid : Written(s)
    \/ \E w \in Window : Flush(w)
    \/ \E w \in Window, s \in Sid, event \in {"session_start", "prompt", "tool", "stop"} :
          Hook(w, s, event)

\* The poll loop goes on, and agents write the sessions they have begun.
Fairness == WF_vars(Poll) /\ WF_vars(HookEffects) /\ \A s \in Sid : WF_vars(Written(s))

Spec == Init /\ [][Next]_vars /\ Fairness

-----------------------------------------------------------------------------
(* Properties. *)

TypeOK ==
    /\ kind \in [Window -> Agent]
    /\ known \subseteq {s \in Sid : home[s] # 0}
    /\ row \in [Window -> [sid : Sid \cup {None}, agent : Agent \cup {"none"}]]
    /\ {record[w] : w \in Window} \cup {saved[w] : w \in Window} \subseteq Sid \cup {None}
    /\ \A i, j \in DOMAIN env : env[i].sid = env[j].sid => i = j
    /\ poll.at # "idle" => poll.prior \in [Window -> [sid : Sid \cup {None}, agent : Agent \cup {"none"}]]

\* merge_session_refresh_state: a poll that merges a row it has seen never
\* leaves it bound to a session known to be another agent's, whatever the
\* record, the manifest, an env file or the earlier row say.
PollDropsForeign ==
    [][\A w \in Window :
        poll.at = "merge" /\ Head(poll.left) = w /\ poll'.at = "load" /\ poll.prior[w] # NoRow
        => LET s == poll'.merged[w].sid IN s # None => Matches(s, kind[w])]_vars

\* repair_session_managed_identity: once the hooks have stopped, no row and no
\* record stays with another agent's session, and the row has its own agent.
OwnAgent(w) ==
    /\ row[w] # NoRow => row[w].agent = kind[w]
    /\ row[w].sid # None => AgentOf(row[w].sid) = kind[w]
    /\ record[w] # None => AgentOf(record[w]) = kind[w]
Heals == <>[](\A w \in Window : OwnAgent(w))

\* hook_targets_session, update_managed_agent_session_id, apply_sync_patch: a
\* subagent that was known as one before its first hook never takes the row of
\* its parent, not by a hook and not through the record, the manifest or an env
\* file that a poll reads, where no agent of another kind has run.
ParentKeepsRow ==
    [][\A w \in Window, s \in Sub :
        row[w].sid = Parent /\ row'[w].sid = s
        => s \in count'.early \/ \E c \in Codex : home[c] = w]_vars

\* Neither a poll nor a known subagent binds a row to another's session.
RowKeepsItsAgent == PollDropsForeign /\ ParentKeepsRow

-----------------------------------------------------------------------------
(* What does not hold; each has a configuration that shows it. *)

\* "Don't let one agent's hooks rotate away a different agent's already-bound
\* session in the same pane": the end of a nested agent's turn does.
ForeignNeverRotates ==
    [][\A w \in Window, s \in Sid :
        /\ row[w].sid # None /\ AgentOf(row[w].sid) = row[w].agent /\ AgentOf(s) # row[w].agent
        /\ count'.hooks > count.hooks => row'[w].sid # s]_vars

\* Two rows do not stand for one session: a Codex window that has none yet is
\* given the thread another window is bound to.
ShownOnce ==
    \A v, w \in Window : v # w /\ row[v].sid # None => row[v].sid # row[w].sid

\* A row is never bound to a known subagent: the stop of one binds an empty row.
SubagentNeverBound ==
    [][\A w \in Window : row'[w].sid # row[w].sid => ~KnownSub(row'[w].sid)]_vars

\* ... also when its first hook comes before its files: it goes into the record,
\* which is never cleared of a session of the same agent.
ParentAlwaysKeepsRow ==
    [][\A w \in Window, s \in Sub :
        row[w].sid = Parent /\ KnownSub(s) => row'[w].sid # s]_vars

\* ... and beside an agent of another kind: its hooks and the scrub of a poll
\* leave the record empty, and the poll takes the youngest env file.
ParentKeepsRowBesideForeign ==
    [][\A w \in Window, s \in Sub :
        row[w].sid = Parent /\ row'[w].sid = s => s \in count'.early]_vars

\* What a hook has put into the record stays: the scrub of a poll may write
\* back a record it has read before.
RecordKept ==
    [][\A w \in Window :
        poll.at = "merge" /\ record[w] # None /\ Matches(record[w], kind[w])
        => record'[w] # None]_vars
=============================================================================
