------------------------------- MODULE AgentLogs -------------------------------
(***************************************************************************)
(* How a poll learns from the files of an agent where its last turn is:    *)
(* agents/{claude,codex,grok,opencode}, and agents/parse_cache.rs, which   *)
(* keeps what has been parsed of a Codex rollout for as long as the file   *)
(* has the same length and time.                                           *)
(*                                                                         *)
(* One session of one agent appends to its log while refreshes of the      *)
(* daemon, which overlap, read it.  A line is its kind, its time and what  *)
(* tells lines of a kind apart; text is left out.  Times are ticks, 0 is   *)
(* None; Codex writes seconds of Second ticks.  The agents are external:   *)
(* they write the lines the adapters look for.  A line is seen half for a  *)
(* while (torn), perhaps up to the middle of a character, except in        *)
(* OpenCode's database.                                                    *)
(***************************************************************************)
EXTENDS Naturals, Sequences, FiniteSets

CONSTANTS
    Tools,    \* the agents, of {"claude", "codex", "grok", "opencode"}
    Pollers,  \* refreshes that overlap
    Second,   \* ticks in a second
    TailLines, \* lines in the 64 KiB that are read of a Grok log
    MaxTurns, MaxWork, MaxNow  \* bounds: turns, other lines, ticks

VARIABLES
    tool,    \* the agent
    log,     \* its lines
    torn,    \* the last line is all there ("no"), ends early, or inside a character
    split,   \* the 64 KiB begin inside a character
    now,     \* the clock
    cache,   \* parse_cache: the newest entry of the file; no older one can be
             \* hit, because a log only grows
    poll,    \* for each refresh, where it is and what it has read
    said     \* the answer just given, if one was, and how the turn stood

file    == <<tool, log, torn, split>>
logVars == <<file, now, cache, poll, said>>

Turns == INSTANCE TurnState WITH Title <- {"title"}, Weak <- "weak", None <- "none"

Line == [k : {"start", "end", "phase", "bare"}, at : Nat,
         what : {"plain", "hidden", "completed", "cancelled", "Working", "Approval", "idle"}]

NoAnswer == [started |-> 0, completed |-> 0, phase |-> "Working"]

-----------------------------------------------------------------------------
(* The adapters *)

\* The last of the lines of one kind.
Latest(lines) ==
    IF lines = <<>> THEN [at |-> 0, what |-> "Working"] ELSE lines[Len(lines)]

\* user_prompt_text: for Claude a prompt with an image, a command or a
\* greeting is none.  In the other logs a line of its own starts a turn.
IsPrompt(l) == l.k = "start" /\ ~(tool = "claude" /\ l.what = "hidden")

\* Mutant: any end of a turn is taken for its completion.
IsAnyEnd(l) == l.k = "end"

\* end_turn; task_complete; outcome completed; finish is stop or end_turn.
IsEnd(l) == l.k = "end" /\ l.what = "completed"

\* phase_is_active, whose phase it is left open.
IsPhase(l) == tool = "grok" /\ l.k = "phase" /\ l.what # "idle"

\* parse_rollout_ts: Codex counts seconds.
Stamp(at) == IF tool = "codex" THEN at \div Second ELSE at

Boundary(lines) ==
    [started   |-> Stamp(Latest(SelectSeq(lines, IsPrompt)).at),
     completed |-> Stamp(Latest(SelectSeq(lines, IsEnd)).at),
     phase     |-> Latest(SelectSeq(lines, IsPhase)).what]

\* The lines that parse.
Whole == IF torn = "no" THEN log ELSE SubSeq(log, 1, Len(log) - 1)

Has(lines, from, to, kind) == \E i \in from..to : lines[i].k = kind

\* `?` in parse_codex_rollout_impl: an event without payload ends it without an
\* answer.  The first loop meets the event before the first prompt, the second
\* one unless a start and an end come after it.
Aborts(lines) ==
    \E i \in DOMAIN lines :
        /\ lines[i].k = "bare"
        /\ \/ ~Has(lines, 1, i, "start")
           \/ ~Has(lines, i, Len(lines), "start")
           \/ ~\E j \in i..Len(lines) : IsEnd(lines[j])

\* read_to_string fails as a whole on half a character.
Unread == torn = "char" \/ (tool = "codex" /\ Aborts(Whole))

\* read_tail_bytes: of a long Grok log the end is read, or nothing.
Cut == tool = "grok" /\ Len(log) > TailLines

Parsed ==
    IF Unread \/ split THEN NoAnswer
    ELSE IF Cut THEN Boundary(SubSeq(Whole, Len(log) - TailLines + 1, Len(Whole)))
    ELSE Boundary(Whole)

-----------------------------------------------------------------------------
(* What is the case *)

Marks(lines) == SelectSeq(lines, LAMBDA l : l.k \in {"start", "end"})

\* How the last turn stands, by all the lines.
Standing(lines) ==
    IF Marks(lines) = <<>> THEN "none" ELSE Marks(lines)[Len(Marks(lines))].what

Running(lines) == Standing(lines) \in {"plain", "hidden"}

\* A Codex turn that is over within the second it began in.
Short ==
    /\ tool = "codex" /\ Standing(Whole) = "completed"
    /\ LET n == Len(Marks(Whole))
       IN  Marks(Whole)[n - 1].at \div Second = Marks(Whole)[n].at \div Second

Truth == IF Short THEN "short" ELSE Standing(Whole)

\* What a poll says of a turn is right.
IsTrueOf(b, truth) ==
    /\ Turns!TurnIsComplete(b) =>
          truth = "completed" \/ (tool = "claude" /\ truth \in {"hidden", "cancelled"})
    /\ Turns!LiveActivity(b) => truth \in {"plain", "hidden", "cancelled", "short"}

\* What there is to say of it is said, if the log can be read.
IsAllOf(b, truth) ==
    /\ truth = "completed" => Turns!TurnIsComplete(b) \/ split \/ Unread
    /\ truth = "plain" => Turns!LiveActivity(b) \/ Cut \/ Unread

LogTypeOK ==
    /\ tool \in Tools /\ log \in Seq(Line) /\ now \in Second..MaxNow
    /\ torn \in {"no", "line", "char"} /\ (torn # "no" => log # <<>> /\ tool # "opencode")
    /\ split \in BOOLEAN /\ (split => Cut)
    /\ cache.of[1] <= Len(log)
    /\ \A p \in Pollers : poll[p].at \in {"idle", "read", "store", "half"}

NoEntry == [of |-> <<0, "line">>, parsed |-> NoAnswer, raced |-> FALSE]

Silent == [given |-> FALSE, answer |-> NoAnswer, truth |-> "none", raced |-> FALSE]

Idle == [at |-> "idle", parsed |-> NoAnswer, of |-> <<0, "no">>]

LogInit ==
    /\ tool \in Tools
    /\ log = <<>> /\ torn = "no" /\ split = FALSE /\ now = Second
    /\ cache = NoEntry
    /\ poll = [p \in Pollers |-> Idle]
    /\ said = Silent

-----------------------------------------------------------------------------
(* The agent *)

Write(kind, what) ==
    /\ torn = "no"
    /\ log' = Append(log, [k |-> kind, at |-> now, what |-> what])
    /\ torn' \in {t \in {"no", "line", "char"} : t = "no" \/ tool # "opencode"}
    /\ split' \in {s \in BOOLEAN : s => tool = "grok" /\ Len(log) >= TailLines}
    /\ said' = Silent
    /\ UNCHANGED <<tool, now, cache, poll>>

\* The rest of the line arrives.
Completes ==
    /\ torn # "no" /\ torn' = "no" /\ said' = Silent
    /\ UNCHANGED <<tool, log, split, now, cache, poll>>

CountOf(kind) == Cardinality({i \in DOMAIN log : log[i].k = kind})

Prompt ==
    /\ ~Running(log) /\ CountOf("start") < MaxTurns
    /\ \/ Write("start", "plain")
       \/ tool = "claude" /\ Write("start", "hidden")

\* Only of Grok are other lines read, and of Codex the kind of an event.
Work ==
    \/ /\ tool = "grok" /\ Running(log) /\ CountOf("phase") < MaxWork
       /\ Write("phase", "Working") \/ Write("phase", "Approval") \/ Write("phase", "idle")
    \/ /\ tool = "codex" /\ CountOf("bare") < MaxWork
       /\ Write("bare", "plain")

\* A turn takes a tick at least.
EndTurn ==
    /\ Running(log) /\ Latest(SelectSeq(log, LAMBDA l : l.k = "start")).at < now
    /\ Write("end", "completed") \/ Write("end", "cancelled")

Tick == now < MaxNow /\ now' = now + 1 /\ said' = Silent /\ UNCHANGED <<file, cache, poll>>

-----------------------------------------------------------------------------
(* The refreshes *)

\* Mutant: what is kept of a file is kept under its name.
VersionByName == <<0, "no">>

\* file_version: length and time of the file.
Version == <<Len(log), torn>>

Say(answer, raced) ==
    said' = [given |-> TRUE, answer |-> answer, truth |-> Truth, raced |-> raced]

\* Claude and Grok are read anew by every poll.
ReadAnew(p) ==
    /\ tool \in {"claude", "grok"} /\ Say(Parsed, FALSE)
    /\ UNCHANGED <<file, now, cache, poll>>

\* So is OpenCode, by two statements: the last prompt, then the last answer.
ReadStart(p) ==
    /\ tool = "opencode" /\ poll[p].at = "idle"
    /\ poll' = [poll EXCEPT ![p].at = "half", ![p].parsed = Parsed]
    /\ said' = Silent
    /\ UNCHANGED <<file, now, cache>>

ReadEnd(p) ==
    /\ poll[p].at = "half"
    /\ Say([Parsed EXCEPT !.started = poll[p].parsed.started],
           Parsed.started # poll[p].parsed.started)
    /\ poll' = [poll EXCEPT ![p] = Idle]
    /\ UNCHANGED <<file, now, cache>>

\* cache_lookup.
Lookup(p) ==
    /\ tool = "codex" /\ poll[p].at = "idle"
    /\ \/ /\ cache.of = Version
          /\ Say(cache.parsed, cache.raced)
          /\ UNCHANGED poll
       \/ /\ cache.of # Version
          /\ poll' = [poll EXCEPT ![p].at = "read"]
          /\ said' = Silent
    /\ UNCHANGED <<file, now, cache>>

\* parse_codex_rollout_impl reads the file.
ReadFile(p) ==
    /\ poll[p].at = "read"
    /\ poll' = [poll EXCEPT ![p] =
          IF Unread THEN Idle
          ELSE [at |-> "store", parsed |-> Parsed, of |-> <<Len(log), torn>>]]
    /\ Say(Parsed, FALSE)
    /\ UNCHANGED <<file, now, cache>>

\* cache_store: under the version the file has by now.
Store(p) ==
    /\ poll[p].at = "store"
    /\ cache' = [of |-> Version, parsed |-> poll[p].parsed,
                 raced |-> poll[p].of # <<Len(log), torn>>]
    /\ poll' = [poll EXCEPT ![p] = Idle]
    /\ said' = Silent
    /\ UNCHANGED <<file, now>>

\* evict_one: the logs of other sessions fill the cache.
Evict ==
    /\ cache # NoEntry /\ cache' = NoEntry /\ said' = Silent
    /\ UNCHANGED <<file, now, poll>>

LogNext ==
    \/ Completes \/ Prompt \/ Work \/ EndTurn \/ Tick
    \/ \E p \in Pollers :
          ReadAnew(p) \/ ReadStart(p) \/ ReadEnd(p) \/ Lookup(p) \/ ReadFile(p) \/ Store(p)
    \/ Evict

LogSpec == LogInit /\ [][LogNext]_logVars

-----------------------------------------------------------------------------
(* Properties *)

\* turn_is_complete, live_activity, cached_jsonl_parse: a poll says that a
\* turn is complete only of one that has ended, and then always, and that one
\* runs only of one that does, also when it sees half a line or takes its
\* answer from the cache.  Excepted are answers of an entry that was stored
\* under a newer file and of OpenCode when a prompt comes between the two
\* statements, turns Claude's adapter does not see, cancelled turns, Codex
\* turns of less than a second, and what the end of a long Grok log does not
\* hold; and a log that ends inside a character or has a Codex event without
\* payload, of which nothing is said.
ReportsAreTrue ==
    said.given /\ ~said.raced => IsTrueOf(said.answer, said.truth) /\ IsAllOf(said.answer, said.truth)

-----------------------------------------------------------------------------
(* What does not hold; AgentLogs_gaps.cfg. *)

\* cache_store takes the version of the file after it was parsed: what was
\* read before the agent's last line is kept for the file with it.
KeptIsCurrent == tool = "codex" /\ said.raced => IsTrueOf(said.answer, said.truth)

\* turn_boundary of OpenCode: a prompt that comes between the two statements is
\* not seen, and the answer before it is taken for the last turn's.
OneSnapshot == tool = "opencode" /\ said.raced => IsTrueOf(said.answer, said.truth)

\* A poll that meets the log while it ends inside a character says nothing of
\* a turn that has ended before.
HalfCharIsDropped ==
    said.given /\ torn = "char" /\ said.truth = "completed" => Turns!TurnIsComplete(said.answer)

\* One event without payload, and the log is unread until a turn after it ends.
BareIsSkipped ==
    said.given /\ torn # "char" /\ tool = "codex" /\ said.truth = "plain" => Turns!LiveActivity(said.answer)

\* ended > started of whole seconds: a poll never completes a short turn.
ShortTurnsEnd == Turns!LiveActivity(said.answer) => said.truth # "short"

\* No poll knows a turn that was cancelled from one that runs.
CancelledTurnsEnd == Turns!LiveActivity(said.answer) => said.truth # "cancelled"

\* user_prompt_text skips the prompt, and the turn before it is still the last.
HiddenPromptRuns == Turns!TurnIsComplete(said.answer) => said.truth # "hidden"

\* Grok's live_activity takes the last active phase, of whichever turn.
PhaseOfThisTurn ==
    Turns!LiveActivity(said.answer) /\ said.answer.phase = "Approval"
        => log[Len(log)].k # "start"

\* read_to_string of 64 KiB that begin inside a character fails.
TailIsRead == split => ~(said.truth = "completed" /\ said.answer = NoAnswer)
================================================================================
