------------------------------- MODULE HookPath -------------------------------
(***************************************************************************)
(* The two ends of a hook's way, checked in one run: how it gets to the    *)
(* daemon through the socket and the spool (NotifySpool), and whose row it *)
(* changes when it is there (AgentBinding).  They share no state, so a     *)
(* behaviour is one of a single part: the variables of the other part keep *)
(* one of their initial values.                                            *)
(***************************************************************************)
EXTENDS NotifySpool

CONSTANTS NumWindows, Grok, Codex, Sub, MaxBegun, MaxBindHooks, MaxForgets

ASSUME HookPathAssumption ==
    /\ NumWindows \in Nat
    /\ Grok # {}
    /\ Grok \cap Codex = {} /\ Grok \cap Sub = {} /\ Codex \cap Sub = {}
    /\ None \notin Grok \cup Codex \cup Sub

VARIABLES
    part,                                    \* "spool" or "binding"
    kind, home, known, bound, record, entry, \* AgentBinding
    queue, env, effects, touched, poll, count

Binds == INSTANCE AgentBinding WITH row <- bound, saved <- entry, MaxHooks <- MaxBindHooks

bindVars == <<kind, home, known, bound, record, entry, queue, env, effects, touched,
              poll, count>>
pathVars == <<part, vars, bindVars>>

PathInit ==
    /\ part \in {"spool", "binding"}
    /\ part = "spool" =>
          /\ kind = [w \in 1..NumWindows |-> "grok"]
          /\ home = [s \in Grok \cup Codex \cup Sub |-> 0]
    /\ Init
    /\ Binds!Init

PathNext ==
    \/ part = "spool" /\ Next /\ UNCHANGED <<part, bindVars>>
    \/ part = "binding" /\ Binds!Next /\ UNCHANGED <<part, vars>>

\* Fairness of NotifySpool and of AgentBinding, each in its behaviours.
PathFairness ==
    /\ WF_vars(part = "spool" /\ NotifyStep)
    /\ WF_vars(part = "spool" /\ DrainStep)
    /\ WF_vars(part = "spool" /\ Restart)
    /\ WF_bindVars(part = "binding" /\ Binds!Poll)
    /\ WF_bindVars(part = "binding" /\ Binds!HookEffects)
    /\ \A s \in Grok \cup Codex \cup Sub : WF_bindVars(part = "binding" /\ Binds!Written(s))

PathSpec == PathInit /\ [][PathNext]_pathVars /\ PathFairness

-----------------------------------------------------------------------------
(* Properties; the modules say what they are about. *)

\* Every state of the part that runs is well typed.
PathTypeOK == TypeOK /\ Binds!TypeOK

\* No poll leaves a row bound to a session known to be another agent's, and
\* a known subagent never takes the row of its parent.
RowKeepsItsAgent == Binds!RowKeepsItsAgent

\* Rows and records get back to the agent that was launched.
Heals == Binds!Heals
===============================================================================
