-------------------------- MODULE TurnTrackingProof --------------------------
(***************************************************************************)
(* TurnTracking keeps its types, and a poll never takes away a completion  *)
(* with a confirmed title, for every number of pollers, turns and titles.  *)
(*                                                                         *)
(* The lemmas of the first part are about the operators of TurnState, one  *)
(* for each function of the daemon that makes a row from a row; the second *)
(* part adds what a poll carries from its computation to its application.  *)
(***************************************************************************)
EXTENDS TurnTracking, TLAPS

\* The titles and the two special values are different.
LEMMA TitlesDiffer == Weak \notin Title /\ None \notin Thread
  BY TitleAssumption DEF Thread

\* Every hook event has a state.
LEMMA EventToStateType ==
  ASSUME NEW event \in HookEvent
  PROVE  EventToState[event] \in AgentState
  BY DEF HookEvent, EventToState, AgentState

\* What goes to the pane file is never Done.
LEMMA PaneStateAfterType ==
  ASSUME NEW event \in HookEvent
  PROVE  PaneStateAfter(event) \in PaneState
  BY DEF HookEvent, EventToState, AgentState, PaneStateAfter, PaneState, MarksThreadComplete

\* apply_thread_hook makes a row from a row.
LEMMA ApplyThreadHookType ==
  ASSUME NEW r \in RowType, NEW event \in HookEvent, NEW now \in Nat
  PROVE  ApplyThreadHook(r, event, now) \in RowType
<1>1. EventToState[event] \in AgentState
  BY EventToStateType
<1>2. CASE event \in {"session_start", "prompt"}
  BY <1>1, <1>2 DEF ApplyThreadHook, RowType
<1>3. CASE event = "turn_complete"
  BY <1>1, <1>3 DEF ApplyThreadHook, RowType, AgentState
<1>4. CASE event \notin {"session_start", "prompt", "turn_complete"}
  BY <1>1, <1>4 DEF ApplyThreadHook, RowType
<1> QED BY <1>2, <1>3, <1>4

\* acknowledge_if_done makes a row from a row.
LEMMA AcknowledgeType ==
  ASSUME NEW r \in RowType
  PROVE  AcknowledgeIfDone(r) \in RowType
  BY DEF AcknowledgeIfDone, RowType, AgentState

\* sync_live_activity_from_disk makes a row from a row.
LEMMA SyncLiveActivityType ==
  ASSUME NEW r \in RowType, NEW l \in LogType
  PROVE  SyncLiveActivity(r, l) \in RowType
  BY DEF SyncLiveActivity, RowType, LogType, AgentState, InFlight

\* sync_turn_completion_from_disk makes a row from a row.
LEMMA SyncTurnCompletionType ==
  ASSUME NEW r \in RowType, NEW l \in LogType
  PROVE  SyncTurnCompletion(r, l) \in RowType
  BY DEF SyncTurnCompletion, RowType, LogType, AgentState

\* The row a poll makes of the pane is one.
LEMMA PolledRowType ==
  ASSUME NEW pane \in AgentState, NEW title \in Thread, NEW active \in BOOLEAN, NEW now \in Nat
  PROVE  PolledRow(pane, title, active, now) \in RowType
<1>1. (IF pane = "Done" THEN title ELSE None) \in Thread \cup {None}
  OBVIOUS
<1>2. (IF pane = "Done" THEN now ELSE 0) \in Nat
  OBVIOUS
<1> QED BY <1>1, <1>2 DEF PolledRow, RowType

\* A kept completion is a row, and with a confirmed title it is still one.
LEMMA KeepCompletionType ==
  ASSUME NEW prior \in RowType, NEW fresh \in RowType
  PROVE  KeepCompletion(prior, fresh) \in RowType
  BY DEF KeepCompletion, RowType, AgentState, Thread

\* The merge of a row that is acknowledged is a row.
LEMMA MergeAcknowledgedType ==
  ASSUME NEW fresh \in RowType, NEW l \in LogType
  PROVE  MergeAcknowledged(fresh, l) \in RowType
<1> DEFINE live == IF IsInProgress(fresh) THEN fresh ELSE SyncLiveActivity(fresh, l)
<1>1. live \in RowType
  BY SyncLiveActivityType
<1> HIDE DEF live
<1>2. MergeAcknowledged(fresh, l) =
        IF IsInProgress(live) THEN [live EXCEPT !.completed = None]
                              ELSE [live EXCEPT !.state = "Idle"]
  BY DEF MergeAcknowledged, live
<1> QED BY <1>1, <1>2 DEF RowType, AgentState

\* The state a poll settles on is a state.
LEMMA CoalesceType ==
  ASSUME NEW stored \in AgentState, NEW polled \in AgentState, NEW completion \in BOOLEAN
  PROVE  CoalesceAgentState(stored, polled, completion) \in AgentState
<1>1. PolledStateForRefresh(polled, completion) \in AgentState
  BY DEF PolledStateForRefresh, AgentState
<1> QED BY <1>1 DEF CoalesceAgentState

\* The merge of a row that is not complete is a row.
LEMMA MergeUnfinishedType ==
  ASSUME NEW prior \in RowType, NEW fresh \in RowType, NEW l \in LogType
  PROVE  MergeUnfinished(prior, fresh, l) \in RowType
<1> DEFINE completion == fresh.completed # None /\ fresh.state = "Done"
           state == CoalesceAgentState(prior.state, fresh.state, completion)
           merged == [fresh EXCEPT !.state = state]
<1>1. state \in AgentState
  BY CoalesceType DEF RowType
<1>2. merged \in RowType
  BY <1>1 DEF RowType
<1> HIDE DEF merged
<1>3. SyncLiveActivity(merged, l) \in RowType
  BY <1>2, SyncLiveActivityType
<1>4. SyncTurnCompletion(SyncLiveActivity(merged, l), l) \in RowType
  BY <1>3, SyncTurnCompletionType
<1> QED BY <1>4 DEF MergeUnfinished, merged

\* merge_session_refresh_state makes a row of two rows, and leaves a completion
\* with a confirmed title complete.
LEMMA MergeRefreshType ==
  ASSUME NEW prior \in RowType, NEW polled \in RowType, NEW l \in LogType
  PROVE  /\ MergeRefresh(prior, polled, l) \in RowType
         /\ ThreadIsComplete(prior) /\ Confident(prior) =>
               ThreadIsComplete(MergeRefresh(prior, polled, l))
<1> DEFINE at == IF polled.completedAt = 0 THEN prior.completedAt ELSE polled.completedAt
           fresh == [polled EXCEPT !.completedAt = at, !.messagedAt = prior.messagedAt]
           done == IF fresh.completed = None /\ ~IsInProgress(prior)
                     THEN prior.completed ELSE fresh.completed
           carried == [fresh EXCEPT !.completed = done]
<1>1. fresh \in RowType
  <2>1. at \in Nat /\ prior.messagedAt \in Nat
    BY DEF RowType
  <2> HIDE DEF at
  <2> QED BY <2>1 DEF RowType
<1>2. carried \in RowType
  <2>1. done \in Thread \cup {None}
    BY <1>1 DEF RowType
  <2> HIDE DEF done, fresh
  <2> QED BY <1>1, <2>1 DEF RowType
<1>3. MergeRefresh(prior, polled, l) =
        CASE ThreadIsComplete(prior) -> KeepCompletion(prior, fresh)
          [] CompletionAcknowledged(prior) -> MergeAcknowledged(carried, l)
          [] OTHER -> MergeUnfinished(prior, carried, l)
  BY DEF MergeRefresh
<1> HIDE DEF fresh, carried
<1>4. CASE ThreadIsComplete(prior)
  <2>1. MergeRefresh(prior, polled, l) = KeepCompletion(prior, fresh)
    BY <1>3, <1>4 DEF CompletionAcknowledged, ThreadIsComplete
  <2>2. Confident(prior) => ThreadIsComplete(KeepCompletion(prior, fresh))
    BY <1>1, <1>4 DEF KeepCompletion, ThreadIsComplete, RowType
  <2> QED BY <1>1, <2>1, <2>2, KeepCompletionType
<1>5. CASE ~ThreadIsComplete(prior) /\ CompletionAcknowledged(prior)
  BY <1>2, <1>3, <1>5, MergeAcknowledgedType
<1>6. CASE ~ThreadIsComplete(prior) /\ ~CompletionAcknowledged(prior)
  BY <1>2, <1>3, <1>6, MergeUnfinishedType
<1> QED BY <1>4, <1>5, <1>6

-----------------------------------------------------------------------------

\* The agent's clock is a time.
LEMMA NowType == TypeOK => Now \in Nat
  BY TurnTrackingAssumption DEF TypeOK, Now

\* What a poll in progress computes, from the row it copied.
LEMMA RefreshedType ==
  ASSUME TypeOK, NEW p \in Pollers, NEW title \in Thread
  PROVE  LET merged == Refreshed(polls[p], title)
             fresh  == AcknowledgeOnFocus(polls[p].prev, merged)
         IN  /\ fresh \in RowType
             /\ ThreadIsComplete(polls[p].prev) /\ Confident(polls[p].prev) =>
                   ThreadIsComplete(fresh) \/ (fresh.active /\ ~polls[p].prev.active)
<1> DEFINE q == polls[p]
           polled == PolledRow(q.pane, title, q.active, Now)
           m == MergeRefresh(q.prev, polled, log)
           merged == Refreshed(q, title)
<1>1. /\ q \in PollType
      /\ q.prev \in RowType /\ q.pane \in AgentState /\ q.active \in BOOLEAN
      /\ log \in LogType /\ manifestAt \in Nat /\ Now \in Nat
  BY NowType DEF TypeOK, PollType, PaneState
<1>2. polled \in RowType
  BY <1>1, PolledRowType
<1> HIDE DEF polled
<1>3. /\ m \in RowType
      /\ ThreadIsComplete(q.prev) /\ Confident(q.prev) => ThreadIsComplete(m)
  BY <1>1, <1>2, MergeRefreshType
<1>4. merged = ApplyRefreshMessagedAt(m, manifestAt)
  BY DEF Refreshed, polled
<1> HIDE DEF m, merged
<1>5. /\ merged \in RowType
      /\ ThreadIsComplete(m) => ThreadIsComplete(merged)
  BY <1>1, <1>3, <1>4 DEF ApplyRefreshMessagedAt, RowType, ThreadIsComplete
<1>6. AcknowledgeIfDone(merged) \in RowType /\ AcknowledgeIfDone(merged).active = merged.active
  BY <1>5, AcknowledgeType DEF AcknowledgeIfDone, RowType
<1> QED BY <1>3, <1>5, <1>6 DEF AcknowledgeOnFocus, merged

\* The initial row and an idle poll have their types.
LEMMA NewTypes == NewRow \in RowType /\ NoPoll \in PollType
<1>1. NewRow \in RowType
  BY DEF NewRow, RowType, AgentState, Thread
<1> QED BY <1>1 DEF NoPoll, PollType, PaneState, AgentState

\* An agent that is in a turn has begun one.
TurnBegun == phase # "idle" => turn > 0

\* The initial state has its types.
LEMMA InitTyped == Init => TypeOK /\ TurnBegun
<1> SUFFICES ASSUME Init PROVE TypeOK /\ TurnBegun
  OBVIOUS
<1>1. polls \in [Pollers -> PollType] /\ row \in RowType
  BY NewTypes DEF Init
<1>2. manifestAt \in Nat /\ turn \in 0..MaxTurn
  BY TurnTrackingAssumption DEF Init
<1>3. log \in LogType /\ paneFile \in PaneState
  BY DEF Init, LogType, InFlight, PaneState, AgentState
<1> QED BY <1>1, <1>2, <1>3 DEF Init, TypeOK, TurnBegun

\* A handled hook keeps the types.
LEMMA HookHandledTyped ==
  ASSUME TypeOK, NEW h \in hooks, HookHandled(h)
  PROVE  TypeOK'
<1>1. h \in Hook /\ h.event \in HookEvent /\ row \in RowType /\ Now \in Nat
  BY NowType DEF TypeOK, Hook
<1>2. hooks' \subseteq Hook /\ UNCHANGED <<turn, phase, log, sent, paneFile, queued, manifestAt, window, focus>>
  BY DEF HookHandled, TypeOK, agent, files, user
<1>3. row' \in RowType /\ effects' \subseteq Effect /\ polls' \in [Pollers -> PollType]
  <2>1. CASE HookApplies(row, h.event)
    <3>1. PICK before \in Retitled(h.event) :
             /\ row' = ApplyThreadHook(before, h.event, Now)
             /\ effects' = effects \cup {EffectOf(h, ApplyThreadHook(before, h.event, Now))}
             /\ polls' = [p \in Pollers |-> [polls[p] EXCEPT !.touched = polls[p].pc # "idle"]]
      BY <2>1 DEF HookHandled
    <3>2. before \in RowType
      <4>1. before = row \/ \E t \in Title \cup {row.thread} : before = [row EXCEPT !.thread = t]
        BY DEF Retitled
      <4>2. Title \cup {row.thread} \subseteq Thread
        BY <1>1 DEF RowType, Thread
      <4> QED BY <1>1, <4>1, <4>2 DEF RowType
    <3>3. row' \in RowType
      BY <1>1, <3>1, <3>2, ApplyThreadHookType
    <3>4. EffectOf(h, row') \in Effect
      <4>1. PaneStateAfter(h.event) \in PaneState
        BY <1>1, PaneStateAfterType
      <4>2. (IF Managed /\ h.event = "prompt" THEN row'.messagedAt ELSE 0) \in Nat
        BY <3>3 DEF RowType
      <4> QED BY <1>1, <4>1, <4>2 DEF EffectOf, Effect
    <3>5. \A p \in Pollers : [polls[p] EXCEPT !.touched = polls[p].pc # "idle"] \in PollType
      BY DEF TypeOK, PollType
    <3> QED BY <3>1, <3>3, <3>4, <3>5 DEF TypeOK
  <2>2. CASE ~HookApplies(row, h.event)
    BY <2>2 DEF HookHandled, TypeOK
  <2> QED BY <2>1, <2>2
<1> QED BY <1>2, <1>3 DEF TypeOK

\* A step of a poll keeps the types.
LEMMA PollStepTyped ==
  ASSUME TypeOK, NEW p \in Pollers, PollStep(p)
  PROVE  TypeOK'
<1>1. polls[p] \in PollType /\ row \in RowType /\ NoPoll \in PollType
  BY NewTypes DEF TypeOK
<1>2. CASE PollSnapshot(p)
  <2>1. [NoPoll EXCEPT !.pc = "tmux", !.prev = row] \in PollType
    BY <1>1 DEF PollType
  <2> QED BY <1>2, <2>1 DEF PollSnapshot, TypeOK, agent, files, user
<1>3. CASE PollTmux(p)
  <2>1. [polls[p] EXCEPT !.pc = "compute", !.pane = paneFile, !.active = window] \in PollType
    BY <1>1 DEF PollType, TypeOK
  <2>2. polls' = [polls EXCEPT ![p] =
                    [polls[p] EXCEPT !.pc = "compute", !.pane = paneFile, !.active = window]]
    BY <1>3 DEF PollTmux, TypeOK
  <2> QED BY <1>3, <2>1, <2>2 DEF PollTmux, TypeOK, agent, files, user
<1>4. CASE PollCompute(p)
  <2> DEFINE merged(title) == Refreshed(polls[p], title)
             fresh(title) == AcknowledgeOnFocus(polls[p].prev, merged(title))
  <2>1. PICK title \in Thread :
           /\ polls' = [polls EXCEPT ![p] = [NoPoll EXCEPT !.pc = "apply", !.prev = polls[p].prev,
                            !.touched = polls[p].touched, !.fresh = fresh(title)]]
           /\ paneFile' = "Idle" \/ paneFile' = paneFile
    BY <1>4 DEF PollCompute
  <2>2. fresh(title) \in RowType
    BY RefreshedType
  <2>3. [NoPoll EXCEPT !.pc = "apply", !.prev = polls[p].prev,
            !.touched = polls[p].touched, !.fresh = fresh(title)] \in PollType
    BY <1>1, <2>2 DEF PollType
  <2>4. paneFile' \in PaneState
    BY <2>1 DEF TypeOK, PaneState, AgentState
  <2> QED BY <1>4, <2>1, <2>3, <2>4 DEF PollCompute, TypeOK, agent, files, user
<1>5. CASE PollApply(p)
  <2>1. row' \in RowType
    BY <1>1, <1>5 DEF PollApply, PollType
  <2> QED BY <1>1, <1>5, <2>1 DEF PollApply, TypeOK, agent, files, user
<1> QED BY <1>2, <1>3, <1>4, <1>5 DEF PollStep

\* Every step keeps the types.
LEMMA NextTyped == TypeOK /\ TurnBegun /\ [Next]_vars => TypeOK'
<1> SUFFICES ASSUME TypeOK, TurnBegun, [Next]_vars PROVE TypeOK'
  OBVIOUS
<1> USE TurnTrackingAssumption DEF agent, files, user
<1>1. CASE AgentStep
  <2>1. CASE AgentStarts
    <3>1. [event |-> "prompt", turn |-> turn + 1] \in Hook
      BY <2>1 DEF AgentStarts, TypeOK, Hook, HookEvent
    <3> QED BY <2>1, <3>1 DEF AgentStarts, Send, TypeOK
  <2>2. CASE AgentLogsStart
    BY <2>2, NowType DEF AgentLogsStart, TypeOK, LogType
  <2>3. CASE AgentEnds
    <3>1. turn \in 1..MaxTurn
      BY <2>3 DEF AgentEnds, TypeOK, TurnBegun
    <3>2. [event |-> "turn_complete", turn |-> turn] \in Hook
      BY <3>1 DEF Hook, HookEvent
    <3> QED BY <2>3, <3>2 DEF AgentEnds, Send, TypeOK, LogType
  <2>4. ASSUME NEW e \in ToolEvents, AgentUsesTool(e) PROVE TypeOK'
    <3>1. turn \in 1..MaxTurn
      BY <2>4 DEF AgentUsesTool, TypeOK, TurnBegun
    <3>2. [event |-> e, turn |-> turn] \in Hook
      BY <3>1 DEF Hook, HookEvent
    <3> QED BY <2>4, <3>2 DEF AgentUsesTool, Send, TypeOK
  <2> QED BY <1>1, <2>1, <2>2, <2>3, <2>4 DEF AgentStep
<1>2. CASE HookStep
  <2>1. ASSUME NEW h \in hooks, HookLost(h) PROVE TypeOK'
    BY <2>1 DEF HookLost, TypeOK
  <2> QED BY <1>2, <2>1, HookHandledTyped DEF HookStep
<1>3. CASE EffectStep
  <2>1. ASSUME NEW e \in effects, EffectPane(e) PROVE TypeOK'
    <3>1. e \in Effect /\ [e EXCEPT !.step = "enqueue"] \in Effect
      BY DEF TypeOK, Effect
    <3> QED BY <2>1, <3>1 DEF EffectPane, TypeOK, Effect
  <2>2. ASSUME NEW e \in effects, EffectEnqueue(e) PROVE TypeOK'
    BY <2>2 DEF EffectEnqueue, TypeOK, Effect
  <2> QED BY <1>3, <2>1, <2>2 DEF EffectStep
<1>4. CASE ManifestFlush
  BY <1>4 DEF ManifestFlush, TypeOK
<1>5. CASE UserStep
  <2>1. ASSUME NEW b \in BOOLEAN, UserSelects(b) \/ FocusExec(b) PROVE TypeOK'
    BY <2>1 DEF UserSelects, FocusExec, TypeOK
  <2>2. CASE CommitFocusState
    <3> DEFINE r == [row EXCEPT !.active = (focus = "this")]
    <3>1. r \in RowType
      BY DEF TypeOK, RowType
    <3>2. AcknowledgeIfDone(r) \in RowType
      BY <3>1, AcknowledgeType
    <3>3. row' \in RowType
      BY <2>2, <3>1, <3>2 DEF CommitFocusState
    <3>4. paneFile' \in PaneState
      BY <2>2 DEF CommitFocusState, TypeOK, PaneState, AgentState
    <3> QED BY <2>2, <3>3, <3>4 DEF CommitFocusState, TypeOK
  <2>3. CASE AcknowledgeCompletion
    <3>1. row' \in RowType
      BY <2>3, AcknowledgeType DEF AcknowledgeCompletion, TypeOK
    <3> QED BY <2>3, <3>1 DEF AcknowledgeCompletion, TypeOK, PaneState, AgentState
  <2> QED BY <1>5, <2>1, <2>2, <2>3 DEF UserStep
<1>6. ASSUME NEW p \in Pollers, PollStep(p) PROVE TypeOK'
  BY <1>6, PollStepTyped
<1>7. CASE UNCHANGED vars
  BY <1>7 DEF vars, TypeOK
<1> QED BY <1>1, <1>2, <1>3, <1>4, <1>5, <1>6, <1>7 DEF Next

\* Only the agent begins and ends its turns.
LEMMA NextTurnBegun == TypeOK /\ TurnBegun /\ [Next]_vars => TurnBegun'
<1> SUFFICES ASSUME TypeOK, TurnBegun, [Next]_vars PROVE TurnBegun'
  OBVIOUS
<1> USE DEF agent, files, user, TurnBegun
<1>1. CASE AgentStep
  BY <1>1 DEF AgentStep, AgentStarts, AgentLogsStart, AgentEnds, AgentUsesTool, TypeOK
<1>2. CASE ~AgentStep
  BY <1>2 DEF Next, vars, HookStep, HookHandled, HookLost, EffectStep, EffectPane, EffectEnqueue,
     ManifestFlush, UserStep, UserSelects, FocusExec, CommitFocusState, AcknowledgeCompletion,
     PollStep, PollSnapshot, PollTmux, PollCompute, PollApply
<1> QED BY <1>1, <1>2

\* The types are kept for ever.
THEOREM TurnTypeCorrect == Spec => []TypeOK
<1>1. Spec => [](TypeOK /\ TurnBegun)
  BY InitTyped, NextTyped, NextTurnBegun, PTL DEF Spec
<1> QED BY <1>1, PTL

-----------------------------------------------------------------------------

\* A poll that has copied a row with a confirmed completion brings one back,
\* or has seen the user come to the window.
CarriesCompletion ==
    \A p \in Pollers :
       LET q == polls[p] IN
       q.pc = "apply" /\ ThreadIsComplete(q.prev) /\ Confident(q.prev) =>
          ThreadIsComplete(q.fresh) \/ (q.fresh.active /\ ~q.prev.active)

\* Only PollCompute decides what a poll brings back.
LEMMA NextCarries == TypeOK /\ CarriesCompletion /\ [Next]_vars => CarriesCompletion'
<1> SUFFICES ASSUME TypeOK, CarriesCompletion, [Next]_vars,
                    NEW p \in Pollers,
                    polls'[p].pc = "apply",
                    ThreadIsComplete(polls'[p].prev), Confident(polls'[p].prev)
             PROVE  \/ ThreadIsComplete(polls'[p].fresh)
                    \/ polls'[p].fresh.active /\ ~polls'[p].prev.active
  BY DEF CarriesCompletion
<1> DEFINE Same == /\ polls[p].pc = "apply"
                   /\ polls'[p].prev = polls[p].prev
                   /\ polls'[p].fresh = polls[p].fresh
<1>1. ASSUME Same
      PROVE  \/ ThreadIsComplete(polls'[p].fresh)
             \/ polls'[p].fresh.active /\ ~polls'[p].prev.active
  BY <1>1 DEF CarriesCompletion
<1> HIDE DEF Same
<1>2. CASE HookStep
  <2>1. ASSUME NEW h \in hooks, HookHandled(h) PROVE Same
    BY <2>1 DEF HookHandled, TypeOK, PollType, Same
  <2>2. ASSUME NEW h \in hooks, HookLost(h) PROVE Same
    BY <2>2 DEF HookLost, Same
  <2> QED BY <1>1, <1>2, <2>1, <2>2 DEF HookStep
<1>3. ASSUME NEW x \in Pollers, PollStep(x), x # p PROVE Same
  BY <1>3 DEF PollStep, PollSnapshot, PollTmux, PollCompute, PollApply, TypeOK, Same
<1>4. CASE PollStep(p)
  <2>1. PollCompute(p)
    <3>1. polls \in [Pollers -> PollType] /\ NoPoll.pc = "idle" /\ NoPoll \in PollType
      BY NewTypes DEF TypeOK, NoPoll
    <3>2. PollSnapshot(p) => polls'[p].pc = "tmux"
      BY <3>1 DEF PollSnapshot, PollType
    <3>3. PollTmux(p) => polls'[p].pc = "compute"
      BY <3>1 DEF PollTmux, PollType
    <3>4. PollApply(p) => polls'[p].pc = "idle"
      BY <3>1 DEF PollApply
    <3> QED BY <1>4, <3>2, <3>3, <3>4 DEF PollStep
  <2> DEFINE fresh(title) == AcknowledgeOnFocus(polls[p].prev, Refreshed(polls[p], title))
  <2>2. PICK title \in Thread :
           /\ polls'[p].prev = polls[p].prev
           /\ polls'[p].fresh = fresh(title)
    BY <2>1, NewTypes DEF PollCompute, TypeOK, PollType
  <2> QED BY <2>2, RefreshedType
<1>5. CASE \/ AgentStep \/ EffectStep \/ ManifestFlush \/ UserStep \/ UNCHANGED vars
  <2>1. polls' = polls
    BY <1>5 DEF vars, user, AgentStep, AgentStarts, AgentLogsStart, AgentEnds, AgentUsesTool,
       EffectStep, EffectPane, EffectEnqueue, ManifestFlush, UserStep, UserSelects, FocusExec,
       CommitFocusState, AcknowledgeCompletion
  <2> QED BY <1>1, <2>1 DEF Same
<1> QED BY <1>1, <1>2, <1>3, <1>4, <1>5 DEF Next

\* A poll that is applied leaves a confirmed completion alone: it is applied
\* only to the row it copied, and it carries the completion of that row.
THEOREM CompletionSurvives == Spec => CompletionSurvivesPolls
<1>1. Init => TypeOK /\ TurnBegun /\ CarriesCompletion
  BY InitTyped DEF Init, CarriesCompletion, NoPoll
<1>2. TypeOK /\ TurnBegun /\ CarriesCompletion /\ [Next]_vars =>
         (TypeOK /\ TurnBegun /\ CarriesCompletion)'
  BY NextTyped, NextTurnBegun, NextCarries
<1>3. ASSUME CarriesCompletion,
             NEW p \in Pollers, PollApply(p), ThreadIsComplete(row), Confident(row)
      PROVE  ThreadIsComplete(row') \/ (row'.active /\ ~row.active)
  BY <1>3 DEF CarriesCompletion, PollApply
<1>4. CarriesCompletion =>
         [\A p \in Pollers :
             PollApply(p) /\ ThreadIsComplete(row) /\ Confident(row) =>
                ThreadIsComplete(row') \/ (row'.active /\ ~row.active)]_vars
  BY <1>3
<1> QED BY <1>1, <1>2, <1>4, PTL DEF Spec, CompletionSurvivesPolls
===============================================================================
