----------------------------- MODULE HookPathProof -----------------------------
(***************************************************************************)
(* A hook's way, for every value of the constants.                         *)
(*                                                                         *)
(* The spool keeps its types, never loses a message it has returned, and   *)
(* delivers as AtLeastOnce says, step by step.  What makes it hold is who  *)
(* owns what: a hook is sent through the socket or spooled and never both, *)
(* the files a round has still to read and the messages it has still to    *)
(* apply are different files, each of them once, and a file is quarantined *)
(* only if its message was never returned.                                 *)
(*                                                                         *)
(* At its end, a poll leaves no row with another agent's session, and a    *)
(* known subagent does not take the row of its parent.  What makes it hold *)
(* is the managed record: it is written by the parent's own hook, never by *)
(* a known subagent's, and a poll asks it first.                           *)
(***************************************************************************)
EXTENDS HookPath, FiniteSetTheorems, TLAPS

\* A hook's event makes a row from a row.
LEMMA EventToStateType ==
  ASSUME NEW e \in HookEvent
  PROVE  EventToState[e] \in AgentState
  BY DEF HookEvent, EventToState, AgentState

LEMMA ApplyThreadHookType ==
  ASSUME NEW r \in RowType, NEW e \in HookEvent, NEW now \in Nat
  PROVE  ApplyThreadHook(r, e, now) \in RowType
<1>1. EventToState[e] \in AgentState
  BY EventToStateType
<1>2. CASE e \in {"session_start", "prompt"}
  BY <1>1, <1>2 DEF ApplyThreadHook, RowType
<1>3. CASE e = "turn_complete"
  BY <1>1, <1>3 DEF ApplyThreadHook, RowType, AgentState
<1>4. CASE e \notin {"session_start", "prompt", "turn_complete"}
  BY <1>1, <1>4 DEF ApplyThreadHook, RowType
<1> QED BY <1>2, <1>3, <1>4

-----------------------------------------------------------------------------
(* The inductive invariant. *)

\* Hooks are numbered as they are fired, and a millisecond passes for each of
\* them at most.
Numbered ==
    /\ \A h \in Hooks : h > fired => proc[h] = "none"
    /\ \A h \in Hooks : stamp[h] <= (IF h <= fired THEN h + 1 ELSE 0)

\* A hook is the socket's or the spool's.
Owned ==
    /\ \A h \in conn : proc[h] = "sent"
    /\ \A h \in files : proc[h] \in {"write", "deferred", "killed"}
    /\ accepted \subseteq full
    /\ \A h \in handled : h \in accepted \/ proc[h] = "sent"

\* What a round has still to read and to apply.
Distinct ==
    /\ list \in Seq(Hooks) /\ batch \in Seq(Hooks)
    /\ \A i, j \in 1..Len(list) : i # j => list[i] # list[j]
    /\ \A i, j \in 1..Len(batch) : i # j => batch[i] # batch[j]
    /\ \A i \in 1..Len(list), j \in 1..Len(batch) : list[i] # batch[j]
    /\ \A i \in 1..Len(batch) : batch[i] \in accepted

\* Where the drain stands.
Stands ==
    /\ pc \in {"down", "list"} => list = <<>> /\ batch = <<>>
    /\ pc = "quarantine" => list # <<>> /\ Head(list) \notin accepted
    /\ pc = "ack" => batch # <<>> /\ Head(batch) \in handled

SpoolInv == TypeOK /\ Numbered /\ Owned /\ Distinct /\ Stands /\ AcceptedNotLost

-----------------------------------------------------------------------------
(* Sequences and listings. *)

\* What is left of a sequence without its head.
LEMMA TailFacts ==
  ASSUME NEW S, NEW s \in Seq(S), s # <<>>
  PROVE  /\ Len(s) \in Nat \ {0}
         /\ Head(s) = s[1] /\ Head(s) \in S
         /\ Tail(s) \in Seq(S)
         /\ Len(Tail(s)) = Len(s) - 1
         /\ \A i \in 1..Len(Tail(s)) : i + 1 \in 1..Len(s) /\ Tail(s)[i] = s[i + 1]
  OBVIOUS

\* A listing has every file once: there are as many places as files.
LEMMA ListingFacts ==
  ASSUME files \subseteq Hooks, NEW l \in Listings
  PROVE  /\ l \in Seq(Hooks)
         /\ \A i \in 1..Len(l) : l[i] \in files
         /\ \A i, j \in 1..Len(l) : i # j => l[i] # l[j]
<1> DEFINE n == Cardinality(files)
<1>1. IsFiniteSet(files) /\ n \in Nat
  <2>1. MaxHooks \in Int /\ IsFiniteSet(Hooks)
    BY FS_Interval, NotifySpoolAssumption DEF Hooks
  <2> QED BY <2>1, FS_Subset, FS_CardinalityType
<1>2. l \in [1..n -> files] /\ \A f \in files : \E i \in 1..n : l[i] = f
  BY DEF Listings
<1>3. IsFiniteSet(1..n) /\ Cardinality(1..n) = n
  BY <1>1, FS_Interval
<1>4. l \in Surjection(1..n, files)
  BY <1>2 DEF Surjection
<1>5. l \in Injection(1..n, files)
  BY <1>1, <1>3, <1>4, FS_SurjSameCardinalityImpliesInj
<1>6. l \in Seq(Hooks) /\ Len(l) = n
  BY <1>1, <1>2
<1> QED BY <1>2, <1>5, <1>6 DEF Injection, IsInjective

\* handle_notify makes a row from a row.
LEMMA HandleType ==
  ASSUME TypeOK, NEW h \in Hooks, Handle(h)
  PROVE  row' \in RowType /\ handled' \subseteq Hooks
<1>1. event[h] \in HookEvent /\ fired + 1 \in Nat
  BY DEF TypeOK
<1>2. ApplyThreadHook(row, event[h], fired + 1) \in RowType
  BY <1>1, ApplyThreadHookType DEF TypeOK
<1> QED BY <1>2 DEF Handle, TypeOK

LEMMA InitSpoolInv == Init => SpoolInv
<1> SUFFICES ASSUME Init PROVE SpoolInv
  OBVIOUS
<1>1. NewRow \in RowType
  BY DEF NewRow, RowType, AgentState, Thread
<1>2. TypeOK
  <2>1. 0 \in 0..MaxHooks /\ 0 \in 0..MaxHooks + 1 /\ 0 \in 0..MaxCrashes /\ 0 \in 0..MaxFails
    BY NotifySpoolAssumption
  <2>2. "prompt" \in HookEvent
    BY DEF HookEvent
  <2>3. DOMAIN list = {} /\ DOMAIN batch = {}
    BY DEF Init
  <2> QED BY <1>1, <2>1, <2>2, <2>3 DEF Init, TypeOK
<1>3. Numbered /\ Owned /\ Distinct /\ Stands /\ AcceptedNotLost
  BY DEF Init, Numbered, Owned, Distinct, Stands, AcceptedNotLost, Hooks
<1> QED BY <1>2, <1>3 DEF SpoolInv

-----------------------------------------------------------------------------
(* The notify processes: they touch neither the round nor what was returned. *)

LEMMA FireKeeps ==
  ASSUME SpoolInv, NEW e \in Events, NEW later \in BOOLEAN, Fire(e, later)
  PROVE  SpoolInv'
<1> USE DEF SpoolInv
<1>1. /\ fired \in Nat /\ fired + 1 \in Hooks /\ fired' = fired + 1
      /\ e \in HookEvent
  BY NotifySpoolAssumption DEF Fire, TypeOK, Hooks
<1>2. stamp'[fired + 1] \in 0..fired' + 1
  <2>1. CASE fired = 0
    BY <1>1, <2>1 DEF Fire, TypeOK
  <2>2. CASE fired # 0
    <3>1. fired \in Hooks /\ stamp[fired] \in Nat /\ stamp[fired] <= fired + 1
      BY <1>1, <2>2 DEF TypeOK, Numbered, Hooks
    <3> QED BY <1>1, <2>2, <3>1 DEF Fire, TypeOK
  <2> QED BY <2>1, <2>2
<1>3. proc[fired + 1] = "none"
  BY <1>1 DEF Numbered
<1>4. TypeOK'
  BY <1>1, <1>2, NotifySpoolAssumption, SMTT(40) DEF Fire, TypeOK, spool, drain, bounds, Hooks
<1>5. Numbered'
  BY <1>1, <1>2 DEF Fire, Numbered, TypeOK, Hooks
<1>6. Owned' /\ Distinct' /\ Stands' /\ AcceptedNotLost'
  BY <1>1, <1>3 DEF Fire, Owned, Distinct, Stands, AcceptedNotLost, TypeOK, spool, drain
<1> QED BY <1>4, <1>5, <1>6

LEMMA NotifyKeeps ==
  ASSUME SpoolInv, NEW h \in Hooks, Send(h) \/ Create(h) \/ Write(h) \/ Kill(h)
  PROVE  SpoolInv'
<1> USE DEF SpoolInv
<1>1. h <= fired
  BY NotifySpoolAssumption DEF Send, Create, Write, Kill, Numbered, TypeOK, Hooks
<1>2. CASE Send(h)
  <2>1. TypeOK'
    BY <1>2 DEF Send, TypeOK, spool, drain, bounds
  <2>2. Numbered' /\ Owned' /\ Distinct' /\ Stands' /\ AcceptedNotLost'
    BY <1>1, <1>2 DEF Send, Numbered, Owned, Distinct, Stands, AcceptedNotLost, TypeOK,
                      spool, drain
  <2> QED BY <2>1, <2>2
<1>3. CASE Create(h)
  <2>1. TypeOK'
    BY <1>3 DEF Create, TypeOK, drain, bounds
  <2>2. proc[h] = "create" /\ files' \subseteq files \cup {h} /\ files \subseteq files'
    BY <1>3 DEF Create
  <2>3. Numbered' /\ Distinct' /\ Stands' /\ AcceptedNotLost'
    BY <1>1, <1>3, <2>2 DEF Create, Numbered, Distinct, Stands, AcceptedNotLost, TypeOK, drain
  <2>4. Owned'
    BY <1>3, <2>2 DEF Create, Owned, TypeOK, drain
  <2> QED BY <2>1, <2>3, <2>4
<1>4. CASE Write(h)
  <2>1. TypeOK'
    BY <1>4 DEF Write, TypeOK, drain, bounds
  <2>2. Numbered' /\ Owned' /\ Distinct' /\ Stands' /\ AcceptedNotLost'
    BY <1>1, <1>4 DEF Write, Numbered, Owned, Distinct, Stands, AcceptedNotLost, TypeOK,
                      drain
  <2> QED BY <2>1, <2>2
<1>5. CASE Kill(h)
  <2>1. TypeOK'
    BY <1>5 DEF Kill, TypeOK, spool, drain, bounds
  <2>2. Numbered' /\ Owned' /\ Distinct' /\ Stands' /\ AcceptedNotLost'
    BY <1>1, <1>5 DEF Kill, Numbered, Owned, Distinct, Stands, AcceptedNotLost, TypeOK,
                      spool, drain
  <2> QED BY <2>1, <2>2
<1> QED BY <1>2, <1>3, <1>4, <1>5

-----------------------------------------------------------------------------
(* The daemon. *)

LEMMA ConnectionKeeps ==
  ASSUME SpoolInv, NEW h \in conn, HandleConnection(h)
  PROVE  SpoolInv'
<1> USE DEF SpoolInv
<1>1. h \in Hooks /\ proc[h] = "sent"
  BY DEF TypeOK, Owned
<1>2. row' \in RowType /\ handled' \subseteq Hooks
  BY <1>1, HandleType DEF HandleConnection
<1>3. handled' = handled \cup {h}
  BY DEF HandleConnection, Handle
<1>4. TypeOK'
  BY <1>2 DEF HandleConnection, TypeOK, process, spool, drain, bounds
<1>5. Numbered' /\ Owned' /\ Distinct' /\ Stands' /\ AcceptedNotLost'
  BY <1>1, <1>3 DEF HandleConnection, Numbered, Owned, Distinct, Stands, AcceptedNotLost,
                    process, spool, drain
<1> QED BY <1>4, <1>5

LEMMA ListKeeps ==
  ASSUME SpoolInv, DrainList
  PROVE  SpoolInv'
<1> USE DEF SpoolInv
<1>1. /\ list' \in Seq(Hooks)
      /\ \A i \in 1..Len(list') : list'[i] \in files
      /\ \A i, j \in 1..Len(list') : i # j => list'[i] # list'[j]
  BY ListingFacts DEF DrainList, TypeOK
<1>2. batch = <<>> /\ batch' = batch
  BY DEF DrainList, Stands
<1>3. TypeOK'
  BY <1>1, <1>2 DEF DrainList, TypeOK, process, spool, bounds
<1>4. Numbered' /\ Owned' /\ Distinct' /\ Stands' /\ AcceptedNotLost'
  BY <1>1, <1>2 DEF DrainList, Numbered, Owned, Distinct, Stands, AcceptedNotLost,
                    process, spool
<1> QED BY <1>3, <1>4

LEMMA ReadKeeps ==
  ASSUME SpoolInv, DrainRead
  PROVE  SpoolInv'
<1> USE DEF SpoolInv
<1> DEFINE f == Head(list)
<1>1. /\ list \in Seq(Hooks) /\ list # <<>> /\ batch \in Seq(Hooks)
      /\ DOMAIN list = 1..Len(list) /\ DOMAIN batch = 1..Len(batch)
  BY DEF DrainRead, Distinct
<1>2. f = list[1] /\ f \in Hooks /\ f \in files
  BY <1>1, TailFacts DEF TypeOK
<1>3. CASE f \in full
  <2>1. /\ batch' = Append(batch, f) /\ accepted' = accepted \cup {f}
        /\ list' = Tail(list) /\ pc' = pc /\ pc = "read"
    BY <1>3 DEF DrainRead
  <2>2. /\ list' \in Seq(Hooks) /\ DOMAIN list' = 1..Len(list')
        /\ \A i \in 1..Len(list') : i + 1 \in 1..Len(list) /\ list'[i] = list[i + 1]
    BY <1>1, <2>1, TailFacts
  <2>3. /\ batch' \in Seq(Hooks) /\ Len(batch') = Len(batch) + 1
        /\ DOMAIN batch' = 1..Len(batch) \cup {Len(batch) + 1}
        /\ batch'[Len(batch) + 1] = f
        /\ \A i \in 1..Len(batch) : batch'[i] = batch[i]
    BY <1>1, <1>2, <2>1
  <2>4. TypeOK'
    <3>1. \A i \in DOMAIN list' : list'[i] \in files
      BY <1>1, <2>2 DEF TypeOK
    <3>2. \A i \in DOMAIN batch' : batch'[i] \in files \cap full
      BY <1>1, <1>2, <1>3, <2>3 DEF TypeOK
    <3> QED BY <1>2, <2>1, <3>1, <3>2 DEF DrainRead, TypeOK, process, spool, bounds
  <2>5. Distinct'
    <3>1. \A i, j \in 1..Len(list') : i # j => list'[i] # list'[j]
      BY <1>1, <2>2 DEF Distinct
    <3>2. \A i \in 1..Len(list') : list'[i] # f
      BY <1>1, <1>2, <2>2 DEF Distinct
    <3>3. \A j \in 1..Len(batch) : batch[j] # f
      BY <1>1, <1>2 DEF Distinct
    <3>4. \A i \in 1..Len(batch') : i \in 1..Len(batch) \/ i = Len(batch) + 1
      BY <1>1, <2>3
    <3>5. \A i, j \in 1..Len(batch') : i # j => batch'[i] # batch'[j]
      BY <2>3, <3>3, <3>4 DEF Distinct
    <3>6. ASSUME NEW i \in 1..Len(list'), NEW j \in 1..Len(batch')
          PROVE  list'[i] # batch'[j]
      <4>1. i + 1 \in 1..Len(list) /\ list'[i] = list[i + 1]
        BY <2>2
      <4>2. CASE j \in 1..Len(batch)
        <5>1. batch'[j] = batch[j]
          BY <2>3, <4>2
        <5>2. list[i + 1] # batch[j]
          BY <4>1, <4>2 DEF Distinct
        <5> QED BY <4>1, <5>1, <5>2
      <4>3. CASE j = Len(batch) + 1
        <5>1. batch'[j] = f
          BY <2>3, <4>3
        <5> QED BY <3>2, <5>1
      <4> QED BY <3>4, <4>2, <4>3
    <3>7. \A i \in 1..Len(batch') : batch'[i] \in accepted'
      BY <2>1, <2>3, <3>4 DEF Distinct
    <3> QED BY <2>2, <2>3, <3>1, <3>5, <3>6, <3>7 DEF Distinct
  <2>6. Numbered' /\ Owned' /\ Stands' /\ AcceptedNotLost'
    BY <1>2, <1>3, <2>1 DEF DrainRead, Numbered, Owned, Stands, AcceptedNotLost, process, spool
  <2> QED BY <2>4, <2>5, <2>6
<1>4. CASE f \notin full
  <2>1. pc' = "quarantine" /\ UNCHANGED <<batch, accepted, list>>
    BY <1>4 DEF DrainRead
  <2>2. TypeOK'
    BY <2>1 DEF DrainRead, TypeOK, process, spool, bounds
  <2>3. f \notin accepted
    BY <1>4 DEF Owned
  <2>4. Numbered' /\ Owned' /\ Distinct' /\ Stands' /\ AcceptedNotLost'
    BY <1>1, <2>1, <2>3 DEF DrainRead, Numbered, Owned, Distinct, Stands, AcceptedNotLost,
                            process, spool
  <2> QED BY <2>2, <2>4
<1> QED BY <1>3, <1>4

\* The head of the list was read before its message was there, so it was never
\* returned, and nothing else in the round is that file.
LEMMA QuarantineKeeps ==
  ASSUME SpoolInv, DrainQuarantine
  PROVE  SpoolInv'
<1> USE DEF SpoolInv
<1> DEFINE f == Head(list)
<1>1. /\ list \in Seq(Hooks) /\ list # <<>> /\ batch \in Seq(Hooks)
      /\ DOMAIN list = 1..Len(list) /\ DOMAIN batch = 1..Len(batch)
      /\ f \notin accepted
  BY DEF DrainQuarantine, Distinct, Stands
<1>2. /\ f = list[1] /\ f \in Hooks /\ f \in files
      /\ list' = Tail(list) /\ list' \in Seq(Hooks) /\ DOMAIN list' = 1..Len(list')
      /\ Len(list') = Len(list) - 1 /\ Len(list) \in Nat \ {0}
      /\ \A i \in 1..Len(list') : i + 1 \in 1..Len(list) /\ list'[i] = list[i + 1]
  <2>1. list' = Tail(list)
    BY DEF DrainQuarantine
  <2>2. /\ f = list[1] /\ f \in Hooks /\ list' \in Seq(Hooks)
        /\ Len(list') = Len(list) - 1 /\ Len(list) \in Nat \ {0}
        /\ \A i \in 1..Len(list') : i + 1 \in 1..Len(list) /\ list'[i] = list[i + 1]
    BY <1>1, <2>1, TailFacts
  <2>3. 1 \in DOMAIN list
    BY <1>1, <2>2
  <2>4. f \in files
    BY <2>2, <2>3 DEF TypeOK
  <2>5. DOMAIN list' = 1..Len(list')
    BY <2>2
  <2> QED BY <2>1, <2>2, <2>4, <2>5
<1>3. /\ \A i \in 1..Len(list') : list'[i] # f
      /\ \A i \in 1..Len(batch) : batch[i] # f
  BY <1>1, <1>2 DEF Distinct
<1>4. TypeOK'
  <2>1. \A i \in DOMAIN list' : list'[i] \in files'
    BY <1>1, <1>2, <1>3 DEF DrainQuarantine, TypeOK
  <2>2. \A i \in DOMAIN batch' : batch'[i] \in files' \cap full'
    BY <1>1, <1>3 DEF DrainQuarantine, TypeOK
  <2> QED BY <1>2, <2>1, <2>2 DEF DrainQuarantine, TypeOK, process, bounds
<1>5. Distinct'
  <2>1. \A i, j \in 1..Len(list') : i # j => list'[i] # list'[j]
    BY <1>1, <1>2 DEF Distinct
  <2>2. \A i \in 1..Len(list'), j \in 1..Len(batch) : list'[i] # batch[j]
    BY <1>1, <1>2 DEF Distinct
  <2> QED BY <1>2, <2>1, <2>2 DEF DrainQuarantine, Distinct
<1>6. Numbered' /\ Owned' /\ Stands' /\ AcceptedNotLost'
  BY <1>1 DEF DrainQuarantine, Numbered, Owned, Stands, AcceptedNotLost, process
<1> QED BY <1>4, <1>5, <1>6

LEMMA ApplyKeeps ==
  ASSUME SpoolInv, DrainApply
  PROVE  SpoolInv'
<1> USE DEF SpoolInv
<1> DEFINE f == Head(batch)
<1>1. batch \in Seq(Hooks) /\ batch # <<>>
  BY DEF DrainApply, Distinct
<1>2. f = batch[1] /\ f \in Hooks /\ f \in accepted
  BY <1>1, TailFacts DEF Distinct
<1>3. row' \in RowType /\ handled' \subseteq Hooks
  BY <1>2, HandleType DEF DrainApply
<1>4. handled' = handled \cup {f}
  BY DEF DrainApply, Handle
<1>5. TypeOK'
  BY <1>3 DEF DrainApply, TypeOK, process, spool, bounds
<1>6. Numbered' /\ Owned' /\ Distinct' /\ Stands' /\ AcceptedNotLost'
  BY <1>1, <1>2, <1>4 DEF DrainApply, Numbered, Owned, Distinct, Stands, AcceptedNotLost,
                          process, spool
<1> QED BY <1>5, <1>6

\* Its message has been handled, and the others of the batch are other files.
LEMMA AckKeeps ==
  ASSUME SpoolInv, NEW removed \in BOOLEAN, DrainAck(removed)
  PROVE  SpoolInv'
<1> USE DEF SpoolInv
<1> DEFINE f == Head(batch)
<1>1. /\ batch \in Seq(Hooks) /\ batch # <<>> /\ list \in Seq(Hooks)
      /\ DOMAIN list = 1..Len(list) /\ DOMAIN batch = 1..Len(batch)
      /\ f \in handled
  BY DEF DrainAck, Distinct, Stands
<1>2. /\ f = batch[1]
      /\ batch' = Tail(batch) /\ batch' \in Seq(Hooks) /\ DOMAIN batch' = 1..Len(batch')
      /\ Len(batch') = Len(batch) - 1 /\ Len(batch) \in Nat \ {0}
      /\ \A i \in 1..Len(batch') : i + 1 \in 1..Len(batch) /\ batch'[i] = batch[i + 1]
  BY <1>1, TailFacts DEF DrainAck
<1>3. /\ \A i \in 1..Len(batch') : batch'[i] # f
      /\ \A i \in 1..Len(list) : list[i] # f
  BY <1>1, <1>2 DEF Distinct
<1>4. files' \in {files, files \ {f}} /\ fails' \in 0..MaxFails
  BY NotifySpoolAssumption DEF DrainAck, TypeOK
<1>5. TypeOK'
  <2>1. \A i \in DOMAIN list' : list'[i] \in files'
    BY <1>1, <1>3, <1>4 DEF DrainAck, TypeOK
  <2>2. \A i \in DOMAIN batch' : batch'[i] \in files' \cap full'
    BY <1>1, <1>2, <1>3, <1>4 DEF DrainAck, TypeOK
  <2> QED BY <1>4, <2>1, <2>2 DEF DrainAck, TypeOK, process
<1>6. Distinct'
  <2>1. \A i, j \in 1..Len(batch') : i # j => batch'[i] # batch'[j]
    BY <1>1, <1>2 DEF Distinct
  <2>2. \A i \in 1..Len(list), j \in 1..Len(batch') : list[i] # batch'[j]
    BY <1>1, <1>2 DEF Distinct
  <2>3. \A i \in 1..Len(batch') : batch'[i] \in accepted
    BY <1>1, <1>2 DEF Distinct
  <2> QED BY <1>1, <1>2, <2>1, <2>2, <2>3 DEF DrainAck, Distinct
<1>7. Numbered' /\ Owned' /\ Stands' /\ AcceptedNotLost'
  BY <1>1, <1>4 DEF DrainAck, Numbered, Owned, Stands, AcceptedNotLost, process
<1> QED BY <1>5, <1>6, <1>7

LEMMA RestKeeps ==
  ASSUME SpoolInv, DrainEnds \/ Persist \/ Crash \/ Restart
  PROVE  SpoolInv'
<1> USE DEF SpoolInv
<1>1. CASE DrainEnds
  BY <1>1 DEF DrainEnds, TypeOK, Numbered, Owned, Distinct, Stands, AcceptedNotLost,
              process, spool, bounds
<1>2. CASE Persist
  BY <1>2 DEF Persist, TypeOK, Numbered, Owned, Distinct, Stands, AcceptedNotLost,
              process, spool, drain, bounds
<1>3. CASE Crash
  <2>1. DOMAIN list' = {} /\ DOMAIN batch' = {} /\ Len(list') = 0 /\ Len(batch') = 0
    BY <1>3 DEF Crash
  <2>2. crashes' \in 0..MaxCrashes
    BY <1>3, NotifySpoolAssumption DEF Crash, TypeOK
  <2>3. TypeOK'
    BY <1>3, <2>1, <2>2 DEF Crash, TypeOK, process, spool
  <2>4. Numbered' /\ Owned' /\ Distinct' /\ Stands' /\ AcceptedNotLost'
    BY <1>3, <2>1 DEF Crash, Numbered, Owned, Distinct, Stands, AcceptedNotLost,
                      process, spool
  <2> QED BY <2>3, <2>4
<1>4. CASE Restart
  BY <1>4 DEF Restart, Up, TypeOK, Numbered, Owned, Distinct, Stands, AcceptedNotLost,
              process, spool, bounds
<1> QED BY <1>1, <1>2, <1>3, <1>4

-----------------------------------------------------------------------------
(* The theorems. *)

LEMMA NextSpoolInv == SpoolInv /\ [Next]_vars => SpoolInv'
<1> SUFFICES ASSUME SpoolInv, [Next]_vars PROVE SpoolInv'
  OBVIOUS
<1>1. ASSUME NEW e \in Events, NEW later \in BOOLEAN, Fire(e, later) PROVE SpoolInv'
  BY <1>1, FireKeeps
<1>2. CASE NotifyStep
  BY <1>2, NotifyKeeps DEF NotifyStep
<1>3. ASSUME NEW h \in conn, HandleConnection(h) PROVE SpoolInv'
  BY <1>3, ConnectionKeeps
<1>4. CASE DrainList \/ DrainRead \/ DrainQuarantine \/ DrainApply
  BY <1>4, ListKeeps, ReadKeeps, QuarantineKeeps, ApplyKeeps
<1>5. ASSUME NEW removed \in BOOLEAN, DrainAck(removed) PROVE SpoolInv'
  BY <1>5, AckKeeps
<1>6. CASE DrainEnds \/ Persist \/ Crash \/ Restart
  BY <1>6, RestKeeps
<1>7. CASE UNCHANGED vars
  BY <1>7 DEF SpoolInv, TypeOK, Numbered, Owned, Distinct, Stands, AcceptedNotLost,
              vars, process, spool, drain, bounds
<1> QED BY <1>1, <1>2, <1>3, <1>4, <1>5, <1>6, <1>7 DEF Next, DrainStep

\* Where hooks, files and the round of a drain stand to each other, through
\* every death, failed removal and quarantine.
THEOREM SpoolInvariant == Spec => []SpoolInv
<1> QED BY InitSpoolInv, NextSpoolInv, PTL DEF Spec

\* Every variable keeps its type, and a drain holds only files that are there:
\* whoever writes, dies or restarts, nobody else takes files out of the spool.
THEOREM SpoolTypeCorrect == Spec => []TypeOK
<1>1. SpoolInv => TypeOK
  BY DEF SpoolInv
<1> QED BY <1>1, SpoolInvariant, PTL

\* What drain_spool has returned as a message is applied, or whole in its file,
\* after every death, every file that stays and every quarantine.
THEOREM AcceptedIsKept == Spec => []AcceptedNotLost
<1>1. SpoolInv => AcceptedNotLost
  BY DEF SpoolInv
<1> QED BY <1>1, SpoolInvariant, PTL

\* A step of the spool is a step of AtLeastOnce or changes neither of its
\* variables.  The one step that is not obvious is the read of a file: it must
\* not make a message accepted that was delivered before, and it does not, for
\* what the socket delivers is never in a file.
LEMMA StepDelivers ==
  ASSUME SpoolInv, [Next]_vars
  PROVE  [Delivery!Next]_(Delivery!vars)
<1> DEFINE delivered == handled \cap accepted
<1> USE DEF SpoolInv
<1>1. CASE UNCHANGED <<handled, accepted>>
  BY <1>1 DEF Delivery!vars
<1>2. ASSUME NEW h \in conn, HandleConnection(h)
      PROVE  [Delivery!Next]_(Delivery!vars)
  <2>1. h \in Hooks /\ handled' = handled \cup {h} /\ accepted' = accepted
    BY <1>2 DEF HandleConnection, Handle, drain, TypeOK
  <2>2. CASE h \in accepted
    BY <2>1, <2>2 DEF Delivery!Next, Delivery!Deliver
  <2>3. CASE h \notin accepted
    BY <2>1, <2>3 DEF Delivery!vars
  <2> QED BY <2>2, <2>3
<1>3. CASE DrainRead /\ Head(list) \in full
  <2> DEFINE h == Head(list)
  <2>1. list \in Seq(Hooks) /\ list # <<>> /\ DOMAIN list = 1..Len(list)
    BY <1>3 DEF DrainRead, Distinct
  <2>2. h \in Hooks /\ h \in files
    BY <2>1, TailFacts DEF TypeOK
  <2>3. h \in handled => h \in accepted
    BY <2>2 DEF Owned
  <2>4. accepted' = accepted \cup {h} /\ handled' = handled
    BY <1>3 DEF DrainRead
  <2>5. handled' \cap accepted' = handled \cap accepted
    BY <2>3, <2>4
  <2> QED BY <2>2, <2>4, <2>5 DEF Delivery!Next, Delivery!Accept
<1>4. CASE DrainApply
  <2> DEFINE h == Head(batch)
  <2>1. h \in Hooks /\ h \in accepted
    BY <1>4, TailFacts DEF DrainApply, Distinct
  <2>2. handled' = handled \cup {h} /\ accepted' = accepted
    BY <1>4 DEF DrainApply, Handle
  <2> QED BY <2>1, <2>2 DEF Delivery!Next, Delivery!Deliver
<1>5. CASE DrainRead /\ Head(list) \notin full
  BY <1>1, <1>5 DEF DrainRead
<1>6. CASE NotifyStep \/ Persist \/ Crash \/ Restart
  BY <1>1, <1>6 DEF NotifyStep, Send, Create, Write, Kill, Persist, Crash, Restart, drain
<1>7. CASE DrainList \/ DrainQuarantine \/ DrainEnds \/ \E removed \in BOOLEAN : DrainAck(removed)
  BY <1>1, <1>7 DEF DrainList, DrainQuarantine, DrainEnds, DrainAck
<1>8. CASE \E e \in Events, later \in BOOLEAN : Fire(e, later)
  BY <1>1, <1>8 DEF Fire, drain
<1>9. CASE UNCHANGED vars
  BY <1>1, <1>9 DEF vars, drain
<1> QED BY <1>2, <1>3, <1>4, <1>5, <1>6, <1>7, <1>8, <1>9 DEF Next, DrainStep

\* The spool implements AtLeastOnce, but for its fairness: only what was
\* accepted is delivered, neither is taken back, and one message moves at a
\* time.
THEOREM SpoolRefines == Spec => Delivery!Init /\ [][Delivery!Next]_(Delivery!vars)
<1>1. Init => Delivery!Init
  BY DEF Init, Delivery!Init
<1>2. SpoolInv /\ [Next]_vars => [Delivery!Next]_(Delivery!vars)
  BY StepDelivers
<1> QED BY <1>1, <1>2, SpoolInvariant, PTL DEF Spec

-----------------------------------------------------------------------------
(* Whose row it is: the binding part. *)

\* Values of the binding part.
Sids    == Grok \cup Codex \cup Sub
Names   == Sids \cup {None}
Windows == 1..NumWindows
Files   == [sid : Sids, window : Windows, agent : Binds!Agent]
Rows    == [Windows -> [sid : Names, agent : Binds!Agent \cup {"none"}]]

LEMMA SidFacts ==
  /\ Binds!Sid = Sids /\ Binds!Window = Windows
  /\ Binds!Parent \in Grok /\ Binds!Parent \in Sids /\ Binds!Parent \notin Sub
  /\ Windows \subseteq Nat \ {0} /\ None \notin Sids
  /\ \A s \in Sids : Binds!AgentOf(s) \in Binds!Agent
  /\ \A s \in Grok \cup Sub : Binds!AgentOf(s) = "grok"
BY HookPathAssumption DEF Sids, Windows, Binds!Sid, Binds!Window, Binds!Parent, Binds!AgentOf,
   Binds!Agent

\* Every session has one env file.
OneFile(e) == \A i, j \in DOMAIN e : e[i].sid = e[j].sid => i = j

\* An env file says that s is in the pane of w.
Filed(e, w, s) == \E i \in DOMAIN e : e[i].sid = s /\ e[i].window = w

\* A file is taken out ...
LEMMA EnvWithoutFacts ==
  ASSUME env \in Seq(Files), OneFile(env), NEW s \in Sids
  PROVE  LET rest == Binds!EnvWithout(s)
         IN  /\ rest \in Seq(Files) /\ OneFile(rest)
             /\ \A i \in DOMAIN rest : rest[i].sid # s
             /\ \A v, t : Filed(rest, v, t) => Filed(env, v, t)
<1> DEFINE rest == Binds!EnvWithout(s)
<1>1. CASE Binds!EnvOf(s) = {}
  BY <1>1 DEF Binds!EnvWithout, Binds!EnvOf
<1>2. CASE Binds!EnvOf(s) # {}
  <2> DEFINE k == CHOOSE i \in Binds!EnvOf(s) : TRUE
             n == Len(env)
  <2>1. n \in Nat /\ DOMAIN env = 1..n /\ \A i \in 1..n : env[i] \in Files
    OBVIOUS
  <2>2. k \in Binds!EnvOf(s)
    BY <1>2
  <2>3. k \in 1..n /\ env[k].sid = s
    BY <2>1, <2>2 DEF Binds!EnvOf
  <2>4. rest = [i \in 1..n - 1 |-> IF i < k THEN env[i] ELSE env[i + 1]]
    BY <1>2 DEF Binds!EnvWithout
  <2> HIDE DEF k, n, rest
  <2>5. n - 1 \in Nat
    BY <2>1, <2>3
  <2>6. /\ DOMAIN rest = 1..n - 1
        /\ \A i \in 1..n - 1 : rest[i] = IF i < k THEN env[i] ELSE env[i + 1]
    BY <2>4
  <2>7. \A i \in 1..n - 1 : \E j \in 1..n : /\ rest[i] = env[j] /\ j # k
                                            /\ ((j = i /\ i < k) \/ (j = i + 1 /\ i >= k))
    BY <2>1, <2>3, <2>6
  <2>8. rest \in Seq(Files)
    <3>1. \A i \in 1..n - 1 : rest[i] \in Files
      BY <2>1, <2>7
    <3>2. rest \in [1..n - 1 -> Files]
      BY <2>4, <2>6, <3>1
    <3> QED BY <2>5, <3>2
  <2>9. OneFile(rest)
    <3> SUFFICES ASSUME NEW i \in 1..n - 1, NEW j \in 1..n - 1, rest[i].sid = rest[j].sid
                 PROVE  i = j
      BY <2>6 DEF OneFile
    <3>1. PICK a \in 1..n : rest[i] = env[a] /\ ((a = i /\ i < k) \/ (a = i + 1 /\ i >= k))
      BY <2>7
    <3>2. PICK b \in 1..n : rest[j] = env[b] /\ ((b = j /\ j < k) \/ (b = j + 1 /\ j >= k))
      BY <2>7
    <3>3. a = b
      BY <2>1, <3>1, <3>2 DEF OneFile
    <3> QED BY <2>1, <2>3, <3>1, <3>2, <3>3
  <2>10. \A i \in DOMAIN rest : rest[i].sid # s
    <3> SUFFICES ASSUME NEW i \in 1..n - 1, rest[i].sid = s PROVE FALSE
      BY <2>6
    <3>1. PICK j \in 1..n : rest[i] = env[j] /\ j # k
      BY <2>7
    <3> QED BY <2>1, <2>3, <3>1 DEF OneFile
  <2>11. \A v, t : Filed(rest, v, t) => Filed(env, v, t)
    BY <2>1, <2>6, <2>7 DEF Filed
  <2> QED BY <2>8, <2>9, <2>10, <2>11 DEF rest
<1> QED BY <1>1, <1>2

\* ... and put in again.
LEMMA EnvWrittenFacts ==
  ASSUME env \in Seq(Files), OneFile(env), NEW s \in Sids, NEW w \in Windows,
         NEW a \in Binds!Agent, Binds!EnvWritten(s, w, a)
  PROVE  /\ env' \in Seq(Files) /\ OneFile(env')
         /\ \A v, t : Filed(env', v, t) => Filed(env, v, t) \/ (v = w /\ t = s)
<1> DEFINE e == [sid |-> s, window |-> w, agent |-> a]
           rest == Binds!EnvWithout(s)
<1>1. CASE env' = env
  BY <1>1 DEF OneFile, Filed
<1>2. CASE env' = Append(rest, e)
  <2>1. /\ rest \in Seq(Files) /\ OneFile(rest)
        /\ \A i \in DOMAIN rest : rest[i].sid # s
        /\ \A v, t : Filed(rest, v, t) => Filed(env, v, t)
    BY EnvWithoutFacts
  <2>2. e \in Files /\ e.sid = s /\ e.window = w
    BY DEF Files
  <2> HIDE DEF e, rest
  <2>3. /\ env' \in Seq(Files) /\ DOMAIN env' = 1..Len(rest) + 1 /\ env'[Len(rest) + 1] = e
        /\ Len(rest) \in Nat /\ DOMAIN rest = 1..Len(rest)
        /\ \A i \in 1..Len(rest) : env'[i] = rest[i]
    BY <1>2, <2>1, <2>2
  <2>4. OneFile(env')
    BY <2>1, <2>2, <2>3 DEF OneFile
  <2>5. \A v, t : Filed(env', v, t) => Filed(rest, v, t) \/ (v = w /\ t = s)
    BY <2>2, <2>3 DEF Filed
  <2> QED BY <2>1, <2>3, <2>4, <2>5 DEF rest
<1> QED BY <1>1, <1>2 DEF Binds!EnvWritten

\* The youngest file of a pane is one of its files.
LEMMA FromIndexFacts ==
  ASSUME env \in Seq(Files), NEW w
  PROVE  LET s == Binds!FromIndex(w) IN s = None \/ (s \in Sids /\ Filed(env, w, s))
<1> DEFINE Youngest(i) == /\ env[i].window = w
                          /\ \A j \in DOMAIN env : env[j].window = w => j <= i
           k == CHOOSE i \in DOMAIN env : Youngest(i)
<1>1. CASE \E i \in DOMAIN env : Youngest(i)
  <2>1. k \in DOMAIN env /\ env[k].window = w
    BY <1>1
  <2>2. Binds!FromIndex(w) = env[k].sid
    BY <1>1 DEF Binds!FromIndex
  <2> HIDE DEF k
  <2>3. env[k] \in Files
    BY <2>1
  <2> QED BY <2>1, <2>2, <2>3 DEF Filed, Files
<1>2. CASE ~\E i \in DOMAIN env : Youngest(i)
  BY <1>2 DEF Binds!FromIndex
<1> QED BY <1>1, <1>2

-----------------------------------------------------------------------------
(* The inductive invariant of the binding part. *)

PollRec == [at : {"idle", "poll", "load", "merge"}, left : Seq(Windows), prior : Rows \cup {<<>>},
            fresh : [Windows -> Names] \cup {<<>>}, loaded : Names, merged : Rows \cup {<<>>}]

BindTypes ==
    /\ kind \in [Windows -> Binds!Agent] /\ home \in [Sids -> {0} \cup Windows]
    /\ known \subseteq {s \in Sids : home[s] # 0}
    /\ bound \in Rows
    /\ record \in [Windows -> Names] /\ entry \in [Windows -> Names]
    /\ queue \in [Windows -> Names]
    /\ env \in Seq(Files) /\ OneFile(env)
    /\ effects \subseteq [window : Windows, sid : Sids]
    /\ poll \in PollRec
    /\ poll.at # "idle" => poll.prior \in Rows
    /\ poll.at \in {"load", "merge"} => poll.fresh \in [Windows -> Names] /\ poll.merged \in Rows
    /\ poll.at = "merge" => poll.left # <<>>
    /\ count \in [hooks : Nat, forgets : Nat, early : SUBSET Sids]

\* A subagent that was known as one before its first hook.
Late == Sub \ count.early

NoCodexIn(w) == \A c \in Codex : home[c] # w

\* Where the daemon may take the session of a window from, but for its record.
Named(w, s) ==
    \/ bound[w].sid = s \/ entry[w] = s \/ queue[w] = s
    \/ [window |-> w, sid |-> s] \in effects
    \/ Filed(env, w, s)
    \/ (poll.at # "idle" /\ poll.prior[w].sid = s)
    \/ (poll.at \in {"load", "merge"} /\ (poll.fresh[w] = s \/ poll.merged[w].sid = s))

\* Such subagents stay known, so they get into neither manifest nor record.
LateKnown == \A w \in Windows, s \in Late : Named(w, s) => s \in known
KeptClean == \A w \in Windows : entry[w] \notin Late /\ record[w] \notin Late

\* A record is cleared of, or while it has, another agent's session only.
OwnRecord ==
    \A w \in Windows : NoCodexIn(w) =>
        /\ record[w] \notin Codex
        /\ (poll.at = "merge" /\ Head(poll.left) = w => poll.loaded \notin Codex)

\* The parent's first hook is in the record before any other place has it, ...
ParentRecorded ==
    \A w \in Windows :
        NoCodexIn(w) /\ kind[w] = "grok" /\ Named(w, Binds!Parent) => record[w] # None
\* ... so a poll that has copied the parent's row finds the record, ...
FreshOfParent ==
    \A w \in Windows :
        /\ poll.at \in {"load", "merge"} /\ NoCodexIn(w) /\ kind[w] = "grok"
        /\ poll.prior[w].sid = Binds!Parent
        => poll.fresh[w] \notin Late
\* ... and does not merge a subagent into it ...
MergedOfParent ==
    \A w \in Windows :
        poll.at \in {"load", "merge"} /\ NoCodexIn(w) /\ poll.merged[w].sid \in Late
        => poll.prior[w].sid # Binds!Parent
\* ... while the row is what it has copied.
Copied == \A w \in Windows : poll.at # "idle" /\ w \notin touched => bound[w] = poll.prior[w]

BindInv ==
    /\ BindTypes /\ LateKnown /\ KeptClean /\ OwnRecord /\ ParentRecorded
    /\ FreshOfParent /\ MergedOfParent /\ Copied

-----------------------------------------------------------------------------
(* Its steps. *)

LEMMA BindInit == Binds!Init => BindInv
<1> SUFFICES ASSUME Binds!Init PROVE BindInv
  OBVIOUS
<1>1. BindTypes
  BY SidFacts DEF Binds!Init, BindTypes, Rows, Names, Files, PollRec, Binds!Idle, Binds!NoRow,
     OneFile, Binds!Agent
<1>2. \A w \in Windows, s \in Sids : ~Named(w, s)
  BY SidFacts DEF Binds!Init, Named, Binds!Idle, Binds!NoRow, Filed
<1>3. \A w \in Windows : entry[w] = None /\ record[w] = None
  BY SidFacts DEF Binds!Init
<1>4. poll.at = "idle" /\ Sub \subseteq Sids /\ Codex \subseteq Sids
  BY DEF Binds!Init, Binds!Idle, Sids
<1> QED BY <1>1, <1>2, <1>3, <1>4, SidFacts
        DEF BindInv, LateKnown, KeptClean, OwnRecord, ParentRecorded, FreshOfParent,
            MergedOfParent, Copied, Late

\* Names come from places that had them, from the record and, for Codex, from
\* the directory.
Moved ==
    \A w \in Windows, s \in Sids :
        Named(w, s)' => Named(w, s) \/ record[w] = s \/ (kind[w] = "codex" /\ s \in Codex)
RecordStays == \A w \in Windows : NoCodexIn(w) /\ kind[w] = "grok" => record'[w] = record[w]

LEMMA MovedNames ==
  ASSUME BindInv, Moved, RecordStays, Late' = Late, kind' = kind, home' = home,
         known \subseteq known'
  PROVE  LateKnown' /\ ParentRecorded'
<1>1. LateKnown'
  <2> SUFFICES ASSUME NEW w \in Windows, NEW s \in Late, Named(w, s)' PROVE s \in known
    BY DEF LateKnown
  <2>1. s \in Sids /\ s \notin Codex
    BY HookPathAssumption DEF Late, Sids
  <2>2. record[w] # s
    BY DEF BindInv, KeptClean
  <2> QED BY <2>1, <2>2 DEF Moved, BindInv, LateKnown
<1>2. ParentRecorded'
  <2> SUFFICES ASSUME NEW w \in Windows, NoCodexIn(w), kind[w] = "grok",
                      Named(w, Binds!Parent)'
               PROVE  record'[w] # None
    BY DEF ParentRecorded, NoCodexIn
  <2> QED BY SidFacts DEF Moved, RecordStays, BindInv, ParentRecorded
<1> QED BY <1>1, <1>2

LEMMA WrittenKeeps ==
  ASSUME BindInv, NEW s \in Sids, Binds!Written(s)
  PROVE  BindInv'
<1>1. UNCHANGED <<kind, home, bound, record, entry, queue, env, effects, touched, poll, count>>
      /\ known' = known \cup {s} /\ home[s] # 0
  BY DEF Binds!Written
<1>2. Moved /\ RecordStays /\ Late' = Late
  BY <1>1 DEF Moved, RecordStays, Late, Named, Filed
<1>3. LateKnown' /\ ParentRecorded'
  BY <1>1, <1>2, MovedNames
<1>4. BindTypes'
  BY <1>1 DEF BindInv, BindTypes, OneFile
<1> QED BY <1>1, <1>2, <1>3, <1>4
        DEF BindInv, KeptClean, OwnRecord, FreshOfParent, MergedOfParent, Copied, NoCodexIn

LEMMA EffectsKeep ==
  ASSUME BindInv, Binds!HookEffects
  PROVE  BindInv'
<1>1. PICK e \in effects : /\ effects' = effects \ {e}
                           /\ Binds!EnvWritten(e.sid, e.window, Binds!AgentOf(e.sid))
                           /\ queue' = [queue EXCEPT ![e.window] = e.sid]
  BY DEF Binds!HookEffects
<1>2. UNCHANGED <<kind, home, known, bound, record, entry, touched, poll, count>>
  BY DEF Binds!HookEffects
<1>3. /\ e.sid \in Sids /\ e.window \in Windows /\ e = [window |-> e.window, sid |-> e.sid]
      /\ Named(e.window, e.sid)
  BY DEF BindInv, BindTypes, Named
<1>4. /\ env' \in Seq(Files) /\ OneFile(env')
      /\ \A v, t : Filed(env', v, t) => Filed(env, v, t) \/ (v = e.window /\ t = e.sid)
  BY <1>1, <1>3, SidFacts, EnvWrittenFacts DEF BindInv, BindTypes
<1>5. queue' \in [Windows -> Names]
      /\ \A w \in Windows : queue'[w] = queue[w] \/ (w = e.window /\ queue'[w] = e.sid)
  BY <1>1, <1>3 DEF BindInv, BindTypes, Names
<1>6. BindTypes'
  BY <1>1, <1>2, <1>4, <1>5 DEF BindInv, BindTypes
<1>7. Moved
  BY <1>1, <1>2, <1>3, <1>4, <1>5 DEF Moved, Named
<1>8. RecordStays /\ Late' = Late
  BY <1>2 DEF RecordStays, Late
<1>9. LateKnown' /\ ParentRecorded'
  BY <1>2, <1>7, <1>8, MovedNames
<1> QED BY <1>2, <1>6, <1>8, <1>9
        DEF BindInv, KeptClean, OwnRecord, FreshOfParent, MergedOfParent, Copied, NoCodexIn

LEMMA FlushKeeps ==
  ASSUME BindInv, NEW w0 \in Windows, Binds!Flush(w0)
  PROVE  BindInv'
<1>1. /\ queue[w0] # None
      /\ entry' = [entry EXCEPT ![w0] = IF Binds!KnownSub(queue[w0]) THEN @ ELSE queue[w0]]
      /\ queue' = [queue EXCEPT ![w0] = None]
      /\ UNCHANGED <<kind, home, known, bound, record, env, effects, touched, poll, count>>
  BY DEF Binds!Flush
<1>2. entry' \in [Windows -> Names] /\ queue' \in [Windows -> Names]
  BY <1>1 DEF BindInv, BindTypes, Names
<1>3. \A w \in Windows : /\ queue'[w] \in {queue[w], None}
                         /\ entry'[w] \in {entry[w], queue[w]}
  BY <1>1 DEF BindInv, BindTypes
<1>4. \A w \in Windows : entry'[w] \notin Late
  <2> SUFFICES ASSUME NEW w \in Windows, entry'[w] \in Late PROVE FALSE
    OBVIOUS
  <2>1. entry'[w] # entry[w]
    BY DEF BindInv, KeptClean
  <2>2. w = w0 /\ ~Binds!KnownSub(queue[w0]) /\ entry'[w] = queue[w0]
    BY <1>1, <2>1 DEF BindInv, BindTypes
  <2>3. queue[w0] \in known
    BY <2>2 DEF BindInv, LateKnown, Named
  <2> QED BY <2>2, <2>3 DEF Binds!KnownSub, Late
<1>5. BindTypes'
  BY <1>1, <1>2 DEF BindInv, BindTypes, OneFile
<1>6. Moved
  BY <1>1, <1>3, SidFacts DEF Moved, Named, Filed
<1>7. RecordStays /\ Late' = Late
  BY <1>1 DEF RecordStays, Late
<1>8. LateKnown' /\ ParentRecorded'
  BY <1>1, <1>6, <1>7, MovedNames
<1> QED BY <1>1, <1>4, <1>5, <1>7, <1>8
        DEF BindInv, KeptClean, OwnRecord, FreshOfParent, MergedOfParent, Copied, NoCodexIn

LEMMA CopiesKeep ==
  ASSUME BindInv, Binds!PollCopies
  PROVE  BindInv'
<1>1. /\ poll.at = "idle" /\ poll' = [Binds!Idle EXCEPT !.at = "poll", !.prior = bound]
      /\ touched' = {}
      /\ UNCHANGED <<kind, home, known, bound, record, entry, queue, env, effects, count>>
  BY DEF Binds!PollCopies
<1>2. poll' \in PollRec /\ poll'.at = "poll" /\ poll'.prior = bound
  <2>1. <<>> \in Seq(Windows)
    OBVIOUS
  <2> QED BY <1>1, <2>1 DEF Binds!Idle, PollRec, Names, BindInv, BindTypes
<1>3. BindTypes'
  BY <1>1, <1>2 DEF BindInv, BindTypes, OneFile
<1>4. Moved
  BY <1>1, <1>2 DEF Moved, Named, Filed
<1>5. RecordStays /\ Late' = Late
  BY <1>1 DEF RecordStays, Late
<1>6. LateKnown' /\ ParentRecorded'
  BY <1>1, <1>4, <1>5, MovedNames
<1> QED BY <1>1, <1>2, <1>3, <1>5, <1>6
        DEF BindInv, KeptClean, OwnRecord, FreshOfParent, MergedOfParent, Copied, NoCodexIn

\* poll_tmux takes a session from the record, the manifest or the env files, or
\* a thread of Codex.
LEMMA PolledFacts ==
  ASSUME BindInv, NEW f \in Binds!Polled
  PROVE  /\ f \in [Windows -> Names]
         /\ \A w \in Windows : \/ f[w] = None
                               \/ f[w] = Binds!Bound(w)
                               \/ kind[w] = "codex" /\ f[w] \in Codex
<1>1. f \in [Windows -> Names]
  BY SidFacts DEF Binds!Polled, Names
<1>2. ASSUME NEW w \in Windows
      PROVE  \/ f[w] = None \/ f[w] = Binds!Bound(w)
             \/ kind[w] = "codex" /\ f[w] \in Codex
  <2>1. PICK s \in Binds!Inferred(w, {f[v] : v \in {u \in Windows : u < w}}) :
               f[w] = Binds!Alive(w, s)
    BY SidFacts DEF Binds!Polled
  <2>2. f[w] \in {s, None}
    BY <2>1 DEF Binds!Alive
  <2>3. s = None \/ s = Binds!Bound(w) \/ (kind[w] = "codex" /\ s \in Codex)
    BY <2>1 DEF Binds!Inferred
  <2> QED BY <2>2, <2>3
<1> QED BY <1>1, <1>2

\* What is bound to a window is its record or has a name there.
LEMMA BoundFacts ==
  ASSUME BindInv, NEW w \in Windows
  PROVE  LET s == Binds!Bound(w) IN s = None \/ s = record[w] \/ (s \in Sids /\ Named(w, s))
<1>1. LET t == Binds!FromIndex(w) IN t = None \/ (t \in Sids /\ Named(w, t))
  BY FromIndexFacts DEF BindInv, BindTypes, Named
<1>2. entry[w] = None \/ (entry[w] \in Sids /\ Named(w, entry[w]))
  BY DEF BindInv, BindTypes, Names, Named
<1> QED BY <1>1, <1>2 DEF Binds!Bound, Binds!Filter, Binds!Or

\* In a window of its own agents only the record comes first.
LEMMA RecordFirst ==
  ASSUME BindInv, NEW w \in Windows, NoCodexIn(w), kind[w] = "grok", record[w] # None
  PROVE  Binds!Bound(w) = record[w] /\ record[w] \notin Late
<1>1. record[w] \in Grok \cup Sub /\ record[w] \notin Late
  BY DEF BindInv, BindTypes, OwnRecord, KeptClean, Names, Sids
<1>2. Binds!Matches(record[w], "grok")
  BY <1>1, SidFacts DEF Binds!Matches
<1> QED BY <1>1, <1>2 DEF Binds!Bound, Binds!Filter, Binds!Or

LEMMA TmuxKeeps ==
  ASSUME BindInv, Binds!PollTmux
  PROVE  BindInv'
<1>1. PICK f \in Binds!Polled :
        poll' = [poll EXCEPT !.at = "load", !.fresh = f, !.left = [w \in Windows |-> w],
                             !.merged = [w \in Windows |-> Binds!NoRow]]
  BY SidFacts DEF Binds!PollTmux
<1>2. /\ poll.at = "poll"
      /\ UNCHANGED <<kind, home, known, bound, record, entry, queue, env, effects, touched, count>>
  BY DEF Binds!PollTmux
<1>3. /\ f \in [Windows -> Names]
      /\ \A w \in Windows : f[w] = None \/ f[w] = Binds!Bound(w)
                            \/ (kind[w] = "codex" /\ f[w] \in Codex)
  BY PolledFacts
<1>4. [w \in Windows |-> w] \in Seq(Windows)
  BY HookPathAssumption DEF Windows
<1>5. [w \in Windows |-> Binds!NoRow] \in Rows
  BY DEF Rows, Binds!NoRow, Names
<1>6. /\ poll' \in PollRec /\ poll'.at = "load" /\ poll'.prior = poll.prior /\ poll'.fresh = f
      /\ poll'.merged = [w \in Windows |-> Binds!NoRow]
  BY <1>1, <1>3, <1>4, <1>5 DEF BindInv, BindTypes, PollRec
<1>7. BindTypes'
  BY <1>2, <1>3, <1>5, <1>6 DEF BindInv, BindTypes, OneFile
<1>8. Moved
  <2> SUFFICES ASSUME NEW w \in Windows, NEW s \in Sids, Named(w, s)'
               PROVE  Named(w, s) \/ record[w] = s \/ (kind[w] = "codex" /\ s \in Codex)
    BY DEF Moved
  <2>1. Named(w, s) \/ f[w] = s
    BY <1>2, <1>6, SidFacts DEF Named, Filed, Binds!NoRow
  <2> QED BY <1>3, <2>1, BoundFacts, SidFacts
<1>9. RecordStays /\ Late' = Late
  BY <1>2 DEF RecordStays, Late
<1>10. LateKnown' /\ ParentRecorded'
  BY <1>2, <1>8, <1>9, MovedNames
<1>11. FreshOfParent'
  <2> SUFFICES ASSUME NEW w \in Windows, NoCodexIn(w), kind[w] = "grok",
                      poll.prior[w].sid = Binds!Parent
               PROVE  f[w] \notin Late
    BY <1>2, <1>6, <1>9 DEF FreshOfParent, NoCodexIn
  <2>1. record[w] # None
    BY <1>2, SidFacts DEF BindInv, ParentRecorded, Named
  <2>2. f[w] = None \/ f[w] = record[w]
    BY <1>3, <2>1, RecordFirst
  <2> QED BY <2>2, SidFacts DEF BindInv, KeptClean, Late, Sids
<1>12. MergedOfParent'
  BY <1>2, <1>6, <1>9, SidFacts DEF MergedOfParent, Binds!NoRow, Late, Sids
<1> QED BY <1>2, <1>6, <1>7, <1>9, <1>10, <1>11, <1>12
        DEF BindInv, KeptClean, OwnRecord, Copied, NoCodexIn

LEMMA LoadsKeep ==
  ASSUME BindInv, Binds!PollLoads
  PROVE  BindInv'
<1>1. /\ poll.at = "load" /\ poll.left # <<>>
      /\ poll' = [poll EXCEPT !.at = "merge", !.loaded = record[Head(poll.left)]]
      /\ UNCHANGED <<kind, home, known, bound, record, entry, queue, env, effects, touched, count>>
  BY DEF Binds!PollLoads
<1>2. poll.left \in Seq(Windows) /\ Head(poll.left) \in Windows
  BY <1>1 DEF BindInv, BindTypes, PollRec
<1>3. /\ poll' \in PollRec /\ poll'.at = "merge" /\ poll'.prior = poll.prior
      /\ poll'.left = poll.left /\ poll'.fresh = poll.fresh /\ poll'.merged = poll.merged
      /\ poll'.loaded = record[Head(poll.left)]
  BY <1>1, <1>2 DEF BindInv, BindTypes, PollRec
<1>4. BindTypes'
  BY <1>1, <1>3 DEF BindInv, BindTypes, OneFile
<1>5. Moved
  BY <1>1, <1>3 DEF Moved, Named, Filed
<1>6. RecordStays /\ Late' = Late
  BY <1>1 DEF RecordStays, Late
<1>7. LateKnown' /\ ParentRecorded'
  BY <1>1, <1>5, <1>6, MovedNames
<1> QED BY <1>1, <1>3, <1>4, <1>6, <1>7
        DEF BindInv, KeptClean, OwnRecord, FreshOfParent, MergedOfParent, Copied, NoCodexIn

\* repair_session_managed_identity leaves a record of the window's agent.
LEMMA RepairedFacts ==
  ASSUME BindInv, NEW w \in Windows, poll.at = "merge", w = Head(poll.left),
         NEW bad, bad = {s \in {poll.loaded, poll.fresh[w]} :
                           s # None /\ ~Binds!Matches(s, kind[w])},
         NEW rec \in Binds!Repaired(w, bad, record[w])
  PROVE  /\ rec = None \/ rec = record[w]
         /\ NoCodexIn(w) /\ kind[w] = "grok" => rec = record[w]
<1>1. rec = None \/ rec = record[w]
  BY DEF Binds!Repaired
<1>2. ASSUME NoCodexIn(w), kind[w] = "grok" PROVE rec = record[w]
  <2>1. poll.loaded \notin Codex /\ record[w] \notin Codex
    BY <1>2 DEF BindInv, OwnRecord
  <2>2. poll.loaded \in Names /\ record[w] \in Names
    BY DEF BindInv, BindTypes, PollRec
  <2>3. poll.loaded \notin bad /\ record[w] \notin bad
    BY <1>2, <2>1, <2>2, SidFacts DEF Binds!Matches, Names, Sids
  <2> QED BY <2>3 DEF Binds!Repaired
<1> QED BY <1>1, <1>2

\* merge_session_refresh_state: what a row is bound to comes from the poll, the
\* record, the row before or, for a new row, the manifest.
LEMMA MergedFacts ==
  ASSUME BindInv, NEW w \in Windows, poll.at = "merge",
         NEW rec, rec = None \/ rec = record[w],
         NEW fresh, fresh = Binds!Filter(poll.fresh[w], kind[w])
  PROVE  LET s == Binds!Merged(w, fresh, rec)
         IN  /\ s = None \/ s = record[w] \/ (s \in Sids /\ Named(w, s))
             /\ poll.prior[w] # Binds!NoRow /\ s # None => Binds!Matches(s, kind[w])
<1> DEFINE s == Binds!Merged(w, fresh, rec)
<1>1. s \in {None, fresh, rec, poll.prior[w].sid, entry[w]}
  BY DEF Binds!Merged, Binds!Or, Binds!Filter
<1>2. /\ fresh = None \/ (fresh \in Sids /\ Named(w, fresh))
      /\ entry[w] = None \/ (entry[w] \in Sids /\ Named(w, entry[w]))
      /\ poll.prior[w].sid = None
           \/ (poll.prior[w].sid \in Sids /\ Named(w, poll.prior[w].sid))
  BY DEF Binds!Filter, Named, BindInv, BindTypes, Rows, Names
<1>3. poll.prior[w] # Binds!NoRow /\ s # None => Binds!Matches(s, kind[w])
  BY DEF Binds!Merged, Binds!Or, Binds!Filter
<1> QED BY <1>1, <1>2, <1>3

LEMMA MergesKeep ==
  ASSUME BindInv, Binds!PollMerges
  PROVE  /\ BindInv'
         /\ \A w \in Windows :
              Head(poll.left) = w /\ poll.prior[w] # Binds!NoRow
              => LET s == poll'.merged[w].sid IN s # None => Binds!Matches(s, kind[w])
<1> DEFINE w0 == Head(poll.left)
           fresh == Binds!Filter(poll.fresh[w0], kind[w0])
           bad == {s \in {poll.loaded, poll.fresh[w0]} : s # None /\ ~Binds!Matches(s, kind[w0])}
<1>1. PICK rec \in Binds!Repaired(w0, bad, record[w0]) :
        LET s == Binds!Merged(w0, fresh, rec)
        IN  /\ record' = [record EXCEPT ![w0] = rec]
            /\ poll' = [poll EXCEPT !.at = "load", !.left = Tail(@), !.loaded = None,
                                    !.merged[w0] = [sid |-> s, agent |-> kind[w0]]]
            /\ IF s # None /\ ~\E i \in Binds!EnvOf(s) : env[i].window = w0
               THEN Binds!EnvWritten(s, w0, kind[w0]) ELSE UNCHANGED env
  BY DEF Binds!PollMerges
<1>2. /\ poll.at = "merge"
      /\ UNCHANGED <<kind, home, known, bound, entry, queue, effects, touched, count>>
  BY DEF Binds!PollMerges
<1> DEFINE m == Binds!Merged(w0, fresh, rec)
<1>3. /\ poll.left \in Seq(Windows) /\ poll.left # <<>> /\ w0 \in Windows
      /\ Tail(poll.left) \in Seq(Windows) /\ kind[w0] \in Binds!Agent
      /\ poll.fresh \in [Windows -> Names] /\ poll.merged \in Rows /\ poll.prior \in Rows
  BY <1>2 DEF BindInv, BindTypes, PollRec
<1>4. /\ rec = None \/ rec = record[w0]
      /\ NoCodexIn(w0) /\ kind[w0] = "grok" => rec = record[w0]
  BY <1>2, <1>3, RepairedFacts
<1>5. /\ m = None \/ m = record[w0] \/ (m \in Sids /\ Named(w0, m))
      /\ poll.prior[w0] # Binds!NoRow /\ m # None => Binds!Matches(m, kind[w0])
  BY <1>2, <1>3, <1>4, MergedFacts
<1>6. record[w0] \in Names /\ m \in Names /\ rec \in Names
  BY <1>3, <1>4, <1>5 DEF BindInv, BindTypes, Names
<1>7. /\ record' = [record EXCEPT ![w0] = rec]
      /\ poll' = [poll EXCEPT !.at = "load", !.left = Tail(@), !.loaded = None,
                              !.merged[w0] = [sid |-> m, agent |-> kind[w0]]]
      /\ IF m # None /\ ~\E i \in Binds!EnvOf(m) : env[i].window = w0
         THEN Binds!EnvWritten(m, w0, kind[w0]) ELSE UNCHANGED env
  BY <1>1
<1> HIDE DEF m, fresh, bad, w0
<1>8. /\ env' \in Seq(Files) /\ OneFile(env')
      /\ \A v, t : Filed(env', v, t) => Filed(env, v, t) \/ (v = w0 /\ t = m)
  <2>1. CASE env' = env
    BY <2>1 DEF BindInv, BindTypes, OneFile, Filed
  <2>2. CASE m # None /\ Binds!EnvWritten(m, w0, kind[w0])
    <3>1. m \in Sids
      BY <1>6, <2>2 DEF Names
    <3> QED BY <1>3, <2>2, <3>1, EnvWrittenFacts DEF BindInv, BindTypes
  <2> QED BY <1>7, <2>1, <2>2
<1>9. /\ poll'.at = "load" /\ poll'.prior = poll.prior /\ poll'.fresh = poll.fresh
      /\ poll'.merged = [poll.merged EXCEPT ![w0] = [sid |-> m, agent |-> kind[w0]]]
  BY <1>7 DEF BindInv, BindTypes, PollRec
<1>10. poll'.merged \in Rows /\ poll' \in PollRec
  <2>1. poll'.merged \in Rows
    BY <1>3, <1>6, <1>9 DEF Rows
  <2>2. None \in Names
    BY DEF Names
  <2> QED BY <1>3, <1>7, <1>9, <2>1, <2>2 DEF BindInv, BindTypes, PollRec
<1>11. /\ \A w \in Windows : poll'.merged[w].sid = IF w = w0 THEN m ELSE poll.merged[w].sid
       /\ \A w \in Windows : record'[w] = IF w = w0 THEN rec ELSE record[w]
  BY <1>3, <1>7, <1>9 DEF Rows, BindInv, BindTypes
<1>12. record' \in [Windows -> Names]
  BY <1>6, <1>7 DEF BindInv, BindTypes
<1>13. BindTypes'
  BY <1>2, <1>3, <1>8, <1>9, <1>10, <1>12 DEF BindInv, BindTypes
<1>14. Moved
  <2> SUFFICES ASSUME NEW w \in Windows, NEW s \in Sids, Named(w, s)'
               PROVE  Named(w, s) \/ record[w] = s
    BY DEF Moved
  <2>1. Named(w, s) \/ (w = w0 /\ s = m)
    BY <1>2, <1>8, <1>9, <1>11 DEF Named
  <2> QED BY <1>5, <2>1, SidFacts
<1>15. RecordStays /\ Late' = Late
  BY <1>2, <1>4, <1>11 DEF RecordStays, Late
<1>16. LateKnown' /\ ParentRecorded'
  BY <1>2, <1>14, <1>15, MovedNames
<1>17. None \notin Late /\ None \notin Codex
  BY SidFacts DEF Late, Sids
<1>18. KeptClean' /\ OwnRecord'
  BY <1>2, <1>4, <1>9, <1>11, <1>15, <1>17 DEF KeptClean, OwnRecord, BindInv, NoCodexIn
<1>19. MergedOfParent'
  <2> SUFFICES ASSUME NEW w \in Windows, NoCodexIn(w), poll'.merged[w].sid \in Late,
                      poll.prior[w].sid = Binds!Parent
               PROVE  FALSE
    BY <1>2, <1>9, <1>15 DEF MergedOfParent, NoCodexIn
  <2>1. w = w0 /\ m \in Late
    BY <1>2, <1>11 DEF BindInv, MergedOfParent
  <2>2. m # record[w0] /\ m # None /\ Named(w0, m)
    BY <1>3, <1>5, <1>17, <2>1 DEF BindInv, KeptClean
  <2>3. m \in known /\ Binds!AgentOf(m) = "grok"
    BY <1>3, <2>1, <2>2, SidFacts DEF BindInv, LateKnown, Late
  <2>4. poll.prior[w0] # Binds!NoRow
    BY <2>1, SidFacts DEF Binds!NoRow
  <2>5. kind[w0] = "grok"
    BY <1>5, <2>2, <2>3, <2>4 DEF Binds!Matches
  <2>6. poll.fresh[w0] \notin Late
    BY <1>2, <1>3, <2>1, <2>5 DEF BindInv, FreshOfParent
  <2>7. m \in {None, poll.fresh[w0], record[w0], Binds!Parent}
    BY <1>4, <2>1, <2>4 DEF m, fresh, Binds!Merged, Binds!Filter, Binds!Or
  <2> QED BY <2>1, <2>2, <2>6, <2>7, SidFacts DEF Late
<1>20. FreshOfParent' /\ Copied'
  BY <1>2, <1>9, <1>15 DEF BindInv, FreshOfParent, Copied, NoCodexIn
<1>21. BindInv'
  BY <1>13, <1>16, <1>18, <1>19, <1>20 DEF BindInv
<1> QED BY <1>3, <1>5, <1>11, <1>21 DEF w0

LEMMA AppliesKeep ==
  ASSUME BindInv, Binds!PollApplies
  PROVE  /\ BindInv'
         /\ \A w \in Windows, s \in Late :
              bound[w].sid = Binds!Parent /\ bound'[w].sid = s => \E c \in Codex : home[c] = w
<1>1. /\ poll.at = "load"
      /\ bound' = [w \in Windows |-> IF w \in DOMAIN poll.merged /\ w \notin touched
                                     THEN poll.merged[w] ELSE bound[w]]
      /\ poll' = Binds!Idle /\ touched' = {}
      /\ UNCHANGED <<kind, home, known, record, entry, queue, env, effects, count>>
  BY SidFacts DEF Binds!PollApplies
<1>2. poll.merged \in Rows /\ bound \in Rows
  BY <1>1 DEF BindInv, BindTypes
<1>3. /\ bound' \in Rows
      /\ \A w \in Windows : \/ bound'[w] = bound[w]
                            \/ bound'[w] = poll.merged[w] /\ w \notin touched
  BY <1>1, <1>2 DEF Rows
<1>4. poll' \in PollRec /\ poll'.at = "idle"
  <2>1. <<>> \in Seq(Windows)
    OBVIOUS
  <2> QED BY <1>1, <2>1 DEF Binds!Idle, PollRec, Names
<1>5. BindTypes'
  BY <1>1, <1>3, <1>4 DEF BindInv, BindTypes, OneFile
<1>6. Moved
  BY <1>1, <1>3, <1>4 DEF Moved, Named, Filed
<1>7. RecordStays /\ Late' = Late
  BY <1>1 DEF RecordStays, Late
<1>8. LateKnown' /\ ParentRecorded'
  BY <1>1, <1>6, <1>7, MovedNames
<1>9. BindInv'
  BY <1>1, <1>4, <1>5, <1>7, <1>8
     DEF BindInv, KeptClean, OwnRecord, FreshOfParent, MergedOfParent, Copied, NoCodexIn
<1>10. ASSUME NEW w \in Windows, NEW s \in Late, bound[w].sid = Binds!Parent,
              bound'[w].sid = s, NoCodexIn(w)
       PROVE  FALSE
  <2>1. s # Binds!Parent
    BY SidFacts DEF Late
  <2>2. poll.merged[w].sid = s /\ w \notin touched
    BY <1>3, <1>10, <2>1
  <2>3. poll.prior[w].sid # Binds!Parent
    BY <1>1, <1>10, <2>2 DEF BindInv, MergedOfParent
  <2>4. bound[w] = poll.prior[w]
    BY <1>1, <2>2 DEF BindInv, Copied
  <2> QED BY <1>10, <2>3, <2>4
<1> QED BY <1>9, <1>10 DEF NoCodexIn

LEMMA ForgetKeeps ==
  ASSUME BindInv, Binds!Forget
  PROVE  BindInv' /\ \A w \in Windows : bound'[w].sid = None
<1>1. /\ count' = [count EXCEPT !.forgets = @ + 1]
      /\ bound' = [w \in Windows |-> Binds!NoRow]
      /\ queue' = [w \in Windows |-> None]
      /\ effects' = {} /\ touched' = {} /\ poll' = Binds!Idle
      /\ UNCHANGED <<kind, home, known, record, entry, env>>
  BY SidFacts DEF Binds!Forget
<1>2. count' \in [hooks : Nat, forgets : Nat, early : SUBSET Sids] /\ count'.early = count.early
  BY <1>1 DEF BindInv, BindTypes
<1>3. poll' \in PollRec /\ poll'.at = "idle"
  <2>1. <<>> \in Seq(Windows)
    OBVIOUS
  <2> QED BY <1>1, <2>1 DEF Binds!Idle, PollRec, Names
<1>4. bound' \in Rows /\ queue' \in [Windows -> Names] /\ \A w \in Windows : bound'[w].sid = None
  BY <1>1 DEF Rows, Names, Binds!NoRow
<1>5. BindTypes'
  BY <1>1, <1>2, <1>3, <1>4 DEF BindInv, BindTypes, OneFile
<1>6. Moved
  BY <1>1, <1>3, <1>4, SidFacts DEF Moved, Named, Filed
<1>7. RecordStays /\ Late' = Late
  BY <1>1, <1>2 DEF RecordStays, Late
<1>8. LateKnown' /\ ParentRecorded'
  BY <1>1, <1>6, <1>7, MovedNames
<1> QED BY <1>1, <1>3, <1>4, <1>5, <1>7, <1>8
        DEF BindInv, KeptClean, OwnRecord, FreshOfParent, MergedOfParent, Copied, NoCodexIn

\* handle_notify_inner: a hook gives its session to its row, and to the record
\* when it is of the window's agent and no known subagent.
LEMMA HookKeeps ==
  ASSUME BindInv, NEW w0 \in Windows, NEW s0 \in Sids,
         NEW hook \in {"session_start", "prompt", "tool", "stop"}, Binds!Hook(w0, s0, hook)
  PROVE  /\ BindInv'
         /\ \A w \in Windows, s \in Late' : bound[w].sid = Binds!Parent => bound'[w].sid # s
<1>1. /\ home[s0] = w0
      /\ IF bound[w0] = Binds!NoRow THEN hook \in {"session_start", "prompt"}
         ELSE Binds!Targets(w0, hook, s0)
      /\ bound' = [bound EXCEPT ![w0] =
            [sid |-> IF bound[w0] = Binds!NoRow \/ hook # "tool" THEN s0 ELSE @.sid,
             agent |-> Binds!AgentOf(s0)]]
      /\ record' = [record EXCEPT ![w0] = Binds!Recorded(w0, s0)]
      /\ touched' = IF poll.at = "idle" THEN {} ELSE touched \cup {w0}
      /\ effects' = effects \cup {[window |-> w0, sid |-> s0]} \/ effects' = effects
      /\ count' = [count EXCEPT !.hooks = @ + 1, !.early = @ \cup ({s0} \ known)]
      /\ UNCHANGED <<kind, home, known, entry, queue, env, poll>>
  BY DEF Binds!Hook
<1>2. /\ count' \in [hooks : Nat, forgets : Nat, early : SUBSET Sids]
      /\ count'.early = count.early \cup ({s0} \ known)
  <2>1. /\ count \in [hooks : Nat, forgets : Nat, early : SUBSET Sids]
        /\ count'.hooks = count.hooks + 1 /\ count'.forgets = count.forgets
        /\ count'.early = count.early \cup ({s0} \ known)
    BY <1>1 DEF BindInv, BindTypes
  <2> DEFINE early == count.early \cup ({s0} \ known)
  <2>2. early \in SUBSET Sids /\ count.hooks + 1 \in Nat
    BY <2>1
  <2>3. count' = [hooks |-> count.hooks + 1, forgets |-> count.forgets, early |-> early]
    BY <1>1, <2>1
  <2> QED BY <2>1, <2>2, <2>3
<1>3. /\ Late' \subseteq Late /\ (s0 \in Late' => s0 \in known)
      /\ Late \subseteq Sids /\ Late \subseteq Sub
  BY <1>2 DEF Late, Sids
<1>4. /\ bound' \in Rows
      /\ \A w \in Windows : /\ bound'[w].sid = bound[w].sid \/ (w = w0 /\ bound'[w].sid = s0)
                            /\ w # w0 => bound'[w] = bound[w]
  BY <1>1, SidFacts DEF BindInv, BindTypes, Rows, Names
<1>5. effects' \subseteq [window : Windows, sid : Sids]
  BY <1>1 DEF BindInv, BindTypes
<1>6. /\ record' \in [Windows -> Names]
      /\ \A w \in Windows : record'[w] = IF w = w0 THEN Binds!Recorded(w0, s0) ELSE record[w]
  BY <1>1 DEF BindInv, BindTypes, Binds!Recorded, Names
<1>7. BindTypes'
  BY <1>1, <1>2, <1>4, <1>5, <1>6 DEF BindInv, BindTypes, OneFile
<1>8. \A w \in Windows, s \in Sids : Named(w, s)' => Named(w, s) \/ (w = w0 /\ s = s0)
  BY <1>1, <1>4 DEF Named, Filed
<1>9. LateKnown'
  BY <1>1, <1>3, <1>8 DEF BindInv, LateKnown
<1>10. s0 \in Late' => Binds!KnownSub(s0)
  BY <1>3 DEF Binds!KnownSub
<1>11. KeptClean'
  BY <1>1, <1>3, <1>6, <1>10 DEF BindInv, KeptClean, Binds!Recorded
<1>12. OwnRecord'
  BY <1>1, <1>6 DEF BindInv, OwnRecord, Binds!Recorded, NoCodexIn
<1>13. ParentRecorded'
  <2> SUFFICES ASSUME NEW w \in Windows, NoCodexIn(w), kind[w] = "grok",
                      Named(w, Binds!Parent)'
               PROVE  record'[w] # None
    BY <1>1 DEF ParentRecorded, NoCodexIn
  <2>1. Binds!Recorded(w0, s0) \in {record[w0], s0} /\ s0 # None
    BY SidFacts DEF Binds!Recorded
  <2>2. CASE Named(w, Binds!Parent)
    BY <1>6, <2>1, <2>2 DEF BindInv, ParentRecorded
  <2>3. CASE w = w0 /\ s0 = Binds!Parent
    <3>1. ~Binds!KnownSub(s0) /\ Binds!Matches(s0, "grok")
      BY <2>3, SidFacts DEF Binds!KnownSub, Binds!Matches
    <3> QED BY <1>6, <2>1, <2>3, <3>1 DEF Binds!Recorded
  <2> QED BY <1>8, <2>2, <2>3, SidFacts
<1>14. FreshOfParent' /\ MergedOfParent'
  BY <1>1, <1>3 DEF BindInv, FreshOfParent, MergedOfParent, NoCodexIn
<1>15. Copied'
  BY <1>1, <1>4 DEF BindInv, Copied
<1>16. ASSUME NEW w \in Windows, NEW s \in Late', bound[w].sid = Binds!Parent, bound'[w].sid = s
       PROVE  FALSE
  <2>1. s # Binds!Parent /\ w = w0 /\ s = s0
    BY <1>3, <1>4, <1>16, SidFacts
  <2>2. bound[w0] # Binds!NoRow
    BY <1>16, <2>1, SidFacts DEF Binds!NoRow
  <2> QED BY <1>1, <1>10, <1>16, <2>1, <2>2 DEF Binds!Targets
<1> QED BY <1>7, <1>9, <1>11, <1>12, <1>13, <1>14, <1>15, <1>16 DEF BindInv

LEMMA IdleKeeps ==
  ASSUME BindInv, UNCHANGED bindVars
  PROVE  BindInv'
BY DEF bindVars, BindInv, BindTypes, LateKnown, KeptClean, OwnRecord, ParentRecorded,
   FreshOfParent, MergedOfParent, Copied, Late, NoCodexIn, Named, Filed, OneFile

\* A subagent known before its first hook never takes the row of its parent.
KeepsRow ==
    \A w \in Windows, s \in Late' :
        bound[w].sid = Binds!Parent /\ bound'[w].sid = s => \E c \in Codex : home[c] = w
\* A merge never leaves a row with another agent's session.
DropsForeign ==
    \A w \in Windows :
        poll.at = "merge" /\ Head(poll.left) = w /\ poll'.at = "load" /\ poll.prior[w] # Binds!NoRow
        => LET s == poll'.merged[w].sid IN s # None => Binds!Matches(s, kind[w])

LEMMA BindStep ==
  ASSUME BindInv, Binds!Next
  PROVE  BindInv' /\ KeepsRow /\ DropsForeign
<1> USE SidFacts
<1>1. \A w \in Windows, s \in Late : bound[w].sid = s => bound[w].sid # Binds!Parent
  BY DEF Late
<1>2. CASE \E s \in Binds!Sid : Binds!Written(s)
  <2>1. BindInv' /\ bound' = bound /\ poll' = poll /\ Late' = Late
    BY <1>2, WrittenKeeps DEF Binds!Written, Late
  <2> QED BY <1>1, <2>1 DEF KeepsRow, DropsForeign
<1>3. CASE Binds!HookEffects
  <2>1. BindInv' /\ bound' = bound /\ poll' = poll /\ Late' = Late
    BY <1>3, EffectsKeep DEF Binds!HookEffects, Late
  <2> QED BY <1>1, <2>1 DEF KeepsRow, DropsForeign
<1>4. CASE \E w \in Binds!Window : Binds!Flush(w)
  <2>1. BindInv' /\ bound' = bound /\ poll' = poll /\ Late' = Late
    BY <1>4, FlushKeeps DEF Binds!Flush, Late
  <2> QED BY <1>1, <2>1 DEF KeepsRow, DropsForeign
<1>5. CASE Binds!PollCopies \/ Binds!PollTmux \/ Binds!PollLoads
  <2>1. BindInv' /\ bound' = bound /\ poll.at # "merge" /\ Late' = Late
    BY <1>5, CopiesKeep, TmuxKeeps, LoadsKeep
       DEF Binds!PollCopies, Binds!PollTmux, Binds!PollLoads, Late
  <2> QED BY <1>1, <2>1 DEF KeepsRow, DropsForeign
<1>6. CASE Binds!PollMerges
  <2>1. bound' = bound /\ Late' = Late
    BY <1>6 DEF Binds!PollMerges, Late
  <2> QED BY <1>1, <1>6, <2>1, MergesKeep DEF KeepsRow, DropsForeign
<1>7. CASE Binds!PollApplies
  <2>1. poll.at # "merge" /\ Late' = Late
    BY <1>7 DEF Binds!PollApplies, Late
  <2> QED BY <1>7, <2>1, AppliesKeep DEF KeepsRow, DropsForeign
<1>8. CASE Binds!Forget
  <2>1. poll'.at # "load" /\ None \notin Late'
    BY <1>8 DEF Binds!Forget, Binds!Idle, Late, Sids
  <2> QED BY <1>8, <2>1, ForgetKeeps DEF KeepsRow, DropsForeign
<1>9. CASE \E w \in Binds!Window, s \in Binds!Sid,
              hook \in {"session_start", "prompt", "tool", "stop"} : Binds!Hook(w, s, hook)
  <2>1. poll' = poll
    BY <1>9 DEF Binds!Hook
  <2>2. BindInv' /\ \A w \in Windows, s \in Late' : bound[w].sid = Binds!Parent => bound'[w].sid # s
    BY <1>9, HookKeeps
  <2> QED BY <2>1, <2>2 DEF KeepsRow, DropsForeign
<1> QED BY <1>2, <1>3, <1>4, <1>5, <1>6, <1>7, <1>8, <1>9 DEF Binds!Next, Binds!Poll

LEMMA BindTypeOK == BindInv => Binds!TypeOK
<1> SUFFICES ASSUME BindInv PROVE Binds!TypeOK
  OBVIOUS
<1> QED BY SidFacts DEF BindInv, BindTypes, Rows, Names, OneFile, Binds!TypeOK

-----------------------------------------------------------------------------
(* Both parts. *)

PathInv == SpoolInv /\ BindInv

LEMMA PathStep ==
  ASSUME PathInv, [PathNext]_pathVars
  PROVE  PathInv' /\ [KeepsRow /\ DropsForeign]_bindVars
<1> USE DEF PathInv
<1>1. CASE Next /\ UNCHANGED bindVars
  BY <1>1, NextSpoolInv, IdleKeeps
<1>2. CASE Binds!Next /\ UNCHANGED vars
  BY <1>2, NextSpoolInv, BindStep
<1>3. CASE UNCHANGED pathVars
  <2>1. UNCHANGED vars /\ UNCHANGED bindVars
    BY <1>3 DEF pathVars
  <2> QED BY <2>1, NextSpoolInv, IdleKeeps
<1> QED BY <1>1, <1>2, <1>3 DEF PathNext

\* Both invariants hold in both parts: the part that does not run stays as it is.
THEOREM PathInvariant == PathSpec => []PathInv
<1>1. PathInit => PathInv
  BY InitSpoolInv, BindInit DEF PathInit, PathInv
<1>2. PathInv /\ [PathNext]_pathVars => PathInv'
  BY PathStep
<1> QED BY <1>1, <1>2, PTL DEF PathSpec

\* Spool and binding keep their types: rows, records, manifest and env files
\* name sessions that there are, and a session has one env file.
THEOREM PathTypeCorrect == PathSpec => []PathTypeOK
<1>1. PathInv => PathTypeOK
  BY BindTypeOK DEF PathInv, SpoolInv, PathTypeOK
<1> QED BY <1>1, PathInvariant, PTL

\* merge_session_refresh_state, hook_targets_session and
\* update_managed_agent_session_id: no poll leaves a row bound to a session known
\* to be another agent's, and a subagent that was known before its first hook
\* never takes the row of its parent, by whatever way, unless an agent of
\* another kind has run in the window.
THEOREM RowStaysWithAgent == PathSpec => RowKeepsItsAgent
<1>1. ASSUME PathInv, [PathNext]_pathVars
      PROVE  /\ [\A w \in Binds!Window, s \in Sub :
                    bound[w].sid = Binds!Parent /\ bound'[w].sid = s
                    => s \in count'.early \/ \E c \in Codex : home[c] = w]_(Binds!vars)
             /\ [DropsForeign]_(Binds!vars)
  BY <1>1, PathStep, SidFacts DEF KeepsRow, Late, Binds!vars, bindVars
<1>2. DropsForeign <=>
        \A w \in Binds!Window :
          poll.at = "merge" /\ Head(poll.left) = w /\ poll'.at = "load"
          /\ poll.prior[w] # Binds!NoRow
          => LET s == poll'.merged[w].sid IN s # None => Binds!Matches(s, kind[w])
  BY SidFacts DEF DropsForeign
<1> QED BY <1>1, <1>2, PathInvariant, PTL
        DEF PathSpec, RowKeepsItsAgent, Binds!RowKeepsItsAgent, Binds!PollDropsForeign,
            Binds!ParentKeepsRow

================================================================================
