----------------------------- MODULE SidebarProof -----------------------------
(***************************************************************************)
(* What a sidebar shows, keeps and opens.                                  *)
(*                                                                         *)
(* The feed, for any number of rows, sidebars, changes and restarts, and a *)
(* ring and a socket of any size: a sidebar never replaces what it shows   *)
(* of a row by something older of the same daemon.  A version gate is a    *)
(* look at one number, so what has to be true is that the number of an     *)
(* event says enough about each of its rows: whatever copy of a row exists *)
(* anywhere, no event that is as new as that copy carries an older one.    *)
(*                                                                         *)
(* The notes, for any number of notes, edits, kills and failed writes:     *)
(* nothing that was typed is off disk once a handler is done.              *)
(*                                                                         *)
(* The window, for any number of requests and dead panes: what was asked   *)
(* is shown, and `sessions up` reports success over a live window only.    *)
(***************************************************************************)
EXTENDS SidebarFeed, Parts, FiniteSetTheorems, TLAPS

-----------------------------------------------------------------------------
(* The feed *)

Elems(s) == {s[i] : i \in 1..Len(s)}

\* Every event that can still reach a sidebar.
Travelling ==
    {e \in Event \ {Down} :
       \/ e \in pending
       \/ \E b \in Bars : e \in Elems(queue[b]) \cup Elems(wire[b]) \cup Elems(batch[b])}

\* Every copy of a row: the daemon's, those under way and those shown.
Copies(r) ==
    {content[r]} \cup {bar[b].rows[r] : b \in Bars}
                 \cup {e.rows[r] : e \in {f \in Travelling : r \in DOMAIN f.rows}}

App == [version : 0..MaxVersion, rows : Content, reconnecting : BOOLEAN]

FeedType ==
    /\ up \in BOOLEAN
    /\ epoch \in 0..MaxEpoch
    /\ ~up => epoch < MaxEpoch
    /\ version \in 0..MaxVersion
    /\ content \in Content
    /\ pending \subseteq Event
    /\ sub \in [Bars -> {"none", "written", "listening"}]
    /\ lagged \in [Bars -> BOOLEAN]
    /\ queue \in [Bars -> Seq(Event)]
    /\ wire \in [Bars -> Seq(Event)]
    /\ batch \in [Bars -> Seq(Event)]
    /\ bar \in [Bars -> App]
    /\ \A b \in Bars : Len(queue[b]) <= Capacity

\* The daemon's copy of a row is the newest there is.
NewestAtDaemon ==
    \A r \in Rows :
       /\ content[r].epoch = epoch /\ content[r].at <= version
       /\ \A c \in Copies(r) : c.epoch <= epoch /\ (c.epoch = epoch => c.at <= content[r].at)

\* An event is numbered no lower than the rows it carries, and no higher than
\* the daemon that made it has come.
NumberedAsMade ==
    \A e \in Travelling : \A r \in DOMAIN e.rows :
       e.rows[r].at <= e.version /\ (e.rows[r].epoch = epoch => e.version <= version)

\* An event that is as new as some copy of a row carries no older one.
GateIsEnough ==
    \A e \in Travelling : \A r \in DOMAIN e.rows : \A c \in Copies(r) :
       c.epoch = e.rows[r].epoch /\ c.at <= e.version => c.at <= e.rows[r].at

\* What a sidebar shows is not newer than the version it stands at.
ShownByVersion == \A b \in Bars, r \in Rows : bar[b].rows[r].at <= bar[b].version

FeedOrder == NewestAtDaemon /\ NumberedAsMade /\ GateIsEnough /\ ShownByVersion

FeedInv == FeedType /\ FeedOrder

-----------------------------------------------------------------------------
(* Sequences and events                                                      *)

\* What the operators on sequences do to the elements of one.
LEMMA AppendElems ==
  ASSUME NEW S, NEW s \in Seq(S), NEW e \in S
  PROVE  /\ Append(s, e) \in Seq(S)
         /\ Len(Append(s, e)) = Len(s) + 1
         /\ Elems(Append(s, e)) = Elems(s) \cup {e}
<1>1. /\ Append(s, e) \in Seq(S)
      /\ Len(s) \in Nat /\ Len(Append(s, e)) = Len(s) + 1
      /\ \A i \in 1..Len(s) : Append(s, e)[i] = s[i]
      /\ Append(s, e)[Len(s) + 1] = e
  OBVIOUS
<1>2. 1..(Len(s) + 1) = (1..Len(s)) \cup {Len(s) + 1}
  BY <1>1
<1> QED BY <1>1, <1>2 DEF Elems

LEMMA TailElems ==
  ASSUME NEW S, NEW s \in Seq(S), s # <<>>
  PROVE  /\ Head(s) \in S /\ Head(s) \in Elems(s)
         /\ Tail(s) \in Seq(S)
         /\ Len(s) \in Nat \ {0} /\ Len(Tail(s)) = Len(s) - 1
         /\ Elems(Tail(s)) \subseteq Elems(s)
<1>1. /\ Head(s) \in S /\ Head(s) = s[1]
      /\ Tail(s) \in Seq(S)
      /\ Len(s) \in Nat \ {0} /\ Len(Tail(s)) = Len(s) - 1
      /\ \A i \in 1..Len(Tail(s)) : i + 1 \in 1..Len(s) /\ Tail(s)[i] = s[i + 1]
  OBVIOUS
<1>2. 1 \in 1..Len(s)
  BY <1>1
<1> QED BY <1>1, <1>2 DEF Elems

LEMMA SubSeqElems ==
  ASSUME NEW S, NEW s \in Seq(S), NEW n \in 1..Len(s)
  PROVE  /\ SubSeq(s, 1, n) \in Seq(S) /\ Len(SubSeq(s, 1, n)) = n
         /\ \A i \in 1..n : SubSeq(s, 1, n)[i] = s[i] /\ i \in 1..Len(s)
         /\ SubSeq(s, n + 1, Len(s)) \in Seq(S)
         /\ Elems(SubSeq(s, n + 1, Len(s))) \subseteq Elems(s)
<1>1. Len(s) \in Nat /\ n \in Nat
  OBVIOUS
<1>2. /\ SubSeq(s, 1, n) \in Seq(S) /\ Len(SubSeq(s, 1, n)) = n
      /\ \A i \in 1..n : SubSeq(s, 1, n)[i] = s[i] /\ i \in 1..Len(s)
  BY <1>1
<1> DEFINE t == SubSeq(s, n + 1, Len(s))
<1>3. /\ t \in Seq(S) /\ Len(t) = Len(s) - n
      /\ \A i \in 1..Len(t) : n + i \in 1..Len(s) /\ t[i] = s[n + i]
  BY <1>1
<1> QED BY <1>2, <1>3 DEF Elems

\* The fields of an event.
LEMMA EventFacts ==
  ASSUME NEW e \in Event \ {Down}
  PROVE  /\ e.kind \in {"snapshot", "patch"}
         /\ e.version \in 0..MaxVersion
         /\ DOMAIN e.rows \subseteq Rows
         /\ \A r \in DOMAIN e.rows : e.rows[r] \in Cell
         /\ e.kind = "snapshot" => e.rows \in Content
         /\ IsEvent(e)
<1>1. CASE e \in Snapshot
  BY <1>1 DEF Snapshot, Content, IsEvent
<1>2. CASE e \in Patch
  <2>1. PICK r \in Rows : e \in [kind : {"patch"}, version : 0..MaxVersion, rows : [{r} -> Cell]]
    BY <1>2 DEF Patch
  <2> QED BY <2>1 DEF IsEvent
<1> QED BY <1>1, <1>2 DEF Event

LEMMA DownFacts == Down \in Event /\ Down.kind = "down" /\ IsEvent(Down)
  BY DEF Event, Down, IsEvent

LEMMA SnapshotMade ==
  ASSUME NEW c \in Content, NEW v \in 0..MaxVersion
  PROVE  /\ SnapshotEvent(c, v) \in Event \ {Down}
         /\ SnapshotEvent(c, v).version = v /\ SnapshotEvent(c, v).rows = c
         /\ DOMAIN SnapshotEvent(c, v).rows = Rows
<1>1. SnapshotEvent(c, v) \in Snapshot /\ SnapshotEvent(c, v).kind = "snapshot"
  BY DEF SnapshotEvent, Snapshot
<1>2. SnapshotEvent(c, v) # Down
  BY <1>1, DownFacts
<1> QED BY <1>1, <1>2 DEF SnapshotEvent, Event, Content

LEMMA PatchMade ==
  ASSUME NEW r \in Rows, NEW c \in Cell, NEW v \in 0..MaxVersion
  PROVE  /\ PatchEvent(r, c, v) \in Event \ {Down}
         /\ PatchEvent(r, c, v).version = v
         /\ DOMAIN PatchEvent(r, c, v).rows = {r} /\ PatchEvent(r, c, v).rows[r] = c
<1>1. PatchEvent(r, c, v) \in Patch /\ PatchEvent(r, c, v).kind = "patch"
  BY DEF PatchEvent, Patch
<1>2. PatchEvent(r, c, v) # Down
  BY <1>1, DownFacts
<1> QED BY <1>1, <1>2 DEF PatchEvent, Event

\* The rows a change leaves.
LEMMA ChangedFacts ==
  ASSUME FeedType, NewestAtDaemon, NEW S \in SUBSET Rows, NEW On \in SUBSET Rows,
         version + epoch < MaxVersion
  PROVE  /\ version + 1 \in 0..MaxVersion
         /\ Changed(S, On) \in Content
         /\ \A r \in Rows : Changed(S, On)[r] = content[r]
               \/ (Changed(S, On)[r].epoch = epoch /\ Changed(S, On)[r].at = version + 1)
<1>1. version + 1 \in 0..MaxVersion /\ MaxVersion \in Nat /\ epoch \in Nat
  BY SidebarFeedAssumption DEF FeedType
<1>2. \A r \in Rows : [on |-> r \in On, epoch |-> epoch, at |-> version + 1] \in Cell
  BY <1>1 DEF FeedType, Cell
<1>3. \A r \in Rows : content[r] \in Cell
  BY DEF FeedType, Content
<1> QED BY <1>1, <1>2, <1>3 DEF Changed, Content

\* A batch has nothing that was not on the wire.
LEMMA OrdersFacts ==
  ASSUME NEW s \in Seq(Event), NEW n \in 1..Len(s), NEW p \in Orders(SubSeq(s, 1, n))
  PROVE  /\ [k \in DOMAIN p |-> s[p[k]]] \in Seq(Event)
         /\ Elems([k \in DOMAIN p |-> s[p[k]]]) \subseteq Elems(s)
<1> DEFINE t == SubSeq(s, 1, n)
           m == Cardinality(Kept(t))
           q == [k \in DOMAIN p |-> s[p[k]]]
<1>1. Len(s) \in Nat /\ n \in Nat /\ t \in Seq(Event) /\ DOMAIN t = 1..n
  BY SubSeqElems
<1>2. Kept(t) \subseteq 1..n
  BY <1>1 DEF Kept
<1>3. m \in Nat
  <2>1. IsFiniteSet(1..n)
    BY <1>1, FS_Interval
  <2> QED BY <1>2, <2>1, FS_Subset, FS_CardinalityType
<1>4. p \in [1..m -> Kept(t)]
  BY DEF Orders
<1>5. DOMAIN p = 1..m /\ \A k \in 1..m : p[k] \in 1..Len(s) /\ q[k] = s[p[k]] /\ q[k] \in Event
  BY <1>1, <1>2, <1>4
<1>6. q \in [1..m -> Event]
  BY <1>5
<1>7. q \in Seq(Event) /\ Len(q) = m
  BY <1>3, <1>6
<1> QED BY <1>5, <1>7 DEF Elems

-----------------------------------------------------------------------------
(* What every step but a restart has in common                               *)

Sources(b) == pending \cup Elems(queue[b]) \cup Elems(wire[b]) \cup Elems(batch[b])

\* An event of the rows as they are after the step.
MadeNow(e) == e.version = version' /\ \A r \in DOMAIN e.rows : e.rows[r] = content'[r]

\* Rows change by taking the next version.
RowsMoveOn ==
    /\ epoch' = epoch
    /\ version' = version \/ version' = version + 1
    /\ \A r \in Rows :
          \/ content'[r] = content[r]
          \/ /\ version' = version + 1
             /\ content'[r].epoch = epoch /\ content'[r].at = version'

\* No event comes from nowhere.
EventsMoveOn ==
    /\ \A e \in pending' : e \in pending \/ MadeNow(e)
    /\ \A b \in Bars : \A e \in Sources(b)' : e \in Sources(b) \/ e = Down \/ MadeNow(e)

\* A sidebar shows what it showed, or the row of an event.
BarsMoveOn ==
    \A b \in Bars, r \in Rows :
       /\ \/ bar'[b].rows[r] = bar[b].rows[r]
          \/ \E e \in Travelling : /\ r \in DOMAIN e.rows /\ bar'[b].rows[r] = e.rows[r]
                                  /\ bar[b].version <= e.version
       /\ bar'[b].rows[r].at <= bar'[b].version

LEMMA CopyFacts ==
  ASSUME FeedType, NEW r \in Rows, NEW c \in Copies(r)
  PROVE  c \in Cell /\ c.epoch \in Nat /\ c.at \in Nat
<1>1. c \in Cell
  <2>1. content[r] \in Cell /\ \A b \in Bars : bar[b].rows[r] \in Cell
    BY DEF FeedType, Content, App
  <2>2. \A e \in Travelling : r \in DOMAIN e.rows => e.rows[r] \in Cell
    BY EventFacts DEF Travelling
  <2> QED BY <2>1, <2>2 DEF Copies
<1> QED BY <1>1, SidebarFeedAssumption DEF Cell

LEMMA OrderMovesOn ==
  ASSUME FeedInv, FeedType', RowsMoveOn, EventsMoveOn, BarsMoveOn
  PROVE  FeedOrder'
<1> USE DEF FeedInv, FeedOrder
<1>1. \A e \in Travelling' : e \in Travelling \/ MadeNow(e)
  <2> TAKE e \in Travelling'
  <2>1. e \in Event \ {Down}
    BY DEF Travelling
  <2>2. CASE e \in pending'
    BY <2>1, <2>2 DEF EventsMoveOn, Travelling
  <2>3. CASE \E b \in Bars : e \in (Elems(queue[b]) \cup Elems(wire[b]) \cup Elems(batch[b]))'
    <3>1. PICK b \in Bars : e \in Sources(b)'
      BY <2>3 DEF Sources
    <3>2. e \in Sources(b) \/ MadeNow(e)
      BY <2>1, <3>1 DEF EventsMoveOn
    <3> QED BY <2>1, <3>2 DEF Travelling, Sources
  <2> QED BY <2>2, <2>3 DEF Travelling
<1>2. \A r \in Rows : \A c \in Copies(r)' : c \in Copies(r) \/ c = content'[r]
  BY <1>1 DEF Copies, RowsMoveOn, BarsMoveOn, MadeNow
<1>3. /\ version \in Nat /\ version' \in Nat /\ epoch \in Nat /\ epoch' = epoch
      /\ version <= version'
  BY SidebarFeedAssumption DEF FeedType, RowsMoveOn
<1>4. \A r \in Rows :
        /\ content[r] \in Copies(r) /\ content[r].at \in Nat
        /\ content'[r].at \in Nat /\ content[r].at <= content'[r].at
        /\ content'[r].epoch = epoch /\ content'[r].at <= version'
  BY <1>3, CopyFacts DEF Copies, RowsMoveOn, NewestAtDaemon
<1>5. NewestAtDaemon'
  BY <1>2, <1>3, <1>4, CopyFacts DEF NewestAtDaemon
<1>6. \A e \in Travelling' : \A r \in DOMAIN e.rows : r \in Rows /\ e.version \in Nat
                                                    /\ e.rows[r].at \in Nat /\ e.rows[r].epoch \in Nat
  BY EventFacts, SidebarFeedAssumption DEF Travelling, Cell
<1>7. NumberedAsMade'
  BY <1>1, <1>3, <1>4, <1>6 DEF NumberedAsMade, MadeNow
<1>8. GateIsEnough'
  <2> SUFFICES ASSUME NEW e \in Travelling', NEW r \in DOMAIN e.rows, NEW c \in Copies(r)',
                      c.epoch = e.rows[r].epoch, c.at <= e.version
               PROVE  c.at <= e.rows[r].at
    BY DEF GateIsEnough
  <2>1. r \in Rows /\ e.version \in Nat /\ e.rows[r].at \in Nat
    BY <1>6
  <2>2. CASE MadeNow(e)
    BY <1>5, <2>1, <2>2, <1>4 DEF MadeNow, NewestAtDaemon
  <2>3. CASE e \in Travelling /\ c \in Copies(r)
    BY <2>3 DEF GateIsEnough
  <2>4. CASE e \in Travelling /\ c = content'[r] /\ content'[r] # content[r]
    BY <1>3, <1>4, <2>1, <2>4 DEF NumberedAsMade, RowsMoveOn
  <2> QED BY <1>1, <1>2, <1>4, <2>1, <2>2, <2>3, <2>4
<1>9. ShownByVersion'
  BY DEF BarsMoveOn, ShownByVersion
<1> QED BY <1>5, <1>7, <1>8, <1>9

MovesOn == FeedType' /\ RowsMoveOn /\ EventsMoveOn /\ BarsMoveOn

\* What does not touch the rows, or the sidebars, of course keeps them.
LEMMA RowsStay ==
  ASSUME UNCHANGED <<epoch, version, content>>
  PROVE  RowsMoveOn
  BY DEF RowsMoveOn

LEMMA BarsStay ==
  ASSUME ShownByVersion, UNCHANGED bar
  PROVE  BarsMoveOn
  BY DEF BarsMoveOn, ShownByVersion

-----------------------------------------------------------------------------
(* The daemon                                                                *)

\* A change with the event it makes, if any.
LEMMA ChangeMovesOn ==
  ASSUME FeedInv, NEW S \in SUBSET Rows, NEW On \in SUBSET S, NEW E \in SUBSET (Event \ {Down}),
         version + epoch < MaxVersion, version' = version + 1, content' = Changed(S, On),
         pending' = pending \cup E, \A e \in E : MadeNow(e),
         UNCHANGED <<up, epoch, feed, wire, batch, bar>>
  PROVE  MovesOn
<1> USE DEF FeedInv, FeedOrder
<1>1. On \in SUBSET Rows
  OBVIOUS
<1>2. /\ version + 1 \in 0..MaxVersion /\ content' \in Content
      /\ \A r \in Rows : content'[r] = content[r]
            \/ (content'[r].epoch = epoch /\ content'[r].at = version + 1)
  BY <1>1, ChangedFacts
<1>3. FeedType'
  BY <1>2 DEF FeedType, feed
<1>4. RowsMoveOn
  BY <1>2 DEF RowsMoveOn
<1>5. EventsMoveOn
  BY DEF EventsMoveOn, Sources, feed
<1>6. BarsMoveOn
  BY BarsStay
<1> QED BY <1>3, <1>4, <1>5, <1>6 DEF MovesOn

LEMMA RowPatchedMoves ==
  ASSUME FeedInv, NEW r \in Rows, RowPatched(r)
  PROVE  MovesOn
<1> DEFINE e == PatchEvent(r, content'[r], version')
<1>1. content' \in Content /\ version' \in 0..MaxVersion
  BY ChangedFacts DEF RowPatched, FeedInv, FeedOrder
<1>2. content'[r] \in Cell
  BY <1>1 DEF Content
<1>3. e \in Event \ {Down} /\ MadeNow(e)
  BY <1>1, <1>2, PatchMade DEF MadeNow
<1> HIDE DEF e
<1>4. {e} \in SUBSET (Event \ {Down}) /\ \A x \in {e} : MadeNow(x)
  BY <1>3
<1>5. pending' = pending \cup {e}
  BY DEF RowPatched, e
<1> QED BY <1>4, <1>5, ChangeMovesOn DEF RowPatched

LEMMA RowsChangedMoves ==
  ASSUME FeedInv, NEW S \in SUBSET Rows, NEW On \in SUBSET S, RowsChanged(S, On)
  PROVE  MovesOn
<1> DEFINE e == SnapshotEvent(content', version')
<1>1. content' \in Content /\ version' \in 0..MaxVersion
  BY ChangedFacts DEF RowsChanged, FeedInv, FeedOrder
<1>2. e \in Event \ {Down} /\ MadeNow(e)
  BY <1>1, SnapshotMade DEF MadeNow
<1> HIDE DEF e
<1>3. {e} \in SUBSET (Event \ {Down}) /\ \A x \in {e} : MadeNow(x)
  BY <1>2
<1>4. pending' = pending \cup {e}
  BY DEF RowsChanged, e
<1> QED BY <1>3, <1>4, ChangeMovesOn DEF RowsChanged

LEMMA BootingRefreshMoves ==
  ASSUME FeedInv, NEW S \in SUBSET Rows, NEW On \in SUBSET S, BootingRefresh(S, On)
  PROVE  MovesOn
<1>1. {} \in SUBSET (Event \ {Down}) /\ pending' = pending \cup {}
  BY DEF BootingRefresh
<1> QED BY <1>1, ChangeMovesOn DEF BootingRefresh

LEMMA RefreshUnchangedMoves ==
  ASSUME FeedInv, RefreshUnchanged
  PROVE  MovesOn
<1> USE DEF FeedInv, FeedOrder, RefreshUnchanged
<1> DEFINE e == SnapshotEvent(content, version)
<1>1. e \in Event \ {Down} /\ MadeNow(e)
  BY SnapshotMade DEF MadeNow, FeedType
<1> HIDE DEF e
<1>2. pending' = pending \cup {e}
  BY DEF e
<1>3. FeedType'
  BY <1>1, <1>2 DEF FeedType, feed
<1>4. EventsMoveOn
  BY <1>1, <1>2 DEF EventsMoveOn, Sources, feed
<1> QED BY <1>3, <1>4, RowsStay, BarsStay DEF MovesOn

\* A full ring gives up its oldest event.
LEMMA BroadcastFacts ==
  ASSUME NEW q \in Seq(Event), NEW e \in Event, Len(q) <= Capacity
  PROVE  /\ Broadcast(q, e) \in Seq(Event)
         /\ Len(Broadcast(q, e)) <= Capacity
         /\ Elems(Broadcast(q, e)) \subseteq Elems(q) \cup {e}
<1>1. Capacity \in Nat \ {0} /\ Len(q) \in Nat
  BY SidebarFeedAssumption
<1>2. CASE Len(q) < Capacity
  BY <1>1, <1>2, AppendElems DEF Broadcast
<1>3. CASE ~(Len(q) < Capacity)
  <2>1. q # <<>> /\ Len(q) = Capacity
    BY <1>1, <1>3
  <2> DEFINE t == Tail(q)
  <2>2. t \in Seq(Event) /\ Len(t) = Capacity - 1 /\ Elems(t) \subseteq Elems(q)
    BY <2>1, TailElems
  <2>3. Broadcast(q, e) = Append(t, e)
    BY <1>3 DEF Broadcast
  <2> HIDE DEF t
  <2>4. /\ Append(t, e) \in Seq(Event) /\ Len(Append(t, e)) = Len(t) + 1
        /\ Elems(Append(t, e)) = Elems(t) \cup {e}
    BY <2>2, AppendElems
  <2> QED BY <1>1, <2>2, <2>3, <2>4
<1> QED BY <1>2, <1>3

LEMMA SendEventMoves ==
  ASSUME FeedInv, NEW e \in pending, SendEvent(e)
  PROVE  MovesOn
<1> USE DEF FeedInv, FeedOrder
<1>1. e \in Event
  BY DEF FeedType
<1>2. \A b \in Bars : /\ queue'[b] \in Seq(Event) /\ Len(queue'[b]) <= Capacity
                      /\ Elems(queue'[b]) \subseteq Elems(queue[b]) \cup {e}
  BY <1>1, BroadcastFacts DEF SendEvent, FeedType
<1>3. queue' \in [Bars -> Seq(Event)] /\ lagged' \in [Bars -> BOOLEAN]
  BY <1>2 DEF SendEvent, FeedType
<1>4. FeedType'
  BY <1>2, <1>3 DEF SendEvent, FeedType
<1>5. EventsMoveOn
  BY <1>2 DEF EventsMoveOn, Sources, SendEvent
<1> QED BY <1>4, <1>5, RowsStay, BarsStay DEF MovesOn, SendEvent

LEMMA CrashMoves ==
  ASSUME FeedInv, Crash
  PROVE  MovesOn
<1> USE DEF FeedInv, FeedOrder, Crash
<1>1. <<>> \in Seq(Event) /\ Len(<<>>) = 0 /\ Elems(<<>>) = {}
  BY DEF Elems
<1>2. FeedType'
  <2>1. /\ queue' \in [Bars -> Seq(Event)] /\ lagged' \in [Bars -> BOOLEAN]
        /\ sub' \in [Bars -> {"none", "written", "listening"}]
        /\ \A b \in Bars : queue'[b] = <<>>
    BY <1>1
  <2>2. \A b \in Bars : Len(queue'[b]) <= Capacity
    BY <1>1, <2>1, SidebarFeedAssumption
  <2> QED BY <2>1, <2>2 DEF FeedType
<1>3. EventsMoveOn
  BY <1>1 DEF EventsMoveOn, Sources
<1> QED BY <1>2, <1>3, RowsStay, BarsStay DEF MovesOn

-----------------------------------------------------------------------------
(* The subscription                                                          *)

\* One more event is written for a sidebar.
LEMMA WrittenIs ==
  ASSUME FeedType, NEW b \in Bars, NEW e \in Event,
         wire' = [wire EXCEPT ![b] = Append(@, e)]
  PROVE  /\ wire' \in [Bars -> Seq(Event)]
         /\ \A x \in Bars : Elems(wire'[x]) \subseteq Elems(wire[x]) \cup {e}
         /\ \A x \in Bars : x # b => wire'[x] = wire[x]
<1>1. wire[b] \in Seq(Event)
  BY DEF FeedType
<1>2. Append(wire[b], e) \in Seq(Event) /\ Elems(Append(wire[b], e)) = Elems(wire[b]) \cup {e}
  BY <1>1, AppendElems
<1> QED BY <1>2 DEF FeedType

LEMMA SubscribeMoves ==
  ASSUME FeedInv, NEW b \in Bars, NEW S \in SUBSET Rows, NEW On \in SUBSET S, Subscribe(b, S, On)
  PROVE  MovesOn
<1> USE DEF FeedInv, FeedOrder
<1> DEFINE e == SnapshotEvent(content', version')
<1>1. /\ content' \in Content /\ version' \in 0..MaxVersion
      /\ RowsMoveOn
  <2>1. CASE S = {}
    <3>1. content' = content
      BY <2>1 DEF Subscribe, Changed, FeedType, Content
    <3> QED BY <2>1, <3>1, RowsStay DEF Subscribe, FeedType
  <2>2. CASE S # {}
    BY <2>2, ChangedFacts DEF Subscribe, RowsMoveOn
  <2> QED BY <2>1, <2>2
<1>2. e \in Event \ {Down} /\ MadeNow(e)
  BY <1>1, SnapshotMade DEF MadeNow
<1> HIDE DEF e
<1>3. wire' = [wire EXCEPT ![b] = Append(@, e)]
  BY DEF Subscribe, e
<1>4. FeedType'
  BY <1>1, <1>2, <1>3, WrittenIs DEF Subscribe, FeedType
<1>5. EventsMoveOn
  <2>1. \A x \in Bars : Elems(wire'[x]) \subseteq Elems(wire[x]) \cup {e}
    BY <1>2, <1>3, WrittenIs
  <2> QED BY <1>2, <2>1 DEF EventsMoveOn, Sources, Subscribe
<1> QED BY <1>1, <1>4, <1>5, BarsStay DEF MovesOn, Subscribe

LEMMA ListenMoves ==
  ASSUME FeedInv, NEW b \in Bars, Listen(b)
  PROVE  MovesOn
<1> USE DEF FeedInv, FeedOrder, Listen, daemon
<1>1. FeedType'
  BY DEF FeedType
<1>2. EventsMoveOn
  BY DEF EventsMoveOn, Sources
<1> QED BY <1>1, <1>2, RowsStay, BarsStay DEF MovesOn

LEMMA ReceiveMoves ==
  ASSUME FeedInv, NEW b \in Bars, Receive(b)
  PROVE  MovesOn
<1> USE DEF FeedInv, FeedOrder
<1> DEFINE e == Head(queue[b])
           t == Tail(queue[b])
<1>1. queue[b] \in Seq(Event) /\ queue[b] # <<>> /\ Len(queue[b]) <= Capacity /\ Capacity \in Nat
  BY SidebarFeedAssumption DEF FeedType, Receive
<1>2. /\ e \in Event /\ e \in Elems(queue[b])
      /\ t \in Seq(Event) /\ Elems(t) \subseteq Elems(queue[b])
      /\ Len(queue[b]) \in Nat /\ Len(t) = Len(queue[b]) - 1
  BY <1>1, TailElems
<1>3. /\ wire' = [wire EXCEPT ![b] = Append(@, e)]
      /\ queue' = [queue EXCEPT ![b] = t]
  BY DEF Receive
<1> HIDE DEF e, t
<1>4. /\ queue' \in [Bars -> Seq(Event)]
      /\ \A x \in Bars : Len(queue'[x]) <= Capacity /\ Elems(queue'[x]) \subseteq Elems(queue[x])
  BY <1>1, <1>2, <1>3 DEF FeedType
<1>5. FeedType'
  BY <1>2, <1>3, <1>4, WrittenIs DEF Receive, FeedType, daemon
<1>6. EventsMoveOn
  <2>1. \A x \in Bars : Elems(wire'[x]) \subseteq Elems(wire[x]) \cup {e}
    BY <1>2, <1>3, WrittenIs
  <2>2. \A x \in Bars : x # b => wire'[x] = wire[x]
    BY <1>2, <1>3, WrittenIs
  <2>3. \A x \in Bars : Elems(wire'[x]) \subseteq Sources(x)
    BY <1>2, <2>1, <2>2 DEF Sources
  <2> QED BY <1>4, <2>3 DEF EventsMoveOn, Sources, Receive, daemon
<1> QED BY <1>5, <1>6, RowsStay, BarsStay DEF MovesOn, Receive, daemon

LEMMA ReceiveLaggedMoves ==
  ASSUME FeedInv, NEW b \in Bars, ReceiveLagged(b)
  PROVE  MovesOn
<1> USE DEF FeedInv, FeedOrder
<1> DEFINE e == SnapshotEvent(content, version)
<1>1. e \in Event \ {Down} /\ MadeNow(e)
  BY SnapshotMade DEF MadeNow, FeedType, ReceiveLagged, daemon
<1>2. wire' = [wire EXCEPT ![b] = Append(@, e)]
  BY DEF ReceiveLagged
<1> HIDE DEF e
<1>3. FeedType'
  BY <1>1, <1>2, WrittenIs DEF ReceiveLagged, FeedType, daemon
<1>4. EventsMoveOn
  <2>1. \A x \in Bars : Elems(wire'[x]) \subseteq Elems(wire[x]) \cup {e}
    BY <1>1, <1>2, WrittenIs
  <2> QED BY <1>1, <2>1 DEF EventsMoveOn, Sources, ReceiveLagged, daemon
<1> QED BY <1>3, <1>4, RowsStay, BarsStay DEF MovesOn, ReceiveLagged, daemon

LEMMA ConnectFailsMoves ==
  ASSUME FeedInv, NEW b \in Bars, ConnectFails(b)
  PROVE  MovesOn
<1> USE DEF FeedInv, FeedOrder
<1>1. Down \in Event /\ wire' = [wire EXCEPT ![b] = Append(@, Down)]
  BY DownFacts DEF ConnectFails
<1>2. FeedType'
  BY <1>1, WrittenIs DEF ConnectFails, FeedType, daemon, feed
<1>3. EventsMoveOn
  BY <1>1, WrittenIs DEF EventsMoveOn, Sources, ConnectFails, daemon, feed
<1> QED BY <1>2, <1>3, RowsStay, BarsStay DEF MovesOn, ConnectFails, daemon

-----------------------------------------------------------------------------
(* The sidebar                                                               *)

LEMMA DrainMoves ==
  ASSUME FeedInv, NEW b \in Bars, Drain(b)
  PROVE  MovesOn
<1> USE DEF FeedInv, FeedOrder
<1>1. wire[b] \in Seq(Event)
  BY DEF FeedType
<1>2. PICK n \in 1..Len(wire[b]) : \E q \in Orders(SubSeq(wire[b], 1, n)) :
             /\ batch' = [batch EXCEPT ![b] = [k \in DOMAIN q |-> wire[b][q[k]]]]
             /\ wire' = [wire EXCEPT ![b] = SubSeq(@, n + 1, Len(@))]
  BY DEF Drain
<1>3. PICK p \in Orders(SubSeq(wire[b], 1, n)) :
             /\ batch' = [batch EXCEPT ![b] = [k \in DOMAIN p |-> wire[b][p[k]]]]
             /\ wire' = [wire EXCEPT ![b] = SubSeq(@, n + 1, Len(@))]
  BY <1>2
<1> DEFINE taken == [k \in DOMAIN p |-> wire[b][p[k]]]
           left  == SubSeq(wire[b], n + 1, Len(wire[b]))
<1>4. taken \in Seq(Event) /\ Elems(taken) \subseteq Elems(wire[b])
  BY <1>1, OrdersFacts
<1>5. left \in Seq(Event) /\ Elems(left) \subseteq Elems(wire[b])
  BY <1>1, SubSeqElems
<1>6. batch' = [batch EXCEPT ![b] = taken] /\ wire' = [wire EXCEPT ![b] = left]
  BY <1>3
<1> HIDE DEF taken, left
<1>7. /\ batch' \in [Bars -> Seq(Event)] /\ wire' \in [Bars -> Seq(Event)]
      /\ \A x \in Bars : /\ Elems(wire'[x]) \subseteq Elems(wire[x])
                        /\ Elems(batch'[x]) \subseteq Elems(batch[x]) \cup Elems(wire[x])
  BY <1>4, <1>5, <1>6 DEF FeedType
<1>8. FeedType'
  BY <1>7 DEF Drain, FeedType, daemon, feed
<1>9. EventsMoveOn
  BY <1>7 DEF EventsMoveOn, Sources, Drain, daemon, feed
<1> QED BY <1>8, <1>9, RowsStay, BarsStay DEF MovesOn, Drain, daemon

\* The event a sidebar applies, and what is left of its batch.
LEMMA TakenIs ==
  ASSUME FeedType, NEW b \in Bars, NEW k \in {"snapshot", "patch", "down"}, TakeEvent(b, k)
  PROVE  /\ Head(batch[b]) \in Event /\ Head(batch[b]).kind = k
         /\ k # "down" => Head(batch[b]) \in Travelling
         /\ batch' \in [Bars -> Seq(Event)]
         /\ \A x \in Bars : Elems(batch'[x]) \subseteq Elems(batch[x])
<1>1. batch[b] \in Seq(Event) /\ batch[b] # <<>>
  BY DEF FeedType, TakeEvent
<1> DEFINE t == Tail(batch[b])
           e == Head(batch[b])
<1>2. /\ e \in Event /\ e \in Elems(batch[b])
      /\ t \in Seq(Event) /\ Elems(t) \subseteq Elems(batch[b])
  BY <1>1, TailElems
<1>3. batch' = [batch EXCEPT ![b] = t] /\ e.kind = k
  BY DEF TakeEvent
<1> HIDE DEF t, e
<1>4. /\ batch' \in [Bars -> Seq(Event)]
      /\ \A x \in Bars : Elems(batch'[x]) \subseteq Elems(batch[x])
  BY <1>2, <1>3 DEF FeedType
<1>5. k # "down" => e \in Travelling
  BY <1>2, <1>3, DownFacts DEF Travelling
<1> QED BY <1>2, <1>3, <1>4, <1>5 DEF e

\* A sidebar that takes an event moves on if it shows no more than it stands for.
LEMMA ApplyMoves ==
  ASSUME FeedInv, FeedType', BarsMoveOn, NEW b \in Bars, NEW k \in {"snapshot", "patch", "down"},
         TakeEvent(b, k), NEW E \in SUBSET Event, \A e \in E : MadeNow(e), pending' = pending \cup E,
         UNCHANGED <<epoch, version, content, queue, wire>>
  PROVE  MovesOn
<1> USE DEF FeedInv
<1>1. \A x \in Bars : Elems(batch'[x]) \subseteq Elems(batch[x])
  BY TakenIs
<1>2. EventsMoveOn
  BY <1>1 DEF EventsMoveOn, Sources
<1> QED BY <1>2, RowsStay DEF MovesOn

LEMMA AppTakes ==
  ASSUME NEW a \in App, NEW v \in 0..MaxVersion, NEW w \in Content
  PROVE  [a EXCEPT !.rows = w, !.version = v, !.reconnecting = FALSE] \in App
<1> DEFINE x == [a EXCEPT !.rows = w]
           y == [x EXCEPT !.version = v]
<1>1. x \in App
  BY DEF App
<1>2. y \in App
  BY <1>1 DEF App
<1>3. [y EXCEPT !.reconnecting = FALSE] \in App
  BY <1>2 DEF App
<1> QED BY <1>3

LEMMA ApplySnapshotMoves ==
  ASSUME FeedInv, NEW b \in Bars, ApplySnapshot(b)
  PROVE  MovesOn
<1> USE DEF FeedInv, FeedOrder
<1> DEFINE e == Head(batch[b])
<1>1. /\ TakeEvent(b, "snapshot")
      /\ bar' = IF e.version >= bar[b].version
                THEN [bar EXCEPT ![b].rows = e.rows, ![b].version = e.version,
                                 ![b].reconnecting = FALSE]
                ELSE bar
      /\ UNCHANGED <<daemon, feed, wire>>
  BY DEF ApplySnapshot
<1>2. /\ e \in Event \ {Down} /\ e.kind = "snapshot" /\ e \in Travelling
      /\ batch' \in [Bars -> Seq(Event)]
  BY <1>1, TakenIs, DownFacts
<1>3. /\ e.version \in 0..MaxVersion /\ e.rows \in Content
      /\ \A r \in Rows : r \in DOMAIN e.rows /\ e.rows[r].at <= e.version
  BY <1>2, EventFacts DEF NumberedAsMade, Content
<1> HIDE DEF e
<1>4. bar' \in [Bars -> App]
  <2>1. bar \in [Bars -> App] /\ bar[b] \in App
    BY DEF FeedType
  <2>2. CASE e.version >= bar[b].version
    <3>1. bar' = [bar EXCEPT ![b] = [@ EXCEPT !.rows = e.rows, !.version = e.version,
                                              !.reconnecting = FALSE]]
      BY <1>1, <2>1, <2>2
    <3>2. [bar[b] EXCEPT !.rows = e.rows, !.version = e.version, !.reconnecting = FALSE] \in App
      BY <1>3, <2>1, AppTakes
    <3> QED BY <2>1, <3>1, <3>2
  <2> QED BY <1>1, <2>1, <2>2
<1>5. FeedType'
  BY <1>1, <1>2, <1>4 DEF FeedType, daemon, feed
<1>6. BarsMoveOn
  BY <1>1, <1>2, <1>3 DEF BarsMoveOn, ShownByVersion, FeedType, App
<1>7. {} \in SUBSET Event /\ pending' = pending \cup {}
  BY <1>1 DEF daemon
<1> QED BY <1>1, <1>5, <1>6, <1>7, ApplyMoves DEF daemon, feed

LEMMA ApplyPatchMoves ==
  ASSUME FeedInv, NEW b \in Bars, ApplyPatch(b)
  PROVE  MovesOn
<1> USE DEF FeedInv, FeedOrder
<1> DEFINE e     == Head(batch[b])
           known == \A r \in DOMAIN e.rows : bar[b].rows[r].on
           rows  == [r \in Rows |-> IF r \in DOMAIN e.rows THEN e.rows[r] ELSE bar[b].rows[r]]
           s     == SnapshotEvent(content, version)
<1>1. /\ TakeEvent(b, "patch")
      /\ UNCHANGED <<up, epoch, version, content, feed, wire>>
      /\ e.version < bar[b].version => UNCHANGED <<bar, pending>>
      /\ ~(e.version < bar[b].version) =>
            /\ bar' = [bar EXCEPT ![b].version = e.version, ![b].rows = IF known THEN rows ELSE @]
            /\ pending' = pending \/ pending' = pending \cup {s}
  BY DEF ApplyPatch
<1>2. /\ e \in Event \ {Down} /\ e \in Travelling /\ batch' \in [Bars -> Seq(Event)]
  BY <1>1, TakenIs, DownFacts
<1>3. /\ e.version \in 0..MaxVersion /\ DOMAIN e.rows \subseteq Rows
      /\ \A r \in DOMAIN e.rows : e.rows[r] \in Cell /\ e.rows[r].at <= e.version
  BY <1>2, EventFacts DEF NumberedAsMade
<1>4. /\ bar[b] \in App /\ bar[b].version \in 0..MaxVersion
      /\ \A r \in Rows : bar[b].rows[r] \in Cell /\ bar[b].rows[r].at <= bar[b].version
  BY DEF FeedType, App, Content, ShownByVersion
<1>5. rows \in Content /\ \A r \in Rows : rows[r] = IF r \in DOMAIN e.rows THEN e.rows[r] ELSE bar[b].rows[r]
  BY <1>3, <1>4 DEF Content
<1>6. s \in Event /\ MadeNow(s)
  BY <1>1, SnapshotMade DEF FeedType, MadeNow
<1>7. PICK E \in SUBSET {s} : pending' = pending \cup E
  <2> HIDE DEF s
  <2>1. pending' = pending \cup {} \/ pending' = pending \cup {s}
    BY <1>1
  <2>2. {} \in SUBSET {s} /\ {s} \in SUBSET {s}
    OBVIOUS
  <2> QED BY <2>1, <2>2
<1> DEFINE shown == [version |-> e.version, rows |-> IF known THEN rows ELSE bar[b].rows,
                     reconnecting |-> bar[b].reconnecting]
<1> HIDE DEF e, known, rows, s
<1>8. bar' \in [Bars -> App]
  <2>1. shown \in App
    BY <1>3, <1>4, <1>5 DEF App
  <2>2. bar' = bar \/ bar' = [bar EXCEPT ![b] = shown]
    BY <1>1, <1>4 DEF FeedType, App
  <2> QED BY <2>1, <2>2 DEF FeedType
<1>9. FeedType'
  BY <1>1, <1>2, <1>6, <1>7, <1>8 DEF FeedType, feed
<1>10. BarsMoveOn
  <2> SUFFICES ASSUME NEW x \in Bars, NEW r \in Rows
               PROVE  /\ \/ bar'[x].rows[r] = bar[x].rows[r]
                         \/ \E f \in Travelling : /\ r \in DOMAIN f.rows /\ bar'[x].rows[r] = f.rows[r]
                                                 /\ bar[x].version <= f.version
                      /\ bar'[x].rows[r].at <= bar'[x].version
    BY DEF BarsMoveOn
  <2>1. CASE bar'[x] = bar[x]
    BY <2>1 DEF ShownByVersion
  <2>2. CASE bar'[x] # bar[x]
    <3>1. x = b /\ ~(e.version < bar[b].version)
      BY <1>1, <2>2 DEF FeedType
    <3>2. bar'[b].version = e.version /\ bar'[b].rows = IF known THEN rows ELSE bar[b].rows
      BY <1>1, <1>4, <3>1 DEF FeedType, App
    <3>3. CASE known /\ r \in DOMAIN e.rows
      <4>1. bar[b].version <= e.version
        BY <1>3, <1>4, <3>1, SidebarFeedAssumption
      <4> QED BY <1>2, <1>3, <1>5, <3>1, <3>2, <3>3, <4>1
    <3>4. CASE ~(known /\ r \in DOMAIN e.rows)
      <4>1. bar'[b].rows[r] = bar[b].rows[r]
        BY <1>5, <3>2, <3>4
      <4>2. /\ bar[b].rows[r].at \in 0..MaxVersion /\ bar[b].rows[r].at <= bar[b].version
            /\ bar[b].version \in Nat /\ e.version \in Nat /\ MaxVersion \in Nat
        BY <1>3, <1>4, SidebarFeedAssumption DEF Cell
      <4> QED BY <3>1, <3>2, <4>1, <4>2
    <3> QED BY <3>3, <3>4
  <2> QED BY <2>1, <2>2
<1>11. E \in SUBSET Event /\ \A x \in E : MadeNow(x)
  BY <1>6, <1>7
<1> QED BY <1>1, <1>7, <1>9, <1>10, <1>11, ApplyMoves DEF feed

LEMMA ApplyDownMoves ==
  ASSUME FeedInv, NEW b \in Bars, ApplyDown(b)
  PROVE  MovesOn
<1> USE DEF FeedInv, FeedOrder
<1>1. /\ TakeEvent(b, "down") /\ bar' = [bar EXCEPT ![b].reconnecting = TRUE]
      /\ UNCHANGED <<daemon, feed, wire>>
  BY DEF ApplyDown
<1>2. batch' \in [Bars -> Seq(Event)]
  BY <1>1, TakenIs
<1>3. bar' \in [Bars -> App] /\ \A x \in Bars : bar'[x].rows = bar[x].rows /\ bar'[x].version = bar[x].version
  BY <1>1 DEF FeedType, App
<1>4. FeedType'
  BY <1>1, <1>2, <1>3 DEF FeedType, daemon, feed
<1>5. BarsMoveOn
  BY <1>3 DEF BarsMoveOn, ShownByVersion
<1>6. {} \in SUBSET Event /\ pending' = pending \cup {}
  BY <1>1 DEF daemon
<1> QED BY <1>1, <1>4, <1>5, <1>6, ApplyMoves DEF daemon, feed

-----------------------------------------------------------------------------
(* A restart, and the theorems                                               *)

\* The copies that are left are of an earlier daemon.
LEMMA RestartKeeps ==
  ASSUME FeedInv, NEW On \in SUBSET Rows, Restart(On)
  PROVE  FeedInv'
<1> USE DEF FeedInv, FeedOrder
<1>1. /\ epoch \in Nat /\ epoch' = epoch + 1 /\ version' = 0 /\ MaxEpoch \in Nat
      /\ epoch + 1 \in 0..MaxEpoch /\ 0 \in 0..MaxVersion
  BY SidebarFeedAssumption DEF Restart, FeedType
<1>2. content' \in Content /\ \A r \in Rows : content'[r].epoch = epoch + 1 /\ content'[r].at = 0
  BY <1>1 DEF Restart, Content, Cell
<1>3. FeedType'
  BY <1>1, <1>2 DEF Restart, FeedType, feed
<1>4. Travelling' = Travelling
  BY DEF Travelling, Restart, feed
<1>5. \A r \in Rows : \A c \in Copies(r)' : c \in Copies(r) \/ c = content'[r]
  BY <1>4 DEF Copies, Restart, feed
<1>6. \A r \in Rows : \A c \in Copies(r) : c.epoch \in Nat /\ c.epoch <= epoch
  BY CopyFacts DEF NewestAtDaemon
<1>7. \A e \in Travelling : \A r \in DOMAIN e.rows : r \in Rows /\ e.rows[r] \in Copies(r)
  BY EventFacts DEF Travelling, Copies
<1>8. NewestAtDaemon'
  BY <1>1, <1>2, <1>5, <1>6 DEF NewestAtDaemon
<1>9. NumberedAsMade'
  BY <1>1, <1>4, <1>6, <1>7 DEF NumberedAsMade
<1>10. GateIsEnough'
  BY <1>1, <1>2, <1>4, <1>5, <1>6, <1>7 DEF GateIsEnough
<1>11. ShownByVersion'
  BY DEF ShownByVersion, Restart, feed
<1> QED BY <1>3, <1>8, <1>9, <1>10, <1>11

LEMMA FeedInit ==
  ASSUME Init
  PROVE  FeedInv
<1> USE DEF Init
<1>1. /\ 0 \in 0..MaxEpoch /\ 0 \in 0..MaxVersion /\ Capacity \in Nat
      /\ <<>> \in Seq(Event) /\ Len(<<>>) = 0
  BY SidebarFeedAssumption
<1>2. NoCell \in Cell /\ NoCell.epoch = 0 /\ NoCell.at = 0
  BY <1>1 DEF NoCell, Cell
<1>3. content \in Content /\ bar \in [Bars -> App] /\ \A b \in Bars : queue[b] = <<>>
  BY <1>1, <1>2 DEF Content, NewBar, App
<1>4. \A b \in Bars : Len(queue[b]) <= Capacity
  BY <1>1, <1>3
<1>5. FeedType
  BY <1>1, <1>3, <1>4 DEF FeedType
<1>6. Travelling = {}
  BY DEF Travelling, Elems
<1>7. \A r \in Rows : \A c \in Copies(r) : c = NoCell
  BY <1>6 DEF Copies, NewBar
<1> QED BY <1>2, <1>5, <1>6, <1>7 DEF FeedInv, FeedOrder, NewestAtDaemon, NumberedAsMade,
                                   GateIsEnough, ShownByVersion, NewBar

LEMMA StepMoves ==
  ASSUME FeedInv, Next
  PROVE  MovesOn \/ \E On \in SUBSET Rows : Restart(On)
<1>1. ASSUME ChangeStep PROVE MovesOn
  BY <1>1, RowPatchedMoves, RowsChangedMoves, BootingRefreshMoves, RefreshUnchangedMoves DEF ChangeStep
<1>2. ASSUME NEW b \in Bars, ServeStep(b) PROVE MovesOn
  BY <1>2, SubscribeMoves, ListenMoves, ReceiveMoves, ReceiveLaggedMoves DEF ServeStep
<1>3. ASSUME NEW b \in Bars, BarStep(b) PROVE MovesOn
  BY <1>3, DrainMoves, ApplySnapshotMoves, ApplyPatchMoves, ApplyDownMoves DEF BarStep
<1> QED BY <1>1, <1>2, <1>3, SendEventMoves, CrashMoves, ConnectFailsMoves DEF Next

LEMMA FeedStep ==
  ASSUME FeedInv, [Next]_vars
  PROVE  FeedInv'
<1>1. CASE UNCHANGED vars
  BY <1>1 DEF vars, daemon, feed, FeedInv, FeedType, FeedOrder, NewestAtDaemon, NumberedAsMade,
              GateIsEnough, ShownByVersion, Copies, Travelling
<1>2. CASE Next
  BY <1>2, StepMoves, OrderMovesOn, RestartKeeps DEF MovesOn, FeedInv
<1> QED BY <1>1, <1>2

\* What no event, copy of a row or sidebar ever contradicts: the types, and that
\* an event's version speaks for the rows it carries.
THEOREM FeedInvariant == Spec => []FeedInv
<1>1. Init => FeedInv
  BY FeedInit
<1>2. FeedInv /\ [Next]_vars => FeedInv'
  BY FeedStep
<1> QED BY <1>1, <1>2, PTL DEF Spec

\* The daemon's and the sidebars' variables keep their types, and the ring of
\* the broadcast is never larger than its capacity, whatever is sent and lagged.
THEOREM FeedTypeCorrect == Spec => []TypeOK
<1>1. FeedInv => TypeOK
  <2> SUFFICES ASSUME FeedInv PROVE TypeOK
    OBVIOUS
  <2> USE DEF FeedInv, FeedType
  <2>1. \A e \in Event : IsEvent(e)
    BY EventFacts, DownFacts
  <2>2. \A b \in Bars : /\ queue[b] \in Seq(Event) /\ wire[b] \in Seq(Event) /\ batch[b] \in Seq(Event)
                        /\ bar[b] \in App
    OBVIOUS
  <2>3. \A b \in Bars : /\ \A i \in DOMAIN queue[b] : IsEvent(queue[b][i])
                        /\ \A i \in DOMAIN wire[b] : IsEvent(wire[b][i])
                        /\ \A i \in DOMAIN batch[b] : IsEvent(batch[b][i])
    BY <2>1, <2>2
  <2>4. \A b \in Bars : bar[b].version \in 0..MaxVersion /\ bar[b].rows \in Content
    BY <2>2 DEF App
  <2> QED BY <2>1, <2>3, <2>4 DEF TypeOK
<1> QED BY <1>1, FeedInvariant, PTL

\* However events overtake each other, are dropped by the ring or reordered in
\* a batch, a sidebar never replaces what it shows of a row by something older
\* from the same daemon: RowsNeverRegress.
THEOREM RowsOnlyAdvance == Spec => RowsNeverRegress
<1> DEFINE A == \A b \in Bars, r \in Rows :
                   bar'[b].rows[r].epoch = bar[b].rows[r].epoch =>
                      bar'[b].rows[r].at >= bar[b].rows[r].at
<1>1. FeedInv /\ [Next]_vars => [A]_vars
  <2> SUFFICES ASSUME FeedInv, Next PROVE A
    BY DEF vars
  <2> USE DEF FeedInv, FeedOrder
  <2>1. CASE UNCHANGED bar
    <3>1. \A b \in Bars, r \in Rows : bar[b].rows[r].at \in Nat
      BY CopyFacts DEF Copies
    <3> QED BY <2>1, <3>1
  <2>2. CASE BarsMoveOn /\ FeedInv'
    <3> SUFFICES ASSUME NEW b \in Bars, NEW r \in Rows,
                        bar'[b].rows[r].epoch = bar[b].rows[r].epoch
                 PROVE  bar'[b].rows[r].at >= bar[b].rows[r].at
      OBVIOUS
    <3>1. /\ bar[b].rows[r] \in Copies(r) /\ bar[b].rows[r].at \in Nat
          /\ bar[b].version \in Nat /\ bar[b].rows[r].at <= bar[b].version
      BY CopyFacts, SidebarFeedAssumption DEF Copies, FeedType, App, ShownByVersion
    <3>2. CASE bar'[b].rows[r] = bar[b].rows[r]
      BY <3>1, <3>2
    <3>3. CASE bar'[b].rows[r] # bar[b].rows[r]
      <4>1. PICK e \in Travelling : /\ r \in DOMAIN e.rows /\ bar'[b].rows[r] = e.rows[r]
                                   /\ bar[b].version <= e.version
        BY <2>2, <3>3 DEF BarsMoveOn
      <4>2. e.version \in Nat /\ e.rows[r].at \in Nat
        BY <4>1, EventFacts, SidebarFeedAssumption DEF Travelling, Cell
      <4>3. bar[b].rows[r].at <= e.version
        BY <3>1, <4>1, <4>2
      <4> QED BY <3>1, <4>1, <4>2, <4>3 DEF GateIsEnough
    <3> QED BY <3>2, <3>3
  <2> QED BY <2>1, <2>2, StepMoves, FeedStep DEF Restart, MovesOn
<1> QED BY <1>1, FeedInvariant, PTL DEF Spec, RowsNeverRegress

-----------------------------------------------------------------------------
(* The notes *)

MaybeNote == Notes!NoteId \cup {Notes!NoNote}
Distinct(s) == \A i, j \in DOMAIN s : s[i] = s[j] => i = j

Pad ==
    [notes : Seq(Notes!NoteId), body : [Notes!NoteId -> Nat], open : SUBSET Notes!NoteId,
     active : MaybeNote, sel : MaybeNote, wide : BOOLEAN, focus : BOOLEAN, due : BOOLEAN,
     confirm : MaybeNote, from : MaybeNote, to : MaybeNote]

\* What App keeps: each note once and with a text, and what is open, dragged or
\* about to be deleted is a note.
PadOK(m) ==
    /\ m \in Pad
    /\ Distinct(m.notes)
    /\ m.open \subseteq Notes!Elements(m.notes)
    /\ \A n \in Notes!Elements(m.notes) : m.body[n] # 0
    /\ m.confirm # Notes!NoNote => m.confirm \in Notes!Elements(m.notes) /\ m.from = Notes!NoNote
    /\ m.from # Notes!NoNote => m.from \in Notes!Elements(m.notes) /\ m.to \in Notes!Elements(m.notes)

Files ==
    [file : [Notes!NoteId -> Nat], open : SUBSET Notes!NoteId, prefs : BOOLEAN,
     order : Seq(Notes!NoteId), active : MaybeNote, wide : BOOLEAN]

Counted ==
    [made : 0..MaxNotes, edits : Nat, kills : Nat, faults : Nat, failed : BOOLEAN,
     stray : SUBSET Notes!NoteId, gone : SUBSET Notes!NoteId]

Write == [op : {"backup", "body", "prefs", "autosave", "remove"}, id : MaybeNote]

\* A handler writes files of notes, removes only deleted ones, and that first,
\* and writes the preferences after the notes.
TodoOK(T, notes, gone) ==
    /\ T \in Seq(Write)
    /\ \A i \in DOMAIN T : T[i].op \in {"body", "autosave"} => T[i].id \in Notes!Elements(notes)
    /\ \A i \in DOMAIN T : T[i].op = "remove" =>
          i = 1 /\ T[i].id \in gone /\ T[i].id \notin Notes!Elements(notes)
    /\ \A i, j \in DOMAIN T : i < j /\ T[i].op = "prefs" => T[j].op = "autosave"

Pends(T, op, n) == \E i \in DOMAIN T : T[i].op = op /\ T[i].id = n
Saves(T) == \E i \in DOMAIN T : T[i].op = "prefs"

OnDisk(n) ==
    /\ disk.file[n] = mem.body[n]
    /\ (n \in disk.open) = (n \in mem.open)

PadType ==
    /\ PadOK(mem)
    /\ disk \in Files
    /\ past \in Counted
    /\ TodoOK(todo, mem.notes, past.gone)

\* What the preferences name is there, and what is there is a note, or was
\* deleted, or was left by a sidebar that had no preferences yet.
FilesKnown ==
    /\ \A n \in Notes!Elements(disk.order) : disk.file[n] # 0 \/ n \in past.gone
    /\ \A n \in disk.open : disk.file[n] # 0
    /\ \A n \in Notes!Elements(mem.notes) : n <= past.made
    /\ \A n \in Notes!NoteId : disk.file[n] # 0 => n <= past.made
    /\ \A n \in Notes!NoteId : disk.file[n] # 0 =>
          n \in Notes!Elements(mem.notes) \/ n \in past.stray \/ Pends(todo, "remove", n)

\* A note whose file is not up to date is still to be written: before the
\* preferences while those are to be written, else by the autosave.
NothingForgotten ==
    /\ Saves(todo) =>
          \A n \in Notes!Elements(mem.notes) : OnDisk(n) \/ Pends(todo, "body", n)
    /\ ~Saves(todo) /\ ~past.failed =>
          \A n \in Notes!Elements(mem.notes) : OnDisk(n) \/ Pends(todo, "autosave", n)

PadInv == PadType /\ FilesKnown /\ NothingForgotten

\* The invariant says what NotesOnDisk does.
LEMMA PadInvSays == PadInv => Notes!NotesOnDisk
<1> SUFFICES ASSUME PadInv PROVE Notes!NotesOnDisk
  OBVIOUS
<1> USE DEF PadInv, PadType, FilesKnown, NothingForgotten
<1>1. \A n \in Notes!Elements(disk.order) : disk.file[n] # 0 \/ n \in past.gone
  OBVIOUS
<1>2. Notes!Elements(mem.notes) \subseteq Notes!NoteId
  BY DEF PadOK, Pad, Notes!Elements
<1>3. disk.open \subseteq Notes!NoteId
  BY DEF Files
<1> SUFFICES ASSUME Notes!Ready, ~past.failed
             PROVE  /\ \A n \in Notes!Elements(mem.notes) : disk.file[n] = mem.body[n]
                    /\ {n \in Notes!NoteId : disk.file[n] # 0} \ past.stray
                          = Notes!Elements(mem.notes) \ past.stray
                    /\ disk.open \ past.stray = mem.open \ past.stray
  BY <1>1 DEF Notes!NotesOnDisk
<1>4. \A op, n : ~Pends(todo, op, n)
  BY DEF Notes!Ready, Pends
<1>5. ~Saves(todo)
  BY DEF Notes!Ready, Saves
<1>6. \A n \in Notes!Elements(mem.notes) : OnDisk(n)
  BY <1>4, <1>5
<1>7. \A n \in Notes!Elements(mem.notes) : disk.file[n] = mem.body[n]
  BY <1>6 DEF OnDisk
<1>8. \A n \in Notes!Elements(mem.notes) : n \in disk.open <=> n \in mem.open
  BY <1>6 DEF OnDisk
<1>9. \A n \in Notes!Elements(mem.notes) : disk.file[n] # 0
  BY <1>7 DEF PadOK
<1>10. \A n \in Notes!NoteId : disk.file[n] # 0 =>
          n \in Notes!Elements(mem.notes) \/ n \in past.stray
  BY <1>4
<1>11. {n \in Notes!NoteId : disk.file[n] # 0} \ past.stray
          = Notes!Elements(mem.notes) \ past.stray
  BY <1>2, <1>9, <1>10
<1>12. mem.open \subseteq Notes!Elements(mem.notes)
  BY DEF PadOK
<1>13. \A n \in disk.open \ past.stray : n \in Notes!Elements(mem.notes)
  BY <1>3, <1>10
<1>14. disk.open \ past.stray = mem.open \ past.stray
  BY <1>8, <1>12, <1>13
<1> QED
  BY <1>7, <1>11, <1>14

LEMMA PadInitOK == MaxNotes \in Nat /\ Notes!PadInit => PadInv
<1> SUFFICES ASSUME MaxNotes \in Nat, Notes!PadInit PROVE PadInv
  OBVIOUS
<1> USE DEF Notes!PadInit, MaybeNote, Notes!NoteId, Notes!NoNote
<1>1. Notes!Elements(mem.notes) = {} /\ Notes!Elements(disk.order) = {}
  BY DEF Notes!Elements
<1>2. PadOK(mem)
  BY <1>1 DEF PadOK, Pad, Distinct
<1>3. disk \in Files /\ past \in Counted
  BY DEF Files, Counted
<1>4. TodoOK(todo, mem.notes, past.gone)
  BY DEF TodoOK
<1>5. FilesKnown /\ NothingForgotten
  BY <1>1 DEF FilesKnown, NothingForgotten
<1> QED
  BY <1>2, <1>3, <1>4, <1>5 DEF PadInv, PadType

\* At finds a note, and Without takes it out.
LEMMA AtFacts ==
  ASSUME NEW S, NEW s \in Seq(S), NEW n \in Notes!Elements(s)
  PROVE  Notes!At(s, n) \in 1..Len(s) /\ s[Notes!At(s, n)] = n
BY DEF Notes!At, Notes!Elements

LEMMA WithoutFacts ==
  ASSUME NEW S, NEW s \in Seq(S), Distinct(s), NEW n \in Notes!Elements(s)
  PROVE  /\ Notes!Without(s, n) \in Seq(S)
         /\ Distinct(Notes!Without(s, n))
         /\ Notes!Elements(Notes!Without(s, n)) = Notes!Elements(s) \ {n}
<1> DEFINE k == Notes!At(s, n)
<1> DEFINE w == Notes!Without(s, n)
<1>1. k \in 1..Len(s) /\ s[k] = n
  BY AtFacts
<1> HIDE DEF k
<1>2. w = [i \in 1..Len(s) - 1 |-> IF i < k THEN s[i] ELSE s[i + 1]]
  BY DEF Notes!Without, k
<1> HIDE DEF w
<1>3. Len(s) \in Nat /\ DOMAIN s = 1..Len(s) /\ \A i \in 1..Len(s) : s[i] \in S
  OBVIOUS
<1>4. w \in Seq(S) /\ DOMAIN w = 1..Len(s) - 1
  <2>1. \A i \in 1..Len(s) - 1 : (IF i < k THEN s[i] ELSE s[i + 1]) \in S
    BY <1>1, <1>3
  <2> QED
    BY <1>2, <1>3, <2>1
<1>5. \A i \in 1..Len(s) - 1 : w[i] = IF i < k THEN s[i] ELSE s[i + 1]
  BY <1>2
<1>6. \A i, j \in 1..Len(s) : s[i] = s[j] => i = j
  BY <1>3 DEF Distinct
<1>7. Distinct(w)
  BY <1>1, <1>3, <1>4, <1>5, <1>6 DEF Distinct
<1>8. Notes!Elements(w) \subseteq Notes!Elements(s) \ {n}
  <2> SUFFICES ASSUME NEW i \in 1..Len(s) - 1 PROVE w[i] \in Notes!Elements(s) \ {n}
    BY <1>4 DEF Notes!Elements
  <2>1. PICK j \in 1..Len(s) : j # k /\ w[i] = s[j]
    BY <1>1, <1>3, <1>5
  <2>2. w[i] # n
    BY <1>1, <1>6, <2>1
  <2> QED
    BY <1>3, <2>1, <2>2 DEF Notes!Elements
<1>9. Notes!Elements(s) \ {n} \subseteq Notes!Elements(w)
  <2> SUFFICES ASSUME NEW j \in 1..Len(s), s[j] # n PROVE s[j] \in Notes!Elements(w)
    BY <1>3 DEF Notes!Elements
  <2>1. j # k
    BY <1>1
  <2>2. \E i \in 1..Len(s) - 1 : w[i] = s[j]
    <3>1. CASE j < k
      BY <1>1, <1>3, <1>5, <3>1
    <3>2. CASE j > k
      <4>1. j - 1 \in 1..Len(s) - 1 /\ ~(j - 1 < k) /\ (j - 1) + 1 = j
        BY <1>1, <1>3, <3>2
      <4> QED
        BY <1>5, <4>1
    <3> QED
      BY <1>1, <2>1, <3>1, <3>2
  <2> QED
    BY <1>4, <2>2 DEF Notes!Elements
<1> QED
  BY <1>4, <1>7, <1>8, <1>9 DEF w

\* A drag changes the order of the notes and nothing else.
LEMMA ReorderedFacts ==
  ASSUME NEW S, NEW s \in Seq(S), Distinct(s),
         NEW from \in Notes!Elements(s), NEW to \in Notes!Elements(s)
  PROVE  /\ Notes!Reordered(s, from, to) \in Seq(S)
         /\ DOMAIN Notes!Reordered(s, from, to) = DOMAIN s
         /\ Distinct(Notes!Reordered(s, from, to))
         /\ Notes!Elements(Notes!Reordered(s, from, to)) = Notes!Elements(s)
<1> DEFINE f == Notes!At(s, from)
<1> DEFINE t == Notes!At(s, to)
<1> DEFINE r == Notes!Reordered(s, from, to)
<1> DEFINE P(i) == IF i = t THEN f ELSE IF f <= i /\ i < t THEN i + 1
                   ELSE IF t < i /\ i <= f THEN i - 1 ELSE i
<1> DEFINE Q(j) == IF j = f THEN t ELSE IF f < j /\ j <= t THEN j - 1
                   ELSE IF t <= j /\ j < f THEN j + 1 ELSE j
<1>1. f \in 1..Len(s) /\ t \in 1..Len(s) /\ s[f] = from
  BY AtFacts
<1>2. Len(s) \in Nat /\ DOMAIN s = 1..Len(s) /\ \A i \in 1..Len(s) : s[i] \in S
  OBVIOUS
<1>3. DOMAIN r = 1..Len(s) /\ r = [i \in 1..Len(s) |-> r[i]]
  BY <1>2 DEF Notes!Reordered
<1>4. \A i \in 1..Len(s) : r[i] = s[P(i)]
  BY <1>1, <1>2 DEF Notes!Reordered
<1> HIDE DEF f, t, r
<1>5. \A i \in 1..Len(s) : P(i) \in 1..Len(s) /\ Q(i) \in 1..Len(s) /\ P(Q(i)) = i /\ Q(P(i)) = i
  BY <1>1, <1>2
<1> HIDE DEF P, Q
<1>6. r \in Seq(S)
  <2>1. \A i \in 1..Len(s) : r[i] \in S
    BY <1>2, <1>4, <1>5
  <2> QED
    BY <1>2, <1>3, <2>1
<1>7. Distinct(r)
  <2> SUFFICES ASSUME NEW i \in 1..Len(s), NEW j \in 1..Len(s), r[i] = r[j] PROVE i = j
    BY <1>3 DEF Distinct
  <2>1. P(i) = P(j)
    BY <1>2, <1>4, <1>5 DEF Distinct
  <2> QED
    BY <1>5, <2>1
<1>8. Notes!Elements(r) = Notes!Elements(s)
  <2>1. \A i \in 1..Len(s) : r[i] \in Notes!Elements(s)
    BY <1>2, <1>4, <1>5 DEF Notes!Elements
  <2>2. \A i \in 1..Len(s) : s[i] \in Notes!Elements(r)
    BY <1>3, <1>4, <1>5 DEF Notes!Elements
  <2> QED
    BY <1>2, <1>3, <2>1, <2>2 DEF Notes!Elements
<1> QED
  BY <1>2, <1>3, <1>6, <1>7, <1>8 DEF r

\* A save writes every note and then the preferences; nothing forgotten after it.
Saving(T, notes, gone) ==
    /\ TodoOK(T, notes, gone)
    /\ Saves(T)
    /\ \A n \in Notes!Elements(notes) : Pends(T, "body", n)

LEMMA SaveShape ==
  ASSUME NEW notes \in Seq(Notes!NoteId)
  PROVE  /\ Notes!Save(notes) \in Seq(Write)
         /\ Len(Notes!Save(notes)) = Len(notes) + 2
         /\ Notes!Save(notes)[1] = [op |-> "backup", id |-> Notes!NoNote]
         /\ \A i \in 1..Len(notes) :
               Notes!Save(notes)[i + 1] = [op |-> "body", id |-> notes[i]]
         /\ Notes!Save(notes)[Len(notes) + 2] = [op |-> "prefs", id |-> Notes!NoNote]
<1> DEFINE B == [op |-> "backup", id |-> Notes!NoNote]
<1> DEFINE M == [i \in DOMAIN notes |-> [op |-> "body", id |-> notes[i]]]
<1> DEFINE P == [op |-> "prefs", id |-> Notes!NoNote]
<1> DEFINE T == Notes!Save(notes)
<1>1. T = (<<B>> \o M) \o <<P>>
  BY DEF Notes!Save
<1>2. Len(notes) \in Nat /\ DOMAIN notes = 1..Len(notes)
  OBVIOUS
<1>3. B \in Write /\ P \in Write /\ \A i \in 1..Len(notes) : M[i] \in Write
  BY <1>2 DEF Write, MaybeNote
<1>4. M \in Seq(Write) /\ Len(M) = Len(notes)
  BY <1>2, <1>3
<1>5. \A i \in 1..Len(notes) : M[i] = [op |-> "body", id |-> notes[i]]
  BY <1>2
<1> DEFINE U == <<B>> \o M
<1> HIDE DEF B, M, P, T
<1>u. U \in Seq(Write) /\ Len(U) = Len(notes) + 1
      /\ U[1] = B /\ \A i \in 1..Len(notes) : U[i + 1] = M[i]
  BY <1>2, <1>3, <1>4
<1> HIDE DEF U
<1>t. T = U \o <<P>>
  BY <1>1 DEF U
<1>6. T \in Seq(Write) /\ Len(T) = Len(notes) + 2
  BY <1>2, <1>3, <1>t, <1>u
<1>7. T[Len(notes) + 2] = P /\ \A i \in 1..Len(notes) + 1 : T[i] = U[i]
  BY <1>2, <1>3, <1>t, <1>u
<1>8. T[1] = B /\ \A i \in 1..Len(notes) : T[i + 1] = M[i]
  BY <1>2, <1>7, <1>u
<1> QED
  BY <1>5, <1>6, <1>7, <1>8 DEF B, P, T

LEMMA SaveSaves ==
  ASSUME NEW notes \in Seq(Notes!NoteId), NEW gone PROVE Saving(Notes!Save(notes), notes, gone)
<1> DEFINE T == Notes!Save(notes)
<1> DEFINE L == Len(notes)
<1>1. /\ T \in Seq(Write) /\ Len(T) = L + 2 /\ T[1].op = "backup" /\ T[L + 2].op = "prefs"
      /\ \A i \in 1..L : T[i + 1].op = "body" /\ T[i + 1].id = notes[i]
  <2> DEFINE Body(i) == [op |-> "body", id |-> notes[i]]
  <2>1. \A i : Body(i).op = "body" /\ Body(i).id = notes[i]
    OBVIOUS
  <2> HIDE DEF Body
  <2>2. T \in Seq(Write) /\ Len(T) = L + 2 /\ T[1].op = "backup" /\ T[L + 2].op = "prefs"
    BY SaveShape
  <2>3. \A i \in 1..L : T[i + 1] = Body(i)
    BY SaveShape DEF Body
  <2> QED
    BY <2>1, <2>2, <2>3
<1>2. L \in Nat /\ DOMAIN notes = 1..L
  OBVIOUS
<1> HIDE DEF T, L
<1>3. DOMAIN T = 1..L + 2
  BY <1>1
<1>4. \A i \in 1..L + 2 : i = 1 \/ i = L + 2 \/ (i - 1 \in 1..L /\ (i - 1) + 1 = i)
  BY <1>2
<1>n. \A i \in 1..L : notes[i] \in Notes!Elements(notes)
  BY <1>2 DEF Notes!Elements
<1>5. \A i \in 1..L + 2 : i = 1 \/ i = L + 2
                          \/ (T[i].op = "body" /\ T[i].id \in Notes!Elements(notes))
  <2> TAKE i \in 1..L + 2
  <2>1. CASE i - 1 \in 1..L /\ (i - 1) + 1 = i
    BY <1>1, <1>n, <2>1
  <2> QED
    BY <1>4, <2>1
<1>6. TodoOK(T, notes, gone)
  BY <1>1, <1>2, <1>3, <1>5 DEF TodoOK
<1>7. Saves(T)
  BY <1>1, <1>2, <1>3 DEF Saves
<1>8. \A n \in Notes!Elements(notes) : Pends(T, "body", n)
  <2> SUFFICES ASSUME NEW i \in 1..L PROVE Pends(T, "body", notes[i])
    BY <1>2 DEF Notes!Elements
  <2>1. i + 1 \in DOMAIN T
    BY <1>2, <1>3
  <2> QED
    BY <1>1, <2>1 DEF Pends
<1> QED
  BY <1>6, <1>7, <1>8 DEF Saving, T

\* After a paste the autosave of the note follows.
LEMMA SaveThenAutosave ==
  ASSUME NEW notes \in Seq(Notes!NoteId), NEW gone, NEW n \in Notes!Elements(notes)
  PROVE  Saving(Notes!Save(notes) \o Notes!Autosave(n), notes, gone)
<1> DEFINE S == Notes!Save(notes)
<1> DEFINE A == [op |-> "autosave", id |-> n]
<1> DEFINE T == S \o <<A>>
<1>1. Saving(S, notes, gone) /\ S \in Seq(Write)
  BY SaveSaves, SaveShape
<1>2. A \in Write /\ A.op = "autosave" /\ A.id = n
  BY DEF Write, MaybeNote, Notes!Elements
<1> HIDE DEF S, A
<1>3. T \in Seq(Write) /\ Len(T) = Len(S) + 1 /\ Len(S) \in Nat /\ DOMAIN S = 1..Len(S)
  BY <1>1, <1>2
<1>4. T[Len(S) + 1] = A /\ \A i \in 1..Len(S) : T[i] = S[i]
  BY <1>1, <1>2
<1> HIDE DEF T
<1>5. DOMAIN T = 1..Len(S) + 1
  BY <1>3
<1>6. \A i \in DOMAIN T : (i \in DOMAIN S /\ T[i] = S[i]) \/ (i = Len(S) + 1 /\ T[i] = A)
  BY <1>3, <1>4, <1>5
<1>7. TodoOK(T, notes, gone)
  BY <1>1, <1>2, <1>3, <1>5, <1>6 DEF TodoOK, Saving
<1>8. Saves(T)
  BY <1>1, <1>3, <1>4, <1>5 DEF Saves, Saving
<1>9. \A m \in Notes!Elements(notes) : Pends(T, "body", m)
  BY <1>1, <1>3, <1>4, <1>5 DEF Pends, Saving
<1> QED
  BY <1>7, <1>8, <1>9 DEF Saving, T, S, A, Notes!Autosave

\* After a deletion the removal of the file comes first.
LEMMA RemoveThenSave ==
  ASSUME NEW notes \in Seq(Notes!NoteId), NEW gone,
         NEW n \in Notes!NoteId, n \in gone, n \notin Notes!Elements(notes)
  PROVE  /\ Saving(<<[op |-> "remove", id |-> n]>> \o Notes!Save(notes), notes, gone)
         /\ Pends(<<[op |-> "remove", id |-> n]>> \o Notes!Save(notes), "remove", n)
<1> DEFINE S == Notes!Save(notes)
<1> DEFINE R == [op |-> "remove", id |-> n]
<1> DEFINE T == <<R>> \o S
<1>1. /\ S \in Seq(Write) /\ TodoOK(S, notes, gone) /\ Saves(S)
      /\ \A m \in Notes!Elements(notes) : Pends(S, "body", m)
  BY SaveSaves, SaveShape DEF Saving
<1>s. S[1].op = "backup"
  BY SaveShape
<1>2. R \in Write /\ R.op = "remove" /\ R.id = n
  BY DEF Write, MaybeNote
<1> HIDE DEF S, R
<1>3. T \in Seq(Write) /\ Len(T) = Len(S) + 1 /\ Len(S) \in Nat /\ DOMAIN S = 1..Len(S)
  BY <1>1, <1>2
<1>4. T[1] = R /\ \A i \in 1..Len(S) : T[i + 1] = S[i]
  BY <1>1, <1>2
<1> HIDE DEF T
<1>5. DOMAIN T = 1..Len(S) + 1
  BY <1>3
<1>6. \A i \in DOMAIN T : (i = 1 /\ T[i] = R) \/ (i - 1 \in DOMAIN S /\ T[i] = S[i - 1])
  <2> SUFFICES ASSUME NEW i \in 1..Len(S) + 1, i # 1 PROVE i - 1 \in DOMAIN S /\ T[i] = S[i - 1]
    BY <1>4, <1>5
  <2>1. i - 1 \in 1..Len(S) /\ (i - 1) + 1 = i
    BY <1>3
  <2> QED
    BY <1>3, <1>4, <2>1
<1>7. \A i \in DOMAIN S : S[i].op # "remove"
  BY <1>1, <1>s, <1>3 DEF TodoOK
<1>8. TodoOK(T, notes, gone)
  <2>1. \A i \in DOMAIN T : T[i].op \in {"body", "autosave"} => T[i].id \in Notes!Elements(notes)
    BY <1>1, <1>2, <1>6 DEF TodoOK
  <2>2. \A i \in DOMAIN T : T[i].op = "remove" => i = 1 /\ T[i] = R
    BY <1>6, <1>7
  <2>3. \A i, j \in DOMAIN T : i < j /\ T[i].op = "prefs" => T[j].op = "autosave"
    <3> SUFFICES ASSUME NEW i \in DOMAIN T, NEW j \in DOMAIN T, i < j, T[i].op = "prefs"
                 PROVE T[j].op = "autosave"
      OBVIOUS
    <3>1. i - 1 \in DOMAIN S /\ T[i] = S[i - 1]
      BY <1>2, <1>6
    <3>2. j - 1 \in DOMAIN S /\ T[j] = S[j - 1]
      BY <1>3, <1>5, <1>6
    <3>3. i - 1 < j - 1
      BY <1>3, <1>5
    <3> QED
      BY <1>1, <3>1, <3>2, <3>3 DEF TodoOK
  <2> QED
    BY <1>2, <1>3, <2>1, <2>2, <2>3 DEF TodoOK
<1>9. \A i \in DOMAIN S : i + 1 \in DOMAIN T /\ T[i + 1] = S[i]
  BY <1>3, <1>4, <1>5
<1>10. Saves(T)
  BY <1>1, <1>9 DEF Saves
<1>11. \A m \in Notes!Elements(notes) : Pends(T, "body", m)
  BY <1>1, <1>9 DEF Pends
<1>12. Pends(T, "remove", n)
  BY <1>2, <1>3, <1>4, <1>5 DEF Pends
<1> QED
  BY <1>8, <1>10, <1>11, <1>12 DEF Saving, T, S, R

\* What a handler that ends with a save has to leave.
LEMMA SaveKeeps ==
  ASSUME PadInv, PadOK(mem'), past' \in Counted, UNCHANGED disk,
         past.made <= past'.made, past'.stray = past.stray,
         past.gone \subseteq past'.gone,
         \A n \in Notes!Elements(mem'.notes) : n <= past'.made,
         Saving(todo', mem'.notes, past'.gone),
         \A n \in Notes!Elements(mem.notes) :
            n \in Notes!Elements(mem'.notes) \/ Pends(todo', "remove", n),
         Notes!Ready
  PROVE  PadInv'
<1>1. \A op, n : ~Pends(todo, op, n)
  BY DEF Notes!Ready, Pends
<1>2. PadType'
  BY DEF PadInv, PadType, Saving
<1>3. disk \in Files /\ past.made \in Nat /\ past'.made \in Nat
  BY DEF PadInv, PadType, Counted
<1>4. \A n \in Notes!NoteId : n \in Nat
  BY DEF Notes!NoteId
<1>5. FilesKnown'
  <2>1. \A n \in Notes!Elements(disk'.order) : disk'.file[n] # 0 \/ n \in past'.gone
    BY DEF PadInv, FilesKnown
  <2>2. \A n \in disk'.open : disk'.file[n] # 0
    BY DEF PadInv, FilesKnown
  <2>3. \A n \in Notes!NoteId : disk'.file[n] # 0 => n <= past'.made
    BY <1>3, <1>4 DEF PadInv, FilesKnown
  <2>4. \A n \in Notes!NoteId : disk'.file[n] # 0 =>
          n \in Notes!Elements(mem'.notes) \/ n \in past'.stray \/ Pends(todo', "remove", n)
    BY <1>1 DEF PadInv, FilesKnown
  <2> QED
    BY <2>1, <2>2, <2>3, <2>4 DEF FilesKnown
<1>6. NothingForgotten'
  BY DEF NothingForgotten, Saving
<1> QED
  BY <1>2, <1>5, <1>6 DEF PadInv

\* What a handler that writes nothing may do: anything but to the notes.
LEMMA Keeps ==
  ASSUME PadInv, PadOK(mem'), UNCHANGED <<disk, todo, past>>,
         Notes!Elements(mem'.notes) = Notes!Elements(mem.notes),
         mem'.body = mem.body, mem'.open = mem.open
  PROVE  PadInv'
<1>1. PadType'
  BY DEF PadInv, PadType, TodoOK
<1>2. FilesKnown'
  BY DEF PadInv, FilesKnown
<1>3. \A n : OnDisk(n)' = OnDisk(n)
  BY DEF OnDisk
<1>4. NothingForgotten'
  BY <1>3 DEF PadInv, NothingForgotten
<1> QED
  BY <1>1, <1>2, <1>4 DEF PadInv

\* active_note_index finds a note.
LEMMA ShownFacts ==
  ASSUME PadOK(mem)
  PROVE  /\ Notes!Shown \in Seq(Notes!NoteId)
         /\ DOMAIN Notes!Shown = DOMAIN mem.notes
         /\ Distinct(Notes!Shown)
         /\ Notes!Elements(Notes!Shown) = Notes!Elements(mem.notes)
<1>1. mem.notes \in Seq(Notes!NoteId) /\ Distinct(mem.notes)
  BY DEF PadOK, Pad
<1>2. CASE mem.from # Notes!NoNote /\ mem.to # mem.from
  <2>1. mem.from \in Notes!Elements(mem.notes) /\ mem.to \in Notes!Elements(mem.notes)
    BY <1>2 DEF PadOK
  <2> QED
    BY <1>1, <1>2, <2>1, ReorderedFacts DEF Notes!Shown
<1>3. CASE ~(mem.from # Notes!NoNote /\ mem.to # mem.from)
  BY <1>1, <1>3 DEF Notes!Shown
<1> QED
  BY <1>2, <1>3

LEMMA TargetFacts ==
  ASSUME PadOK(mem), Notes!HasActive PROVE Notes!Target \in Notes!Elements(mem.notes)
<1>1. mem.active \in Notes!Elements(Notes!Shown)
  BY ShownFacts DEF Notes!HasActive
<1>2. Notes!At(Notes!Shown, mem.active) \in DOMAIN Notes!Shown
  BY <1>1, AtFacts, ShownFacts
<1> QED
  BY <1>2, ShownFacts DEF Notes!Target, Notes!Elements

\* The same of a handler that ends with persist_notepad_now.
LEMMA PersistKeeps ==
  ASSUME NEW m, PadInv, Notes!Ready, PadOK(m), Notes!Persist(m), UNCHANGED disk,
         past' \in Counted, past.made <= past'.made, past'.stray = past.stray,
         past'.gone = past.gone,
         \A n \in Notes!Elements(m.notes) : n <= past'.made,
         Notes!Elements(mem.notes) \subseteq Notes!Elements(m.notes)
  PROVE  PadInv'
<1>1. mem' = [m EXCEPT !.due = FALSE] /\ todo' = Notes!Save(m.notes)
  BY DEF Notes!Persist
<1>2. m.notes \in Seq(Notes!NoteId) /\ m \in Pad
  BY DEF PadOK, Pad
<1>3. /\ mem'.notes = m.notes /\ mem'.body = m.body /\ mem'.open = m.open
      /\ mem'.confirm = m.confirm /\ mem'.from = m.from /\ mem'.to = m.to
  BY <1>1, <1>2 DEF Pad
<1>4. mem' \in Pad
  BY <1>1, <1>2 DEF Pad
<1>5. PadOK(mem')
  BY <1>3, <1>4 DEF PadOK
<1>6. Saving(todo', mem'.notes, past'.gone)
  BY <1>1, <1>2, <1>3, SaveSaves
<1> QED
  BY <1>3, <1>5, <1>6, SaveKeeps

\* And of one that leaves the notes as they are, and the counts.
LEMMA PersistSame ==
  ASSUME NEW m, PadInv, Notes!Ready, PadOK(m), Notes!Persist(m), UNCHANGED <<disk, past>>,
         m.notes = mem.notes \/ Notes!Elements(m.notes) = Notes!Elements(mem.notes)
  PROVE  PadInv'
<1>1. past \in Counted /\ past.made \in Nat
  BY DEF PadInv, PadType, Counted
<1>2. \A n \in Notes!Elements(m.notes) : n <= past'.made
  BY DEF PadInv, FilesKnown
<1> QED
  BY <1>1, <1>2, PersistKeeps

\* PadOK of a change that leaves the notes, their texts and what is open.
LEMMA SameOK ==
  ASSUME NEW m, PadOK(m), NEW x \in Pad,
         x.notes = m.notes, x.body = m.body, x.open \subseteq Notes!Elements(m.notes),
         x.confirm = m.confirm, x.from = m.from, x.to = m.to
  PROVE  PadOK(x)
BY DEF PadOK

\* PadOK of a change of a note's text.
LEMMA BodyOK ==
  ASSUME NEW m, PadOK(m), NEW x \in Pad, NEW n \in Notes!Elements(m.notes), NEW k \in Nat, k # 0,
         x.notes = m.notes, x.body = [m.body EXCEPT ![n] = k], x.open \subseteq Notes!Elements(m.notes),
         x.confirm = m.confirm, x.from = m.from, x.to = m.to
  PROVE  PadOK(x)
<1>1. m.body \in [Notes!NoteId -> Nat] /\ \A i \in Notes!Elements(m.notes) : i \in Notes!NoteId
  BY DEF PadOK, Pad, Notes!Elements
<1>2. \A i \in Notes!Elements(x.notes) : x.body[i] # 0
  BY <1>1 DEF PadOK
<1> QED
  BY <1>2 DEF PadOK

LEMMA UnfocusedOK ==
  ASSUME NEW m, PadOK(m)
  PROVE  /\ PadOK(Notes!Unfocused(m))
         /\ Notes!Unfocused(m).notes = m.notes
         /\ Notes!Unfocused(m).body = m.body
         /\ Notes!Unfocused(m).open = m.open
         /\ Notes!Unfocused(m).confirm = m.confirm
         /\ Notes!Unfocused(m).from = m.from
         /\ Notes!Unfocused(m).to = m.to
<1> DEFINE x == Notes!Unfocused(m)
<1>1. m \in Pad
  BY DEF PadOK
<1>2. x \in Pad
  BY <1>1 DEF Notes!Unfocused, Pad, MaybeNote
<1>3. /\ x.notes = m.notes /\ x.body = m.body /\ x.open = m.open
      /\ x.confirm = m.confirm /\ x.from = m.from /\ x.to = m.to
  BY <1>1 DEF Notes!Unfocused, Pad
<1> HIDE DEF x
<1>4. PadOK(x)
  <2>1. x.open \subseteq Notes!Elements(m.notes)
    BY <1>3 DEF PadOK
  <2> QED
    BY <1>2, <1>3, <2>1, SameOK
<1> QED
  BY <1>3, <1>4 DEF x

LEMMA EnsureActiveOK ==
  ASSUME NEW m, PadOK(m)
  PROVE  /\ PadOK(Notes!EnsureActive(m))
         /\ Notes!EnsureActive(m).notes = m.notes
         /\ Notes!EnsureActive(m).body = m.body
         /\ Notes!EnsureActive(m).open = m.open
         /\ Notes!EnsureActive(m).confirm = m.confirm
         /\ Notes!EnsureActive(m).from = m.from
         /\ Notes!EnsureActive(m).to = m.to
         /\ Notes!EnsureActive(m).active \in Notes!Elements(m.notes) \cup {Notes!NoNote}
<1> DEFINE x == Notes!EnsureActive(m)
<1>1. m \in Pad /\ m.notes \in Seq(Notes!NoteId)
  BY DEF PadOK, Pad
<1>2. CASE m.active \in Notes!Elements(m.notes)
  BY <1>2 DEF Notes!EnsureActive
<1>3. CASE m.active \notin Notes!Elements(m.notes)
  <2> DEFINE first == IF m.notes = <<>> THEN Notes!NoNote ELSE m.notes[1]
  <2>1. x = [m EXCEPT !.active = first]
    BY <1>3 DEF Notes!EnsureActive
  <2>2. first \in Notes!Elements(m.notes) \cup {Notes!NoNote}
    <3>1. m.notes # <<>> => 1 \in DOMAIN m.notes
      BY <1>1
    <3> QED
      BY <3>1 DEF Notes!Elements
  <2>3. Notes!Elements(m.notes) \subseteq Notes!NoteId
    BY <1>1 DEF Notes!Elements
  <2>4. first \in MaybeNote
    BY <2>2, <2>3 DEF MaybeNote
  <2> HIDE DEF first, x
  <2>5. x \in Pad
    BY <1>1, <2>1, <2>4 DEF Pad
  <2>6. /\ x.notes = m.notes /\ x.body = m.body /\ x.open = m.open
        /\ x.confirm = m.confirm /\ x.from = m.from /\ x.to = m.to /\ x.active = first
    BY <1>1, <2>1 DEF Pad
  <2>7. PadOK(x)
    <3>1. x.open \subseteq Notes!Elements(m.notes)
      BY <2>6 DEF PadOK
    <3> QED
      BY <2>5, <2>6, <3>1, SameOK
  <2> QED
    BY <2>2, <2>6, <2>7 DEF x
<1> QED
  BY <1>2, <1>3

LEMMA AddNoteKeeps ==
  ASSUME MaxNotes \in Nat, PadInv, Notes!AddNote PROVE PadInv'
<1> DEFINE n == past.made + 1
<1> DEFINE m == [mem EXCEPT !.notes = Append(@, n), !.body[n] = 1, !.open = {n}, !.active = n,
                            !.wide = TRUE, !.focus = TRUE, !.sel = Notes!NoNote]
<1>1. /\ Notes!Ready /\ mem.confirm = Notes!NoNote /\ mem.from = Notes!NoNote
      /\ past.made < MaxNotes /\ Notes!Persist(m)
      /\ past' = [past EXCEPT !.made = n] /\ UNCHANGED disk
  BY DEF Notes!AddNote, Notes!Clickable
<1>2. /\ mem \in Pad /\ Distinct(mem.notes) /\ mem.notes \in Seq(Notes!NoteId)
      /\ mem.body \in [Notes!NoteId -> Nat]
      /\ \A i \in Notes!Elements(mem.notes) : mem.body[i] # 0
  BY DEF PadInv, PadType, PadOK, Pad
<1>3. past \in Counted /\ past.made \in 0..MaxNotes
  BY DEF PadInv, PadType, Counted
<1>4. n \in Notes!NoteId /\ n \in Nat /\ n \in 0..MaxNotes /\ past.made <= n
  BY <1>1, <1>3 DEF Notes!NoteId
<1>5. \A i \in Notes!Elements(mem.notes) : i <= past.made /\ i \in Notes!NoteId
  BY <1>2 DEF PadInv, FilesKnown, Notes!Elements
<1>6. n \notin Notes!Elements(mem.notes)
  BY <1>3, <1>5
<1> HIDE DEF n
<1>7. /\ m.notes = Append(mem.notes, n) /\ m.body = [mem.body EXCEPT ![n] = 1] /\ m.open = {n}
      /\ m.confirm = mem.confirm /\ m.from = mem.from /\ m.to = mem.to
  BY <1>2 DEF Pad
<1>8. /\ Append(mem.notes, n) \in Seq(Notes!NoteId)
      /\ [mem.body EXCEPT ![n] = 1] \in [Notes!NoteId -> Nat]
  BY <1>2, <1>4
<1>9. m \in Pad
  BY <1>2, <1>4, <1>8 DEF Pad, MaybeNote
<1> HIDE DEF m
<1>10. /\ Len(m.notes) = Len(mem.notes) + 1 /\ Len(mem.notes) \in Nat
       /\ m.notes[Len(mem.notes) + 1] = n
       /\ \A i \in 1..Len(mem.notes) : m.notes[i] = mem.notes[i]
       /\ DOMAIN mem.notes = 1..Len(mem.notes) /\ DOMAIN m.notes = 1..Len(mem.notes) + 1
  BY <1>2, <1>4, <1>7
<1>11. Notes!Elements(m.notes) = Notes!Elements(mem.notes) \cup {n}
  BY <1>10 DEF Notes!Elements
<1>12. Distinct(m.notes)
  <2>1. \A i \in 1..Len(mem.notes) : mem.notes[i] # n
    BY <1>6, <1>10 DEF Notes!Elements
  <2>2. \A i \in 1..Len(mem.notes) + 1 : i \in 1..Len(mem.notes) \/ i = Len(mem.notes) + 1
    BY <1>10
  <2> QED
    BY <1>2, <1>10, <2>1, <2>2 DEF Distinct
<1>13. \A i \in Notes!Elements(m.notes) : m.body[i] # 0
  BY <1>2, <1>4, <1>5, <1>7, <1>11
<1>14. PadOK(m)
  BY <1>1, <1>7, <1>9, <1>11, <1>12, <1>13 DEF PadOK
<1>15. past' \in Counted /\ past'.made = n /\ past'.stray = past.stray /\ past'.gone = past.gone
  BY <1>1, <1>3, <1>4 DEF Counted
<1>16. \A i \in Notes!Elements(m.notes) : i <= past'.made
  <2>1. \A i \in Notes!NoteId : i \in Nat
    BY DEF Notes!NoteId
  <2>2. ASSUME NEW i \in Notes!Elements(mem.notes) PROVE i <= n
    <3>1. i \in Nat /\ i <= past.made
      BY <1>5, <2>1
    <3>2. past.made \in Nat
      BY <1>3
    <3> QED
      BY <1>4, <3>1, <3>2
  <2>3. n <= n
    BY <1>4
  <2> QED
    BY <1>11, <1>15, <2>2, <2>3
<1> QED
  BY <1>1, <1>4, <1>11, <1>14, <1>15, <1>16, PersistKeeps

\* The counts after an edit.
LEMMA EditedOK ==
  ASSUME PadInv, past' = [past EXCEPT !.edits = @ + 1]
  PROVE  /\ past' \in Counted /\ past'.made = past.made /\ past.made \in Nat
         /\ past'.stray = past.stray /\ past'.gone = past.gone /\ past'.failed = past.failed
         /\ past.edits + 2 \in Nat /\ past.edits + 2 # 0
BY DEF PadInv, PadType, Counted

LEMMA EditKeeps ==
  ASSUME PadInv, Notes!Edit PROVE PadInv'
<1> DEFINE n == Notes!Target
<1> DEFINE k == past.edits + 2
<1>1. /\ Notes!Ready /\ Notes!HasActive /\ UNCHANGED disk
      /\ mem' = [mem EXCEPT !.body[n] = k, !.sel = Notes!NoNote, !.due = TRUE]
      /\ todo' = <<[op |-> "autosave", id |-> n]>>
      /\ past' = [past EXCEPT !.edits = @ + 1]
  BY DEF Notes!Edit, Notes!Autosave
<1>2. PadOK(mem) /\ mem \in Pad /\ mem.open \subseteq Notes!Elements(mem.notes)
  BY DEF PadInv, PadType, PadOK
<1>3. n \in Notes!Elements(mem.notes)
  BY <1>1, <1>2, TargetFacts
<1>4. n \in Notes!NoteId
  BY <1>2, <1>3 DEF Pad, Notes!Elements
<1>5. /\ past' \in Counted /\ past'.made = past.made /\ past.made \in Nat
      /\ past'.stray = past.stray /\ past'.gone = past.gone /\ past'.failed = past.failed
      /\ k \in Nat /\ k # 0
  BY <1>1, EditedOK
<1> HIDE DEF n, k
<1>6. mem' \in Pad
  BY <1>1, <1>2, <1>4, <1>5 DEF Pad, MaybeNote
<1>7. /\ mem'.notes = mem.notes /\ mem'.body = [mem.body EXCEPT ![n] = k] /\ mem'.open = mem.open
      /\ mem'.confirm = mem.confirm /\ mem'.from = mem.from /\ mem'.to = mem.to
  BY <1>1, <1>2 DEF Pad
<1>8. PadOK(mem')
  BY <1>2, <1>3, <1>5, <1>6, <1>7, BodyOK
<1>9. /\ DOMAIN todo' = {1} /\ todo'[1] = [op |-> "autosave", id |-> n]
      /\ todo' \in Seq(Write)
  BY <1>1, <1>4 DEF Write, MaybeNote
<1>10. todo'[1].op = "autosave" /\ todo'[1].id = n
  BY <1>9
<1>11. PadType'
  <2>1. TodoOK(todo', mem'.notes, past'.gone)
    BY <1>3, <1>7, <1>9, <1>10 DEF TodoOK
  <2> QED
    BY <1>1, <1>5, <1>8, <2>1 DEF PadInv, PadType
<1>12. \A op, i : ~Pends(todo, op, i)
  BY <1>1 DEF Notes!Ready, Pends
<1>13. ~Saves(todo) /\ ~Saves(todo')
  BY <1>1, <1>9, <1>10 DEF Notes!Ready, Saves
<1>14. FilesKnown'
  BY <1>1, <1>5, <1>7, <1>12 DEF PadInv, FilesKnown
<1>15. NothingForgotten'
  <2> SUFFICES ASSUME ~past.failed, NEW i \in Notes!Elements(mem.notes)
               PROVE  OnDisk(i)' \/ Pends(todo', "autosave", i)
    BY <1>5, <1>7, <1>13 DEF NothingForgotten
  <2>1. CASE i = n
    BY <1>9, <1>10, <2>1 DEF Pends
  <2>2. CASE i # n
    <3>1. OnDisk(i)
      BY <1>12, <1>13 DEF PadInv, NothingForgotten
    <3>2. mem'.body[i] = mem.body[i]
      <4>1. mem.body \in [Notes!NoteId -> Nat] /\ i \in Notes!NoteId
        BY <1>2 DEF Pad, Notes!Elements
      <4> QED
        BY <1>7, <2>2, <4>1
    <3> QED
      BY <1>1, <1>7, <3>1, <3>2 DEF OnDisk
  <2> QED
    BY <2>1, <2>2
<1> QED
  BY <1>11, <1>14, <1>15 DEF PadInv

LEMMA PasteKeeps ==
  ASSUME PadInv, Notes!Paste PROVE PadInv'
<1> DEFINE m == IF mem.wide THEN mem ELSE Notes!EnsureActive(mem)
<1> DEFINE first == ~mem.wide /\ m.active # Notes!NoNote
<1> DEFINE opened == [m EXCEPT
                        !.wide = TRUE, !.focus = TRUE, !.open = IF first THEN {m.active} ELSE @]
<1> DEFINE n == IF Notes!HasActive THEN Notes!Target ELSE m.active
<1> DEFINE k == past.edits + 2
<1>1. Notes!Ready /\ UNCHANGED disk
  BY DEF Notes!Paste
<1>2. \/ Notes!Persist(opened) /\ UNCHANGED past
      \/ /\ ~(~Notes!HasActive /\ m.active \notin Notes!Elements(m.notes))
         /\ mem' = [opened EXCEPT !.body[n] = k, !.sel = Notes!NoNote, !.due = TRUE]
         /\ todo' = Notes!Save(m.notes) \o Notes!Autosave(n)
         /\ past' = [past EXCEPT !.edits = @ + 1]
  BY DEF Notes!Paste
<1>3. PadOK(mem)
  BY DEF PadInv, PadType
<1>4. PadOK(m) /\ m.notes = mem.notes /\ (first => m.active \in Notes!Elements(m.notes))
  BY <1>3, EnsureActiveOK
<1> HIDE DEF m
<1>5. m \in Pad /\ m.open \subseteq Notes!Elements(m.notes) /\ m.notes \in Seq(Notes!NoteId)
  BY <1>4 DEF PadOK, Pad
<1> HIDE DEF first
<1>6. /\ opened.notes = m.notes /\ opened.body = m.body
      /\ opened.open = IF first THEN {m.active} ELSE m.open
      /\ opened.confirm = m.confirm /\ opened.from = m.from /\ opened.to = m.to
  BY <1>5 DEF Pad
<1>7. opened.open \subseteq Notes!Elements(m.notes)
  BY <1>4, <1>5, <1>6
<1>8. opened \in Pad
  <2>1. (IF first THEN {m.active} ELSE m.open) \subseteq Notes!NoteId
    BY <1>4, <1>5 DEF Notes!Elements
  <2> QED
    BY <1>5, <2>1 DEF Pad
<1> HIDE DEF opened
<1>9. PadOK(opened)
  BY <1>4, <1>6, <1>7, <1>8, SameOK
<1>10. CASE Notes!Persist(opened) /\ UNCHANGED past
  BY <1>1, <1>4, <1>6, <1>9, <1>10, PersistSame
<1>11. ASSUME ~(~Notes!HasActive /\ m.active \notin Notes!Elements(m.notes)),
              mem' = [opened EXCEPT !.body[n] = k, !.sel = Notes!NoNote, !.due = TRUE],
              todo' = Notes!Save(m.notes) \o Notes!Autosave(n),
              past' = [past EXCEPT !.edits = @ + 1]
       PROVE  PadInv'
  <2>1. n \in Notes!Elements(m.notes)
    BY <1>3, <1>4, <1>11, TargetFacts
  <2>2. /\ past' \in Counted /\ past'.made = past.made /\ past.made \in Nat
        /\ past'.stray = past.stray /\ past'.gone = past.gone
        /\ k \in Nat /\ k # 0
    BY <1>11, EditedOK
  <2> HIDE DEF n, k
  <2>3. n \in Notes!NoteId
    BY <1>5, <2>1 DEF Notes!Elements
  <2>4. mem' \in Pad
    BY <1>8, <1>11, <2>2, <2>3 DEF Pad, MaybeNote
  <2>5. /\ mem'.notes = opened.notes /\ mem'.body = [opened.body EXCEPT ![n] = k]
        /\ mem'.open = opened.open /\ mem'.confirm = opened.confirm
        /\ mem'.from = opened.from /\ mem'.to = opened.to
    BY <1>8, <1>11 DEF Pad
  <2>6. PadOK(mem')
    BY <1>6, <1>7, <1>9, <2>1, <2>2, <2>4, <2>5, BodyOK
  <2>7. Saving(todo', mem'.notes, past'.gone)
    BY <1>5, <1>6, <1>11, <2>1, <2>5, SaveThenAutosave
  <2>8. \A i \in Notes!Elements(mem'.notes) : i <= past'.made
    BY <1>4, <1>6, <2>2, <2>5 DEF PadInv, FilesKnown
  <2> QED
    BY <1>1, <1>4, <1>6, <2>2, <2>5, <2>6, <2>7, <2>8, SaveKeeps
<1> QED
  BY <1>2, <1>10, <1>11

LEMMA SelectKeeps ==
  ASSUME PadInv, Notes!Select PROVE PadInv'
<1>1. mem' = [mem EXCEPT !.sel = mem.active] /\ UNCHANGED <<disk, todo, past>>
  BY DEF Notes!Select
<1>2. PadOK(mem) /\ mem \in Pad /\ mem.open \subseteq Notes!Elements(mem.notes)
  BY DEF PadInv, PadType, PadOK
<1>3. mem' \in Pad /\ mem'.notes = mem.notes /\ mem'.body = mem.body /\ mem'.open = mem.open
      /\ mem'.confirm = mem.confirm /\ mem'.from = mem.from /\ mem'.to = mem.to
  BY <1>1, <1>2 DEF Pad
<1>4. PadOK(mem')
  BY <1>2, <1>3, SameOK
<1> QED
  BY <1>1, <1>3, <1>4, Keeps

LEMMA BodyClickKeeps ==
  ASSUME PadInv, Notes!BodyClick PROVE PadInv'
<1>1. PICK n \in mem.open, keep \in {Notes!NoNote, mem.sel} :
         Notes!Persist([mem EXCEPT !.active = n, !.focus = TRUE, !.sel = keep])
  BY DEF Notes!BodyClick
<1> DEFINE m == [mem EXCEPT !.active = n, !.focus = TRUE, !.sel = keep]
<1>2. Notes!Ready /\ UNCHANGED <<disk, past>>
  BY DEF Notes!BodyClick, Notes!Clickable
<1>3. PadOK(mem) /\ mem \in Pad /\ mem.open \subseteq Notes!Elements(mem.notes)
  BY DEF PadInv, PadType, PadOK
<1>4. n \in MaybeNote /\ keep \in MaybeNote
  BY <1>3 DEF Pad, MaybeNote
<1>5. m \in Pad /\ m.notes = mem.notes /\ m.body = mem.body /\ m.open = mem.open
      /\ m.confirm = mem.confirm /\ m.from = mem.from /\ m.to = mem.to
  BY <1>3, <1>4 DEF Pad
<1>6. PadOK(m)
  BY <1>3, <1>5, SameOK
<1> QED
  BY <1>1, <1>2, <1>5, <1>6, PersistSame

LEMMA TitleClickKeeps ==
  ASSUME PadInv, Notes!TitleClick PROVE PadInv'
<1>1. PICK n \in Notes!Elements(mem.notes) :
         Notes!Persist(IF n \in mem.open
                       THEN Notes!Unfocused([mem EXCEPT !.open = @ \ {n}, !.active = n])
                       ELSE [mem EXCEPT !.open = {n}, !.active = n, !.focus = TRUE])
  BY DEF Notes!TitleClick
<1> DEFINE shut == [mem EXCEPT !.open = @ \ {n}, !.active = n]
<1> DEFINE opened == [mem EXCEPT !.open = {n}, !.active = n, !.focus = TRUE]
<1>2. Notes!Ready /\ UNCHANGED <<disk, past>>
  BY DEF Notes!TitleClick, Notes!Clickable
<1>3. PadOK(mem) /\ mem \in Pad /\ mem.open \subseteq Notes!Elements(mem.notes)
  BY DEF PadInv, PadType, PadOK
<1>4. n \in Notes!NoteId /\ n \in MaybeNote
  BY <1>3 DEF Pad, MaybeNote, Notes!Elements
<1>5. PadOK(shut) /\ shut.notes = mem.notes
  <2>1. shut \in Pad /\ shut.notes = mem.notes /\ shut.body = mem.body /\ shut.open = mem.open \ {n}
        /\ shut.confirm = mem.confirm /\ shut.from = mem.from /\ shut.to = mem.to
    BY <1>3, <1>4 DEF Pad
  <2> QED
    BY <1>3, <2>1, SameOK
<1>6. PadOK(opened) /\ opened.notes = mem.notes
  <2>1. opened \in Pad /\ opened.notes = mem.notes /\ opened.body = mem.body /\ opened.open = {n}
        /\ opened.confirm = mem.confirm /\ opened.from = mem.from /\ opened.to = mem.to
    BY <1>3, <1>4 DEF Pad
  <2>2. opened.open \subseteq Notes!Elements(mem.notes)
    BY <2>1
  <2> QED
    BY <1>3, <2>1, <2>2, SameOK
<1>7. PadOK(Notes!Unfocused(shut)) /\ Notes!Unfocused(shut).notes = mem.notes
  BY <1>5, UnfocusedOK
<1> HIDE DEF shut, opened
<1>8. Notes!Persist(IF n \in mem.open THEN Notes!Unfocused(shut) ELSE opened)
  BY <1>1 DEF shut, opened
<1> QED
  BY <1>2, <1>6, <1>7, <1>8, PersistSame

LEMMA DragKeeps ==
  ASSUME PadInv, Notes!Drag PROVE PadInv'
<1>1. PICK n \in Notes!Elements(mem.notes), to \in Notes!Elements(mem.notes) :
         mem' = [mem EXCEPT !.from = n, !.to = to]
  BY DEF Notes!Drag
<1>2. mem.confirm = Notes!NoNote /\ UNCHANGED <<disk, todo, past>>
  BY DEF Notes!Drag
<1>3. PadOK(mem) /\ mem \in Pad
  BY DEF PadInv, PadType, PadOK
<1>4. n \in MaybeNote /\ to \in MaybeNote
  BY <1>3 DEF Pad, MaybeNote, Notes!Elements
<1>5. mem' \in Pad /\ mem'.notes = mem.notes /\ mem'.body = mem.body /\ mem'.open = mem.open
      /\ mem'.confirm = mem.confirm /\ mem'.from = n /\ mem'.to = to
  BY <1>1, <1>3, <1>4 DEF Pad
<1>6. PadOK(mem')
  BY <1>2, <1>3, <1>5 DEF PadOK
<1> QED
  BY <1>2, <1>5, <1>6, Keeps

LEMMA DropKeeps ==
  ASSUME PadInv, Notes!Drop PROVE PadInv'
<1> DEFINE m == [mem EXCEPT !.notes = Notes!Shown, !.from = Notes!NoNote, !.to = Notes!NoNote]
<1>1. /\ Notes!Ready /\ UNCHANGED <<disk, past>>
      /\ Notes!Persist(m) \/ (mem' = m /\ UNCHANGED todo)
  BY DEF Notes!Drop
<1>2. PadOK(mem) /\ mem \in Pad
  BY DEF PadInv, PadType, PadOK
<1>3. /\ Notes!Shown \in Seq(Notes!NoteId) /\ Distinct(Notes!Shown)
      /\ Notes!Elements(Notes!Shown) = Notes!Elements(mem.notes)
  BY <1>2, ShownFacts
<1>4. m \in Pad /\ m.notes = Notes!Shown /\ m.body = mem.body /\ m.open = mem.open
      /\ m.confirm = mem.confirm /\ m.from = Notes!NoNote /\ m.to = Notes!NoNote
  BY <1>2, <1>3 DEF Pad, MaybeNote
<1> HIDE DEF m
<1>5. PadOK(m)
  BY <1>2, <1>3, <1>4 DEF PadOK
<1>6. CASE Notes!Persist(m)
  BY <1>1, <1>3, <1>4, <1>5, <1>6, PersistSame
<1>7. CASE mem' = m /\ UNCHANGED todo
  BY <1>1, <1>3, <1>4, <1>5, <1>7, Keeps
<1> QED
  BY <1>1, <1>6, <1>7

LEMMA ToggleSectionKeeps ==
  ASSUME PadInv, Notes!ToggleSection PROVE PadInv'
<1> DEFINE m == Notes!EnsureActive(mem)
<1> DEFINE u == Notes!Unfocused(mem)
<1> DEFINE shut == [u EXCEPT !.wide = FALSE]
<1> DEFINE opened == [m EXCEPT !.wide = TRUE, !.focus = TRUE,
                           !.open = IF m.active # Notes!NoNote THEN {m.active} ELSE @]
<1>1. /\ Notes!Ready /\ UNCHANGED <<disk, past>>
      /\ Notes!Persist(IF mem.wide THEN shut ELSE opened)
  BY DEF Notes!ToggleSection, Notes!Clickable
<1>2. PadOK(mem)
  BY DEF PadInv, PadType
<1>3. PadOK(m) /\ m.notes = mem.notes /\ m.active \in Notes!Elements(m.notes) \cup {Notes!NoNote}
  BY <1>2, EnsureActiveOK
<1>4. PadOK(u) /\ u.notes = mem.notes
  BY <1>2, UnfocusedOK
<1> HIDE DEF m, u
<1>5. PadOK(shut) /\ shut.notes = mem.notes
  <2>1. u \in Pad /\ u.open \subseteq Notes!Elements(u.notes)
    BY <1>4 DEF PadOK
  <2>2. shut \in Pad /\ shut.notes = u.notes /\ shut.body = u.body /\ shut.open = u.open
        /\ shut.confirm = u.confirm /\ shut.from = u.from /\ shut.to = u.to
    BY <2>1 DEF Pad
  <2> QED
    BY <1>4, <2>1, <2>2, SameOK
<1>6. PadOK(opened) /\ opened.notes = mem.notes
  <2> DEFINE open == IF m.active # Notes!NoNote THEN {m.active} ELSE m.open
  <2>1. m \in Pad /\ m.open \subseteq Notes!Elements(m.notes) /\ m.notes \in Seq(Notes!NoteId)
    BY <1>3 DEF PadOK, Pad
  <2>2. open \subseteq Notes!Elements(m.notes) /\ open \subseteq Notes!NoteId
    BY <1>3, <2>1 DEF Notes!Elements
  <2>3. opened = [m EXCEPT !.wide = TRUE, !.focus = TRUE, !.open = open]
    BY <2>1 DEF Pad
  <2> HIDE DEF open, opened
  <2>4. opened \in Pad /\ opened.notes = m.notes /\ opened.body = m.body /\ opened.open = open
        /\ opened.confirm = m.confirm /\ opened.from = m.from /\ opened.to = m.to
    BY <2>1, <2>2, <2>3 DEF Pad
  <2> QED
    BY <1>3, <2>2, <2>4, SameOK
<1> HIDE DEF shut, opened
<1> QED
  BY <1>1, <1>5, <1>6, PersistSame

LEMMA UnfocusKeeps ==
  ASSUME PadInv, Notes!Unfocus PROVE PadInv'
<1> DEFINE u == Notes!Unfocused(mem)
<1>1. /\ Notes!Ready /\ UNCHANGED <<disk, past>>
      /\ Notes!Persist(u) \/ (mem' = u /\ UNCHANGED todo)
  BY DEF Notes!Unfocus
<1>2. PadOK(mem)
  BY DEF PadInv, PadType
<1>3. PadOK(u) /\ u.notes = mem.notes /\ u.body = mem.body /\ u.open = mem.open
  BY <1>2, UnfocusedOK
<1> HIDE DEF u
<1>4. CASE Notes!Persist(u)
  BY <1>1, <1>3, <1>4, PersistSame
<1>5. CASE mem' = u /\ UNCHANGED todo
  BY <1>1, <1>3, <1>5, Keeps
<1> QED
  BY <1>1, <1>4, <1>5

LEMMA RenameKeeps ==
  ASSUME PadInv, Notes!Rename PROVE PadInv'
<1>1. PICK n \in Notes!Elements(mem.notes) :
         Notes!Persist([mem EXCEPT !.body[n] = past.edits + 2])
  BY DEF Notes!Rename
<1> DEFINE k == past.edits + 2
<1> DEFINE m == [mem EXCEPT !.body[n] = k]
<1>2. Notes!Ready /\ UNCHANGED disk /\ past' = [past EXCEPT !.edits = @ + 1]
  BY DEF Notes!Rename, Notes!Clickable
<1>3. PadOK(mem) /\ mem \in Pad /\ mem.open \subseteq Notes!Elements(mem.notes)
  BY DEF PadInv, PadType, PadOK
<1>4. n \in Notes!NoteId
  BY <1>3 DEF Pad, Notes!Elements
<1>5. /\ past' \in Counted /\ past'.made = past.made /\ past.made \in Nat
      /\ past'.stray = past.stray /\ past'.gone = past.gone
      /\ k \in Nat /\ k # 0
  BY <1>2, EditedOK
<1>p. Notes!Persist(m)
  BY <1>1
<1> HIDE DEF k
<1>6. m \in Pad
  BY <1>3, <1>4, <1>5 DEF Pad
<1>7. /\ m.notes = mem.notes /\ m.body = [mem.body EXCEPT ![n] = k] /\ m.open = mem.open
      /\ m.confirm = mem.confirm /\ m.from = mem.from /\ m.to = mem.to
  BY <1>3 DEF Pad
<1> HIDE DEF m
<1>8. PadOK(m)
  BY <1>3, <1>5, <1>6, <1>7, BodyOK
<1>9. \A i \in Notes!Elements(m.notes) : i <= past'.made
  BY <1>5, <1>7 DEF PadInv, FilesKnown
<1> QED
  BY <1>2, <1>5, <1>7, <1>8, <1>9, <1>p, PersistKeeps

LEMMA AskDeleteKeeps ==
  ASSUME PadInv, Notes!AskDelete PROVE PadInv'
<1>1. PICK n \in Notes!Elements(mem.notes) :
         LET m == [Notes!Unfocused(mem) EXCEPT !.confirm = n]
         IN  Notes!Persist(m) \/ (mem' = m /\ UNCHANGED todo)
  BY DEF Notes!AskDelete
<1> DEFINE u == Notes!Unfocused(mem)
<1> DEFINE m == [u EXCEPT !.confirm = n]
<1>2. Notes!Ready /\ UNCHANGED <<disk, past>> /\ mem.from = Notes!NoNote
  BY DEF Notes!AskDelete, Notes!Clickable
<1>3. PadOK(mem)
  BY DEF PadInv, PadType
<1>4. PadOK(u) /\ u.notes = mem.notes /\ u.body = mem.body /\ u.open = mem.open
      /\ u.from = mem.from
  BY <1>3, UnfocusedOK
<1>p. Notes!Persist(m) \/ (mem' = m /\ UNCHANGED todo)
  BY <1>1
<1> HIDE DEF u
<1>5. u \in Pad /\ n \in MaybeNote
  BY <1>4 DEF PadOK, Pad, MaybeNote, Notes!Elements
<1>6. m \in Pad /\ m.notes = u.notes /\ m.body = u.body /\ m.open = u.open
      /\ m.confirm = n /\ m.from = u.from /\ m.to = u.to
  BY <1>5 DEF Pad
<1> HIDE DEF m
<1>7. PadOK(m)
  BY <1>2, <1>4, <1>6 DEF PadOK
<1>8. CASE Notes!Persist(m)
  BY <1>2, <1>4, <1>6, <1>7, <1>8, PersistSame
<1>9. CASE mem' = m /\ UNCHANGED todo
  BY <1>2, <1>4, <1>6, <1>7, <1>9, Keeps
<1> QED
  BY <1>p, <1>8, <1>9

LEMMA CancelDeleteKeeps ==
  ASSUME PadInv, Notes!CancelDelete PROVE PadInv'
<1>1. mem' = [mem EXCEPT !.confirm = Notes!NoNote] /\ UNCHANGED <<disk, todo, past>>
  BY DEF Notes!CancelDelete
<1>2. PadOK(mem) /\ mem \in Pad
  BY DEF PadInv, PadType, PadOK
<1>3. mem' \in Pad /\ mem'.notes = mem.notes /\ mem'.body = mem.body /\ mem'.open = mem.open
      /\ mem'.confirm = Notes!NoNote /\ mem'.from = mem.from /\ mem'.to = mem.to
  BY <1>1, <1>2 DEF Pad, MaybeNote
<1>4. PadOK(mem')
  BY <1>2, <1>3 DEF PadOK
<1> QED
  BY <1>1, <1>3, <1>4, Keeps

LEMMA CommitDeleteKeeps ==
  ASSUME PadInv, Notes!CommitDelete PROVE PadInv'
<1> DEFINE n == mem.confirm
<1> DEFINE rest == [mem EXCEPT !.notes = Notes!Without(@, n), !.body[n] = 0,
                               !.open = @ \ {n}, !.confirm = Notes!NoNote]
<1> DEFINE less == Notes!EnsureActive(rest)
<1> DEFINE next == [less EXCEPT !.sel = Notes!NoNote,
                                !.focus = @ /\ less.active # Notes!NoNote,
                                !.open = {less.active} \ {Notes!NoNote}]
<1> DEFINE m == IF mem.active # n THEN less ELSE next
<1>1. /\ Notes!Ready /\ n # Notes!NoNote /\ UNCHANGED disk
      /\ mem' = [m EXCEPT !.due = FALSE]
      /\ todo' = <<[op |-> "remove", id |-> n]>> \o Notes!Save(m.notes)
      /\ past' = [past EXCEPT !.gone = @ \cup {n}]
  BY DEF Notes!CommitDelete
<1>2. PadOK(mem) /\ mem \in Pad /\ past \in Counted
  BY DEF PadInv, PadType, PadOK
<1>3. n \in Notes!Elements(mem.notes) /\ mem.from = Notes!NoNote
  BY <1>1, <1>2 DEF PadOK
<1>4. mem.notes \in Seq(Notes!NoteId) /\ mem.body \in [Notes!NoteId -> Nat] /\ n \in Notes!NoteId
  BY <1>2, <1>3 DEF Pad, Notes!Elements
<1> HIDE DEF n
<1>5. /\ Notes!Without(mem.notes, n) \in Seq(Notes!NoteId)
      /\ Distinct(Notes!Without(mem.notes, n))
      /\ Notes!Elements(Notes!Without(mem.notes, n)) = Notes!Elements(mem.notes) \ {n}
  BY <1>2, <1>3, <1>4, WithoutFacts DEF PadOK
<1>6. /\ rest.notes = Notes!Without(mem.notes, n) /\ rest.body = [mem.body EXCEPT ![n] = 0]
      /\ rest.open = mem.open \ {n} /\ rest.confirm = Notes!NoNote /\ rest.from = mem.from
  BY <1>2 DEF Pad
<1>7. rest \in Pad
  <2>1. [mem.body EXCEPT ![n] = 0] \in [Notes!NoteId -> Nat]
    BY <1>4
  <2>2. mem.open \ {n} \subseteq Notes!NoteId
    BY <1>2 DEF Pad
  <2> QED
    BY <1>2, <1>5, <2>1, <2>2 DEF Pad, MaybeNote
<1> HIDE DEF rest
<1>8. PadOK(rest)
  <2>1. \A i \in Notes!Elements(rest.notes) : rest.body[i] # 0
    <3>1. \A i \in Notes!Elements(mem.notes) : i \in Notes!NoteId /\ mem.body[i] # 0
      BY <1>2, <1>4 DEF PadOK, Notes!Elements
    <3> QED
      BY <1>4, <1>5, <1>6, <3>1
  <2>2. rest.open \subseteq Notes!Elements(rest.notes)
    BY <1>2, <1>5, <1>6 DEF PadOK
  <2> QED
    BY <1>3, <1>5, <1>6, <1>7, <2>1, <2>2 DEF PadOK
<1>9. /\ PadOK(less) /\ less.notes = rest.notes
      /\ less.active \in Notes!Elements(less.notes) \cup {Notes!NoNote}
  BY <1>8, EnsureActiveOK
<1> HIDE DEF less
<1>10. PadOK(next) /\ next.notes = rest.notes
  <2>1. less \in Pad /\ less.notes \in Seq(Notes!NoteId)
    BY <1>9 DEF PadOK, Pad
  <2>2. {less.active} \ {Notes!NoNote} \subseteq Notes!Elements(less.notes)
    BY <1>9
  <2>3. {less.active} \ {Notes!NoNote} \subseteq Notes!NoteId
    BY <2>1, <2>2 DEF Notes!Elements
  <2>4. /\ next.notes = less.notes /\ next.body = less.body
        /\ next.open = {less.active} \ {Notes!NoNote}
        /\ next.confirm = less.confirm /\ next.from = less.from /\ next.to = less.to
    BY <2>1 DEF Pad
  <2>5. next \in Pad
    BY <2>1, <2>3 DEF Pad, MaybeNote
  <2> HIDE DEF next
  <2> QED
    BY <1>9, <2>2, <2>4, <2>5, SameOK
<1> HIDE DEF next
<1>11. PadOK(m) /\ m.notes = rest.notes
  BY <1>9, <1>10
<1> HIDE DEF m
<1>12. PadOK(mem') /\ mem'.notes = rest.notes
  <2>1. m \in Pad /\ m.open \subseteq Notes!Elements(m.notes)
    BY <1>11 DEF PadOK
  <2>2. mem' \in Pad /\ mem'.notes = m.notes /\ mem'.body = m.body /\ mem'.open = m.open
        /\ mem'.confirm = m.confirm /\ mem'.from = m.from /\ mem'.to = m.to
    BY <1>1, <2>1 DEF Pad
  <2> QED
    BY <1>11, <2>1, <2>2, SameOK
<1>13. /\ past' \in Counted /\ past'.made = past.made /\ past.made \in Nat
       /\ past'.stray = past.stray /\ past'.gone = past.gone \cup {n}
  <2> DEFINE gone == past.gone \cup {n}
  <2>1. past' = [past EXCEPT !.gone = gone]
    BY <1>1, <1>2 DEF Counted
  <2>2. gone \subseteq Notes!NoteId
    BY <1>2, <1>4 DEF Counted
  <2> HIDE DEF gone
  <2>3. /\ past' \in Counted /\ past'.made = past.made /\ past.made \in Nat
        /\ past'.stray = past.stray /\ past'.gone = gone
    BY <1>2, <2>1, <2>2 DEF Counted
  <2> QED
    BY <2>3 DEF gone
<1>14. Saving(todo', mem'.notes, past'.gone) /\ Pends(todo', "remove", n)
  BY <1>1, <1>4, <1>5, <1>6, <1>11, <1>12, <1>13, RemoveThenSave
<1>15. \A i \in Notes!Elements(mem'.notes) : i <= past'.made
  BY <1>5, <1>6, <1>12, <1>13 DEF PadInv, FilesKnown
<1>16. \A i \in Notes!Elements(mem.notes) :
          i \in Notes!Elements(mem'.notes) \/ Pends(todo', "remove", i)
  BY <1>5, <1>6, <1>12, <1>14
<1> QED
  BY <1>1, <1>12, <1>13, <1>14, <1>15, <1>16, SaveKeeps

LEMMA SaveAllKeeps ==
  ASSUME PadInv, Notes!SaveAll PROVE PadInv'
<1>1. Notes!Ready /\ Notes!Persist(mem) /\ UNCHANGED <<disk, past>> /\ PadOK(mem)
  BY DEF Notes!SaveAll, PadInv, PadType
<1> QED
  BY <1>1, PersistSame

\* Of the writes T the first is s, and U is left when it is done.
FirstOf(T, s, U, notes, gone) ==
    /\ s \in Write
    /\ TodoOK(U, notes, gone)
    /\ \A op, n : Pends(T, op, n) =>
          Pends(U, op, n) \/ (s.op = op /\ s.id = n)
    /\ \A n : ~Pends(U, "remove", n)
    /\ Saves(T) => Saves(U) \/ s.op = "prefs"
    /\ Saves(U) => Saves(T)
    /\ s.op = "prefs" => ~Saves(U) /\ \A n : ~Pends(T, "body", n)
    /\ s.op \in {"body", "autosave"} => s.id \in Notes!Elements(notes)
    /\ s.op = "remove" => s.id \in gone /\ s.id \notin Notes!Elements(notes)

LEMMA TailFacts ==
  ASSUME NEW notes, NEW gone, NEW T, TodoOK(T, notes, gone), T # <<>>
  PROVE  FirstOf(T, Head(T), Tail(T), notes, gone)
<1> DEFINE s == Head(T)
<1> DEFINE U == Tail(T)
<1> DEFINE L == Len(T)
<1>1. T \in Seq(Write)
  BY DEF TodoOK
<1>2. /\ L \in Nat /\ L >= 1 /\ DOMAIN T = 1..L /\ s = T[1] /\ T[1] \in Write
      /\ U \in Seq(Write) /\ Len(U) = L - 1 /\ \A i \in 1..L - 1 : U[i] = T[i + 1]
  BY <1>1
<1> HIDE DEF L, s, U
<1>3. 1 \in DOMAIN T /\ DOMAIN U = 1..L - 1
  BY <1>2
<1>4. \A i \in DOMAIN U : i + 1 \in DOMAIN T /\ U[i] = T[i + 1] /\ i + 1 # 1
  BY <1>2, <1>3
<1>5. \A i \in DOMAIN T : i = 1 \/ (i - 1 \in DOMAIN U /\ U[i - 1] = T[i])
  <2> SUFFICES ASSUME NEW i \in 1..L, i # 1 PROVE i - 1 \in DOMAIN U /\ U[i - 1] = T[i]
    BY <1>2
  <2>1. i - 1 \in 1..L - 1 /\ (i - 1) + 1 = i
    BY <1>2
  <2> QED
    BY <1>2, <1>3, <2>1
<1>6. TodoOK(U, notes, gone)
  <2>1. \A i \in DOMAIN U : U[i].op # "remove"
    BY <1>4 DEF TodoOK
  <2>2. \A i, j \in DOMAIN U : i < j => i + 1 < j + 1
    BY <1>2, <1>3
  <2>3. \A i, j \in DOMAIN U : i < j /\ U[i].op = "prefs" => U[j].op = "autosave"
    BY <1>4, <2>2 DEF TodoOK
  <2>4. \A i \in DOMAIN U : U[i].op \in {"body", "autosave"} => U[i].id \in Notes!Elements(notes)
    BY <1>4 DEF TodoOK
  <2> QED
    BY <1>2, <2>1, <2>3, <2>4 DEF TodoOK
<1>7. \A op, n : Pends(T, op, n) => Pends(U, op, n) \/ (s.op = op /\ s.id = n)
  BY <1>2, <1>5 DEF Pends
<1>8. \A n : ~Pends(U, "remove", n)
  BY <1>4 DEF Pends, TodoOK
<1>9. Saves(T) => Saves(U) \/ s.op = "prefs"
  BY <1>2, <1>5 DEF Saves
<1>10. Saves(U) => Saves(T)
  BY <1>4 DEF Saves
<1>11. s.op = "prefs" => ~Saves(U) /\ \A n : ~Pends(T, "body", n)
  <2> SUFFICES ASSUME T[1].op = "prefs" PROVE ~Saves(U) /\ \A n : ~Pends(T, "body", n)
    BY <1>2
  <2>1. \A i \in DOMAIN T : i = 1 \/ 1 < i
    BY <1>2
  <2>2. \A i \in DOMAIN T : i = 1 \/ T[i].op = "autosave"
    BY <1>3, <2>1 DEF TodoOK
  <2>3. ~Saves(U)
    BY <1>4, <2>2 DEF Saves
  <2>4. \A n : ~Pends(T, "body", n)
    BY <2>2 DEF Pends
  <2> QED
    BY <2>3, <2>4
<1>12. s.op \in {"body", "autosave"} => s.id \in Notes!Elements(notes)
  BY <1>2, <1>3 DEF TodoOK
<1>13. s.op = "remove" => s.id \in gone /\ s.id \notin Notes!Elements(notes)
  BY <1>2, <1>3 DEF TodoOK
<1> QED
  BY <1>2, <1>6, <1>7, <1>8, <1>9, <1>10, <1>11, <1>12, <1>13 DEF FirstOf, s, U

\* What one write does to the files of the notes there are.
LEMMA WrittenText ==
  ASSUME PadInv, NEW n \in Notes!Elements(mem.notes),
         disk' = [disk EXCEPT !.file[n] = mem.body[n],
                              !.open = (@ \ {n}) \cup (mem.open \cap {n})],
         UNCHANGED mem
  PROVE  /\ disk' \in Files /\ disk'.order = disk.order
         /\ OnDisk(n)'
         /\ \A i \in Notes!NoteId : i # n => disk'.file[i] = disk.file[i]
         /\ \A i \in Notes!NoteId : i # n => (OnDisk(i) => OnDisk(i)')
         /\ disk'.file[n] # 0 /\ disk'.open \subseteq disk.open \cup {n}
<1>1. PadOK(mem) /\ mem \in Pad /\ disk \in Files
  BY DEF PadInv, PadType, PadOK
<1>2. n \in Notes!NoteId /\ mem.body[n] \in Nat /\ mem.body[n] # 0
  BY <1>1 DEF PadOK, Pad, Notes!Elements
<1> DEFINE open == (disk.open \ {n}) \cup (mem.open \cap {n})
<1> DEFINE file == [disk.file EXCEPT ![n] = mem.body[n]]
<1>3. disk' = [disk EXCEPT !.file = file, !.open = open]
  BY <1>1 DEF Files
<1>4. file \in [Notes!NoteId -> Nat] /\ open \subseteq Notes!NoteId
  BY <1>1, <1>2 DEF Files
<1>5. /\ file[n] = mem.body[n] /\ \A i \in Notes!NoteId : i # n => file[i] = disk.file[i]
  BY <1>1, <1>2 DEF Files
<1>6. /\ (n \in open) = (n \in mem.open) /\ open \subseteq disk.open \cup {n}
      /\ \A i : i # n => (i \in open) = (i \in disk.open)
  OBVIOUS
<1> HIDE DEF file, open
<1>7. disk' \in Files /\ disk'.order = disk.order /\ disk'.file = file /\ disk'.open = open
  BY <1>1, <1>3, <1>4 DEF Files
<1>8. OnDisk(n)'
  BY <1>5, <1>6, <1>7 DEF OnDisk
<1>9. \A i \in Notes!NoteId : i # n => (OnDisk(i) => OnDisk(i)')
  BY <1>5, <1>6, <1>7 DEF OnDisk
<1> QED
  BY <1>2, <1>5, <1>6, <1>7, <1>8, <1>9

LEMMA WriteNextKeeps ==
  ASSUME PadInv, Notes!WriteNext PROVE PadInv'
<1>s. PICK s : s = Head(todo)
  OBVIOUS
<1>1. /\ todo # <<>> /\ disk' = Notes!Written(s) /\ todo' = Tail(todo) /\ UNCHANGED mem
      /\ past' = [past EXCEPT !.failed = @ /\ s.op # "prefs"]
  BY <1>s DEF Notes!WriteNext, Notes!Ready
<1>2. TodoOK(todo, mem.notes, past.gone) /\ past \in Counted /\ disk \in Files
      /\ PadOK(mem) /\ mem \in Pad
  BY DEF PadInv, PadType, PadOK
<1>t. todo # <<>> /\ todo' = Tail(todo) /\ TodoOK(todo, mem.notes, past.gone)
  BY <1>1, <1>2
<1>f. FirstOf(todo, s, todo', mem.notes, past.gone)
  BY <1>s, <1>t, TailFacts
<1>3. /\ s \in Write
      /\ TodoOK(todo', mem.notes, past.gone)
      /\ \A op, n : Pends(todo, op, n) => Pends(todo', op, n) \/ (s.op = op /\ s.id = n)
      /\ \A n : ~Pends(todo', "remove", n)
      /\ Saves(todo) => Saves(todo') \/ s.op = "prefs"
      /\ Saves(todo') => Saves(todo)
      /\ s.op = "prefs" => ~Saves(todo') /\ \A n : ~Pends(todo, "body", n)
      /\ s.op \in {"body", "autosave"} => s.id \in Notes!Elements(mem.notes)
      /\ s.op = "remove" => s.id \in past.gone /\ s.id \notin Notes!Elements(mem.notes)
  BY <1>f DEF FirstOf
<1>4. s.op \in {"backup", "body", "prefs", "autosave", "remove"}
  BY <1>3 DEF Write
<1>5. s.op = "prefs" => Saves(todo)
  BY <1>1, <1>2, <1>s DEF TodoOK, Saves
<1>6. /\ past' \in Counted /\ past'.made = past.made /\ past'.stray = past.stray
      /\ past'.gone = past.gone /\ (past'.failed <=> past.failed /\ s.op # "prefs")
  BY <1>1, <1>2 DEF Counted
<1>7. Notes!Elements(mem.notes) \subseteq Notes!NoteId /\ Notes!Elements(disk.order) \subseteq Notes!NoteId
  BY <1>2 DEF Pad, Files, Notes!Elements
<1>8. \A n \in Notes!Elements(mem.notes) : n <= past.made
  BY DEF PadInv, FilesKnown
<1>9. \A n \in Notes!NoteId : disk.file[n] # 0 =>
         n \in Notes!Elements(mem.notes) \/ n \in past.stray \/ (s.op = "remove" /\ s.id = n)
  BY <1>3 DEF PadInv, FilesKnown
<1>10. ASSUME disk' \in Files,
              \A n \in Notes!Elements(disk'.order) : disk'.file[n] # 0 \/ n \in past.gone,
              \A n \in disk'.open : disk'.file[n] # 0,
              \A n \in Notes!NoteId : disk'.file[n] # 0 => n <= past.made,
              \A n \in Notes!NoteId : disk'.file[n] # 0 =>
                 n \in Notes!Elements(mem.notes) \/ n \in past.stray,
              \A n \in Notes!Elements(mem.notes) : OnDisk(n) => OnDisk(n)',
              s.op \in {"body", "autosave"} => OnDisk(s.id)'
       PROVE  PadInv'
  <2>1. PadType'
    BY <1>1, <1>2, <1>3, <1>6, <1>10 DEF PadType
  <2>2. FilesKnown'
    BY <1>1, <1>6, <1>8, <1>10 DEF FilesKnown
  <2>3. NothingForgotten'
    <3>1. ASSUME Saves(todo'), NEW n \in Notes!Elements(mem.notes)
          PROVE  OnDisk(n)' \/ Pends(todo', "body", n)
      <4>1. OnDisk(n) \/ Pends(todo, "body", n)
        BY <1>3, <3>1 DEF PadInv, NothingForgotten
      <4>2. CASE OnDisk(n)
        BY <1>10, <4>2
      <4>3. CASE Pends(todo, "body", n)
        <5>1. Pends(todo', "body", n) \/ (s.op = "body" /\ s.id = n)
          BY <1>3, <4>3
        <5> QED
          BY <1>10, <5>1
      <4> QED
        BY <4>1, <4>2, <4>3
    <3>2. ASSUME ~Saves(todo'), ~past'.failed, NEW n \in Notes!Elements(mem.notes)
          PROVE  OnDisk(n)' \/ Pends(todo', "autosave", n)
      <4>1. CASE Saves(todo)
        <5>1. s.op = "prefs"
          BY <1>3, <3>2, <4>1
        <5>2. OnDisk(n)
          BY <1>3, <4>1, <5>1 DEF PadInv, NothingForgotten
        <5> QED
          BY <1>10, <5>2
      <4>2. CASE ~Saves(todo)
        <5>1. ~past.failed
          BY <1>5, <1>6, <3>2, <4>2
        <5>2. OnDisk(n) \/ Pends(todo, "autosave", n)
          BY <4>2, <5>1 DEF PadInv, NothingForgotten
        <5>3. CASE OnDisk(n)
          BY <1>10, <5>3
        <5>4. CASE Pends(todo, "autosave", n)
          <6>1. Pends(todo', "autosave", n) \/ (s.op = "autosave" /\ s.id = n)
            BY <1>3, <5>4
          <6> QED
            BY <1>10, <6>1
        <5> QED
          BY <5>2, <5>3, <5>4
      <4> QED
        BY <4>1, <4>2
    <3> QED
      BY <1>1, <3>1, <3>2 DEF NothingForgotten
  <2> QED
    BY <2>1, <2>2, <2>3 DEF PadInv
<1>11. CASE s.op \in {"body", "autosave"}
  <2>1. s.id \in Notes!Elements(mem.notes)
    BY <1>3, <1>11
  <2>2. disk' = [disk EXCEPT !.file[s.id] = mem.body[s.id],
                             !.open = (@ \ {s.id}) \cup (mem.open \cap {s.id})]
    BY <1>1, <1>11 DEF Notes!Written
  <2>3. /\ disk' \in Files /\ disk'.order = disk.order
        /\ OnDisk(s.id)'
        /\ \A i \in Notes!NoteId : i # s.id => disk'.file[i] = disk.file[i]
        /\ \A i \in Notes!NoteId : i # s.id => (OnDisk(i) => OnDisk(i)')
        /\ disk'.file[s.id] # 0 /\ disk'.open \subseteq disk.open \cup {s.id}
    BY <1>1, <2>1, <2>2, WrittenText
  <2>4. \A n \in Notes!Elements(disk'.order) : disk'.file[n] # 0 \/ n \in past.gone
    BY <1>7, <2>3 DEF PadInv, FilesKnown
  <2>5. \A n \in disk'.open : disk'.file[n] # 0
    <3>1. disk.open \subseteq Notes!NoteId
      BY <1>2 DEF Files
    <3> QED
      BY <2>3, <3>1 DEF PadInv, FilesKnown
  <2>6. \A n \in Notes!NoteId : disk'.file[n] # 0 => n <= past.made
    BY <1>8, <2>1, <2>3 DEF PadInv, FilesKnown
  <2>7. \A n \in Notes!NoteId : disk'.file[n] # 0 =>
           n \in Notes!Elements(mem.notes) \/ n \in past.stray
    BY <1>9, <1>11, <2>1, <2>3
  <2>8. \A n \in Notes!Elements(mem.notes) : OnDisk(n) => OnDisk(n)'
    BY <1>7, <2>3
  <2> QED
    BY <1>10, <2>3, <2>4, <2>5, <2>6, <2>7, <2>8
<1>12. CASE s.op = "prefs"
  <2>1. disk' = [disk EXCEPT !.prefs = TRUE, !.order = mem.notes, !.active = mem.active,
                             !.wide = mem.wide]
    BY <1>1, <1>12 DEF Notes!Written
  <2>2. disk' \in Files /\ disk'.file = disk.file /\ disk'.open = disk.open
        /\ disk'.order = mem.notes
    BY <1>2, <2>1 DEF Files, Pad
  <2>3. \A n \in Notes!Elements(mem.notes) : OnDisk(n)
    BY <1>3, <1>5, <1>12 DEF PadInv, NothingForgotten
  <2>4. \A n \in Notes!Elements(disk'.order) : disk'.file[n] # 0 \/ n \in past.gone
    BY <1>2, <2>2, <2>3 DEF OnDisk, PadOK
  <2>5. \A n : OnDisk(n) => OnDisk(n)'
    BY <1>1, <2>2 DEF OnDisk
  <2> QED
    BY <1>9, <1>10, <1>12, <2>2, <2>4, <2>5 DEF PadInv, FilesKnown
<1>13. CASE s.op = "remove"
  <2> DEFINE file == [disk.file EXCEPT ![s.id] = 0]
  <2>1. disk' = [disk EXCEPT !.file[s.id] = 0, !.open = @ \ {s.id}]
    BY <1>1, <1>13 DEF Notes!Written
  <2>2. s.id \in Notes!NoteId
    BY <1>2, <1>3, <1>13 DEF Counted
  <2>3. file \in [Notes!NoteId -> Nat] /\ file[s.id] = 0
        /\ \A i \in Notes!NoteId : i # s.id => file[i] = disk.file[i]
    BY <1>2, <2>2 DEF Files
  <2>4. disk' = [disk EXCEPT !.file = file, !.open = @ \ {s.id}]
    BY <1>2, <2>1 DEF Files
  <2> HIDE DEF file
  <2>5. disk' \in Files /\ disk'.file = file /\ disk'.open = disk.open \ {s.id}
        /\ disk'.order = disk.order
    BY <1>2, <2>3, <2>4 DEF Files
  <2>6. \A n \in Notes!Elements(disk'.order) : disk'.file[n] # 0 \/ n \in past.gone
    BY <1>3, <1>7, <1>13, <2>3, <2>5 DEF PadInv, FilesKnown
  <2>7. \A n \in disk'.open : disk'.file[n] # 0
    <3>1. disk.open \subseteq Notes!NoteId
      BY <1>2 DEF Files
    <3> QED
      BY <2>3, <2>5, <3>1 DEF PadInv, FilesKnown
  <2>8. \A n \in Notes!NoteId : disk'.file[n] # 0 => n <= past.made
    BY <2>3, <2>5 DEF PadInv, FilesKnown
  <2>9. \A n \in Notes!NoteId : disk'.file[n] # 0 =>
           n \in Notes!Elements(mem.notes) \/ n \in past.stray
    BY <1>9, <2>3, <2>5
  <2>10. \A n \in Notes!Elements(mem.notes) : OnDisk(n) => OnDisk(n)'
    BY <1>1, <1>3, <1>7, <1>13, <2>3, <2>5 DEF OnDisk
  <2> QED
    BY <1>10, <1>13, <2>5, <2>6, <2>7, <2>8, <2>9, <2>10
<1>14. CASE s.op = "backup"
  <2>1. disk' = disk
    BY <1>1, <1>14 DEF Notes!Written
  <2>2. \A n : OnDisk(n) => OnDisk(n)'
    BY <1>1, <2>1 DEF OnDisk
  <2> QED
    BY <1>2, <1>9, <1>10, <1>14, <2>1, <2>2 DEF PadInv, FilesKnown
<1> QED
  BY <1>4, <1>11, <1>12, <1>13, <1>14

LEMMA WriteFailsKeeps ==
  ASSUME PadInv, Notes!WriteFails PROVE PadInv'
<1>s. PICK s : s = Head(todo)
  OBVIOUS
<1> DEFINE last == todo[Len(todo)]
<1>1. /\ todo # <<>> /\ UNCHANGED <<mem, disk>>
      /\ todo' = IF s.op = "remove" THEN Tail(todo)
                 ELSE IF Len(todo) > 1 /\ last.op = "autosave" THEN <<last>> ELSE <<>>
      /\ past' = [past EXCEPT !.faults = @ + 1,
                              !.failed = @ \/ s.op # "remove",
                              !.stray = IF s.op = "remove" THEN @ \cup {s.id} ELSE @]
  BY <1>s DEF Notes!WriteFails, Notes!Ready
<1>2. TodoOK(todo, mem.notes, past.gone) /\ past \in Counted /\ disk \in Files /\ PadOK(mem)
  BY DEF PadInv, PadType
<1>t. todo # <<>> /\ TodoOK(todo, mem.notes, past.gone)
  BY <1>1, <1>2
<1>3. FirstOf(todo, s, Tail(todo), mem.notes, past.gone)
  BY <1>s, <1>t, TailFacts
<1>4. s \in Write /\ (s.op = "remove" => s.id \in past.gone /\ s.id \notin Notes!Elements(mem.notes))
  BY <1>3 DEF FirstOf
<1>5. /\ past' \in Counted /\ past'.made = past.made /\ past'.gone = past.gone
      /\ (past'.failed <=> past.failed \/ s.op # "remove")
      /\ past'.stray = IF s.op = "remove" THEN past.stray \cup {s.id} ELSE past.stray
  <2> DEFINE stray == IF s.op = "remove" THEN past.stray \cup {s.id} ELSE past.stray
  <2> DEFINE faults == past.faults + 1
  <2> DEFINE failed == past.failed \/ s.op # "remove"
  <2>1. past' = [past EXCEPT !.faults = faults, !.failed = failed, !.stray = stray]
    BY <1>1, <1>2 DEF Counted
  <2>2. stray \subseteq Notes!NoteId /\ faults \in Nat /\ failed \in BOOLEAN
    BY <1>2, <1>4 DEF Counted
  <2> HIDE DEF stray, faults, failed
  <2>3. /\ past' \in Counted /\ past'.made = past.made /\ past'.gone = past.gone
        /\ past'.failed = failed /\ past'.stray = stray
    BY <1>2, <2>1, <2>2 DEF Counted
  <2> QED
    BY <2>3 DEF stray, failed
<1>6. \A n : OnDisk(n) => OnDisk(n)'
  BY <1>1 DEF OnDisk
<1>7. FilesKnown'
  <2>1. \A n \in Notes!NoteId : disk.file[n] # 0 =>
           n \in Notes!Elements(mem.notes) \/ n \in past'.stray
    <3> SUFFICES ASSUME NEW n \in Notes!NoteId, disk.file[n] # 0, n \notin Notes!Elements(mem.notes)
                 PROVE  n \in past'.stray
      OBVIOUS
    <3>1. n \in past.stray \/ Pends(todo, "remove", n)
      BY DEF PadInv, FilesKnown
    <3>2. Pends(todo, "remove", n) => s.op = "remove" /\ s.id = n
      BY <1>3 DEF FirstOf
    <3> QED
      BY <1>5, <3>1, <3>2
  <2> QED
    BY <1>1, <1>5, <2>1 DEF PadInv, FilesKnown
<1>8. CASE s.op = "remove"
  <2>1. FirstOf(todo, s, todo', mem.notes, past.gone)
    BY <1>1, <1>3, <1>8
  <2>2. TodoOK(todo', mem'.notes, past'.gone)
    BY <1>1, <1>5, <2>1 DEF FirstOf
  <2>3. PadType'
    BY <1>1, <1>2, <1>5, <2>2 DEF PadType
  <2>4. /\ Saves(todo) <=> Saves(todo')
        /\ \A n : Pends(todo, "body", n) => Pends(todo', "body", n)
        /\ \A n : Pends(todo, "autosave", n) => Pends(todo', "autosave", n)
    BY <1>8, <2>1 DEF FirstOf
  <2>5. past'.failed <=> past.failed
    BY <1>5, <1>8
  <2>6. NothingForgotten'
    <3>1. ASSUME Saves(todo'), NEW n \in Notes!Elements(mem.notes)
          PROVE  OnDisk(n)' \/ Pends(todo', "body", n)
      <4>1. OnDisk(n) \/ Pends(todo, "body", n)
        BY <2>4, <3>1 DEF PadInv, NothingForgotten
      <4> QED
        BY <1>6, <2>4, <4>1
    <3>2. ASSUME ~Saves(todo'), ~past'.failed, NEW n \in Notes!Elements(mem.notes)
          PROVE  OnDisk(n)' \/ Pends(todo', "autosave", n)
      <4>1. OnDisk(n) \/ Pends(todo, "autosave", n)
        BY <2>4, <2>5, <3>2 DEF PadInv, NothingForgotten
      <4> QED
        BY <1>6, <2>4, <4>1
    <3> QED
      BY <1>1, <3>1, <3>2 DEF NothingForgotten
  <2> QED
    BY <1>7, <2>3, <2>6 DEF PadInv
<1>9. CASE s.op # "remove"
  <2>1. past'.failed
    BY <1>5, <1>9
  <2>2. \/ todo' = <<last>> /\ last.op = "autosave" /\ Len(todo) > 1
        \/ todo' = <<>>
    BY <1>1, <1>9
  <2>3. last \in Write /\ Len(todo) \in DOMAIN todo
    BY <1>t DEF TodoOK
  <2>4. last.op = "autosave" => last.id \in Notes!Elements(mem.notes)
    BY <1>2, <2>3 DEF TodoOK
  <2> HIDE DEF last
  <2>5. TodoOK(todo', mem'.notes, past'.gone) /\ ~Saves(todo')
    <3>1. CASE todo' = <<last>> /\ last.op = "autosave"
      <4>1. todo' \in Seq(Write) /\ DOMAIN todo' = {1} /\ todo'[1] = last
        BY <2>3, <3>1
      <4> QED
        BY <1>1, <2>4, <3>1, <4>1 DEF TodoOK, Saves
    <3>2. CASE todo' = <<>>
      BY <3>2 DEF TodoOK, Saves
    <3> QED
      BY <2>2, <3>1, <3>2
  <2>6. PadType'
    BY <1>1, <1>2, <1>5, <2>5 DEF PadType
  <2>7. NothingForgotten'
    BY <2>1, <2>5 DEF NothingForgotten
  <2> QED
    BY <1>7, <2>6, <2>7 DEF PadInv
<1> QED
  BY <1>8, <1>9

\* load_from_dir finds every note once.
LEMMA LoadedFacts ==
  ASSUME MaxNotes \in Nat, disk \in Files, NEW s \in Notes!Loaded
  PROVE  /\ s \in Seq(Notes!NoteId) /\ Distinct(s)
         /\ Notes!Elements(s) = IF disk.prefs THEN {n \in Notes!NoteId : disk.file[n] # 0} ELSE {}
<1> DEFINE found == {n \in Notes!NoteId : disk.file[n] # 0}
<1>1. CASE ~disk.prefs
  <2>1. s = <<>>
    BY <1>1 DEF Notes!Loaded
  <2> QED
    BY <1>1, <2>1 DEF Distinct, Notes!Elements
<1>2. CASE disk.prefs
  <2>1. PICK k \in 0..MaxNotes : s \in [1..k -> found]
    BY <1>2 DEF Notes!Loaded
  <2>2. Notes!Elements(s) = found /\ \A i, j \in DOMAIN s : i < j => s[i] # s[j]
    BY <1>2 DEF Notes!Loaded
  <2> HIDE DEF found
  <2>3. Distinct(s)
    BY <2>1, <2>2 DEF Distinct
  <2>4. found \subseteq Notes!NoteId
    BY DEF found
  <2>5. s \in Seq(Notes!NoteId)
    BY <2>1, <2>4
  <2> QED
    BY <1>2, <2>2, <2>3, <2>5 DEF found
<1> QED
  BY <1>1, <1>2

LEMMA RestartKeepsPad ==
  ASSUME MaxNotes \in Nat, PadInv, Notes!Restart PROVE PadInv'
<1> DEFINE Text(notes) ==
              [n \in Notes!NoteId |-> IF n \in Notes!Elements(notes) THEN disk.file[n] ELSE 0]
<1> DEFINE found == {n \in Notes!NoteId : disk.file[n] # 0}
<1>1. PICK notes \in Notes!Loaded :
         mem' = [notes |-> notes, body |-> Text(notes),
                 open |-> disk.open \cap Notes!Elements(notes),
                 active |-> disk.active, sel |-> Notes!NoNote, wide |-> disk.wide, focus |-> FALSE,
                 due |-> FALSE, confirm |-> Notes!NoNote, from |-> Notes!NoNote,
                 to |-> Notes!NoNote]
  BY DEF Notes!Restart
<1>2. /\ todo' = <<>> /\ UNCHANGED disk
      /\ past' = [past EXCEPT !.kills = @ + 1, !.failed = FALSE,
                              !.stray = IF disk.prefs THEN {} ELSE found]
  BY DEF Notes!Restart
<1>3. disk \in Files /\ past \in Counted
  BY DEF PadInv, PadType
<1>4. /\ notes \in Seq(Notes!NoteId) /\ Distinct(notes)
      /\ Notes!Elements(notes) = IF disk.prefs THEN found ELSE {}
  BY <1>3, LoadedFacts
<1>5. /\ Text(notes) \in [Notes!NoteId -> Nat]
      /\ \A n \in Notes!Elements(notes) : Text(notes)[n] = disk.file[n] /\ disk.file[n] # 0
  BY <1>3, <1>4 DEF Files
<1> HIDE DEF Text
<1>6. /\ mem' \in Pad /\ mem'.notes = notes /\ mem'.body = Text(notes)
      /\ mem'.open = disk.open \cap Notes!Elements(notes)
      /\ mem'.confirm = Notes!NoNote /\ mem'.from = Notes!NoNote
  BY <1>1, <1>3, <1>4, <1>5 DEF Pad, Files, MaybeNote
<1>7. PadOK(mem')
  BY <1>4, <1>5, <1>6 DEF PadOK
<1>8. /\ past' \in Counted /\ past'.made = past.made /\ past'.gone = past.gone
      /\ past'.stray = IF disk.prefs THEN {} ELSE found
  <2> DEFINE stray == IF disk.prefs THEN {} ELSE found
  <2> DEFINE kills == past.kills + 1
  <2>1. stray \subseteq Notes!NoteId /\ kills \in Nat
    BY <1>3 DEF Counted
  <2>2. past' = [past EXCEPT !.kills = kills, !.failed = FALSE, !.stray = stray]
    BY <1>2, <1>3 DEF Counted
  <2> HIDE DEF stray, kills
  <2>3. past' \in Counted /\ past'.made = past.made /\ past'.gone = past.gone
        /\ past'.stray = stray
    BY <1>3, <2>1, <2>2 DEF Counted
  <2> QED
    BY <2>3 DEF stray
<1>9. PadType'
  <2>1. TodoOK(todo', mem'.notes, past'.gone)
    BY <1>2 DEF TodoOK
  <2> QED
    BY <1>2, <1>3, <1>7, <1>8, <2>1 DEF PadType
<1>10. FilesKnown'
  <2>1. \A n \in Notes!Elements(mem'.notes) : n <= past'.made
    BY <1>4, <1>6, <1>8 DEF PadInv, FilesKnown
  <2>2. \A n \in Notes!NoteId : disk'.file[n] # 0 =>
           n \in Notes!Elements(mem'.notes) \/ n \in past'.stray
    BY <1>2, <1>4, <1>6, <1>8
  <2> QED
    BY <1>2, <1>8, <2>1, <2>2 DEF PadInv, FilesKnown
<1>11. NothingForgotten'
  <2>1. ~Saves(todo')
    BY <1>2 DEF Saves
  <2>2. \A n \in Notes!Elements(mem'.notes) : OnDisk(n)'
    BY <1>2, <1>5, <1>6 DEF OnDisk
  <2> QED
    BY <2>1, <2>2 DEF NothingForgotten
<1> QED
  BY <1>9, <1>10, <1>11 DEF PadInv

LEMMA PadStep ==
  ASSUME MaxNotes \in Nat, PadInv, Notes!PadNext PROVE PadInv'
BY AddNoteKeeps, EditKeeps, PasteKeeps, SelectKeeps, BodyClickKeeps, TitleClickKeeps, DragKeeps,
   DropKeeps, ToggleSectionKeeps, UnfocusKeeps, RenameKeeps, AskDeleteKeeps, CancelDeleteKeeps,
   CommitDeleteKeeps, SaveAllKeeps, WriteNextKeeps, WriteFailsKeeps, RestartKeepsPad
   DEF Notes!PadNext

LEMMA PadStays == ASSUME PadInv, UNCHANGED padVars PROVE PadInv'
<1>1. UNCHANGED <<mem, disk, todo, past>>
  BY DEF padVars
<1>2. PadType'
  BY <1>1 DEF PadInv, PadType
<1>3. FilesKnown'
  BY <1>1 DEF PadInv, FilesKnown
<1>4. NothingForgotten'
  <2>1. \A n : OnDisk(n) => OnDisk(n)'
    BY <1>1 DEF OnDisk
  <2> QED
    BY <1>1, <2>1 DEF PadInv, NothingForgotten
<1> QED
  BY <1>2, <1>3, <1>4 DEF PadInv

\* Parts gives the notes a part of their own: only their handlers touch them.
LEMMA PadInvariant == PartsSpec => []PadInv
<1>1. PartsInit => PadInv
  BY PartsAssumption, PadInitOK DEF PartsInit
<1>2. PadInv /\ [PartsNext]_partsVars => PadInv'
  <2> SUFFICES ASSUME PadInv, [PartsNext]_partsVars PROVE PadInv'
    OBVIOUS
  <2>1. Notes!PadNext \/ UNCHANGED padVars
    BY DEF PartsNext, partsVars
  <2> QED
    BY <2>1, PartsAssumption, PadStep, PadStays
<1> QED
  BY <1>1, <1>2, PTL DEF PartsSpec

\* NotesOnDisk, of bar/notepad.rs save, load and delete_note_file and of every
\* handler of bar/app/notepad_section.rs that calls them: for any number of
\* notes, edits, kills and failed writes, what App keeps is on disk whenever
\* nothing is left to write and nothing has failed.
THEOREM NotesSurvive == PartsSpec => []NotesOnDisk
<1>1. PadInv => NotesOnDisk
  BY PadInvSays DEF NotesOnDisk
<1> QED
  BY <1>1, PadInvariant, PTL

-----------------------------------------------------------------------------
(* The window *)

Kind  == {"none", "respawn", "after", "before"}
Stage == {"idle", "own", "others", "spawn", "list", "attach", "repair", "fix", "probe",
          "sidebar", "needs", "new", "split", "ensure", "bar", "verify"}
Work  == [op : {"none", "open", "toggle", "dismiss", "close", "up"}, at : Stage,
          want : Ui!Panel \cup {"none", "boot"}, fix : Kind \X Nat]
PaneOf == [id : Nat, start : {"bar", "attach"} \cup Ui!Panel, at : {"run", "tmux", "dead"}]
Asking == [asked : Ui!Panel \cup {"none", "any"}, requests : Nat, breaks : Nat,
           broke : {"no", "before", "since"}, up : {"none", "ok", "failed"}]

\* The stages of each process, and what it wants at them.
Shape(a, t) ==
    /\ a \in Ui!Cmds => /\ t.op \in {"none", "open", "toggle", "dismiss"}
                        /\ t.at \in {"idle", "own", "others", "spawn", "list", "attach",
                                     "repair", "fix"}
    /\ a = "bar" => /\ t.op \in {"none", "close"}
                    /\ t.at \in {"idle", "probe", "list", "attach", "repair", "fix"}
    /\ a = "up" => /\ t.op \in {"none", "up"}
                   /\ t.at \in {"idle", "sidebar", "repair", "fix", "needs", "new", "split",
                                "ensure", "bar", "verify"}
    /\ t.op \in {"open", "toggle"} => t.want \in Ui!Panel
    /\ t.at = "spawn" => t.op \in {"open", "toggle"}
    /\ t.at = "others" => t.op = "open"
    /\ t.op = "none" => t = Ui!NoTask
    /\ t.want = "boot" => t.op = "up"

PanesOK(s) ==
    /\ s \in Seq(PaneOf)
    /\ \A i, j \in DOMAIN s : s[i].id = s[j].id => i = j
    /\ \A i \in DOMAIN s : s[i].start = "bar" => s[i].at # "tmux"

UiType ==
    /\ PanesOK(panes)
    /\ task \in [Ui!Actor -> Work]
    /\ \A a \in Ui!Actor : Shape(a, task[a])
    /\ asks \in Asking

\* What the workspace shows when the process that does t is done.
Coming(t, shown) ==
    IF t.op = "up" THEN shown
    ELSE IF t.op = "open" \/ (t.op = "toggle" /\ t.at = "spawn") THEN t.want
    ELSE IF t.op = "toggle" /\ t.at = "own" /\ shown # t.want THEN t.want
    ELSE "none"

\* The course of a process that meets a whole window: there is nothing to mend.
Plain(a, t) ==
    /\ a # "up" => t.at \notin {"repair", "fix"}
    /\ a = "up" => /\ t.want = "boot" /\ t.at \notin {"new", "split"}
                   /\ t.at = "fix" => t.fix[1] = "none"

\* While it can be told, the window is whole, at most one process is at work,
\* and what was asked is shown or is coming.
AskedComes ==
    asks.asked # "any" =>
       /\ Ui!Whole
       /\ \A a, b \in Ui!Actor : task[a] # Ui!NoTask /\ task[b] # Ui!NoTask => a = b
       /\ Ui!Quiet => Ui!Shown = asks.asked
       /\ \A a \in Ui!Actor : task[a] # Ui!NoTask =>
             Coming(task[a], Ui!Shown) = asks.asked /\ Plain(a, task[a])

\* What `up` can go on from, at each of its stages.
Hopeless(s) ==
    \/ Len(s) = 2 /\ s[1].at = "dead" /\ s[2].at = "dead"
    \/ Len(s) = 1 /\ s[1].start # "bar" /\ s[1].at = "dead"
AliveIfTwo(s) == Len(s) <= 2 => \A i \in 1..Len(s) : s[i].at # "dead"
WorkspaceUp(s) == Len(s) >= 2 /\ (Len(s) = 2 => s[2].at # "dead")

Mends(t, s) ==
    /\ t.want = "boot"
    /\ t.at \in {"sidebar", "repair"} => ~Hopeless(s)
    /\ t.at = "fix" /\ t.fix[1] = "respawn" =>
          Len(s) >= 2 /\ (Len(s) = 2 => s[2].id = t.fix[2])
    /\ t.at = "fix" /\ t.fix[1] = "before" => (Len(s) = 1 => s[1].at # "dead")
    /\ t.at = "new" => s = <<>>
    /\ t.at \in {"split", "verify"} => AliveIfTwo(s)
    /\ t.at \in {"ensure", "bar"} => WorkspaceUp(s)

UpMends == task["up"] # Ui!NoTask /\ asks.broke = "no" => Mends(task["up"], panes)

UiInv == UiType /\ AskedComes /\ UpMends

\* What another process does to the window meanwhile: it replaces panes by live
\* ones or adds one.
Replaced(s, t) ==
    /\ Len(t) = Len(s)
    /\ \A i \in 1..Len(s) : t[i].id = s[i].id /\ (t[i].at = "dead" => t[i] = s[i])
Added(s, t) ==
    /\ Len(s) >= 1 /\ Len(t) = Len(s) + 1
    /\ \E k \in 1..Len(s) + 1 :
          /\ t[k].at # "dead"
          /\ \A i \in 1..Len(s) + 1 : i # k => t[i] = IF i < k THEN s[i] ELSE s[i - 1]

LEMMA Insertion ==
  ASSUME NEW S, NEW s \in Seq(S), NEW k \in 1..Len(s) + 1, NEW e \in S
  PROVE  /\ Ui!InsertAt(s, k, e) \in Seq(S)
         /\ Len(Ui!InsertAt(s, k, e)) = Len(s) + 1
         /\ \A i \in 1..Len(s) + 1 :
               Ui!InsertAt(s, k, e)[i] = IF i < k THEN s[i] ELSE IF i = k THEN e ELSE s[i - 1]
<1> DEFINE a == SubSeq(s, 1, k - 1)
<1> DEFINE b == SubSeq(s, k, Len(s))
<1> DEFINE t == Ui!InsertAt(s, k, e)
<1>1. t = (a \o <<e>>) \o b
  BY DEF Ui!InsertAt
<1>2. Len(s) \in Nat /\ k \in Nat /\ 1 <= k /\ k <= Len(s) + 1
  OBVIOUS
<1>3. a \in Seq(S) /\ Len(a) = k - 1 /\ \A i \in 1..k - 1 : a[i] = s[i]
  BY <1>2
<1>4. b \in Seq(S) /\ Len(b) = Len(s) - k + 1 /\ \A i \in 1..Len(s) - k + 1 : b[i] = s[k + i - 1]
  BY <1>2
<1> HIDE DEF a, b, t
<1> DEFINE c == a \o <<e>>
<1>5. c \in Seq(S) /\ Len(c) = k /\ c[k] = e /\ \A i \in 1..k - 1 : c[i] = s[i]
  BY <1>2, <1>3
<1>6. t = c \o b
  BY <1>1
<1> HIDE DEF c
<1>7. t \in Seq(S) /\ Len(t) = Len(s) + 1
  <2>1. b \in Seq(S) /\ c \in Seq(S) /\ Len(b) = Len(s) - k + 1 /\ Len(c) = k
    BY <1>4, <1>5
  <2>2. t \in Seq(S) /\ Len(t) = Len(c) + Len(b)
    BY <1>6, <2>1
  <2> QED
    BY <1>2, <2>1, <2>2
<1>8. /\ \A i \in 1..k : t[i] = c[i]
      /\ \A i \in k + 1..Len(s) + 1 : t[i] = b[i - k]
  BY <1>2, <1>4, <1>5, <1>6
<1>9. \A i \in 1..Len(s) + 1 : t[i] = IF i < k THEN s[i] ELSE IF i = k THEN e ELSE s[i - 1]
  <2> TAKE i \in 1..Len(s) + 1
  <2>1. CASE i <= k
    BY <1>2, <1>5, <1>8, <2>1
  <2>2. CASE i > k
    <3>1. i - k \in 1..Len(s) - k + 1 /\ k + (i - k) - 1 = i - 1
      BY <1>2, <2>2
    <3>2. b[i - k] = s[i - 1]
      BY <1>4, <3>1
    <3> QED
      BY <1>2, <1>8, <2>2, <3>2
  <2> QED
    BY <1>2, <2>1, <2>2
<1> QED
  BY <1>7, <1>9 DEF t

LEMMA Removal ==
  ASSUME NEW S, NEW s \in Seq(S), NEW k \in 1..Len(s)
  PROVE  /\ Ui!RemoveAt(s, k) \in Seq(S)
         /\ Len(Ui!RemoveAt(s, k)) = Len(s) - 1
         /\ \A i \in 1..Len(s) - 1 :
               Ui!RemoveAt(s, k)[i] = IF i < k THEN s[i] ELSE s[i + 1]
<1> DEFINE a == SubSeq(s, 1, k - 1)
<1> DEFINE b == SubSeq(s, k + 1, Len(s))
<1> DEFINE t == Ui!RemoveAt(s, k)
<1>1. t = a \o b
  BY DEF Ui!RemoveAt
<1>2. Len(s) \in Nat /\ k \in Nat /\ 1 <= k /\ k <= Len(s)
  OBVIOUS
<1>3. a \in Seq(S) /\ Len(a) = k - 1 /\ \A i \in 1..k - 1 : a[i] = s[i]
  BY <1>2
<1>4. b \in Seq(S) /\ Len(b) = Len(s) - k /\ \A i \in 1..Len(s) - k : b[i] = s[k + i]
  BY <1>2
<1> HIDE DEF a, b, t
<1>5. t \in Seq(S) /\ Len(t) = Len(s) - 1
  BY <1>1, <1>2, <1>3, <1>4
<1>6. /\ \A i \in 1..k - 1 : t[i] = a[i]
      /\ \A i \in k..Len(s) - 1 : t[i] = b[i - k + 1]
  BY <1>1, <1>2, <1>3, <1>4
<1>7. \A i \in 1..Len(s) - 1 : t[i] = IF i < k THEN s[i] ELSE s[i + 1]
  <2> TAKE i \in 1..Len(s) - 1
  <2>1. CASE i < k
    BY <1>2, <1>3, <1>6, <2>1
  <2>2. CASE i >= k
    <3>1. i - k + 1 \in 1..Len(s) - k /\ k + (i - k + 1) = i + 1
      BY <1>2, <2>2
    <3>2. b[i - k + 1] = s[i + 1]
      BY <1>4, <3>1
    <3> QED
      BY <1>2, <1>6, <2>2, <3>2
  <2> QED
    BY <1>2, <2>1, <2>2
<1> QED
  BY <1>5, <1>7 DEF t

\* There is always a number no pane has and no process waits for.
LEMMA FreshFacts ==
  ASSUME UiType
  PROVE  Ui!FreshId \in Nat /\ \A i \in 1..Len(panes) : panes[i].id # Ui!FreshId
<1> DEFINE N == Len(panes)
<1> DEFINE used(k) == IF k <= N THEN panes[k].id
                      ELSE IF k = N + 1 THEN task["cmd1"].fix[2]
                      ELSE IF k = N + 2 THEN task["cmd2"].fix[2]
                      ELSE IF k = N + 3 THEN task["bar"].fix[2] ELSE task["up"].fix[2]
<1> DEFINE Fresh(i) == \A j \in 1..N : panes[j].id # i /\ \A a \in Ui!Actor : task[a].fix[2] # i
<1>1. N \in Nat
  BY DEF UiType, PanesOK
<1> HIDE DEF N
<1>2. \E i \in 1..N + 5 : \A k \in 1..N + 4 : used(k) # i
  <2> SUFFICES ASSUME \A i \in 1..N + 5 : \E k \in 1..N + 4 : used(k) = i PROVE FALSE
    OBVIOUS
  <2> HIDE DEF used
  <2> DEFINE f == [i \in 1..N + 5 |-> CHOOSE k \in 1..N + 4 : used(k) = i]
  <2>1. f \in [1..N + 5 -> 1..N + 4] /\ \A i \in 1..N + 5 : used(f[i]) = i
    OBVIOUS
  <2> HIDE DEF f
  <2>2. /\ IsFiniteSet(1..N + 5) /\ Cardinality(1..N + 5) = N + 5
        /\ IsFiniteSet(1..N + 4) /\ Cardinality(1..N + 4) = N + 4
    <3>1. 1 \in Int /\ N + 4 \in Int /\ N + 5 \in Int /\ ~(1 > N + 4) /\ ~(1 > N + 5)
      BY <1>1
    <3>2. /\ IsFiniteSet(1..N + 5) /\ Cardinality(1..N + 5) = (N + 5) - 1 + 1
          /\ IsFiniteSet(1..N + 4) /\ Cardinality(1..N + 4) = (N + 4) - 1 + 1
      BY <3>1, FS_Interval
    <3> QED
      BY <1>1, <3>2
  <2>3. Cardinality(1..N + 4) < Cardinality(1..N + 5)
    BY <1>1, <2>2
  <2>4. \E x, y \in 1..N + 5 : x # y /\ f[x] = f[y]
    BY <2>1, <2>2, <2>3, FS_PigeonHole
  <2> QED
    BY <2>1, <2>4
<1>3. \E i \in 1..N + 5 : Fresh(i)
  <2>1. PICK i \in 1..N + 5 : \A k \in 1..N + 4 : used(k) # i
    BY <1>2
  <2>2. \A j \in 1..N : panes[j].id # i
    BY <1>1, <2>1
  <2>3. task["cmd1"].fix[2] # i /\ task["cmd2"].fix[2] # i
        /\ task["bar"].fix[2] # i /\ task["up"].fix[2] # i
    <3>1. N + 1 \in 1..N + 4 /\ N + 2 \in 1..N + 4 /\ N + 3 \in 1..N + 4 /\ N + 4 \in 1..N + 4
      BY <1>1
    <3>2. used(N + 1) = task["cmd1"].fix[2] /\ used(N + 2) = task["cmd2"].fix[2]
          /\ used(N + 3) = task["bar"].fix[2] /\ used(N + 4) = task["up"].fix[2]
      BY <1>1
    <3> QED
      BY <2>1, <3>1, <3>2
  <2> QED
    BY <2>2, <2>3 DEF Ui!Actor, Ui!Cmds
<1>4. Ui!FreshId = CHOOSE i \in 1..N + 5 : Fresh(i)
  BY DEF Ui!FreshId, Ui!NewIds, N
<1> HIDE DEF Fresh
<1>5. Ui!FreshId \in 1..N + 5 /\ Fresh(Ui!FreshId)
  BY <1>3, <1>4
<1> QED
  BY <1>1, <1>5 DEF Fresh, N

LEMMA MendsHold ==
  ASSUME NEW w \in Work, NEW s, NEW t, PanesOK(s), PanesOK(t),
         Replaced(s, t) \/ Added(s, t), Mends(w, s)
  PROVE  Mends(w, t)
<1>1. /\ Len(s) \in Nat /\ DOMAIN s = 1..Len(s) /\ s \in Seq(PaneOf)
      /\ Len(t) \in Nat /\ DOMAIN t = 1..Len(t) /\ t \in Seq(PaneOf)
  BY DEF PanesOK
<1>2. CASE Replaced(s, t)
  <2>1. ~Hopeless(s) => ~Hopeless(t)
    BY <1>1, <1>2 DEF Replaced, Hopeless
  <2>2. AliveIfTwo(s) => AliveIfTwo(t)
    BY <1>1, <1>2 DEF Replaced, AliveIfTwo
  <2>3. WorkspaceUp(s) => WorkspaceUp(t)
    BY <1>1, <1>2 DEF Replaced, WorkspaceUp
  <2>4. s = <<>> => t = <<>>
    BY <1>1, <1>2 DEF Replaced
  <2>5. Len(t) = Len(s) /\ \A i \in 1..Len(s) : t[i].id = s[i].id /\ (s[i].at # "dead" => t[i].at # "dead")
    BY <1>1, <1>2 DEF Replaced
  <2> QED
    BY <1>1, <2>1, <2>2, <2>3, <2>4, <2>5 DEF Mends
<1>3. CASE Added(s, t)
  <2>1. Len(s) >= 1 /\ Len(t) = Len(s) + 1 /\ s # <<>>
    BY <1>1, <1>3 DEF Added
  <2>2. PICK k \in 1..Len(s) + 1 :
           /\ t[k].at # "dead"
           /\ \A i \in 1..Len(s) + 1 : i # k => t[i] = IF i < k THEN s[i] ELSE s[i - 1]
    BY <1>3 DEF Added
  <2>3. Len(s) = 1 => \/ t[1].at # "dead" /\ t[2] = s[1]
                      \/ t[2].at # "dead" /\ t[1] = s[1]
    BY <1>1, <2>1, <2>2
  <2>4. ~Hopeless(t)
    BY <1>1, <2>1, <2>3 DEF Hopeless
  <2>5. AliveIfTwo(s) => AliveIfTwo(t)
    <3> SUFFICES ASSUME Len(s) = 1, s[1].at # "dead" PROVE \A i \in 1..2 : t[i].at # "dead"
      BY <1>1, <2>1 DEF AliveIfTwo
    <3>1. t[1].at # "dead" /\ t[2].at # "dead"
      BY <2>3
    <3> QED
      BY <3>1
  <2>6. WorkspaceUp(s) => WorkspaceUp(t)
    BY <1>1, <2>1 DEF WorkspaceUp
  <2> QED
    BY <1>1, <2>1, <2>4, <2>5, <2>6 DEF Mends
<1> QED
  BY <1>2, <1>3

LEMMA UiStays ==
  ASSUME UiInv, UNCHANGED <<panes, task, asks>> PROVE UiInv'
<1>1. UiType'
  BY DEF UiInv, UiType
<1>2. /\ Ui!Whole' <=> Ui!Whole
      /\ Ui!Quiet' <=> Ui!Quiet
      /\ Ui!Shown' = Ui!Shown
  BY DEF Ui!Whole, Ui!Quiet, Ui!Shown
<1>3. AskedComes'
  BY <1>2 DEF UiInv, AskedComes
<1>4. UpMends'
  BY DEF UiInv, UpMends
<1> QED
  BY <1>1, <1>3, <1>4 DEF UiInv

\* What one step of process a has to give, which leaves it at t.
LEMMA ProcessStep ==
  ASSUME UiInv, NEW a \in Ui!Actor, task[a] # Ui!NoTask, NEW t \in Work, Shape(a, t),
         task' \in [Ui!Actor -> Work], task'[a] = t,
         \A b \in Ui!Actor : b # a => task'[b] = task[b] \/ task'[b] = Ui!NoTask,
         PanesOK(panes'), asks' \in Asking, asks'.asked = asks.asked, asks'.broke = asks.broke,
         asks.asked # "any" => Ui!Whole',
         asks.asked # "any" /\ t = Ui!NoTask => Ui!Shown' = asks.asked,
         asks.asked # "any" /\ t # Ui!NoTask =>
            Coming(t, Ui!Shown') = asks.asked /\ Plain(a, t),
         a # "up" => panes' = panes \/ Replaced(panes, panes') \/ Added(panes, panes'),
         a = "up" /\ t # Ui!NoTask /\ asks.broke = "no" => Mends(t, panes')
  PROVE  UiInv'
<1>1. UiType'
  <2>1. Shape("bar", Ui!NoTask) /\ Shape("cmd1", Ui!NoTask) /\ Shape("cmd2", Ui!NoTask)
        /\ Shape("up", Ui!NoTask)
    BY DEF Shape, Ui!NoTask, Ui!Cmds
  <2>2. \A b \in Ui!Actor : Shape(b, Ui!NoTask)
    BY <2>1 DEF Ui!Actor, Ui!Cmds
  <2>3. \A b \in Ui!Actor : Shape(b, task'[b])
    BY <2>2 DEF UiInv, UiType
  <2> QED
    BY <2>3 DEF UiType
<1>2. AskedComes'
  <2> SUFFICES ASSUME asks.asked # "any"
               PROVE  /\ Ui!Whole'
                      /\ \A b, c \in Ui!Actor :
                            task'[b] # Ui!NoTask /\ task'[c] # Ui!NoTask => b = c
                      /\ Ui!Quiet' => Ui!Shown' = asks.asked
                      /\ \A b \in Ui!Actor : task'[b] # Ui!NoTask =>
                            Coming(task'[b], Ui!Shown') = asks.asked /\ Plain(b, task'[b])
    BY DEF AskedComes, Ui!NoTask
  <2>1. \A b \in Ui!Actor : b # a => task[b] = Ui!NoTask
    BY DEF UiInv, AskedComes
  <2>2. \A b \in Ui!Actor : b # a => task'[b] = Ui!NoTask
    BY <2>1
  <2>3. Ui!Quiet' => t = Ui!NoTask
    BY DEF Ui!Quiet, Ui!NoTask
  <2> QED
    BY <2>2, <2>3
<1>3. UpMends'
  <2> SUFFICES ASSUME task'["up"] # Ui!NoTask, asks.broke = "no" PROVE Mends(task'["up"], panes')
    BY DEF UpMends, Ui!NoTask
  <2>1. CASE a = "up"
    BY <2>1
  <2>2. CASE a # "up"
    <3>1. task'["up"] = task["up"] /\ task["up"] # Ui!NoTask /\ task["up"] \in Work
      BY <2>2 DEF Ui!Actor, UiInv, UiType
    <3>2. Mends(task["up"], panes)
      BY <3>1 DEF UiInv, UpMends
    <3>3. PanesOK(panes)
      BY DEF UiInv, UiType
    <3> QED
      BY <2>2, <3>1, <3>2, <3>3, MendsHold
  <2> QED
    BY <2>1, <2>2
<1> QED
  BY <1>1, <1>2, <1>3 DEF UiInv

\* What a request has to give that starts process a on t.
LEMMA RequestStep ==
  ASSUME UiInv, NEW a \in Ui!Actor, NEW t \in Work, Shape(a, t), t # Ui!NoTask,
         task[a] = Ui!NoTask, task' = [task EXCEPT ![a] = t], UNCHANGED panes, asks' \in Asking,
         asks'.asked # "any" =>
            /\ Ui!Quiet /\ Ui!Whole
            /\ Coming(t, Ui!Shown) = asks'.asked /\ Plain(a, t),
         a # "up" => asks'.broke = asks.broke,
         a = "up" /\ asks'.broke = "no" => Mends(t, panes)
  PROVE  UiInv'
<1>1. /\ task \in [Ui!Actor -> Work]
      /\ task' \in [Ui!Actor -> Work] /\ task'[a] = t
      /\ \A b \in Ui!Actor : b # a => task'[b] = task[b]
  BY DEF UiInv, UiType
<1>2. UiType'
  BY <1>1 DEF UiInv, UiType
<1>3. Ui!Shown' = Ui!Shown /\ (Ui!Whole' <=> Ui!Whole)
  BY DEF Ui!Shown, Ui!Whole
<1>4. AskedComes'
  <2> SUFFICES ASSUME asks'.asked # "any"
               PROVE  /\ Ui!Whole'
                      /\ \A b, c \in Ui!Actor :
                            task'[b] # Ui!NoTask /\ task'[c] # Ui!NoTask => b = c
                      /\ Ui!Quiet' => Ui!Shown' = asks'.asked
                      /\ \A b \in Ui!Actor : task'[b] # Ui!NoTask =>
                            Coming(task'[b], Ui!Shown') = asks'.asked /\ Plain(b, task'[b])
    BY DEF AskedComes, Ui!NoTask
  <2>1. \A b \in Ui!Actor : b # a => task'[b] = Ui!NoTask
    BY <1>1 DEF Ui!Quiet
  <2>2. ~Ui!Quiet'
    BY <1>1 DEF Ui!Quiet, Ui!NoTask
  <2> QED
    BY <1>1, <1>3, <2>1, <2>2
<1>5. UpMends'
  <2> SUFFICES ASSUME task'["up"] # Ui!NoTask, asks'.broke = "no" PROVE Mends(task'["up"], panes)
    BY DEF UpMends, Ui!NoTask
  <2>1. CASE a = "up"
    BY <1>1, <2>1
  <2>2. CASE a # "up"
    BY <1>1, <2>2 DEF Ui!Actor, UiInv, UpMends
  <2> QED
    BY <2>1, <2>2
<1> QED
  BY <1>2, <1>4, <1>5 DEF UiInv

\* What a step of no process has to give: of a user in a panel.
LEMMA WindowStep ==
  ASSUME UiInv, UNCHANGED task, PanesOK(panes'), asks' \in Asking, asks'.broke = asks.broke,
         panes' = panes \/ Replaced(panes, panes'),
         asks'.asked # "any" => Ui!Quiet /\ Ui!Whole' /\ Ui!Shown' = asks'.asked
  PROVE  UiInv'
<1>1. UiType'
  BY DEF UiInv, UiType
<1>2. Ui!Quiet' <=> Ui!Quiet
  BY DEF Ui!Quiet, Ui!NoTask
<1>3. AskedComes'
  <2> SUFFICES ASSUME asks'.asked # "any"
               PROVE  /\ Ui!Whole' /\ Ui!Shown' = asks'.asked
                      /\ \A b \in Ui!Actor : task'[b] = Ui!NoTask
    BY DEF AskedComes, Ui!NoTask
  <2> QED
    BY DEF Ui!Quiet
<1>4. UpMends'
  <2> SUFFICES ASSUME task["up"] # Ui!NoTask, asks.broke = "no" PROVE Mends(task["up"], panes')
    BY DEF UpMends, Ui!NoTask
  <2>1. Mends(task["up"], panes) /\ PanesOK(panes) /\ task["up"] \in Work
    BY DEF UiInv, UiType, UpMends, Ui!Actor
  <2> QED
    BY <2>1, MendsHold
<1> QED
  BY <1>1, <1>3, <1>4 DEF UiInv

LEMMA PaneIs ==
  ASSUME NEW id \in Nat, NEW start \in {"bar", "attach"} \cup Ui!Panel
  PROVE  /\ Ui!Pane(id, start) \in PaneOf
         /\ Ui!Pane(id, start).id = id
         /\ Ui!Pane(id, start).start = start
         /\ Ui!Pane(id, start).at = IF start = "attach" THEN "tmux" ELSE "run"
BY DEF Ui!Pane, PaneOf

\* The outcome of a pane's respawn.
Respawned(i, start) ==
    /\ PanesOK(panes') /\ Replaced(panes, panes')
    /\ panes'[i].at = IF start = "attach" THEN "tmux" ELSE "run"
    /\ panes'[i].start = start
    /\ \A j \in 1..Len(panes) : j # i => panes'[j] = panes[j]

LEMMA RespawnFacts ==
  ASSUME UiType, NEW i \in 1..Len(panes), NEW start \in {"bar", "attach"} \cup Ui!Panel,
         Ui!Respawn(i, start)
  PROVE  Respawned(i, start)
<1> DEFINE e == Ui!Pane(panes[i].id, start)
<1>1. panes \in Seq(PaneOf) /\ Len(panes) \in Nat /\ DOMAIN panes = 1..Len(panes)
  BY DEF UiType, PanesOK
<1>2. panes[i].id \in Nat
  <2>1. panes[i] \in PaneOf
    BY <1>1
  <2> QED
    BY <2>1 DEF PaneOf
<1>3. /\ e \in PaneOf /\ e.id = panes[i].id /\ e.start = start
      /\ e.at = IF start = "attach" THEN "tmux" ELSE "run"
  BY <1>2, PaneIs
<1>4. panes' = [panes EXCEPT ![i] = e]
  BY DEF Ui!Respawn
<1> HIDE DEF e
<1>5. /\ panes' \in Seq(PaneOf) /\ Len(panes') = Len(panes) /\ panes'[i] = e
      /\ DOMAIN panes' = 1..Len(panes)
      /\ \A j \in 1..Len(panes) : j # i => panes'[j] = panes[j]
  BY <1>1, <1>3, <1>4
<1>6. \A j \in 1..Len(panes) : panes'[j].id = panes[j].id
  BY <1>3, <1>5
<1>7. \A j \in 1..Len(panes) : panes'[j].start = "bar" => panes'[j].at # "tmux"
  BY <1>1, <1>3, <1>5 DEF UiType, PanesOK
<1>8. PanesOK(panes')
  BY <1>1, <1>5, <1>6, <1>7 DEF UiType, PanesOK
<1>9. Replaced(panes, panes')
  BY <1>3, <1>5, <1>6 DEF Replaced
<1> QED
  BY <1>3, <1>5, <1>8, <1>9 DEF Respawned

LEMMA InsertFacts ==
  ASSUME UiType, NEW k \in 1..Len(panes) + 1, NEW start \in {"bar", "attach"}, panes # <<>>,
         panes' = Ui!InsertAt(panes, k, Ui!Pane(Ui!FreshId, start))
  PROVE  /\ PanesOK(panes') /\ Added(panes, panes') /\ Len(panes') = Len(panes) + 1
         /\ panes'[k].at # "dead"
         /\ \A i \in 1..Len(panes) + 1 :
               i # k => panes'[i] = IF i < k THEN panes[i] ELSE panes[i - 1]
<1> DEFINE e == Ui!Pane(Ui!FreshId, start)
<1>1. panes \in Seq(PaneOf) /\ Len(panes) \in Nat /\ DOMAIN panes = 1..Len(panes)
  BY DEF UiType, PanesOK
<1>2. Ui!FreshId \in Nat /\ \A i \in 1..Len(panes) : panes[i].id # Ui!FreshId
  BY FreshFacts
<1>3. /\ e \in PaneOf /\ e.id = Ui!FreshId /\ e.at # "dead"
      /\ start = "bar" => e.at # "tmux"
      /\ e.start = start
  BY <1>2, PaneIs
<1> HIDE DEF e
<1>4. panes' = Ui!InsertAt(panes, k, e)
  BY DEF e
<1> DEFINE s == panes
<1> DEFINE N == Len(panes)
<1>5. PICK t : t = panes'
  OBVIOUS
<1>6. /\ t \in Seq(PaneOf) /\ Len(t) = N + 1
      /\ \A i \in 1..N + 1 : t[i] = IF i < k THEN s[i] ELSE IF i = k THEN e ELSE s[i - 1]
  <2> DEFINE u == Ui!InsertAt(panes, k, e)
  <2>1. /\ u \in Seq(PaneOf) /\ Len(u) = Len(panes) + 1
        /\ \A i \in 1..Len(panes) + 1 :
              u[i] = IF i < k THEN panes[i] ELSE IF i = k THEN e ELSE panes[i - 1]
    <3>1. panes \in Seq(PaneOf) /\ k \in 1..Len(panes) + 1 /\ e \in PaneOf
      BY <1>1, <1>3
    <3> HIDE DEF u
    <3>2. u = Ui!InsertAt(panes, k, e)
      BY DEF u
    <3> QED
      BY <3>1, <3>2, Insertion, SMT
  <2>2. t = u
    BY <1>4, <1>5
  <2> QED
    BY <2>1, <2>2
<1>7. DOMAIN t = 1..N + 1
  BY <1>6
<1>8. t[k] = e /\ \A i \in 1..N + 1 : i # k => t[i] = IF i < k THEN s[i] ELSE s[i - 1]
  BY <1>6
<1>9. \A i, j \in 1..N + 1 : t[i].id = t[j].id => i = j
  <2> SUFFICES ASSUME NEW i \in 1..N + 1, NEW j \in 1..N + 1, i < j, t[i].id = t[j].id
               PROVE  FALSE
    BY <1>1
  <2> DEFINE at(x) == IF x < k THEN x ELSE x - 1
  <2>1. \A x \in 1..N + 1 : x # k => at(x) \in 1..N /\ t[x] = s[at(x)]
    BY <1>1, <1>8
  <2>2. CASE i = k
    BY <1>2, <1>3, <1>8, <2>1, <2>2
  <2>3. CASE j = k
    BY <1>2, <1>3, <1>8, <2>1, <2>3
  <2>4. CASE i # k /\ j # k
    <3>1. at(i) \in 1..N /\ at(j) \in 1..N /\ s[at(i)].id = s[at(j)].id
      BY <2>1, <2>4
    <3>2. at(i) = at(j)
      BY <1>1, <3>1 DEF UiType, PanesOK
    <3> QED
      BY <1>1, <2>4, <3>2
  <2> QED
    BY <2>2, <2>3, <2>4
<1>10. \A i \in 1..N + 1 : t[i].start = "bar" => t[i].at # "tmux"
  <2> TAKE i \in 1..N + 1
  <2>1. CASE i = k
    BY <1>3, <1>8, <2>1
  <2>2. CASE i < k
    <3>1. i \in 1..N /\ t[i] = s[i]
      BY <1>1, <1>8, <2>2
    <3> QED
      BY <1>1, <3>1 DEF UiType, PanesOK
  <2>3. CASE i > k
    <3>1. i - 1 \in 1..N /\ t[i] = s[i - 1]
      BY <1>1, <1>8, <2>3
    <3> QED
      BY <1>1, <3>1 DEF UiType, PanesOK
  <2> QED
    BY <1>1, <2>1, <2>2, <2>3
<1>11. PanesOK(t)
  BY <1>6, <1>7, <1>9, <1>10 DEF PanesOK
<1>12. N >= 1
  BY <1>1
<1>13. Added(panes, t)
  BY <1>3, <1>6, <1>8, <1>12 DEF Added
<1> QED
  BY <1>3, <1>5, <1>6, <1>8, <1>11, <1>13

\* The outcomes of the other things that happen to a pane.
LEMMA DeadFacts ==
  ASSUME UiType, NEW i \in 1..Len(panes), panes' = [panes EXCEPT ![i].at = "dead"]
  PROVE  PanesOK(panes')
<1> DEFINE e == [panes[i] EXCEPT !.at = "dead"]
<1>1. panes \in Seq(PaneOf) /\ Len(panes) \in Nat /\ DOMAIN panes = 1..Len(panes)
  BY DEF UiType, PanesOK
<1>2. panes[i] \in PaneOf
  BY <1>1
<1>3. e \in PaneOf /\ e.id = panes[i].id /\ e.at = "dead"
  BY <1>2 DEF PaneOf
<1>4. panes' = [panes EXCEPT ![i] = e]
  OBVIOUS
<1> HIDE DEF e
<1>5. /\ panes' \in Seq(PaneOf) /\ Len(panes') = Len(panes) /\ panes'[i] = e
      /\ DOMAIN panes' = 1..Len(panes)
      /\ \A j \in 1..Len(panes) : j # i => panes'[j] = panes[j]
  BY <1>1, <1>3, <1>4
<1>6. \A j \in 1..Len(panes) : panes'[j].id = panes[j].id
  BY <1>3, <1>5
<1>7. \A j \in 1..Len(panes) : panes'[j].start = "bar" => panes'[j].at # "tmux"
  BY <1>1, <1>3, <1>5 DEF UiType, PanesOK
<1> QED
  BY <1>1, <1>5, <1>6, <1>7 DEF UiType, PanesOK

LEMMA KilledFacts ==
  ASSUME UiType, NEW k \in 1..Len(panes), panes' = Ui!RemoveAt(panes, k)
  PROVE  PanesOK(panes')
<1> DEFINE s == panes
<1> DEFINE N == Len(panes)
<1>1. panes \in Seq(PaneOf) /\ Len(panes) \in Nat /\ DOMAIN panes = 1..Len(panes)
  BY DEF UiType, PanesOK
<1>2. PICK t : t = panes'
  OBVIOUS
<1>3. /\ t \in Seq(PaneOf) /\ Len(t) = N - 1
      /\ \A i \in 1..N - 1 : t[i] = IF i < k THEN s[i] ELSE s[i + 1]
  BY <1>1, <1>2, Removal
<1>4. DOMAIN t = 1..N - 1
  BY <1>3
<1> DEFINE at(x) == IF x < k THEN x ELSE x + 1
<1>5. \A x \in 1..N - 1 : at(x) \in 1..N /\ t[x] = s[at(x)]
  BY <1>1, <1>3
<1>6. \A i, j \in 1..N - 1 : at(i) = at(j) => i = j
  BY <1>1
<1> HIDE DEF at
<1>7. \A i, j \in 1..N - 1 : t[i].id = t[j].id => i = j
  BY <1>1, <1>5, <1>6 DEF UiType, PanesOK
<1>8. \A i \in 1..N - 1 : t[i].start = "bar" => t[i].at # "tmux"
  BY <1>1, <1>5 DEF UiType, PanesOK
<1>9. PanesOK(t)
  BY <1>3, <1>4, <1>7, <1>8 DEF PanesOK
<1> QED
  BY <1>2, <1>9

\* What is told of a whole window is what it shows.
LEMMA ShownIs ==
  ASSUME UiType
  PROVE  /\ Ui!Shown \in Ui!Panel \cup {"none"}
         /\ Ui!Whole => \A p \in Ui!Panel : Ui!Running(p) <=> Ui!Shown = p
<1>1. panes \in Seq(PaneOf) /\ Len(panes) \in Nat /\ DOMAIN panes = 1..Len(panes)
  BY DEF UiType, PanesOK
<1>2. Ui!Shown \in Ui!Panel \cup {"none"}
  BY DEF Ui!Shown
<1>3. ASSUME Ui!Whole, NEW p \in Ui!Panel PROVE Ui!Running(p) <=> Ui!Shown = p
  <2>1. Len(panes) = 2 /\ panes[2].at # "dead" /\ panes[2] \in PaneOf
    BY <1>1, <1>3 DEF Ui!Whole
  <2>2. panes[2].at \in {"run", "tmux"}
    BY <2>1 DEF PaneOf
  <2>3. p # "none"
    BY DEF Ui!Panel
  <2> QED
    BY <1>3, <2>1, <2>2, <2>3 DEF Ui!Running, Ui!Shown
<1> QED
  BY <1>2, <1>3

-----------------------------------------------------------------------------
(* The steps of a process *)

To(a, at) == [task[a] EXCEPT !.at = at]

\* A process goes on, or is done, without a change to the window.
Goes(a, t) == task' = [task EXCEPT ![a] = t] /\ UNCHANGED <<panes, asks>>

LEMMA NoTaskIs ==
  /\ Ui!NoTask \in Work /\ Ui!NoTask.op = "none" /\ Ui!NoTask.at = "idle"
  /\ Ui!NoTask.want = "none" /\ Ui!NoTask.fix = <<"none", 0>>
<1>1. <<"none", 0>> \in Kind \X Nat
  BY DEF Kind
<1> QED
  BY <1>1 DEF Ui!NoTask, Work, Stage

LEMMA TaskSet ==
  ASSUME UiInv, NEW a \in Ui!Actor, NEW t \in Work, task' = [task EXCEPT ![a] = t]
  PROVE  /\ task' \in [Ui!Actor -> Work] /\ task'[a] = t
         /\ \A b \in Ui!Actor : b # a => task'[b] = task[b]
BY DEF UiInv, UiType

LEMMA GotoIs ==
  ASSUME UiInv, NEW a \in Ui!Actor, task[a] # Ui!NoTask, NEW at \in Stage \ {"idle"}
  PROVE  /\ To(a, at) \in Work /\ To(a, at) # Ui!NoTask
         /\ To(a, at).op = task[a].op /\ To(a, at).at = at
         /\ To(a, at).want = task[a].want /\ To(a, at).fix = task[a].fix
         /\ task[a].op # "none"
         /\ Ui!Goto(a, at) => task' = [task EXCEPT ![a] = To(a, at)]
<1>1. task[a] \in Work /\ Shape(a, task[a])
  BY DEF UiInv, UiType
<1>2. /\ To(a, at) \in Work
      /\ To(a, at).op = task[a].op /\ To(a, at).at = at
      /\ To(a, at).want = task[a].want /\ To(a, at).fix = task[a].fix
  BY <1>1 DEF To, Work
<1>3. To(a, at) # Ui!NoTask
  BY <1>2, NoTaskIs
<1>4. task[a].op # "none"
  BY <1>1 DEF Shape
<1>5. Ui!Goto(a, at) => task' = [task EXCEPT ![a] = To(a, at)]
  BY DEF Ui!Goto, To
<1> QED
  BY <1>2, <1>3, <1>4, <1>5

\* What a process at work knows while the outcome can be told.
LEMMA Told ==
  ASSUME UiInv, NEW a \in Ui!Actor, task[a] # Ui!NoTask, asks.asked # "any"
  PROVE  /\ Ui!Whole /\ Len(panes) = 2
         /\ Coming(task[a], Ui!Shown) = asks.asked /\ Plain(a, task[a])
         /\ \A p \in Ui!Panel : Ui!Running(p) <=> Ui!Shown = p
         /\ Ui!Shown \in Ui!Panel \cup {"none"}
<1>1. UiType
  BY DEF UiInv
<1>2. Ui!Whole /\ Coming(task[a], Ui!Shown) = asks.asked /\ Plain(a, task[a])
  BY DEF UiInv, AskedComes
<1> QED
  BY <1>1, <1>2, ShownIs DEF Ui!Whole

LEMMA GoesOn ==
  ASSUME UiInv, NEW a \in Ui!Actor, task[a] # Ui!NoTask, NEW t \in Work, t # Ui!NoTask,
         Shape(a, t), Goes(a, t),
         asks.asked # "any" => Coming(t, Ui!Shown) = asks.asked /\ Plain(a, t),
         a = "up" /\ asks.broke = "no" => Mends(t, panes)
  PROVE  UiInv'
<1>1. /\ task' \in [Ui!Actor -> Work] /\ task'[a] = t
      /\ \A b \in Ui!Actor : b # a => task'[b] = task[b]
  BY TaskSet DEF Goes
<1>2. /\ UNCHANGED <<panes, asks>> /\ PanesOK(panes') /\ asks' \in Asking
  BY DEF Goes, UiInv, UiType
<1>3. Ui!Shown' = Ui!Shown /\ (Ui!Whole' <=> Ui!Whole)
  BY <1>2 DEF Ui!Shown, Ui!Whole
<1>4. asks.asked # "any" => Ui!Whole'
  BY <1>3, Told
<1> QED
  BY <1>1, <1>2, <1>3, <1>4, ProcessStep

LEMMA Ends ==
  ASSUME UiInv, NEW a \in Ui!Actor, task[a] # Ui!NoTask, Ui!Stop(a), UNCHANGED panes,
         asks' \in Asking, asks'.asked = asks.asked, asks'.broke = asks.broke,
         asks.asked # "any" => Ui!Shown = asks.asked
  PROVE  UiInv'
<1> DEFINE t == Ui!NoTask
<1>1. t \in Work
  BY NoTaskIs
<1>2. Shape(a, t)
  BY NoTaskIs DEF Shape, Ui!Cmds
<1>3. /\ task' \in [Ui!Actor -> Work] /\ task'[a] = t
      /\ \A b \in Ui!Actor : b # a => task'[b] = task[b]
  BY <1>1, TaskSet DEF Ui!Stop
<1>4. PanesOK(panes')
  BY DEF UiInv, UiType
<1>5. Ui!Shown' = Ui!Shown /\ (Ui!Whole' <=> Ui!Whole)
  BY DEF Ui!Shown, Ui!Whole
<1>6. asks.asked # "any" => Ui!Whole'
  BY <1>5, Told
<1>7. asks.asked # "any" => Ui!Shown' = asks.asked
  BY <1>5
<1> HIDE DEF t
<1>8. t = Ui!NoTask
  BY DEF t
<1> QED
  BY <1>1, <1>2, <1>3, <1>4, <1>6, <1>7, <1>8, ProcessStep

\* A call on a pane that is gone: no outcome can be told.
LEMMA FailsStep ==
  ASSUME UiInv, NEW a \in Ui!Actor, task[a] # Ui!NoTask, Ui!Fails(a), UNCHANGED asks,
         asks.asked = "any"
  PROVE  UiInv'
<1>1. asks' \in Asking
  BY DEF UiInv, UiType
<1> QED
  BY <1>1, Ends DEF Ui!Fails

LEMMA AtWork ==
  ASSUME UiInv, NEW a \in Ui!Actor, task[a].at # "idle"
  PROVE  task[a] # Ui!NoTask /\ task[a] \in Work /\ Shape(a, task[a]) /\ task[a].op # "none"
<1>1. task[a] \in Work /\ Shape(a, task[a])
  BY DEF UiInv, UiType
<1>2. task[a] # Ui!NoTask
  BY NoTaskIs
<1> QED
  BY <1>1, <1>2 DEF Shape

LEMMA OwnStep ==
  ASSUME UiInv, NEW a \in Ui!Cmds, Ui!Own(a) PROVE UiInv'
<1> DEFINE t == task[a]
<1>1. a \in Ui!Actor /\ a # "up" /\ a # "bar"
  BY DEF Ui!Actor, Ui!Cmds
<1>2. t.at = "own" /\ UNCHANGED <<panes, asks>>
  BY DEF Ui!Own
<1>3. t # Ui!NoTask /\ t \in Work /\ Shape(a, t)
  BY <1>1, <1>2, AtWork
<1>4. t.op \in {"open", "toggle"} => t.want \in Ui!Panel
  BY <1>3 DEF Shape
<1>5. asks \in Asking /\ asks' \in Asking
  BY <1>2 DEF UiInv, UiType
<1>6. asks.asked # "any" =>
         /\ Coming(t, Ui!Shown) = asks.asked
         /\ \A p \in Ui!Panel : Ui!Running(p) <=> Ui!Shown = p
         /\ Ui!Shown \in Ui!Panel \cup {"none"}
  BY <1>1, <1>3, Told
<1>7. ASSUME Ui!Stop(a), asks.asked # "any" => Ui!Shown = asks.asked PROVE UiInv'
  BY <1>1, <1>2, <1>3, <1>5, <1>7, Ends
<1>8. ASSUME NEW at \in {"others", "spawn", "list"}, Ui!Goto(a, at),
             at = "others" => t.op = "open",
             at = "spawn" => t.op \in {"open", "toggle"},
             asks.asked # "any" => Coming(To(a, at), Ui!Shown) = asks.asked
      PROVE  UiInv'
  <2>1. at \in Stage \ {"idle"}
    BY DEF Stage
  <2>2. /\ To(a, at) \in Work /\ To(a, at) # Ui!NoTask
        /\ To(a, at).op = t.op /\ To(a, at).at = at
        /\ To(a, at).want = t.want /\ t.op # "none"
        /\ Goes(a, To(a, at))
    BY <1>1, <1>2, <1>3, <1>8, <2>1, GotoIs DEF Goes
  <2>3. Shape(a, To(a, at))
    BY <1>1, <1>3, <1>8, <2>2 DEF Shape
  <2>4. Plain(a, To(a, at))
    BY <1>1, <2>2 DEF Plain
  <2> QED
    BY <1>1, <1>3, <1>8, <2>2, <2>3, <2>4, GoesOn
<1> HIDE DEF t
<1>9. \A at \in {"others", "spawn", "list"} : 
         To(a, at).op = t.op /\ To(a, at).at = at /\ To(a, at).want = t.want
  <2>1. \A at \in {"others", "spawn", "list"} : at \in Stage \ {"idle"}
    BY DEF Stage
  <2> QED
    BY <1>1, <1>3, <2>1, GotoIs DEF t
<1>10. CASE t.op = "open" /\ Ui!Running(t.want) /\ Ui!Stop(a)
  BY <1>4, <1>6, <1>7, <1>10 DEF Coming
<1>11. CASE t.op = "open" /\ ~Ui!Running(t.want) /\ Ui!Goto(a, "others")
  BY <1>6, <1>8, <1>9, <1>11 DEF Coming
<1>12. CASE t.op = "toggle" /\ Ui!Running(t.want) /\ Ui!Goto(a, "list")
  <2>1. asks.asked # "any" => Coming(To(a, "list"), Ui!Shown) = asks.asked
    BY <1>2, <1>4, <1>6, <1>9, <1>12 DEF Coming, t
  <2> QED
    BY <1>8, <1>12, <2>1
<1>13. CASE t.op = "toggle" /\ ~Ui!Running(t.want) /\ Ui!Goto(a, "spawn")
  <2>1. asks.asked # "any" => Coming(To(a, "spawn"), Ui!Shown) = asks.asked
    BY <1>2, <1>4, <1>6, <1>9, <1>13 DEF Coming, t
  <2> QED
    BY <1>8, <1>13, <2>1
<1>14. CASE t.op = "toggle" /\ ~Ui!Running(t.want) /\ task' = [task EXCEPT ![a].op = "open"]
  <2> DEFINE u == [t EXCEPT !.op = "open"]
  <2>1. u \in Work /\ u.op = "open" /\ u.at = "own" /\ u.want = t.want
    BY <1>2, <1>3 DEF Work, t
  <2>2. task' = [task EXCEPT ![a] = u]
    BY <1>14 DEF t
  <2> HIDE DEF u
  <2>3. Goes(a, u)
    BY <1>2, <2>2 DEF Goes
  <2>4. Shape(a, u) /\ Plain(a, u) /\ u # Ui!NoTask
    BY <1>1, <1>3, <1>4, <1>14, <2>1, NoTaskIs DEF Shape, Plain, Ui!Panel
  <2>5. asks.asked # "any" => Coming(u, Ui!Shown) = asks.asked
    BY <1>2, <1>4, <1>6, <1>14, <2>1 DEF Coming, t
  <2> QED
    BY <1>1, <1>3, <2>1, <2>3, <2>4, <2>5, GoesOn DEF t
<1>15. CASE t.op = "dismiss" /\ Ui!Goto(a, "list")
  <2>1. asks.asked # "any" => Coming(To(a, "list"), Ui!Shown) = asks.asked
    BY <1>6, <1>9, <1>15 DEF Coming
  <2> QED
    BY <1>8, <1>15, <2>1
<1>16. CASE t.op = "dismiss" /\ (\A p \in Ui!Panel : ~Ui!Running(p)) /\ Ui!Stop(a)
  BY <1>6, <1>7, <1>16 DEF Coming
<1> QED
  BY <1>10, <1>11, <1>12, <1>13, <1>14, <1>15, <1>16 DEF Ui!Own, t

LEMMA OthersStep ==
  ASSUME UiInv, NEW a \in Ui!Cmds, Ui!Others(a) PROVE UiInv'
<1> DEFINE t == task[a]
<1>1. a \in Ui!Actor /\ a # "up" /\ a # "bar"
  BY DEF Ui!Actor, Ui!Cmds
<1>2. t.at = "others" /\ UNCHANGED <<panes, asks>>
  BY DEF Ui!Others
<1>3. t # Ui!NoTask /\ t \in Work /\ Shape(a, t)
  BY <1>1, <1>2, AtWork
<1>4. t.op = "open" /\ t.want \in Ui!Panel
  BY <1>2, <1>3 DEF Shape
<1>5. PICK at \in {"list", "spawn"} : Ui!Goto(a, at)
  BY DEF Ui!Others
<1>6. at \in Stage \ {"idle"}
  BY DEF Stage
<1>7. /\ To(a, at) \in Work /\ To(a, at) # Ui!NoTask
      /\ To(a, at).op = t.op /\ To(a, at).at = at
      /\ To(a, at).want = t.want
      /\ Goes(a, To(a, at))
  BY <1>1, <1>2, <1>3, <1>5, <1>6, GotoIs DEF Goes
<1>8. Shape(a, To(a, at)) /\ Plain(a, To(a, at))
  BY <1>1, <1>3, <1>4, <1>7 DEF Shape, Plain, Ui!Panel
<1>9. asks.asked # "any" => Coming(To(a, at), Ui!Shown) = asks.asked
  BY <1>1, <1>3, <1>4, <1>7, Told DEF Coming
<1> QED
  BY <1>1, <1>3, <1>7, <1>8, <1>9, GoesOn

\* A step from a window where no outcome can be told.
LEMMA UntoldStep ==
  ASSUME UiInv, NEW a \in Ui!Actor, task[a] # Ui!NoTask, NEW t \in Work, Shape(a, t),
         task' = [task EXCEPT ![a] = t], PanesOK(panes'), UNCHANGED asks, asks.asked = "any",
         a # "up" => panes' = panes \/ Replaced(panes, panes') \/ Added(panes, panes'),
         a = "up" /\ t # Ui!NoTask /\ asks.broke = "no" => Mends(t, panes')
  PROVE  UiInv'
<1>1. /\ task' \in [Ui!Actor -> Work] /\ task'[a] = t
      /\ \A b \in Ui!Actor : b # a => task'[b] = task[b]
  BY TaskSet
<1>2. asks' \in Asking
  BY DEF UiInv, UiType
<1> QED
  BY <1>1, <1>2, ProcessStep

\* A whole window shows what its second pane was started with.
LEMMA ShownAfter ==
  ASSUME UiType, Ui!Whole, NEW start \in {"bar", "attach"} \cup Ui!Panel, Respawned(2, start)
  PROVE  Ui!Whole' /\ Ui!Shown' = IF start \in Ui!Panel THEN start ELSE "none"
<1>1. Len(panes) = 2 /\ panes[1].at # "dead" /\ panes[2].at # "dead"
  BY DEF Ui!Whole
<1>2. Len(panes') = 2 /\ panes'[1] = panes[1] /\ panes'[2].start = start
      /\ panes'[2].at = IF start = "attach" THEN "tmux" ELSE "run"
  BY <1>1 DEF Respawned, Replaced
<1>3. Ui!Whole'
  BY <1>1, <1>2 DEF Ui!Whole
<1>4. start \in Ui!Panel => start # "attach"
  BY DEF Ui!Panel
<1> QED
  BY <1>2, <1>3, <1>4 DEF Ui!Shown

LEMMA SpawnStep ==
  ASSUME UiInv, NEW a \in Ui!Cmds, Ui!Spawn(a) PROVE UiInv'
<1> DEFINE t == task[a]
<1>1. a \in Ui!Actor /\ a # "up" /\ a # "bar"
  BY DEF Ui!Actor, Ui!Cmds
<1>2. t.at = "spawn" /\ UNCHANGED asks
  BY DEF Ui!Spawn
<1>3. t # Ui!NoTask /\ t \in Work /\ Shape(a, t)
  BY <1>1, <1>2, AtWork
<1>4. t.op \in {"open", "toggle"} /\ t.want \in Ui!Panel
  BY <1>2, <1>3 DEF Shape
<1>5. UiType
  BY DEF UiInv
<1>6. CASE Len(panes) < 2 /\ Ui!Fails(a)
  <2>1. asks.asked = "any"
    BY <1>1, <1>3, <1>6, Told
  <2> QED
    BY <1>1, <1>2, <1>3, <1>6, <2>1, FailsStep
<1>7. CASE Len(panes) >= 2 /\ Ui!Respawn(2, t.want) /\ Ui!Stop(a)
  <2>1. 2 \in 1..Len(panes)
    BY <1>5, <1>7 DEF UiType, PanesOK
  <2>2. Respawned(2, t.want)
    BY <1>4, <1>5, <1>7, <2>1, RespawnFacts
  <2>3. PanesOK(panes') /\ Replaced(panes, panes')
    BY <2>2 DEF Respawned
  <2>4. asks.asked # "any" => Ui!Whole' /\ Ui!Shown' = asks.asked
    <3> SUFFICES ASSUME asks.asked # "any" PROVE Ui!Whole' /\ Ui!Shown' = asks.asked
      OBVIOUS
    <3>1. Ui!Whole /\ Coming(t, Ui!Shown) = asks.asked
      BY <1>1, <1>3, Told
    <3>2. Ui!Whole' /\ Ui!Shown' = t.want
      BY <1>4, <1>5, <2>2, <3>1, ShownAfter
    <3> QED
      BY <1>2, <1>4, <3>1, <3>2 DEF Coming
  <2> DEFINE u == Ui!NoTask
  <2>5. u \in Work /\ Shape(a, u)
    BY <1>1, NoTaskIs DEF Shape
  <2>6. /\ task' \in [Ui!Actor -> Work] /\ task'[a] = u
        /\ \A b \in Ui!Actor : b # a => task'[b] = task[b]
    BY <1>1, <1>7, <2>5, TaskSet DEF Ui!Stop
  <2>7. asks' \in Asking
    BY <1>2, <1>5 DEF UiType
  <2> HIDE DEF u
  <2>8. u = Ui!NoTask
    BY DEF u
  <2> QED
    BY <1>1, <1>2, <1>3, <2>3, <2>4, <2>5, <2>6, <2>7, <2>8, ProcessStep
<1> QED
  BY <1>6, <1>7 DEF Ui!Spawn

LEMMA RestoreStep ==
  ASSUME UiInv, NEW a \in Ui!Actor, Ui!Restore(a) PROVE UiInv'
<1> DEFINE t == task[a]
<1>1. t.at = "list" /\ UNCHANGED asks
  BY DEF Ui!Restore
<1>2. t # Ui!NoTask /\ t \in Work /\ Shape(a, t) /\ t.op # "none"
  BY <1>1, AtWork
<1>3. a # "up"
  BY <1>1, <1>2 DEF Shape
<1>4. CASE panes = <<>> /\ Ui!Fails(a)
  <2>1. asks.asked = "any"
    BY <1>2, <1>4, Told
  <2> QED
    BY <1>1, <1>2, <1>4, <2>1, FailsStep
<1>5. ASSUME NEW at \in {"repair", "attach"}, Ui!Goto(a, at), UNCHANGED panes,
             at = "repair" => Len(panes) = 1
      PROVE  UiInv'
  <2>1. at \in Stage \ {"idle"}
    BY DEF Stage
  <2>2. /\ To(a, at) \in Work /\ To(a, at) # Ui!NoTask
        /\ To(a, at).op = t.op /\ To(a, at).at = at
        /\ To(a, at).want = t.want
        /\ Goes(a, To(a, at))
    BY <1>1, <1>2, <1>5, <2>1, GotoIs DEF Goes
  <2>3. Shape(a, To(a, at))
    BY <1>1, <1>2, <1>3, <2>2 DEF Shape
  <2>4. asks.asked # "any" => Coming(To(a, at), Ui!Shown) = asks.asked /\ Plain(a, To(a, at))
    <3> SUFFICES ASSUME asks.asked # "any"
                 PROVE  Coming(To(a, at), Ui!Shown) = asks.asked /\ Plain(a, To(a, at))
      OBVIOUS
    <3>1. Len(panes) = 2 /\ Coming(t, Ui!Shown) = asks.asked
      BY <1>2, Told
    <3>2. at = "attach"
      BY <1>5, <3>1
    <3> QED
      BY <1>1, <1>3, <2>2, <3>1, <3>2 DEF Coming, Plain
  <2> QED
    BY <1>2, <1>3, <2>2, <2>3, <2>4, GoesOn
<1> QED
  BY <1>4, <1>5 DEF Ui!Restore

\* What is left to do when the workspace is attached again.
LEMMA RestoredIs ==
  ASSUME UiInv, NEW a \in Ui!Actor, task[a] # Ui!NoTask, Ui!Restored(a),
         task[a].at \in {"attach", "fix"}
  PROVE  \E t \in Work :
            /\ Shape(a, t) /\ task' = [task EXCEPT ![a] = t]
            /\ \/ task[a].op = "open" /\ t # Ui!NoTask /\ t.op = "open" /\ t.at = "spawn"
                  /\ t.want = task[a].want /\ a \in Ui!Cmds
               \/ task[a].op = "up" /\ a = "up"
               \/ task[a].op \notin {"open", "up"} /\ t = Ui!NoTask /\ a # "up"
<1>1. task[a] \in Work /\ Shape(a, task[a]) /\ task[a].op # "none"
  BY DEF UiInv, UiType, Shape
<1>2. a \in Ui!Cmds \cup {"bar", "up"} /\ "bar" \notin Ui!Cmds /\ "up" \notin Ui!Cmds
  BY DEF Ui!Actor, Ui!Cmds
<1>3. "spawn" \in Stage \ {"idle"} /\ "bar" \in Stage \ {"idle"}
  BY DEF Stage
<1>4. CASE task[a].op = "open"
  <2>1. a \in Ui!Cmds
    BY <1>1, <1>2, <1>4 DEF Shape
  <2>2. /\ To(a, "spawn") \in Work /\ To(a, "spawn") # Ui!NoTask
        /\ To(a, "spawn").op = "open" /\ To(a, "spawn").at = "spawn"
        /\ To(a, "spawn").want = task[a].want
        /\ task' = [task EXCEPT ![a] = To(a, "spawn")]
    BY <1>3, <1>4, GotoIs DEF Ui!Restored
  <2>3. Shape(a, To(a, "spawn"))
    BY <1>1, <1>2, <1>4, <2>1, <2>2 DEF Shape, Ui!Panel
  <2> QED
    BY <1>4, <2>1, <2>2, <2>3
<1>5. CASE task[a].op = "up"
  <2>1. a = "up"
    BY <1>1, <1>2, <1>5 DEF Shape
  <2>2. /\ To(a, "bar") \in Work
        /\ To(a, "bar").op = "up" /\ To(a, "bar").at = "bar"
        /\ task' = [task EXCEPT ![a] = To(a, "bar")]
    BY <1>3, <1>5, GotoIs DEF Ui!Restored
  <2>3. Shape(a, To(a, "bar"))
    BY <1>1, <1>2, <2>1, <2>2 DEF Shape
  <2> QED
    BY <1>5, <2>1, <2>2, <2>3
<1>6. CASE task[a].op \notin {"open", "up"}
  <2>1. a # "up"
    BY <1>1, <1>6 DEF Shape
  <2>2. task' = [task EXCEPT ![a] = Ui!NoTask]
    BY <1>6 DEF Ui!Restored, Ui!Stop
  <2>3. Shape(a, Ui!NoTask) /\ Ui!NoTask \in Work
    BY <1>2, NoTaskIs DEF Shape
  <2> QED
    BY <1>6, <2>1, <2>2, <2>3
<1> QED
  BY <1>4, <1>5, <1>6

LEMMA AttachStep ==
  ASSUME UiInv, NEW a \in Ui!Actor, Ui!Attach(a) PROVE UiInv'
<1>1. task[a].at = "attach" /\ UNCHANGED asks
  BY DEF Ui!Attach
<1>2. task[a] # Ui!NoTask /\ task[a] \in Work /\ Shape(a, task[a]) /\ task[a].op # "none"
  BY <1>1, AtWork
<1>3. a # "up"
  BY <1>1, <1>2 DEF Shape
<1>4. UiType
  BY DEF UiInv
<1>5. CASE Len(panes) < 2 /\ Ui!Fails(a)
  <2>1. asks.asked = "any"
    BY <1>2, <1>5, Told
  <2> QED
    BY <1>1, <1>2, <1>5, <2>1, FailsStep
<1>6. CASE Len(panes) >= 2 /\ Ui!Respawn(2, "attach") /\ Ui!Restored(a)
  <2>1. 2 \in 1..Len(panes)
    BY <1>4, <1>6 DEF UiType, PanesOK
  <2>2. Respawned(2, "attach")
    BY <1>4, <1>6, <2>1, RespawnFacts
  <2>3. PanesOK(panes') /\ Replaced(panes, panes')
    BY <2>2 DEF Respawned
  <2>4. PICK t \in Work :
            /\ Shape(a, t) /\ task' = [task EXCEPT ![a] = t]
            /\ \/ task[a].op = "open" /\ t # Ui!NoTask /\ t.op = "open" /\ t.at = "spawn"
                  /\ t.want = task[a].want /\ a \in Ui!Cmds
               \/ task[a].op \notin {"open", "up"} /\ t = Ui!NoTask /\ a # "up"
    BY <1>1, <1>2, <1>3, <1>6, RestoredIs
  <2>5. /\ task' \in [Ui!Actor -> Work] /\ task'[a] = t
        /\ \A b \in Ui!Actor : b # a => task'[b] = task[b]
    BY <2>4, TaskSet
  <2>6. asks' \in Asking
    BY <1>1, <1>4 DEF UiType
  <2>7. ASSUME asks.asked # "any"
        PROVE  /\ Ui!Whole'
               /\ t = Ui!NoTask => Ui!Shown' = asks.asked
               /\ t # Ui!NoTask => Coming(t, Ui!Shown') = asks.asked /\ Plain(a, t)
    <3>1. Ui!Whole /\ Coming(task[a], Ui!Shown) = asks.asked
      BY <1>2, <2>7, Told
    <3>2. Ui!Whole' /\ Ui!Shown' = "none"
      <4>1. "attach" \notin Ui!Panel
        BY DEF Ui!Panel
      <4> QED
        BY <1>4, <2>2, <3>1, <4>1, ShownAfter
    <3>3. CASE t = Ui!NoTask
      <4>1. task[a].op \notin {"open", "up"}
        BY <2>4, <3>3
      <4> QED
        BY <1>1, <3>1, <3>2, <3>3, <4>1 DEF Coming
    <3>4. CASE t # Ui!NoTask
      <4>1. /\ task[a].op = "open" /\ t.op = "open" /\ t.at = "spawn"
            /\ t.want = task[a].want
        BY <2>4, <3>4
      <4> QED
        BY <1>3, <3>1, <3>2, <3>4, <4>1 DEF Coming, Plain
    <3> QED
      BY <3>2, <3>3, <3>4
  <2> QED
    BY <1>1, <1>2, <1>3, <2>3, <2>4, <2>5, <2>6, <2>7, ProcessStep
<1> QED
  BY <1>5, <1>6 DEF Ui!Attach

LEMMA RepairStep ==
  ASSUME UiInv, NEW a \in Ui!Actor, Ui!Repair(a) PROVE UiInv'
<1> DEFINE t == task[a]
<1>1. t.at = "repair" /\ UNCHANGED asks
  BY DEF Ui!Repair
<1>2. t # Ui!NoTask /\ t \in Work /\ Shape(a, t) /\ t.op # "none"
  BY <1>1, AtWork
<1>3. panes \in Seq(PaneOf) /\ Len(panes) \in Nat /\ DOMAIN panes = 1..Len(panes)
  BY DEF UiInv, UiType, PanesOK
<1>4. asks.asked # "any" => Len(panes) = 2 /\ Ui!Whole /\ Plain(a, t)
                            /\ Coming(t, Ui!Shown) = asks.asked
  BY <1>2, Told
<1>5. CASE panes = <<>> /\ Ui!Fails(a)
  <2>1. asks.asked = "any"
    BY <1>4, <1>5
  <2> QED
    BY <1>1, <1>2, <1>5, <2>1, FailsStep
<1>6. CASE /\ panes # <<>> /\ UNCHANGED panes
           /\ task' = [task EXCEPT ![a].at = "fix", ![a].fix = Ui!Repairs]
  <2> DEFINE f == Ui!Repairs
  <2> DEFINE u == [t EXCEPT !.at = "fix", !.fix = f]
  <2>1. /\ f \in Kind \X Nat
        /\ f[1] = "respawn" => Len(panes) = 2 /\ panes[2].id = f[2]
        /\ f[1] = "before" => Len(panes) = 1 /\ panes[1].start # "bar"
        /\ Ui!Whole => f[1] = "none"
    <3>1. \A i \in 1..Len(panes) : panes[i] \in PaneOf
      BY <1>3
    <3>2. \A i \in 1..Len(panes) : panes[i].id \in Nat
      BY <3>1 DEF PaneOf
    <3>3. CASE Len(panes) = 2 /\ panes[2].at = "dead"
      <4>1. f = <<"respawn", panes[2].id>> /\ panes[2].id \in Nat
        BY <3>2, <3>3 DEF Ui!Repairs
      <4>2. ~Ui!Whole
        BY <3>3 DEF Ui!Whole
      <4> QED
        BY <3>3, <4>1, <4>2 DEF Kind
    <3>4. CASE Len(panes) = 1
      <4>1. /\ f \in {<<"after", panes[1].id>>, <<"before", panes[1].id>>}
            /\ panes[1].id \in Nat
            /\ f[1] = "before" => panes[1].start # "bar"
        BY <3>2, <3>4 DEF Ui!Repairs
      <4>2. ~Ui!Whole
        BY <3>4 DEF Ui!Whole
      <4> HIDE DEF f
      <4> QED
        BY <3>4, <4>1, <4>2 DEF Kind
    <3>5. CASE Len(panes) # 1 /\ ~(Len(panes) = 2 /\ panes[2].at = "dead")
      <4>1. f = <<"none", 0>>
        BY <3>5 DEF Ui!Repairs
      <4> QED
        BY <4>1 DEF Kind
    <3> QED
      BY <3>3, <3>4, <3>5
  <2> HIDE DEF f
  <2>2. /\ u \in Work /\ u.op = t.op /\ u.at = "fix" /\ u.want = t.want /\ u.fix = f
    BY <1>2, <2>1 DEF Work, Stage
  <2>3. task' = [task EXCEPT ![a] = u]
    BY <1>6 DEF f
  <2> HIDE DEF u
  <2>4. Shape(a, u) /\ u # Ui!NoTask
    BY <1>1, <1>2, <2>2, NoTaskIs DEF Shape
  <2>5. Goes(a, u)
    BY <1>1, <1>6, <2>3 DEF Goes
  <2>6. asks.asked # "any" => Coming(u, Ui!Shown) = asks.asked /\ Plain(a, u)
    BY <1>1, <1>4, <2>1, <2>2 DEF Coming, Plain
  <2>7. a = "up" /\ asks.broke = "no" => Mends(u, panes)
    <3> SUFFICES ASSUME a = "up", asks.broke = "no" PROVE Mends(u, panes)
      OBVIOUS
    <3>1. Mends(t, panes)
      BY <1>2 DEF UiInv, UpMends
    <3>2. t.want = "boot" /\ ~Hopeless(panes)
      BY <1>1, <3>1 DEF Mends
    <3> QED
      BY <2>1, <2>2, <3>2 DEF Mends, Hopeless
  <2> QED
    BY <1>2, <2>2, <2>4, <2>5, <2>6, <2>7, GoesOn
<1> QED
  BY <1>5, <1>6 DEF Ui!Repair

\* The window after a repair, and what its process does next.
LEMMA FixedStep ==
  ASSUME UiInv, NEW a \in Ui!Actor, task[a].at = "fix", UNCHANGED asks, Ui!Fixed(a),
         PanesOK(panes'),
         panes' = panes \/ Replaced(panes, panes') \/ Added(panes, panes'),
         panes' # panes => asks.asked = "any",
         a = "up" /\ asks.broke = "no" /\ task[a].fix[1] # "none" => WorkspaceUp(panes')
  PROVE  UiInv'
<1> DEFINE t == task[a]
<1>1. t # Ui!NoTask /\ t \in Work /\ Shape(a, t) /\ t.op # "none"
  BY AtWork
<1>2. asks.asked # "any" => /\ Ui!Whole /\ Plain(a, t) /\ Coming(t, Ui!Shown) = asks.asked
                            /\ panes' = panes
  BY <1>1, Told
<1>3. a = "up" /\ asks.broke = "no" => t.want = "boot"
  BY <1>1 DEF UiInv, UpMends, Mends
<1>4. CASE t.want # "boot"
  <2>1. Ui!Restored(a)
    BY <1>4 DEF Ui!Fixed
  <2>2. PICK u \in Work :
            /\ Shape(a, u) /\ task' = [task EXCEPT ![a] = u]
    BY <1>1, <2>1, RestoredIs
  <2>3. asks.asked = "any"
    BY <1>2, <1>4 DEF Plain
  <2>4. ~(a = "up" /\ asks.broke = "no")
    BY <1>3, <1>4
  <2> QED
    BY <1>1, <2>2, <2>3, <2>4, UntoldStep
<1>5. CASE t.want = "boot"
  <2> DEFINE at == IF t.fix[1] = "none" THEN "needs" ELSE "ensure"
  <2> DEFINE u == [t EXCEPT !.at = at, !.fix = Ui!NoTask.fix]
  <2>1. a = "up" /\ t.op = "up"
    <3>1. a \in Ui!Cmds \cup {"bar", "up"}
      BY DEF Ui!Actor
    <3> QED
      BY <1>1, <1>5, <3>1 DEF Shape
  <2>2. at \in Stage /\ Ui!NoTask.fix \in Kind \X Nat
    BY NoTaskIs DEF Stage, Kind
  <2>3. task' = [task EXCEPT ![a] = u]
    BY <1>5 DEF Ui!Fixed
  <2>4. at \in {"needs", "ensure"} /\ (at = "needs" <=> t.fix[1] = "none")
    OBVIOUS
  <2> HIDE DEF at
  <2>5. u \in Work /\ u.op = "up" /\ u.at = at /\ u.want = "boot"
    BY <1>1, <1>5, <2>1, <2>2 DEF Work
  <2> HIDE DEF u
  <2>6. Shape(a, u) /\ u # Ui!NoTask
    BY <2>1, <2>4, <2>5, NoTaskIs DEF Shape, Ui!Cmds
  <2>7. asks.broke = "no" => Mends(u, panes')
    <3> SUFFICES ASSUME asks.broke = "no" PROVE Mends(u, panes')
      OBVIOUS
    <3>1. at = "ensure" => WorkspaceUp(panes')
      BY <2>1, <2>4
    <3> QED
      BY <2>4, <2>5, <3>1 DEF Mends
  <2>8. CASE asks.asked = "any"
    BY <1>1, <2>1, <2>3, <2>5, <2>6, <2>7, <2>8, UntoldStep
  <2>9. CASE asks.asked # "any"
    <3>1. Coming(u, Ui!Shown) = asks.asked /\ Plain(a, u)
      BY <1>2, <2>1, <2>4, <2>5, <2>9 DEF Coming, Plain
    <3>2. Goes(a, u)
      BY <1>2, <2>3, <2>9 DEF Goes
    <3> QED
      BY <1>1, <1>2, <2>5, <2>6, <2>7, <2>9, <3>1, <3>2, GoesOn
  <2> QED
    BY <2>8, <2>9
<1> QED
  BY <1>4, <1>5

LEMMA FixStep ==
  ASSUME UiInv, NEW a \in Ui!Actor, Ui!Fix(a) PROVE UiInv'
<1> DEFINE t == task[a]
<1> DEFINE kind == task[a].fix[1]
<1> DEFINE on == {i \in 1..Len(panes) : panes[i].id = task[a].fix[2]}
<1>1. t.at = "fix" /\ UNCHANGED asks
  BY DEF Ui!Fix
<1>2. t # Ui!NoTask /\ t \in Work /\ Shape(a, t) /\ t.op # "none"
  BY <1>1, AtWork
<1>3. UiType /\ PanesOK(panes) /\ Len(panes) \in Nat /\ DOMAIN panes = 1..Len(panes)
  BY DEF UiInv, UiType, PanesOK
<1>4. asks.asked # "any" => Plain(a, t)
  BY <1>2, Told
<1>5. kind # "none" => asks.asked = "any"
  BY <1>1, <1>4 DEF Plain
<1>6. a = "up" /\ asks.broke = "no" => Mends(t, panes)
  BY <1>2 DEF UiInv, UpMends
<1>7. CASE kind # "none" /\ on = {} /\ Ui!Fails(a)
  BY <1>1, <1>2, <1>5, <1>7, FailsStep
<1>8. CASE kind = "none" /\ Ui!Fixed(a) /\ UNCHANGED panes
  BY <1>1, <1>3, <1>8, FixedStep
<1>9. ASSUME NEW i \in on, kind = "respawn", Ui!Respawn(i, "attach"), Ui!Fixed(a) PROVE UiInv'
  <2>1. i \in 1..Len(panes) /\ panes[i].id = t.fix[2]
    BY <1>9
  <2>2. Respawned(i, "attach")
    BY <1>3, <1>9, <2>1, RespawnFacts
  <2>3. PanesOK(panes') /\ Replaced(panes, panes')
    BY <2>2 DEF Respawned
  <2>4. a = "up" /\ asks.broke = "no" => WorkspaceUp(panes')
    <3> SUFFICES ASSUME a = "up", asks.broke = "no" PROVE WorkspaceUp(panes')
      OBVIOUS
    <3>1. Len(panes) >= 2 /\ (Len(panes) = 2 => panes[2].id = t.fix[2])
      BY <1>1, <1>6, <1>9 DEF Mends
    <3>2. Len(panes) = 2 => i = 2
      BY <1>3, <2>1, <3>1 DEF PanesOK
    <3>3. Len(panes') = Len(panes) /\ panes'[i].at # "dead"
      BY <2>2 DEF Respawned, Replaced
    <3> QED
      BY <3>1, <3>2, <3>3 DEF WorkspaceUp
  <2> QED
    BY <1>1, <1>5, <1>9, <2>3, <2>4, FixedStep
<1>10. ASSUME NEW i \in on, kind = "after",
              panes' = Ui!InsertAt(panes, i + 1, Ui!Pane(Ui!FreshId, "attach")), Ui!Fixed(a)
       PROVE  UiInv'
  <2>1. i \in 1..Len(panes) /\ i + 1 \in 1..Len(panes) + 1 /\ panes # <<>>
    BY <1>3, <1>10
  <2>2. PanesOK(panes') /\ Added(panes, panes') /\ Len(panes') = Len(panes) + 1
        /\ panes'[i + 1].at # "dead"
    BY <1>3, <1>10, <2>1, InsertFacts
  <2>3. WorkspaceUp(panes')
    <3>1. /\ Len(panes) + 1 >= 2
          /\ Len(panes) + 1 = 2 => i = 1
      BY <1>3, <2>1
    <3>2. /\ Len(panes') >= 2
          /\ Len(panes') = 2 => panes'[2].at # "dead"
      BY <2>2, <3>1
    <3> QED
      BY <3>2 DEF WorkspaceUp
  <2> QED
    BY <1>1, <1>5, <1>10, <2>2, <2>3, FixedStep
<1>11. ASSUME NEW i \in on, kind = "before",
              panes' = Ui!InsertAt(panes, i, Ui!Pane(Ui!FreshId, "bar")), Ui!Fixed(a)
       PROVE  UiInv'
  <2>1. i \in 1..Len(panes) /\ i \in 1..Len(panes) + 1 /\ panes # <<>>
    BY <1>3, <1>11
  <2>2. PanesOK(panes') /\ Added(panes, panes') /\ Len(panes') = Len(panes) + 1
        /\ \A j \in 1..Len(panes) + 1 :
               j # i => panes'[j] = IF j < i THEN panes[j] ELSE panes[j - 1]
    BY <1>3, <1>11, <2>1, InsertFacts
  <2>3. a = "up" /\ asks.broke = "no" => WorkspaceUp(panes')
    <3> SUFFICES ASSUME a = "up", asks.broke = "no" PROVE WorkspaceUp(panes')
      OBVIOUS
    <3>1. Len(panes) = 1 => panes[1].at # "dead"
      BY <1>1, <1>6, <1>11 DEF Mends
    <3>2. ASSUME Len(panes) = 1 PROVE panes'[2] = panes[1]
      <4>1. i = 1 /\ 2 \in 1..Len(panes) + 1 /\ ~(2 < i) /\ 2 - 1 = 1
        BY <1>3, <2>1, <3>2
      <4> QED
        BY <2>2, <4>1
    <3> QED
      BY <1>3, <2>1, <2>2, <3>1, <3>2 DEF WorkspaceUp
  <2> QED
    BY <1>1, <1>5, <1>11, <2>2, <2>3, FixedStep
<1> QED
  BY <1>7, <1>8, <1>9, <1>10, <1>11 DEF Ui!Fix

LEMMA CloseProbeStep ==
  ASSUME UiInv, Ui!CloseProbe PROVE UiInv'
<1> DEFINE a == "bar"
<1>1. a \in Ui!Actor /\ a # "up"
  BY DEF Ui!Actor
<1>2. task[a].at = "probe" /\ UNCHANGED <<panes, asks>>
  BY DEF Ui!CloseProbe
<1>3. task[a] # Ui!NoTask /\ task[a] \in Work /\ Shape(a, task[a]) /\ task[a].op # "none"
  BY <1>1, <1>2, AtWork
<1>4. task[a].op = "close"
  BY <1>3 DEF Shape
<1>5. asks.asked # "any" => /\ asks.asked = "none"
                            /\ \A p \in Ui!Panel : Ui!Running(p) <=> Ui!Shown = p
                            /\ Ui!Shown \in Ui!Panel \cup {"none"}
  BY <1>1, <1>3, <1>4, Told DEF Coming
<1>6. CASE Ui!Goto("bar", "list")
  <2>1. "list" \in Stage \ {"idle"}
    BY DEF Stage
  <2>2. /\ To(a, "list") \in Work /\ To(a, "list") # Ui!NoTask
        /\ To(a, "list").op = "close" /\ To(a, "list").at = "list"
        /\ To(a, "list").want = task[a].want
        /\ Goes(a, To(a, "list"))
    BY <1>1, <1>2, <1>3, <1>4, <1>6, <2>1, GotoIs DEF Goes
  <2>3. Shape(a, To(a, "list")) /\ Plain(a, To(a, "list"))
    BY <1>3, <1>4, <2>2 DEF Shape, Plain, Ui!Cmds
  <2>4. asks.asked # "any" => Coming(To(a, "list"), Ui!Shown) = asks.asked
    BY <1>5, <2>2 DEF Coming
  <2> QED
    BY <1>1, <1>3, <2>2, <2>3, <2>4, GoesOn
<1>7. CASE (\A p \in Ui!Panel : ~Ui!Running(p)) /\ Ui!Stop("bar")
  <2>1. asks.asked # "any" => Ui!Shown = asks.asked
    BY <1>5, <1>7
  <2>2. asks' \in Asking /\ asks'.asked = asks.asked /\ asks'.broke = asks.broke
    BY <1>2 DEF UiInv, UiType
  <2> QED
    BY <1>1, <1>2, <1>3, <1>7, <2>1, <2>2, Ends
<1> QED
  BY <1>6, <1>7 DEF Ui!CloseProbe

-----------------------------------------------------------------------------
(* Requests *)

LEMMA CommandIs ==
  ASSUME NEW op \in {"open", "toggle", "dismiss"}, NEW p \in Ui!Panel \cup {"none"}
  PROVE  /\ Ui!Command(op, p) \in Work /\ Ui!Command(op, p) # Ui!NoTask
         /\ Ui!Command(op, p).op = op /\ Ui!Command(op, p).at = "own"
         /\ Ui!Command(op, p).want = p
<1> DEFINE t == Ui!Command(op, p)
<1>1. /\ t = [Ui!NoTask EXCEPT !.op = op, !.at = "own", !.want = p]
      /\ Ui!NoTask \in Work /\ Ui!NoTask.at = "idle"
  BY NoTaskIs DEF Ui!Command
<1> HIDE DEF t
<1>2. t.op = op /\ t.at = "own" /\ t.want = p
  BY <1>1 DEF Work
<1>3. t \in Work
  BY <1>1 DEF Work, Stage
<1>4. t # Ui!NoTask
  BY <1>1, <1>2
<1> QED
  BY <1>2, <1>3, <1>4 DEF t

\* What is asked is one of the fields of a record.
LEMMA Asked ==
  ASSUME asks \in Asking, NEW r \in Ui!Panel \cup {"none", "any"}, NEW n \in Nat,
         asks' = [asks EXCEPT !.requests = n, !.asked = r]
  PROVE  asks' \in Asking /\ asks'.broke = asks.broke /\ asks'.asked = r
<1> DEFINE S == Ui!Panel \cup {"none", "any"}
<1>1. /\ asks \in [asked : S, requests : Nat, breaks : Nat,
                   broke : {"no", "before", "since"}, up : {"none", "ok", "failed"}]
      /\ r \in S
  BY DEF Asking
<1> HIDE DEF S
<1>2. /\ asks' \in [asked : S, requests : Nat, breaks : Nat,
                   broke : {"no", "before", "since"}, up : {"none", "ok", "failed"}]
      /\ asks'.broke = asks.broke /\ asks'.asked = r
  BY <1>1
<1> QED
  BY <1>2 DEF Asking, S

LEMMA AsksIs ==
  ASSUME UiInv, NEW result \in Ui!Panel \cup {"none"}, NEW told \in BOOLEAN,
         Ui!Asks(result, told)
  PROVE  /\ asks' \in Asking /\ asks'.broke = asks.broke
         /\ asks'.asked # "any" => /\ Ui!Quiet /\ Ui!Whole /\ told
                                   /\ asks'.asked = result
<1> DEFINE r == IF Ui!Quiet /\ Ui!Whole /\ told THEN result ELSE "any"
<1>1. asks \in Asking
  BY DEF UiInv, UiType
<1>2. asks' = [asks EXCEPT !.requests = @ + 1, !.asked = r]
  BY DEF Ui!Asks
<1>3. r \in Ui!Panel \cup {"none", "any"}
  OBVIOUS
<1>4. r # "any" => Ui!Quiet /\ Ui!Whole /\ told /\ r = result
  OBVIOUS
<1> HIDE DEF r
<1> DEFINE n == asks.requests + 1
<1>5. n \in Nat
  BY <1>1 DEF Asking
<1>6. asks' = [asks EXCEPT !.requests = n, !.asked = r]
  BY <1>2
<1> HIDE DEF n
<1>7. asks' \in Asking /\ asks'.broke = asks.broke /\ asks'.asked = r
  BY <1>1, <1>3, <1>5, <1>6, Asked
<1> QED
  BY <1>4, <1>7

LEMMA StartStep ==
  ASSUME UiInv, NEW op \in {"open", "toggle", "dismiss"}, NEW p \in Ui!Panel \cup {"none"},
         op # "dismiss" => p \in Ui!Panel,
         NEW told \in BOOLEAN, NEW result \in Ui!Panel \cup {"none"},
         Ui!Start(Ui!Command(op, p)), Ui!Asks(result, told), UNCHANGED panes,
         told /\ Ui!Whole =>
            result = CASE op = "open" -> p [] op = "toggle" -> Ui!Toggled(p) [] OTHER -> "none"
  PROVE  UiInv'
<1> DEFINE t == Ui!Command(op, p)
<1>1. PICK c \in Ui!Cmds : task[c] = Ui!NoTask /\ task' = [task EXCEPT ![c] = t]
  BY DEF Ui!Start
<1>2. c \in Ui!Actor /\ c # "up" /\ c # "bar"
  BY DEF Ui!Actor, Ui!Cmds
<1>3. t \in Work /\ t # Ui!NoTask /\ t.op = op /\ t.at = "own" /\ t.want = p
  BY CommandIs
<1> HIDE DEF t
<1>4. Shape(c, t)
  <2>1. t.want # "boot"
    BY <1>3 DEF Ui!Panel
  <2> QED
    BY <1>2, <1>3, <2>1 DEF Shape
<1>5. /\ asks' \in Asking /\ asks'.broke = asks.broke
      /\ asks'.asked # "any" => /\ Ui!Quiet /\ Ui!Whole /\ told
                                /\ asks'.asked = result
  BY AsksIs
<1>6. asks'.asked # "any" => Coming(t, Ui!Shown) = asks'.asked
  <2> SUFFICES ASSUME asks'.asked # "any" PROVE Coming(t, Ui!Shown) = result
    BY <1>5
  <2>1. told /\ Ui!Whole
    BY <1>5
  <2>2. CASE op = "open"
    BY <1>3, <2>1, <2>2 DEF Coming
  <2>3. CASE op = "toggle"
    BY <1>3, <2>1, <2>3 DEF Coming, Ui!Toggled
  <2>4. CASE op = "dismiss"
    BY <1>3, <2>1, <2>4 DEF Coming
  <2> QED
    BY <2>2, <2>3, <2>4
<1>7. Plain(c, t)
  BY <1>2, <1>3 DEF Plain
<1> QED
  BY <1>1, <1>2, <1>3, <1>4, <1>5, <1>6, <1>7, RequestStep

LEMMA CloseIs ==
  ASSUME NEW t, t = [Ui!NoTask EXCEPT !.op = "close", !.at = "probe"]
  PROVE  /\ t \in Work /\ t # Ui!NoTask /\ Shape("bar", t) /\ Plain("bar", t)
         /\ \A shown : Coming(t, shown) = "none"
<1>1. t \in Work /\ t.op = "close" /\ t.at = "probe" /\ t.want = "none"
  <2>1. Ui!NoTask \in Work /\ Ui!NoTask.want = "none"
    BY NoTaskIs
  <2>2. t.op = "close" /\ t.at = "probe" /\ t.want = Ui!NoTask.want
    BY <2>1 DEF Work
  <2> QED
    BY <2>1, <2>2 DEF Work, Stage
<1>2. t # Ui!NoTask
  BY <1>1, NoTaskIs
<1> QED
  BY <1>1, <1>2 DEF Shape, Plain, Coming, Ui!Cmds

LEMMA KeyPressStep ==
  ASSUME UiInv, NEW p \in Ui!Panel, Ui!KeyPress(p) PROVE UiInv'
<1> DEFINE result == IF p = "settings" THEN Ui!Toggled(p) ELSE p
<1> DEFINE op == IF p = "settings" THEN "toggle" ELSE "open"
<1>1. Ui!Asks(result, TRUE) /\ Ui!Start(Ui!Command(op, p)) /\ UNCHANGED panes
  BY DEF Ui!KeyPress, Ui!ByKey
<1>2. result \in Ui!Panel \cup {"none"} /\ op \in {"open", "toggle"}
  BY DEF Ui!Toggled
<1>3. result = CASE op = "open" -> p [] op = "toggle" -> Ui!Toggled(p) [] OTHER -> "none"
  OBVIOUS
<1> HIDE DEF result, op
<1> QED
  BY <1>1, <1>2, <1>3, StartStep

LEMMA ToggleNewStep ==
  ASSUME UiInv, Ui!ToggleNew PROVE UiInv'
<1> DEFINE result == Ui!Toggled("new")
<1>1. /\ Ui!Asks(result, TRUE) /\ Ui!Start(Ui!Command("toggle", "new")) /\ UNCHANGED panes
  BY DEF Ui!ToggleNew
<1>2. "new" \in Ui!Panel /\ result \in Ui!Panel \cup {"none"}
  BY DEF Ui!Toggled, Ui!Panel
<1> QED
  BY <1>1, <1>2, StartStep

LEMMA DismissStep ==
  ASSUME UiInv, Ui!Dismiss PROVE UiInv'
<1>1. /\ Ui!Asks("none", TRUE) /\ Ui!Start(Ui!Command("dismiss", "none")) /\ UNCHANGED panes
  BY DEF Ui!Dismiss
<1> QED
  BY <1>1, StartStep

\* The sidebar closes what is open.
LEMMA ClosingStep ==
  ASSUME UiInv, task["bar"] = Ui!NoTask, NEW told \in BOOLEAN,
         NEW result \in Ui!Panel \cup {"none"}, Ui!Asks(result, told), UNCHANGED panes,
         task' = [task EXCEPT !["bar"] = [Ui!NoTask EXCEPT !.op = "close", !.at = "probe"]],
         told /\ Ui!Whole => result = "none"
  PROVE  UiInv'
<1> DEFINE t == [Ui!NoTask EXCEPT !.op = "close", !.at = "probe"]
<1>1. /\ t \in Work /\ t # Ui!NoTask /\ Shape("bar", t) /\ Plain("bar", t)
      /\ Coming(t, Ui!Shown) = "none"
  BY CloseIs
<1>2. "bar" \in Ui!Actor
  BY DEF Ui!Actor
<1>3. task' = [task EXCEPT !["bar"] = t]
  OBVIOUS
<1>4. /\ asks' \in Asking /\ asks'.broke = asks.broke
      /\ asks'.asked # "any" => /\ Ui!Quiet /\ Ui!Whole /\ told
                                /\ asks'.asked = result
  BY AsksIs
<1> HIDE DEF t
<1> QED
  BY <1>1, <1>2, <1>3, <1>4, RequestStep

LEMMA CloseStep ==
  ASSUME UiInv, Ui!Close PROVE UiInv'
<1> DEFINE told == side.flag = Ui!Shown
<1>1. /\ task["bar"] = Ui!NoTask /\ UNCHANGED panes
      /\ Ui!Asks("none", told)
      /\ task' = [task EXCEPT !["bar"] = [Ui!NoTask EXCEPT !.op = "close", !.at = "probe"]]
  BY DEF Ui!Close
<1>2. told \in BOOLEAN
  OBVIOUS
<1> HIDE DEF told
<1> QED
  BY <1>1, <1>2, ClosingStep

\* The sidebar takes the button for a way to open or to close by what its flag
\* and its probe say; when they agree, so does the window.
LEMMA ClickStep ==
  ASSUME UiInv, NEW p \in Ui!Panel, Ui!Click(p) PROVE UiInv'
<1> DEFINE open == Ui!Running(p) \/ side.flag = p
<1> DEFINE result == IF p = "new" THEN p ELSE Ui!Toggled(p)
<1> DEFINE told == side.flag = Ui!Shown
<1> DEFINE op == IF p = "settings" THEN "toggle" ELSE "open"
<1>1. UiType
  BY DEF UiInv
<1>2. Ui!Asks(result, told) /\ UNCHANGED panes /\ task["bar"] = Ui!NoTask
  BY DEF Ui!Click
<1>3. result \in Ui!Panel \cup {"none"} /\ told \in BOOLEAN
  BY DEF Ui!Toggled
<1>4. told /\ Ui!Whole => (open <=> Ui!Shown = p)
  BY <1>1, ShownIs
<1>5. CASE open /\ p = "new" /\ UNCHANGED task
  <2>1. told /\ Ui!Whole => Ui!Shown = result
    BY <1>4, <1>5
  <2>2. /\ asks' \in Asking /\ asks'.broke = asks.broke
        /\ asks'.asked # "any" => /\ Ui!Quiet /\ Ui!Whole /\ told
                                  /\ asks'.asked = result
    BY <1>2, <1>3, AsksIs
  <2>3. Ui!Shown' = Ui!Shown /\ (Ui!Whole' <=> Ui!Whole)
    BY <1>2 DEF Ui!Shown, Ui!Whole
  <2>4. PanesOK(panes') /\ panes' = panes
    BY <1>1, <1>2 DEF UiType
  <2> HIDE DEF told, result
  <2> QED
    BY <1>5, <2>1, <2>2, <2>3, <2>4, WindowStep
<1>6. CASE open /\ p # "new"
           /\ task' = [task EXCEPT !["bar"] = [Ui!NoTask EXCEPT !.op = "close", !.at = "probe"]]
  <2>1. told /\ Ui!Whole => result = "none"
    BY <1>4, <1>6 DEF Ui!Toggled
  <2> HIDE DEF told, result, open
  <2> QED
    BY <1>2, <1>3, <1>6, <2>1, ClosingStep
<1>7. CASE ~open /\ Ui!Start(Ui!ByKey(p))
  <2>1. Ui!Start(Ui!Command(op, p)) /\ op \in {"open", "toggle"}
    BY <1>7 DEF Ui!ByKey
  <2>2. told /\ Ui!Whole =>
          result = CASE op = "open" -> p [] op = "toggle" -> Ui!Toggled(p) [] OTHER -> "none"
    BY <1>4, <1>7 DEF Ui!Toggled
  <2> HIDE DEF told, result, open, op
  <2> QED
    BY <1>2, <1>3, <2>1, <2>2, StartStep
<1> QED
  BY <1>5, <1>6, <1>7 DEF Ui!Click

LEMMA UpStep ==
  ASSUME UiInv, Ui!Up PROVE UiInv'
<1> DEFINE t == [Ui!NoTask EXCEPT !.op = "up", !.at = "sidebar", !.want = "boot"]
<1> DEFINE r == IF Ui!Quiet /\ Ui!Whole THEN asks.asked ELSE "any"
<1> DEFINE k == IF Ui!AgentsDown THEN "before" ELSE "no"
<1>1. /\ task["up"] = Ui!NoTask /\ UNCHANGED panes
      /\ task' = [task EXCEPT !["up"] = t]
      /\ asks' = [asks EXCEPT !.requests = @ + 1, !.asked = r, !.broke = k, !.up = "none"]
  BY DEF Ui!Up
<1>2. t \in Work /\ t.op = "up" /\ t.at = "sidebar" /\ t.want = "boot"
  <2>1. Ui!NoTask \in Work
    BY NoTaskIs
  <2>2. t.op = "up" /\ t.at = "sidebar" /\ t.want = "boot"
    BY <2>1 DEF Work
  <2> QED
    BY <2>1, <2>2 DEF Work, Stage
<1> HIDE DEF t
<1>3. t # Ui!NoTask /\ Shape("up", t) /\ Plain("up", t) /\ Coming(t, Ui!Shown) = Ui!Shown
  BY <1>2, NoTaskIs DEF Shape, Plain, Coming, Ui!Cmds
<1>4. asks \in Asking /\ PanesOK(panes)
  BY DEF UiInv, UiType
<1>5. r \in Ui!Panel \cup {"none", "any"} /\ k \in {"no", "before"}
  <2>1. asks.asked \in Ui!Panel \cup {"none", "any"}
    BY <1>4 DEF Asking
  <2> QED
    BY <2>1
<1>6. r # "any" => Ui!Quiet /\ Ui!Whole /\ Ui!Shown = r
  <2>1. r # "any" => Ui!Quiet /\ Ui!Whole /\ r = asks.asked
    OBVIOUS
  <2> QED
    BY <2>1 DEF UiInv, AskedComes
<1>7. k = "no" => Mends(t, panes)
  <2> SUFFICES ASSUME ~Ui!AgentsDown PROVE Mends(t, panes)
    OBVIOUS
  <2>1. ~Hopeless(panes)
    BY DEF Ui!AgentsDown, Hopeless
  <2> QED
    BY <1>2, <2>1 DEF Mends
<1> HIDE DEF r, k
<1>8. asks' \in Asking /\ asks'.asked = r /\ asks'.broke = k
  <2> DEFINE S == Ui!Panel \cup {"none", "any"}
  <2> DEFINE n == asks.requests + 1
  <2>1. /\ asks \in [asked : S, requests : Nat, breaks : Nat,
                     broke : {"no", "before", "since"}, up : {"none", "ok", "failed"}]
        /\ r \in S
    BY <1>4, <1>5 DEF Asking
  <2>2. n \in Nat
    BY <2>1
  <2>3. asks' = [asks EXCEPT !.requests = n, !.asked = r, !.broke = k, !.up = "none"]
    BY <1>1
  <2> HIDE DEF S, n
  <2>4. /\ asks' \in [asked : S, requests : Nat, breaks : Nat,
                      broke : {"no", "before", "since"}, up : {"none", "ok", "failed"}]
        /\ asks'.asked = r /\ asks'.broke = k
    BY <1>5, <2>1, <2>2, <2>3
  <2> QED
    BY <2>4 DEF Asking, S
<1>9. "up" \in Ui!Actor
  BY DEF Ui!Actor
<1> QED
  BY <1>1, <1>2, <1>3, <1>6, <1>7, <1>8, <1>9, RequestStep

-----------------------------------------------------------------------------
(* Inside a panel *)

LEMMA LeavesIs ==
  ASSUME UiInv, Ui!Leaves
  PROVE  /\ asks' \in Asking /\ asks'.broke = asks.broke
         /\ asks'.asked # "any" => Ui!Quiet /\ Ui!Whole /\ asks'.asked = "none"
<1> DEFINE r == IF Ui!Quiet /\ Ui!Whole THEN "none" ELSE "any"
<1>1. asks \in Asking
  BY DEF UiInv, UiType
<1>2. asks' = [asks EXCEPT !.asked = r]
  BY DEF Ui!Leaves
<1>3. r \in {"none", "any"} /\ (r # "any" => Ui!Quiet /\ Ui!Whole)
  OBVIOUS
<1> HIDE DEF r
<1>4. asks' \in Asking /\ asks'.broke = asks.broke /\ asks'.asked = r
  BY <1>1, <1>2, <1>3 DEF Asking
<1> QED
  BY <1>3, <1>4

LEMMA EscapeStep ==
  ASSUME UiInv, NEW p \in Ui!Panel, Ui!Escape(p) PROVE UiInv'
<1> DEFINE e == [panes[2] EXCEPT !.at = "tmux"]
<1>1. panes \in Seq(PaneOf) /\ Len(panes) \in Nat /\ DOMAIN panes = 1..Len(panes)
  BY DEF UiInv, UiType, PanesOK
<1>2. /\ Len(panes) >= 2 /\ panes[2].start = p /\ UNCHANGED task /\ Ui!Leaves
      /\ panes' = [panes EXCEPT ![2] = e]
  BY DEF Ui!Escape, Ui!InPanel
<1>3. panes[2] \in PaneOf /\ 2 \in 1..Len(panes)
  BY <1>1, <1>2
<1>4. e \in PaneOf /\ e.id = panes[2].id /\ e.start = p /\ e.at = "tmux" /\ p # "bar"
  BY <1>2, <1>3 DEF PaneOf, Ui!Panel
<1> HIDE DEF e
<1>5. /\ panes' \in Seq(PaneOf) /\ Len(panes') = Len(panes) /\ panes'[2] = e
      /\ DOMAIN panes' = 1..Len(panes)
      /\ \A j \in 1..Len(panes) : j # 2 => panes'[j] = panes[j]
  BY <1>1, <1>2, <1>3, <1>4
<1>6. \A j \in 1..Len(panes) : panes'[j].id = panes[j].id
  BY <1>4, <1>5
<1>7. \A j \in 1..Len(panes) : panes'[j].start = "bar" => panes'[j].at # "tmux"
  BY <1>1, <1>4, <1>5 DEF UiInv, UiType, PanesOK
<1>8. PanesOK(panes')
  BY <1>1, <1>5, <1>6, <1>7 DEF UiInv, UiType, PanesOK
<1>9. Replaced(panes, panes')
  BY <1>4, <1>5, <1>6 DEF Replaced
<1>10. /\ asks' \in Asking /\ asks'.broke = asks.broke
       /\ asks'.asked # "any" => Ui!Quiet /\ Ui!Whole /\ asks'.asked = "none"
  BY <1>2, LeavesIs
<1>11. Ui!Shown' = "none"
  BY <1>4, <1>5 DEF Ui!Shown
<1>12. Ui!Whole => Ui!Whole'
  <2> SUFFICES ASSUME Ui!Whole PROVE Ui!Whole'
    OBVIOUS
  <2>1. Len(panes) = 2 /\ panes[1].at # "dead"
    BY DEF Ui!Whole
  <2>2. panes'[1] = panes[1] /\ Len(panes') = 2
    BY <1>5, <2>1
  <2> QED
    BY <1>4, <1>5, <2>1, <2>2 DEF Ui!Whole
<1> QED
  BY <1>2, <1>8, <1>9, <1>10, <1>11, <1>12, WindowStep

LEMMA LaunchStep ==
  ASSUME UiInv, Ui!Launch PROVE UiInv'
<1>1. Ui!Respawn(2, "attach") /\ Ui!Leaves /\ UNCHANGED task /\ Len(panes) >= 2
  BY DEF Ui!Launch, Ui!InPanel
<1>2. UiType /\ 2 \in 1..Len(panes)
  BY <1>1 DEF UiInv, UiType, PanesOK
<1>3. Respawned(2, "attach")
  BY <1>1, <1>2, RespawnFacts
<1>4. /\ asks' \in Asking /\ asks'.broke = asks.broke
      /\ asks'.asked # "any" => Ui!Quiet /\ Ui!Whole /\ asks'.asked = "none"
  BY <1>1, LeavesIs
<1>5. "attach" \notin Ui!Panel
  BY DEF Ui!Panel
<1>6. Ui!Whole => Ui!Whole' /\ Ui!Shown' = "none"
  BY <1>2, <1>3, <1>5, ShownAfter
<1>7. PanesOK(panes') /\ Replaced(panes, panes')
  BY <1>3 DEF Respawned
<1> QED
  BY <1>1, <1>4, <1>6, <1>7, WindowStep

-----------------------------------------------------------------------------
(* Faults *)

LEMMA BreakStep ==
  ASSUME UiInv, NEW i \in Nat, PanesOK(panes'), task' = Ui!NewBar(i, task),
         asks' = [asks EXCEPT !.breaks = @ + 1, !.asked = "any", !.broke = "since"]
  PROVE  UiInv'
<1>1. asks \in Asking /\ task \in [Ui!Actor -> Work] /\ \A a \in Ui!Actor : Shape(a, task[a])
  BY DEF UiInv, UiType
<1>2. asks' \in Asking /\ asks'.asked = "any" /\ asks'.broke = "since"
  <2> DEFINE S == Ui!Panel \cup {"none", "any"}
  <2> DEFINE n == asks.breaks + 1
  <2>1. /\ asks \in [asked : S, requests : Nat, breaks : Nat,
                     broke : {"no", "before", "since"}, up : {"none", "ok", "failed"}]
        /\ "any" \in S
    BY <1>1 DEF Asking
  <2>2. n \in Nat
    BY <2>1
  <2>3. asks' = [asks EXCEPT !.breaks = n, !.asked = "any", !.broke = "since"]
    OBVIOUS
  <2> HIDE DEF S, n
  <2>4. /\ asks' \in [asked : S, requests : Nat, breaks : Nat,
                      broke : {"no", "before", "since"}, up : {"none", "ok", "failed"}]
        /\ asks'.asked = "any" /\ asks'.broke = "since"
    BY <2>1, <2>2, <2>3
  <2> QED
    BY <2>4 DEF Asking, S
<1>3. task' \in [Ui!Actor -> Work] /\ \A a \in Ui!Actor : Shape(a, task'[a])
  <2>1. CASE i = 1
    <3>1. task' = [task EXCEPT !["bar"] = Ui!NoTask]
      BY <2>1 DEF Ui!NewBar
    <3>2. Ui!NoTask \in Work /\ Shape("bar", Ui!NoTask)
      BY NoTaskIs DEF Shape, Ui!Cmds
    <3> QED
      BY <1>1, <3>1, <3>2
  <2>2. CASE i # 1
    BY <1>1, <2>2 DEF Ui!NewBar
  <2> QED
    BY <2>1, <2>2
<1> QED
  BY <1>2, <1>3 DEF UiInv, UiType, AskedComes, UpMends

LEMMA BreaksStep ==
  ASSUME UiInv, NEW i \in 1..Len(panes), Ui!Dies(i) \/ Ui!Killed(i)
  PROVE  UiInv'
<1>1. UiType /\ Len(panes) \in Nat
  BY DEF UiInv, UiType, PanesOK
<1>2. CASE Ui!Dies(i)
  <2>1. /\ panes' = [panes EXCEPT ![i].at = "dead"] /\ task' = Ui!NewBar(i, task)
        /\ asks' = [asks EXCEPT !.breaks = @ + 1, !.asked = "any", !.broke = "since"]
    BY <1>2 DEF Ui!Dies, Ui!Breaks
  <2>2. PanesOK(panes')
    BY <1>1, <2>1, DeadFacts
  <2>3. i \in Nat
    BY <1>1
  <2> QED
    BY <2>1, <2>2, <2>3, BreakStep
<1>3. CASE Ui!Killed(i)
  <2>1. /\ panes' = Ui!RemoveAt(panes, i) /\ task' = Ui!NewBar(i, task)
        /\ asks' = [asks EXCEPT !.breaks = @ + 1, !.asked = "any", !.broke = "since"]
    BY <1>3 DEF Ui!Killed, Ui!Breaks
  <2>2. PanesOK(panes')
    BY <1>1, <2>1, KilledFacts
  <2> QED
    BY <1>1, <2>1, <2>2, BreakStep
<1> QED
  BY <1>2, <1>3

LEMMA NoPanes == PanesOK(<<>>)
<1>1. <<>> \in Seq(PaneOf) /\ DOMAIN <<>> = {}
  OBVIOUS
<1> QED
  BY <1>1 DEF PanesOK

LEMMA SessionKilledStep ==
  ASSUME UiInv, Ui!SessionKilled PROVE UiInv'
<1>1. panes' = <<>> /\ task' = Ui!NewBar(1, task)
      /\ asks' = [asks EXCEPT !.breaks = @ + 1, !.asked = "any", !.broke = "since"]
  BY DEF Ui!SessionKilled, Ui!Breaks
<1>2. PanesOK(panes')
  BY <1>1, NoPanes
<1> QED
  BY <1>1, <1>2, BreakStep

-----------------------------------------------------------------------------
(* The stages of `sessions up` *)

\* A step of `up` that leaves the window and the other processes as they are.
LEMMA UpGoes ==
  ASSUME UiInv, task["up"].at # "idle", NEW at \in Stage \ {"idle"},
         Ui!Goto("up", at), UNCHANGED <<panes, asks>>,
         at \in {"sidebar", "repair", "needs", "new", "split", "ensure", "bar", "verify"},
         asks.asked # "any" => at \notin {"new", "split"},
         asks.broke = "no" /\ Mends(task["up"], panes) => Mends(To("up", at), panes)
  PROVE  UiInv'
<1> DEFINE t == task["up"]
<1>1. "up" \in Ui!Actor
  BY DEF Ui!Actor
<1>2. t # Ui!NoTask /\ t \in Work /\ Shape("up", t) /\ t.op # "none"
  BY <1>1, AtWork
<1>3. t.op = "up"
  BY <1>2 DEF Shape
<1>4. /\ To("up", at) \in Work /\ To("up", at) # Ui!NoTask
      /\ To("up", at).op = "up" /\ To("up", at).at = at
      /\ To("up", at).want = t.want /\ To("up", at).fix = t.fix
      /\ Goes("up", To("up", at))
  BY <1>1, <1>2, <1>3, GotoIs DEF Goes
<1>5. Shape("up", To("up", at))
  BY <1>2, <1>3, <1>4 DEF Shape, Ui!Cmds
<1>6. asks.asked # "any" =>
         /\ Coming(To("up", at), Ui!Shown) = asks.asked
         /\ Plain("up", To("up", at))
  <2> SUFFICES ASSUME asks.asked # "any"
               PROVE  Coming(To("up", at), Ui!Shown) = asks.asked /\ Plain("up", To("up", at))
    OBVIOUS
  <2>1. Coming(t, Ui!Shown) = asks.asked /\ Plain("up", t)
    BY <1>1, <1>2, Told
  <2> QED
    BY <1>3, <1>4, <2>1 DEF Coming, Plain
<1>7. asks.broke = "no" => Mends(To("up", at), panes)
  <2>1. asks.broke = "no" => Mends(t, panes)
    BY <1>2 DEF UiInv, UpMends
  <2> QED
    BY <2>1
<1> QED
  BY <1>1, <1>2, <1>4, <1>5, <1>6, <1>7, GoesOn

\* What `up` is at, and what it may count on.
LEMMA UpAt ==
  ASSUME UiInv, task["up"].at # "idle"
  PROVE  /\ "up" \in Ui!Actor
         /\ task["up"] # Ui!NoTask /\ task["up"] \in Work /\ Shape("up", task["up"])
         /\ task["up"].op = "up"
         /\ asks.broke = "no" => Mends(task["up"], panes)
         /\ asks.asked # "any" => /\ Ui!Whole /\ Len(panes) = 2
                                  /\ Ui!Shown = asks.asked /\ Plain("up", task["up"])
<1>1. "up" \in Ui!Actor
  BY DEF Ui!Actor
<1>2. task["up"] # Ui!NoTask /\ task["up"] \in Work /\ Shape("up", task["up"])
      /\ task["up"].op # "none"
  BY <1>1, AtWork
<1>3. task["up"].op = "up"
  BY <1>2 DEF Shape
<1>4. asks.broke = "no" => Mends(task["up"], panes)
  BY <1>2 DEF UiInv, UpMends
<1>5. asks.asked # "any" => /\ Ui!Whole /\ Len(panes) = 2
                            /\ Ui!Shown = asks.asked /\ Plain("up", task["up"])
  BY <1>1, <1>2, <1>3, Told DEF Coming
<1> QED
  BY <1>1, <1>2, <1>3, <1>4, <1>5

LEMMA UpSidebarStep ==
  ASSUME UiInv, Ui!UpSidebar PROVE UiInv'
<1>1. task["up"].at = "sidebar" /\ UNCHANGED asks
  BY DEF Ui!UpSidebar
<1>2. /\ "up" \in Ui!Actor
      /\ task["up"] # Ui!NoTask /\ task["up"] \in Work /\ Shape("up", task["up"])
      /\ task["up"].op = "up"
      /\ asks.broke = "no" => Mends(task["up"], panes)
      /\ asks.asked # "any" => Ui!Whole /\ Len(panes) = 2
  BY <1>1, UpAt
<1>3. UiType /\ PanesOK(panes) /\ Len(panes) \in Nat
  BY DEF UiInv, UiType, PanesOK
<1>4. /\ "new" \in Stage \ {"idle"} /\ "ensure" \in Stage \ {"idle"}
      /\ "repair" \in Stage \ {"idle"}
  BY DEF Stage
<1>5. CASE panes = <<>> /\ Ui!Goto("up", "new") /\ UNCHANGED panes
  <2>1. asks.asked = "any"
    BY <1>2, <1>5
  <2>2. Mends(task["up"], panes) => Mends(To("up", "new"), panes)
    BY <1>2, <1>4, <1>5, GotoIs DEF Mends
  <2> QED
    BY <1>1, <1>4, <1>5, <2>1, <2>2, UpGoes
<1>6. CASE Len(panes) = 2 /\ panes[1].at = "dead" /\ Ui!Respawn(1, "bar") /\ Ui!Goto("up", "ensure")
  <2>1. Respawned(1, "bar")
    BY <1>3, <1>6, RespawnFacts
  <2>2. asks.asked = "any"
    BY <1>2, <1>6 DEF Ui!Whole
  <2> DEFINE u == To("up", "ensure")
  <2>3. u \in Work /\ u # Ui!NoTask /\ u.op = "up" /\ u.at = "ensure" /\ u.want = task["up"].want
        /\ task' = [task EXCEPT !["up"] = u]
    BY <1>2, <1>4, <1>6, GotoIs
  <2> HIDE DEF u
  <2>4. Shape("up", u)
    BY <1>2, <2>3 DEF Shape, Ui!Cmds
  <2>5. asks.broke = "no" => Mends(u, panes')
    <3> SUFFICES ASSUME asks.broke = "no" PROVE Mends(u, panes')
      OBVIOUS
    <3>1. task["up"].want = "boot" /\ ~Hopeless(panes)
      BY <1>1, <1>2 DEF Mends
    <3>2. panes[2].at # "dead"
      BY <1>6, <3>1 DEF Hopeless
    <3>3. Len(panes') = 2 /\ panes'[2] = panes[2]
      BY <1>6, <2>1 DEF Respawned, Replaced
    <3>4. WorkspaceUp(panes')
      BY <3>2, <3>3 DEF WorkspaceUp
    <3> QED
      BY <2>3, <3>1, <3>4 DEF Mends
  <2>6. PanesOK(panes')
    BY <2>1 DEF Respawned
  <2> QED
    BY <1>1, <1>2, <2>2, <2>3, <2>4, <2>5, <2>6, UntoldStep
<1>7. CASE /\ ~(Len(panes) = 2 /\ panes[1].at = "dead")
           /\ Ui!Goto("up", "repair") /\ UNCHANGED panes
  <2>1. Mends(task["up"], panes) => Mends(To("up", "repair"), panes)
    BY <1>1, <1>2, <1>4, GotoIs DEF Mends
  <2> QED
    BY <1>1, <1>4, <1>7, <2>1, UpGoes
<1> QED
  BY <1>5, <1>6, <1>7 DEF Ui!UpSidebar

LEMMA UpNeedsStep ==
  ASSUME UiInv, Ui!UpNeeds PROVE UiInv'
<1>1. task["up"].at = "needs" /\ UNCHANGED asks
  BY DEF Ui!UpNeeds
<1>2. /\ "up" \in Ui!Actor
      /\ task["up"] # Ui!NoTask /\ task["up"] \in Work /\ Shape("up", task["up"])
      /\ task["up"].op = "up"
      /\ asks.broke = "no" => Mends(task["up"], panes)
      /\ asks.asked # "any" => Ui!Whole /\ Len(panes) = 2
  BY <1>1, UpAt
<1>3. UiType /\ PanesOK(panes) /\ asks \in Asking
  BY DEF UiInv, UiType
<1>4. "new" \in Stage \ {"idle"} /\ "ensure" \in Stage \ {"idle"}
  BY DEF Stage
<1>5. CASE panes = <<>> /\ Ui!Fails("up")
  <2>1. asks.asked = "any"
    BY <1>2, <1>5
  <2> QED
    BY <1>1, <1>2, <1>5, <2>1, FailsStep
<1>6. CASE Ui!Whole /\ Ui!Goto("up", "ensure") /\ UNCHANGED panes
  <2>1. WorkspaceUp(panes)
    BY <1>6 DEF WorkspaceUp, Ui!Whole
  <2>2. Mends(task["up"], panes) => Mends(To("up", "ensure"), panes)
    BY <1>2, <1>4, <2>1, GotoIs DEF Mends
  <2> QED
    BY <1>1, <1>4, <1>6, <2>2, UpGoes
<1>7. CASE /\ ~Ui!Whole /\ panes' = <<>>
           /\ task' = [task EXCEPT !["up"].at = "new", !["bar"] = Ui!NoTask]
  <2> DEFINE u == To("up", "new")
  <2>1. u \in Work /\ u # Ui!NoTask /\ u.op = "up" /\ u.at = "new" /\ u.want = task["up"].want
    BY <1>2, <1>4, GotoIs
  <2>2. task' = [task EXCEPT !["up"] = u, !["bar"] = Ui!NoTask]
    BY <1>7 DEF To
  <2> HIDE DEF u
  <2>3. Shape("up", u)
    BY <1>2, <2>1 DEF Shape, Ui!Cmds
  <2>4. asks.broke = "no" => Mends(u, panes')
    BY <1>2, <1>7, <2>1 DEF Mends
  <2>5. asks.asked = "any"
    BY <1>2, <1>7
  <2>6. /\ task' \in [Ui!Actor -> Work] /\ task'["up"] = u
        /\ \A b \in Ui!Actor : b # "up" => task'[b] = task[b] \/ task'[b] = Ui!NoTask
    BY <1>2, <2>1, <2>2, NoTaskIs DEF UiInv, UiType
  <2>7. PanesOK(panes') /\ asks' \in Asking
    BY <1>1, <1>3, <1>7, NoPanes
  <2> QED
    BY <1>1, <1>2, <2>1, <2>3, <2>4, <2>5, <2>6, <2>7, ProcessStep
<1> QED
  BY <1>5, <1>6, <1>7 DEF Ui!UpNeeds

LEMMA UpNewStep ==
  ASSUME UiInv, Ui!UpNew PROVE UiInv'
<1>1. task["up"].at = "new" /\ UNCHANGED asks /\ Ui!Goto("up", "split")
      /\ panes' = <<Ui!Pane(Ui!FreshId, "attach")>>
  BY DEF Ui!UpNew
<1>2. /\ "up" \in Ui!Actor
      /\ task["up"] # Ui!NoTask /\ task["up"] \in Work /\ Shape("up", task["up"])
      /\ task["up"].op = "up"
      /\ asks.broke = "no" => Mends(task["up"], panes)
      /\ asks.asked # "any" => Plain("up", task["up"])
  BY <1>1, UpAt
<1>3. UiType
  BY DEF UiInv
<1>4. "split" \in Stage \ {"idle"}
  BY DEF Stage
<1>5. asks.asked = "any"
  BY <1>1, <1>2 DEF Plain
<1> DEFINE e == Ui!Pane(Ui!FreshId, "attach")
<1>6. e \in PaneOf /\ e.start = "attach" /\ e.at = "tmux"
  BY <1>3, FreshFacts, PaneIs
<1>7. panes' = <<e>>
  BY <1>1
<1> HIDE DEF e
<1>8. /\ panes' \in Seq(PaneOf) /\ Len(panes') = 1 /\ panes'[1] = e
      /\ DOMAIN panes' = {1}
  BY <1>6, <1>7
<1>9. PanesOK(panes')
  BY <1>6, <1>8 DEF PanesOK
<1>10. AliveIfTwo(panes')
  BY <1>6, <1>8 DEF AliveIfTwo
<1> DEFINE u == To("up", "split")
<1>11. u \in Work /\ u # Ui!NoTask /\ u.op = "up" /\ u.at = "split" /\ u.want = task["up"].want
       /\ task' = [task EXCEPT !["up"] = u]
  BY <1>1, <1>2, <1>4, GotoIs
<1> HIDE DEF u
<1>12. Shape("up", u)
  BY <1>2, <1>11 DEF Shape, Ui!Cmds
<1>13. asks.broke = "no" => Mends(u, panes')
  BY <1>2, <1>10, <1>11 DEF Mends
<1> QED
  BY <1>1, <1>2, <1>5, <1>9, <1>11, <1>12, <1>13, UntoldStep

LEMMA UpSplitStep ==
  ASSUME UiInv, Ui!UpSplit PROVE UiInv'
<1>1. task["up"].at = "split" /\ UNCHANGED asks
  BY DEF Ui!UpSplit
<1>2. /\ "up" \in Ui!Actor
      /\ task["up"] # Ui!NoTask /\ task["up"] \in Work /\ Shape("up", task["up"])
      /\ task["up"].op = "up"
      /\ asks.broke = "no" => Mends(task["up"], panes)
      /\ asks.asked # "any" => Plain("up", task["up"])
  BY <1>1, UpAt
<1>3. UiType /\ Len(panes) \in Nat /\ (panes # <<>> => Len(panes) >= 1)
  BY DEF UiInv, UiType, PanesOK
<1>4. "ensure" \in Stage \ {"idle"}
  BY DEF Stage
<1>5. asks.asked = "any"
  BY <1>1, <1>2 DEF Plain
<1>6. CASE panes = <<>> /\ Ui!Fails("up")
  BY <1>1, <1>2, <1>5, <1>6, FailsStep
<1>7. CASE /\ panes # <<>> /\ Ui!Goto("up", "ensure")
           /\ panes' = Ui!InsertAt(panes, Len(panes), Ui!Pane(Ui!FreshId, "bar"))
  <2>1. Len(panes) \in 1..Len(panes) + 1
    BY <1>3, <1>7
  <2>2. /\ PanesOK(panes') /\ Len(panes') = Len(panes) + 1
        /\ \A i \in 1..Len(panes) + 1 :
               i # Len(panes) => panes'[i] = IF i < Len(panes) THEN panes[i] ELSE panes[i - 1]
    BY <1>3, <1>7, <2>1, InsertFacts
  <2>3. AliveIfTwo(panes) => WorkspaceUp(panes')
    <3> SUFFICES ASSUME AliveIfTwo(panes) PROVE WorkspaceUp(panes')
      OBVIOUS
    <3>1. Len(panes) + 1 >= 2
      BY <1>3, <1>7
    <3>2. ASSUME Len(panes) = 1 PROVE panes'[2].at # "dead"
      <4>1. 2 \in 1..Len(panes) + 1 /\ 2 # Len(panes) /\ ~(2 < Len(panes)) /\ 2 - 1 = 1
        BY <3>2
      <4>2. panes'[2] = panes[1]
        BY <2>2, <4>1
      <4> QED
        BY <3>2, <4>2 DEF AliveIfTwo
    <3>3. Len(panes) + 1 = 2 => Len(panes) = 1
      <4>1. \A n \in Nat : n + 1 = 2 => n = 1
        OBVIOUS
      <4> QED
        BY <1>3, <4>1
    <3>4. Len(panes') >= 2 /\ (Len(panes') = 2 => panes'[2].at # "dead")
      BY <2>2, <3>1, <3>2, <3>3
    <3> QED
      BY <3>4 DEF WorkspaceUp
  <2> DEFINE u == To("up", "ensure")
  <2>4. u \in Work /\ u # Ui!NoTask /\ u.op = "up" /\ u.at = "ensure" /\ u.want = task["up"].want
        /\ task' = [task EXCEPT !["up"] = u]
    BY <1>2, <1>4, <1>7, GotoIs
  <2> HIDE DEF u
  <2>5. Shape("up", u)
    BY <1>2, <2>4 DEF Shape, Ui!Cmds
  <2>6. asks.broke = "no" => Mends(u, panes')
    BY <1>1, <1>2, <2>3, <2>4 DEF Mends
  <2> QED
    BY <1>1, <1>2, <1>5, <2>2, <2>4, <2>5, <2>6, UntoldStep
<1> QED
  BY <1>6, <1>7 DEF Ui!UpSplit

LEMMA UpEnsureStep ==
  ASSUME UiInv, Ui!UpEnsure PROVE UiInv'
<1>1. task["up"].at = "ensure" /\ UNCHANGED asks
  BY DEF Ui!UpEnsure
<1>2. /\ "up" \in Ui!Actor
      /\ task["up"] # Ui!NoTask /\ task["up"] \in Work /\ Shape("up", task["up"])
      /\ task["up"].op = "up"
      /\ asks.broke = "no" => Mends(task["up"], panes)
      /\ asks.asked # "any" => Len(panes) = 2
  BY <1>1, UpAt
<1>3. "bar" \in Stage \ {"idle"}
  BY DEF Stage
<1>4. asks.broke = "no" => WorkspaceUp(panes)
  BY <1>1, <1>2 DEF Mends
<1>5. CASE panes = <<>> /\ Ui!Fails("up")
  <2>1. asks.asked = "any"
    BY <1>2, <1>5
  <2> QED
    BY <1>1, <1>2, <1>5, <2>1, FailsStep
<1>6. CASE /\ Len(panes) = 1 /\ UNCHANGED panes
           /\ task' = [task EXCEPT !["up"].at = "repair", !["up"].want = "none"]
  <2> DEFINE u == [task["up"] EXCEPT !.at = "repair", !.want = "none"]
  <2>1. task' = [task EXCEPT !["up"] = u]
    BY <1>6
  <2>2. u \in Work /\ u.op = "up" /\ u.at = "repair" /\ u.want = "none"
    BY <1>2 DEF Work, Stage
  <2> HIDE DEF u
  <2>3. Shape("up", u)
    BY <2>2 DEF Shape, Ui!Cmds
  <2>4. asks.broke # "no" /\ asks.asked = "any"
    BY <1>2, <1>4, <1>6 DEF WorkspaceUp
  <2>5. PanesOK(panes')
    BY <1>6 DEF UiInv, UiType
  <2> QED
    BY <1>1, <1>2, <2>1, <2>2, <2>3, <2>4, <2>5, UntoldStep
<1>7. CASE Len(panes) >= 2 /\ Ui!Goto("up", "bar") /\ UNCHANGED panes
  <2>1. Mends(task["up"], panes) => Mends(To("up", "bar"), panes)
    BY <1>1, <1>2, <1>3, GotoIs DEF Mends
  <2> QED
    BY <1>1, <1>3, <1>7, <2>1, UpGoes
<1> QED
  BY <1>5, <1>6, <1>7 DEF Ui!UpEnsure

LEMMA UpBarStep ==
  ASSUME UiInv, Ui!UpBar PROVE UiInv'
<1>1. task["up"].at = "bar" /\ UNCHANGED asks
  BY DEF Ui!UpBar
<1>2. /\ "up" \in Ui!Actor
      /\ task["up"] # Ui!NoTask /\ task["up"] \in Work /\ Shape("up", task["up"])
      /\ task["up"].op = "up"
      /\ asks.broke = "no" => Mends(task["up"], panes)
      /\ asks.asked # "any" => /\ Ui!Whole /\ Len(panes) = 2
                               /\ Ui!Shown = asks.asked /\ Plain("up", task["up"])
  BY <1>1, UpAt
<1>3. UiType /\ Len(panes) \in Nat /\ (panes # <<>> => Len(panes) >= 1)
  BY DEF UiInv, UiType, PanesOK
<1>4. CASE panes = <<>> /\ Ui!Fails("up")
  <2>1. asks.asked = "any"
    BY <1>2, <1>4
  <2> QED
    BY <1>1, <1>2, <1>4, <2>1, FailsStep
<1>5. CASE /\ panes # <<>> /\ Ui!Respawn(1, "bar")
           /\ task' = [task EXCEPT !["up"].at = "verify", !["up"].fix = Ui!NoTask.fix,
                                   !["bar"] = Ui!NoTask]
  <2> DEFINE u == [task["up"] EXCEPT !.at = "verify", !.fix = Ui!NoTask.fix]
  <2>1. task' = [task EXCEPT !["up"] = u, !["bar"] = Ui!NoTask]
    BY <1>5
  <2>2. u \in Work /\ u.op = "up" /\ u.at = "verify" /\ u.want = task["up"].want
    BY <1>2, NoTaskIs DEF Work, Stage
  <2> HIDE DEF u
  <2>3. Shape("up", u) /\ u # Ui!NoTask
    BY <1>2, <2>2, NoTaskIs DEF Shape, Ui!Cmds
  <2>4. /\ task' \in [Ui!Actor -> Work] /\ task'["up"] = u
        /\ \A b \in Ui!Actor : b # "up" => task'[b] = task[b] \/ task'[b] = Ui!NoTask
    BY <1>2, <2>1, <2>2, NoTaskIs DEF UiInv, UiType
  <2>5. 1 \in 1..Len(panes)
    BY <1>3, <1>5
  <2>6. Respawned(1, "bar")
    BY <1>3, <1>5, <2>5, RespawnFacts
  <2>7. /\ PanesOK(panes') /\ Len(panes') = Len(panes) /\ panes'[1].at # "dead"
        /\ Len(panes) >= 2 => panes'[2] = panes[2]
    <3>1. Len(panes) >= 2 => 2 \in 1..Len(panes)
      BY <1>3
    <3> QED
      BY <2>6, <3>1 DEF Respawned, Replaced
  <2>8. asks.broke = "no" => Mends(u, panes')
    <3> SUFFICES ASSUME asks.broke = "no" PROVE Mends(u, panes')
      OBVIOUS
    <3>1. WorkspaceUp(panes) /\ task["up"].want = "boot"
      BY <1>1, <1>2 DEF Mends
    <3>2. ASSUME Len(panes') <= 2 PROVE Len(panes') = 2 /\ panes'[2].at # "dead"
      <4>1. Len(panes) = 2
        BY <1>3, <2>7, <3>1, <3>2 DEF WorkspaceUp
      <4> QED
        BY <2>7, <3>1, <4>1 DEF WorkspaceUp
    <3>3. AliveIfTwo(panes')
      BY <2>7, <3>2 DEF AliveIfTwo
    <3> QED
      BY <2>2, <3>1, <3>3 DEF Mends
  <2>9. ASSUME asks.asked # "any"
        PROVE  Ui!Whole' /\ Coming(u, Ui!Shown') = asks.asked /\ Plain("up", u)
    <3>1. /\ Len(panes) = 2 /\ panes[2].at # "dead" /\ Ui!Shown = asks.asked
          /\ task["up"].want = "boot"
      BY <1>2, <2>9 DEF Ui!Whole, Plain
    <3>2. Len(panes') = 2 /\ panes'[2] = panes[2]
      BY <2>7, <3>1
    <3>3. Ui!Whole'
      BY <2>7, <3>1, <3>2 DEF Ui!Whole
    <3>4. Ui!Shown' = Ui!Shown
      BY <3>1, <3>2 DEF Ui!Shown
    <3> QED
      BY <2>2, <3>1, <3>3, <3>4 DEF Coming, Plain
  <2>10. asks' \in Asking
    BY <1>1, <1>3 DEF UiType
  <2> QED
    BY <1>1, <1>2, <2>2, <2>3, <2>4, <2>7, <2>8, <2>9, <2>10, ProcessStep
<1> QED
  BY <1>4, <1>5 DEF Ui!UpBar

LEMMA UpVerifyStep ==
  ASSUME UiInv, Ui!UpVerify PROVE UiInv'
<1> DEFINE v == IF Ui!Verified THEN "ok" ELSE "failed"
<1>1. /\ task["up"].at = "verify" /\ UNCHANGED panes /\ Ui!Stop("up")
      /\ asks' = [asks EXCEPT !.up = v]
  BY DEF Ui!UpVerify
<1>2. /\ "up" \in Ui!Actor /\ task["up"] # Ui!NoTask
      /\ asks.asked # "any" => Ui!Shown = asks.asked
  BY <1>1, UpAt
<1>3. v \in {"none", "ok", "failed"} /\ asks \in Asking
  BY DEF UiInv, UiType
<1> HIDE DEF v
<1>4. asks' \in Asking /\ asks'.asked = asks.asked /\ asks'.broke = asks.broke
  BY <1>1, <1>3 DEF Asking
<1> QED
  BY <1>1, <1>2, <1>4, Ends

-----------------------------------------------------------------------------
(* Every step of the window *)

LEMMA UiInit ==
  Ui!PanelInit => UiInv
<1> SUFFICES ASSUME Ui!PanelInit PROVE UiInv
  OBVIOUS
<1> DEFINE e == Ui!Pane(1, "bar")
<1> DEFINE g == Ui!Pane(2, "attach")
<1>1. /\ e \in PaneOf /\ e.id = 1 /\ e.start = "bar" /\ e.at = "run"
      /\ g \in PaneOf /\ g.id = 2 /\ g.start = "attach" /\ g.at = "tmux"
  BY PaneIs
<1>2. panes = <<e, g>>
  BY DEF Ui!PanelInit
<1> HIDE DEF e, g
<1>3. /\ panes \in Seq(PaneOf) /\ Len(panes) = 2 /\ panes[1] = e /\ panes[2] = g
      /\ DOMAIN panes = {1, 2}
  BY <1>1, <1>2
<1>4. PanesOK(panes)
  BY <1>1, <1>3 DEF PanesOK
<1>5. task \in [Ui!Actor -> Work] /\ \A a \in Ui!Actor : task[a] = Ui!NoTask
  BY NoTaskIs DEF Ui!PanelInit
<1>6. \A a \in Ui!Actor : Shape(a, task[a])
  BY <1>5, NoTaskIs DEF Shape, Ui!Cmds, Ui!Actor
<1>7. asks \in Asking /\ asks.asked = "none"
  BY DEF Ui!PanelInit, Asking
<1>8. Ui!Whole /\ Ui!Shown = "none"
  BY <1>1, <1>3 DEF Ui!Whole, Ui!Shown, Ui!Panel
<1>9. "up" \in Ui!Actor
  BY DEF Ui!Actor
<1> QED
  BY <1>4, <1>5, <1>6, <1>7, <1>8, <1>9 DEF UiInv, UiType, AskedComes, UpMends

\* The invariant is inductive: one step per action.
LEMMA UiStep ==
  ASSUME UiInv, Ui!PanelNext PROVE UiInv'
<1>1. ASSUME NEW p \in Ui!Panel, Ui!KeyPress(p) \/ Ui!Click(p) \/ Ui!Escape(p) PROVE UiInv'
  BY <1>1, KeyPressStep, ClickStep, EscapeStep
<1>2. ASSUME Ui!ToggleNew \/ Ui!Dismiss \/ Ui!Close PROVE UiInv'
  BY <1>2, ToggleNewStep, DismissStep, CloseStep
<1>3. ASSUME NEW a \in Ui!Actor, Ui!Restore(a) \/ Ui!Attach(a) \/ Ui!Repair(a) \/ Ui!Fix(a)
      PROVE  UiInv'
  BY <1>3, RestoreStep, AttachStep, RepairStep, FixStep
<1>4. ASSUME NEW c \in Ui!Cmds, Ui!Own(c) \/ Ui!Others(c) \/ Ui!Spawn(c) PROVE UiInv'
  BY <1>4, OwnStep, OthersStep, SpawnStep
<1>5. ASSUME Ui!CloseProbe \/ Ui!Launch PROVE UiInv'
  BY <1>5, CloseProbeStep, LaunchStep
<1>6. ASSUME Ui!Sync \/ Ui!GraceEnds \/ Ui!Autosave PROVE UiInv'
  <2>1. UNCHANGED <<panes, task, asks>>
    BY <1>6 DEF Ui!Sync, Ui!GraceEnds, Ui!Autosave
  <2> QED
    BY <2>1, UiStays
<1>7. ASSUME Ui!Up \/ Ui!UpSidebar \/ Ui!UpNeeds \/ Ui!UpNew \/ Ui!UpSplit PROVE UiInv'
  BY <1>7, UpStep, UpSidebarStep, UpNeedsStep, UpNewStep, UpSplitStep
<1>8. ASSUME Ui!UpEnsure \/ Ui!UpBar \/ Ui!UpVerify PROVE UiInv'
  BY <1>8, UpEnsureStep, UpBarStep, UpVerifyStep
<1>9. ASSUME NEW i \in 1..Len(panes), Ui!Dies(i) \/ Ui!Killed(i) PROVE UiInv'
  BY <1>9, BreaksStep
<1>10. ASSUME Ui!SessionKilled PROVE UiInv'
  BY <1>10, SessionKilledStep
<1> QED
  BY <1>1, <1>2, <1>3, <1>4, <1>5, <1>6, <1>7, <1>8, <1>9, <1>10 DEF Ui!PanelNext

LEMMA UiInvariant == PartsSpec => []UiInv
<1>1. PartsInit => UiInv
  BY UiInit DEF PartsInit
<1>2. ASSUME UiInv, [PartsNext]_partsVars PROVE UiInv'
  <2>1. CASE Ui!PanelNext
    BY <1>2, <2>1, UiStep
  <2>2. CASE UNCHANGED uiVars
    BY <1>2, <2>2, UiStays DEF uiVars
  <2> QED
    BY <1>2, <2>1, <2>2 DEF PartsNext, partsVars
<1> QED
  BY <1>1, <1>2, PTL DEF PartsSpec

\* What it is for: a request that meets a window at rest is shown when the
\* processes are done, whatever was opened, closed and repaired before
\* (popups.rs open_workspace_*, workspace_pane_is_panel_mode).
THEOREM PanelShownAsAsked == PartsSpec => []PanelAsAsked
<1>1. ASSUME UiInv PROVE PanelAsAsked
  BY <1>1 DEF UiInv, AskedComes, PanelAsAsked, Ui!PanelAsAsked
<1> QED
  BY <1>1, UiInvariant, PTL

\* Only the end of `up` says that it went well.
LEMMA UpEnds ==
  ASSUME UiInv, Ui!PanelNext, asks.up = "none", asks'.up = "ok" PROVE Ui!UpVerify
<1>1. asks \in Asking
  BY DEF UiInv, UiType
<1>2. ASSUME NEW result, NEW told, Ui!Asks(result, told) PROVE FALSE
  <2>1. asks'.up = asks.up
    BY <1>1, <1>2 DEF Ui!Asks, Asking
  <2> QED
    BY <2>1
<1>3. ASSUME UNCHANGED asks PROVE FALSE
  BY <1>3
<1>4. ASSUME Ui!Leaves PROVE FALSE
  <2>1. asks'.up = asks.up
    BY <1>1, <1>4 DEF Ui!Leaves, Asking
  <2> QED
    BY <2>1
<1>5. ASSUME NEW i, NEW to, Ui!Breaks(i, to) PROVE FALSE
  <2>1. asks'.up = asks.up
    BY <1>1, <1>5 DEF Ui!Breaks, Asking
  <2> QED
    BY <2>1
<1>6. ASSUME NEW p \in Ui!Panel, Ui!KeyPress(p) \/ Ui!Click(p) \/ Ui!Escape(p) PROVE FALSE
  BY <1>2, <1>4, <1>6 DEF Ui!KeyPress, Ui!Click, Ui!Escape
<1>7. ASSUME Ui!ToggleNew \/ Ui!Dismiss \/ Ui!Close PROVE FALSE
  BY <1>2, <1>7 DEF Ui!ToggleNew, Ui!Dismiss, Ui!Close
<1>8. ASSUME NEW a \in Ui!Actor, Ui!Restore(a) \/ Ui!Attach(a) \/ Ui!Repair(a) \/ Ui!Fix(a)
      PROVE  FALSE
  BY <1>3, <1>8 DEF Ui!Restore, Ui!Attach, Ui!Repair, Ui!Fix
<1>9. ASSUME NEW c \in Ui!Cmds, Ui!Own(c) \/ Ui!Others(c) \/ Ui!Spawn(c) PROVE FALSE
  BY <1>3, <1>9 DEF Ui!Own, Ui!Others, Ui!Spawn
<1>10. ASSUME Ui!CloseProbe \/ Ui!Sync \/ Ui!GraceEnds \/ Ui!Autosave \/ Ui!Launch PROVE FALSE
  BY <1>3, <1>4, <1>10 DEF Ui!CloseProbe, Ui!Sync, Ui!GraceEnds, Ui!Autosave, Ui!Launch
<1>11. ASSUME Ui!Up PROVE FALSE
  <2>1. asks'.up = "none"
    BY <1>1, <1>11 DEF Ui!Up, Asking
  <2> QED
    BY <2>1
<1>12. ASSUME \/ Ui!UpSidebar \/ Ui!UpNeeds \/ Ui!UpNew
              \/ Ui!UpSplit \/ Ui!UpEnsure \/ Ui!UpBar
       PROVE  FALSE
  BY <1>3, <1>12 DEF Ui!UpSidebar, Ui!UpNeeds, Ui!UpNew, Ui!UpSplit, Ui!UpEnsure, Ui!UpBar
<1>13. ASSUME NEW i \in 1..Len(panes), Ui!Dies(i) \/ Ui!Killed(i) PROVE FALSE
  BY <1>5, <1>13 DEF Ui!Dies, Ui!Killed
<1>14. ASSUME Ui!SessionKilled PROVE FALSE
  BY <1>5, <1>14 DEF Ui!SessionKilled
<1> QED
  BY <1>6, <1>7, <1>8, <1>9, <1>10, <1>11, <1>12, <1>13, <1>14 DEF Ui!PanelNext

\* `sessions up` says that it went well only over a live sidebar and a live
\* second pane, whatever other commands repaired meanwhile and whatever was
\* missing or dead when it started, unless both panes were there and dead
\* (ui_runtime.rs verify_ui_runtime).
THEOREM UpLeavesLiveWindow == PartsSpec => UpLeavesUi
<1> DEFINE Says == asks.up = "none" /\ asks'.up = "ok" /\ asks.broke = "no" => Ui!Whole /\ Ui!BarUp
<1>1. ASSUME UiInv, [PartsNext]_partsVars PROVE [Says]_Ui!panelVars
  <2> SUFFICES ASSUME asks.up = "none", asks'.up = "ok", asks.broke = "no"
               PROVE  Ui!Whole /\ Ui!BarUp
    OBVIOUS
  <2>1. Ui!PanelNext
    <3>1. asks' # asks
      OBVIOUS
    <3> QED
      BY <1>1, <3>1 DEF PartsNext, partsVars, uiVars
  <2>2. Ui!UpVerify
    BY <1>1, <2>1, UpEnds
  <2>3. asks \in Asking /\ PanesOK(panes)
    BY <1>1 DEF UiInv, UiType
  <2>4. task["up"].at = "verify" /\ Ui!Verified
    <3>1. asks' = [asks EXCEPT !.up = IF Ui!Verified THEN "ok" ELSE "failed"]
      BY <2>2 DEF Ui!UpVerify
    <3>2. asks'.up = IF Ui!Verified THEN "ok" ELSE "failed"
      BY <2>3, <3>1 DEF Asking
    <3> QED
      BY <2>2, <3>2 DEF Ui!UpVerify
  <2>5. Mends(task["up"], panes)
    BY <1>1, <2>4, UpAt
  <2>6. AliveIfTwo(panes) /\ Len(panes) = 2 /\ panes[1].start = "bar"
    BY <2>4, <2>5 DEF Mends, Ui!Verified
  <2>7. \A i \in 1..2 : panes[i].at # "dead"
    BY <2>6 DEF AliveIfTwo
  <2>8. panes[1].at = "run"
    <3>1. DOMAIN panes = 1..2 /\ panes \in Seq(PaneOf)
      BY <2>3, <2>6 DEF PanesOK
    <3>2. panes[1] \in PaneOf /\ panes[1].at # "tmux"
      <4>1. \A i \in 1..2 : panes[i].start = "bar" => panes[i].at # "tmux"
        BY <2>3, <3>1 DEF PanesOK
      <4>2. 1 \in 1..2
        OBVIOUS
      <4>3. panes[1].at # "tmux"
        BY <2>6, <4>1, <4>2
      <4> QED
        BY <2>6, <3>1, <4>3
    <3>3. panes[1].at # "dead"
      BY <2>7
    <3> QED
      BY <3>2, <3>3 DEF PaneOf
  <2>9. panes # <<>>
    BY <2>6
  <2> QED
    BY <2>6, <2>7, <2>8, <2>9 DEF Ui!Whole, Ui!BarUp
<1> QED
  BY <1>1, UiInvariant, PTL DEF PartsSpec, UpLeavesUi, Ui!UpLeavesUi
================================================================================
