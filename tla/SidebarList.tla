----------------------------- MODULE SidebarList -----------------------------
(***************************************************************************)
(* The session list of one sidebar (bar/app/session_list, group_order.rs,  *)
(* ui/sessions): the rows it paints, the highlight, the optimistic focus,  *)
(* the directory drag and the target of close mode.                        *)
(*                                                                         *)
(* Daemon events, keys and mouse events are handled one at a time, each    *)
(* against rows and a row INDEX computed by an earlier one.  A row index   *)
(* counts from 1 here.  A session and its directory are numbers: the label *)
(* order and the order of tab indices are theirs.  The id of a session     *)
(* stands for its row id, its tab index and its sessions_session_id; an    *)
(* optimistic row (a `ghost`) has no pane and no sessions_session_id yet.  *)
(* The notes below the list have row indices too, after those of the list; *)
(* which notes there are does not change here (they are Notepad's).        *)
(***************************************************************************)
EXTENDS Naturals, Sequences, FiniteSets, SequencesExt

CONSTANTS
    NumSessions, \* sessions 1..NumSessions
    NumDirs,     \* directories 1..NumDirs
    MaxAt,       \* bound: ranks of messaged_at (0: None)
    Cap,         \* MAX_THREADS_PER_GROUP (6 in the code)
    NumTitles,   \* titles of the notes below the list, all folded
    MaxEvents,   \* bound: daemon events after the first snapshot
    MaxInputs    \* bound: keys and mouse events

Id   == 1..NumSessions
Dir  == 1..NumDirs
None == 0

Session == [id : Id, dir : Dir, at : 0..MaxAt, ghost : BOOLEAN]
RowKind == [kind : {"blank", "group", "session", "more"}, of : Nat]

VARIABLE bar   \* App
vars == <<bar>>

Sessions(b) == ToSet(b.sessions)
Ids(S)      == {s.id : s \in S}
Dirs(S)     == {s.dir : s \in S}
Lookup(b, i) == CHOOSE s \in Sessions(b) : s.id = i

-----------------------------------------------------------------------------
(* Order: sessions within a directory, directories among each other. *)

\* Session::cmp_within_group: newest message first, then the newest tab.
Newer(s, t) == s.at > t.at \/ (s.at = t.at /\ s.id > t.id)

Group(S, d) == SetToSortSeq({s \in S : s.dir = d}, Newer)

\* sorted_sessions: what the daemon sends.
DaemonOrder(S) ==
    LET newest(d) == CHOOSE k \in 0..MaxAt :
            /\ \E s \in S : s.dir = d /\ s.at = k
            /\ \A s \in S : s.dir = d => s.at <= k
        before(s, t) ==
            IF s.dir = t.dir THEN Newer(s, t)
            ELSE \/ newest(s.dir) > newest(t.dir)
                 \/ newest(s.dir) = newest(t.dir) /\ s.dir < t.dir
    IN  SetToSortSeq(S, before)

Place(d, order) == CHOOSE k \in DOMAIN order : order[k] = d

\* order_labels: saved directories in the saved order, then the others.
OrderLabels(D, order) ==
    LET saved == ToSet(order)
        before(d, e) ==
            CASE d \in saved /\ e \in saved -> Place(d, order) < Place(e, order)
              [] d \in saved /\ e \notin saved -> TRUE
              [] d \notin saved /\ e \in saved -> FALSE
              [] OTHER -> d < e
    IN  SetToSortSeq(D, before)

EnsureLabels(order, D) == order \o SetToSortSeq(D \ ToSet(order), <)

\* labels_by_recent_activity, which seeds an order that has become empty.
ByActivity(S) ==
    LET newest(d) == {s.at : s \in {t \in S : t.dir = d}}
        before(d, e) ==
            \/ \E k \in newest(d) : \A l \in newest(e) : k > l
            \/ d < e /\ \A l \in newest(e) : \E k \in newest(d) : k >= l
    IN  SetToSortSeq(Dirs(S), before)

\* reconcile_and_save
ReconcileOrder(order, S) ==
    LET kept == SelectSeq(order, LAMBDA d : d \in Dirs(S))
    IN  CASE S = {} -> order
          [] S # {} /\ kept = <<>> -> ByActivity(S)
          [] OTHER -> EnsureLabels(kept, Dirs(S))

\* reorder: `from` goes behind `to` when it comes from above, else before it.
Reorder(order, from, to) ==
    LET rest == SelectSeq(order, LAMBDA d : d # from)
        at   == Place(to, rest)
    IN  IF from = to \/ ~({from, to} \subseteq ToSet(order)) THEN order
        ELSE InsertAt(rest, IF Place(from, order) < Place(to, order) THEN at + 1 ELSE at, from)

LiveOrder(b) == EnsureLabels(b.order, Dirs(Sessions(b)))

\* effective_group_order: the order a drag under way previews.
EffectiveOrder(b) ==
    IF b.drag.source = None THEN LiveOrder(b)
    ELSE Reorder(LiveOrder(b), b.drag.source, b.drag.hover)

-----------------------------------------------------------------------------
(* Rows. *)

Row(k, x) == [kind |-> k, of |-> x]

\* visible_sessions_in_group
Visible(group, expanded) ==
    IF expanded \/ Len(group) <= Cap THEN group ELSE SubSeq(group, 1, Cap)

SessionRowsOf(shown) == [j \in DOMAIN shown |-> Row("session", shown[j].id)]

GroupRows(group, d, expanded) ==
    SessionRowsOf(Visible(group, expanded))
    \o IF Len(group) > Cap THEN <<Row("more", d)>> ELSE <<>>

\* The directories' sections, a blank row between them.
Sections(S, dirs, expanded, folded) ==
    LET Section(k, d) ==
            (IF k > 1 THEN <<Row("blank", 0)>> ELSE <<>>)
            \o <<Row("group", d)>>
            \o IF d \in folded THEN <<>> ELSE GroupRows(Group(S, d), d, d \in expanded)
    IN  FlattenSeq([k \in DOMAIN dirs |-> Section(k, dirs[k])])

BuildRows(S, expanded, folded, order) ==
    IF S = {} THEN <<Row("blank", 0)>>
    ELSE Sections(S, OrderLabels(Dirs(S), order), expanded, folded)

IsSession(b, i) == i \in DOMAIN b.rows /\ b.rows[i].kind = "session"
SessionAt(b, i) == IF IsSession(b, i) THEN b.rows[i].of ELSE None
ToggleAt(b, i) ==
    IF i \in DOMAIN b.rows /\ b.rows[i].kind = "more" THEN b.rows[i].of ELSE None
Selectable(b) == {i \in DOMAIN b.rows : b.rows[i].kind \in {"session", "more"}}
RowsOf(b, k, x) == {i \in DOMAIN b.rows : b.rows[i] = Row(k, x)}
Least(I) == CHOOSE i \in I : \A j \in I : i <= j
SessionRows(b) == {i \in DOMAIN b.rows : IsSession(b, i)}

\* The row of a note's title, behind the list, a blank row and a header.
NoteRow(b, n) == Len(b.rows) + 2 + n
NoteRows(b) == {NoteRow(b, n) : n \in 1..NumTitles}
ActiveNoteRow(b) == IF b.note = None THEN None ELSE NoteRow(b, b.note)

\* sessions_session_id of the row at i: an optimistic row has none.
SsnAt(b, i) ==
    IF IsSession(b, i) /\ ~Lookup(b, SessionAt(b, i)).ghost THEN SessionAt(b, i) ELSE None

-----------------------------------------------------------------------------
(* The highlight. *)

\* set_selected, and restore_selected_row, which leaves ssn alone when the
\* index does not change.
SetSelected(b, i) == [b EXCEPT !.selected = i, !.ssn = SsnAt(b, i)]
RestoreSelected(b, i) == IF b.selected = i THEN b ELSE SetSelected(b, i)
StaysThere(b) == b

ToFirst(b) ==
    IF b.selected \in Selectable(b) \/ Selectable(b) = {} THEN b
    ELSE SetSelected(b, Least(Selectable(b)))

\* ensure_session_id_visible: expand a directory whose clip hides the session.
EnsureVisible(b, i) ==
    IF i \notin Ids(Sessions(b)) THEN b
    ELSE LET d == Lookup(b, i).dir
             shown == Visible(Group(Sessions(b), d), FALSE)
         IN  IF d \in b.folded \/ \E j \in DOMAIN shown : shown[j].id = i THEN b
             ELSE [b EXCEPT !.expanded = @ \cup {d}]

TargetStays(b) == b

\* reconcile_close_hover(None)
ReconcileClose(b) ==
    IF ~b.held \/ IsSession(b, b.target) \/ b.target \in NoteRows(b) THEN b
    ELSE [b EXCEPT !.target =
            IF IsSession(b, b.selected) THEN b.selected
            ELSE IF SessionRows(b) # {} THEN Least(SessionRows(b)) ELSE ActiveNoteRow(b)]

\* The session a rebuild keeps highlighted: the one a drag preserves; the
\* stored id when the row under the index is another session's; the row's.
KeptSession(b) ==
    LET live == SessionAt(b, b.selected)
        stored == IF b.ssn \in Ids({s \in Sessions(b) : ~s.ghost}) THEN b.ssn ELSE None
    IN  IF b.drag.session # None THEN b.drag.session
        ELSE IF stored # None THEN stored ELSE live

KeptToggle(b) == IF b.drag.toggle # None THEN b.drag.toggle ELSE ToggleAt(b, b.selected)

\* The list of rows anew, with the directories of `kept` and of the active
\* session expanded when they would be clipped.
Relaid(b) == [b EXCEPT !.rows =
                 BuildRows(Sessions(b), b.expanded, b.folded, EffectiveOrder(b))]
Widened(b, kept) == EnsureVisible(EnsureVisible(b, kept), b.active)

\* The highlight of the new rows: on the session it was on, else (in a drag)
\* on the toggle it was on; outside a drag, on what can be selected.
Placed(b, kept, keptRows, toggleRows) ==
    CASE keptRows # {} -> RestoreSelected(b, Least(keptRows))
      [] keptRows = {} /\ toggleRows # {} /\ (b.drag.source # None \/ kept = None) ->
            RestoreSelected(b, Least(toggleRows))
      [] OTHER -> IF b.drag.source # None THEN b ELSE ToFirst(b)

RowsKept(b, k, x) == IF x = None THEN {} ELSE RowsOf(b, k, x)
Highlighted(b, kept, toggle) ==
    Placed(b, kept, RowsKept(b, "session", kept), RowsKept(b, "more", toggle))

\* rebuild_rows; the rows it starts from are those of the earlier sessions.
Rebuild(b) ==
    ReconcileClose(Highlighted(Relaid(Widened(b, KeptSession(b))), KeptSession(b), KeptToggle(b)))

FollowAlways(b) == TRUE

\* selection_tracks_active; sync_selection_to_active(true)
Tracks(b) == SessionAt(b, b.selected) \in {None, b.active}
FollowActive(b) ==
    IF b.pending = None /\ b.active # None /\ RowsOf(b, "session", b.active) # {}
    THEN SetSelected(b, Least(RowsOf(b, "session", b.active)))
    ELSE b

FocusUnlisted(b, i) == [b EXCEPT !.active = i]

\* apply_exclusive_focus
Exclusive(b, i) == [b EXCEPT !.active = IF i \in Ids(Sessions(b)) THEN i ELSE None]

NoDrag == [label |-> None, source |-> None, hover |-> None, dragged |-> FALSE,
           session |-> None, toggle |-> None]

\* disengage_close_mode
Disengage(b) == [b EXCEPT !.held = FALSE, !.target = None]

\* `inputs` and `events` count what has been handled; a behaviour that creates
\* sessions has one input less, for it has more of everything else.
Limit(scene) == IF scene = "create" THEN MaxInputs - 1 ELSE MaxInputs
Does(scene, b) ==
    bar.scene = scene /\ bar.inputs < Limit(scene) /\ bar' = [b EXCEPT !.inputs = @ + 1]
Daemon(b) == bar.events <= MaxEvents /\ bar' = [b EXCEPT !.events = @ + 1]

\* A bound: the gestures of one behaviour are of one scene.
Scenes == {"focus", "create", "drag", "close"}

\* run() rebuilds the empty list before the first snapshot: the persisted
\* highlight, expansion and order have been read.
Init ==
    \E saved \in {None, 1}, scene \in Scenes, note \in 0..NumTitles :
        /\ note = None \/ scene = "close"
        /\ bar = [sessions |-> <<>>, active |-> None, rows |-> <<Row("blank", 0)>>,
                  selected |-> 1, ssn |-> saved, expanded |-> {}, folded |-> {},
                  order |-> IF saved = None THEN <<>> ELSE [d \in Dir |-> NumDirs + 1 - d],
                  pending |-> None, drag |-> NoDrag, note |-> note,
                  held |-> FALSE, target |-> None, scene |-> scene, inputs |-> 0, events |-> 0]

-----------------------------------------------------------------------------
(* Daemon events. *)

\* merge_incoming_snapshot: a row keeps its messaged_at when the daemon has
\* none, and a row without a pane stays when the daemon does not list it.
Merge(b, S) ==
    LET at(s) == IF s.at = 0 /\ s.id \in Ids(Sessions(b)) THEN Lookup(b, s.id).at ELSE s.at
        sent  == DaemonOrder(S)
    IN  [k \in DOMAIN sent |-> [sent[k] EXCEPT !.at = at(sent[k])]]
        \o SelectSeq(b.sessions, LAMBDA s : s.ghost /\ s.id \notin Ids(S))

PendingTaken(b, act) == [b EXCEPT !.pending = None]

\* reconcile_pending_focus
PendingFocus(b, act) ==
    IF b.pending = None THEN b
    ELSE [Exclusive(b, b.pending) EXCEPT !.pending = IF act = @ THEN None ELSE @]

\* apply_event(Snapshot): the pending focus, the saved order, the rows, and
\* the highlight when it was on the session that has lost the focus.
SameIds(q, r) == [k \in DOMAIN q |-> q[k].id] = [k \in DOMAIN r |-> r[k].id]

Taken(b, merged, act) ==
    PendingFocus([b EXCEPT !.sessions = merged, !.active = act,
                           !.order = ReconcileOrder(@, ToSet(merged))], act)

Rebuilt(b, new) ==
    IF ~SameIds(b.sessions, new.sessions) \/ new.order # b.order \/ b.sessions = <<>>
    THEN Rebuild(new) ELSE new

FocusMoved(b, new, acked) ==
    LET seen == IF acked THEN Rebuild(new) ELSE new
    IN  IF Tracks(b) THEN FollowActive(seen) ELSE seen

Settled(b, new, acked) ==
    IF new.active = b.active THEN Rebuilt(b, new) ELSE FocusMoved(b, Rebuilt(b, new), acked)

ApplySnapshot(b, S, act, acked) == Settled(b, Taken(b, Merge(b, S), act), acked)

\* What the daemon lists next: some sessions at first, then at most one session
\* comes, goes or changes (a bound); an optimistic row may have become real.
Listings(b) ==
    IF b.sessions = <<>> THEN
        {{[id |-> i, dir |-> f[i], at |-> 0, ghost |-> FALSE] : i \in I} :
            I \in {{}, Id \ {2}, Id},
            f \in {g \in [Id -> Dir] : g[1] = 1 /\ \A i, j \in Id : i <= j => g[i] <= g[j]}}
    ELSE LET real == {s \in Sessions(b) : ~s.ghost}
             born == {[s EXCEPT !.ghost = FALSE] : s \in Sessions(b) \ real}
             S    == real \cup born
         IN  {real, S} \cup {S \ {s} : s \in S}
             \cup {S \cup {[id |-> i, dir |-> d, at |-> k, ghost |-> FALSE]} :
                      i \in Id \ Ids(S), d \in Dir, k \in 0..MaxAt}
             \cup {(S \ {s}) \cup {[s EXCEPT !.at = k]} : s \in S, k \in 0..MaxAt}
             \cup {(S \ {s}) \cup {[s EXCEPT !.dir = d]} : s \in S, d \in Dir}

\* A completion is acknowledged by the focus alone (a bound).
Acks(S, act) == IF act # bar.active /\ S = Sessions(bar) THEN BOOLEAN ELSE {FALSE}

Snapshot ==
    \E S \in Listings(bar) :
        \E act \in IF S = {} THEN {None} ELSE Ids(S) : \E acked \in Acks(S, act) :
            Daemon(ApplySnapshot(bar, S, act, acked))

\* apply_event(Patch): a new messaged_at or cwd_label rebuilds the rows.
Patch ==
    \E s \in Sessions(bar), k \in 1..MaxAt, d \in Dir :
        /\ s.at = k \/ s.dir = d
        /\ LET k0 == CHOOSE j \in DOMAIN bar.sessions : bar.sessions[j] = s
               new == [bar EXCEPT !.sessions[k0] = [s EXCEPT !.at = k, !.dir = d]]
               led == IF bar.pending = None THEN new ELSE Exclusive(new, bar.pending)
           IN  Daemon(IF s.at # k \/ s.dir # d THEN Rebuild(led) ELSE led)

\* apply_event(Disconnected)
Disconnected == bar.sessions = <<>> /\ Daemon(Rebuild(bar))

\* push_optimistic_new_session
PushNew(b, i, d, claim) ==
    LET new    == [id |-> i, dir |-> d, at |-> MaxAt, ghost |-> TRUE]
        pushed == [b EXCEPT !.sessions = Append(@, new)]
        led    == IF claim THEN Exclusive([pushed EXCEPT !.pending = i], i) ELSE pushed
        built  == Rebuild(led)
    IN  IF claim /\ RowsOf(built, "session", i) # {}
        THEN SetSelected(built, Least(RowsOf(built, "session", i)))
        ELSE built

\* sync_external_active_window: the active tmux window is not in the list.
ExternalWindow ==
    /\ bar.scene = "create"
    /\ \E i \in Id \ Ids(Sessions(bar)), d \in Dir : Daemon(PushNew(bar, i, d, FALSE))

-----------------------------------------------------------------------------
(* Keys and clicks. *)

\* focus_row.  How it ends is the world's: the session is the active one and
\* its window is live (its completion acknowledged or not), or the window is
\* selected, or tmux refuses.
FocusRow(b, i, how) ==
    LET s    == SessionAt(b, i)
        sel  == SetSelected(b, i)
    IN  CASE how = "active" -> [b EXCEPT !.pending = None]
          [] how = "acked" -> Rebuild([b EXCEPT !.pending = None])
          [] how = "selected" -> Rebuild(Exclusive([sel EXCEPT !.pending = s], s))
          [] how = "refused" -> [sel EXCEPT !.pending = None]

Outcomes(b, i) ==
    {"selected", "refused"} \cup
        IF SessionAt(b, i) = b.active /\ SsnAt(b, i) # None THEN {"active", "acked"} ELSE {}

\* toggle_group_expanded
ToggleExpanded(b, d) ==
    Rebuild([b EXCEPT !.expanded = IF d \in @ THEN @ \ {d} ELSE @ \cup {d}])

\* activate_selected
Activate(b) ==
    IF ToggleAt(b, b.selected) # None THEN Does("focus", ToggleExpanded(b, ToggleAt(b, b.selected)))
    ELSE IF ~IsSession(b, b.selected) THEN Does("focus", b)
    ELSE \E how \in Outcomes(b, b.selected) : Does("focus", FocusRow(b, b.selected, how))

\* move_selection
Move ==
    \E down \in BOOLEAN :
        LET b    == Disengage(bar)
            rows == SetToSortSeq(Selectable(b), <)
            pos  == IF b.selected \in Selectable(b)
                    THEN CHOOSE k \in DOMAIN rows : rows[k] = b.selected ELSE 1
            to   == IF down THEN IF pos = Len(rows) THEN pos ELSE pos + 1
                    ELSE IF pos = 1 THEN 1 ELSE pos - 1
        IN  Does(bar.scene, IF rows = <<>> THEN b ELSE SetSelected(b, rows[to]))

\* Enter outside close mode; a click, a digit jump or a tab focus on a row.
Enter    == ~bar.held /\ Activate(bar)
ClickRow == \E i \in Selectable(bar) : Activate(Disengage(SetSelected(bar, i)))

\* create_session, create_agent_in_group, create_agent_session
CreateSession ==
    \E i \in Id \ Ids(Sessions(bar)), d \in Dir : Does("create", PushNew(bar, i, d, TRUE))

\* create_console_in_group: the daemon's fresh snapshot shows the new window,
\* unless it does not answer; or tmux makes none.
CreateInGroup ==
    \/ bar.sessions # <<>> /\ Does("create", [bar EXCEPT !.pending = None])
    \/ \E i \in Id \ Ids(Sessions(bar)) :
           bar.sessions # <<>> /\ Does("create", [bar EXCEPT !.pending = i])
    \/ \E d \in Dirs(Sessions(bar)), i \in Id \ Ids(Sessions(bar)), focused \in BOOLEAN :
           LET real == {s \in Sessions(bar) : ~s.ghost}
               S    == real \cup {[id |-> i, dir |-> d, at |-> 0, ghost |-> FALSE]}
               act  == IF focused \/ bar.active \notin Ids(real) THEN i ELSE bar.active
               b    == ApplySnapshot([bar EXCEPT !.pending = i], S, act, FALSE)
           IN  Does("create", IF RowsOf(b, "session", i) = {} THEN b
                    ELSE SetSelected(b, Least(RowsOf(b, "session", i))))

-----------------------------------------------------------------------------
(* Folding and dragging a directory. *)

ToggleFolded(b, d) ==
    Rebuild([b EXCEPT !.folded = IF d \in @ THEN @ \ {d} ELSE @ \cup {d}])

PressGroup ==
    \E d \in Dirs(Sessions(bar)) :
        /\ bar.drag.source = None
        /\ RowsOf(bar, "group", d) # {}
        /\ Does("drag", [bar EXCEPT !.drag = [NoDrag EXCEPT
                    !.label = d,
                    !.session = SessionAt(bar, bar.selected),
                    !.toggle = ToggleAt(bar, bar.selected)]])

\* finish_group_drag_pending_click
ReleaseClick ==
    /\ bar.drag.label # None
    /\ Does("drag", ToggleFolded([bar EXCEPT !.drag = NoDrag], bar.drag.label))

\* update_group_drag_hover
HoverGroup(b, d) ==
    LET over == [b EXCEPT !.drag.hover = d, !.drag.dragged = @ \/ d # b.drag.source]
    IN  IF b.drag.hover = d THEN over ELSE Rebuild(over)

\* engage_group_drag, once the pointer is over another directory.
Engage ==
    /\ bar.drag.label # None
    /\ \E d \in Dirs(Sessions(bar)) \ {bar.drag.label} :
          LET b == [bar EXCEPT !.order = LiveOrder(bar), !.drag.label = None,
                               !.drag.source = bar.drag.label, !.drag.hover = bar.drag.label]
          IN  Does("drag", HoverGroup(Rebuild(b), d))

Drag ==
    /\ bar.drag.source # None
    /\ \E d \in Dirs(Sessions(bar)) : Does("drag", HoverGroup(bar, d))

\* restore_preserved_selection
Preserved(b) ==
    LET rows == IF b.drag.session # None THEN RowsOf(b, "session", b.drag.session)
                ELSE IF b.drag.toggle # None THEN RowsOf(b, "more", b.drag.toggle) ELSE {}
    IN  IF rows = {} THEN b ELSE SetSelected(b, Least(rows))

\* finish_active_group_drag
Drop ==
    /\ bar.drag.source # None
    /\ LET from == bar.drag.source
           to   == bar.drag.hover
           idle == [bar EXCEPT !.drag.source = None, !.drag.hover = None]
           moved == IF to # from
                    THEN Rebuild([idle EXCEPT !.order = Reorder(LiveOrder(bar), from, to)])
                    ELSE IF ~bar.drag.dragged THEN ToggleFolded(idle, from) ELSE Rebuild(idle)
       IN  Does("drag", [(IF bar.drag.dragged THEN Preserved(moved) ELSE moved) EXCEPT !.drag = NoDrag])

-----------------------------------------------------------------------------
(* Close mode. *)

\* engage_close_mode_from_hold, seed_close_hover: the session or the note under
\* the pointer, else the highlight, else the active session, else the first, else
\* the active note.
HoldD ==
    /\ ~bar.held
    /\ \E over \in SessionRows(bar) \cup NoteRows(bar) \cup {None} :
          LET act == RowsOf(bar, "session", bar.active)
          IN  Does("close", [bar EXCEPT !.held = TRUE, !.target =
                  IF over # None THEN over
                  ELSE IF IsSession(bar, bar.selected) THEN bar.selected
                  ELSE IF bar.active # None /\ act # {} THEN Least(act)
                  ELSE IF SessionRows(bar) # {} THEN Least(SessionRows(bar))
                  ELSE IF bar.note # None THEN ActiveNoteRow(bar) ELSE @])

ReleaseD == bar.held /\ Does("close", Disengage(bar))

\* update_close_target_hover
AimClose ==
    bar.held /\ \E i \in SessionRows(bar) \cup NoteRows(bar) : Does("close", [bar EXCEPT !.target = i])

\* close_session_by_id: the answer is taken as it is, optimistic rows and the
\* pending focus are not merged into it.
Remaining(b, gone) == {s \in Sessions(b) : ~s.ghost /\ s.id \notin gone}
ApplyClosed(b, gone, act) ==
    Rebuild(Disengage([b EXCEPT !.sessions = DaemonOrder(Remaining(b, gone)), !.active = act]))
Actives(b, gone) == Ids(Remaining(b, gone)) \cup {None}

\* Enter on a note's title only asks whether to delete the note.
CloseEnter ==
    /\ bar.held
    /\ IF bar.target \in NoteRows(bar) THEN Does("close", Disengage(bar)) ELSE
       LET i == IF IsSession(bar, bar.target) THEN bar.target ELSE bar.selected
       IN  /\ IsSession(bar, i)
           /\ \E act \in Actives(bar, {SessionAt(bar, i)}) :
                  Does("close", ApplyClosed(bar, {SessionAt(bar, i)}, act))

\* close_group stops at the first session the daemon does not close.
CloseGroup ==
    \E d \in Dirs(Sessions(bar)) :
        LET ids == SelectSeq(bar.sessions, LAMBDA s : s.dir = d)
            closed(n) == {ids[k].id : k \in 1..n}
        IN  \/ Does("close", Rebuild(Disengage(bar)))
            \/ \E n \in DOMAIN ids : \E act \in Actives(bar, closed(n)) :
                   Does("close", ApplyClosed(bar, closed(n), act))

Next ==
    \/ Snapshot \/ Patch \/ Disconnected \/ ExternalWindow
    \/ Move \/ Enter \/ ClickRow \/ CreateSession \/ CreateInGroup
    \/ PressGroup \/ ReleaseClick \/ Engage \/ Drag \/ Drop
    \/ HoldD \/ ReleaseD \/ AimClose \/ CloseEnter \/ CloseGroup

Spec == Init /\ [][Next]_vars

-----------------------------------------------------------------------------
(* Properties. *)

TypeOK ==
    /\ Sessions(bar) \subseteq Session
    /\ bar.active \in Ids(Sessions(bar)) \cup {None}
    /\ ToSet(bar.rows) \subseteq RowKind
    /\ bar.selected \in Nat \ {0}
    /\ bar.ssn \in Id \cup {None} /\ bar.pending \in Id \cup {None}
    /\ bar.expanded \subseteq Dir /\ bar.folded \subseteq Dir
    /\ ToSet(bar.order) \subseteq Dir /\ IsInjective(bar.order)
    /\ bar.drag.source = None <=> bar.drag.hover = None
    /\ bar.held \in BOOLEAN /\ bar.note \in 0..NumTitles

Event == bar'.events > bar.events

\* rebuild_rows keeps the highlight by session, not by index: no daemon event
\* moves it off the session a user is browsing, as long as that session is
\* still in the list and its directory is not folded.
Browsing == /\ SessionAt(bar, bar.selected) \notin {None, bar.active}
            /\ bar.ssn \in {None, SessionAt(bar, bar.selected)}
            /\ bar.drag = NoDrag
HighlightStays ==
    [][Event /\ Browsing =>
        LET s == SessionAt(bar, bar.selected)
        IN  \/ s \notin Ids(Sessions(bar'))
            \/ Lookup(bar', s).dir \in bar'.folded
            \/ SessionAt(bar', bar'.selected) = s]_vars

\* reconcile_pending_focus: an event that still carries the old active window
\* does not take the focus back from the session the user has just opened.
FocusHolds ==
    [][Event /\ bar.pending # None /\ bar.active = bar.pending
             /\ bar.pending \in Ids(Sessions(bar'))
        => bar'.active = bar.pending]_vars

\* No event of the daemon takes back what the user has just chosen, the
\* highlight or the session that was opened.
ChoiceHolds == HighlightStays /\ FocusHolds

\* The two indices that keys act on stay on rows they can act on, whatever is
\* closed, folded or reordered around them: outside a drag the highlight is on
\* a session or a toggle whenever there is one, and in close mode Enter is
\* aimed at a session or a note's title whenever there is one to fall back to.
IndicesHitRows ==
    /\ bar.drag.source = None /\ Selectable(bar) # {} => bar.selected \in Selectable(bar)
    /\ bar.held /\ (SessionRows(bar) # {} \/ bar.note # None) =>
          IsSession(bar, bar.target) \/ bar.target \in NoteRows(bar)

-----------------------------------------------------------------------------
(* What does not hold; each has a configuration that shows it. *)

\* Both the active session and the highlighted one are kept out of the clip:
\* a snapshot that only moves the focus rebuilds nothing.
ActiveShown ==
    bar.active # None /\ Lookup(bar, bar.active).dir \notin bar.folded
        => RowsOf(bar, "session", bar.active) # {}

\* A row stands under the header of its session's directory: a snapshot that
\* changes a cwd_label but not the order of the ids rebuilds nothing.
RowsInPlace ==
    bar.drag.source = None =>
        bar.rows = BuildRows(Sessions(bar), bar.expanded, bar.folded, LiveOrder(bar))

\* Close mode closes what it was aimed at: the target is an index, and a row of
\* the list that moves makes it that of another session, or of a note.
CloseTargetStays ==
    [][Event /\ bar.held /\ SessionAt(bar, bar.target) \in Ids(Sessions(bar'))
        => SessionAt(bar', bar'.target) \in {None, SessionAt(bar, bar.target)}]_vars
CloseTargetIsNoNote ==
    [][Event /\ IsSession(bar, bar.target) => bar'.target \notin NoteRows(bar')]_vars

\* The persisted highlight is restored when the first sessions arrive.
SavedHighlight ==
    [][Event /\ bar.sessions = <<>> /\ bar.ssn # None /\ bar.ssn \in Ids(Sessions(bar'))
        => SessionAt(bar', bar'.selected) = bar.ssn]_vars

\* resolve_focus_target: `sessions focus N` is the N-th row of the sidebar.
Ordinals(b) == SelectSeq([i \in DOMAIN b.rows |-> SessionAt(b, i)], LAMBDA i : i # None)
FocusTargets(b) ==
    LET S == {s \in Sessions(b) : ~s.ghost}
        rows == BuildRows(S, {}, b.folded, EnsureLabels(b.order, Dirs(S)))
    IN  SelectSeq([i \in DOMAIN rows |-> IF rows[i].kind = "session" THEN rows[i].of ELSE None],
                  LAMBDA i : i # None)
SameOrdinal ==
    bar.drag.source = None /\ \A s \in Sessions(bar) : ~s.ghost
        => Ordinals(bar) = FocusTargets(bar)
=============================================================================
