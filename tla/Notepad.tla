-------------------------------- MODULE Notepad --------------------------------
(***************************************************************************)
(* The notes of a sidebar: bar/app/notepad_section.rs, which keeps them    *)
(* and edits them, and bar/notepad.rs, which keeps a file for each note    *)
(* and one of preferences.                                                 *)
(*                                                                         *)
(* A handler of the sidebar runs to its end, but writes several files, and *)
(* the sidebar can be killed between two of them (sessions respawns its    *)
(* pane) or a write can fail: todo is what the running handler has still   *)
(* to write.  A note's text and title are the number of its last change;   *)
(* cursor, scrolling and the limit of 2000 characters are left out.        *)
(***************************************************************************)
EXTENDS Naturals, Sequences, FiniteSets

CONSTANTS MaxNotes, MaxEdits, MaxKills, MaxFaults  \* bounds

VARIABLES
    mem,   \* what App keeps
    disk,  \* the files
    todo,  \* what the handler in progress has still to write
    past   \* counts for the bounds, and what the properties need to know

padVars == <<mem, disk, todo, past>>

NoteId == 1..MaxNotes
NoNote == 0

Elements(s) == {s[i] : i \in DOMAIN s}
At(s, n) == CHOOSE i \in DOMAIN s : s[i] = n
Without(s, n) == [i \in 1..Len(s) - 1 |-> IF i < At(s, n) THEN s[i] ELSE s[i + 1]]

PadTypeOK ==
    /\ Elements(mem.notes) \subseteq NoteId /\ Len(mem.notes) = Cardinality(Elements(mem.notes))
    /\ mem.open \subseteq NoteId
    /\ {mem.active, mem.sel, mem.confirm, mem.from, mem.to} \subseteq NoteId \cup {NoNote}
    /\ {mem.wide, mem.focus, mem.due} \subseteq BOOLEAN
    /\ (mem.confirm # NoNote => mem.confirm \in Elements(mem.notes))
    /\ \A n \in NoteId : disk.file[n] \in 0..MaxEdits + 1 /\ mem.body[n] \in 0..MaxEdits + 1

-----------------------------------------------------------------------------
(* bar/notepad.rs *)

\* Mutant: only the notes the preferences name are loaded.
LoadedByPrefs ==
    {SelectSeq(disk.order, LAMBDA n : disk.file[n] # 0)}

\* The notes load_from_dir finds: those the preferences name, in their order,
\* then the other files in any order; none without preferences.
Loaded ==
    LET files  == {n \in NoteId : disk.file[n] # 0}
        listed == files \cap Elements(disk.order)
        InOrder(s) == \A i, j \in DOMAIN s : i < j =>
                          /\ s[i] # s[j]
                          /\ s[j] \in listed =>
                                s[i] \in listed /\ At(disk.order, s[i]) < At(disk.order, s[j])
        Lists == UNION {[1..k -> files] : k \in 0..MaxNotes}
    IN  IF disk.prefs
        THEN {s \in Lists : Elements(s) = files /\ InOrder(s)}
        ELSE {<<>>}

\* Mutant: the preferences are written before the notes.
SavePrefsFirst(notes) ==
    <<[op |-> "backup", id |-> NoNote], [op |-> "prefs", id |-> NoNote]>>
        \o [i \in DOMAIN notes |-> [op |-> "body", id |-> notes[i]]]

\* save: the backup of the preferences, the notes, the preferences.
Save(notes) ==
    <<[op |-> "backup", id |-> NoNote]>>
        \o [i \in DOMAIN notes |-> [op |-> "body", id |-> notes[i]]]
        \o <<[op |-> "prefs", id |-> NoNote]>>

Written(step) ==
    CASE step.op \in {"body", "autosave"} ->
            [disk EXCEPT !.file[step.id] = mem.body[step.id],
                         !.open = (@ \ {step.id}) \cup (mem.open \cap {step.id})]
      [] step.op = "prefs" ->
            [disk EXCEPT !.prefs = TRUE, !.order = mem.notes, !.active = mem.active,
                         !.wide = mem.wide]
      [] step.op = "remove" ->
            [disk EXCEPT !.file[step.id] = 0, !.open = @ \ {step.id}]
      [] step.op = "backup" -> disk

-----------------------------------------------------------------------------
(* bar/app/notepad_section.rs *)

\* Mutant: a keystroke only sets the deadline.
AutosaveLater(n) == <<>>

\* schedule_notepad_text_save: the note's file at once, the rest by the deadline.
Autosave(n) == <<[op |-> "autosave", id |-> n]>>

\* reorder: from goes to the place of to, and those between make room.
Reordered(notes, from, to) ==
    LET f == At(notes, from)
        t == At(notes, to)
    IN  [i \in DOMAIN notes |->
            IF i = t THEN from
            ELSE IF f <= i /\ i < t THEN notes[i + 1]
            ELSE IF t < i /\ i <= f THEN notes[i - 1] ELSE notes[i]]

\* display_notes: while a note is dragged over another, the order it would have.
Shown ==
    IF mem.from # NoNote /\ mem.to # mem.from
    THEN Reordered(mem.notes, mem.from, mem.to)
    ELSE mem.notes

\* active_note_index, and the note the editing functions take at that index.
HasActive == mem.active \in Elements(mem.notes)
Target == mem.notes[At(Shown, mem.active)]

\* A handler may start: the sidebar has nothing left to write.
Ready == todo = <<>>

\* A click is not taken while a deletion is being confirmed.
Clickable == Ready /\ mem.confirm = NoNote /\ mem.from = NoNote

\* persist_notepad_now, at the end of a handler that leaves m.
Persist(m) ==
    /\ mem' = [m EXCEPT !.due = FALSE]
    /\ todo' = Save(m.notes)

Unfocused(m) == [m EXCEPT !.focus = FALSE, !.sel = NoNote]

EnsureActive(m) ==
    IF m.active \in Elements(m.notes) THEN m
    ELSE [m EXCEPT !.active = IF m.notes = <<>> THEN NoNote ELSE m.notes[1]]

\* add_note.
AddNote ==
    /\ Clickable /\ past.made < MaxNotes
    /\ LET n == past.made + 1 IN
       /\ Persist([mem EXCEPT !.notes = Append(@, n), !.body[n] = 1, !.open = {n}, !.active = n,
                              !.wide = TRUE, !.focus = TRUE, !.sel = NoNote])
       /\ past' = [past EXCEPT !.made = n]
    /\ UNCHANGED disk

\* insert_notepad_char, notepad_enter, notepad_backspace and, with a selection,
\* notepad_delete_selection before it; keys go to the notes while they have
\* the focus, also during a drag.
Edit ==
    /\ Ready /\ mem.confirm = NoNote
    /\ mem.focus /\ HasActive /\ past.edits < MaxEdits
    /\ mem' = [mem EXCEPT !.body[Target] = past.edits + 2, !.sel = NoNote, !.due = TRUE]
    /\ todo' = Autosave(Target)
    /\ past' = [past EXCEPT !.edits = @ + 1]
    /\ UNCHANGED disk

\* apply_resolved_paste: opens and focuses the notes if need be, which saves
\* them, and inserts.  Nothing keeps it from running during a confirmation.
\* That the notes are saved before the insertion is left out.
Paste ==
    /\ Ready /\ past.edits < MaxEdits
    /\ LET m == IF mem.wide THEN mem ELSE EnsureActive(mem)
           opened == [m EXCEPT
               !.wide = TRUE, !.focus = TRUE,
               !.open = IF ~mem.wide /\ m.active # NoNote THEN {m.active} ELSE @]
       IN  IF ~HasActive /\ m.active \notin Elements(m.notes)
           THEN Persist(opened) /\ UNCHANGED past
           ELSE LET n == IF HasActive THEN Target ELSE m.active IN
                /\ mem' = [opened EXCEPT !.body[n] = past.edits + 2, !.sel = NoNote, !.due = TRUE]
                /\ todo' = Save(m.notes) \o Autosave(n)
                /\ past' = [past EXCEPT !.edits = @ + 1]
    /\ UNCHANGED disk

\* select_notepad_all, a double or triple click, a drag in the text.
Select ==
    /\ Clickable /\ mem.focus /\ HasActive
    /\ mem' = [mem EXCEPT !.sel = mem.active]
    /\ UNCHANGED <<disk, todo, past>>

\* activate_note and handle_notepad_body_click in an open note: the cursor is
\* set, or a link is followed and the selection stays.
BodyClick ==
    /\ Clickable /\ mem.wide
    /\ \E n \in mem.open, keep \in {NoNote, mem.sel} :
          Persist([mem EXCEPT !.active = n, !.focus = TRUE, !.sel = keep])
    /\ UNCHANGED <<disk, past>>

\* toggle_note_expanded, by a click on its title.
TitleClick ==
    /\ Clickable /\ mem.wide
    /\ \E n \in Elements(mem.notes) :
          Persist(IF n \in mem.open
                  THEN Unfocused([mem EXCEPT !.open = @ \ {n}, !.active = n])
                  ELSE [mem EXCEPT !.open = {n}, !.active = n, !.focus = TRUE])
    /\ UNCHANGED <<disk, past>>

\* engage_note_drag, update_note_drag_hover.
Drag ==
    /\ Ready /\ mem.confirm = NoNote /\ mem.wide
    /\ \E n \in Elements(mem.notes), to \in Elements(mem.notes) :
          /\ mem.from = n \/ (mem.from = NoNote /\ to # n)
          /\ to # mem.to
          /\ mem' = [mem EXCEPT !.from = n, !.to = to]
    /\ UNCHANGED <<disk, todo, past>>

\* finish_note_drag.
Drop ==
    /\ Ready /\ mem.from # NoNote
    /\ LET m == [mem EXCEPT !.notes = Shown, !.from = NoNote, !.to = NoNote] IN
       IF mem.to # mem.from THEN Persist(m) ELSE mem' = m /\ UNCHANGED todo
    /\ UNCHANGED <<disk, past>>

\* toggle_notepad_expanded.
ToggleSection ==
    /\ Clickable
    /\ LET m == EnsureActive(mem) IN
       Persist(IF mem.wide THEN [Unfocused(mem) EXCEPT !.wide = FALSE]
               ELSE [m EXCEPT !.wide = TRUE, !.focus = TRUE,
                              !.open = IF m.active # NoNote THEN {m.active} ELSE @])
    /\ UNCHANGED <<disk, past>>

\* unfocus_notepad.
Unfocus ==
    /\ Ready /\ (mem.focus \/ mem.sel # NoNote)
    /\ IF mem.due THEN Persist(Unfocused(mem)) ELSE mem' = Unfocused(mem) /\ UNCHANGED todo
    /\ UNCHANGED <<disk, past>>

\* commit_rename_with_advance for a note; the rename took the focus.
Rename ==
    /\ Clickable /\ ~mem.focus /\ past.edits < MaxEdits
    /\ \E n \in Elements(mem.notes) : Persist([mem EXCEPT !.body[n] = past.edits + 2])
    /\ past' = [past EXCEPT !.edits = @ + 1]
    /\ UNCHANGED disk

\* request_delete_note_confirm_at_row, which unfocuses.
AskDelete ==
    /\ Clickable /\ mem.wide
    /\ \E n \in Elements(mem.notes) :
          LET m == [Unfocused(mem) EXCEPT !.confirm = n] IN
          IF mem.due /\ (mem.focus \/ mem.sel # NoNote)
          THEN Persist(m) ELSE mem' = m /\ UNCHANGED todo
    /\ UNCHANGED <<disk, past>>

CancelDelete ==
    /\ Ready /\ mem.confirm # NoNote
    /\ mem' = [mem EXCEPT !.confirm = NoNote]
    /\ UNCHANGED <<disk, todo, past>>

\* delete_note_by_id: the file goes before the preferences are saved.
CommitDelete ==
    /\ Ready /\ mem.confirm # NoNote
    /\ LET n    == mem.confirm
           less == EnsureActive([mem EXCEPT !.notes = Without(@, n), !.body[n] = 0,
                                            !.open = @ \ {n}, !.confirm = NoNote])
           m    == IF mem.active # n THEN less
                   ELSE [less EXCEPT !.sel = NoNote, !.focus = @ /\ less.active # NoNote,
                                     !.open = {less.active} \ {NoNote}]
       IN  /\ mem' = [m EXCEPT !.due = FALSE]
           /\ todo' = <<[op |-> "remove", id |-> n]>> \o Save(m.notes)
           /\ past' = [past EXCEPT !.gone = @ \cup {n}]
    /\ UNCHANGED disk

\* flush_notepad_save_if_due; toggle_sessions_expanded and
\* toggle_notes_list_expanded save at any time.
SaveAll == Ready /\ Persist(mem) /\ UNCHANGED <<disk, past>>

-----------------------------------------------------------------------------
(* The file system and the process *)

WriteNext ==
    /\ ~Ready
    /\ disk' = Written(Head(todo))
    /\ todo' = Tail(todo)
    /\ past' = [past EXCEPT !.failed = @ /\ Head(todo).op # "prefs"]
    /\ UNCHANGED mem

\* A write fails: save gives up, and its caller goes on; after a paste that is
\* with the note's own file.
WriteFails ==
    /\ ~Ready /\ past.faults < MaxFaults
    /\ LET last == todo[Len(todo)] IN
       todo' = IF Head(todo).op = "remove" THEN Tail(todo)
               ELSE IF Len(todo) > 1 /\ last.op = "autosave" THEN <<last>> ELSE <<>>
    /\ past' = [past EXCEPT !.faults = @ + 1,
                            !.failed = @ \/ Head(todo).op # "remove",
                            !.stray = IF Head(todo).op = "remove" THEN @ \cup {Head(todo).id} ELSE @]
    /\ UNCHANGED <<mem, disk>>

\* The sidebar is killed, and a new one loads the files.
Restart ==
    /\ past.kills < MaxKills
    /\ \E notes \in Loaded :
          mem' = [notes |-> notes,
                  body |-> [n \in NoteId |-> IF n \in Elements(notes) THEN disk.file[n] ELSE 0],
                  open |-> disk.open \cap Elements(notes),
                  active |-> disk.active, sel |-> NoNote, wide |-> disk.wide, focus |-> FALSE,
                  due |-> FALSE, confirm |-> NoNote, from |-> NoNote, to |-> NoNote]
    /\ todo' = <<>>
    /\ past' = [past EXCEPT !.kills = @ + 1, !.failed = FALSE,
                            !.stray = IF disk.prefs THEN {} ELSE {n \in NoteId : disk.file[n] # 0}]
    /\ UNCHANGED disk

PadInit ==
    /\ mem = [notes |-> <<>>, body |-> [n \in NoteId |-> 0], open |-> {}, active |-> NoNote,
              sel |-> NoNote, wide |-> FALSE, focus |-> FALSE, due |-> FALSE,
              confirm |-> NoNote, from |-> NoNote, to |-> NoNote]
    /\ disk = [file |-> [n \in NoteId |-> 0], open |-> {}, prefs |-> FALSE,
               order |-> <<>>, active |-> NoNote, wide |-> FALSE]
    /\ todo = <<>>
    /\ past = [made |-> 0, edits |-> 0, kills |-> 0, faults |-> 0,
               failed |-> FALSE, stray |-> {}, gone |-> {}]

PadNext ==
    \/ AddNote \/ Edit \/ Paste \/ Select \/ BodyClick \/ TitleClick \/ Drag \/ Drop
    \/ ToggleSection \/ Unfocus \/ Rename \/ AskDelete \/ CancelDelete \/ CommitDelete
    \/ SaveAll \/ WriteNext \/ WriteFails \/ Restart

PadSpec == PadInit /\ [][PadNext]_padVars

-----------------------------------------------------------------------------
(* Properties *)

\* save, load, delete_note_file: the preferences never name a note that has not
\* been written.  When nothing is left to write and nothing has failed, the
\* files are the notes, each with its last change and whether it is open: no
\* note and no keystroke is lost to a kill, and no deleted note is back.
\* Excepted are files that could not be removed, and those of a first note
\* whose sidebar was killed before there were preferences.
NotesOnDisk ==
    /\ \A n \in Elements(disk.order) : disk.file[n] # 0 \/ n \in past.gone
    /\ Ready /\ ~past.failed =>
          /\ \A n \in Elements(mem.notes) : disk.file[n] = mem.body[n]
          /\ {n \in NoteId : disk.file[n] # 0} \ past.stray = Elements(mem.notes) \ past.stray
          /\ disk.open \ past.stray = mem.open \ past.stray

-----------------------------------------------------------------------------
(* What does not hold; Notepad_gaps.cfg. *)

\* toggle_note_expanded, and a click on a link, keep the selection of another
\* note: the next key deletes its range from the note that is active now.
SelectionOfActive == mem.sel # NoNote => mem.sel = mem.active

\* active_note_index counts in the order shown during a drag, and the editing
\* functions take the note at that index of the order before it.
KeysReachActive ==
    [][Edit => mem'.body[mem.active] # mem.body[mem.active]]_padVars

\* A sidebar killed between the removal of a file and the preferences starts
\* with an active note that is not there, and drops what is typed.
ActiveExists == Ready /\ mem.notes # <<>> => HasActive

\* load gives up without preferences: the first note is there, and not shown.
FirstNoteShown == Ready /\ past.faults = 0 => past.stray = {}

\* persist_notepad_now drops the deadline whether it could save or not.
FailureIsRetried == Ready /\ past.failed => mem.due

\* A paste is inserted into the notes while a deletion is being confirmed.
ConfirmIsModal == [][mem.confirm # NoNote /\ mem'.confirm # NoNote => mem'.body = mem.body]_padVars
================================================================================
