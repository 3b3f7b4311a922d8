---------------------------- MODULE StateFileProof ----------------------------
(***************************************************************************)
(* StateFile keeps its types, and until a daemon is told to stop           *)
(* sessionsd.json is whole at every step and never holds older rows than   *)
(* before, for every number of changes, failures and deaths.               *)
(*                                                                         *)
(* Both come from one writer at a time: while no SIGTERM has come only the *)
(* loop has a temporary file, it is the one at the temporary name, and it  *)
(* is never the one at the path.                                           *)
(***************************************************************************)
EXTENDS StateFile, TLAPS

\* A task has a file open exactly while it writes.
Opened == \A t \in Task : IF pc[t] = "write" THEN open[t] \in Inode ELSE open[t] = NoFile

\* A daemon that is gone does nothing.
AtRest == ~up => \A t \in Task : pc[t] = "idle"

\* Whatever is written anywhere was a change once.
Known ==
    /\ rows <= changes
    /\ \A t \in Task : copy[t] <= changes
    /\ \A i \in Inode : data[i] # Empty => data[i] <= changes

Writing == {"create", "write", "rename"}

\* Until SIGTERM only the loop writes; what it renames is the whole copy, which
\* is no older than the file and no newer than the rows.
OneWriter ==
    asked = NoSignal =>
        /\ pc["shutdown"] = "idle"
        /\ Whole
        /\ up => Saved <= rows
        /\ pc["loop"] = "write" => open["loop"] = tmp
        /\ pc["loop"] = "rename" => tmp # NoFile /\ data[tmp] = copy["loop"]
        /\ pc["loop"] \in Writing => Saved <= copy["loop"] /\ copy["loop"] <= rows

IInv == TypeOK /\ Opened /\ AtRest /\ Known /\ OneWriter

-----------------------------------------------------------------------------

(* Types *)

\* What is written is never the mark of an empty file.
LEMMA EmptyIsNotWritten == Empty \notin Written /\ Written \subseteq Nat /\ 0 \in Written
  BY StateFileAssumption DEF Empty, Written

\* What load_state returns is a change or 0.
LEMMA SavedType == TypeOK => Saved \in Written
  BY EmptyIsNotWritten DEF TypeOK, Saved, Whole, NoFile

\* A task that is about to make a temporary file finds one.
LEMMA UnusedExists ==
  ASSUME IInv, NEW t \in Task, pc[t] = "create"
  PROVE  Unused # {}
<1>1. open[t] = NoFile
  BY DEF IInv, Opened
<1>2. PICK u \in Task : Task = {t, u}
  BY DEF Task
<1>3. PICK i \in Inode : i \notin {path, tmp, open[u]}
  BY DEF Inode
<1>4. i \notin {path, tmp} \cup {open[v] : v \in Task}
  BY <1>1, <1>2, <1>3 DEF NoFile, Inode
<1> QED BY <1>4 DEF Unused

\* The temporary file a task opens is a file and not the one at the path.
LEMMA TemporaryFile ==
  ASSUME IInv, NEW t \in Task, pc[t] = "create"
  PROVE  LET file == IF tmp = NoFile THEN CHOOSE i \in Unused : TRUE ELSE tmp
         IN  file \in Inode /\ file # path
<1>1. CASE tmp = NoFile
  <2>1. (CHOOSE i \in Unused : TRUE) \in Unused
    BY UnusedExists
  <2> QED BY <1>1, <2>1 DEF Unused
<1>2. CASE tmp # NoFile
  BY <1>2 DEF IInv, TypeOK, Inode, NoFile
<1> QED BY <1>1, <1>2

\* A step keeps the types.
LEMMA TypeStep == IInv /\ [Next]_vars => TypeOK'
<1> SUFFICES ASSUME IInv, [Next]_vars PROVE TypeOK'
  OBVIOUS
<1> USE EmptyIsNotWritten
<1>1. CASE Change
  BY <1>1, StateFileAssumption
     DEF Change, IInv, TypeOK, Written, tasks, disk, bounds
<1>2. CASE LoopWake
  BY <1>2 DEF LoopWake, Goto, IInv, TypeOK, memory, disk, bounds
<1>3. CASE LoopDebounced
  <2>1. (CASE ~dirty -> "idle" [] rows = stable -> "check" [] OTHER -> "debounce")
           \in {"idle", "check", "debounce"}
    OBVIOUS
  <2> QED BY <1>3, <2>1 DEF LoopDebounced, Goto, IInv, TypeOK, memory, disk, bounds
<1>4. CASE LoopAgain
  BY <1>4 DEF LoopAgain, At, Goto, IInv, TypeOK, memory, disk, bounds
<1>5. CASE Stop
  BY <1>5 DEF Stop, Goto, IInv, TypeOK, memory, disk, bounds
<1>6. ASSUME NEW t \in Task, CheckDirty(t) PROVE TypeOK'
  BY <1>6 DEF CheckDirty, At, Goto, IInv, TypeOK, memory, disk, bounds
<1>7. ASSUME NEW t \in Task, ReadRows(t) PROVE TypeOK'
  BY <1>7 DEF ReadRows, At, Goto, IInv, TypeOK, memory, disk, bounds
<1>8. ASSUME NEW t \in Task, CreateTmp(t) PROVE TypeOK'
  <2> DEFINE file == IF tmp = NoFile THEN CHOOSE i \in Unused : TRUE ELSE tmp
  <2>1. file \in Inode /\ file # path
    BY <1>8, TemporaryFile DEF CreateTmp, At
  <2>2. /\ tmp' = file
        /\ data' = [data EXCEPT ![file] = Empty]
        /\ open' = [open EXCEPT ![t] = file]
        /\ pc' = [pc EXCEPT ![t] = "write"]
        /\ UNCHANGED <<up, changes, rows, dirty, stable, copy, path, asked, fails, deaths>>
    BY <1>8 DEF CreateTmp, Goto, memory, bounds
  <2> HIDE DEF file
  <2> QED BY <2>1, <2>2 DEF IInv, TypeOK
<1>9. ASSUME NEW t \in Task, WriteTmp(t) PROVE TypeOK'
  <2>1. open[t] \in Inode
    BY <1>9 DEF WriteTmp, At, IInv, Opened
  <2> QED BY <1>9, <2>1 DEF WriteTmp, At, Goto, IInv, TypeOK, memory, bounds
<1>10. ASSUME NEW t \in Task, Rename(t) PROVE TypeOK'
  BY <1>10 DEF Rename, At, Goto, IInv, TypeOK, memory, bounds
<1>11. ASSUME NEW t \in Task, WriteFails(t) PROVE TypeOK'
  BY <1>11, StateFileAssumption DEF WriteFails, Goto, IInv, TypeOK, memory, disk
<1>12. ASSUME NEW t \in Task, ClearDirty(t) PROVE TypeOK'
  BY <1>12 DEF ClearDirty, At, Goto, IInv, TypeOK, disk, bounds
<1>13. CASE Exit \/ Crash
  <2>1. Gone /\ UNCHANGED asked
    BY <1>13 DEF Exit, Crash
  <2>2. pc' = [t \in Task |-> "idle"] /\ copy' = [t \in Task |-> 0] /\ open' = [t \in Task |-> NoFile]
    BY <2>1 DEF Gone
  <2>3. copy' \in [Task -> Written] /\ open' \in [Task -> Inode \cup {NoFile}]
    BY <2>2
  <2>4. pc' \in [Task -> {"idle", "debounce", "check", "read", "create", "write", "rename",
                         "clear", "done"}]
    BY <2>2
  <2>5. up' = FALSE /\ rows' = 0 /\ stable' = 0 /\ dirty' = FALSE /\ deaths' = deaths + 1
    BY <2>1 DEF Gone
  <2>6. UNCHANGED <<changes, data, path, tmp, asked, fails>>
    BY <2>1 DEF Gone, disk
  <2>7. deaths' \in Nat
    BY <2>5 DEF IInv, TypeOK
  <2>8. up' \in BOOLEAN /\ dirty' \in BOOLEAN
    BY <2>5
  <2>9. rows' \in Written /\ stable' \in Written
    BY <2>5
  <2>10. /\ changes' \in Written /\ data' \in [Inode -> Written \cup {Empty}]
         /\ path' \in Inode \cup {NoFile} /\ tmp' \in Inode \cup {NoFile}
         /\ path' = tmp' => path' = NoFile
         /\ asked' \in Written \cup {NoSignal}
         /\ fails' \in 0..MaxFails
    BY <2>6 DEF IInv, TypeOK
  <2> QED BY <2>3, <2>4, <2>7, <2>8, <2>9, <2>10 DEF TypeOK
<1>14. CASE Restart
  BY <1>14, SavedType DEF Restart, IInv, TypeOK, tasks, bounds, NoSignal
<1>15. CASE UNCHANGED vars
  BY <1>15 DEF IInv, TypeOK, vars, memory, tasks, disk, bounds
<1> QED BY <1>1, <1>2, <1>3, <1>4, <1>5, <1>6, <1>7, <1>8, <1>9, <1>10, <1>11, <1>12, <1>13,
           <1>14, <1>15
        DEF Next, LoopStep, Flush, Task

-----------------------------------------------------------------------------
(* Open files and daemons at rest                                            *)

\* A step keeps who has a file open, and what is gone at rest.
LEMMA OpenedStep == IInv /\ [Next]_vars => Opened' /\ AtRest'
<1> SUFFICES ASSUME IInv, [Next]_vars PROVE Opened' /\ AtRest'
  OBVIOUS
<1> USE DEF IInv, TypeOK, Opened, AtRest, Goto, At, Task
<1>1. CASE Change
  BY <1>1 DEF Change, tasks
<1>2. CASE LoopWake
  BY <1>2 DEF LoopWake
<1>3. CASE LoopDebounced
  BY <1>3 DEF LoopDebounced
<1>4. CASE LoopAgain
  BY <1>4 DEF LoopAgain
<1>5. CASE Stop
  <2>1. pc["shutdown"] # "write" \/ pc["shutdown"] = "write"
    OBVIOUS
  <2> QED BY <1>5, <2>1 DEF Stop, OneWriter
<1>6. ASSUME NEW t \in Task, CheckDirty(t) PROVE Opened' /\ AtRest'
  BY <1>6 DEF CheckDirty
<1>7. ASSUME NEW t \in Task, ReadRows(t) PROVE Opened' /\ AtRest'
  BY <1>7 DEF ReadRows
<1>8. ASSUME NEW t \in Task, CreateTmp(t) PROVE Opened' /\ AtRest'
  <2> DEFINE file == IF tmp = NoFile THEN CHOOSE i \in Unused : TRUE ELSE tmp
  <2>1. file \in Inode
    BY <1>8, TemporaryFile DEF CreateTmp
  <2>2. up /\ up' = up /\ open' = [open EXCEPT ![t] = file] /\ pc' = [pc EXCEPT ![t] = "write"]
    BY <1>8 DEF CreateTmp
  <2> HIDE DEF file
  <2> QED BY <2>1, <2>2
<1>9. ASSUME NEW t \in Task, WriteTmp(t) PROVE Opened' /\ AtRest'
  BY <1>9 DEF WriteTmp
<1>10. ASSUME NEW t \in Task, Rename(t) PROVE Opened' /\ AtRest'
  BY <1>10 DEF Rename
<1>11. ASSUME NEW t \in Task, WriteFails(t) PROVE Opened' /\ AtRest'
  BY <1>11 DEF WriteFails
<1>12. ASSUME NEW t \in Task, ClearDirty(t) PROVE Opened' /\ AtRest'
  BY <1>12 DEF ClearDirty
<1>13. CASE Exit \/ Crash
  BY <1>13 DEF Exit, Crash, Gone
<1>14. CASE Restart
  BY <1>14 DEF Restart, tasks
<1>15. CASE UNCHANGED vars
  BY <1>15 DEF vars, tasks
<1> QED BY <1>1, <1>2, <1>3, <1>4, <1>5, <1>6, <1>7, <1>8, <1>9, <1>10, <1>11, <1>12, <1>13,
           <1>14, <1>15
        DEF Next, LoopStep, Flush

-----------------------------------------------------------------------------
(* What is written was a change once                                         *)

\* What load_state returns was a change once.
LEMMA SavedKnown == IInv => Saved <= changes
  BY EmptyIsNotWritten DEF IInv, TypeOK, Known, Saved, Whole, NoFile

\* A step writes nothing that was not a change.
LEMMA KnownStep == IInv /\ [Next]_vars => Known'
<1> SUFFICES ASSUME IInv, [Next]_vars PROVE Known'
  OBVIOUS
<1> USE EmptyIsNotWritten DEF IInv, TypeOK, Known
<1>1. CASE Change
  <2>1. changes \in Nat /\ changes' = changes + 1 /\ rows' = changes + 1 /\ UNCHANGED <<copy, data>>
    BY <1>1 DEF Change, tasks, disk
  <2>2. \A t \in Task : copy[t] \in Nat /\ copy[t] <= changes
    OBVIOUS
  <2>3. \A i \in Inode : data[i] # Empty => data[i] \in Nat /\ data[i] <= changes
    OBVIOUS
  <2> QED BY <2>1, <2>2, <2>3
<1>2. CASE LoopWake \/ LoopDebounced \/ LoopAgain \/ Stop
  BY <1>2 DEF LoopWake, LoopDebounced, LoopAgain, Stop, memory, disk
<1>3. ASSUME NEW t \in Task, CheckDirty(t) \/ Rename(t) \/ WriteFails(t) \/ ClearDirty(t)
      PROVE  Known'
  BY <1>3 DEF CheckDirty, Rename, WriteFails, ClearDirty, memory, disk
<1>4. ASSUME NEW t \in Task, ReadRows(t) PROVE Known'
  BY <1>4 DEF ReadRows, memory, disk
<1>5. ASSUME NEW t \in Task, CreateTmp(t) PROVE Known'
  <2> DEFINE file == IF tmp = NoFile THEN CHOOSE i \in Unused : TRUE ELSE tmp
  <2>1. file \in Inode
    BY <1>5, TemporaryFile DEF CreateTmp, At
  <2>2. data' = [data EXCEPT ![file] = Empty] /\ UNCHANGED <<rows, changes, copy>>
    BY <1>5 DEF CreateTmp, memory
  <2> HIDE DEF file
  <2> QED BY <2>1, <2>2
<1>6. ASSUME NEW t \in Task, WriteTmp(t) PROVE Known'
  <2>1. open[t] \in Inode
    BY <1>6 DEF WriteTmp, At, Opened
  <2> QED BY <1>6, <2>1 DEF WriteTmp, memory
<1>7. CASE Exit \/ Crash
  <2>1. rows' = 0 /\ copy' = [t \in Task |-> 0] /\ UNCHANGED <<changes, data>>
    BY <1>7 DEF Exit, Crash, Gone, disk
  <2>2. 0 <= changes
    OBVIOUS
  <2>3. \A t \in Task : copy'[t] <= changes
    BY <2>1, <2>2
  <2> QED BY <2>1, <2>2, <2>3
<1>8. CASE Restart
  BY <1>8, SavedKnown DEF Restart, tasks
<1>9. CASE UNCHANGED vars
  BY <1>9 DEF vars, memory, tasks, disk
<1> QED BY <1>1, <1>2, <1>3, <1>4, <1>5, <1>6, <1>7, <1>8, <1>9 DEF Next, LoopStep, Flush, Task

-----------------------------------------------------------------------------
(* One writer                                                                *)

\* What is in the file only depends on the file.
LEMMA SavedSame ==
  ASSUME path' = path, path # NoFile => data'[path] = data[path]
  PROVE  Whole' = Whole /\ Saved' = Saved
  BY DEF Whole, Saved

\* The steps of a flush by the shutdown need SIGTERM.
LEMMA ShutdownIdle ==
  ASSUME IInv, asked = NoSignal
  PROVE  ~Flush("shutdown") /\ ~Exit
  BY DEF IInv, OneWriter, Flush, CheckDirty, ReadRows, CreateTmp, WriteTmp, Rename, WriteFails,
         ClearDirty, Exit, At

\* A step of the one writer keeps it the one writer, and the file is not older
\* after it.
LEMMA OneWriterStep ==
  IInv /\ [Next]_vars =>
    OneWriter' /\ (asked = NoSignal /\ asked' = NoSignal /\ up /\ up' => Saved' >= Saved)
<1> DEFINE Goal == OneWriter' /\ (asked = NoSignal /\ asked' = NoSignal /\ up /\ up' => Saved' >= Saved)
<1> SUFFICES ASSUME IInv, [Next]_vars, asked' = NoSignal PROVE Goal
  BY DEF OneWriter
<1> USE EmptyIsNotWritten
<1>1. Saved \in Nat
  BY SavedType DEF IInv
<1>2. CASE Restart
  <2>1. \A t \in Task : pc'[t] = "idle"
    BY <1>2 DEF Restart, IInv, AtRest, tasks
  <2>2. Whole' /\ Saved' = Saved
    BY <1>2 DEF Restart, Whole, Saved, NoFile
  <2>3. rows' = Saved /\ ~up
    BY <1>2 DEF Restart
  <2> QED BY <1>1, <2>1, <2>2, <2>3 DEF OneWriter, Task, Writing
<1>3. CASE Exit \/ Crash
  <2>1. asked = NoSignal /\ up' = FALSE
    BY <1>3 DEF Exit, Crash, Gone
  <2>2. \A t \in Task : pc'[t] = "idle"
    BY <1>3 DEF Exit, Crash, Gone
  <2>3. UNCHANGED <<data, path>>
    BY <1>3 DEF Exit, Crash, Gone, disk
  <2>4. Whole'
    BY <2>1, <2>3, SavedSame DEF IInv, OneWriter
  <2> QED BY <2>1, <2>2, <2>4 DEF OneWriter, Task, Writing
<1>4. CASE Stop
  BY <1>4 DEF Stop, IInv, TypeOK, NoSignal
<1>5. ASSUME ~Restart, ~Exit, ~Crash, ~Stop PROVE Goal
  <2>1. asked = NoSignal
    BY <1>5 DEF Next, LoopStep, Flush, Change, LoopWake, LoopDebounced, LoopAgain, CheckDirty, ReadRows,
                CreateTmp, WriteTmp, Rename, WriteFails, ClearDirty, vars
  <2>2. ~Flush("shutdown")
    BY <2>1, ShutdownIdle
  <2> USE <2>1 DEF IInv, TypeOK, OneWriter, Writing, Goto, Task
  <2>3. Saved <= Saved
    BY <1>1
  <2>4. CASE Change
    <3>1. Whole' /\ Saved' = Saved
      BY <2>4, SavedSame DEF Change, disk
    <3>2. rows <= rows' /\ rows \in Nat /\ rows' \in Nat /\ copy["loop"] \in Nat
      <4>1. rows \in Nat /\ changes \in Nat /\ copy["loop"] \in Nat
        OBVIOUS
      <4>2. rows' = changes + 1 /\ rows <= changes
        BY <2>4 DEF Change, Known
      <4> QED BY <4>1, <4>2
    <3>3. copy["loop"] <= rows => copy["loop"] <= rows'
      BY <3>2
    <3>4. Saved <= rows => Saved <= rows'
      BY <3>2, <1>1
    <3> QED BY <2>4, <3>1, <3>3, <3>4, <2>3 DEF Change, tasks, disk
  <2>5. CASE LoopWake \/ LoopDebounced \/ LoopAgain \/ CheckDirty("loop") \/ ClearDirty("loop")
    <3>1. Whole' /\ Saved' = Saved
      BY <2>5, SavedSame
         DEF LoopWake, LoopDebounced, LoopAgain, CheckDirty, ClearDirty, disk
    <3>2. rows' = rows /\ up' = up
      BY <2>5 DEF LoopWake, LoopDebounced, LoopAgain, CheckDirty, ClearDirty, memory
    <3>3. \E label \in {"idle", "debounce", "check", "read", "done"} : pc' = [pc EXCEPT !["loop"] = label]
      <4>1. (CASE ~dirty -> "idle" [] rows = stable -> "check" [] OTHER -> "debounce")
               \in {"idle", "check", "debounce"}
        OBVIOUS
      <4> QED BY <2>5, <4>1 DEF LoopWake, LoopDebounced, LoopAgain, CheckDirty, ClearDirty
    <3>4. pc'["loop"] \notin Writing /\ pc'["shutdown"] = "idle"
      BY <3>3
    <3> QED BY <2>3, <3>1, <3>2, <3>4
  <2>6. CASE ReadRows("loop")
    <3>1. Whole' /\ Saved' = Saved
      BY <2>6, SavedSame DEF ReadRows, disk
    <3>2. rows <= rows
      OBVIOUS
    <3> QED BY <2>3, <2>6, <3>1, <3>2 DEF ReadRows, At, memory
  <2>7. CASE CreateTmp("loop")
    <3> DEFINE file == IF tmp = NoFile THEN CHOOSE i \in Unused : TRUE ELSE tmp
    <3>1. file \in Inode /\ file # path
      BY <2>7, TemporaryFile DEF CreateTmp, At
    <3>2. /\ tmp' = file
          /\ data' = [data EXCEPT ![file] = Empty]
          /\ open' = [open EXCEPT !["loop"] = file]
          /\ pc["loop"] = "create" /\ pc' = [pc EXCEPT !["loop"] = "write"]
          /\ UNCHANGED <<up, rows, copy, path>>
      BY <2>7 DEF CreateTmp, At, memory
    <3> HIDE DEF file
    <3>3. Whole' /\ Saved' = Saved
      BY <3>1, <3>2, SavedSame
    <3> QED BY <2>3, <3>1, <3>2, <3>3
  <2>8. CASE WriteTmp("loop")
    <3>1. open["loop"] = tmp /\ tmp \in Inode /\ tmp # path
      BY <2>8 DEF WriteTmp, At, Opened, Inode, NoFile
    <3>2. data' = [data EXCEPT ![tmp] = copy["loop"]] /\ UNCHANGED <<up, rows, copy, path, tmp>>
      BY <2>8, <3>1 DEF WriteTmp, memory
    <3>3. Whole' /\ Saved' = Saved
      BY <3>1, <3>2, SavedSame
    <3>4. pc["loop"] = "write" /\ pc' = [pc EXCEPT !["loop"] = "rename"]
      BY <2>8 DEF WriteTmp, At
    <3>5. tmp' # NoFile /\ data'[tmp'] = copy'["loop"]
      BY <3>1, <3>2 DEF Inode, NoFile
    <3> QED BY <2>3, <3>2, <3>3, <3>4, <3>5
  <2>9. CASE Rename("loop")
    <3>1. tmp # NoFile /\ data[tmp] = copy["loop"] /\ Saved <= copy["loop"] /\ copy["loop"] <= rows
      BY <2>9 DEF Rename, At
    <3>2. path' = tmp /\ UNCHANGED <<data, rows, copy, up>>
      BY <2>9, <3>1 DEF Rename, memory
    <3>3. Whole' /\ Saved' = copy["loop"]
      BY <3>1, <3>2 DEF Whole, Saved
    <3>4. pc' = [pc EXCEPT !["loop"] = "clear"]
      BY <2>9, <3>1 DEF Rename
    <3>5. Saved' >= Saved
      BY <3>1, <3>3, <1>1
    <3> QED BY <3>1, <3>2, <3>3, <3>4, <3>5
  <2>10. CASE WriteFails("loop")
    <3>1. Whole' /\ Saved' = Saved
      BY <2>10, SavedSame DEF WriteFails, disk
    <3>2. pc'["loop"] \notin Writing /\ pc'["shutdown"] = "idle" /\ rows' = rows /\ up' = up
      BY <2>10 DEF WriteFails, memory
    <3> QED BY <2>3, <3>1, <3>2
  <2>11. CASE UNCHANGED vars
    <3>1. Whole' /\ Saved' = Saved
      BY <2>11, SavedSame DEF vars, disk
    <3> QED BY <2>3, <2>11, <3>1 DEF vars, memory, tasks, disk
  <2> QED BY <1>5, <2>2, <2>4, <2>5, <2>6, <2>7, <2>8, <2>9, <2>10, <2>11 DEF Next, LoopStep, Flush
<1> QED BY <1>2, <1>3, <1>4, <1>5

-----------------------------------------------------------------------------
(* The theorems                                                              *)

\* It holds at first.
LEMMA Initial == Init => IInv
<1> SUFFICES ASSUME Init PROVE IInv
  OBVIOUS
<1> USE EmptyIsNotWritten DEF Init
<1>1. 0 \in 0..MaxFails /\ 0 \in Nat
  BY StateFileAssumption
<1>2. pc \in [Task -> {"idle", "debounce", "check", "read", "create", "write", "rename", "clear",
                      "done"}]
  OBVIOUS
<1>3. copy \in [Task -> Written] /\ open \in [Task -> Inode \cup {NoFile}]
  OBVIOUS
<1>4. data \in [Inode -> Written \cup {Empty}]
  OBVIOUS
<1>5. TypeOK
  <2>1. /\ up \in BOOLEAN /\ dirty \in BOOLEAN
        /\ path \in Inode \cup {NoFile} /\ tmp \in Inode \cup {NoFile}
        /\ path = tmp => path = NoFile
        /\ asked \in Written \cup {NoSignal}
    OBVIOUS
  <2> QED BY <1>1, <1>2, <1>3, <1>4, <2>1 DEF TypeOK
<1>6. Opened /\ AtRest
  BY DEF Opened, AtRest
<1>7. Known
  BY DEF Known
<1>8. OneWriter
  BY DEF OneWriter, Whole, Saved, Task, Writing
<1> QED BY <1>5, <1>6, <1>7, <1>8 DEF IInv

\* IInv is an invariant.
LEMMA Invariance == Spec => []IInv
<1>1. IInv /\ [Next]_vars => IInv'
  BY TypeStep, OpenedStep, KnownStep, OneWriterStep DEF IInv
<1> QED BY <1>1, Initial, PTL DEF Spec

\* Every variable keeps its type, four files are enough and no file has both
\* names.
THEOREM StateTypeCorrect == Spec => []TypeOK
<1>1. IInv => TypeOK
  BY DEF IInv
<1> QED BY <1>1, Invariance, PTL

\* A daemon that dies anywhere in a flush leaves a sessionsd.json that the next
\* one can read (atomic_write_json).
THEOREM FileIsWhole == Spec => []FileWhole
<1>1. IInv => FileWhole
  BY DEF IInv, OneWriter, FileWhole
<1> QED BY <1>1, Invariance, PTL

\* No flush of the loop puts older rows in the place of newer ones, although
\* the dirty flag is cleared after the rows were copied (persist_loop).
THEOREM NeverOlder == Spec => SavedNeverOlder
<1>1. IInv /\ [Next]_vars =>
        [asked = NoSignal /\ asked' = NoSignal /\ up /\ up' => Saved' >= Saved]_vars
  BY OneWriterStep
<1> QED BY <1>1, Invariance, PTL DEF Spec, SavedNeverOlder

===============================================================================
