------------------------ MODULE StorageServerProofs -------------------------
(***************************************************************************)
(* Proofs about the lock table and the lock flags of a storage server, for *)
(* any number of connections, files, sentences, edits and crashes.         *)
(*                                                                         *)
(* The texts play no part in them: the steps that load, merge and store    *)
(* are summarised by what they do to the control state (lemma Working).    *)
(***************************************************************************)
EXTENDS StorageServer, TLAPS

(***************************************************************************)
(* The inductive invariant.                                                *)
(***************************************************************************)

WriteLabels == {"acquire", "flag", "begin", "edit", "release", "clear"} \cup BadBegin

WorkLabels == {"load", "unlink", "meta"} \cup UndoStore \cup DataStore

\* A WRITE is served by a data connection, for an index a client asked for,
\* and the control points of handle_write belong to a WRITE.
Served ==
    \A t \in Threads :
        /\ job[t].op = "WRITE" => t \in Clients /\ job[t].index \in Indices
        /\ pc[t] \in WriteLabels => job[t].op = "WRITE"

\* A file that is not in the table has no flag.
AbsentUnlocked == \A f \in Files : ~table[f].present => ~table[f].lock_active

IInv == TypeOK /\ Served /\ AbsentUnlocked /\ LockTable /\ FlagNotStuck

(***************************************************************************)
(* What a step of one thread does to its control state.                    *)
(***************************************************************************)

Moves(t, l) ==
    /\ pc' = [pc EXCEPT ![t] = l]
    /\ job' = IF l = "idle" THEN [job EXCEPT ![t] = NoJob] ELSE job

\* A step of a handler between the load and the end of its file operations.
Works(t) ==
    /\ pc[t] \in WorkLabels
    /\ \E l \in WorkLabels \cup {After(t)} : Moves(t, l)
    /\ UNCHANGED <<locks, crashes>>

FdTypes == {"none", "tmp", "main", "orphan"}

\* Goto changes the control state as Moves says.
LEMMA GotoMoves ==
    ASSUME NEW t, NEW l, NEW r, Goto(t, l, r)
    PROVE  Moves(t, l)
  BY DEF Goto, Moves, local

\* Renames and unlinks by another thread keep a stream a stream.
LEMMA RelinkType ==
    ASSUME TypeOK, NEW P,
           \/ Relink(P, Renamed)
           \/ Relink(P, Unlinked)
           \/ Relink(P, TmpUnlinked)
           \/ UNCHANGED fd
    PROVE  fd' \in [Threads -> FdTypes]
  BY DEF TypeOK, Relink, Renamed, Unlinked, TmpUnlinked, FdTypes

\* The steps that load, merge and store leave both tables alone and keep the
\* thread inside its handler, unless they end a request that holds no lock.
LEMMA Working ==
    ASSUME TypeOK, Served, NEW t \in Threads,
           \/ CommitLoad(t) \/ UndoLoad(t) \/ LoadCurrent(t)
           \/ UndoOpen(t) \/ UndoWrite(t) \/ UndoRename(t)
           \/ DataOpen(t) \/ DataWrite(t) \/ DataRename(t)
           \/ StoreDrop(t) \/ UnlinkUndo(t)
    PROVE  Works(t) /\ table' = table /\ fd' \in [Threads -> FdTypes]
  <1> USE GotoMoves DEF WorkLabels, UndoStore, DataStore
  <1>0. fd \in [Threads -> FdTypes] /\ pc \in [Threads -> Labels]
    BY DEF TypeOK, FdTypes
  <1>1. CASE CommitLoad(t)
    <2>1. pc[t] = "load" /\ Moves(t, "undo_open")
      BY <1>1 DEF CommitLoad, Moves
    <2> QED  BY <1>0, <1>1, <2>1 DEF CommitLoad, Works
  <1>2. CASE UndoLoad(t)
    <2>1. pc[t] = "load" /\ (Moves(t, "idle") \/ Moves(t, "data_open"))
      BY <1>2 DEF UndoLoad, Moves, Goto, local
    <2>2. After(t) = "idle"
      BY <1>2 DEF UndoLoad, After
    <2> QED  BY <1>0, <1>2, <2>1, <2>2 DEF UndoLoad, Works
  <1>3. CASE LoadCurrent(t)
    <2>1. pc[t] = "load" /\ (Moves(t, "meta") \/ Moves(t, "undo_open"))
      BY <1>3 DEF LoadCurrent, Moves
    <2> QED  BY <1>0, <1>3, <2>1 DEF LoadCurrent, Works
  <1>4. ASSUME NEW l \in WorkLabels, StoreOpen(t, l), pc[t] \in WorkLabels
        PROVE  Works(t) /\ table' = table /\ fd' \in [Threads -> FdTypes]
    <2>1. Moves(t, l) \/ Moves(t, After(t))
      BY <1>4 DEF StoreOpen
    <2>2. fd' \in [Threads -> FdTypes]
      BY <1>0, <1>4 DEF StoreOpen, FdTypes
    <2> QED  BY <1>4, <2>1, <2>2 DEF StoreOpen, Works
  <1>5. ASSUME NEW l \in WorkLabels, NEW text, StoreWrite(t, text, l), pc[t] \in WorkLabels
        PROVE  Works(t) /\ table' = table /\ fd' \in [Threads -> FdTypes]
    <2>1. Moves(t, l) \/ Moves(t, Drop(t))
      BY <1>5 DEF StoreWrite
    <2>2. fd' \in [Threads -> FdTypes]
      BY <1>0, <1>5 DEF StoreWrite, FdTypes
    <2>3. Drop(t) \in WorkLabels
      BY DEF Drop
    <2> QED  BY <1>5, <2>1, <2>2, <2>3 DEF StoreWrite, Works
  <1>6. ASSUME NEW l \in WorkLabels, NEW r, StoreRename(t, l, r), pc[t] \in WorkLabels
        PROVE  Works(t) /\ table' = table /\ fd' \in [Threads -> FdTypes]
    <2>1. Moves(t, l) \/ Moves(t, Drop(t))
      BY <1>6 DEF StoreRename
    <2>2. fd' \in [Threads -> FdTypes]
      BY <1>0, <1>6, RelinkType DEF StoreRename
    <2>3. Drop(t) \in WorkLabels
      BY DEF Drop
    <2> QED  BY <1>6, <2>1, <2>2, <2>3 DEF StoreRename, Works
  <1>7. CASE StoreDrop(t)
    <2>1. Moves(t, After(t))
      BY <1>7 DEF StoreDrop
    <2>2. fd' \in [Threads -> FdTypes]
      BY <1>7, RelinkType DEF StoreDrop
    <2> QED  BY <1>7, <2>1, <2>2 DEF StoreDrop, Works
  <1>8. CASE UnlinkUndo(t)
    <2>1. Moves(t, "meta") /\ pc[t] = "unlink"
      BY <1>8 DEF UnlinkUndo
    <2>2. fd' \in [Threads -> FdTypes]
      BY <1>8, RelinkType DEF UnlinkUndo
    <2> QED  BY <1>8, <2>1, <2>2 DEF UnlinkUndo, Works
  <1> QED
    BY <1>1, <1>2, <1>3, <1>4, <1>5, <1>6, <1>7, <1>8
       DEF UndoOpen, UndoWrite, UndoRename, DataOpen, DataWrite, DataRename

(***************************************************************************)
(* The file table.                                                         *)
(***************************************************************************)

\* set_file_lock_state changes one flag of a file that is in the table.
LEMMA SetFlagTable ==
    ASSUME TableOK, AbsentUnlocked, NEW f \in Files, NEW active \in BOOLEAN,
           set_file_lock_state(f, active)
    PROVE  /\ TableOK'
           /\ AbsentUnlocked'
           /\ \A g \in Files \ {f} : table'[g] = table[g]
           /\ table'[f].lock_active = (active /\ table[f].present)
  <1>1. CASE ~table[f].present
    BY <1>1 DEF TableOK, AbsentUnlocked, set_file_lock_state
  <1>2. CASE table[f].present
    <2>1. table' = [table EXCEPT ![f] = [table[f] EXCEPT !.lock_active = active]]
      BY <1>2 DEF set_file_lock_state, TableOK
    <2>2. /\ DOMAIN table'[f] = DOMAIN NoFile
          /\ table'[f].present = table[f].present
          /\ table'[f].lock_active = active
      BY <2>1 DEF TableOK, NoFile
    <2>3. \A g \in Files \ {f} : table'[g] = table[g]
      BY <2>1 DEF TableOK
    <2>4. DOMAIN table' = Files
      BY <2>1 DEF TableOK
    <2> QED  BY <1>2, <2>2, <2>3, <2>4 DEF TableOK, AbsentUnlocked
  <1> QED  BY <1>1, <1>2

\* The counters may change in Account; a flag can only be cleared.
LEMMA AccountTable ==
    ASSUME TypeOK, AbsentUnlocked, NEW t \in Threads, Account(t)
    PROVE  /\ TableOK'
           /\ AbsentUnlocked'
           /\ \A g \in Files : table'[g].lock_active => table[g].lock_active
  <1> DEFINE f == job[t].file
  <1>1. f \in Files /\ TableOK
    BY DEF TypeOK
  <1>2. CASE table' = table
    BY <1>1, <1>2 DEF TableOK, AbsentUnlocked
  <1>3. CASE table' # table
    <2>1. PICK w : table' = [table EXCEPT ![f].word_count = w,
                                          ![f].lock_active = @ /\ job[t].op # "WRITE"]
      BY <1>3 DEF Account
    <2>2. table' = [table EXCEPT ![f] = [table[f] EXCEPT !.word_count = w,
                             !.lock_active = @ /\ job[t].op # "WRITE"]]
      BY <1>1, <2>1 DEF TableOK
    <2>3. /\ DOMAIN table'[f] = DOMAIN NoFile
          /\ table'[f].present = table[f].present
          /\ table'[f].lock_active = (table[f].lock_active /\ job[t].op # "WRITE")
      BY <1>1, <2>2 DEF TableOK, NoFile
    <2>4. \A g \in Files \ {f} : table'[g] = table[g]
      BY <1>1, <2>2 DEF TableOK
    <2>5. DOMAIN table' = Files
      BY <1>1, <2>2 DEF TableOK
    <2> QED  BY <1>1, <2>3, <2>4, <2>5 DEF TableOK, AbsentUnlocked
  <1> QED  BY <1>2, <1>3

\* The table read back after a crash has no flag set.
LEMMA LoadTable ==
    ASSUME table' = ss_state_load
    PROVE  TableOK' /\ \A f \in Files : ~table'[f].lock_active
  <1>1. ASSUME NEW f \in Files
        PROVE  /\ DOMAIN table'[f] = DOMAIN NoFile
               /\ table'[f].present \in BOOLEAN
               /\ ~table'[f].lock_active
               /\ table'[f].lock_active \in BOOLEAN
    <2>1. CASE meta[f] = None
      BY <2>1 DEF ss_state_load, NoFile
    <2>2. CASE meta[f] # None
      <3> DEFINE w == IF meta[f] = 0 THEN count_words_in_text(load_text(<<f, "data">>))
                      ELSE meta[f]
      <3>1. table'[f] = [present |-> TRUE, lock_active |-> FALSE, word_count |-> w]
        BY <2>2 DEF ss_state_load, NewFile
      <3> QED  BY <3>1 DEF NoFile
    <2> QED  BY <2>1, <2>2
  <1>2. DOMAIN table' = Files
    BY DEF ss_state_load
  <1> QED  BY <1>1, <1>2 DEF TableOK

(***************************************************************************)
(* Moves of one thread and the invariant.                                  *)
(***************************************************************************)

NotHolding == {"idle", "acquire", "clear"}
NotClearing == {"idle", "acquire", "flag", "badrelease"}

\* The initial entry of a thread's request is well typed and no WRITE.
LEMMA NoJobType == NoJob \in [op : Ops, file : Files, index : Indices \cup {0}]
                   /\ NoJob.op = "none"
  <1>1. (CHOOSE f \in Files : TRUE) \in Files
    BY ServerAssumption
  <1> QED  BY <1>1 DEF NoJob, Ops

\* A thread moves to a control point that suits its request.
LEMMA MoveTyped ==
    ASSUME TypeOK, Served, NEW t \in Threads, NEW l \in Labels, Moves(t, l),
           l \in WriteLabels => job[t].op = "WRITE"
    PROVE  /\ pc' \in [Threads -> Labels]
           /\ job' \in [Threads -> [op : Ops, file : Files, index : Indices \cup {0}]]
           /\ Served'
  <1>1. pc' \in [Threads -> Labels] /\ pc'[t] = l
    BY DEF TypeOK, Moves
  <1>2. \A u \in Threads \ {t} : pc'[u] = pc[u] /\ job'[u] = job[u]
    BY DEF TypeOK, Moves
  <1>3. job' \in [Threads -> [op : Ops, file : Files, index : Indices \cup {0}]]
    BY NoJobType DEF TypeOK, Moves
  <1>4. CASE l = "idle"
    <2>1. job'[t].op = "none" /\ pc'[t] = "idle"
      BY <1>1, <1>4, NoJobType DEF TypeOK, Moves
    <2> QED  BY <1>1, <1>2, <1>3, <2>1 DEF Served, WriteLabels, BadBegin
  <1>5. CASE l # "idle"
    <2>1. job' = job
      BY <1>5 DEF Moves
    <2> QED  BY <1>1, <1>2, <1>3, <2>1 DEF Served
  <1> QED  BY <1>4, <1>5

\* A move neither into nor out of the part of handle_write that holds the
\* sentence lock changes no holder.
LEMMA MoveKeepsLocks ==
    ASSUME TypeOK, LockTable, NEW t \in Threads, NEW l, Moves(t, l),
           locks' = locks,
           job[t].op = "WRITE" => (pc[t] \in NotHolding <=> l \in NotHolding)
    PROVE  LockTable' /\ Held' = Held
  <1>1. ASSUME NEW u \in Threads
        PROVE  (Holding(u)' <=> Holding(u)) /\ (Holding(u) => Key(u)' = Key(u))
    <2>1. CASE u # t
      BY <2>1 DEF TypeOK, Moves, Holding, Key
    <2>2. CASE u = t /\ l # "idle"
      BY <2>2 DEF TypeOK, Moves, Holding, Key, NotHolding
    <2>3. CASE u = t /\ l = "idle"
      BY <2>3, NoJobType DEF TypeOK, Moves, Holding, Key, NotHolding
    <2> QED  BY <2>1, <2>2, <2>3
  <1>2. {u \in Clients : Holding(u)}' = {u \in Clients : Holding(u)}
    BY <1>1 DEF Threads
  <1> QED  BY <1>1, <1>2 DEF LockTable, Held, Threads

\* A move that does not leave the part of handle_write that is still to
\* clear the flag leaves no flag stuck.
LEMMA MoveKeepsFlag ==
    ASSUME TypeOK, FlagNotStuck, NEW t \in Threads, NEW l, Moves(t, l),
           job[t].op = "WRITE" /\ pc[t] \notin NotClearing => l \notin NotClearing,
           \A f \in Files : table'[f].lock_active => table[f].lock_active
    PROVE  FlagNotStuck'
  <1> SUFFICES ASSUME NEW f \in Files, table'[f].lock_active
               PROVE  \E u \in Clients : /\ job'[u].op = "WRITE"
                                         /\ job'[u].file = f
                                         /\ pc'[u] \notin NotClearing
    BY DEF FlagNotStuck, NotClearing
  <1>1. PICK u \in Clients : /\ job[u].op = "WRITE"
                             /\ job[u].file = f
                             /\ pc[u] \notin NotClearing
    BY DEF FlagNotStuck, NotClearing
  <1>2. u \in Threads
    BY DEF Threads
  <1>3. CASE u # t
    BY <1>1, <1>2, <1>3 DEF TypeOK, Moves
  <1>4. CASE u = t
    BY <1>1, <1>2, <1>4 DEF TypeOK, Moves, NotClearing
  <1> QED  BY <1>3, <1>4

(***************************************************************************)
(* Every step keeps the invariant and is a step of the lock service, or    *)
(* leaves the lock service alone.                                          *)
(***************************************************************************)

Quiet == Held' = Held /\ crashes' = crashes

LockStep == Quiet \/ LockService!Next

\* A move of one thread that takes no part in locking.
LEMMA QuietMove ==
    ASSUME IInv, NEW t \in Threads, NEW l \in Labels, Moves(t, l),
           l \in WriteLabels => job[t].op = "WRITE",
           job[t].op = "WRITE" => (pc[t] \in NotHolding <=> l \in NotHolding),
           job[t].op = "WRITE" /\ pc[t] \notin NotClearing => l \notin NotClearing,
           TableOK', AbsentUnlocked',
           \A f \in Files : table'[f].lock_active => table[f].lock_active,
           fd' \in [Threads -> FdTypes],
           UNCHANGED <<locks, crashes>>
    PROVE  IInv' /\ Quiet
  <1>1. TypeOK' /\ Served'
    BY MoveTyped DEF IInv, TypeOK, FdTypes
  <1>2. LockTable' /\ Held' = Held
    BY MoveKeepsLocks DEF IInv
  <1>3. FlagNotStuck'
    BY MoveKeepsFlag DEF IInv
  <1> QED  BY <1>1, <1>2, <1>3 DEF IInv, Quiet

\* The steps that load, merge and store keep the invariant and are invisible
\* to the lock service.
LEMMA WorkStep ==
    ASSUME IInv, NEW t \in Threads, Works(t),
           TableOK', AbsentUnlocked',
           \A f \in Files : table'[f].lock_active => table[f].lock_active,
           fd' \in [Threads -> FdTypes]
    PROVE  IInv' /\ Quiet
  <1>1. PICK l \in WorkLabels \cup {After(t)} : Moves(t, l)
    BY DEF Works
  <1>2. /\ l \in Labels
        /\ l \in WriteLabels => job[t].op = "WRITE"
        /\ job[t].op = "WRITE" => l \notin NotHolding /\ l \notin NotClearing
    BY DEF WorkLabels, UndoStore, DataStore, BadBegin, Labels, After, WriteLabels,
           NotHolding, NotClearing
  <1>3. pc[t] \notin NotHolding
    BY DEF Works, WorkLabels, UndoStore, DataStore, NotHolding
  <1> QED  BY <1>1, <1>2, <1>3, QuietMove DEF Works

\* The steps of handle_write that leave both tables alone.
LEMMA SessionStep ==
    ASSUME IInv, NEW t \in Threads,
           write_session_begin(t) \/ BeginFails(t) \/ WriteCommit(t) \/ WriteAbort(t)
    PROVE  IInv' /\ Quiet
  <1>1. \E l \in {"edit", "badflag", "load", "release"} : Moves(t, l)
    BY GotoMoves DEF write_session_begin, BeginFails, WriteCommit, WriteAbort, Moves
  <1>2. /\ pc[t] \in {"begin", "edit"}
        /\ UNCHANGED <<table, locks, fd, crashes>>
    BY DEF write_session_begin, BeginFails, WriteCommit, WriteAbort
  <1>3. job[t].op = "WRITE"
    BY <1>2 DEF IInv, Served, WriteLabels
  <1>4. /\ TableOK' /\ AbsentUnlocked'
        /\ fd' \in [Threads -> FdTypes]
    BY <1>2 DEF IInv, TypeOK, TableOK, AbsentUnlocked, FdTypes
  <1>5. \A f \in Files : table'[f].lock_active => table[f].lock_active
    BY <1>2
  <1>6. ASSUME NEW l \in {"edit", "badflag", "load", "release"}
        PROVE  l \in Labels /\ l \notin NotHolding /\ l \notin NotClearing
    BY DEF Labels, BadBegin, NotHolding, NotClearing
  <1>7. pc[t] \notin NotHolding
    BY <1>2 DEF NotHolding
  <1> QED  BY <1>1, <1>2, <1>3, <1>4, <1>5, <1>6, <1>7, QuietMove

\* Clearing the flag: at the end of a session, or when it could not begin.
LEMMA ClearStep ==
    ASSUME IInv, NEW t \in Threads, ClearFlag(t) \/ BadBeginFlag(t)
    PROVE  IInv' /\ Quiet
  <1> DEFINE g == job[t].file
  <1>1. PICK l \in {"idle", "badrelease"} :
            /\ Moves(t, l)
            /\ pc[t] = IF l = "idle" THEN "clear" ELSE "badflag"
    BY GotoMoves DEF ClearFlag, BadBeginFlag
  <1>2. set_file_lock_state(g, FALSE) /\ UNCHANGED <<locks, fd, crashes>>
    BY DEF ClearFlag, BadBeginFlag
  <1>3. job[t].op = "WRITE" /\ g \in Files
    BY <1>1 DEF IInv, Served, WriteLabels, BadBegin, TypeOK
  <1>4. /\ TableOK' /\ AbsentUnlocked'
        /\ \A h \in Files \ {g} : table'[h] = table[h]
        /\ ~table'[g].lock_active
    BY <1>2, <1>3, SetFlagTable DEF IInv, TypeOK
  <1>5. TypeOK' /\ Served'
    BY <1>1, <1>2, <1>3, <1>4, MoveTyped DEF IInv, TypeOK, Labels, BadBegin
  <1>6. LockTable' /\ Held' = Held
    BY <1>1, <1>2, MoveKeepsLocks DEF IInv, NotHolding
  <1>7. FlagNotStuck'
    <2> SUFFICES ASSUME NEW f \in Files, table'[f].lock_active
                 PROVE  \E u \in Clients : /\ job'[u].op = "WRITE"
                                           /\ job'[u].file = f
                                           /\ pc'[u] \notin NotClearing
      BY DEF FlagNotStuck, NotClearing
    <2>1. f # g /\ table[f].lock_active
      BY <1>4
    <2>2. PICK u \in Clients : /\ job[u].op = "WRITE"
                               /\ job[u].file = f
                               /\ pc[u] \notin NotClearing
      BY <2>1 DEF IInv, FlagNotStuck, NotClearing
    <2>3. u # t /\ u \in Threads
      BY <2>1, <2>2 DEF Threads
    <2> QED  BY <1>1, <2>2, <2>3 DEF IInv, TypeOK, Moves
  <1> QED  BY <1>2, <1>4, <1>5, <1>6, <1>7 DEF IInv, Quiet

\* Setting the flag: the session that sets it is the one that is to clear it.
LEMMA SetStep ==
    ASSUME IInv, NEW t \in Threads, SetFlag(t)
    PROVE  IInv' /\ Quiet
  <1> DEFINE g == job[t].file
  <1>1. Moves(t, "begin") /\ pc[t] = "flag"
    BY GotoMoves DEF SetFlag
  <1>2. set_file_lock_state(g, TRUE) /\ UNCHANGED <<locks, fd, crashes>>
    BY DEF SetFlag
  <1>3. job[t].op = "WRITE" /\ g \in Files /\ t \in Clients
    BY <1>1 DEF IInv, Served, WriteLabels, BadBegin, TypeOK
  <1>4. /\ TableOK' /\ AbsentUnlocked'
        /\ \A h \in Files \ {g} : table'[h] = table[h]
    BY <1>2, <1>3, SetFlagTable DEF IInv, TypeOK
  <1>5. TypeOK' /\ Served'
    BY <1>1, <1>2, <1>3, <1>4, MoveTyped DEF IInv, TypeOK, Labels
  <1>6. LockTable' /\ Held' = Held
    BY <1>1, <1>2, MoveKeepsLocks DEF IInv, NotHolding
  <1>7. FlagNotStuck'
    <2> SUFFICES ASSUME NEW f \in Files, table'[f].lock_active
                 PROVE  \E u \in Clients : /\ job'[u].op = "WRITE"
                                           /\ job'[u].file = f
                                           /\ pc'[u] \notin NotClearing
      BY DEF FlagNotStuck, NotClearing
    <2>0. job' = job /\ pc' = [pc EXCEPT ![t] = "begin"]
      BY <1>1 DEF Moves
    <2>1. CASE f = g
      <3>1. pc'[t] = "begin"
        BY <2>0 DEF IInv, TypeOK
      <3> QED  BY <1>3, <2>0, <2>1, <3>1 DEF NotClearing
    <2>2. CASE f # g
      <3>1. PICK u \in Clients : /\ job[u].op = "WRITE"
                                 /\ job[u].file = f
                                 /\ pc[u] \notin NotClearing
        BY <1>4, <2>2 DEF IInv, FlagNotStuck, NotClearing
      <3>2. u # t /\ u \in Threads
        BY <2>2, <3>1 DEF Threads
      <3> QED  BY <2>0, <3>1, <3>2 DEF IInv, TypeOK
    <2> QED  BY <2>1, <2>2
  <1> QED  BY <1>2, <1>4, <1>5, <1>6, <1>7 DEF IInv, Quiet

\* A sentence lock is taken: sentence_lock_acquire finds the key absent, so
\* no thread holds it.
LEMMA AcquireStep ==
    ASSUME IInv, NEW t \in Threads, sentence_lock_acquire(t)
    PROVE  IInv' /\ LockStep
  <1>1. /\ pc[t] = "acquire" /\ job[t].op = "WRITE" /\ t \in Clients
        /\ Key(t) \in Files \X Indices
        /\ UNCHANGED <<table, fd, crashes>>
    BY DEF sentence_lock_acquire, IInv, Served, WriteLabels, TypeOK, Key
  <1>2. /\ TableOK' /\ AbsentUnlocked'
        /\ fd' \in [Threads -> FdTypes]
        /\ \A f \in Files : table'[f].lock_active => table[f].lock_active
    BY <1>1 DEF IInv, TypeOK, TableOK, AbsentUnlocked, FdTypes
  <1>3. CASE Key(t) \in locks
    <2>1. Moves(t, "idle") /\ locks' = locks
      BY <1>3, GotoMoves DEF sentence_lock_acquire
    <2>2. IInv' /\ Quiet
      BY <1>1, <1>2, <2>1, QuietMove DEF Labels, WriteLabels, BadBegin, NotHolding, NotClearing
    <2> QED  BY <2>2 DEF LockStep
  <1>4. CASE Key(t) \notin locks
    <2>1. Moves(t, "flag") /\ locks' = locks \cup {Key(t)}
      BY <1>4, GotoMoves DEF sentence_lock_acquire
    <2>2. TypeOK' /\ Served'
      BY <1>1, <1>2, <2>1, MoveTyped DEF IInv, TypeOK, Labels, FdTypes
    <2>3. FlagNotStuck'
      BY <1>1, <1>2, <2>1, MoveKeepsFlag DEF IInv, NotClearing
    <2>4. job' = job /\ \A u \in Threads : pc'[u] = IF u = t THEN "flag" ELSE pc[u]
      BY <2>1 DEF Moves, IInv, TypeOK
    <2>5. /\ \A u \in Threads : Key(u)' = Key(u)
          /\ \A u \in Clients : Holding(u)' <=> (Holding(u) \/ u = t)
      BY <1>1, <2>4 DEF Key, Holding, Threads
    <2>6. \A u \in Clients : Holding(u) => Key(u) # Key(t)
      BY <1>4 DEF IInv, LockTable
    <2>7. LockTable'
      BY <1>1, <2>1, <2>5, <2>6 DEF IInv, LockTable, Threads
    <2>8. Held' = Held \cup {<<t, Key(t)>>}
      BY <1>1, <2>5 DEF Held, Threads
    <2>9. \A d \in Clients : <<d, Key(t)>> \notin Held
      BY <2>6 DEF Held
    <2>10. LockService!Acquire(t, Key(t))
      BY <1>1, <2>8, <2>9 DEF LockService!Acquire
    <2> QED  BY <1>1, <1>2, <2>2, <2>3, <2>7, <2>10 DEF IInv, LockStep, LockService!Next
  <1> QED  BY <1>3, <1>4

\* A sentence lock is given back: the entry that is removed by its key is
\* the one of this thread.
LEMMA ReleaseStep ==
    ASSUME IInv, NEW t \in Threads, Release(t) \/ BadBeginRelease(t)
    PROVE  IInv' /\ LockStep
  <1>1. PICK l \in {"idle", "clear"} :
            /\ Moves(t, l)
            /\ pc[t] = IF l = "idle" THEN "badrelease" ELSE "release"
    BY GotoMoves DEF Release, BadBeginRelease
  <1>2. locks' = locks \ {Key(t)} /\ UNCHANGED <<table, fd, crashes>>
    BY DEF Release, BadBeginRelease, sentence_lock_release
  <1>3. /\ job[t].op = "WRITE" /\ t \in Clients
        /\ Key(t) \in Files \X Indices
    BY <1>1 DEF IInv, Served, WriteLabels, BadBegin, TypeOK, Key
  <1>4. /\ TableOK' /\ AbsentUnlocked'
        /\ fd' \in [Threads -> FdTypes]
        /\ \A f \in Files : table'[f].lock_active => table[f].lock_active
    BY <1>2 DEF IInv, TypeOK, TableOK, AbsentUnlocked, FdTypes
  <1>5. TypeOK' /\ Served'
    BY <1>1, <1>2, <1>3, <1>4, MoveTyped DEF IInv, TypeOK, Labels, FdTypes
  <1>6. FlagNotStuck'
    BY <1>1, <1>4, MoveKeepsFlag DEF IInv, NotClearing
  <1>7. Holding(t)
    BY <1>1, <1>3 DEF Holding
  <1>8. \A u \in Clients : /\ Holding(u)' <=> (Holding(u) /\ u # t)
                           /\ u # t => Key(u)' = Key(u)
    <2>1. \A u \in Clients \ {t} : pc'[u] = pc[u] /\ job'[u] = job[u]
      BY <1>1 DEF IInv, TypeOK, Moves, Threads
    <2>2. pc'[t] \in {"idle", "clear"}
      BY <1>1 DEF IInv, TypeOK, Moves
    <2> QED  BY <2>1, <2>2 DEF Holding, Key
  <1>9. \A u \in Clients : Holding(u) /\ u # t => Key(u) # Key(t)
    BY <1>3, <1>7 DEF IInv, LockTable
  <1>10. LockTable'
    BY <1>2, <1>3, <1>8, <1>9 DEF IInv, LockTable
  <1>11. <<t, Key(t)>> \in Held /\ Held' = Held \ {<<t, Key(t)>>}
    BY <1>3, <1>7, <1>8 DEF Held
  <1>12. LockService!Release(t, Key(t))
    BY <1>2, <1>11 DEF LockService!Release
  <1> QED  BY <1>3, <1>4, <1>5, <1>6, <1>10, <1>12 DEF IInv, LockStep, LockService!Next

\* A thread takes a request on.
LEMMA RequestStep ==
    ASSUME IInv, NEW t \in Threads, NEW o \in Ops, NEW f \in Files, NEW i \in Indices \cup {0},
           NEW l \in {"acquire", "load"},
           pc[t] = "idle",
           pc' = [pc EXCEPT ![t] = l],
           job' = [job EXCEPT ![t] = [op |-> o, file |-> f, index |-> i]],
           o = "WRITE" => t \in Clients /\ i \in Indices /\ l = "acquire",
           l = "acquire" => o = "WRITE",
           TableOK', AbsentUnlocked',
           \A h \in Files : table'[h].lock_active => table[h].lock_active,
           UNCHANGED <<locks, fd, crashes>>
    PROVE  IInv' /\ Quiet
  <1>1. /\ pc'[t] = l
        /\ job'[t] = [op |-> o, file |-> f, index |-> i]
        /\ \A u \in Threads \ {t} : pc'[u] = pc[u] /\ job'[u] = job[u]
    BY DEF IInv, TypeOK
  <1>2. TypeOK'
    BY DEF IInv, TypeOK, Labels
  <1>3. Served'
    BY <1>1 DEF IInv, Served, WriteLabels, BadBegin
  <1>4. \A u \in Clients : (Holding(u)' <=> Holding(u)) /\ (Holding(u) => Key(u)' = Key(u))
    BY <1>1 DEF Holding, Key, Threads
  <1>5. {u \in Clients : Holding(u)}' = {u \in Clients : Holding(u)}
    BY <1>4
  <1>6. LockTable' /\ Held' = Held
    BY <1>4, <1>5 DEF IInv, LockTable, Held
  <1>7. FlagNotStuck'
    BY <1>1 DEF IInv, FlagNotStuck, Threads
  <1> QED  BY <1>2, <1>3, <1>6, <1>7 DEF IInv, Quiet

\* The file table changes and no thread moves.
LEMMA TableStep ==
    ASSUME IInv, TableOK', AbsentUnlocked',
           \A h \in Files : table'[h].lock_active => table[h].lock_active,
           fd' \in [Threads -> FdTypes],
           UNCHANGED <<locks, pc, job, crashes>>
    PROVE  IInv' /\ Quiet
  <1>1. TypeOK' /\ Served'
    BY DEF IInv, TypeOK, Served, FdTypes
  <1>2. LockTable' /\ Held' = Held
    BY DEF IInv, LockTable, Held, Holding, Key
  <1>3. FlagNotStuck'
    BY DEF IInv, FlagNotStuck
  <1> QED  BY <1>1, <1>2, <1>3 DEF IInv, Quiet

\* A file enters or leaves the table without a flag.
LEMMA EntryTable ==
    ASSUME TableOK, AbsentUnlocked, NEW f \in Files,
           \/ table' = [table EXCEPT ![f] = NewFile]
           \/ table' = [table EXCEPT ![f] = NoFile]
           \/ table' = table
    PROVE  /\ TableOK' /\ AbsentUnlocked'
           /\ \A h \in Files : table'[h].lock_active => table[h].lock_active
  <1>1. ASSUME NEW entry \in {NewFile, NoFile}, table' = [table EXCEPT ![f] = entry]
        PROVE  /\ DOMAIN table' = Files
               /\ \A h \in Files \ {f} : table'[h] = table[h]
               /\ DOMAIN table'[f] = DOMAIN NoFile
               /\ table'[f].present \in BOOLEAN
               /\ table'[f].lock_active = FALSE
    <2>1. /\ DOMAIN table' = Files
          /\ \A h \in Files \ {f} : table'[h] = table[h]
          /\ table'[f] = entry
      BY <1>1 DEF TableOK
    <2>2. CASE entry = NewFile
      BY <2>1, <2>2 DEF NewFile, NoFile
    <2>3. CASE entry = NoFile
      BY <2>1, <2>3 DEF NoFile
    <2> QED  BY <2>1, <2>2, <2>3
  <1>2. CASE table' = table
    BY <1>2 DEF TableOK, AbsentUnlocked
  <1>3. CASE table' # table
    BY <1>1, <1>3 DEF TableOK, AbsentUnlocked
  <1> QED  BY <1>2, <1>3

\* The commands of the name manager (process_nm_command) change no lock.  A
\* DELETE finds the flag of its file down.
LEMMA CommandStep ==
    ASSUME IInv, Command
    PROVE  IInv' /\ Quiet
  <1> USE DEF FdTypes
  <1>0. TypeOK /\ TableOK /\ AbsentUnlocked /\ Main \in Threads
    BY DEF IInv, TypeOK, Threads
  <1>1. ASSUME NEW f \in Files, Create(f)  PROVE IInv' /\ Quiet
    BY <1>0, <1>1, EntryTable, TableStep DEF Create, ss_state_add, local, TypeOK
  <1>2. ASSUME NEW f \in Files, Delete(f)  PROVE IInv' /\ Quiet
    <2>1. fd' \in [Threads -> FdTypes]
      BY <1>0, <1>2, RelinkType DEF Delete, ss_state_remove
    <2> QED  BY <1>0, <1>2, <2>1, EntryTable, TableStep DEF Delete, ss_state_remove, local
  <1>3. ASSUME NEW f \in Files, Undo(f)  PROVE IInv' /\ Quiet
    BY <1>0, <1>3, EntryTable, RequestStep DEF Undo, Accept, Ops
  <1>4. ASSUME NEW f \in Files, NEW tag \in Tags, Revert(f, tag)  PROVE IInv' /\ Quiet
    BY <1>0, <1>4, EntryTable, RequestStep DEF Revert, Accept, Ops
  <1>5. ASSUME NEW f \in Files, NEW tag \in Tags, Checkpoint(f, tag)  PROVE IInv' /\ Quiet
    BY <1>0, <1>5, EntryTable, TableStep DEF Checkpoint, local, TypeOK
  <1>6. ASSUME NEW f \in Files, NEW text \in SyncTexts, Sync(f, text)  PROVE IInv' /\ Quiet
    <2>1. table' = table \/ table' = [table EXCEPT ![f] = NewFile]
      BY <1>6 DEF Sync, ss_state_add
    <2> QED  BY <1>0, <1>6, <2>1, EntryTable, RequestStep DEF Sync, Ops
  <1> QED  BY <1>1, <1>2, <1>3, <1>4, <1>5, <1>6 DEF Command

\* After a crash no thread holds a lock and the lock table is empty.
LEMMA RestartStep ==
    ASSUME IInv, Restart
    PROVE  IInv' /\ LockStep
  <1>1. TableOK' /\ \A f \in Files : ~table'[f].lock_active
    BY LoadTable DEF Restart
  <1>2. /\ \A t \in Threads : pc'[t] = "idle" /\ job'[t] = NoJob
        /\ locks' = {} /\ crashes' = crashes + 1
    BY DEF Restart
  <1>3. TypeOK'
    BY <1>1, <1>2, NoJobType DEF Restart, IInv, TypeOK, Labels
  <1>4. Served'
    BY <1>2, NoJobType DEF Served, WriteLabels, BadBegin
  <1>5. \A t \in Clients : ~Holding(t)'
    BY <1>2 DEF Holding, Threads
  <1>6. LockTable' /\ Held' = {}
    BY <1>2, <1>5 DEF LockTable, Held
  <1>7. FlagNotStuck' /\ AbsentUnlocked'
    BY <1>1 DEF FlagNotStuck, AbsentUnlocked
  <1> QED  BY <1>2, <1>3, <1>4, <1>6, <1>7
              DEF IInv, LockStep, LockService!Next, LockService!Reset

\* Every step a thread takes by itself keeps the invariant and is a step of
\* the lock service or none.
LEMMA ThreadStepKeeps ==
    ASSUME IInv, NEW t \in Threads, ThreadStep(t)
    PROVE  IInv' /\ LockStep
  <1>1. CASE sentence_lock_acquire(t)
    BY <1>1, AcquireStep
  <1>2. CASE Release(t) \/ BadBeginRelease(t)
    BY <1>2, ReleaseStep
  <1>3. CASE SetFlag(t)
    BY <1>3, SetStep DEF LockStep
  <1>4. CASE ClearFlag(t) \/ BadBeginFlag(t)
    BY <1>4, ClearStep DEF LockStep
  <1>5. CASE write_session_begin(t) \/ BeginFails(t)
    BY <1>5, SessionStep DEF LockStep
  <1>6. CASE CommitConflict(t)
    <2>1. CASE Restart
      BY <2>1, RestartStep
    <2>2. CASE ~Restart
      <3>1. /\ Moves(t, "release") /\ pc[t] = "load" /\ job[t].op = "WRITE"
            /\ UNCHANGED <<table, locks, fd, crashes>>
        BY <1>6, <2>2, GotoMoves DEF CommitConflict
      <3>2. Works(t)
        BY <3>1 DEF Works, WorkLabels, After
      <3>3. /\ TableOK' /\ AbsentUnlocked' /\ fd' \in [Threads -> FdTypes]
            /\ \A f \in Files : table'[f].lock_active => table[f].lock_active
        BY <3>1 DEF IInv, TypeOK, TableOK, AbsentUnlocked, FdTypes
      <3> QED  BY <3>2, <3>3, WorkStep DEF LockStep
    <2> QED  BY <2>1, <2>2
  <1>7. CASE Account(t)
    <2>1. Moves(t, After(t)) /\ pc[t] = "meta" /\ UNCHANGED <<locks, fd, crashes>>
      BY <1>7, GotoMoves DEF Account
    <2>2. Works(t)
      BY <2>1 DEF Works, WorkLabels
    <2>3. fd' \in [Threads -> FdTypes]
      BY <2>1 DEF IInv, TypeOK, FdTypes
    <2> QED  BY <1>7, <2>2, <2>3, AccountTable, WorkStep DEF IInv, LockStep
  <1>8. CASE \/ CommitLoad(t) \/ UndoLoad(t) \/ LoadCurrent(t)
             \/ UndoOpen(t) \/ UndoWrite(t) \/ UndoRename(t)
             \/ DataOpen(t) \/ DataWrite(t) \/ DataRename(t)
             \/ StoreDrop(t) \/ UnlinkUndo(t)
    <2>1. Works(t) /\ table' = table /\ fd' \in [Threads -> FdTypes]
      BY <1>8, Working DEF IInv
    <2>2. /\ TableOK' /\ AbsentUnlocked'
          /\ \A f \in Files : table'[f].lock_active => table[f].lock_active
      BY <2>1 DEF IInv, TypeOK, TableOK, AbsentUnlocked
    <2> QED  BY <2>1, <2>2, WorkStep DEF LockStep
  <1> QED
    BY <1>1, <1>2, <1>3, <1>4, <1>5, <1>6, <1>7, <1>8 DEF ThreadStep

\* Every step a client asks for (a request, an edit, a commit) keeps it too and
\* is invisible to the lock service.
LEMMA ClientStepKeeps ==
    ASSUME IInv, NEW t \in Clients, ClientStep(t)
    PROVE  IInv' /\ Quiet
  <1>0. t \in Threads /\ TableOK /\ AbsentUnlocked
    BY DEF Threads, IInv, TypeOK
  <1>1. ASSUME NEW f \in Files, NEW i \in Indices, WriteRequest(t, f, i)
        PROVE  IInv' /\ Quiet
    BY <1>0, <1>1, EntryTable, RequestStep DEF WriteRequest, Accept, Ops
  <1>2. ASSUME NEW f \in Files, ReadRequest(t, f)  PROVE IInv' /\ Quiet
    BY <1>0, <1>2, EntryTable, RequestStep DEF ReadRequest, Accept, Ops
  <1>3. CASE Edit(t)
    <2>1. UNCHANGED <<table, locks, pc, job, fd, crashes>>
      BY <1>3 DEF Edit
    <2>2. /\ TableOK' /\ AbsentUnlocked' /\ fd' \in [Threads -> FdTypes]
          /\ \A f \in Files : table'[f].lock_active => table[f].lock_active
      BY <2>1 DEF IInv, TypeOK, TableOK, AbsentUnlocked, FdTypes
    <2> QED  BY <2>1, <2>2, TableStep
  <1>4. CASE WriteCommit(t) \/ WriteAbort(t)
    BY <1>0, <1>4, SessionStep
  <1> QED  BY <1>1, <1>2, <1>3, <1>4 DEF ClientStep

\* The invariant is inductive, and every step of the server is a step of the
\* lock service or none.
LEMMA NextKeeps ==
    ASSUME IInv, [Next]_vars
    PROVE  IInv' /\ LockStep
  <1>1. CASE \E t \in Threads : ThreadStep(t)
    BY <1>1, ThreadStepKeeps
  <1>2. CASE \E t \in Clients : ClientStep(t)
    BY <1>2, ClientStepKeeps DEF LockStep
  <1>3. CASE Command
    BY <1>3, CommandStep DEF LockStep
  <1>4. CASE Killed
    BY <1>4, RestartStep DEF Killed
  <1>5. CASE UNCHANGED vars
    <2>1. UNCHANGED <<table, locks, pc, job, fd, crashes>>
      BY <1>5 DEF vars
    <2>2. /\ TableOK' /\ AbsentUnlocked' /\ fd' \in [Threads -> FdTypes]
          /\ \A f \in Files : table'[f].lock_active => table[f].lock_active
      BY <2>1 DEF IInv, TypeOK, TableOK, AbsentUnlocked, FdTypes
    <2> QED  BY <2>1, <2>2, TableStep DEF LockStep
  <1> QED  BY <1>1, <1>2, <1>3, <1>4, <1>5 DEF Next

\* A server that has just loaded its files holds no lock and has no flag up.
LEMMA InitKeeps ==
    ASSUME Init
    PROVE  IInv /\ LockService!Init
  <1>1. \A f \in Files : /\ DOMAIN table[f] = DOMAIN NoFile
                         /\ table[f].present \in BOOLEAN
                         /\ table[f].lock_active = FALSE
    <2> TAKE f \in Files
    <2>1. CASE f \in InitialFiles
      <3>1. table[f] = [present |-> TRUE, lock_active |-> FALSE, word_count |-> Len(InitialText)]
        BY <2>1 DEF Init, NewFile
      <3> QED  BY <3>1 DEF NoFile
    <2>2. CASE f \notin InitialFiles
      BY <2>2 DEF Init, NoFile
    <2> QED  BY <2>1, <2>2
  <1>2. TypeOK
    BY <1>1, NoJobType DEF Init, TypeOK, TableOK, Labels
  <1>3. Served
    BY NoJobType DEF Init, Served, WriteLabels, BadBegin
  <1>4. \A t \in Clients : ~Holding(t)
    BY DEF Init, Holding, Threads
  <1>5. LockTable /\ Held = {}
    BY <1>4 DEF LockTable, Held, Init
  <1>6. FlagNotStuck /\ AbsentUnlocked
    BY <1>1 DEF FlagNotStuck, AbsentUnlocked
  <1>7. crashes = 0
    BY DEF Init
  <1> QED  BY <1>2, <1>3, <1>5, <1>6, <1>7 DEF IInv, LockService!Init

(***************************************************************************)
(* The theorems.                                                           *)
(***************************************************************************)

\* The invariant holds in every reachable state, whatever the number of
\* connections, files and crashes.
THEOREM Invariance == Spec => []IInv
  <1>1. Init => IInv
    BY InitKeeps
  <1>2. IInv /\ [Next]_vars => IInv'
    BY NextKeeps
  <1> QED  BY <1>1, <1>2, PTL DEF Spec

\* The control state of the server is well typed.
THEOREM TypeCorrect == Spec => []TypeOK
  <1>1. IInv => TypeOK
    BY DEF IInv
  <1> QED  BY <1>1, Invariance, PTL

\* The lock table of ss_main.c lists exactly the sentences that have a WRITE
\* session, and a sentence index of a file has at most one.
THEOREM LockTableCorrect == Spec => []LockTable
  <1>1. IInv => LockTable
    BY DEF IInv
  <1> QED  BY <1>1, Invariance, PTL

\* lock_active of a file is up only while a session that will clear it runs.
THEOREM FlagReleased == Spec => []FlagNotStuck
  <1>1. IInv => FlagNotStuck
    BY DEF IInv
  <1> QED  BY <1>1, Invariance, PTL

\* The threads of a storage server implement the lock service SentenceLocks.
THEOREM LocksImplemented == Spec => ImplementsLocks
  <1>1. Init => LockService!Init
    BY InitKeeps
  <1>2. IInv /\ [Next]_vars => [LockService!Next]_<<Held, crashes>>
    BY NextKeeps DEF LockStep, Quiet
  <1> QED  BY <1>1, <1>2, Invariance, PTL DEF Spec, ImplementsLocks, LockService!Spec
=============================================================================
