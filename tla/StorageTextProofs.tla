-------------------------- MODULE StorageTextProofs -------------------------
(***************************************************************************)
(* Proofs about the documents of a storage server: that they are replaced  *)
(* as a whole, that the undo text is the one replaced, that a commit       *)
(* merges its edit into the document as it is then, and that the word      *)
(* counts are those of the documents.                                      *)
(*                                                                         *)
(* The first three hold as long as one thread stores at a time, for any    *)
(* number of connections, files, failures of the disk and crashes: because *)
(* no client writes, or because commits do not overlap and the name        *)
(* manager gives no command (OneWriter).  Overlapping stores share their   *)
(* temporary file, and TLC finds these properties violated.                *)
(*                                                                         *)
(* Only the proof about merges looks into the texts.                       *)
(***************************************************************************)
EXTENDS StorageServerProofs, SentenceTextProofs, FiniteSetTheorems

OneCommit == Requests \subseteq {"READ", "WRITE"} /\ MaxCommits <= 1 /\ IsFiniteSet(Clients)

OneWriter == "WRITE" \notin Requests \/ OneCommit

(***************************************************************************)
(* The inductive invariant.                                                *)
(***************************************************************************)

Rollback == {"UNDO", "REVERT", "SYNC"}
Changing == Rollback \cup {"WRITE"}

DataOf(t) == <<job[t].file, "data">>
UndoOf(t) == <<job[t].file, "undo">>

\* The thread is between its load and its last change of a document.
Storing(t) == \/ pc[t] \in UndoStore \cup DataStore \cup {"unlink"}
              \/ pc[t] = "load" /\ job[t].op # "READ"

\* Which thread serves what, and when it has a stream open.
Local(t) ==
    /\ pc[t] = "idle" <=> job[t].op = "none"
    /\ job[t].op \in Rollback => t = Main
    /\ job[t].op = "READ" => t \in Clients
    /\ t \in Clients /\ "WRITE" \notin Requests => job[t].op \in {"none", "READ"}
    /\ t = Main /\ Requests \subseteq {"READ", "WRITE"} => pc[t] = "idle"
    /\ pc[t] \in UndoStore => job[t].op \in Changing \ {"UNDO"}
    /\ pc[t] \in DataStore => job[t].op \in Changing
    /\ pc[t] = "unlink" => job[t].op = "UNDO"
    /\ fd[t] = IF pc[t] \in {"undo_write", "data_write"} THEN "tmp" ELSE "none"

\* What the files hold that the thread has read or written.
Kept(t) ==
    /\ job[t].op \in Changing => disk[DataOf(t)] # None
    /\ pc[t] \in {"undo_write", "data_write"} => tmp[Path(t)] = <<>>
    /\ pc[t] = "undo_rename" => tmp[UndoOf(t)] = buf[t].cur
    /\ pc[t] = "data_rename" => tmp[DataOf(t)] = buf[t].new
    /\ pc[t] \in UndoStore \cup DataStore /\ job[t].op # "UNDO" => disk[DataOf(t)] = buf[t].cur
    /\ pc[t] \in DataStore /\ job[t].op # "UNDO" => disk[UndoOf(t)] = buf[t].cur
    /\ pc[t] \in DataStore /\ job[t].op = "UNDO" => disk[UndoOf(t)] = buf[t].new

Alone == \A t, u \in Threads : Storing(t) /\ Storing(u) => t = u

\* A file in the table, or one that a restart finds, has a document.
HasText == \A f \in Files : table[f].present \/ meta[f] # None => disk[<<f, "data">>] # None

Shape == /\ DOMAIN disk = Paths /\ DOMAIN tmp = Paths /\ DOMAIN meta = Files
         /\ DOMAIN buf = Threads /\ \A t \in Threads : DOMAIN buf[t] = {"cur", "new"}

TextInv == /\ Shape /\ HasText /\ Alone
           /\ \A t \in Threads : Local(t) /\ Kept(t)

\* The main thread has replaced the document and not yet its counters.
Behind(f) == pc[Main] \in {"unlink", "meta"} /\ job[Main].file = f

\* The counters in memory are those of the document unless the main thread is
\* about to write them, and so are those in the .meta file unless the disk
\* may fail.
Counted ==
    /\ pc[Main] \in {"unlink", "meta"} => disk[DataOf(Main)] = buf[Main].new
    /\ \A f \in Files : table[f].present =>
          /\ DiskMayFail \/ meta[f] = table[f].word_count
          /\ Behind(f) \/ table[f].word_count = count_words_in_text(disk[<<f, "data">>])

(***************************************************************************)
(* Steps of one thread.                                                    *)
(***************************************************************************)

BufShape == DOMAIN buf = Threads /\ \A t \in Threads : DOMAIN buf[t] = {"cur", "new"}

\* Only the thread's own variables change.
Own(t) == \A u \in Threads \ {t} :
             pc'[u] = pc[u] /\ job'[u] = job[u] /\ buf'[u] = buf[u] /\ fd'[u] = fd[u]

\* Goto moves one thread; when its handler ends, its request is gone.
LEMMA GotoLocal ==
    ASSUME TypeOK, BufShape, NEW t \in Threads, NEW l, NEW r, Goto(t, l, r)
    PROVE  /\ pc'[t] = l
           /\ \A u \in Threads \ {t} : pc'[u] = pc[u] /\ job'[u] = job[u] /\ buf'[u] = buf[u]
           /\ l = "idle" => job'[t].op = "none"
           /\ l # "idle" => job' = job /\ buf' = buf
           /\ BufShape'
<1>1. pc'[t] = l /\ \A u \in Threads \ {t} : pc'[u] = pc[u]
  BY DEF Goto, TypeOK
<1>2. CASE l = "idle"
  <2>1. job' = [job EXCEPT ![t] = NoJob] /\ buf' = [buf EXCEPT ![t] = NoTexts]
    BY <1>2 DEF Goto
  <2>2. job'[t].op = "none" /\ \A u \in Threads \ {t} : job'[u] = job[u]
    BY <2>1, NoJobType DEF TypeOK
  <2>3. BufShape' /\ \A u \in Threads \ {t} : buf'[u] = buf[u]
    BY <2>1 DEF BufShape, NoTexts
  <2> QED
    BY <1>1, <1>2, <2>2, <2>3
<1>3. CASE l # "idle"
  <2>1. job' = job /\ buf' = buf
    BY <1>3 DEF Goto, local
  <2> QED
    BY <1>1, <1>3, <2>1 DEF BufShape
<1> QED
  BY <1>2, <1>3

\* The part of the invariant about a thread that is not storing depends only
\* on the documents being there.
LEMMA OtherKept ==
    ASSUME TypeOK, NEW u \in Threads, Local(u), Kept(u),
           pc'[u] = pc[u], job'[u] = job[u], buf'[u] = buf[u], fd'[u] = fd[u],
           \/ disk' = disk /\ tmp' = tmp
           \/ ~Storing(u) /\ \A f \in Files : disk[<<f, "data">>] # None => disk'[<<f, "data">>] # None
    PROVE  Local(u)' /\ Kept(u)' /\ (Storing(u)' <=> Storing(u))
<1>1. Local(u)' /\ (Storing(u)' <=> Storing(u))
  BY DEF Local, Storing
<1>2. CASE disk' = disk /\ tmp' = tmp
  BY <1>1, <1>2 DEF Kept, DataOf, UndoOf, Path
<1>3. CASE ~Storing(u) /\ \A f \in Files : disk[<<f, "data">>] # None => disk'[<<f, "data">>] # None
  <2>1. pc[u] \notin UndoStore \cup DataStore
    BY <1>3 DEF Storing
  <2>2. job[u].file \in Files
    BY DEF TypeOK
  <2>3. job[u].op \in Changing => disk'[<<job[u].file, "data">>] # None
    BY <1>3, <2>2 DEF Kept, DataOf
  <2> QED
    BY <1>1, <2>1, <2>3 DEF Kept, DataOf, UndoStore, DataStore
<1> QED
  BY <1>2, <1>3

\* A step of one thread keeps the invariant if it keeps the part about this
\* thread, and changes files only while it is the one that stores.
LEMMA OneThread ==
    ASSUME TypeOK, TextInv, NEW t \in Threads, Own(t), Shape', HasText',
           Local(t)', Kept(t)',
           \/ disk' = disk /\ tmp' = tmp
           \/ /\ Storing(t)
              /\ \A f \in Files : disk[<<f, "data">>] # None => disk'[<<f, "data">>] # None,
           Storing(t)' => Storing(t) \/ \A u \in Threads \ {t} : ~Storing(u)
    PROVE  TextInv'
<1>1. ASSUME NEW u \in Threads \ {t}
      PROVE  Local(u)' /\ Kept(u)' /\ (Storing(u)' <=> Storing(u))
  <2>1. Storing(t) => ~Storing(u)
    BY DEF TextInv, Alone
  <2>2. Local(u) /\ Kept(u)
    BY DEF TextInv
  <2> QED
    BY <2>1, <2>2, OtherKept DEF Own
<1>2. Alone'
  <2>1. SUFFICES ASSUME NEW u \in Threads \ {t}, Storing(t)', Storing(u)' PROVE FALSE
    BY <1>1 DEF TextInv, Alone
  <2> QED
    BY <1>1, <2>1 DEF TextInv, Alone
<1> QED
  BY <1>1, <1>2 DEF TextInv

\* No step but a command and a restart makes files appear or disappear.
LEMMA TextsStay ==
    ASSUME TextInv, disk' = disk,
           \A f \in Files : table'[f].present => table[f].present,
           \A f \in Files : meta'[f] # None => meta[f] # None \/ table[f].present
    PROVE  HasText'
BY DEF TextInv, HasText

\* set_file_lock_state changes nothing but the flag.
LEMMA FlagOnly ==
    ASSUME TableOK, NEW f \in Files, NEW active, set_file_lock_state(f, active)
    PROVE  \A g \in Files : /\ table'[g].present = table[g].present
                            /\ table'[g].word_count = table[g].word_count
<1>1. CASE table' = table
  BY <1>1
<1>2. CASE table' = [table EXCEPT ![f].lock_active = active]
  <2>1. table' = [table EXCEPT ![f] = [table[f] EXCEPT !.lock_active = active]]
    BY <1>2 DEF TableOK
  <2>2. table'[f] = [table[f] EXCEPT !.lock_active = active]
        /\ \A g \in Files \ {f} : table'[g] = table[g]
    BY <2>1 DEF TableOK
  <2>3. table'[f].present = table[f].present /\ table'[f].word_count = table[f].word_count
    BY <2>2 DEF TableOK, NoFile
  <2> QED
    BY <2>2, <2>3
<1> QED
  BY <1>1, <1>2 DEF set_file_lock_state

\* A step of a session away from the files: the thread goes on or ends.
LEMMA SessionText ==
    ASSUME IInv, TextInv, NEW t \in Threads, NEW l, NEW r, Goto(t, l, r),
           pc[t] \notin {"idle", "undo_write", "data_write"},
           l \notin UndoStore \cup DataStore \cup {"unlink", "load"},
           UNCHANGED <<disk, tmp, fd>>, DOMAIN meta' = Files, HasText'
    PROVE  TextInv'
<1>1. TypeOK /\ BufShape /\ Shape
  BY DEF IInv, TextInv, Shape, BufShape
<1>2. /\ pc'[t] = l
      /\ \A u \in Threads \ {t} : pc'[u] = pc[u] /\ job'[u] = job[u] /\ buf'[u] = buf[u]
      /\ l = "idle" => job'[t].op = "none"
      /\ l # "idle" => job' = job /\ buf' = buf
      /\ BufShape'
  BY <1>1, GotoLocal
<1>3. Shape'
  BY <1>1, <1>2 DEF Shape, BufShape
<1>4. Local(t) /\ Kept(t)
  BY DEF TextInv
<1>5. fd'[t] = "none"
  BY <1>4 DEF Local
<1>6. Local(t)'
  BY <1>2, <1>4, <1>5 DEF Local, UndoStore, DataStore, Rollback, Changing
<1>7. Kept(t)'
  BY <1>2, <1>4 DEF Kept, UndoStore, DataStore, DataOf, Changing, Rollback
<1>8. ~Storing(t)'
  BY <1>2 DEF Storing
<1> QED
  BY <1>1, <1>2, <1>3, <1>6, <1>7, <1>8, OneThread DEF Own

\* The steps of handle_write that touch locks, flags and counters.
LEMMA ControlText ==
    ASSUME IInv, TextInv, NEW t \in Threads,
           \/ sentence_lock_acquire(t) \/ SetFlag(t) \/ BeginFails(t) \/ BadBeginFlag(t)
           \/ BadBeginRelease(t) \/ Release(t) \/ ClearFlag(t) \/ WriteAbort(t) \/ Account(t)
    PROVE  TextInv'
<1>1. TableOK /\ job[t].file \in Files /\ Shape
  BY DEF IInv, TypeOK, TextInv
<1>2. UNCHANGED <<disk, tmp, fd>>
  BY DEF sentence_lock_acquire, SetFlag, BeginFails, BadBeginFlag, BadBeginRelease, Release,
     ClearFlag, WriteAbort, Account, store
<1>3. CASE Account(t)
  <2> DEFINE f == job[t].file
  <2>1. pc[t] = "meta" /\ Goto(t, After(t), reply[t]) /\ After(t) \in {"release", "idle"}
    BY <1>3 DEF Account, After
  <2>2. CASE table[f].present
    <3>1. PICK w : /\ table' = [table EXCEPT ![f].word_count = w,
                                             ![f].lock_active = @ /\ job[t].op # "WRITE"]
                   /\ write_meta_file(f, w)
      BY <1>3, <2>2 DEF Account
    <3>2. DOMAIN meta' = Files /\ \A g \in Files : meta'[g] # None => meta[g] # None \/ table[g].present
      BY <1>1, <2>2, <3>1 DEF Shape, write_meta_file
    <3>3. \A g \in Files : table'[g].present => table[g].present
      <4>1. \A g \in Files \ {f} : table'[g] = table[g]
        BY <1>1, <3>1 DEF TableOK
      <4> QED
        BY <4>1, <2>2
    <3> QED
      BY <1>2, <2>1, <3>2, <3>3, TextsStay, SessionText DEF UndoStore, DataStore
  <2>3. CASE ~table[f].present
    <3>1. UNCHANGED <<table, meta>>
      BY <1>3, <2>3 DEF Account
    <3> QED
      BY <1>1, <1>2, <2>1, <3>1, TextsStay, SessionText DEF UndoStore, DataStore, Shape
  <2> QED
    BY <2>2, <2>3
<1>4. CASE ~Account(t)
  <2>1. meta' = meta
    BY <1>4 DEF sentence_lock_acquire, SetFlag, BeginFails, BadBeginFlag, BadBeginRelease,
       Release, ClearFlag, WriteAbort, store
  <2>2. \A g \in Files : table'[g].present = table[g].present
    <3>1. CASE table' = table
      BY <3>1
    <3>2. CASE \E active \in BOOLEAN : set_file_lock_state(job[t].file, active)
      BY <1>1, <3>2, FlagOnly
    <3> QED
      BY <1>4, <3>1, <3>2 DEF sentence_lock_acquire, SetFlag, BeginFails, BadBeginFlag,
         BadBeginRelease, Release, ClearFlag, WriteAbort
  <2>3. HasText'
    BY <1>2, <2>1, <2>2, TextsStay
  <2>4. /\ pc[t] \in {"acquire", "flag", "begin", "badflag", "badrelease", "release", "clear", "edit"}
        /\ \E l \in {"idle", "flag", "begin", "badflag", "badrelease", "clear", "release"}, r \in
              {"locked", "none", "failed", reply[t], "aborted"} : Goto(t, l, r)
    BY <1>4 DEF sentence_lock_acquire, SetFlag, BeginFails, BadBeginFlag, BadBeginRelease,
       Release, ClearFlag, WriteAbort
  <2> QED
    BY <1>1, <1>2, <2>1, <2>3, <2>4, SessionText DEF UndoStore, DataStore, Shape
<1> QED
  BY <1>3, <1>4

\* A session begins or is edited: only the session itself changes.
LEMMA EditText ==
    ASSUME IInv, TextInv, NEW t \in Threads, write_session_begin(t) \/ Edit(t)
    PROVE  TextInv'
<1>1. /\ pc[t] \in {"begin", "edit"} /\ (pc' = pc \/ pc' = [pc EXCEPT ![t] = "edit"])
      /\ UNCHANGED <<table, disk, tmp, meta, job, buf, fd>>
  BY DEF write_session_begin, Edit, store
<1>2. pc'[t] \in {"begin", "edit"} /\ \A u \in Threads \ {t} : pc'[u] = pc[u]
  BY <1>1 DEF IInv, TypeOK
<1>3. Local(t) /\ Kept(t)
  BY DEF TextInv
<1>4. Local(t)'
  BY <1>1, <1>2, <1>3 DEF Local, UndoStore, DataStore
<1>5. Kept(t)'
  BY <1>1, <1>2, <1>3 DEF Kept, DataOf, UndoStore, DataStore
<1>6. ~Storing(t)'
  BY <1>2 DEF Storing, UndoStore, DataStore
<1>7. Shape' /\ HasText'
  BY <1>1 DEF TextInv, Shape, HasText
<1> QED
  BY <1>1, <1>2, <1>4, <1>5, <1>6, <1>7, OneThread DEF Own, IInv

\* A commit begins when no other is under way, so the thread is the only one
\* to store.
LEMMA CommitText ==
    ASSUME OneWriter, IInv, TextInv, NEW t \in Clients, WriteCommit(t)
    PROVE  TextInv'
<1> DEFINE busy == {u \in Clients : pc[u] \in {"load"} \cup UndoStore \cup DataStore}
<1>1. t \in Threads /\ pc[t] = "edit" /\ job[t].op = "WRITE" /\ Local(t) /\ Kept(t)
  BY DEF WriteCommit, Threads, IInv, Served, WriteLabels, TextInv
<1>2. Requests \subseteq {"READ", "WRITE"} /\ MaxCommits <= 1 /\ IsFiniteSet(Clients)
  BY <1>1 DEF OneWriter, OneCommit, Local
<1>3. busy = {}
  <2>1. IsFiniteSet(busy)
    BY <1>2, FS_Subset
  <2>2. Cardinality(busy) < 1 /\ Cardinality(busy) \in Nat
    BY <1>2, <2>1, FS_CardinalityType, ServerAssumption DEF WriteCommit
  <2> QED
    BY <2>1, <2>2, FS_EmptySet
<1>4. ASSUME NEW u \in Threads PROVE ~Storing(u)
  <2>1. CASE u = Main
    BY <1>2, <2>1 DEF TextInv, Local, Storing, UndoStore, DataStore
  <2>2. CASE u \in Clients
    <3>1. pc[u] \notin {"load"} \cup UndoStore \cup DataStore
      BY <1>3, <2>2
    <3>2. pc[u] # "unlink"
      BY <2>2, ServerAssumption DEF TextInv, Local, Rollback
    <3> QED
      BY <3>1, <3>2 DEF Storing
  <2> QED
    BY <2>1, <2>2 DEF Threads
<1>5. TypeOK /\ BufShape /\ Shape /\ UNCHANGED <<table, disk, tmp, meta, fd>>
  BY DEF IInv, TextInv, Shape, BufShape, WriteCommit, store
<1>6. pc'[t] = "load" /\ job' = job /\ buf' = buf
      /\ \A u \in Threads \ {t} : pc'[u] = pc[u]
  BY <1>1, <1>5, GotoLocal DEF WriteCommit
<1>7. Local(t)'
  BY <1>1, <1>5, <1>6, ServerAssumption DEF Local, UndoStore, DataStore
<1>8. Kept(t)'
  BY <1>1, <1>5, <1>6 DEF Kept, DataOf, UndoStore, DataStore
<1>9. Shape' /\ HasText'
  BY <1>5, <1>6 DEF TextInv, Shape, HasText
<1> QED
  BY <1>1, <1>4, <1>5, <1>6, <1>7, <1>8, <1>9, OneThread DEF Own

\* A client's request is taken on.
LEMMA RequestText ==
    ASSUME IInv, TextInv, NEW t \in Clients, NEW f \in Files,
           ReadRequest(t, f) \/ \E i \in Indices : WriteRequest(t, f, i)
    PROVE  TextInv'
<1>1. t \in Threads /\ pc[t] = "idle" /\ table[f].present /\ Local(t) /\ Kept(t)
  BY DEF ReadRequest, WriteRequest, Accept, Threads, TextInv
<1>2. TypeOK /\ Shape /\ UNCHANGED <<table, disk, tmp, meta, buf, fd>>
  BY DEF IInv, TextInv, ReadRequest, WriteRequest, Accept, store
<1>3. \A u \in Threads \ {t} : pc'[u] = pc[u] /\ job'[u] = job[u]
  BY <1>1, <1>2 DEF ReadRequest, WriteRequest, Accept, TypeOK
<1>4. /\ job'[t].file = f
      /\ \/ pc'[t] = "load" /\ job'[t].op = "READ"
         \/ pc'[t] = "acquire" /\ job'[t].op = "WRITE" /\ "WRITE" \in Requests
  BY <1>1, <1>2 DEF ReadRequest, WriteRequest, Accept, TypeOK
<1>5. Local(t)'
  BY <1>1, <1>2, <1>4, ServerAssumption DEF Local, UndoStore, DataStore, Rollback
<1>6. Kept(t)'
  <2>1. disk'[DataOf(t)'] # None
    BY <1>1, <1>2, <1>4 DEF TextInv, HasText, DataOf
  <2> QED
    BY <1>4, <2>1 DEF Kept, UndoStore, DataStore, DataOf
<1>7. ~Storing(t)'
  BY <1>4 DEF Storing, UndoStore, DataStore
<1>8. Shape' /\ HasText'
  BY <1>2 DEF TextInv, Shape, HasText
<1> QED
  BY <1>1, <1>2, <1>3, <1>5, <1>6, <1>7, <1>8, OneThread DEF Own

(***************************************************************************)
(* Loading and storing.                                                    *)
(***************************************************************************)

\* A handler reads what it will need: the document, or the undo text.
LEMMA LoadText ==
    ASSUME IInv, TextInv, NEW t \in Threads,
           CommitLoad(t) \/ UndoLoad(t) \/ LoadCurrent(t)
    PROVE  TextInv'
<1>1. TypeOK /\ BufShape /\ Shape /\ Local(t) /\ Kept(t) /\ pc[t] = "load"
      /\ UNCHANGED <<table, disk, tmp, meta, fd>>
  BY DEF IInv, TextInv, Shape, BufShape, CommitLoad, UndoLoad, LoadCurrent, store
<1>2. (Shape' /\ HasText') \/ (UndoLoad(t) /\ disk[UndoOf(t)] = None)
  <2>1. HasText'
    BY <1>1 DEF TextInv, HasText
  <2>2. CASE ~(UndoLoad(t) /\ disk[UndoOf(t)] = None)
    <3>1. \/ \E b : buf' = [buf EXCEPT ![t].new = b]
          \/ \E b : buf' = [buf EXCEPT ![t].cur = b]
          \/ \E b, c : buf' = [buf EXCEPT ![t] = [cur |-> b, new |-> c]]
      BY <2>2 DEF CommitLoad, UndoLoad, LoadCurrent, UndoOf
    <3>2. BufShape'
      <4>1. ASSUME NEW b PROVE DOMAIN [buf[t] EXCEPT !.new = b] = {"cur", "new"}
                               /\ DOMAIN [buf[t] EXCEPT !.cur = b] = {"cur", "new"}
        BY <1>1 DEF BufShape
      <4>2. ASSUME NEW b, NEW c PROVE DOMAIN [cur |-> b, new |-> c] = {"cur", "new"}
        OBVIOUS
      <4>3. PICK r : buf' = [buf EXCEPT ![t] = r] /\ DOMAIN r = {"cur", "new"}
        <5>1. ASSUME NEW b, buf' = [buf EXCEPT ![t].new = b]
              PROVE  buf' = [buf EXCEPT ![t] = [buf[t] EXCEPT !.new = b]]
          BY <1>1, <5>1 DEF BufShape
        <5>2. ASSUME NEW b, buf' = [buf EXCEPT ![t].cur = b]
              PROVE  buf' = [buf EXCEPT ![t] = [buf[t] EXCEPT !.cur = b]]
          BY <1>1, <5>2 DEF BufShape
        <5> QED
          BY <3>1, <4>1, <4>2, <5>1, <5>2
      <4> QED
        BY <1>1, <4>3 DEF BufShape
    <3> QED
      BY <1>1, <2>1, <3>2 DEF Shape, BufShape
  <2> QED
    BY <2>1, <2>2
<1>3. ASSUME Shape', HasText', NEW l \in {"undo_open", "data_open", "meta"},
             pc' = [pc EXCEPT ![t] = l], job' = job,
             \A u \in Threads \ {t} : buf'[u] = buf[u],
             Local(t)', Kept(t)', l # "meta" => Storing(t)
      PROVE  TextInv'
  <2>1. \A u \in Threads \ {t} : pc'[u] = pc[u]
    BY <1>1, <1>3 DEF TypeOK
  <2>2. Storing(t)' => Storing(t)
    BY <1>1, <1>3 DEF Storing, UndoStore, DataStore, TypeOK
  <2> QED
    BY <1>1, <1>3, <2>1, <2>2, OneThread DEF Own
<1>4. CASE CommitLoad(t) \/ (LoadCurrent(t) /\ job[t].op # "READ")
  <2>1. job[t].op \in Changing \ {"UNDO"} /\ pc' = [pc EXCEPT ![t] = "undo_open"] /\ job' = job
    BY <1>4 DEF CommitLoad, LoadCurrent, Changing, Rollback
  <2>2. disk[DataOf(t)] # None /\ load_text(DataOf(t)) = disk[DataOf(t)]
    BY <1>1, <2>1 DEF Kept, load_text
  <2>3. buf'[t].cur = disk[DataOf(t)] /\ \A u \in Threads \ {t} : buf'[u] = buf[u]
    <3>1. CASE CommitLoad(t)
      BY <1>1, <2>2, <3>1 DEF CommitLoad, BufShape, DataOf
    <3>2. CASE LoadCurrent(t)
      <4>1. buf' = [buf EXCEPT ![t] = [buf[t] EXCEPT !.cur = disk[DataOf(t)]]]
        BY <1>1, <2>2, <3>2 DEF LoadCurrent, BufShape, DataOf
      <4> QED
        BY <1>1, <4>1 DEF BufShape
    <3> QED
      BY <1>4, <3>1, <3>2
  <2>4. pc'[t] = "undo_open"
    BY <1>1, <2>1 DEF TypeOK
  <2>5. Local(t)'
    BY <1>1, <2>1, <2>4 DEF Local, UndoStore, DataStore
  <2>6. Kept(t)'
    BY <1>1, <2>1, <2>2, <2>3, <2>4 DEF Kept, UndoStore, DataStore, DataOf
  <2>7. Storing(t)
    BY <1>1, <2>1 DEF Storing, Changing, Rollback
  <2>8. ~UndoLoad(t)
    BY <2>1 DEF UndoLoad
  <2> QED
    BY <1>2, <1>3, <2>1, <2>3, <2>5, <2>6, <2>7, <2>8
<1>5. CASE LoadCurrent(t) /\ job[t].op = "READ"
  <2>1. pc' = [pc EXCEPT ![t] = "meta"] /\ job' = job
        /\ \A u \in Threads \ {t} : buf'[u] = buf[u]
    BY <1>1, <1>5 DEF LoadCurrent, BufShape
  <2>2. pc'[t] = "meta"
    BY <1>1, <2>1 DEF TypeOK
  <2>3. Local(t)'
    BY <1>1, <2>1, <2>2 DEF Local, UndoStore, DataStore
  <2>4. Kept(t)'
    BY <1>1, <1>5, <2>1, <2>2 DEF Kept, UndoStore, DataStore, DataOf, Changing, Rollback
  <2>5. ~UndoLoad(t)
    BY <1>5 DEF UndoLoad
  <2> QED
    BY <1>2, <1>3, <2>1, <2>3, <2>4, <2>5
<1>6. CASE UndoLoad(t) /\ disk[UndoOf(t)] # None
  <2>1. job[t].op = "UNDO" /\ pc' = [pc EXCEPT ![t] = "data_open"] /\ job' = job
        /\ buf' = [buf EXCEPT ![t].new = disk[UndoOf(t)]]
    BY <1>6 DEF UndoLoad, UndoOf
  <2>2. buf'[t].new = disk[UndoOf(t)] /\ \A u \in Threads \ {t} : buf'[u] = buf[u]
    <3>1. buf' = [buf EXCEPT ![t] = [buf[t] EXCEPT !.new = disk[UndoOf(t)]]]
      BY <1>1, <2>1 DEF BufShape
    <3> QED
      BY <1>1, <3>1 DEF BufShape
  <2>3. pc'[t] = "data_open"
    BY <1>1, <2>1 DEF TypeOK
  <2>4. Local(t)'
    BY <1>1, <2>1, <2>3 DEF Local, UndoStore, DataStore, Changing, Rollback
  <2>5. Kept(t)'
    BY <1>1, <2>1, <2>2, <2>3 DEF Kept, UndoStore, DataStore, DataOf, UndoOf
  <2>6. Storing(t)
    BY <1>1, <2>1 DEF Storing
  <2> QED
    BY <1>2, <1>3, <1>6, <2>1, <2>2, <2>4, <2>5, <2>6
<1>7. CASE UndoLoad(t) /\ disk[UndoOf(t)] = None
  <2>1. Goto(t, "idle", "conflict")
    BY <1>7 DEF UndoLoad, UndoOf
  <2>2. HasText' /\ DOMAIN meta' = Files
    BY <1>1 DEF TextInv, HasText, Shape
  <2> QED
    BY <1>1, <2>1, <2>2, SessionText DEF UndoStore, DataStore
<1> QED
  BY <1>4, <1>5, <1>6, <1>7

\* Whoever renames or unlinks, or cannot, no stream of another thread is on that path.
LEMMA NoStreams ==
    ASSUME TypeOK, TextInv, NEW t \in Threads, Storing(t),
           pc[t] \notin {"undo_write", "data_write"}, NEW P,
           Relink(P, Renamed) \/ Relink(P, Unlinked) \/ Relink(P, TmpUnlinked) \/ UNCHANGED fd
    PROVE  \A u \in Threads : fd[u] = "none" /\ fd'[u] = "none"
<1>1. ASSUME NEW u \in Threads PROVE fd[u] = "none"
  <2>1. CASE u = t
    BY <2>1 DEF TextInv, Local
  <2>2. CASE u # t
    <3>1. ~Storing(u)
      BY <2>2 DEF TextInv, Alone
    <3> QED
      BY <3>1 DEF TextInv, Local, Storing, UndoStore, DataStore
  <2> QED
    BY <2>1, <2>2
<1> QED
  BY <1>1 DEF Relink, Renamed, Unlinked, TmpUnlinked

\* The paths of a thread.
LEMMA PathsOf ==
    ASSUME TypeOK, NEW t \in Threads
    PROVE  /\ DataOf(t) \in Paths /\ UndoOf(t) \in Paths /\ DataOf(t) # UndoOf(t)
           /\ pc[t] \in UndoStore => Path(t) = UndoOf(t)
           /\ pc[t] \notin UndoStore => Path(t) = DataOf(t)
           /\ Path(t) \in Paths
           /\ \A f \in Files : <<f, "data">> # UndoOf(t) /\ <<f, "data">> \in Paths
<1>1. job[t].file \in Files
  BY DEF TypeOK
<1> QED
  BY <1>1 DEF Paths, DataOf, UndoOf, Path

\* The temporary file is opened, or cannot be.
LEMMA OpenText ==
    ASSUME IInv, TextInv, NEW t \in Threads, UndoOpen(t) \/ DataOpen(t)
    PROVE  TextInv'
<1>1. TypeOK /\ BufShape /\ Shape /\ Local(t) /\ Kept(t)
      /\ pc[t] \in {"undo_open", "data_open"} /\ UNCHANGED <<table, disk, meta>>
  BY DEF IInv, TextInv, Shape, BufShape, UndoOpen, DataOpen, StoreOpen, store
<1>2. HasText'
  BY <1>1 DEF TextInv, HasText
<1>3. ASSUME NEW l, Goto(t, l, reply[t]), UNCHANGED <<disk, meta>>,
             \/ pc[t] = "undo_open" /\ l = "undo_write"
             \/ pc[t] = "data_open" /\ l = "data_write",
             tmp' = [tmp EXCEPT ![Path(t)] = <<>>], fd' = [fd EXCEPT ![t] = "tmp"]
      PROVE  TextInv'
  <2>1. pc'[t] = l /\ job' = job /\ buf' = buf /\ BufShape'
        /\ \A u \in Threads \ {t} : pc'[u] = pc[u]
    BY <1>1, <1>3, GotoLocal
  <2>2. fd'[t] = "tmp" /\ \A u \in Threads \ {t} : fd'[u] = fd[u]
    BY <1>1, <1>3 DEF TypeOK
  <2>3. Path(t)' = Path(t) /\ tmp'[Path(t)] = <<>>
    BY <1>1, <1>3, <2>1, PathsOf DEF Path, UndoStore, Shape
  <2>4. Shape'
    BY <1>1, <1>3, <2>1 DEF Shape, BufShape
  <2>5. Local(t)'
    BY <1>1, <1>3, <2>1, <2>2 DEF Local, UndoStore, DataStore
  <2>6. Kept(t)'
    BY <1>1, <1>3, <2>1, <2>3 DEF Kept, DataOf, UndoOf, UndoStore, DataStore
  <2>7. Storing(t)
    BY <1>1 DEF Storing, UndoStore, DataStore
  <2> QED
    BY <1>1, <1>2, <2>1, <2>2, <2>4, <2>5, <2>6, <2>7, OneThread DEF Own
<1>4. CASE Goto(t, After(t), "failed") /\ UNCHANGED <<store, fd>>
  BY <1>1, <1>2, <1>4, SessionText DEF After, UndoStore, DataStore, store, Shape
<1>5. CASE UndoOpen(t)
  BY <1>3, <1>4, <1>5 DEF UndoOpen, StoreOpen
<1>6. CASE DataOpen(t)
  BY <1>3, <1>4, <1>6 DEF DataOpen, StoreOpen
<1> QED
  BY <1>5, <1>6

\* The text is written to the empty temporary file, which then holds it all;
\* or the write fails, whatever the file holds then.
LEMMA WriteText ==
    ASSUME IInv, TextInv, NEW t \in Threads, UndoWrite(t) \/ DataWrite(t)
    PROVE  TextInv' /\ disk' = disk
<1>1. TypeOK /\ BufShape /\ Shape /\ Local(t) /\ Kept(t)
      /\ pc[t] \in {"undo_write", "data_write"} /\ UNCHANGED <<table, meta>>
      /\ fd' = [fd EXCEPT ![t] = "none"]
  BY DEF IInv, TextInv, Shape, BufShape, UndoWrite, DataWrite, StoreWrite
<1>2. fd[t] = "tmp" /\ tmp[Path(t)] = <<>> /\ Path(t) \in Paths
  BY <1>1, PathsOf DEF Local, Kept
<1>3. ASSUME NEW text, Written(t, text)
      PROVE  disk' = disk /\ tmp' = [tmp EXCEPT ![Path(t)] = text]
  BY <1>1, <1>2, <1>3 DEF Written, Overlay, Shape
<1>4. ASSUME NEW l, NEW r, Goto(t, l, r), disk' = disk, tmp' = tmp \/ \E x : tmp' = [tmp EXCEPT ![Path(t)] = x],
             \/ pc[t] = "undo_write" /\ l = "undo_drop"
             \/ pc[t] = "data_write" /\ l = "data_drop"
             \/ pc[t] = "undo_write" /\ l = "undo_rename" /\ tmp'[UndoOf(t)] = buf[t].cur
             \/ pc[t] = "data_write" /\ l = "data_rename" /\ tmp'[DataOf(t)] = buf[t].new
      PROVE  TextInv'
  <2>1. pc'[t] = l /\ job' = job /\ buf' = buf /\ BufShape'
        /\ \A u \in Threads \ {t} : pc'[u] = pc[u]
    BY <1>1, <1>4, GotoLocal
  <2>2. fd'[t] = "none" /\ \A u \in Threads \ {t} : fd'[u] = fd[u]
    BY <1>1 DEF TypeOK
  <2>3. Shape' /\ HasText'
    BY <1>1, <1>4, <2>1 DEF Shape, BufShape, TextInv, HasText
  <2>4. Local(t)'
    BY <1>1, <1>4, <2>1, <2>2 DEF Local, UndoStore, DataStore
  <2>5. Kept(t)'
    BY <1>1, <1>4, <2>1 DEF Kept, DataOf, UndoOf, UndoStore, DataStore
  <2>6. Storing(t)
    BY <1>1 DEF Storing, UndoStore, DataStore
  <2> QED
    BY <1>1, <1>4, <2>1, <2>2, <2>3, <2>4, <2>5, <2>6, OneThread DEF Own
<1>5. CASE UndoWrite(t)
  <2>1. Path(t) = UndoOf(t) /\ Drop(t) = "undo_drop" /\ pc[t] = "undo_write"
    BY <1>1, <1>5, PathsOf DEF UndoWrite, Drop, UndoStore
  <2>2. CASE Written(t, buf[t].cur) /\ Goto(t, "undo_rename", reply[t])
    <3>1. tmp' = [tmp EXCEPT ![Path(t)] = buf[t].cur] /\ tmp'[UndoOf(t)] = buf[t].cur /\ disk' = disk
      BY <1>1, <1>2, <1>3, <2>1, <2>2 DEF Shape
    <3> QED
      BY <1>4, <2>1, <2>2, <3>1
  <2>3. CASE /\ Written(t, buf[t].cur) \/ UNCHANGED <<disk, tmp>>
             /\ Goto(t, Drop(t), "failed")
    <3>1. disk' = disk /\ (tmp' = tmp \/ \E x : tmp' = [tmp EXCEPT ![Path(t)] = x])
      BY <1>3, <2>3
    <3> QED
      BY <1>4, <2>1, <2>3, <3>1
  <2> QED
    BY <1>5, <2>2, <2>3 DEF UndoWrite, StoreWrite
<1>6. CASE DataWrite(t)
  <2>1. Path(t) = DataOf(t) /\ Drop(t) = "data_drop" /\ pc[t] = "data_write"
    BY <1>1, <1>6, PathsOf DEF DataWrite, Drop, UndoStore
  <2>2. CASE Written(t, buf[t].new) /\ Goto(t, "data_rename", reply[t])
    <3>1. tmp' = [tmp EXCEPT ![Path(t)] = buf[t].new] /\ tmp'[DataOf(t)] = buf[t].new /\ disk' = disk
      BY <1>1, <1>2, <1>3, <2>1, <2>2 DEF Shape
    <3> QED
      BY <1>4, <2>1, <2>2, <3>1
  <2>3. CASE /\ Written(t, buf[t].new) \/ UNCHANGED <<disk, tmp>>
             /\ Goto(t, Drop(t), "failed")
    <3>1. disk' = disk /\ (tmp' = tmp \/ \E x : tmp' = [tmp EXCEPT ![Path(t)] = x])
      BY <1>3, <2>3
    <3> QED
      BY <1>4, <2>1, <2>3, <3>1
  <2> QED
    BY <1>6, <2>2, <2>3 DEF DataWrite, StoreWrite
<1> QED
  BY <1>5, <1>6

\* What a rename does: the undo text becomes the document that was read, the
\* document becomes the new text; or nothing changes.
RenameResult(t) ==
    \/ /\ pc[t] = "undo_rename" /\ pc'[t] = "data_open"
       /\ disk' = [disk EXCEPT ![UndoOf(t)] = buf[t].cur]
    \/ /\ pc[t] = "data_rename" /\ pc'[t] = IF job[t].op = "UNDO" THEN "unlink" ELSE "meta"
       /\ disk' = [disk EXCEPT ![DataOf(t)] = buf[t].new] /\ buf[t].new # None
    \/ /\ pc[t] \in {"undo_rename", "data_rename"} /\ pc'[t] \in {"undo_drop", "data_drop"}
       /\ disk' = disk

\* The rename of store_text_atomic puts in place what the thread wrote, since
\* no other thread has used the temporary name meanwhile.
LEMMA RenameText ==
    ASSUME IInv, TextInv, NEW t \in Threads, UndoRename(t) \/ DataRename(t)
    PROVE  TextInv' /\ RenameResult(t) /\ job' = job /\ buf' = buf
<1>1. TypeOK /\ BufShape /\ Shape /\ Local(t) /\ Kept(t)
      /\ pc[t] \in {"undo_rename", "data_rename"} /\ UNCHANGED <<table, meta>>
  BY DEF IInv, TextInv, Shape, BufShape, UndoRename, DataRename, StoreRename, store
<1>2. Storing(t)
  BY <1>1 DEF Storing, UndoStore, DataStore
<1>3. ASSUME NEW l, NEW r, Goto(t, l, r), l # "idle", Shape', HasText', \A u \in Threads : fd'[u] = fd[u],
             \/ pc[t] = "undo_rename" /\ l = "undo_drop" /\ disk' = disk
             \/ pc[t] = "data_rename" /\ l = "data_drop" /\ disk' = disk
             \/ /\ pc[t] = "undo_rename" /\ l = "data_open"
                /\ disk' = [disk EXCEPT ![UndoOf(t)] = buf[t].cur]
             \/ /\ pc[t] = "data_rename" /\ l = IF job[t].op = "UNDO" THEN "unlink" ELSE "meta"
                /\ disk' = [disk EXCEPT ![DataOf(t)] = buf[t].new] /\ buf[t].new # None
      PROVE  TextInv' /\ RenameResult(t) /\ job' = job /\ buf' = buf
  <2>1. pc'[t] = l /\ job' = job /\ buf' = buf /\ \A u \in Threads \ {t} : pc'[u] = pc[u]
    BY <1>1, <1>3, GotoLocal
  <2>2. RenameResult(t)
    BY <1>3, <2>1 DEF RenameResult
  <2>3. Local(t)'
    BY <1>1, <1>3, <2>1 DEF Local, UndoStore, DataStore, Changing, Rollback
  <2>4. Kept(t)'
    <3>1. DataOf(t)' = DataOf(t) /\ UndoOf(t)' = UndoOf(t) /\ DataOf(t) \in DOMAIN disk
          /\ UndoOf(t) \in DOMAIN disk /\ DataOf(t) # UndoOf(t)
      BY <1>1, <2>1, PathsOf DEF DataOf, UndoOf, Shape
    <3>2. CASE disk' = disk /\ l \in {"undo_drop", "data_drop"}
      BY <1>1, <1>3, <2>1, <3>1, <3>2 DEF Kept, UndoStore, DataStore
    <3>3. CASE l = "data_open" /\ disk' = [disk EXCEPT ![UndoOf(t)] = buf[t].cur]
      <4>1. disk'[UndoOf(t)] = buf[t].cur /\ disk'[DataOf(t)] = disk[DataOf(t)]
        BY <3>1, <3>3
      <4>2. job[t].op # "UNDO" /\ pc[t] = "undo_rename"
        BY <1>1, <1>3, <3>3 DEF Local, UndoStore
      <4> QED
        BY <1>1, <2>1, <3>1, <3>3, <4>1, <4>2 DEF Kept, UndoStore, DataStore
    <3>4. CASE l \in {"unlink", "meta"} /\ disk' = [disk EXCEPT ![DataOf(t)] = buf[t].new]
                 /\ buf[t].new # None
      BY <1>1, <2>1, <3>1, <3>4 DEF Kept, UndoStore, DataStore
    <3> QED
      BY <1>3, <3>2, <3>3, <3>4
  <2>5. \A f \in Files : disk[<<f, "data">>] # None => disk'[<<f, "data">>] # None
    BY <1>1, <1>3, PathsOf DEF Shape
  <2> QED
    BY <1>1, <1>2, <1>3, <2>1, <2>2, <2>3, <2>4, <2>5, OneThread DEF Own
<1>4. ASSUME NEW l, NEW r, StoreRename(t, l, r), l # "idle",
             \/ pc[t] = "undo_rename" /\ l = "data_open"
             \/ pc[t] = "data_rename" /\ l = IF job[t].op = "UNDO" THEN "unlink" ELSE "meta"
      PROVE  TextInv' /\ RenameResult(t) /\ job' = job /\ buf' = buf
  <2>1. CASE tmp[Path(t)] # None /\ disk' = [disk EXCEPT ![Path(t)] = tmp[Path(t)]]
             /\ tmp' = [tmp EXCEPT ![Path(t)] = None] /\ Relink({Path(t)}, Renamed) /\ Goto(t, l, r)
    <3>1. \A u \in Threads : fd'[u] = fd[u]
      BY <1>1, <1>2, <2>1, NoStreams
    <3>2. \/ pc[t] = "undo_rename" /\ Path(t) = UndoOf(t) /\ tmp[Path(t)] = buf[t].cur
          \/ pc[t] = "data_rename" /\ Path(t) = DataOf(t) /\ tmp[Path(t)] = buf[t].new
      BY <1>1, PathsOf DEF Kept, UndoStore
    <3>3. Shape'
      BY <1>1, <2>1, GotoLocal DEF Shape, BufShape
    <3>4. HasText'
      BY <1>1, <2>1, PathsOf DEF TextInv, HasText, Shape
    <3> QED
      BY <1>3, <1>4, <2>1, <3>1, <3>2, <3>3, <3>4
  <2>2. CASE Goto(t, Drop(t), "failed") /\ UNCHANGED <<store, fd>>
    <3>1. \/ pc[t] = "undo_rename" /\ Drop(t) = "undo_drop"
          \/ pc[t] = "data_rename" /\ Drop(t) = "data_drop"
      BY <1>1 DEF Drop, UndoStore
    <3>2. Shape' /\ HasText' /\ disk' = disk
      BY <1>1, <2>2, GotoLocal DEF Shape, BufShape, store, TextInv, HasText
    <3>3. \A u \in Threads : fd'[u] = fd[u]
      BY <2>2
    <3> QED
      BY <1>3, <2>2, <3>1, <3>2, <3>3
  <2> QED
    BY <1>4, <2>1, <2>2 DEF StoreRename
<1> QED
  BY <1>4 DEF UndoRename, DataRename

\* The end of a failed store, and of UNDO: the temporary file, or the undo
\* text, is removed.
LEMMA RemoveText ==
    ASSUME IInv, TextInv, NEW t \in Threads, StoreDrop(t) \/ UnlinkUndo(t)
    PROVE  TextInv' /\ \A f \in Files : disk'[<<f, "data">>] = disk[<<f, "data">>]
<1>1. TypeOK /\ BufShape /\ Shape /\ Local(t) /\ Kept(t)
      /\ pc[t] \in {"undo_drop", "data_drop", "unlink"} /\ UNCHANGED <<table, meta>>
  BY DEF IInv, TextInv, Shape, BufShape, StoreDrop, UnlinkUndo
<1>2. Storing(t)
  BY <1>1 DEF Storing, UndoStore, DataStore
<1>3. \A u \in Threads : fd[u] = "none" /\ fd'[u] = "none"
  BY <1>1, <1>2, NoStreams DEF StoreDrop, UnlinkUndo
<1>4. PICK l, r : Goto(t, l, r) /\ l \in {"idle", "release", "meta"}
  BY DEF StoreDrop, UnlinkUndo, After
<1>5. /\ pc'[t] = l
      /\ \A u \in Threads \ {t} : pc'[u] = pc[u] /\ job'[u] = job[u] /\ buf'[u] = buf[u]
      /\ l = "idle" => job'[t].op = "none"
      /\ l # "idle" => job' = job /\ buf' = buf
      /\ BufShape'
  BY <1>1, <1>4, GotoLocal
<1>6. DOMAIN disk' = Paths /\ DOMAIN tmp' = Paths
      /\ \A f \in Files : disk'[<<f, "data">>] = disk[<<f, "data">>]
  <2>1. CASE StoreDrop(t)
    BY <1>1, <2>1 DEF StoreDrop, Shape
  <2>2. CASE UnlinkUndo(t)
    BY <1>1, <2>2, PathsOf DEF UnlinkUndo, Shape, UndoOf
  <2> QED
    BY <2>1, <2>2
<1>7. Shape' /\ HasText'
  BY <1>1, <1>5, <1>6 DEF Shape, BufShape, TextInv, HasText
<1>8. Local(t)'
  BY <1>1, <1>3, <1>4, <1>5 DEF Local, UndoStore, DataStore, Rollback, Changing
<1>9. Kept(t)'
  <2>1. job[t].file \in Files
    BY <1>1 DEF TypeOK
  <2> QED
    BY <1>1, <1>4, <1>5, <1>6, <2>1 DEF Kept, UndoStore, DataStore, DataOf, Changing, Rollback
<1>10. Own(t)
  BY <1>3, <1>5 DEF Own
<1>11. TextInv'
  BY <1>1, <1>2, <1>6, <1>7, <1>8, <1>9, <1>10, OneThread
<1> QED
  BY <1>6, <1>11

\* After a restart no thread stores; the documents are still there.
LEMMA RestartText ==
    ASSUME IInv, TextInv, Restart
    PROVE  TextInv'
<1>1. \A t \in Threads : pc'[t] = "idle" /\ job'[t].op = "none" /\ fd'[t] = "none"
                         /\ buf'[t] = NoTexts
  BY NoJobType DEF Restart
<1>2. UNCHANGED <<disk, tmp, meta>> /\ DOMAIN buf' = Threads
  BY DEF Restart, store
<1>3. Shape'
  BY <1>1, <1>2 DEF TextInv, Shape, NoTexts
<1>4. HasText'
  <2>1. ASSUME NEW f \in Files, table'[f].present PROVE meta[f] # None
    BY <2>1 DEF Restart, ss_state_load, NoFile
  <2> QED
    BY <1>2, <2>1 DEF TextInv, HasText
<1>5. Alone'
  BY <1>1 DEF Alone, Storing, UndoStore, DataStore
<1>6. ASSUME NEW t \in Threads PROVE Local(t)' /\ Kept(t)'
  BY <1>1 DEF Local, Kept, UndoStore, DataStore, Rollback, Changing
<1> QED
  BY <1>3, <1>4, <1>5, <1>6 DEF TextInv

\* When a command of the name manager is taken on, no client writes, so no
\* thread is storing: clients only read, and the main thread is idle.
LEMMA NoneStoring ==
    ASSUME OneWriter, TextInv, pc[Main] = "idle", ~(Requests \subseteq {"READ", "WRITE"}),
           NEW u \in Threads
    PROVE  /\ job[u].op \in {"none", "READ"} /\ ~Storing(u)
           /\ pc[u] \notin UndoStore \cup DataStore \cup {"unlink"} /\ fd[u] = "none"
<1>1. "WRITE" \notin Requests
  BY DEF OneWriter, OneCommit
<1>2. job[u].op \in {"none", "READ"} /\ (u = Main => job[u].op = "none")
  BY <1>1, ServerAssumption DEF TextInv, Local, Threads
<1>3. pc[u] \notin UndoStore \cup DataStore \cup {"unlink"}
  BY <1>2 DEF TextInv, Local, Changing, Rollback
<1>4. fd[u] = "none"
  BY <1>3 DEF TextInv, Local, UndoStore, DataStore
<1>5. ~(pc[u] = "load" /\ job[u].op # "READ")
  <2>1. CASE u = Main
    BY <2>1
  <2>2. CASE u # Main /\ job[u].op = "none"
    BY <2>2 DEF TextInv, Local
  <2> QED
    BY <1>2, <2>1, <2>2
<1> QED
  BY <1>2, <1>3, <1>4, <1>5 DEF Storing

\* A command changes no document but that of a file it adds or removes.
LEMMA CommandDocuments ==
    ASSUME IInv, TextInv, Command
    PROVE  /\ \A f \in Files : \/ disk'[<<f, "data">>] = disk[<<f, "data">>]
                               \/ table'[f].present # table[f].present
           /\ Shape' /\ HasText'
<1> USE DEF Paths
<1>1. TableOK /\ Shape /\ HasText /\ Main \in Threads
  BY DEF IInv, TypeOK, TextInv, Threads
<1>2. ASSUME UNCHANGED <<table, disk, meta, tmp>>, BufShape'
      PROVE  /\ \A f \in Files : disk'[<<f, "data">>] = disk[<<f, "data">>]
             /\ Shape' /\ HasText'
  BY <1>1, <1>2 DEF Shape, BufShape, HasText
<1>3. ASSUME NEW f \in Files, ~table[f].present, ss_state_add(f), tmp' = tmp, BufShape'
      PROVE  /\ \A g \in Files : \/ disk'[<<g, "data">>] = disk[<<g, "data">>]
                                 \/ table'[g].present # table[g].present
             /\ Shape' /\ HasText'
  <2>1. table' = [table EXCEPT ![f] = NewFile] /\ disk' = [disk EXCEPT ![<<f, "data">>] = <<>>]
        /\ meta' = [meta EXCEPT ![f] = 0]
    BY <1>3 DEF ss_state_add
  <2>2. table'[f].present /\ disk'[<<f, "data">>] = <<>> /\ disk'[<<f, "data">>] # None
    BY <1>1, <2>1, ServerAssumption DEF TableOK, NewFile, Shape
  <2>3. \A g \in Files \ {f} : /\ table'[g] = table[g] /\ meta'[g] = meta[g]
                               /\ disk'[<<g, "data">>] = disk[<<g, "data">>]
    BY <1>1, <2>1 DEF TableOK, Shape
  <2>4. Shape'
    BY <1>1, <1>3, <2>1 DEF Shape, BufShape
  <2>5. HasText'
    BY <1>1, <2>2, <2>3 DEF HasText
  <2> QED
    BY <1>3, <2>2, <2>3, <2>4, <2>5
<1>4. BufShape
  BY <1>1 DEF Shape, BufShape
<1>5. ASSUME NEW b PROVE LET c == [buf EXCEPT ![Main].new = b] IN
                         DOMAIN c = Threads /\ \A t \in Threads : DOMAIN c[t] = {"cur", "new"}
  BY <1>1, <1>4 DEF BufShape
<1>6. ASSUME NEW f \in Files, Create(f)
      PROVE  /\ \A g \in Files : \/ disk'[<<g, "data">>] = disk[<<g, "data">>]
                                 \/ table'[g].present # table[g].present
             /\ Shape' /\ HasText'
  <2>1. BufShape'
    BY <1>4, <1>6 DEF Create, local, BufShape
  <2> QED
    BY <1>3, <1>6, <2>1 DEF Create
<1>7. ASSUME NEW f \in Files, Delete(f)
      PROVE  /\ \A g \in Files : \/ disk'[<<g, "data">>] = disk[<<g, "data">>]
                                 \/ table'[g].present # table[g].present
             /\ Shape' /\ HasText'
  <2>1. /\ table' = [table EXCEPT ![f] = NoFile] /\ meta' = [meta EXCEPT ![f] = None]
        /\ disk' = [disk EXCEPT ![<<f, "data">>] = None, ![<<f, "undo">>] = None]
        /\ table[f].present /\ tmp' = tmp /\ buf' = buf
    BY <1>7 DEF Delete, ss_state_remove, local
  <2>2. table'[f].present = FALSE /\ meta'[f] = None
    BY <1>1, <2>1 DEF TableOK, NoFile, Shape
  <2>3. \A g \in Files \ {f} : /\ table'[g] = table[g] /\ meta'[g] = meta[g]
                               /\ disk'[<<g, "data">>] = disk[<<g, "data">>]
    BY <1>1, <2>1 DEF TableOK, Shape
  <2>4. Shape'
    BY <1>1, <2>1 DEF Shape
  <2>5. HasText'
    BY <1>1, <2>2, <2>3 DEF HasText
  <2> QED
    BY <2>1, <2>2, <2>3, <2>4, <2>5
<1>8. ASSUME NEW f \in Files, Undo(f) \/ \E tag \in Tags : Revert(f, tag) \/ Checkpoint(f, tag)
      PROVE  /\ \A g \in Files : disk'[<<g, "data">>] = disk[<<g, "data">>]
             /\ Shape' /\ HasText'
  <2>1. UNCHANGED <<table, disk, meta, tmp>>
    BY <1>8 DEF Undo, Revert, Checkpoint, Accept, store
  <2>2. BufShape'
    <3>1. CASE buf' = buf
      BY <1>4, <3>1 DEF BufShape
    <3>2. ASSUME NEW tag \in Tags, Revert(f, tag) PROVE BufShape'
      BY <1>5, <3>2 DEF Revert, BufShape
    <3> QED
      BY <1>8, <3>1, <3>2 DEF Undo, Checkpoint, local
  <2> QED
    BY <1>2, <2>1, <2>2
<1>9. ASSUME NEW f \in Files, NEW text \in SyncTexts, Sync(f, text)
      PROVE  /\ \A g \in Files : \/ disk'[<<g, "data">>] = disk[<<g, "data">>]
                                 \/ table'[g].present # table[g].present
             /\ Shape' /\ HasText'
  <2>1. BufShape' /\ tmp' = tmp
    BY <1>5, <1>9 DEF Sync, BufShape
  <2> QED
    BY <1>2, <1>3, <1>9, <2>1 DEF Sync
<1> QED
  BY <1>6, <1>7, <1>8, <1>9 DEF Command

\* The commands of the name manager keep the invariant.
LEMMA CommandText ==
    ASSUME OneWriter, IInv, TextInv, Command
    PROVE  TextInv'
<1>1. Shape' /\ HasText' /\ TypeOK /\ Main \in Threads
  BY CommandDocuments DEF IInv, Threads
<1>2. pc[Main] = "idle" /\ ~(Requests \subseteq {"READ", "WRITE"})
  BY DEF Command, Create, Delete, Undo, Revert, Checkpoint, Sync, Accept
<1>3. \A u \in Threads : /\ job[u].op \in {"none", "READ"} /\ ~Storing(u) /\ Local(u)
                         /\ pc[u] \notin UndoStore \cup DataStore \cup {"unlink"} /\ fd[u] = "none"
  BY <1>2, NoneStoring DEF TextInv
<1>4. ASSUME NEW u \in Threads, pc'[u] = pc[u], job'[u] = job[u], fd'[u] = "none"
      PROVE  Local(u)' /\ Kept(u)' /\ ~Storing(u)'
  <2>1. Local(u)' /\ ~Storing(u)'
    BY <1>3, <1>4 DEF Local, Storing
  <2>2. Kept(u)'
    BY <1>3, <1>4 DEF Kept, UndoStore, DataStore, Changing, Rollback
  <2> QED
    BY <2>1, <2>2
<1>5. ASSUME UNCHANGED <<pc, job>>, \A u \in Threads : fd'[u] = "none"
      PROVE  TextInv'
  BY <1>1, <1>4, <1>5 DEF TextInv, Alone
<1>6. ASSUME NEW f \in Files, NEW o \in Rollback, pc' = [pc EXCEPT ![Main] = "load"],
             job' = [job EXCEPT ![Main] = [op |-> o, file |-> f, index |-> 0]],
             fd' = fd, disk'[<<f, "data">>] # None
      PROVE  TextInv'
  <2>1. pc'[Main] = "load" /\ job'[Main].op = o /\ job'[Main].file = f /\ fd'[Main] = "none"
    BY <1>1, <1>3, <1>6 DEF TypeOK
  <2>2. \A u \in Threads \ {Main} : Local(u)' /\ Kept(u)' /\ ~Storing(u)'
    BY <1>1, <1>3, <1>4, <1>6 DEF TypeOK
  <2>3. Local(Main)'
    BY <1>2, <1>6, <2>1, ServerAssumption DEF Local, UndoStore, DataStore, Rollback
  <2>4. Kept(Main)'
    BY <1>6, <2>1 DEF Kept, UndoStore, DataStore, DataOf
  <2> QED
    BY <1>1, <2>2, <2>3, <2>4 DEF TextInv, Alone
<1>7. ASSUME NEW f \in Files, Create(f) PROVE TextInv'
  BY <1>3, <1>5, <1>7 DEF Create, local
<1>8. ASSUME NEW f \in Files, Delete(f) PROVE TextInv'
  <2>1. \A u \in Threads : fd'[u] = "none"
    BY <1>3, <1>8 DEF Delete, ss_state_remove, Relink, Unlinked
  <2> QED
    BY <1>5, <1>8, <2>1 DEF Delete, local
<1>9. ASSUME NEW f \in Files, NEW tag \in Tags, Checkpoint(f, tag) PROVE TextInv'
  BY <1>3, <1>5, <1>9 DEF Checkpoint, local
<1>10. ASSUME NEW f \in Files, Undo(f) PROVE TextInv'
  <2>1. disk'[<<f, "data">>] # None
    BY <1>10 DEF Undo, Accept, store, TextInv, HasText
  <2> QED
    BY <1>6, <1>10, <2>1 DEF Undo, Accept, Rollback
<1>11. ASSUME NEW f \in Files, NEW tag \in Tags, Revert(f, tag) PROVE TextInv'
  <2>1. disk'[<<f, "data">>] # None
    BY <1>11 DEF Revert, Accept, store, TextInv, HasText
  <2> QED
    BY <1>6, <1>11, <2>1 DEF Revert, Accept, Rollback
<1>12. ASSUME NEW f \in Files, NEW text \in SyncTexts, Sync(f, text) PROVE TextInv'
  <2>1. disk'[<<f, "data">>] # None
    <3>1. CASE table[f].present /\ disk' = disk
      BY <3>1 DEF TextInv, HasText
    <3>2. CASE ss_state_add(f)
      <4>1. disk'[<<f, "data">>] = <<>>
        BY <3>2 DEF ss_state_add, TextInv, Shape, Paths
      <4> QED
        BY <4>1, ServerAssumption
    <3> QED
      BY <1>12, <3>1, <3>2 DEF Sync
  <2> QED
    BY <1>6, <1>12, <2>1 DEF Sync, Rollback
<1> QED
  BY <1>7, <1>8, <1>9, <1>10, <1>11, <1>12 DEF Command

\* A thread at the rename of a document leaves that point by the rename, or
\* in a crash.
LEMMA OnlyRename ==
    ASSUME TypeOK, [Next]_vars, NEW t \in Threads, pc[t] = "data_rename",
           pc'[t] \in {"meta", "unlink"}
    PROVE  DataRename(t)
<1>0. Main \in Threads /\ pc \in [Threads -> Labels]
  BY DEF TypeOK, Threads
<1>1. CASE UNCHANGED vars
  BY <1>1 DEF vars
<1>2. ASSUME NEW u \in Threads, ThreadStep(u) PROVE DataRename(t)
  <2>1. CASE Restart
    BY <2>1 DEF Restart
  <2>2. CASE ~Restart /\ u = t
    BY <1>2, <2>2 DEF ThreadStep, sentence_lock_acquire, SetFlag, write_session_begin, BeginFails,
       BadBeginFlag, BadBeginRelease, CommitLoad, CommitConflict, UndoLoad, LoadCurrent, UndoOpen,
       UndoWrite, UndoRename, DataOpen, DataWrite, StoreDrop, UnlinkUndo, Account, Release, ClearFlag
  <2>3. CASE ~Restart /\ u # t
    <3>1. \E l : pc' = [pc EXCEPT ![u] = l]
      <4>1. ASSUME NEW l, NEW r, Goto(u, l, r) PROVE \E x : pc' = [pc EXCEPT ![u] = x]
        BY <4>1 DEF Goto
      <4>2. ASSUME NEW l, StoreOpen(u, l) PROVE \E x : pc' = [pc EXCEPT ![u] = x]
        BY <4>1, <4>2 DEF StoreOpen
      <4>3. ASSUME NEW l, NEW text, StoreWrite(u, text, l) PROVE \E x : pc' = [pc EXCEPT ![u] = x]
        BY <4>1, <4>3 DEF StoreWrite
      <4>4. ASSUME NEW l, NEW r, StoreRename(u, l, r) PROVE \E x : pc' = [pc EXCEPT ![u] = x]
        BY <4>1, <4>4 DEF StoreRename
      <4>5. CASE UndoOpen(u) \/ DataOpen(u)
        BY <4>2, <4>5 DEF UndoOpen, DataOpen
      <4>6. CASE UndoWrite(u) \/ DataWrite(u)
        BY <4>3, <4>6 DEF UndoWrite, DataWrite
      <4>7. CASE UndoRename(u) \/ DataRename(u)
        BY <4>4, <4>7 DEF UndoRename, DataRename
      <4>8. CASE CommitLoad(u) \/ UndoLoad(u) \/ LoadCurrent(u) \/ write_session_begin(u)
        BY <4>1, <4>8 DEF CommitLoad, UndoLoad, LoadCurrent, write_session_begin
      <4>9. CASE \/ sentence_lock_acquire(u) \/ SetFlag(u) \/ BeginFails(u) \/ BadBeginFlag(u)
                 \/ BadBeginRelease(u) \/ CommitConflict(u) \/ StoreDrop(u) \/ UnlinkUndo(u)
                 \/ Account(u) \/ Release(u) \/ ClearFlag(u)
        BY <2>3, <4>1, <4>9 DEF sentence_lock_acquire, SetFlag, BeginFails, BadBeginFlag,
           BadBeginRelease, CommitConflict, StoreDrop, UnlinkUndo, Account, Release, ClearFlag
      <4> QED
        BY <1>2, <4>5, <4>6, <4>7, <4>8, <4>9 DEF ThreadStep
    <3> QED
      BY <1>0, <2>3, <3>1
  <2> QED
    BY <2>1, <2>2, <2>3
<1>3. ASSUME NEW u \in Clients, ClientStep(u) PROVE DataRename(t)
  <2>1. pc[u] # "data_rename" /\ \E l : pc' = [pc EXCEPT ![u] = l]
    BY <1>0, <1>3 DEF ClientStep, WriteRequest, ReadRequest, Accept, Edit, WriteCommit, WriteAbort,
       Goto, Threads, TypeOK
  <2> QED
    BY <1>0, <2>1
<1>4. CASE Command
  <2>1. pc[Main] = "idle" /\ (pc' = pc \/ \E l : pc' = [pc EXCEPT ![Main] = l])
    BY <1>4 DEF Command, Create, Delete, Undo, Revert, Checkpoint, Sync, Accept
  <2> QED
    BY <1>0, <2>1
<1>5. CASE Killed
  BY <1>5 DEF Killed, Restart
<1> QED
  BY <1>1, <1>2, <1>3, <1>4, <1>5 DEF Next

\* The invariant is inductive, and a document changes only by a rename.
LEMMA TextNext ==
    ASSUME OneWriter, IInv, TextInv, [Next]_vars
    PROVE  /\ TextInv'
           /\ \A f \in Files : \/ disk'[<<f, "data">>] = disk[<<f, "data">>]
                               \/ table'[f].present # table[f].present
                               \/ \E t \in Threads : UndoRename(t) \/ DataRename(t)
<1> DEFINE Same == \A f \in Files : disk'[<<f, "data">>] = disk[<<f, "data">>]
<1>1. CASE UNCHANGED vars
  <2>1. UNCHANGED <<table, disk, tmp, meta, pc, job, buf, fd>>
    BY <1>1 DEF vars
  <2>2. \A t \in Threads : Local(t)' /\ Kept(t)' /\ (Storing(t)' <=> Storing(t))
    BY <2>1, OtherKept DEF IInv, TextInv
  <2>3. Shape' /\ HasText' /\ Same
    BY <2>1 DEF TextInv, Shape, HasText
  <2> QED
    BY <2>2, <2>3 DEF TextInv, Alone
<1>2. CASE Restart
  <2>1. Same
    BY <1>2 DEF Restart, store
  <2> QED
    BY <1>2, <2>1, RestartText
<1>3. ASSUME NEW t \in Threads, ThreadStep(t), ~Restart
      PROVE  TextInv' /\ (Same \/ UndoRename(t) \/ DataRename(t))
  <2>1. CASE \/ sentence_lock_acquire(t) \/ SetFlag(t) \/ BeginFails(t) \/ BadBeginFlag(t)
             \/ BadBeginRelease(t) \/ Release(t) \/ ClearFlag(t) \/ Account(t)
    <3>1. disk' = disk
      BY <2>1 DEF sentence_lock_acquire, SetFlag, BeginFails, BadBeginFlag, BadBeginRelease,
         Release, ClearFlag, Account, store
    <3> QED
      BY <2>1, <3>1, ControlText
  <2>2. CASE write_session_begin(t)
    <3>1. disk' = disk
      BY <2>2 DEF write_session_begin, store
    <3> QED
      BY <2>2, <3>1, EditText
  <2>3. CASE CommitLoad(t) \/ UndoLoad(t) \/ LoadCurrent(t)
    <3>1. disk' = disk
      BY <2>3 DEF CommitLoad, UndoLoad, LoadCurrent, store
    <3> QED
      BY <2>3, <3>1, LoadText
  <2>4. CASE CommitConflict(t)
    <3>1. pc[t] = "load" /\ Goto(t, "release", "conflict") /\ UNCHANGED <<table, disk, tmp, meta, fd>>
      BY <1>3, <2>4 DEF CommitConflict, store
    <3>2. HasText' /\ DOMAIN meta' = Files
      BY <3>1 DEF TextInv, HasText, Shape
    <3> QED
      BY <3>1, <3>2, SessionText DEF UndoStore, DataStore
  <2>5. CASE UndoOpen(t) \/ DataOpen(t)
    <3>1. disk' = disk
      BY <2>5 DEF UndoOpen, DataOpen, StoreOpen, store
    <3> QED
      BY <2>5, <3>1, OpenText
  <2>6. CASE UndoWrite(t) \/ DataWrite(t)
    BY <2>6, WriteText
  <2>7. CASE UndoRename(t) \/ DataRename(t)
    BY <2>7, RenameText
  <2>8. CASE StoreDrop(t) \/ UnlinkUndo(t)
    BY <2>8, RemoveText
  <2> QED
    BY <1>3, <2>1, <2>2, <2>3, <2>4, <2>5, <2>6, <2>7, <2>8 DEF ThreadStep
<1>4. ASSUME NEW t \in Clients, ClientStep(t) PROVE TextInv' /\ Same
  <2>1. t \in Threads /\ disk' = disk
    BY <1>4 DEF ClientStep, WriteRequest, ReadRequest, Accept, Edit, WriteCommit, WriteAbort,
       store, Threads
  <2>2. CASE WriteCommit(t)
    BY <2>1, <2>2, CommitText
  <2>3. CASE WriteAbort(t)
    BY <2>1, <2>3, ControlText
  <2>4. CASE Edit(t)
    BY <2>1, <2>4, EditText
  <2>5. ASSUME NEW f \in Files, ReadRequest(t, f) \/ \E i \in Indices : WriteRequest(t, f, i)
        PROVE  TextInv'
    BY <2>5, RequestText
  <2> QED
    BY <1>4, <2>1, <2>2, <2>3, <2>4, <2>5 DEF ClientStep
<1>5. CASE Command
  BY <1>5, CommandText, CommandDocuments
<1> QED
  BY <1>1, <1>2, <1>3, <1>4, <1>5 DEF Next, Killed

\* A server that has just started stores nothing.
LEMMA TextInit == ASSUME Init PROVE TextInv
<1>1. \A t \in Threads : pc[t] = "idle" /\ job[t].op = "none" /\ fd[t] = "none" /\ buf[t] = NoTexts
  BY NoJobType DEF Init
<1>2. Shape
  <2>1. DOMAIN disk = Paths /\ DOMAIN tmp = Paths /\ DOMAIN meta = Files /\ DOMAIN buf = Threads
    BY DEF Init
  <2> QED
    BY <1>1, <2>1 DEF Shape, NoTexts
<1>3. HasText
  <2>1. ASSUME NEW f \in Files, f \in InitialFiles PROVE disk[<<f, "data">>] # None
    BY <2>1, ServerAssumption DEF Init, Paths
  <2>2. ASSUME NEW f \in Files, f \notin InitialFiles PROVE ~table[f].present /\ meta[f] = None
    BY <2>2 DEF Init, NoFile
  <2> QED
    BY <2>1, <2>2 DEF HasText
<1>4. Alone
  BY <1>1 DEF Alone, Storing, UndoStore, DataStore
<1>5. ASSUME NEW t \in Threads PROVE Local(t) /\ Kept(t)
  BY <1>1 DEF Local, Kept, UndoStore, DataStore, Rollback, Changing
<1> QED
  BY <1>2, <1>3, <1>4, <1>5 DEF TextInv

(***************************************************************************)
(* The theorems.                                                           *)
(***************************************************************************)

\* As long as one thread stores at a time, the invariant holds, whatever
\* writes fail and whenever the server is killed.
THEOREM TextInvariance == OneWriter => (Spec => []TextInv)
<1> SUFFICES ASSUME OneWriter PROVE Spec => []TextInv
  OBVIOUS
<1>1. Init => TextInv
  BY TextInit
<1>2. IInv /\ TextInv /\ [Next]_vars => TextInv'
  BY TextNext
<1> QED
  BY <1>1, <1>2, Invariance, PTL DEF Spec

\* store_text_atomic replaces a document as a whole: a reader, or a restart
\* after a crash, finds the text of one handler and never a part of it.
THEOREM WholeDocuments == OneWriter => (Spec => WholeTexts)
<1> SUFFICES ASSUME OneWriter PROVE Spec => WholeTexts
  OBVIOUS
<1> DEFINE Whole == \A f \in Files :
              /\ disk'[<<f, "data">>] # disk[<<f, "data">>]
              /\ table'[f].present = table[f].present
              => \E t \in Threads : /\ pc[t] = "data_rename"
                                    /\ job[t].file = f
                                    /\ disk'[<<f, "data">>] = buf[t].new
<1>1. IInv /\ TextInv /\ [Next]_vars => [Whole]_vars
  <2> SUFFICES ASSUME IInv, TextInv, [Next]_vars, NEW f \in Files,
                      disk'[<<f, "data">>] # disk[<<f, "data">>],
                      table'[f].present = table[f].present
               PROVE  \E t \in Threads : /\ pc[t] = "data_rename"
                                         /\ job[t].file = f
                                         /\ disk'[<<f, "data">>] = buf[t].new
    OBVIOUS
  <2>1. PICK t \in Threads : UndoRename(t) \/ DataRename(t)
    BY TextNext
  <2>2. RenameResult(t) /\ TypeOK /\ Shape
    BY <2>1, RenameText DEF IInv, TextInv
  <2>3. /\ DataOf(t) \in DOMAIN disk /\ UndoOf(t) \in DOMAIN disk
        /\ <<f, "data">> # UndoOf(t) /\ <<f, "data">> \in DOMAIN disk
    BY <2>2, PathsOf DEF Shape
  <2>4. pc[t] = "data_rename" /\ disk' = [disk EXCEPT ![DataOf(t)] = buf[t].new]
    BY <2>2, <2>3 DEF RenameResult
  <2>5. <<f, "data">> = DataOf(t)
    BY <2>3, <2>4
  <2> QED
    BY <2>3, <2>4, <2>5 DEF DataOf
<1> QED
  BY <1>1, Invariance, TextInvariance, PTL DEF Spec, WholeTexts

\* When a document is replaced, the undo text is the document it replaces,
\* and UNDO puts the undo text back.
THEOREM UndoKept == OneWriter => (Spec => UndoIsPrevious)
<1> SUFFICES ASSUME OneWriter PROVE Spec => UndoIsPrevious
  OBVIOUS
<1> DEFINE Previous ==
      \A t \in Threads :
          LET data == <<job[t].file, "data">>
              undo == <<job[t].file, "undo">>
          IN  pc[t] = "data_rename" /\ pc'[t] \in {"meta", "unlink"} =>
                IF job[t].op = "UNDO" THEN disk'[data] = disk[undo]
                ELSE disk'[undo] = disk[data]
<1>1. IInv /\ TextInv /\ [Next]_vars => [Previous]_vars
  <2> SUFFICES ASSUME IInv, TextInv, [Next]_vars, NEW t \in Threads,
                      pc[t] = "data_rename", pc'[t] \in {"meta", "unlink"}
               PROVE  IF job[t].op = "UNDO" THEN disk'[DataOf(t)] = disk[UndoOf(t)]
                      ELSE disk'[UndoOf(t)] = disk[DataOf(t)]
    BY DEF DataOf, UndoOf
  <2>1. TypeOK /\ Shape /\ Kept(t)
    BY DEF IInv, TextInv
  <2>2. RenameResult(t)
    BY <2>1, OnlyRename, RenameText
  <2>3. disk' = [disk EXCEPT ![DataOf(t)] = buf[t].new]
    BY <2>2 DEF RenameResult
  <2>4. DataOf(t) \in DOMAIN disk /\ UndoOf(t) \in DOMAIN disk /\ DataOf(t) # UndoOf(t)
    BY <2>1, PathsOf DEF Shape
  <2> QED
    BY <2>1, <2>3, <2>4 DEF Kept, DataStore
<1> QED
  BY <1>1, Invariance, TextInvariance, PTL DEF Spec, UndoIsPrevious

(***************************************************************************)
(* The counters.  Commits write theirs in any order, and a kill between    *)
(* the rename of a document and the save of its counters leaves the old    *)
(* ones behind; without either, they are right.                            *)
(***************************************************************************)

Uninterrupted == "WRITE" \notin Requests /\ ~MayBeKilled

\* A step that changes neither documents nor counters, and does not move the
\* main thread past the rename of a document, keeps them in agreement.
LEMMA CountedFrame ==
    ASSUME Counted, job[Main].file \in Files,
           pc'[Main] \in {"unlink", "meta"} <=> pc[Main] \in {"unlink", "meta"},
           pc[Main] \in {"unlink", "meta"} => job'[Main] = job[Main] /\ buf'[Main] = buf[Main],
           \A f \in Files : /\ disk'[<<f, "data">>] = disk[<<f, "data">>]
                            /\ table'[f].present = table[f].present
                            /\ table[f].present => /\ table'[f].word_count = table[f].word_count
                                                   /\ DiskMayFail \/ meta'[f] = meta[f]
    PROVE  Counted'
<1>1. \A f \in Files : Behind(f)' <=> Behind(f)
  BY DEF Behind
<1>2. pc'[Main] \in {"unlink", "meta"} => disk'[DataOf(Main)'] = buf'[Main].new
  BY DEF Counted, DataOf
<1>3. \A f \in Files : table'[f].present =>
          /\ DiskMayFail \/ meta'[f] = table'[f].word_count
          /\ Behind(f)' \/ table'[f].word_count = count_words_in_text(disk'[<<f, "data">>])
  BY <1>1 DEF Counted
<1> QED
  BY <1>2, <1>3 DEF Counted

\* The handlers away from the files, and those of READ: the flag may change,
\* the counters do not.
LEMMA ControlCounted ==
    ASSUME IInv, TextInv, Counted, NEW t \in Threads, NEW l, NEW r, Goto(t, l, r),
           {pc[t], l} \cap {"unlink", "meta"} = {}, UNCHANGED <<disk, meta>>,
           \/ table' = table
           \/ \E active \in BOOLEAN : set_file_lock_state(job[t].file, active)
    PROVE  Counted'
<1>1. TypeOK /\ TableOK /\ BufShape /\ Main \in Threads
      /\ job[Main].file \in Files /\ job[t].file \in Files
  BY DEF IInv, TypeOK, TextInv, Shape, BufShape, Threads
<1>2. /\ pc'[t] = l
      /\ \A u \in Threads \ {t} : pc'[u] = pc[u] /\ job'[u] = job[u] /\ buf'[u] = buf[u]
  BY <1>1, GotoLocal
<1>3. \A f \in Files : /\ table'[f].present = table[f].present
                       /\ table'[f].word_count = table[f].word_count
  BY <1>1, FlagOnly
<1>4. /\ pc'[Main] \in {"unlink", "meta"} <=> pc[Main] \in {"unlink", "meta"}
      /\ pc[Main] \in {"unlink", "meta"} => job'[Main] = job[Main] /\ buf'[Main] = buf[Main]
  BY <1>1, <1>2
<1> QED
  BY <1>1, <1>3, <1>4, CountedFrame

\* The counters are written: a READ writes those it finds, the main thread
\* those of the text it stored.
LEMMA AccountCounted ==
    ASSUME Uninterrupted, IInv, TextInv, Counted, NEW t \in Threads, Account(t)
    PROVE  Counted'
<1> DEFINE f == job[t].file
           w == IF job[t].op = "READ" THEN table[f].word_count ELSE count_words_in_text(buf[t].new)
<1>1. TypeOK /\ TableOK /\ BufShape /\ Shape /\ Main \in Threads /\ Local(t)
      /\ job[Main].file \in Files /\ f \in Files /\ pc[t] = "meta"
  BY DEF IInv, TypeOK, TextInv, Shape, BufShape, Threads, Account
<1>2. job[t].op # "WRITE" /\ (t \in Clients => job[t].op = "READ") /\ (t = Main => job[t].op # "READ")
  BY <1>1, ServerAssumption DEF IInv, Served, Local, Uninterrupted
<1>3. Goto(t, "idle", reply[t])
  BY <1>2 DEF Account, After
<1>4. /\ pc'[t] = "idle"
      /\ \A u \in Threads \ {t} : pc'[u] = pc[u] /\ job'[u] = job[u] /\ buf'[u] = buf[u]
  BY <1>1, <1>3, GotoLocal
<1>5. \A g \in Files : /\ disk'[<<g, "data">>] = disk[<<g, "data">>]
                       /\ table'[g].present = table[g].present
                       /\ g # f => table'[g].word_count = table[g].word_count /\ meta'[g] = meta[g]
                       /\ g = f /\ table[f].present => /\ table'[f].word_count = w
                                                       /\ DiskMayFail \/ meta'[f] = w
  <2>1. CASE table[f].present
    <3>1. /\ table' = [table EXCEPT ![f].word_count = w,
                                    ![f].lock_active = @ /\ job[t].op # "WRITE"]
          /\ write_meta_file(f, w) /\ disk' = disk
      BY <2>1 DEF Account
    <3>2. table' = [table EXCEPT ![f] = [table[f] EXCEPT !.word_count = w,
                                         !.lock_active = @ /\ job[t].op # "WRITE"]]
      BY <1>1, <3>1 DEF TableOK
    <3>3. table'[f].present = table[f].present /\ table'[f].word_count = w
      BY <1>1, <3>2 DEF TableOK, NoFile
    <3>4. \A g \in Files \ {f} : table'[g] = table[g] /\ meta'[g] = meta[g]
      BY <1>1, <3>1, <3>2 DEF TableOK, Shape, write_meta_file
    <3>5. DiskMayFail \/ meta'[f] = w
      BY <1>1, <3>1 DEF Shape, write_meta_file
    <3> QED
      BY <3>1, <3>3, <3>4, <3>5
  <2>2. CASE ~table[f].present
    BY <2>2 DEF Account
  <2> QED
    BY <2>1, <2>2
<1>6. CASE t \in Clients
  <2>1. t # Main /\ w = table[f].word_count
    BY <1>2, <1>6, ServerAssumption
  <2>2. /\ pc'[Main] = pc[Main] /\ job'[Main] = job[Main] /\ buf'[Main] = buf[Main]
        /\ table[f].present => DiskMayFail \/ meta[f] = w
    BY <1>1, <1>4, <2>1 DEF Counted
  <2>3. \A g \in Files : table[g].present => /\ table'[g].word_count = table[g].word_count
                                             /\ DiskMayFail \/ meta'[g] = meta[g]
    BY <1>5, <2>1, <2>2
  <2> QED
    BY <1>1, <1>5, <2>2, <2>3, CountedFrame
<1>7. CASE t = Main
  <2>1. pc'[Main] = "idle" /\ w = count_words_in_text(buf[Main].new)
    BY <1>2, <1>4, <1>7
  <2>2. disk[<<f, "data">>] = buf[Main].new
    BY <1>1, <1>7 DEF Counted, DataOf
  <2>3. \A g \in Files : table'[g].present =>
            /\ DiskMayFail \/ meta'[g] = table'[g].word_count
            /\ table'[g].word_count = count_words_in_text(disk'[<<g, "data">>])
    BY <1>5, <1>7, <2>1, <2>2 DEF Counted, Behind
  <2> QED
    BY <2>1, <2>3 DEF Counted
<1> QED
  BY <1>6, <1>7 DEF Threads

\* Loading and storing: the rename of a document leaves its counters behind,
\* on the main thread, and no other of these steps changes a document.
LEMMA StoreCounted ==
    ASSUME Uninterrupted, IInv, TextInv, Counted, NEW t \in Threads,
           \/ CommitLoad(t) \/ UndoLoad(t) \/ LoadCurrent(t) \/ UndoOpen(t) \/ DataOpen(t)
           \/ UndoWrite(t) \/ DataWrite(t) \/ UndoRename(t) \/ DataRename(t)
           \/ StoreDrop(t) \/ UnlinkUndo(t)
    PROVE  Counted'
<1>1. TypeOK /\ BufShape /\ Shape /\ Main \in Threads /\ Local(t) /\ job[Main].file \in Files
  BY DEF IInv, TypeOK, TextInv, Shape, BufShape, Threads
<1>2. UNCHANGED <<table, meta>>
  BY DEF CommitLoad, UndoLoad, LoadCurrent, UndoOpen, DataOpen, UndoWrite, DataWrite, UndoRename,
     DataRename, StoreDrop, UnlinkUndo, StoreOpen, StoreWrite, StoreRename, store
<1>3. ASSUME NEW l, pc' = [pc EXCEPT ![t] = l], {pc[t], l} \cap {"unlink", "meta"} = {} \/ t # Main,
             \A u \in Threads \ {t} : job'[u] = job[u] /\ buf'[u] = buf[u],
             \A f \in Files : disk'[<<f, "data">>] = disk[<<f, "data">>]
      PROVE  Counted'
  <2>1. /\ pc'[Main] \in {"unlink", "meta"} <=> pc[Main] \in {"unlink", "meta"}
        /\ pc[Main] \in {"unlink", "meta"} => job'[Main] = job[Main] /\ buf'[Main] = buf[Main]
    BY <1>1, <1>3 DEF TypeOK
  <2> QED
    BY <1>1, <1>2, <1>3, <2>1, CountedFrame
<1>4. ASSUME NEW l, NEW r, Goto(t, l, r), {pc[t], l} \cap {"unlink", "meta"} = {},
             \A f \in Files : disk'[<<f, "data">>] = disk[<<f, "data">>]
      PROVE  Counted'
  <2>1. /\ pc' = [pc EXCEPT ![t] = l]
        /\ \A u \in Threads \ {t} : job'[u] = job[u] /\ buf'[u] = buf[u]
    BY <1>1, <1>4, GotoLocal DEF Goto
  <2> QED
    BY <1>3, <1>4, <2>1
<1>5. CASE CommitLoad(t) \/ UndoLoad(t) \/ LoadCurrent(t)
  <2>1. disk' = disk /\ pc[t] = "load"
    BY <1>5 DEF CommitLoad, UndoLoad, LoadCurrent, store
  <2>2. CASE UndoLoad(t) /\ Goto(t, "idle", "conflict")
    BY <1>4, <2>1, <2>2
  <2>3. CASE ~(UndoLoad(t) /\ Goto(t, "idle", "conflict"))
    <3>1. PICK l \in {"undo_open", "data_open", "meta"} :
              pc' = [pc EXCEPT ![t] = l] /\ job' = job /\ (l = "meta" => job[t].op = "READ")
      BY <1>5, <2>3 DEF CommitLoad, UndoLoad, LoadCurrent
    <3>2. \A u \in Threads \ {t} : buf'[u] = buf[u]
      BY <1>1, <1>5, <2>3 DEF CommitLoad, UndoLoad, LoadCurrent, BufShape
    <3>3. {pc[t], l} \cap {"unlink", "meta"} = {} \/ t # Main
      BY <1>1, <2>1, <3>1, ServerAssumption DEF Local
    <3> QED
      BY <1>3, <2>1, <3>1, <3>2, <3>3
  <2> QED
    BY <2>2, <2>3
<1>6. CASE UndoOpen(t) \/ DataOpen(t)
  <2>1. disk' = disk /\ pc[t] \in {"undo_open", "data_open"}
    BY <1>6 DEF UndoOpen, DataOpen, StoreOpen, store
  <2>2. \E l \in {"undo_write", "data_write", "release", "idle"}, r \in {reply[t], "failed"} : Goto(t, l, r)
    BY <1>6 DEF UndoOpen, DataOpen, StoreOpen, After
  <2> QED
    BY <1>4, <2>1, <2>2
<1>7. CASE UndoWrite(t) \/ DataWrite(t)
  <2>1. disk' = disk /\ pc[t] \in {"undo_write", "data_write"}
    BY <1>7, WriteText DEF UndoWrite, DataWrite
  <2>2. \E l \in {"undo_rename", "data_rename", "undo_drop", "data_drop"}, r \in {reply[t], "failed"} :
            Goto(t, l, r)
    BY <1>7 DEF UndoWrite, DataWrite, StoreWrite, Drop
  <2> QED
    BY <1>4, <2>1, <2>2
<1>8. CASE UndoRename(t) \/ DataRename(t)
  <2>1. RenameResult(t) /\ job' = job /\ buf' = buf /\ pc[t] \in {"undo_rename", "data_rename"}
    BY <1>8, RenameText DEF UndoRename, DataRename
  <2>2. \E l : pc' = [pc EXCEPT ![t] = l]
    BY <1>8 DEF UndoRename, DataRename, StoreRename, Goto
  <2>3. pc' = [pc EXCEPT ![t] = pc'[t]]
    BY <1>1, <2>2 DEF TypeOK
  <2>4. /\ DataOf(t) \in DOMAIN disk /\ UndoOf(t) \in DOMAIN disk
        /\ \A f \in Files : <<f, "data">> # UndoOf(t) /\ <<f, "data">> \in DOMAIN disk
    BY <1>1, PathsOf DEF Shape
  <2>5. CASE pc'[t] \in {"data_open", "undo_drop", "data_drop"}
    <3>1. \A f \in Files : disk'[<<f, "data">>] = disk[<<f, "data">>]
      BY <2>1, <2>4, <2>5 DEF RenameResult
    <3> QED
      BY <1>3, <2>1, <2>3, <2>5, <3>1
  <2>6. CASE pc'[t] \notin {"data_open", "undo_drop", "data_drop"}
    <3>1. /\ pc[t] = "data_rename" /\ pc'[t] \in {"unlink", "meta"}
          /\ disk' = [disk EXCEPT ![DataOf(t)] = buf[t].new]
      BY <2>1, <2>6 DEF RenameResult
    <3>2. t = Main
      BY <1>1, <3>1 DEF Local, DataStore, Changing, Rollback, Uninterrupted, Threads
    <3>3. disk'[DataOf(Main)'] = buf'[Main].new
      BY <2>1, <2>4, <3>1, <3>2 DEF DataOf
    <3>4. ASSUME NEW f \in Files, table'[f].present
          PROVE  /\ DiskMayFail \/ meta'[f] = table'[f].word_count
                 /\ Behind(f)' \/ table'[f].word_count = count_words_in_text(disk'[<<f, "data">>])
      <4>1. DiskMayFail \/ meta'[f] = table'[f].word_count
        BY <1>2, <3>4 DEF Counted
      <4>2. CASE f = job[Main].file
        BY <2>1, <3>1, <3>2, <4>1, <4>2 DEF Behind
      <4>3. CASE f # job[Main].file
        <5>1. disk'[<<f, "data">>] = disk[<<f, "data">>]
          BY <2>4, <3>1, <3>2, <4>3 DEF DataOf
        <5>2. table[f].word_count = count_words_in_text(disk[<<f, "data">>])
          BY <1>2, <3>4, <4>3 DEF Counted, Behind
        <5> QED
          BY <1>2, <4>1, <5>1, <5>2
      <4> QED
        BY <4>2, <4>3
    <3> QED
      BY <3>3, <3>4 DEF Counted
  <2> QED
    BY <2>5, <2>6
<1>9. CASE StoreDrop(t)
  <2>1. \A f \in Files : disk'[<<f, "data">>] = disk[<<f, "data">>]
    BY <1>9, RemoveText
  <2>2. /\ pc[t] \in {"undo_drop", "data_drop"}
        /\ \E l \in {"release", "idle"} : Goto(t, l, "failed")
    BY <1>9 DEF StoreDrop, After
  <2> QED
    BY <1>4, <2>1, <2>2
<1>10. CASE UnlinkUndo(t)
  <2>1. \A f \in Files : disk'[<<f, "data">>] = disk[<<f, "data">>]
    BY <1>10, RemoveText
  <2>2. pc[t] = "unlink" /\ Goto(t, "meta", "ok")
    BY <1>10 DEF UnlinkUndo
  <2>3. /\ pc'[t] = "meta" /\ job' = job /\ buf' = buf
        /\ \A u \in Threads \ {t} : pc'[u] = pc[u]
    BY <1>1, <2>2, GotoLocal
  <2> QED
    BY <1>1, <1>2, <2>1, <2>2, <2>3, CountedFrame
<1> QED
  BY <1>5, <1>6, <1>7, <1>8, <1>9, <1>10

\* The commands of the name manager: a new file has no words, a deleted one
\* no counters, and the others begin with the files as they are.
LEMMA CommandCounted ==
    ASSUME IInv, TextInv, Counted, Command
    PROVE  Counted'
<1> USE DEF Paths
<1>1. TypeOK /\ TableOK /\ Shape /\ Main \in Threads /\ job[Main].file \in Files /\ pc[Main] = "idle"
  BY DEF IInv, TypeOK, TextInv, Threads, Command, Create, Delete, Undo, Revert, Checkpoint, Sync,
     Accept
<1>2. pc'[Main] \in {"idle", "load"}
  BY <1>1 DEF Command, Create, Delete, Undo, Revert, Checkpoint, Sync, Accept, TypeOK
<1>3. \A f \in Files : table[f].present =>
          /\ DiskMayFail \/ meta[f] = table[f].word_count
          /\ table[f].word_count = count_words_in_text(disk[<<f, "data">>])
  BY <1>1 DEF Counted, Behind
<1>4. ASSUME UNCHANGED <<table, disk, meta>> PROVE Counted'
  BY <1>1, <1>2, <1>4, CountedFrame
<1>5. ASSUME NEW f \in Files, ss_state_add(f) PROVE Counted'
  <2>1. table' = [table EXCEPT ![f] = NewFile] /\ disk' = [disk EXCEPT ![<<f, "data">>] = <<>>]
        /\ meta' = [meta EXCEPT ![f] = 0]
    BY <1>5 DEF ss_state_add
  <2>2. table'[f].word_count = 0 /\ meta'[f] = 0 /\ count_words_in_text(disk'[<<f, "data">>]) = 0
    BY <1>1, <2>1 DEF TableOK, NewFile, Shape, count_words_in_text
  <2>3. \A g \in Files \ {f} : /\ table'[g] = table[g] /\ meta'[g] = meta[g]
                               /\ disk'[<<g, "data">>] = disk[<<g, "data">>]
    BY <1>1, <2>1 DEF TableOK, Shape
  <2> QED
    BY <1>2, <1>3, <2>2, <2>3 DEF Counted
<1>6. ASSUME NEW f \in Files, Delete(f) PROVE Counted'
  <2>1. /\ table' = [table EXCEPT ![f] = NoFile] /\ meta' = [meta EXCEPT ![f] = None]
        /\ disk' = [disk EXCEPT ![<<f, "data">>] = None, ![<<f, "undo">>] = None]
    BY <1>6 DEF Delete, ss_state_remove
  <2>2. table'[f].present = FALSE
    BY <1>1, <2>1 DEF TableOK, NoFile
  <2>3. \A g \in Files \ {f} : /\ table'[g] = table[g] /\ meta'[g] = meta[g]
                               /\ disk'[<<g, "data">>] = disk[<<g, "data">>]
    BY <1>1, <2>1 DEF TableOK, Shape
  <2> QED
    BY <1>2, <1>3, <2>2, <2>3 DEF Counted
<1>7. ASSUME NEW f \in Files, Create(f) \/ Undo(f) PROVE Counted'
  BY <1>4, <1>5, <1>7 DEF Create, Undo, Accept, store
<1>8. ASSUME NEW f \in Files, NEW tag \in Tags, Checkpoint(f, tag) \/ Revert(f, tag) PROVE Counted'
  BY <1>4, <1>8 DEF Checkpoint, Revert, Accept, store
<1>9. ASSUME NEW f \in Files, NEW text \in SyncTexts, Sync(f, text) PROVE Counted'
  BY <1>4, <1>5, <1>9 DEF Sync
<1> QED
  BY <1>6, <1>7, <1>8, <1>9 DEF Command

\* Every step keeps the counters in agreement with the documents.
LEMMA CountedNext ==
    ASSUME Uninterrupted, IInv, TextInv, Counted, [Next]_vars
    PROVE  Counted'
<1>1. Main \in Threads /\ job[Main].file \in Files /\ TypeOK
  BY DEF IInv, TypeOK, Threads
<1>2. CASE UNCHANGED vars
  BY <1>1, <1>2, CountedFrame DEF vars
<1>3. ASSUME NEW t \in Threads, ThreadStep(t) PROVE Counted'
  <2>1. CASE \/ sentence_lock_acquire(t) \/ SetFlag(t) \/ BeginFails(t) \/ BadBeginFlag(t)
             \/ BadBeginRelease(t) \/ Release(t) \/ ClearFlag(t)
    <3>1. /\ pc[t] \in {"acquire", "flag", "begin", "badflag", "badrelease", "release", "clear"}
          /\ UNCHANGED <<disk, meta>>
          /\ table' = table \/ \E active \in BOOLEAN : set_file_lock_state(job[t].file, active)
          /\ \E l \in {"idle", "flag", "begin", "badflag", "badrelease", "clear"}, r \in
                {"locked", "none", "failed", reply[t]} : Goto(t, l, r)
      BY <2>1 DEF sentence_lock_acquire, SetFlag, BeginFails, BadBeginFlag, BadBeginRelease,
         Release, ClearFlag, store
    <3> QED
      BY <3>1, ControlCounted
  <2>2. CASE write_session_begin(t) \/ CommitConflict(t)
    <3>1. job[t].op = "WRITE"
      BY <2>2 DEF write_session_begin, CommitConflict, IInv, Served, WriteLabels
    <3>2. t \in Clients /\ Local(t)
      BY <3>1 DEF IInv, Served, TextInv
    <3> QED
      BY <3>1, <3>2 DEF Local, Uninterrupted
  <2>3. CASE \/ CommitLoad(t) \/ UndoLoad(t) \/ LoadCurrent(t) \/ UndoOpen(t) \/ DataOpen(t)
             \/ UndoWrite(t) \/ DataWrite(t) \/ UndoRename(t) \/ DataRename(t)
             \/ StoreDrop(t) \/ UnlinkUndo(t)
    BY <2>3, StoreCounted
  <2>4. CASE Account(t)
    BY <2>4, AccountCounted
  <2> QED
    BY <1>3, <2>1, <2>2, <2>3, <2>4 DEF ThreadStep
<1>4. ASSUME NEW t \in Clients, ClientStep(t) PROVE Counted'
  <2>1. t \in Threads /\ t # Main /\ UNCHANGED <<table, disk, meta>>
    BY <1>4, ServerAssumption DEF ClientStep, WriteRequest, ReadRequest, Accept, Edit, WriteCommit,
       WriteAbort, store, Threads
  <2>2. CASE Edit(t) \/ WriteCommit(t) \/ WriteAbort(t)
    <3>1. job[t].op = "WRITE" /\ Local(t)
      BY <2>1, <2>2 DEF Edit, WriteCommit, WriteAbort, IInv, Served, WriteLabels, TextInv
    <3> QED
      BY <3>1 DEF Local, Uninterrupted
  <2>3. ASSUME NEW f \in Files, ReadRequest(t, f) \/ \E i \in Indices : WriteRequest(t, f, i)
        PROVE  Counted'
    <3>1. pc'[Main] = pc[Main] /\ job'[Main] = job[Main] /\ buf' = buf
      BY <1>1, <2>1, <2>3 DEF ReadRequest, WriteRequest, Accept, TypeOK
    <3> QED
      BY <1>1, <2>1, <3>1, CountedFrame
  <2> QED
    BY <1>4, <2>2, <2>3 DEF ClientStep
<1>5. CASE Command
  BY <1>5, CommandCounted
<1>6. ~Killed
  BY DEF Killed, Uninterrupted
<1> QED
  BY <1>2, <1>3, <1>4, <1>5, <1>6 DEF Next

\* While no client writes and the server is not killed, the word count shown
\* to a user is that of the document whenever no handler is at work, whatever
\* readers and commands of the name manager interleave and whatever writes
\* to the disk fail; the count in the .meta file is, too, if none fails.
THEOREM CountsRight == Uninterrupted => (Spec => []CountsMatch)
<1> SUFFICES ASSUME Uninterrupted PROVE Spec => []CountsMatch
  OBVIOUS
<1>1. OneWriter
  BY DEF Uninterrupted, OneWriter
<1>2. Init => Counted
  <2> SUFFICES ASSUME Init PROVE Counted
    OBVIOUS
  <2>1. pc[Main] = "idle"
    BY DEF Init, Threads
  <2>2. ASSUME NEW f \in Files, f \in InitialFiles
        PROVE  /\ meta[f] = table[f].word_count
               /\ table[f].word_count = count_words_in_text(disk[<<f, "data">>])
    BY <2>2 DEF Init, Paths, NewFile, count_words_in_text
  <2>3. ASSUME NEW f \in Files, f \notin InitialFiles PROVE ~table[f].present
    BY <2>3 DEF Init, NoFile
  <2> QED
    BY <2>1, <2>2, <2>3 DEF Counted
<1>3. IInv /\ TextInv /\ Counted /\ [Next]_vars => Counted'
  BY CountedNext
<1>4. TextInv /\ Counted => CountsMatch
  <2> SUFFICES ASSUME TextInv, Counted, \A t \in Threads : pc[t] = "idle",
                      NEW f \in Files, table[f].present
               PROVE  /\ table[f].word_count = count_words_in_text(load_text(<<f, "data">>))
                      /\ DiskMayFail \/ meta[f] = table[f].word_count
    BY DEF CountsMatch
  <2>1. pc[Main] = "idle"
    BY DEF Threads
  <2>2. load_text(<<f, "data">>) = disk[<<f, "data">>]
    BY DEF TextInv, HasText, load_text
  <2> QED
    BY <2>1, <2>2 DEF Counted, Behind
<1> QED
  BY <1>1, <1>2, <1>3, <1>4, Invariance, TextInvariance, PTL DEF Spec

(***************************************************************************)
(* The merge of a commit.  Between its load and its last rename a commit   *)
(* holds a text that is the merge of its session into the document, which  *)
(* no other thread replaces meanwhile.                                     *)
(***************************************************************************)

StoreLabels == UndoStore \cup DataStore
EditLabels == {"edit", "load"} \cup StoreLabels

Sessions == [original : Seq(Text), baseline : Text, text : Text, edits : Nat]

\* What is on disk are texts.
TextDisk == \A p \in Paths : disk[p] = None \/ disk[p] \in Text

\* A session that has begun asked for a sentence that can be there.
Begun(t) == pc[t] \in EditLabels /\ job[t].op = "WRITE" => job[t].index \in Nat

\* The text a commit is storing is the merge of its session into the text it
\* has read.
Drafted(t) ==
    pc[t] \in StoreLabels /\ job[t].op = "WRITE" =>
       /\ buf[t].cur \in Text /\ buf[t].new \in Text
       /\ Replaced(cut(buf[t].cur), buf[t].new, session[t].baseline, cut(session[t].text))

EditInv == /\ session \in [Threads -> Sessions]
           /\ TextDisk
           /\ \A t \in Threads : Begun(t) /\ Drafted(t)

\* No session has no text.
LEMMA NoSessionType == NoSession \in Sessions
<1>1. <<>> \in Text /\ <<>> \in Seq(Text)
  BY EmptySeq DEF Text
<1> QED
  BY <1>1 DEF NoSession, Sessions

\* A step of one thread leaves the sessions and drafts of the others alone.
LEMMA EditOne ==
    ASSUME EditInv, NEW t \in Threads, session' \in [Threads -> Sessions], TextDisk',
           \A u \in Threads \ {t} : /\ pc'[u] = pc[u] /\ job'[u] = job[u]
                                    /\ buf'[u] = buf[u] /\ session'[u] = session[u],
           Begun(t)', Drafted(t)'
    PROVE  EditInv'
<1>1. ASSUME NEW u \in Threads \ {t} PROVE Begun(u)' /\ Drafted(u)'
  BY <1>1 DEF EditInv, Begun, Drafted
<1> QED
  BY <1>1 DEF EditInv

\* The control steps: a handler enters its session, and its store, only by
\* the steps below.
LEMMA GotoEdit ==
    ASSUME TypeOK, BufShape, EditInv, NEW t \in Threads, NEW l, NEW r, Goto(t, l, r), TextDisk',
           l \in EditLabels => pc[t] \in EditLabels,
           l \in StoreLabels => pc[t] \in StoreLabels
    PROVE  EditInv'
<1>1. /\ pc'[t] = l
      /\ \A u \in Threads \ {t} : pc'[u] = pc[u] /\ job'[u] = job[u] /\ buf'[u] = buf[u]
      /\ l # "idle" => job' = job /\ buf' = buf
  BY GotoLocal
<1>2. /\ session' \in [Threads -> Sessions]
      /\ \A u \in Threads \ {t} : session'[u] = session[u]
      /\ l # "idle" => session' = session
  BY NoSessionType DEF Goto, local, EditInv
<1>3. Begun(t)' /\ Drafted(t)'
  <2>1. CASE l = "idle"
    BY <1>1, <2>1 DEF Begun, Drafted, EditLabels, StoreLabels, UndoStore, DataStore
  <2>2. CASE l # "idle"
    <3>0. Begun(t) /\ Drafted(t)
      BY Zenon DEF EditInv
    <3>1. pc'[t] = l /\ job' = job /\ buf' = buf /\ session' = session
      BY <1>1, <1>2, <2>2
    <3>2. Begun(t)'
      BY <3>0, <3>1 DEF Begun
    <3>3. Drafted(t)'
      BY <3>0, <3>1 DEF Drafted
    <3> QED
      BY <3>2, <3>3
  <2> QED
    BY <2>1, <2>2
<1> QED
  BY <1>1, <1>2, <1>3, EditOne

\* The document of a thread's file, as a text.
LEMMA LoadType ==
    ASSUME TypeOK, TextDisk, NEW t \in Threads
    PROVE  load_text(<<job[t].file, "data">>) \in Text
<1>1. <<job[t].file, "data">> \in Paths /\ <<>> \in Text
  BY EmptySeq DEF TypeOK, Paths, Text
<1> QED
  BY <1>1 DEF TextDisk, load_text

\* A session begins with the sentence it asked for.
LEMMA BeginEdit ==
    ASSUME TypeOK, EditInv, NEW t \in Threads, write_session_begin(t)
    PROVE  EditInv'
<1>1. PICK sentences : sentences = split_sentences(load_text(<<job[t].file, "data">>))
  OBVIOUS
<1>2. sentences \in Seq(Text) /\ Len(sentences) \in Nat
  <2>1. sentences \in Seq(Text)
    BY <1>1, LoadType, SplitJoin DEF EditInv
  <2> QED
    BY <2>1, LenProperties
<1>3. PICK i : i = job[t].index
  OBVIOUS
<1>4. /\ i \in 0..Len(sentences)
      /\ session' = [session EXCEPT ![t] =
            [original |-> sentences,
             baseline |-> IF i < Len(sentences) THEN sentences[i + 1] ELSE <<>>,
             text |-> IF i < Len(sentences) THEN sentences[i + 1] ELSE <<>>, edits |-> 0]]
      /\ pc' = [pc EXCEPT ![t] = "edit"]
      /\ UNCHANGED <<job, buf, disk>>
  BY <1>1, <1>3 DEF write_session_begin, store
<1>5. PICK own \in Text : own = IF i < Len(sentences) THEN sentences[i + 1] ELSE <<>>
  <2>1. CASE i < Len(sentences)
    <3>1. i + 1 \in 1..Len(sentences)
      BY <1>2, <1>4, <2>1
    <3>2. sentences[i + 1] \in Text
      BY <1>2, <3>1, ElementOfSeq
    <3> QED
      BY <2>1, <3>2
  <2>2. CASE ~(i < Len(sentences))
    <3>1. <<>> \in Text
      BY EmptySeq DEF Text
    <3> QED
      BY <2>2, <3>1
  <2> QED
    BY <2>1, <2>2
<1>6. PICK s \in Sessions : s = [original |-> sentences, baseline |-> own, text |-> own, edits |-> 0]
  BY <1>2, <1>5 DEF Sessions
<1>7. session' = [session EXCEPT ![t] = s]
  BY <1>4, <1>5, <1>6
<1>8. session' \in [Threads -> Sessions] /\ \A u \in Threads \ {t} : session'[u] = session[u]
  BY <1>7 DEF EditInv
<1>9. pc'[t] = "edit" /\ job' = job /\ buf' = buf /\ \A u \in Threads \ {t} : pc'[u] = pc[u]
  BY <1>4 DEF TypeOK
<1>10. Begun(t)' /\ Drafted(t)'
  <2>1. job'[t].index \in Nat
    BY <1>2, <1>3, <1>4, <1>9
  <2>2. pc'[t] \notin StoreLabels
    BY <1>9 DEF StoreLabels, UndoStore, DataStore
  <2> QED
    BY <2>1, <2>2 DEF Begun, Drafted
<1>11. TextDisk'
  BY <1>4 DEF TextDisk, EditInv
<1> QED
  BY <1>8, <1>9, <1>10, <1>11, EditOne

\* What the three kinds of edit make of a sentence text.
Edited(kind, text, k, content) ==
    CASE kind = "insert"  -> apply_insert(text, k, content)
      [] kind = "replace" -> apply_replace(text, k, content)
      [] kind = "delete"  -> apply_delete(text, k)

\* An edit leaves a sentence text.
LEMMA EditEdit ==
    ASSUME TypeOK, EditInv, NEW t \in Threads, Edit(t)
    PROVE  EditInv'
<1>1. PICK k \in 0..Len(session[t].text), content \in Inserts, kind \in EditKinds :
          session' = [session EXCEPT ![t].text = Edited(kind, @, k, content), ![t].edits = @ + 1]
  BY Zenon DEF Edit, Edited
<1>2. PICK old : old = session[t].text
  OBVIOUS
<1>3. old \in Text /\ content \in Text /\ k \in Nat
  <2>1. old \in Text /\ content \in Text
    BY <1>2, ServerAssumption DEF EditInv, Sessions
  <2>2. Len(old) \in Nat
    BY <2>1, LenProperties DEF Text
  <2> QED
    BY <1>2, <2>1, <2>2
<1>4. PICK new \in Text : new = Edited(kind, old, k, content)
  <2>1. kind \in {"insert", "replace", "delete"}
    BY ServerAssumption
  <2>2. apply_insert(old, k, content) \in Text
    BY <1>3, InsertType
  <2>3. apply_replace(old, k, content) \in Text /\ apply_delete(old, k) \in Text
    BY <1>3, ReplaceType
  <2> QED
    BY <2>1, <2>2, <2>3 DEF Edited
<1>5. session' = [session EXCEPT ![t].text = new, ![t].edits = @ + 1]
  BY <1>1, <1>2, <1>4
<1>6. session' \in [Threads -> Sessions] /\ \A u \in Threads \ {t} : session'[u] = session[u]
  <2>1. session[t] \in Sessions /\ session \in [Threads -> Sessions]
    BY DEF EditInv
  <2>0. [session[t] EXCEPT !.text = new, !.edits = @ + 1] \in Sessions
    <3>1. PICK q \in Sessions : q = session[t]
      BY <2>1
    <3>2. PICK n \in Nat : n = q.edits + 1
      BY DEF Sessions
    <3>3. [q EXCEPT !.text = new, !.edits = n] \in Sessions
      BY DEF Sessions
    <3> QED
      BY <3>1, <3>2, <3>3
  <2>2. PICK s \in Sessions : s = [session[t] EXCEPT !.text = new, !.edits = @ + 1]
    BY <2>0
  <2>3. session' = [session EXCEPT ![t] = s]
    BY <1>5, <2>1, <2>2 DEF Sessions
  <2> QED
    BY <2>1, <2>3
<1>7. pc' = pc /\ job' = job /\ buf' = buf /\ disk' = disk /\ pc[t] = "edit"
  BY DEF Edit, store
<1>8. Begun(t)' /\ Drafted(t)'
  <2>1. pc'[t] \notin StoreLabels
    BY <1>7 DEF StoreLabels, UndoStore, DataStore
  <2> QED
    BY <1>7, <2>1 DEF EditInv, Begun, Drafted
<1>9. TextDisk'
  BY <1>7 DEF TextDisk, EditInv
<1> QED
  BY <1>6, <1>7, <1>8, <1>9, EditOne

\* A commit merges its session into the document it has just read.
LEMMA MergeEdit ==
    ASSUME TypeOK, BufShape, EditInv, NEW t \in Threads, CommitLoad(t)
    PROVE  EditInv'
<1>1. PICK current : current = load_text(<<job[t].file, "data">>)
  OBVIOUS
<1>2. current \in Text
  BY <1>1, LoadType DEF EditInv
<1>3. PICK s \in Sessions : s = session[t]
  BY DEF EditInv
<1>4. PICK new : new = join_sentences(merge(split_sentences(current), s.original, s.baseline,
                                            job[t].index, split_sentences(s.text)))
  OBVIOUS
<1>5. /\ pc[t] = "load" /\ job[t].op = "WRITE" /\ ~conflicts(split_sentences(current), s.baseline)
      /\ buf' = [buf EXCEPT ![t] = [cur |-> current, new |-> new]]
      /\ pc' = [pc EXCEPT ![t] = "undo_open"]
      /\ UNCHANGED <<disk, job, session>>
  BY <1>1, <1>3, <1>4 DEF CommitLoad, store
<1>6. job[t].index \in Nat
  BY <1>5 DEF EditInv, Begun, EditLabels
<1>7. s.baseline \in Text /\ s.text \in Text
  BY DEF Sessions
<1>8. new \in Text /\ Replaced(cut(current), new, s.baseline, cut(s.text))
  BY <1>2, <1>4, <1>5, <1>6, <1>7, MergeReplaces
<1>9. /\ buf'[t].cur = current /\ buf'[t].new = new /\ pc'[t] = "undo_open"
      /\ \A u \in Threads \ {t} : pc'[u] = pc[u] /\ buf'[u] = buf[u]
  BY <1>5 DEF TypeOK, BufShape
<1>10. Begun(t)' /\ Drafted(t)'
  <2>1. job'[t].index \in Nat /\ session'[t] = s
    BY <1>3, <1>5, <1>6
  <2>2. Replaced(cut(buf'[t].cur), buf'[t].new, session'[t].baseline, cut(session'[t].text))
    BY <1>8, <1>9, <2>1
  <2>3. buf'[t].cur \in Text /\ buf'[t].new \in Text
    BY <1>2, <1>8, <1>9
  <2>4. Begun(t)'
    BY <2>1 DEF Begun
  <2>5. Drafted(t)'
    BY <2>2, <2>3 DEF Drafted
  <2> QED
    BY <2>4, <2>5
<1>11. TextDisk' /\ session' \in [Threads -> Sessions]
  BY <1>5 DEF TextDisk, EditInv
<1> QED
  BY <1>5, <1>9, <1>10, <1>11, EditOne

\* A rename puts one of the texts of a commit in place.
LEMMA RenameEdit ==
    ASSUME OneCommit, IInv, TextInv, EditInv, NEW t \in Threads, UndoRename(t) \/ DataRename(t)
    PROVE  EditInv'
<1>1. TypeOK /\ BufShape /\ Shape /\ Local(t) /\ RenameResult(t)
      /\ pc[t] \in {"undo_rename", "data_rename"}
  BY RenameText DEF IInv, TextInv, Shape, BufShape, UndoRename, DataRename
<1>2. job[t].op = "WRITE" /\ pc[t] \in StoreLabels
  <2>1. t # Main /\ pc[t] \in StoreLabels
    BY <1>1 DEF Local, OneCommit, StoreLabels, UndoStore, DataStore
  <2> QED
    BY <1>1, <2>1 DEF Local, StoreLabels, Changing, Rollback
<1>3. buf[t].cur \in Text /\ buf[t].new \in Text
  <2>1. Drafted(t)
    BY Zenon DEF EditInv
  <2> QED
    BY <1>2, <2>1 DEF Drafted
<1>4. TextDisk'
  <2>1. TextDisk /\ DOMAIN disk = Paths
    BY <1>1 DEF EditInv, Shape
  <2>2. disk' = disk \/ \E p \in Paths, x \in Text : disk' = [disk EXCEPT ![p] = x]
    BY <1>1, <1>3, PathsOf DEF RenameResult
  <2> QED
    BY <2>1, <2>2 DEF TextDisk
<1>5. PICK l, r : Goto(t, l, r)
  BY DEF UndoRename, DataRename, StoreRename
<1> QED
  BY <1>1, <1>2, <1>4, <1>5, GotoEdit DEF StoreLabels, EditLabels

\* After a crash there are no sessions.
LEMMA RestartEdit ==
    ASSUME EditInv, Restart
    PROVE  EditInv'
<1>1. /\ pc' = [t \in Threads |-> "idle"] /\ session' = [t \in Threads |-> NoSession]
      /\ disk' = disk
  BY DEF Restart, store
<1>2. session' \in [Threads -> Sessions] /\ TextDisk'
  BY <1>1, NoSessionType DEF EditInv, TextDisk
<1>3. ASSUME NEW t \in Threads PROVE Begun(t)' /\ Drafted(t)'
  BY <1>1 DEF Begun, Drafted, EditLabels, StoreLabels, UndoStore, DataStore
<1> QED
  BY <1>2, <1>3 DEF EditInv

\* The other steps of a handler.
LEMMA ThreadEdit ==
    ASSUME OneCommit, IInv, TextInv, EditInv, NEW t \in Threads, ThreadStep(t)
    PROVE  EditInv'
<1> USE DEF EditLabels, StoreLabels, UndoStore, DataStore
<1>1. TypeOK /\ BufShape /\ Local(t) /\ TextDisk
  BY DEF IInv, TextInv, Shape, BufShape, EditInv
<1>2. ASSUME disk' = disk PROVE TextDisk'
  BY <1>1, <1>2 DEF TextDisk
<1>3. CASE \/ sentence_lock_acquire(t) \/ SetFlag(t) \/ BeginFails(t) \/ BadBeginFlag(t)
           \/ BadBeginRelease(t) \/ Release(t) \/ ClearFlag(t)
  <2>1. /\ disk' = disk
        /\ \E l \in {"idle", "flag", "begin", "badflag", "badrelease", "clear"},
              r \in {"locked", "none", "failed", reply[t]} : Goto(t, l, r)
    BY <1>3 DEF sentence_lock_acquire, SetFlag, BeginFails, BadBeginFlag, BadBeginRelease,
       Release, ClearFlag, store
  <2> QED
    BY <1>1, <1>2, <2>1, GotoEdit
<1>4. CASE write_session_begin(t)
  BY <1>1, <1>4, BeginEdit
<1>5. CASE CommitLoad(t)
  BY <1>1, <1>5, MergeEdit
<1>6. CASE CommitConflict(t)
  <2>1. CASE Restart
    BY <2>1, RestartEdit
  <2>2. CASE Goto(t, "release", "conflict") /\ disk' = disk
    BY <1>1, <1>2, <2>2, GotoEdit
  <2> QED
    BY <1>6, <2>1, <2>2 DEF CommitConflict, store
<1>7. CASE UndoLoad(t)
  BY <1>1, <1>7 DEF UndoLoad, Local, OneCommit, Rollback
<1>8. CASE LoadCurrent(t)
  <2>1. job[t].op = "READ"
    BY <1>1, <1>8 DEF LoadCurrent, Local, OneCommit, Rollback
  <2>2. /\ pc'[t] = "meta" /\ job' = job /\ session' = session /\ disk' = disk
        /\ \A u \in Threads \ {t} : pc'[u] = pc[u] /\ buf'[u] = buf[u]
    BY <1>1, <1>8, <2>1 DEF LoadCurrent, TypeOK, BufShape, store
  <2>3. Begun(t)' /\ Drafted(t)'
    BY <2>2 DEF Begun, Drafted
  <2> QED
    BY <1>2, <2>2, <2>3, EditOne DEF EditInv
<1>9. CASE UndoOpen(t) \/ DataOpen(t)
  <2>1. /\ disk' = disk /\ pc[t] \in {"undo_open", "data_open"}
        /\ \E l \in {"undo_write", "data_write", "release", "idle"}, r \in {reply[t], "failed"} : Goto(t, l, r)
    BY <1>9 DEF UndoOpen, DataOpen, StoreOpen, After, store
  <2> QED
    BY <1>1, <1>2, <2>1, GotoEdit
<1>10. CASE UndoWrite(t) \/ DataWrite(t)
  <2>1. disk' = disk /\ pc[t] \in {"undo_write", "data_write"}
    BY <1>10, WriteText DEF UndoWrite, DataWrite
  <2>2. \E l, r : Goto(t, l, r)
    BY <1>10 DEF UndoWrite, DataWrite, StoreWrite
  <2> QED
    BY <1>1, <1>2, <2>1, <2>2, GotoEdit
<1>11. CASE UndoRename(t) \/ DataRename(t)
  BY <1>11, RenameEdit
<1>12. CASE StoreDrop(t)
  <2>1. disk' = disk /\ \E l \in {"release", "idle"} : Goto(t, l, "failed")
    BY <1>12 DEF StoreDrop, After
  <2> QED
    BY <1>1, <1>2, <2>1, GotoEdit
<1>13. CASE UnlinkUndo(t)
  BY <1>1, <1>13 DEF UnlinkUndo, Local, OneCommit, Rollback
<1>14. CASE Account(t)
  <2>1. disk' = disk /\ \E l \in {"release", "idle"} : Goto(t, l, reply[t])
    BY <1>14 DEF Account, After
  <2> QED
    BY <1>1, <1>2, <2>1, GotoEdit
<1> QED
  BY <1>3, <1>4, <1>5, <1>6, <1>7, <1>8, <1>9, <1>10, <1>11, <1>12, <1>13, <1>14 DEF ThreadStep

\* What clients do.
LEMMA ClientEdit ==
    ASSUME OneCommit, IInv, TextInv, EditInv, NEW t \in Clients, ClientStep(t)
    PROVE  EditInv'
<1>1. TypeOK /\ BufShape /\ TextDisk /\ t \in Threads
  BY DEF IInv, TextInv, Shape, BufShape, EditInv, Threads
<1>2. ASSUME disk' = disk PROVE TextDisk'
  BY <1>1, <1>2 DEF TextDisk
<1>3. CASE Edit(t)
  BY <1>1, <1>3, EditEdit
<1>4. CASE WriteCommit(t) \/ WriteAbort(t)
  <2>1. /\ disk' = disk /\ pc[t] = "edit"
        /\ \E l \in {"load", "release"}, r \in {"none", "aborted"} : Goto(t, l, r)
    BY <1>4 DEF WriteCommit, WriteAbort, store
  <2> QED
    BY <1>1, <1>2, <2>1, GotoEdit DEF EditLabels, StoreLabels, UndoStore, DataStore
<1>5. ASSUME NEW f \in Files, ReadRequest(t, f) \/ \E i \in Indices : WriteRequest(t, f, i)
      PROVE  EditInv'
  <2>1. /\ session' = session /\ disk' = disk /\ buf' = buf
        /\ \A u \in Threads \ {t} : pc'[u] = pc[u] /\ job'[u] = job[u]
    BY <1>1, <1>5 DEF ReadRequest, WriteRequest, Accept, TypeOK, store
  <2>2. pc'[t] = "acquire" \/ (pc'[t] = "load" /\ job'[t].op = "READ")
    BY <1>1, <1>5 DEF ReadRequest, WriteRequest, Accept, TypeOK
  <2>3. Begun(t)' /\ Drafted(t)'
    BY <2>2 DEF Begun, Drafted, EditLabels, StoreLabels, UndoStore, DataStore
  <2> QED
    BY <1>1, <1>2, <2>1, <2>3, EditOne DEF EditInv
<1> QED
  BY <1>3, <1>4, <1>5 DEF ClientStep

\* Every step keeps the texts texts and the drafts merges.
LEMMA EditNext ==
    ASSUME OneCommit, IInv, TextInv, EditInv, [Next]_vars
    PROVE  EditInv'
<1>1. CASE UNCHANGED vars
  <2>1. session' = session /\ disk' = disk /\ pc' = pc /\ job' = job /\ buf' = buf
    BY <1>1 DEF vars
  <2> QED
    BY <2>1 DEF EditInv, TextDisk, Begun, Drafted
<1>2. ~Command
  BY DEF Command, Create, Delete, Undo, Revert, Checkpoint, Sync, OneCommit
<1>3. CASE Killed
  BY <1>3, RestartEdit DEF Killed
<1> QED
  BY <1>1, <1>2, <1>3, ThreadEdit, ClientEdit DEF Next

\* At the start there are texts on disk and no sessions.
LEMMA EditInit == ASSUME Init PROVE EditInv
<1>1. session \in [Threads -> Sessions]
  BY NoSessionType DEF Init
<1>2. TextDisk
  BY ServerAssumption DEF Init, TextDisk
<1>3. ASSUME NEW t \in Threads PROVE Begun(t) /\ Drafted(t)
  BY DEF Init, Begun, Drafted, EditLabels, StoreLabels, UndoStore, DataStore
<1> QED
  BY <1>1, <1>2, <1>3 DEF EditInv

\* README.md:49, for any number of connections that edit at the same time and
\* commit one after the other, any documents, edits, crashes and failed
\* writes: a commit puts the edited sentence in the place of one occurrence
\* of its baseline in the document as it is then, and changes no other word.
THEOREM EditsMerged == OneWriter => (Spec => EditMerged)
<1> SUFFICES ASSUME OneWriter PROVE Spec => EditMerged
  OBVIOUS
<1> DEFINE Step ==
      \A t \in Clients :
          LET data == <<job[t].file, "data">>
          IN  pc[t] = "data_rename" /\ pc'[t] = "meta" /\ job[t].op = "WRITE" =>
                Replaced(cut(load_text(data)), disk'[data], session[t].baseline,
                         cut(session[t].text))
<1>1. CASE "WRITE" \notin Requests
  <2>1. TextInv /\ [Next]_vars => [Step]_vars
    BY <1>1 DEF TextInv, Local, Threads
  <2> QED
    BY <2>1, TextInvariance, PTL DEF Spec, EditMerged
<1>2. CASE OneCommit
  <2>1. Init => EditInv
    BY EditInit
  <2>2. IInv /\ TextInv /\ EditInv /\ [Next]_vars => EditInv'
    BY <1>2, EditNext
  <2>3. IInv /\ TextInv /\ EditInv /\ [Next]_vars => [Step]_vars
    <3> SUFFICES ASSUME IInv, TextInv, EditInv, [Next]_vars, NEW t \in Clients,
                        pc[t] = "data_rename", pc'[t] = "meta", job[t].op = "WRITE"
                 PROVE  Replaced(cut(load_text(DataOf(t))), disk'[DataOf(t)], session[t].baseline,
                                 cut(session[t].text))
      BY DEF DataOf
    <3>1. TypeOK /\ Shape /\ Kept(t) /\ t \in Threads
      BY DEF IInv, TextInv, Threads
    <3>2. RenameResult(t)
      BY <3>1, OnlyRename, RenameText
    <3>3. disk' = [disk EXCEPT ![DataOf(t)] = buf[t].new] /\ DataOf(t) \in DOMAIN disk
      BY <3>1, <3>2, PathsOf DEF RenameResult, Shape
    <3>4. load_text(DataOf(t)) = buf[t].cur
      BY <3>1 DEF Kept, DataStore, Changing, load_text
    <3>5. Drafted(t)
      BY <3>1, Zenon DEF EditInv
    <3>6. Replaced(cut(buf[t].cur), buf[t].new, session[t].baseline, cut(session[t].text))
      BY <3>5 DEF Drafted, StoreLabels, DataStore
    <3> QED
      BY <3>3, <3>4, <3>6
  <2> QED
    BY <2>1, <2>2, <2>3, Invariance, TextInvariance, PTL DEF Spec, EditMerged
<1> QED
  BY <1>1, <1>2 DEF OneWriter
=============================================================================
