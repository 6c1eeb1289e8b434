---------------------------- MODULE StorageServer ---------------------------
(***************************************************************************)
(* One storage server (ss/ss_main.c, ss/ss_state.c): the thread of every   *)
(* data connection and the main thread that executes the name manager's    *)
(* commands, on the state they share: the file table, the table of         *)
(* sentence locks, and the files on disk.                                  *)
(*                                                                         *)
(* One action is one critical section of the code, or one system call      *)
(* outside of it: two threads interleave wherever the code lets them.  In  *)
(* particular a commit loads, merges and stores without holding a lock.    *)
(*                                                                         *)
(* Left out: time stamps, owners, the user names in locks (never compared) *)
(* and the character count (kept with the word count in every place).      *)
(* Tickets are checked before a request reaches these handlers.  CREATE    *)
(* and DELETE do not fail half way.                                        *)
(***************************************************************************)
EXTENDS SentenceText

CONSTANTS Clients,      \* the threads of data connections
          Main,         \* the main thread
          Files,        \* file names
          InitialText,  \* what every file of InitialFiles holds at the start
          InitialFiles, \* the files the server loads when it starts
          Tags,         \* checkpoint tags
          Requests,     \* the kinds of request clients and the NM issue
          Indices,      \* the sentence indices clients ask for
          Inserts,      \* the contents clients insert
          EditKinds,    \* the kinds of edit clients make
          SyncTexts,    \* what NM_SYNC can fetch from another server
          MaxEdits,     \* bound: edits of one session
          MaxWords,     \* bound: no edits in a document of this length
          MaxCommits,   \* bound: commits that load and store at the same time
          MayBeKilled,  \* whether the server process is killed from outside
          MaxCrashes,   \* bound: crashes and restarts
          DiskMayFail,  \* whether a write to disk can fail
          None          \* no file at this path

Threads == Clients \cup {Main}

AllRequests == {"READ", "WRITE", "CREATE", "DELETE", "UNDO", "CHECKPOINT",
                "REVERT", "SYNC"}

Paths == Files \X {"data", "undo"}

ASSUME ServerAssumption ==
    /\ Main \notin Clients
    /\ Files # {}
    /\ InitialFiles \subseteq Files
    /\ InitialText \in Text
    /\ Inserts \subseteq Text
    /\ SyncTexts \subseteq Text
    /\ None \notin {InitialText, <<>>}
    /\ Indices \subseteq Int
    /\ Requests \subseteq AllRequests
    /\ EditKinds \subseteq {"insert", "replace", "delete"}
    /\ MaxEdits \in Nat
    /\ MaxWords \in Nat
    /\ MaxCommits \in Nat
    /\ MaxCrashes \in Nat
    /\ DiskMayFail \in BOOLEAN
    /\ MayBeKilled \in BOOLEAN

VARIABLES
    table,     \* file table in memory: present, lock_active, word_count
    locks,     \* sentence lock table: pairs <<file, sentence index>>
    disk,      \* the text at each path, or None
    tmp,       \* the text at "<path>.tmp", or None
    meta,      \* the word count in the file's .meta, or None
    ckpt,      \* the text stored under each checkpoint tag, or None
    pc,        \* where each thread is
    job,       \* the request a thread serves: op, file, index
    session,   \* the write session of a thread
    buf,       \* texts a thread holds: cur (becomes undo), new (becomes data)
    fd,        \* what the stream a thread has open for writing refers to
    reply,     \* what a thread has answered to the request it serves
    crashes    \* how often the server crashed

vars == <<table, locks, disk, tmp, meta, ckpt, pc, job, session, buf, fd, reply, crashes>>

store == <<disk, tmp, meta, ckpt>>
local == <<job, session, buf>>

-----------------------------------------------------------------------------
(* Control points *)

BadBegin  == {"badflag", "badrelease"}
UndoStore == {"undo_open", "undo_write", "undo_rename", "undo_drop"}
DataStore == {"data_open", "data_write", "data_rename", "data_drop"}
Labels == {"idle", "acquire", "flag", "begin", "edit", "load", "unlink", "meta",
           "release", "clear"} \cup BadBegin \cup UndoStore \cup DataStore

\* A thread that serves a WRITE and has its entry in the sentence lock table.
Holding(t) == /\ job[t].op = "WRITE"
              /\ pc[t] \notin {"idle", "acquire", "clear"}

Key(t) == <<job[t].file, job[t].index>>

NoJob == [op |-> "none", file |-> CHOOSE f \in Files : TRUE, index |-> 0]
NoSession == [original |-> <<>>, baseline |-> <<>>, text |-> <<>>, edits |-> 0]
NoTexts == [cur |-> <<>>, new |-> <<>>]

\* A thread moves on; when its handler returns, its local variables are gone.
\* The answer to the client is recorded while the handler has more to do.
Goto(t, label, answer) ==
    /\ pc' = [pc EXCEPT ![t] = label]
    /\ IF label = "idle"
       THEN /\ job' = [job EXCEPT ![t] = NoJob]
            /\ session' = [session EXCEPT ![t] = NoSession]
            /\ buf' = [buf EXCEPT ![t] = NoTexts]
            /\ reply' = [reply EXCEPT ![t] = "none"]
       ELSE /\ reply' = [reply EXCEPT ![t] = answer]
            /\ UNCHANGED local

\* Where a handler goes when it is through with its files.
After(t) == IF job[t].op = "WRITE" THEN "release" ELSE "idle"

\* Where it goes when a store of a text fails.
Drop(t) == IF pc[t] \in UndoStore THEN "undo_drop" ELSE "data_drop"

NoFile == [present |-> FALSE, lock_active |-> FALSE, word_count |-> 0]
NewFile == [present |-> TRUE, lock_active |-> FALSE, word_count |-> 0]

-----------------------------------------------------------------------------
(* Files *)

Path(t) == <<job[t].file, IF pc[t] \in UndoStore THEN "undo" ELSE "data">>

\* A file that cannot be opened reads as the empty text.
load_text(p) == IF disk[p] = None THEN <<>> ELSE disk[p]

\* A stream writes at offset 0 over whatever its file holds.
Overlay(new, old) == IF old = <<>> THEN new
                     ELSE new \o SubSeq(old, Len(new) + 1, Len(old))

\* What happens to the streams other threads have open on a path.
Renamed(f)  == CASE f = "tmp" -> "main" [] f = "main" -> "orphan" [] OTHER -> f
Unlinked(f) == IF f = "main" THEN "orphan" ELSE f
TmpUnlinked(f) == IF f = "tmp" THEN "orphan" ELSE f
Relink(P, Change(_)) ==
    fd' = [u \in Threads |-> IF Path(u) \in P THEN Change(fd[u]) ELSE fd[u]]

\* Wrong variant: the file itself is opened, not a temporary one.
StoreOpen_in_place(t, label) ==
    /\ disk' = [disk EXCEPT ![Path(t)] = <<>>]
    /\ fd' = [fd EXCEPT ![t] = "main"]
    /\ Goto(t, label, reply[t])
    /\ UNCHANGED <<table, locks, tmp, meta, ckpt, crashes>>

\* store_text_atomic, first step: fopen(tmp, "wb") creates or truncates.
StoreOpen(t, label) ==
    \/ /\ tmp' = [tmp EXCEPT ![Path(t)] = <<>>]
       /\ fd' = [fd EXCEPT ![t] = "tmp"]
       /\ Goto(t, label, reply[t])
       /\ UNCHANGED <<table, locks, disk, meta, ckpt, crashes>>
    \/ /\ DiskMayFail
       /\ Goto(t, After(t), "failed")
       /\ UNCHANGED <<table, locks, store, fd, crashes>>

\* The file a stream refers to holds the text afterwards.
Written(t, text) ==
    /\ disk' = IF fd[t] = "main"
               THEN [disk EXCEPT ![Path(t)] = Overlay(text, load_text(Path(t)))]
               ELSE disk
    /\ tmp' = IF fd[t] = "tmp"
              THEN [tmp EXCEPT ![Path(t)] = Overlay(text, @)]
              ELSE tmp

\* Wrong variant: whether the text was written is not looked at.
StoreWrite_unchecked(t, text, label) ==
    /\ Written(t, text) \/ (DiskMayFail /\ UNCHANGED <<disk, tmp>>)
    /\ Goto(t, label, reply[t])
    /\ fd' = [fd EXCEPT ![t] = "none"]
    /\ UNCHANGED <<table, locks, meta, ckpt, crashes>>

\* Second step: write, flush, sync and close.  The text may have reached the
\* file or not when one of these fails.
StoreWrite(t, text, label) ==
    /\ \/ /\ Written(t, text)
          /\ Goto(t, label, reply[t])
       \/ /\ DiskMayFail
          /\ Written(t, text) \/ UNCHANGED <<disk, tmp>>
          /\ Goto(t, Drop(t), "failed")
    /\ fd' = [fd EXCEPT ![t] = "none"]
    /\ UNCHANGED <<table, locks, meta, ckpt, crashes>>

\* Wrong variant: the rename is retried until it succeeds.
StoreRename_retry(t, label, answer) ==
    /\ tmp[Path(t)] # None
    /\ disk' = [disk EXCEPT ![Path(t)] = tmp[Path(t)]]
    /\ tmp' = [tmp EXCEPT ![Path(t)] = None]
    /\ Relink({Path(t)}, Renamed)
    /\ Goto(t, label, answer)
    /\ UNCHANGED <<table, locks, meta, ckpt, crashes>>

\* Last step: rename(tmp, path), which fails when another thread that used
\* the same temporary name has renamed or unlinked it already.
StoreRename(t, label, answer) ==
    \/ /\ tmp[Path(t)] # None
       /\ disk' = [disk EXCEPT ![Path(t)] = tmp[Path(t)]]
       /\ tmp' = [tmp EXCEPT ![Path(t)] = None]
       /\ Relink({Path(t)}, Renamed)
       /\ Goto(t, label, answer)
       /\ UNCHANGED <<table, locks, meta, ckpt, crashes>>
    \/ /\ tmp[Path(t)] = None \/ DiskMayFail
       /\ Goto(t, Drop(t), "failed")
       /\ UNCHANGED <<table, locks, store, fd, crashes>>

\* After a failure the temporary name is unlinked, whoever's file it is now.
StoreDrop(t) ==
    /\ pc[t] \in {"undo_drop", "data_drop"}
    /\ tmp' = [tmp EXCEPT ![Path(t)] = None]
    /\ Relink({Path(t)}, TmpUnlinked)
    /\ Goto(t, After(t), "failed")
    /\ UNCHANGED <<table, locks, disk, meta, ckpt, crashes>>

-----------------------------------------------------------------------------
(* The WRITE session of a data connection: handle_write *)

\* A request for a file that is not in the table is answered ERR_NOTFOUND.
\* Otherwise the handler goes on with a copy of the table entry.
Accept(t, op, f, i, label) ==
    /\ pc[t] = "idle"
    /\ table[f].present
    /\ pc' = [pc EXCEPT ![t] = label]
    /\ job' = [job EXCEPT ![t] = [op |-> op, file |-> f, index |-> i]]
    /\ UNCHANGED <<table, locks, store, session, fd, reply, crashes>>

WriteRequest(t, f, i) ==
    /\ "WRITE" \in Requests
    /\ Accept(t, "WRITE", f, i, "acquire")
    /\ UNCHANGED buf

\* Wrong variants: a held lock is granted again; the index recorded is off by one.
acquire_unchecked(t) ==
    /\ pc[t] = "acquire"
    /\ locks' = locks \cup {Key(t)}
    /\ Goto(t, "flag", "none")
    /\ UNCHANGED <<table, store, fd, crashes>>

acquire_off_by_one(t) ==
    /\ pc[t] = "acquire"
    /\ Key(t) \notin locks
    /\ locks' = locks \cup {<<job[t].file, job[t].index + 1>>}
    /\ Goto(t, "flag", "none")
    /\ UNCHANGED <<table, store, fd, crashes>>

\* A sentence that is locked is refused with ERR_LOCKED.
sentence_lock_acquire(t) ==
    /\ pc[t] = "acquire"
    /\ \/ /\ Key(t) \in locks
          /\ Goto(t, "idle", "locked")
          /\ UNCHANGED locks
       \/ /\ Key(t) \notin locks
          /\ locks' = locks \cup {Key(t)}
          /\ Goto(t, "flag", "none")
    /\ UNCHANGED <<table, store, fd, crashes>>

\* Wrong variant: a session gives back every lock of its file.
release_all(t) == locks' = {k \in locks : k[1] # job[t].file}

sentence_lock_release(t) == locks' = locks \ {Key(t)}

\* One flag per file, whatever the number of its sessions.
set_file_lock_state(f, active) ==
    table' = IF table[f].present THEN [table EXCEPT ![f].lock_active = active] ELSE table

SetFlag(t) ==
    /\ pc[t] = "flag"
    /\ set_file_lock_state(job[t].file, TRUE)
    /\ Goto(t, "begin", "none")
    /\ UNCHANGED <<locks, store, fd, crashes>>

write_session_begin(t) ==
    LET sentences == split_sentences(load_text(<<job[t].file, "data">>))
        i == job[t].index
        own == IF i < Len(sentences) THEN sentences[i + 1] ELSE <<>>
    IN  /\ pc[t] = "begin"
        /\ i \in 0..Len(sentences)
        /\ session' = [session EXCEPT ![t] =
              [original |-> sentences, baseline |-> own, text |-> own, edits |-> 0]]
        /\ pc' = [pc EXCEPT ![t] = "edit"]
        /\ UNCHANGED <<table, locks, store, job, buf, fd, reply, crashes>>

\* The index is out of range, or the answer cannot be encoded or sent.
BeginFails(t) ==
    /\ pc[t] = "begin"
    /\ Goto(t, "badflag", "failed")
    /\ UNCHANGED <<table, locks, store, fd, crashes>>

\* A session that could not begin clears the flag and then releases the lock.
BadBeginFlag(t) ==
    /\ pc[t] = "badflag"
    /\ set_file_lock_state(job[t].file, FALSE)
    /\ Goto(t, "badrelease", reply[t])
    /\ UNCHANGED <<locks, store, fd, crashes>>

BadBeginRelease(t) ==
    /\ pc[t] = "badrelease"
    /\ sentence_lock_release(t)
    /\ Goto(t, "idle", reply[t])
    /\ UNCHANGED <<table, store, fd, crashes>>

\* WRITE_INSERT, WRITE_REPLACE and WRITE_DELETE change only the session.
Edit(t) ==
    /\ pc[t] = "edit"
    /\ session[t].edits < MaxEdits
    /\ Len(load_text(<<job[t].file, "data">>)) < MaxWords
    /\ \E k \in 0..Len(session[t].text), content \in Inserts, kind \in EditKinds :
          session' = [session EXCEPT
             ![t].text = CASE kind = "insert"  -> apply_insert(@, k, content)
                           [] kind = "replace" -> apply_replace(@, k, content)
                           [] kind = "delete"  -> apply_delete(@, k),
             ![t].edits = @ + 1]
    /\ UNCHANGED <<table, locks, store, pc, job, buf, fd, reply, crashes>>

WriteCommit(t) ==
    /\ pc[t] = "edit"
    /\ Cardinality({u \in Clients : pc[u] \in {"load"} \cup UndoStore \cup DataStore})
         < MaxCommits
    /\ Goto(t, "load", "none")
    /\ UNCHANGED <<table, locks, store, fd, crashes>>

\* WRITE_ABORT, or the client is gone: the edits are dropped.
WriteAbort(t) ==
    /\ pc[t] = "edit"
    /\ Goto(t, "release", "aborted")
    /\ UNCHANGED <<table, locks, store, fd, crashes>>

Release(t) ==
    /\ pc[t] = "release"
    /\ sentence_lock_release(t)
    /\ Goto(t, "clear", reply[t])
    /\ UNCHANGED <<table, store, fd, crashes>>

\* Wrong variant: the flag is left as it is.
ClearFlag_forgotten(t) ==
    /\ pc[t] = "clear"
    /\ Goto(t, "idle", reply[t])
    /\ UNCHANGED <<table, locks, store, fd, crashes>>

ClearFlag(t) ==
    /\ pc[t] = "clear"
    /\ set_file_lock_state(job[t].file, FALSE)
    /\ Goto(t, "idle", reply[t])
    /\ UNCHANGED <<locks, store, fd, crashes>>

-----------------------------------------------------------------------------
(* Crash and restart: only the disk survives; ss_state_load reads it back. *)

ss_state_load ==
    [f \in Files |->
        IF meta[f] = None THEN NoFile
        ELSE [NewFile EXCEPT !.word_count =
                 IF meta[f] = 0 THEN count_words_in_text(load_text(<<f, "data">>))
                 ELSE meta[f]]]

Restart ==
    /\ crashes < MaxCrashes
    /\ crashes' = crashes + 1
    /\ table' = ss_state_load
    /\ locks' = {}
    /\ pc' = [t \in Threads |-> "idle"]
    /\ job' = [t \in Threads |-> NoJob]
    /\ session' = [t \in Threads |-> NoSession]
    /\ buf' = [t \in Threads |-> NoTexts]
    /\ fd' = [t \in Threads |-> "none"]
    /\ reply' = [t \in Threads |-> "none"]
    /\ UNCHANGED store

Killed == MayBeKilled /\ Restart

-----------------------------------------------------------------------------
(* Commit, read, undo, revert and sync: load, store, account *)

\* Wrong variant: the commit keeps no undo text.
CommitLoad_without_undo(t) ==
    LET latest == split_sentences(load_text(<<job[t].file, "data">>))
        s == session[t]
    IN  /\ pc[t] = "load"
        /\ job[t].op = "WRITE"
        /\ ~conflicts(latest, s.baseline)
        /\ buf' = [buf EXCEPT ![t].new =
              join_sentences(merge(latest, s.original, s.baseline,
                                   job[t].index, split_sentences(s.text)))]
        /\ pc' = [pc EXCEPT ![t] = "data_open"]
        /\ UNCHANGED <<table, locks, store, job, session, fd, reply, crashes>>

\* write_session_commit up to the first store.
CommitLoad(t) ==
    LET current == load_text(<<job[t].file, "data">>)
        latest == split_sentences(current)
        s == session[t]
    IN  /\ pc[t] = "load"
        /\ job[t].op = "WRITE"
        /\ ~conflicts(latest, s.baseline)
        /\ buf' = [buf EXCEPT ![t] =
              [cur |-> current,
               new |-> join_sentences(merge(latest, s.original, s.baseline,
                                            job[t].index, split_sentences(s.text)))]]
        /\ pc' = [pc EXCEPT ![t] = "undo_open"]
        /\ UNCHANGED <<table, locks, store, job, session, fd, reply, crashes>>

\* The baseline is gone.  The jump to commit_fail skips the initialisers of
\* merged and merged_init: clearing whatever the stack holds can take the
\* server down instead of answering ERR_CONFLICT.
CommitConflict(t) ==
    /\ pc[t] = "load"
    /\ job[t].op = "WRITE"
    /\ conflicts(split_sentences(load_text(<<job[t].file, "data">>)), session[t].baseline)
    /\ \/ /\ Goto(t, "release", "conflict")
          /\ UNCHANGED <<table, locks, store, fd, crashes>>
       \/ Restart

\* perform_undo: nothing to undo is answered ERR_CONFLICT.
UndoLoad(t) ==
    LET undo == disk[<<job[t].file, "undo">>] IN
    /\ pc[t] = "load"
    /\ job[t].op = "UNDO"
    /\ \/ /\ undo = None
          /\ Goto(t, "idle", "conflict")
       \/ /\ undo # None
          /\ buf' = [buf EXCEPT ![t].new = undo]
          /\ pc' = [pc EXCEPT ![t] = "data_open"]
          /\ UNCHANGED <<job, session, reply>>
    /\ UNCHANGED <<table, locks, store, fd, crashes>>

\* Wrong variant: the current text is not read before it is replaced.
LoadCurrent_unread(t) ==
    /\ pc[t] = "load"
    /\ job[t].op \in {"READ", "REVERT", "SYNC"}
    /\ pc' = [pc EXCEPT ![t] = IF job[t].op = "READ" THEN "meta" ELSE "undo_open"]
    /\ UNCHANGED <<table, locks, store, job, session, buf, fd, reply, crashes>>

\* REVERT and SYNC keep the current text for UNDO; READ sends it.
LoadCurrent(t) ==
    /\ pc[t] = "load"
    /\ job[t].op \in {"READ", "REVERT", "SYNC"}
    /\ buf' = [buf EXCEPT ![t].cur = load_text(<<job[t].file, "data">>)]
    /\ pc' = [pc EXCEPT ![t] = IF job[t].op = "READ" THEN "meta" ELSE "undo_open"]
    /\ UNCHANGED <<table, locks, store, job, session, fd, reply, crashes>>

UndoOpen(t) == pc[t] = "undo_open" /\ StoreOpen(t, "undo_write")
UndoWrite(t) == pc[t] = "undo_write" /\ StoreWrite(t, buf[t].cur, "undo_rename")
UndoRename(t) == pc[t] = "undo_rename" /\ StoreRename(t, "data_open", "none")

DataOpen(t) == pc[t] = "data_open" /\ StoreOpen(t, "data_write")
DataWrite(t) == pc[t] = "data_write" /\ StoreWrite(t, buf[t].new, "data_rename")

\* A commit is acknowledged as soon as its text is in place.
DataRename(t) ==
    /\ pc[t] = "data_rename"
    /\ StoreRename(t, IF job[t].op = "UNDO" THEN "unlink" ELSE "meta", "ok")

\* perform_undo consumes the undo text; that it could not is only logged.
UnlinkUndo(t) ==
    LET p == <<job[t].file, "undo">> IN
    /\ pc[t] = "unlink"
    /\ \/ /\ disk' = [disk EXCEPT ![p] = None]
          /\ Relink({p}, Unlinked)
       \/ /\ DiskMayFail
          /\ UNCHANGED <<disk, fd>>
    /\ Goto(t, "meta", "ok")
    /\ UNCHANGED <<table, locks, tmp, meta, ckpt, crashes>>

\* The .meta file is written in place and nobody looks at the result: it may
\* keep its old count, or be cut short before the count of characters and
\* read back as zero, for which ss_state_load counts anew.
write_meta_file(f, words) ==
    \/ meta' = [meta EXCEPT ![f] = words]
    \/ DiskMayFail /\ meta' = [meta EXCEPT ![f] = 0]
    \/ DiskMayFail /\ UNCHANGED meta

\* Wrong variant: the counters are updated in memory only.
Account_unsaved(t) ==
    LET f == job[t].file
        op == job[t].op
    IN  /\ pc[t] = "meta"
        /\ table' = IF op = "READ" \/ ~table[f].present THEN table
                    ELSE [table EXCEPT ![f].word_count = count_words_in_text(buf[t].new),
                                       ![f].lock_active = @ /\ op # "WRITE"]
        /\ Goto(t, After(t), reply[t])
        /\ UNCHANGED <<locks, store, fd, crashes>>

\* The counters, under the write lock of the table; a commit clears the
\* file's lock flag here.  The SS_FILE_UPDATE sent next changes nothing in
\* this server.
Account(t) ==
    LET f == job[t].file
        op == job[t].op
        words == IF op = "READ" THEN table[f].word_count
                 ELSE count_words_in_text(buf[t].new)
    IN  /\ pc[t] = "meta"
        /\ \/ /\ table[f].present
              /\ table' = [table EXCEPT ![f].word_count = words,
                                        ![f].lock_active = @ /\ op # "WRITE"]
              /\ write_meta_file(f, words)
           \/ /\ ~table[f].present
              /\ UNCHANGED <<table, meta>>
        /\ Goto(t, After(t), reply[t])
        /\ UNCHANGED <<locks, disk, tmp, ckpt, fd, crashes>>

\* handle_read and handle_stream.
ReadRequest(t, f) ==
    /\ "READ" \in Requests
    /\ Accept(t, "READ", f, 0, "load")
    /\ UNCHANGED buf

-----------------------------------------------------------------------------
(* Commands of the name manager, on the main thread: process_nm_command.   *)
(* A command that is refused (ERR_EXISTS, ERR_NOTFOUND, ERR_LOCKED)        *)
(* changes nothing.                                                        *)

\* The data path is truncated if something is there already.
ss_state_add(f) ==
    /\ table' = [table EXCEPT ![f] = NewFile]
    /\ disk' = [disk EXCEPT ![<<f, "data">>] = <<>>]
    /\ meta' = [meta EXCEPT ![f] = 0]

Create(f) ==
    /\ "CREATE" \in Requests
    /\ pc[Main] = "idle"
    /\ ~table[f].present
    /\ ss_state_add(f)
    /\ UNCHANGED <<locks, tmp, ckpt, pc, local, fd, reply, crashes>>

\* Checkpoints are not removed with the file.
ss_state_remove(f) ==
    /\ table' = [table EXCEPT ![f] = NoFile]
    /\ disk' = [disk EXCEPT ![<<f, "data">>] = None, ![<<f, "undo">>] = None]
    /\ meta' = [meta EXCEPT ![f] = None]
    /\ Relink({<<f, "data">>, <<f, "undo">>}, Unlinked)

Delete(f) ==
    /\ "DELETE" \in Requests
    /\ pc[Main] = "idle"
    /\ table[f].present
    /\ ~table[f].lock_active
    /\ ss_state_remove(f)
    /\ UNCHANGED <<locks, tmp, ckpt, pc, local, reply, crashes>>

\* UNDO and REVERT look at the lock flag once, before they load anything.
Undo(f) ==
    /\ "UNDO" \in Requests
    /\ ~table[f].lock_active
    /\ Accept(Main, "UNDO", f, 0, "load")
    /\ UNCHANGED buf

Revert(f, tag) ==
    /\ "REVERT" \in Requests
    /\ ckpt[f][tag] # None
    /\ ~table[f].lock_active
    /\ Accept(Main, "REVERT", f, 0, "load")
    /\ buf' = [buf EXCEPT ![Main].new = ckpt[f][tag]]

Checkpoint(f, tag) ==
    /\ "CHECKPOINT" \in Requests
    /\ pc[Main] = "idle"
    /\ table[f].present
    /\ ckpt' = [ckpt EXCEPT ![f][tag] = load_text(<<f, "data">>)]
    /\ UNCHANGED <<table, locks, disk, tmp, meta, pc, local, fd, reply, crashes>>

\* NM_SYNC: the backup replaces its copy by what it fetched; the flag and
\* the sentence locks are not looked at.
Sync(f, text) ==
    /\ "SYNC" \in Requests
    /\ pc[Main] = "idle"
    /\ \/ table[f].present /\ UNCHANGED <<table, disk, meta>>
       \/ ~table[f].present /\ ss_state_add(f)
    /\ pc' = [pc EXCEPT ![Main] = "load"]
    /\ job' = [job EXCEPT ![Main] = [op |-> "SYNC", file |-> f, index |-> 0]]
    /\ buf' = [buf EXCEPT ![Main].new = text]
    /\ UNCHANGED <<locks, tmp, ckpt, session, fd, reply, crashes>>

-----------------------------------------------------------------------------
Init ==
    /\ table = [f \in Files |-> IF f \in InitialFiles
                                THEN [NewFile EXCEPT !.word_count = Len(InitialText)]
                                ELSE NoFile]
    /\ locks = {}
    /\ disk = [p \in Paths |-> IF p[1] \in InitialFiles /\ p[2] = "data"
                               THEN InitialText ELSE None]
    /\ tmp = [p \in Paths |-> None]
    /\ meta = [f \in Files |-> IF f \in InitialFiles THEN Len(InitialText) ELSE None]
    /\ ckpt = [f \in Files |-> [g \in Tags |-> None]]
    /\ pc = [t \in Threads |-> "idle"]
    /\ job = [t \in Threads |-> NoJob]
    /\ session = [t \in Threads |-> NoSession]
    /\ buf = [t \in Threads |-> NoTexts]
    /\ fd = [t \in Threads |-> "none"]
    /\ reply = [t \in Threads |-> "none"]
    /\ crashes = 0

\* What a thread does by itself once it has a request: no client is needed.
ThreadStep(t) ==
    \/ sentence_lock_acquire(t) \/ SetFlag(t)
    \/ write_session_begin(t) \/ BeginFails(t) \/ BadBeginFlag(t) \/ BadBeginRelease(t)
    \/ CommitLoad(t) \/ CommitConflict(t) \/ UndoLoad(t) \/ LoadCurrent(t)
    \/ UndoOpen(t) \/ UndoWrite(t) \/ UndoRename(t)
    \/ DataOpen(t) \/ DataWrite(t) \/ DataRename(t)
    \/ StoreDrop(t) \/ UnlinkUndo(t) \/ Account(t)
    \/ Release(t) \/ ClearFlag(t)

ClientStep(t) ==
    \/ \E f \in Files, i \in Indices : WriteRequest(t, f, i)
    \/ \E f \in Files : ReadRequest(t, f)
    \/ Edit(t)
    \/ WriteCommit(t)
    \/ WriteAbort(t)

Command ==
    \/ \E f \in Files : Create(f) \/ Delete(f) \/ Undo(f)
    \/ \E f \in Files, tag \in Tags : Checkpoint(f, tag) \/ Revert(f, tag)
    \/ \E f \in Files, text \in SyncTexts : Sync(f, text)

Next ==
    \/ \E t \in Threads : ThreadStep(t)
    \/ \E t \in Clients : ClientStep(t)
    \/ Command
    \/ Killed

Spec == Init /\ [][Next]_vars

\* A thread that can run is scheduled; nothing is assumed of clients, of the
\* NM or of crashes.
Fairness == \A t \in Threads : WF_vars(ThreadStep(t))

FairSpec == Spec /\ Fairness

-----------------------------------------------------------------------------
(* Properties *)

Ops == {"none", "READ", "WRITE", "UNDO", "REVERT", "SYNC"}

TableOK ==
    /\ DOMAIN table = Files
    /\ \A f \in Files : /\ DOMAIN table[f] = DOMAIN NoFile
                        /\ table[f].present \in BOOLEAN
                        /\ table[f].lock_active \in BOOLEAN

\* Type invariant of the control state: the file table, the lock table, the
\* control points and the requests of the threads.
TypeOK ==
    /\ TableOK
    /\ locks \subseteq Files \X Indices
    /\ pc \in [Threads -> Labels]
    /\ job \in [Threads -> [op : Ops, file : Files, index : Indices \cup {0}]]
    /\ fd \in [Threads -> {"none", "tmp", "main", "orphan"}]
    /\ crashes \in Nat

\* The sentence lock table, which threads fill and empty by key without ever
\* comparing owners (sentence_lock_release ignores the user), lists exactly
\* the sentences with a session, and no sentence index has two sessions.
LockTable ==
    /\ locks = {Key(t) : t \in {u \in Clients : Holding(u)}}
    /\ \A t, u \in Clients : Holding(t) /\ Holding(u) /\ Key(t) = Key(u) => t = u

\* The lock flag of a file, which every session sets and clears for all of
\* them, is never left standing: while it is up, a session on the file is
\* still to clear it, so UNDO, REVERT and DELETE are not refused for ever.
FlagNotStuck ==
    \A f \in Files : table[f].lock_active =>
        \E t \in Clients : /\ job[t].op = "WRITE"
                           /\ job[t].file = f
                           /\ pc[t] \notin {"idle", "acquire", "flag", "badrelease"}

\* Who holds which sentence lock, seen from the threads.
Held == {<<t, Key(t)>> : t \in {u \in Clients : Holding(u)}}

LockService == INSTANCE SentenceLocks
    WITH Locks <- Files \X Indices, held <- Held, epoch <- crashes

\* The lock table of the threads implements a lock service whose locks are
\* given back by their holders only, and lost only in a crash.
ImplementsLocks == LockService!Spec

\* Every handler that began to load or store ends: no thread keeps its
\* sentence lock, nor the main thread the NM, because of another thread.
HandlerReturns == \A t \in Threads : pc[t] = "load" ~> pc[t] = "idle"

\* Between the creation and the deletion of a file, its document changes
\* only to the complete text of one handler, in one step, a crash or a full
\* disk notwithstanding (store_text_atomic).
WholeTexts ==
    [][\A f \in Files :
          /\ disk'[<<f, "data">>] # disk[<<f, "data">>]
          /\ table'[f].present = table[f].present
          => \E t \in Threads : /\ pc[t] = "data_rename"
                                /\ job[t].file = f
                                /\ disk'[<<f, "data">>] = buf[t].new]_vars

\* When a commit, a revert or a sync replaces the document, the undo text is
\* the document it replaces, and UNDO puts the undo text back.  (Not claimed,
\* because the code does not give it: that a handler which fails between its
\* two stores leaves the undo text alone.  It has replaced it by the document
\* as it still is, and the version before is gone.)
UndoIsPrevious ==
    [][\A t \in Threads :
          LET data == <<job[t].file, "data">>
              undo == <<job[t].file, "undo">>
          IN  pc[t] = "data_rename" /\ pc'[t] \in {"meta", "unlink"} =>
                IF job[t].op = "UNDO" THEN disk'[data] = disk[undo]
                ELSE disk'[undo] = disk[data]]_vars

\* README.md:49, "merges the edit": a commit puts the edited sentence in the
\* place of one occurrence of its baseline among the words of the document as
\* it is then, and leaves every other word where it is.  (For commits that do
\* not overlap; which one of several equal sentences is replaced is not said.)
EditMerged ==
    [][\A t \in Clients :
          LET data == <<job[t].file, "data">>
          IN  pc[t] = "data_rename" /\ pc'[t] = "meta" /\ job[t].op = "WRITE" =>
                Replaced(cut(load_text(data)), disk'[data], session[t].baseline,
                         cut(session[t].text))]_vars

\* The word count a user is shown is that of the document whenever no handler
\* is at work on it; so is the one in the .meta file, unless writes to the
\* disk fail: the result of write_meta_file is not looked at.
CountsMatch ==
    (\A t \in Threads : pc[t] = "idle") =>
        \A f \in Files : table[f].present =>
            /\ table[f].word_count = count_words_in_text(load_text(<<f, "data">>))
            /\ DiskMayFail \/ meta[f] = table[f].word_count

-----------------------------------------------------------------------------
(* What the README says and the code does not keep *)

\* A client is in the middle of a WRITE session on f.
Writing(f) == \E t \in Clients : pc[t] = "edit" /\ job[t].file = f

\* README.md:50, "UNDO, REVERT, and DELETE are refused with ERR_LOCKED while
\* a write is in progress": the main thread never starts one of them then.
RollbackRefused ==
    [][\A f \in Files : Writing(f) =>
          /\ ~(Undo(f) \/ Delete(f))
          /\ \A tag \in Tags : ~Revert(f, tag)]_vars

\* README.md:49, "on WRITE_COMMIT the SS re-reads the current file, relocates
\* the target sentence by content + surrounding context, and merges the edit":
\* the words of a session whose commit was acknowledged are in the document
\* while its handler is still finishing.  (For clients that only insert.)
CommitMerged ==
    \A t \in Clients :
        job[t].op = "WRITE" /\ reply[t] = "ok" =>
            {w.base : w \in ToSet(session[t].text)} \subseteq
                {w.base : w \in ToSet(load_text(<<job[t].file, "data">>))}
=============================================================================
