----------------------------- MODULE FileTable ------------------------------
(***************************************************************************)
(* The name manager's table of files with its owners, access rights and    *)
(* access requests (nm/nm_state.c), and the client handlers that change it *)
(* (nm/nm_main.c).  Operations on rights are one critical section each.    *)
(* CREATE and DELETE call storage servers between two of them, so they     *)
(* meet each other and everything else half way; what the servers answer   *)
(* is open.                                                                *)
(*                                                                         *)
(* The table is an array of slots threaded by the chains of a hash index.  *)
(* Removing a file moves the last one into its slot, and the slot that is  *)
(* free keeps its content until it is used again: of this, the rights.     *)
(*                                                                         *)
(* Handlers save the table before they unlock it; nm_state_save replaces   *)
(* the file by a rename, so a crash leaves the old one or the new one.     *)
(* DELETE saves only after the call to the backup, and a crash before that *)
(* brings the file back.                                                   *)
(*                                                                         *)
(* DELETE calls nm_remove_file and nm_state_save without the lock.  Each   *)
(* is one step when nobody comes between (DeleteRemove, DeleteSave); it    *)
(* may also be cut, one step of another thread overlaps it, and it ends on *)
(* what it finds then (RemoveCut, SaveCut, Overlap, RemoveEnd, SaveEnd).   *)
(* race records the overlap.  With it the index may be wrong and anything  *)
(* may follow: of a name manager in which it has happened only a restart   *)
(* is modelled, and the properties are about the time before.  A locked    *)
(* handler into which an unlocked removal or save falls, or the unlock of  *)
(* a mutex DELETE does not hold, overlaps in the same way; its halves are  *)
(* not steps here.  Nor is a state file mixed of the lines of two saves.   *)
(*                                                                         *)
(* Left out: times, counts, checkpoints, the cache (never read), the       *)
(* replicas (module Replication) and a disk that fails.                    *)
(***************************************************************************)
EXTENDS Integers, FiniteSetsExt

CONSTANTS Names,        \* file names
          Users,        \* users, one connection and one thread each
          Modes,        \* the modes of ADDACCESS and REQACCESS
          Hash,         \* the bucket of each name
          MaxFiles,     \* NM_MAX_FILES
          MaxAcl,       \* NM_MAX_ACL
          MaxRequests,  \* NM_MAX_REQUESTS
          None          \* no user, no name

Slots == 0..(MaxFiles - 1)
Buckets == {Hash[n] : n \in Names}

\* Whoever is given WRITE is given READ as well.
Perm(mode) == IF mode = "W" THEN {"READ", "WRITE"} ELSE {"READ"}
Perms == {Perm(mode) : mode \in {"R", "W"}}

ASSUME TableAssumption ==
    /\ MaxFiles \in Nat \ {0}
    /\ MaxAcl \in Nat
    /\ MaxRequests \in Nat
    /\ Modes \subseteq {"R", "W"}
    /\ Hash \in [Names -> Nat]
    /\ None \notin Names \cup Users

VARIABLES
    tab,       \* the table: files (the slots), file_count, file_buckets
    requests,  \* the access request of a user for a name, or NoRequest
    saved,     \* the state file: the files in their order, and the requests
    job,       \* the CREATE or DELETE a user's thread is in
    race       \* history: the removal or save another thread came into

table == <<tab, requests, saved, job>>
vars == <<tab, requests, saved, job, race>>

NoRights == [u \in Users |-> {}]
NoRequest == [owner |-> None, perm |-> {}, status |-> "none"]
Blank == [name |-> None, owner |-> None, acl |-> NoRights, hash_next |-> 0]
Idle == [pc |-> "idle", name |-> None]
NoRequests == [r \in Names \X Users |-> NoRequest]

-----------------------------------------------------------------------------
(* The hash index.  These operators map a table to a table. *)

find_file_index(t, n) ==
    LET walk[i \in Slots \cup {-1}] ==
            IF i < 0 \/ t.files[i].name = n THEN i ELSE walk[t.files[i].hash_next]
    IN  walk[t.file_buckets[Hash[n]]]

file_hash_insert(t, i) ==
    LET b == Hash[t.files[i].name]
    IN  [t EXCEPT !.files[i].hash_next = t.file_buckets[b], !.file_buckets[b] = i]

\* The link that leads to the slot is in the bucket or in the slot before it.
file_hash_remove(t, i) ==
    LET b == Hash[t.files[i].name]
        head == t.file_buckets[b]
        next == t.files[i].hash_next
        before[s \in Slots \cup {-1}] ==
            IF s < 0 \/ t.files[s].hash_next = i THEN s ELSE before[t.files[s].hash_next]
    IN  IF head = i THEN [t EXCEPT !.file_buckets[b] = next]
        ELSE IF before[head] < 0 THEN t
        ELSE [t EXCEPT !.files[before[head]].hash_next = next]

\* Wrong variant: the rights of the slot's last file are left in it.
add_over_old_rights(t, n, owner) ==
    LET i == t.file_count
        entry == [Blank EXCEPT !.name = n, !.owner = owner, !.acl = t.files[i].acl]
    IN  file_hash_insert([t EXCEPT !.files[i] = entry, !.file_count = @ + 1], i)

nm_add_file(t, n, owner) ==
    LET i == t.file_count
        entry == [Blank EXCEPT !.name = n, !.owner = owner]
    IN  file_hash_insert([t EXCEPT !.files[i] = entry, !.file_count = @ + 1], i)

\* Wrong variant: the file that moves is not entered in the index again.
remove_without_rehash(t, n) ==
    LET i == find_file_index(t, n)
        last == t.file_count - 1
        unlinked == file_hash_remove(t, i)
        both == file_hash_remove(unlinked, last)
        moved == IF i = last THEN unlinked
                 ELSE [both EXCEPT !.files[i] = both.files[last]]
    IN  IF i < 0 THEN t ELSE [moved EXCEPT !.file_count = last]

\* Wrong variant: the file that moves leaves its rights behind.
remove_without_rights(t, n) ==
    LET i == find_file_index(t, n)
        last == t.file_count - 1
        both == file_hash_remove(file_hash_remove(t, i), last)
        entry == [both.files[last] EXCEPT !.acl = NoRights]
        moved == IF i = last THEN file_hash_remove(t, i)
                 ELSE file_hash_insert([both EXCEPT !.files[i] = entry], i)
    IN  IF i < 0 THEN t ELSE [moved EXCEPT !.file_count = last]

\* The last file moves into the slot that becomes free.
nm_remove_file(t, n) ==
    LET i == find_file_index(t, n)
        last == t.file_count - 1
        unlinked == file_hash_remove(t, i)
        both == file_hash_remove(unlinked, last)
        moved == IF i = last THEN unlinked
                 ELSE file_hash_insert([both EXCEPT !.files[i] = both.files[last]], i)
        left == [Blank EXCEPT !.acl = t.files[last].acl]
    IN  IF i < 0 THEN t ELSE [moved EXCEPT !.file_count = last, !.files[last] = left]

-----------------------------------------------------------------------------
(* The state file *)

EmptyTable == [files |-> [i \in Slots |-> Blank], file_count |-> 0,
               file_buckets |-> [b \in Buckets |-> -1]]

\* FILE and ACL lines: what is behind file_count and the index are not saved.
FileLines(t) == [i \in 0..(t.file_count - 1) |-> [t.files[i] EXCEPT !.hash_next = 0]]

Lines(t, r) == [files |-> FileLines(t), requests |-> r]

nm_state_save(t, r) == saved' = Lines(t, r)

\* Where the thread is in its removal or save ("at"), the slot it found, the
\* last slot at the test, and the lines it has read.
NoRace == [phase |-> "none", thread |-> None, at |-> "start", index |-> -1,
           last |-> -1, read |-> Lines(EmptyTable, NoRequests)]

\* Line by line into an empty table; each file is entered in the index.
nm_state_load(lines) ==
    LET after[k \in 0..MaxFiles] ==
            IF k = 0 THEN EmptyTable
            ELSE file_hash_insert([after[k - 1] EXCEPT !.files[k - 1] = lines[k - 1],
                                                       !.file_count = k], k - 1)
    IN  after[Cardinality(DOMAIN lines)]

-----------------------------------------------------------------------------
(* Rights *)

Present(n) == find_file_index(tab, n) >= 0

File(n) == tab.files[find_file_index(tab, n)]

\* The owner has every right without an entry of its own.
file_has_access(n, u, perm) ==
    LET file == File(n) IN file.owner = u \/ perm \subseteq file.acl[u]

\* A user that has an entry gets the new rights too; a new entry needs room.
HasRoom(file, u) ==
    \/ file.owner = u
    \/ file.acl[u] # {}
    \/ Cardinality({v \in Users : file.acl[v] # {}}) < MaxAcl

nm_grant_access(n, u, perm) ==
    LET i == find_file_index(tab, n)
        file == tab.files[i]
    IN  /\ HasRoom(file, u)
        /\ tab' = IF file.owner = u THEN tab
                  ELSE [tab EXCEPT !.files[i].acl[u] = @ \cup perm]

\* Wrong variant: only READ is taken away.
remove_read_only(n, u) ==
    tab' = [tab EXCEPT !.files[find_file_index(tab, n)].acl[u] = @ \ Perm("R")]

nm_remove_access(n, u) ==
    tab' = [tab EXCEPT !.files[find_file_index(tab, n)].acl[u] = {}]

Owns(u, n) == Present(n) /\ File(n).owner = u

-----------------------------------------------------------------------------
(* CREATE and DELETE.  A request that is refused changes nothing. *)

\* A name that is taken is answered ERR_EXISTS.
CreateCheck(u, n) ==
    /\ job[u] = Idle
    /\ ~Present(n)
    /\ job' = [job EXCEPT ![u] = [pc |-> "create", name |-> n]]
    /\ UNCHANGED <<tab, requests, saved>>

\* A server has created the file.  Another thread may have added the name
\* meanwhile, or taken the last slot.
CreateAdd(u) ==
    LET n == job[u].name IN
    /\ job[u].pc = "create"
    /\ IF tab.file_count >= MaxFiles \/ Present(n)
       THEN UNCHANGED <<tab, saved>>
       ELSE tab' = nm_add_file(tab, n, u) /\ nm_state_save(tab', requests)
    /\ job' = [job EXCEPT ![u] = Idle]
    /\ UNCHANGED requests

\* Whoever may write a file may delete it.
DeleteCheck(u, n) ==
    /\ job[u] = Idle
    /\ Present(n)
    /\ file_has_access(n, u, Perm("W"))
    /\ job' = [job EXCEPT ![u] = [pc |-> "delete", name |-> n]]
    /\ UNCHANGED <<tab, requests, saved>>

\* The primary has deleted the file: whichever file has the name now goes.
DeleteRemove(u) ==
    /\ job[u].pc = "delete"
    /\ tab' = nm_remove_file(tab, job[u].name)
    /\ job' = [job EXCEPT ![u].pc = "unsaved"]
    /\ UNCHANGED <<requests, saved>>

\* The backup has answered or could not be reached.
DeleteSave(u) ==
    /\ job[u].pc = "unsaved"
    /\ nm_state_save(tab, requests)
    /\ job' = [job EXCEPT ![u] = Idle]
    /\ UNCHANGED <<tab, requests>>

\* The server cannot be reached or refuses.
CallFails(u) ==
    /\ job[u].pc \in {"create", "delete"}
    /\ job' = [job EXCEPT ![u] = Idle]
    /\ UNCHANGED <<tab, requests, saved>>

-----------------------------------------------------------------------------
(* Operations on rights *)

handle_client_addaccess(u, n, target, mode) ==
    /\ job[u] = Idle
    /\ Owns(u, n)
    /\ nm_grant_access(n, target, Perm(mode))
    /\ nm_state_save(tab', requests)
    /\ UNCHANGED <<requests, job>>

\* Wrong variant: the table is not saved.
removeaccess_unsaved(u, n, target) ==
    /\ job[u] = Idle
    /\ Owns(u, n)
    /\ nm_remove_access(n, target)
    /\ UNCHANGED <<requests, saved, job>>

handle_client_removeaccess(u, n, target) ==
    /\ job[u] = Idle
    /\ Owns(u, n)
    /\ nm_remove_access(n, target)
    /\ nm_state_save(tab', requests)
    /\ UNCHANGED <<requests, job>>

\* A request takes the place of an earlier one for the same name; requests
\* are never removed, not even with the file.
handle_client_reqaccess(u, n, mode) ==
    /\ job[u] = Idle
    /\ Present(n)
    /\ ~file_has_access(n, u, Perm(mode))
    /\ \/ requests[<<n, u>>] # NoRequest
       \/ Cardinality({r \in Names \X Users : requests[r] # NoRequest}) < MaxRequests
    /\ requests' = [requests EXCEPT ![<<n, u>>] =
          [owner |-> File(n).owner, perm |-> Perm(mode), status |-> "pending"]]
    /\ nm_state_save(tab, requests')
    /\ UNCHANGED <<tab, job>>

\* A request is answered once, by the owner the file has now.
handle_client_handlereq(u, n, requester, approve) ==
    LET request == requests[<<n, requester>>] IN
    /\ job[u] = Idle
    /\ request.status = "pending"
    /\ Owns(u, n)
    /\ \/ approve /\ nm_grant_access(n, requester, request.perm)
       \/ ~approve /\ UNCHANGED tab
    /\ requests' = [requests EXCEPT ![<<n, requester>>].status =
                       IF approve THEN "approved" ELSE "denied"]
    /\ nm_state_save(tab', requests')
    /\ UNCHANGED job

-----------------------------------------------------------------------------
(* The process *)

\* Handlers outside this module (updates, failover, checkpoints) save the
\* table as it is.
SaveElsewhere ==
    /\ nm_state_save(tab, requests)
    /\ UNCHANGED <<tab, requests, job>>

\* The name manager ends, whatever its threads are at, and is started again
\* with the same state file: nm_state_init.
Restart ==
    /\ tab' = nm_state_load(saved.files)
    /\ requests' = saved.requests
    /\ job' = [u \in Users |-> Idle]
    /\ UNCHANGED saved

Init ==
    /\ tab = EmptyTable
    /\ requests = NoRequests
    /\ saved = [files |-> FileLines(tab), requests |-> requests]
    /\ job = [u \in Users |-> Idle]
    /\ race = NoRace

Client(u) ==
    \/ CreateAdd(u) \/ DeleteRemove(u) \/ DeleteSave(u) \/ CallFails(u)
    \/ \E n \in Names :
          \/ CreateCheck(u, n)
          \/ DeleteCheck(u, n)
          \/ \E mode \in Modes : handle_client_reqaccess(u, n, mode)
          \/ \E v \in Users :
                \/ \E mode \in Modes : handle_client_addaccess(u, n, v, mode)
                \/ handle_client_removeaccess(u, n, v)
                \/ \E approve \in BOOLEAN : handle_client_handlereq(u, n, v, approve)

Step == (\E u \in Users : Client(u)) \/ SaveElsewhere \/ Restart

-----------------------------------------------------------------------------
(* DELETE without the lock *)

\* No step of another thread has come into a removal or a save so far.
Alone == race.phase = "none"

Cut(u, at, i) ==
    [phase |-> "cut", thread |-> u, at |-> at, index |-> i,
     last |-> tab.file_count - 1, read |-> Lines(tab, requests)]

\* The thread is held up in nm_remove_file: when it has found the slot, or
\* when it has taken the slot out of the index and tested if it is the last.
RemoveCut(u) ==
    LET i == find_file_index(tab, job[u].name) IN
    /\ Alone
    /\ job[u].pc = "delete"
    /\ i >= 0
    /\ \/ race' = Cut(u, "found", i) /\ UNCHANGED tab
       \/ race' = Cut(u, "unlinked", i) /\ tab' = file_hash_remove(tab, i)
    /\ UNCHANGED <<requests, saved, job>>

\* The thread is held up in nm_state_save: its lines are in the buffer of the
\* open .tmp file.
SaveCut(u) ==
    /\ Alone
    /\ job[u].pc = "unsaved"
    /\ race' = Cut(u, "read", -1)
    /\ UNCHANGED table

\* Another thread, with the lock or in a DELETE of its own.
Overlap ==
    /\ race.phase = "cut"
    /\ SaveElsewhere \/ \E v \in Users \ {race.thread} : Client(v)
    /\ race' = [race EXCEPT !.phase = "overlapped"]

\* Both functions of the index return at once for a slot that is not in use.
IfUsed(t, i, changed) == IF i \in 0..(t.file_count - 1) THEN changed ELSE t

\* The rest of nm_remove_file.  file_count is read again for the copy; of an
\* empty table the copy would come from before the array, and the thread does
\* not end.
RemoveEnd(u) ==
    LET i == race.index
        last == IF race.at = "found" THEN tab.file_count - 1 ELSE race.last
        unlinked == IF race.at = "found" THEN IfUsed(tab, i, file_hash_remove(tab, i)) ELSE tab
        both == IfUsed(unlinked, last, file_hash_remove(unlinked, last))
        copied == [both EXCEPT !.files[i] = both.files[tab.file_count - 1]]
        moved == IF i = last THEN unlinked
                 ELSE IfUsed(copied, i, file_hash_insert(copied, i))
    IN  /\ race.phase = "overlapped"
        /\ race.thread = u
        /\ race.at \in {"found", "unlinked"}
        /\ tab.file_count > 0
        /\ tab' = [moved EXCEPT !.file_count = tab.file_count - 1]
        /\ job' = [job EXCEPT ![u].pc = "unsaved"]
        /\ race' = [race EXCEPT !.phase = "over"]
        /\ UNCHANGED <<requests, saved>>

\* The rest of nm_state_save.  The save that came between has emptied and
\* renamed the very file this one has open, so these lines go over its lines
\* in the state file; there is no .tmp left to rename.
SaveEnd(u) ==
    /\ race.phase = "overlapped"
    /\ race.thread = u
    /\ race.at = "read"
    /\ saved' = race.read
    /\ job' = [job EXCEPT ![u] = Idle]
    /\ race' = [race EXCEPT !.phase = "over"]
    /\ UNCHANGED <<tab, requests>>

RestartAfter ==
    /\ race.phase \in {"overlapped", "over"}
    /\ Restart
    /\ UNCHANGED race

Next ==
    \/ Alone /\ Step /\ UNCHANGED race
    \/ \E u \in Users : RemoveCut(u) \/ SaveCut(u) \/ RemoveEnd(u) \/ SaveEnd(u)
    \/ Overlap
    \/ RestartAfter

Spec == Init /\ [][Next]_vars

-----------------------------------------------------------------------------
(* Properties *)

Entry == [name : Names \cup {None}, owner : Users \cup {None},
          acl : [Users -> {{}} \cup Perms], hash_next : Slots \cup {-1}]
Request == [owner : Users \cup {None}, perm : {{}} \cup Perms,
            status : {"none", "pending", "approved", "denied"}]

AreLines(lines) ==
    /\ \A i \in DOMAIN lines.files : lines.files[i] \in Entry
    /\ lines.requests \in [Names \X Users -> Request]

TableTypeOK ==
    /\ tab \in [files : [Slots -> Entry], file_count : 0..MaxFiles,
                file_buckets : [Buckets -> Slots \cup {-1}]]
    /\ requests \in [Names \X Users -> Request]
    /\ AreLines(saved)
    /\ job \in [Users -> [pc : {"idle", "create", "delete", "unsaved"}, name : Names \cup {None}]]

\* Type invariant: until two threads meet in the table its links stay inside
\* and no bound is exceeded.
TypeOK ==
    /\ race \in [phase : {"none", "cut", "overlapped", "over"}, thread : Users \cup {None},
                 at : {"start", "found", "unlinked", "read"}, index : Slots \cup {-1},
                 last : Slots \cup {-1}, read : {race.read}]
    /\ AreLines(race.read)
    /\ Alone => TableTypeOK

\* A file in the table is found under its name, in its slot, so no name is
\* there twice, and no name is found that is not in the table.
IndexAgrees ==
    /\ \A i \in Slots : i < tab.file_count => find_file_index(tab, tab.files[i].name) = i
    /\ \A n \in Names : find_file_index(tab, n) < tab.file_count

\* The hash index and the array agree after any sequence of additions and
\* removals (nm_remove_file moves the last file into the free slot) in which
\* no step of another thread came into an unlocked removal or save of DELETE.
IndexSound == Alone => IndexAgrees

\* False: the index would still agree when nm_remove_file has run to its end
\* without the lock and another thread came between.  A CREATE loses its new
\* file, and a second DELETE makes the first enter the file it deletes again:
\* both are found in slots behind file_count, which are not saved.
OverlapHarmless == race.phase = "over" => IndexAgrees

\* The rights of the users on the file with a name, none if there is no file.
RightsOn(t, n) ==
    LET i == find_file_index(t, n) IN
    IF i < 0 THEN NoRights
    ELSE [t.files[i].acl EXCEPT ![t.files[i].owner] = Perm("W")]

\* A DELETE has removed the name and not saved the table yet.
Unsaved(n) == \E u \in Users : job[u] = [pc |-> "unsaved", name |-> n]

\* Whatever a client was told is done survives a crash at any moment: loaded
\* from the state file, the table gives every user the rights it has now and
\* the requests are the same.  Only a file that is being deleted may be back.
\* Until DELETE's unlocked save overlaps another: then the older lines win.
Recoverable ==
    LET t == nm_state_load(saved.files) IN
    Alone =>
    /\ saved.requests = requests
    /\ \A n \in Names :
          ~Unsaved(n) => RightsOn(t, n) = RightsOn(tab, n)

\* A user gets a right on a file only by creating it, or when the owner of
\* this very file grants it or approves a pending request that asks for it:
\* rights are not inherited from an earlier file of that name, nor from
\* another file whose slot is used again or moved.  With the file itself they
\* may come back, when the name manager ends before a DELETE is saved.  All
\* this until another thread comes into an unlocked removal or save.
RightsGranted ==
    [][Alone' => \A n \in Names :
          LET before == RightsOn(tab, n)  after == RightsOn(tab', n) IN
          before # after =>
             \A u \in Users : ~(after[u] \subseteq before[u]) =>
                \/ ~Present(n) /\ job[u] = [pc |-> "create", name |-> n]
                \/ Unsaved(n) /\ Restart
                \/ \E owner \in Users :
                      /\ Owns(owner, n)
                      /\ \/ \E mode \in Modes : handle_client_addaccess(owner, n, u, mode)
                         \/ /\ handle_client_handlereq(owner, n, u, TRUE)
                            /\ requests[<<n, u>>].status = "pending"
                            /\ after[u] \subseteq before[u] \cup requests[<<n, u>>].perm]_tab

-----------------------------------------------------------------------------
(* The table as an implementation of RightsStore *)

FileOf(entry) == [owner |-> entry.owner, acl |-> entry.acl]

FilesIn(t) ==
    [n \in {m \in Names : find_file_index(t, m) >= 0} |-> FileOf(t.files[find_file_index(t, n)])]

FilesSaved(lines) ==
    [n \in {lines[i].name : i \in DOMAIN lines} |->
        FileOf(lines[CHOOSE i \in DOMAIN lines : lines[i].name = n])]

Store == INSTANCE RightsStore
    WITH file <- FilesIn(tab), kept <- FilesSaved(saved.files), broken <- ~Alone

\* Slots, chains and lines are never seen: to its users the table is a map
\* from names to files in which each handler changes one file and no other,
\* and a restart gives the map of the last save.  The promise ends when the
\* steps of another thread come into an unlocked removal or save of DELETE.
ImplementsStore == Store!Spec
=============================================================================
