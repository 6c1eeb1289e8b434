----------------------------- MODULE Replication ----------------------------
(***************************************************************************)
(* Primary/backup replication and failover (nm/nm_main.c, nm/nm_state.c):  *)
(* which storage server is the primary and which the backup of each file,  *)
(* the queue of replication tasks and its worker, what happens when a      *)
(* server registers, reports a change or is lost, and how a client's       *)
(* lookup picks a server.                                                  *)
(*                                                                         *)
(* One action is one critical section under state_lock or replication_lock,*)
(* or one remote call.  A document is abstracted to the number of the      *)
(* change that made it.  A control connection is a pair of a server and    *)
(* the number of its incarnation: the thread of a lost connection may run  *)
(* after that of the next one.  Creation and deletion of files, access     *)
(* control, the saved state of the name manager and a server that is lost  *)
(* before its SS_REGISTER is processed are left out.                       *)
(***************************************************************************)
EXTENDS Integers, Sequences

CONSTANTS N,          \* number of storage servers
          Files,      \* file names
          Clients,    \* those who change documents
          MaxTime,    \* bound: seconds of the clock
          MaxChanges, \* bound: changes of documents
          MaxCrashes, \* bound: crashes of one server
          MaxInbox,   \* bound: messages under way on a connection
          SameSecond, \* whether two changes may fall in the same second
          CallsMayFail \* whether a call to a server that runs may fail

ASSUME ReplicationAssumption ==
    /\ N \in Nat \ {0}
    /\ Files # {}
    /\ MaxTime \in Nat
    /\ MaxChanges \in Nat
    /\ MaxCrashes \in Nat
    /\ MaxInbox \in Nat \ {0}
    /\ SameSecond \in BOOLEAN
    /\ CallsMayFail \in BOOLEAN

Servers == 0..(N - 1)   \* indices in the server table
NoServer == -1
NoCopy == -1
Conns == Servers \X (0..MaxCrashes)

VARIABLES
    \* name manager
    online,    \* servers it takes for available (online, ctrl_fd >= 0)
    primary,   \* ss_index of each file
    backup,    \* backup_index of each file
    modified,  \* time of the last change it knows of
    queue,     \* replication tasks
    pending,   \* what threads still have to schedule, by connection
    worker,    \* the replication worker: pc, task, target, text
    \* storage servers
    alive,     \* servers that run and are registered
    life,      \* the incarnation of each server
    copy,      \* the change each server's copy of a file stems from
    stamp,     \* the time stamp the server keeps with its copy
    link,      \* control connections: "none", "up", "cut" or "gone"
    inbox,     \* what has been sent on each and not been received
    \* clients
    client,    \* pc, file, server and attempts of each client
    changes,   \* how many changes were made
    now        \* the clock, in seconds

nm == <<online, primary, backup, modified>>
ss == <<alive, life, copy, stamp>>
net == <<link, inbox>>
tasks == <<queue, pending, worker>>
vars == <<nm, queue, pending, worker, ss, net, client, changes, now>>

Register == [type |-> "SS_REGISTER"]
Update(f, t) == [type |-> "SS_FILE_UPDATE", file |-> f, modified |-> t]

Task(f, p, b, assign) == [file |-> f, primary |-> p, backup |-> b, assign |-> assign]
NoTask == Task(CHOOSE f \in Files : TRUE, NoServer, NoServer, FALSE)
IdleWorker == [pc |-> "idle", task |-> NoTask, target |-> NoServer, text |-> NoCopy]
IdleClient == [pc |-> "idle", file |-> NoTask.file, server |-> NoServer, attempts |-> 0]

\* A thread is to call try_assign_backup, or to schedule a task it has made.
Try(c, f) == [conn |-> c, call |-> "try", task |-> Task(f, NoServer, NoServer, TRUE)]
Push(c, task) == [conn |-> c, call |-> "push", task |-> task]

Conn(s) == <<s, life[s]>>

\* The thread of a connection is free to receive.
Free(c) == \A p \in pending : p.conn # c

has_backup_candidate(p) == \E s \in Servers \ {p} : online[s]

-----------------------------------------------------------------------------
(* Registration, changes and loss of servers, seen by the name manager *)

\* Wrong variant: a file the worker is busy with counts as queued.
schedule_unless_busy(task) ==
    LET same(q) == /\ q.file = task.file
                   /\ \/ q.assign /\ task.assign
                      \/ /\ ~q.assign /\ ~task.assign
                         /\ q.primary = task.primary
                         /\ q.backup = task.backup
    IN  queue' = IF \/ \E i \in DOMAIN queue : same(queue[i])
                    \/ worker.pc \notin {"idle", "push"} /\ worker.task.file = task.file
                 THEN queue ELSE Append(queue, task)

\* schedule_replication: a task that is already queued is not queued again;
\* of two assignments of a backup only the first is kept.
schedule_replication(task) ==
    LET same(q) == /\ q.file = task.file
                   /\ \/ q.assign /\ task.assign
                      \/ /\ ~q.assign /\ ~task.assign
                         /\ q.primary = task.primary
                         /\ q.backup = task.backup
    IN  queue' = IF \E i \in DOMAIN queue : same(queue[i]) THEN queue
                 ELSE Append(queue, task)

handle_ss_register(c) ==
    /\ link[c] = "up"
    /\ Free(c)
    /\ inbox[c] # <<>> /\ Head(inbox[c]) = Register
    /\ inbox' = [inbox EXCEPT ![c] = Tail(@)]
    /\ online' = [online EXCEPT ![c[1]] = TRUE]
    /\ alive' = [alive EXCEPT ![c[1]] = TRUE]
    /\ pending' = pending \cup {Try(c, f) : f \in {g \in Files : backup[g] = NoServer}}
    /\ UNCHANGED <<primary, backup, modified, queue, worker, life, copy, stamp, link,
                   client, changes, now>>

\* A replication task is made only if the time of the last change differs
\* from the one known so far.
handle_ss_file_update(c) ==
    LET m == Head(inbox[c])
        f == m.file
        sync == m.modified # modified[f] /\ backup[f] # NoServer
        assign == backup[f] = NoServer /\ primary[f] # NoServer
                    /\ has_backup_candidate(primary[f])
    IN  /\ link[c] \in {"up", "cut"}
        /\ Free(c)
        /\ inbox[c] # <<>> /\ m.type = "SS_FILE_UPDATE"
        /\ inbox' = [inbox EXCEPT ![c] = Tail(@)]
        /\ modified' = [modified EXCEPT ![f] = m.modified]
        /\ pending' = CASE sync -> pending \cup {Push(c, Task(f, primary[f], backup[f], FALSE))}
                        [] assign -> pending \cup {Push(c, Task(f, primary[f], NoServer, TRUE))}
                        [] OTHER -> pending
        /\ UNCHANGED <<online, primary, backup, queue, worker, ss, link, client, changes, now>>

\* The connection is lost.  Where the backup is available it becomes the
\* primary; a file that has no backup then and could have one gets one later.
handle_server_disconnect(c) ==
    LET s == c[1]
        up == [online EXCEPT ![s] = FALSE]
        failover(f) == primary[f] = s /\ backup[f] # NoServer /\ up[backup[f]]
        lost(f) == primary[f] = s \/ backup[f] = s
        newPrimary == [f \in Files |-> IF failover(f) THEN backup[f] ELSE primary[f]]
        newBackup == [f \in Files |-> IF lost(f) THEN NoServer ELSE backup[f]]
    IN  /\ link[c] = "cut"
        /\ Free(c)
        /\ inbox[c] = <<>>
        /\ link' = [link EXCEPT ![c] = "gone"]
        /\ online' = up
        /\ primary' = newPrimary
        /\ backup' = newBackup
        /\ pending' = pending \cup
              {Try(c, f) : f \in {g \in Files : /\ lost(g)
                                                /\ newPrimary[g] # NoServer
                                                /\ \E r \in Servers \ {newPrimary[g]} : up[r]}}
        /\ UNCHANGED <<modified, queue, worker, ss, inbox, client, changes, now>>

\* try_assign_backup looks at the file under state_lock ...
TryAssign(p) ==
    LET f == p.task.file IN
    /\ p \in pending
    /\ p.call = "try"
    /\ pending' = (pending \ {p}) \cup
          (IF backup[f] = NoServer /\ primary[f] # NoServer
           THEN {Push(p.conn, Task(f, primary[f], NoServer, TRUE))} ELSE {})
    /\ UNCHANGED <<nm, queue, worker, ss, net, client, changes, now>>

\* ... and the task is queued under replication_lock.
Schedule(p) ==
    /\ p \in pending
    /\ p.call = "push"
    /\ schedule_replication(p.task)
    /\ pending' = pending \ {p}
    /\ UNCHANGED <<nm, worker, ss, net, client, changes, now>>

-----------------------------------------------------------------------------
(* The replication worker *)

Work(pc, task, target, text) ==
    worker' = [pc |-> pc, task |-> task, target |-> target, text |-> text]

TakeTask ==
    /\ worker.pc = "idle"
    /\ queue # <<>>
    /\ queue' = Tail(queue)
    /\ Work("primary", Head(queue), NoServer, NoCopy)
    /\ UNCHANGED <<nm, pending, ss, net, client, changes, now>>

\* A task made for another primary is dropped.
CheckPrimary ==
    LET task == worker.task IN
    /\ worker.pc = "primary"
    /\ IF primary[task.file] = task.primary
       THEN Work("target", task, NoServer, NoCopy)
       ELSE worker' = IdleWorker
    /\ UNCHANGED <<nm, queue, pending, ss, net, client, changes, now>>

\* An assignment takes the first available server; any other task is dropped
\* if the backup has changed since.
PickTarget ==
    LET task == worker.task
        available == {s \in Servers \ {task.primary} : online[s]}
    IN  /\ worker.pc = "target"
        /\ \/ /\ task.assign
              /\ \E first \in available :
                    /\ \A s \in available : first <= s
                    /\ Work("ticket", task, first, NoCopy)
           \/ /\ ~task.assign /\ backup[task.file] = task.backup
              /\ Work("ticket", task, task.backup, NoCopy)
           \/ /\ IF task.assign THEN available = {} ELSE backup[task.file] # task.backup
              /\ worker' = IdleWorker
        /\ UNCHANGED <<nm, queue, pending, ss, net, client, changes, now>>

\* replicate_file_to_backup: both must be available and the primary must take
\* the read ticket.
ReplicationTicket ==
    LET task == worker.task
        target == worker.target
        available == task.primary # target /\ online[task.primary] /\ online[target]
    IN  /\ worker.pc = "ticket"
        /\ \/ available /\ alive[task.primary] /\ Work("fetch", task, target, NoCopy)
           \/ /\ CallsMayFail \/ ~(available /\ alive[task.primary])
              /\ Work("failed", task, target, NoCopy)
        /\ UNCHANGED <<nm, queue, pending, ss, net, client, changes, now>>

\* NM_SYNC: the backup reads from the primary, which reports the READ.
Fetch ==
    LET task == worker.task
        p == task.primary
        f == task.file
        possible == /\ alive[p] /\ copy[p][f] # NoCopy
                    /\ alive[worker.target] /\ online[worker.target]
    IN  /\ worker.pc = "fetch"
        /\ \/ /\ possible
              /\ Len(inbox[Conn(p)]) < MaxInbox
              /\ inbox' = [inbox EXCEPT ![Conn(p)] = Append(@, Update(f, stamp[p][f]))]
              /\ Work("store", task, worker.target, copy[p][f])
           \/ /\ CallsMayFail \/ ~possible
              /\ Work("failed", task, worker.target, NoCopy)
              /\ UNCHANGED inbox
        /\ UNCHANGED <<nm, queue, pending, ss, link, client, changes, now>>

\* Wrong variant: the status of the answer is not looked at.
Store_unchecked ==
    LET f == worker.task.file
        b == worker.target
    IN  /\ worker.pc = "store"
        /\ Work("done", worker.task, b, NoCopy)
        /\ \/ /\ alive[b]
              /\ copy' = [copy EXCEPT ![b][f] = worker.text]
              /\ stamp' = [stamp EXCEPT ![b][f] = IF copy[b][f] = NoCopy THEN now ELSE @]
           \/ /\ CallsMayFail \/ ~alive[b]
              /\ UNCHANGED <<copy, stamp>>
        /\ UNCHANGED <<nm, queue, pending, alive, life, net, client, changes, now>>

\* The backup stores what it read; its own time stamp is only set when it
\* creates the file.
Store ==
    LET f == worker.task.file
        b == worker.target
    IN  /\ worker.pc = "store"
        /\ \/ /\ alive[b]
              /\ copy' = [copy EXCEPT ![b][f] = worker.text]
              /\ stamp' = [stamp EXCEPT ![b][f] = IF copy[b][f] = NoCopy THEN now ELSE @]
              /\ \/ Work("done", worker.task, b, NoCopy)
                 \/ CallsMayFail /\ Work("failed", worker.task, b, NoCopy)
           \/ /\ CallsMayFail \/ ~alive[b]
              /\ Work("failed", worker.task, b, NoCopy)
              /\ UNCHANGED <<copy, stamp>>
        /\ UNCHANGED <<nm, queue, pending, alive, life, net, client, changes, now>>

Finish ==
    LET f == worker.task.file IN
    /\ worker.pc = "done"
    /\ backup' = IF primary[f] = worker.task.primary /\ worker.task.assign
                 THEN [backup EXCEPT ![f] = worker.target] ELSE backup
    /\ worker' = IdleWorker
    /\ UNCHANGED <<online, primary, modified, queue, pending, ss, net, client, changes, now>>

\* A backup that cannot be brought up to date is dropped and another assigned.
handle_replication_failure ==
    LET task == worker.task
        f == task.file
        drop == ~task.assign /\ backup[f] = worker.target
    IN  /\ worker.pc = "failed"
        /\ backup' = IF drop THEN [backup EXCEPT ![f] = NoServer] ELSE backup
        /\ IF task.assign \/ (drop /\ primary[f] # NoServer)
           THEN Work("try", task, NoServer, NoCopy)
           ELSE worker' = IdleWorker
        /\ UNCHANGED <<online, primary, modified, queue, pending, ss, net, client, changes, now>>

WorkerTries ==
    LET f == worker.task.file IN
    /\ worker.pc = "try"
    /\ IF backup[f] = NoServer /\ primary[f] # NoServer
       THEN Work("push", Task(f, primary[f], NoServer, TRUE), NoServer, NoCopy)
       ELSE worker' = IdleWorker
    /\ UNCHANGED <<nm, queue, pending, ss, net, client, changes, now>>

WorkerSchedules ==
    /\ worker.pc = "push"
    /\ schedule_replication(worker.task)
    /\ worker' = IdleWorker
    /\ UNCHANGED <<nm, pending, ss, net, client, changes, now>>

-----------------------------------------------------------------------------
(* A client that changes a document *)

\* Wrong variants: a promoted backup stays the backup; a file without any
\* available server loses its primary.
select_keeps_backup(f) ==
    LET p == primary[f]
        b == backup[f]
    IN  IF p # NoServer /\ online[p] THEN [server |-> p, primary |-> p, backup |-> b]
        ELSE IF b # NoServer /\ online[b] THEN [server |-> b, primary |-> b, backup |-> b]
        ELSE [server |-> NoServer, primary |-> p, backup |-> NoServer]

select_drops_primary(f) ==
    LET p == primary[f]
        b == backup[f]
    IN  IF p # NoServer /\ online[p] THEN [server |-> p, primary |-> p, backup |-> b]
        ELSE IF b # NoServer /\ online[b] THEN [server |-> b, primary |-> b, backup |-> NoServer]
        ELSE [server |-> NoServer, primary |-> NoServer, backup |-> NoServer]

\* select_storage_server: the primary if it is available, else the backup,
\* which becomes the primary; a backup that is not available is dropped.
select_storage_server(f) ==
    LET p == primary[f]
        b == backup[f]
    IN  IF p # NoServer /\ online[p] THEN [server |-> p, primary |-> p, backup |-> b]
        ELSE IF b = NoServer THEN [server |-> NoServer, primary |-> p, backup |-> b]
        ELSE IF online[b] THEN [server |-> b, primary |-> b, backup |-> NoServer]
        ELSE [server |-> NoServer, primary |-> p, backup |-> NoServer]

Client(k, pc, f, s, n) ==
    client' = [client EXCEPT ![k] = [pc |-> pc, file |-> f, server |-> s, attempts |-> n]]

\* obtain_ticket_for_file, the part under state_lock; two attempts are made.
Lookup(k, f) ==
    LET choice == select_storage_server(f)
        again == client[k].pc = "again"
    IN  /\ \/ client[k].pc = "idle" /\ changes < MaxChanges
           \/ again /\ client[k].file = f
        /\ primary' = [primary EXCEPT ![f] = choice.primary]
        /\ backup' = [backup EXCEPT ![f] = choice.backup]
        /\ IF choice.server = NoServer
           THEN client' = [client EXCEPT ![k] = IdleClient]
           ELSE Client(k, "ticket", f, choice.server, IF again THEN 2 ELSE 1)
        /\ UNCHANGED <<online, modified, tasks, ss, net, changes, now>>

\* The server takes the ticket, or is marked down when the call fails, which
\* it may even if the server runs (see NmRpc).
issue_ticket(k) ==
    LET s == client[k].server
        f == client[k].file
    IN  /\ client[k].pc = "ticket"
        /\ \/ /\ alive[s] /\ online[s]
              /\ Client(k, "session", f, s, 0)
              /\ UNCHANGED online
           \/ /\ CallsMayFail \/ ~(alive[s] /\ online[s])
              /\ online' = [online EXCEPT ![s] = FALSE]
              /\ IF client[k].attempts = 1 THEN Client(k, "again", f, NoServer, 1)
                 ELSE client' = [client EXCEPT ![k] = IdleClient]
        /\ UNCHANGED <<primary, backup, modified, tasks, ss, net, changes, now>>

\* A commit, an undo or a revert on the server of the session.
Change(k) ==
    LET s == client[k].server
        f == client[k].file
    IN  /\ client[k].pc = "session"
        /\ changes < MaxChanges
        /\ SameSecond \/ \A r \in Servers : stamp[r][f] < now
        /\ changes' = changes + 1
        /\ copy' = [copy EXCEPT ![s][f] = changes + 1]
        /\ stamp' = [stamp EXCEPT ![s][f] = now]
        /\ Client(k, "notify", f, s, 0)
        /\ UNCHANGED <<nm, tasks, alive, life, net, now>>

\* notify_nm_file_update, at the end of the handler.
Notify(k) ==
    LET s == client[k].server
        f == client[k].file
    IN  /\ client[k].pc = "notify"
        /\ Len(inbox[Conn(s)]) < MaxInbox
        /\ inbox' = [inbox EXCEPT ![Conn(s)] = Append(@, Update(f, stamp[s][f]))]
        /\ client' = [client EXCEPT ![k] = IdleClient]
        /\ UNCHANGED <<nm, tasks, ss, link, changes, now>>

\* The client leaves without a change.
Leave(k) ==
    /\ client[k].pc = "session"
    /\ client' = [client EXCEPT ![k] = IdleClient]
    /\ UNCHANGED <<nm, tasks, ss, net, changes, now>>

-----------------------------------------------------------------------------
(* The world: servers crash and start again, time passes *)

Crash(s) ==
    /\ alive[s]
    /\ life[s] < MaxCrashes
    /\ alive' = [alive EXCEPT ![s] = FALSE]
    /\ link' = [link EXCEPT ![Conn(s)] = "cut"]
    /\ client' = [k \in Clients |->
          IF client[k].server = s /\ client[k].pc \in {"session", "notify"}
          THEN IdleClient ELSE client[k]]
    /\ UNCHANGED <<nm, tasks, life, copy, stamp, inbox, changes, now>>

\* The files of a server survive; it connects anew and registers.
Start(s) ==
    /\ ~alive[s]
    /\ link[Conn(s)] \in {"cut", "gone"}
    /\ life[s] < MaxCrashes
    /\ life' = [life EXCEPT ![s] = @ + 1]
    /\ link' = [link EXCEPT ![<<s, life[s] + 1>>] = "up"]
    /\ inbox' = [inbox EXCEPT ![<<s, life[s] + 1>>] = <<Register>>]
    /\ UNCHANGED <<nm, tasks, alive, copy, stamp, client, changes, now>>

Tick ==
    /\ now < MaxTime
    /\ now' = now + 1
    /\ UNCHANGED <<nm, tasks, ss, net, client, changes>>

-----------------------------------------------------------------------------
\* Server 0 holds every file, the others are registered and hold none.
Init ==
    /\ online = [s \in Servers |-> TRUE]
    /\ primary = [f \in Files |-> 0]
    /\ backup = [f \in Files |-> NoServer]
    /\ modified = [f \in Files |-> 1]
    /\ queue = <<>>
    /\ pending = {Try(<<N - 1, 0>>, f) : f \in Files}
    /\ worker = IdleWorker
    /\ alive = [s \in Servers |-> TRUE]
    /\ life = [s \in Servers |-> 0]
    /\ copy = [s \in Servers |-> [f \in Files |-> IF s = 0 THEN 0 ELSE NoCopy]]
    /\ stamp = [s \in Servers |-> [f \in Files |-> IF s = 0 THEN 1 ELSE 0]]
    /\ link = [c \in Conns |-> IF c[2] = 0 THEN "up" ELSE "none"]
    /\ inbox = [c \in Conns |-> <<>>]
    /\ client = [k \in Clients |-> IdleClient]
    /\ changes = 0
    /\ now = 1

PeerThread ==
    \E c \in Conns : \/ handle_ss_register(c)
                     \/ handle_ss_file_update(c)
                     \/ handle_server_disconnect(c)

SchedulingThread == \E p \in pending : TryAssign(p) \/ Schedule(p)

replication_worker ==
    \/ TakeTask \/ CheckPrimary \/ PickTarget
    \/ ReplicationTicket \/ Fetch \/ Store \/ Finish
    \/ handle_replication_failure \/ WorkerTries \/ WorkerSchedules

ClientThread ==
    \E k \in Clients : \/ \E f \in Files : Lookup(k, f)
                       \/ issue_ticket(k) \/ Change(k) \/ Notify(k) \/ Leave(k)

World == Tick \/ \E s \in Servers : Crash(s) \/ Start(s)

Next == PeerThread \/ SchedulingThread \/ replication_worker \/ ClientThread \/ World

Spec == Init /\ [][Next]_vars

-----------------------------------------------------------------------------
Tasks == [file : Files, primary : Servers \cup {NoServer},
          backup : Servers \cup {NoServer}, assign : BOOLEAN]
Msgs == [type : {"SS_REGISTER"}] \cup [type : {"SS_FILE_UPDATE"}, file : Files, modified : Nat]
Copies == Nat \cup {NoCopy}
Calls == [conn : Conns, call : {"try", "push"}, task : Tasks]
Workers == [pc : {"idle", "primary", "target", "ticket", "fetch", "store", "done",
                  "failed", "try", "push"},
            task : Tasks, target : Servers \cup {NoServer}, text : Copies]
ClientStates == [pc : {"idle", "ticket", "again", "session", "notify"}, file : Files,
                 server : Servers \cup {NoServer}, attempts : 0..2]

\* The fields of the file table name existing servers or none, whatever the
\* servers and clients do.
TypeOK ==
    /\ online \in [Servers -> BOOLEAN]
    /\ primary \in [Files -> Servers]
    /\ backup \in [Files -> Servers \cup {NoServer}]
    /\ modified \in [Files -> Nat]
    /\ queue \in Seq(Tasks)
    /\ pending \in SUBSET Calls
    /\ worker \in Workers
    /\ alive \in [Servers -> BOOLEAN]
    /\ life \in [Servers -> 0..MaxCrashes]
    /\ copy \in [Servers -> [Files -> Copies]]
    /\ stamp \in [Servers -> [Files -> Nat]]
    /\ link \in [Conns -> {"none", "up", "cut", "gone"}]
    /\ inbox \in [Conns -> Seq(Msgs)]
    /\ client \in [Clients -> ClientStates]
    /\ changes \in Nat
    /\ now \in Nat

\* Whatever the order in which changes, losses and registrations of servers
\* and the worker's steps are processed, the two replicas of a file are on
\* different servers.
ReplicasApart == \A f \in Files : primary[f] # backup[f]

\* Only a server that has a copy of a file is recorded as its backup, so only
\* such a server is ever promoted: failover never turns a document empty.
ReplicasHold ==
    \A f \in Files : /\ copy[primary[f]][f] # NoCopy
                     /\ backup[f] # NoServer => copy[backup[f]][f] # NoCopy

\* Nothing is left to be done by any thread of the name manager.
Quiescent ==
    /\ queue = <<>> /\ pending = {} /\ worker.pc = "idle"
    /\ \A c \in Conns : inbox[c] = <<>> /\ link[c] # "cut"
    /\ \A k \in Clients : client[k].pc # "notify"

\* README.md:41, "After every mutating operation the SS sends SS_FILE_UPDATE
\* to the NM, which enqueues a replication task.  The backup is brought up to
\* date": once all is processed, the backup has the document of the primary.
BackupCurrent ==
    Quiescent => \A f \in Files : backup[f] # NoServer => copy[backup[f]][f] = copy[primary[f]][f]

-----------------------------------------------------------------------------
\* README.md:42, failover "then asynchronously re-replicates to restore a
\* backup": once all is processed, a file whose primary is available has a
\* backup if any other server is available.
BackupRestored ==
    Quiescent => \A f \in Files :
        online[primary[f]] /\ has_backup_candidate(primary[f]) => backup[f] # NoServer
=============================================================================
