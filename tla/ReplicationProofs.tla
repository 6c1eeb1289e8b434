------------------------- MODULE ReplicationProofs --------------------------
(***************************************************************************)
(* For every number of servers, files and clients: the replicas of a file  *)
(* are on two different servers and both hold a copy of it; and, under     *)
(* conditions stated below, no change is lost on its way to the backup.    *)
(*                                                                         *)
(* The inductive invariant adds what the tasks of the worker are known to  *)
(* say (Real), that the worker's target is another server than the primary *)
(* the task was made for once the servers have been checked (Aimed), that  *)
(* it carries a document once it has fetched one and has stored it before  *)
(* it records the backup (Carried), and that the server of a client's      *)
(* session exists (Served).                                                *)
(***************************************************************************)
EXTENDS Replication, SequenceTheorems, TLAPS

Real(task) == task.primary \in Servers /\ (task.assign \/ task.backup \in Servers)

Tasked == /\ \A i \in DOMAIN queue : Real(queue[i])
          /\ \A p \in pending : p.call = "push" => Real(p.task)
          /\ worker.pc # "idle" => Real(worker.task)

Aimed == /\ worker.pc \in {"ticket", "fetch", "store", "done"} => worker.target \in Servers
         /\ worker.pc \in {"fetch", "store", "done"} => worker.target # worker.task.primary

Carried == /\ worker.pc = "store" => worker.text # NoCopy
           /\ worker.pc = "done" => copy[worker.target][worker.task.file] # NoCopy

Served == \A k \in Clients :
             client[k].pc \in {"ticket", "session", "notify"} => client[k].server \in Servers

IInv == TypeOK /\ Tasked /\ Aimed /\ Carried /\ Served /\ ReplicasApart /\ ReplicasHold

\* The abbreviations used for the idle worker and client have their types.
LEMMA IdleTypes ==
    /\ NoTask \in Tasks
    /\ NoServer \notin Servers
    /\ IdleWorker \in Workers /\ IdleWorker.pc = "idle"
    /\ IdleClient \in ClientStates /\ IdleClient.pc = "idle"
<1>1. PICK f \in Files : f = CHOOSE g \in Files : TRUE
  BY ReplicationAssumption
<1> QED
  BY <1>1, ReplicationAssumption DEF NoTask, Task, Tasks, IdleWorker, IdleClient, NoServer,
     Servers, NoCopy, Copies, Workers, ClientStates

\* Queueing a task, or not, keeps the tasks of the queue well formed
\* (schedule_replication).
LEMMA ScheduleKeeps ==
    ASSUME queue \in Seq(Tasks), \A i \in DOMAIN queue : Real(queue[i]),
           NEW task \in Tasks, Real(task), schedule_replication(task)
    PROVE  queue' \in Seq(Tasks) /\ \A i \in DOMAIN queue' : Real(queue'[i])
<1>1. queue' = queue \/ queue' = Append(queue, task)
  BY DEF schedule_replication
<1>2. CASE queue' = queue
  BY <1>2
<1>3. CASE queue' = Append(queue, task)
  BY <1>3
<1> QED
  BY <1>1, <1>2, <1>3

\* The initial state: one server holds every file and no file has a backup.
LEMMA InitKeeps == Init => IInv
<1> SUFFICES ASSUME Init PROVE IInv
  OBVIOUS
<1> USE IdleTypes, ReplicationAssumption
<1>1. 0 \in Servers /\ <<N - 1, 0>> \in Conns
  BY DEF Servers, Conns
<1>2. \A f \in Files : Try(<<N - 1, 0>>, f) \in Calls /\ Try(<<N - 1, 0>>, f).call = "try"
  BY <1>1 DEF Try, Task, Tasks, Calls
<1>3. pending \in SUBSET Calls /\ \A p \in pending : p.call = "try"
  <2>1. pending = {Try(<<N - 1, 0>>, f) : f \in Files}
    BY DEF Init
  <2> QED
    BY <2>1, <1>2
<1>4. TypeOK /\ Tasked /\ Aimed /\ Carried /\ Served
  <2>1. online \in [Servers -> BOOLEAN] /\ primary \in [Files -> Servers]
        /\ backup \in [Files -> Servers \cup {NoServer}] /\ modified \in [Files -> Nat]
        /\ alive \in [Servers -> BOOLEAN] /\ life \in [Servers -> 0..MaxCrashes]
    BY <1>1 DEF Init
  <2>2. copy \in [Servers -> [Files -> Copies]] /\ stamp \in [Servers -> [Files -> Nat]]
    BY DEF Init, Copies
  <2>3. queue \in Seq(Tasks) /\ inbox \in [Conns -> Seq(Msgs)]
        /\ \A i \in DOMAIN queue : Real(queue[i])
    BY DEF Init
  <2>4. link \in [Conns -> {"none", "up", "cut", "gone"}]
    BY DEF Init
  <2>5. worker \in Workers /\ worker.pc = "idle" /\ client \in [Clients -> ClientStates]
        /\ \A k \in Clients : client[k].pc = "idle"
    BY DEF Init
  <2>6. changes \in Nat /\ now \in Nat
    BY DEF Init
  <2>7. TypeOK
    BY <1>3, <2>1, <2>2, <2>3, <2>4, <2>5, <2>6 DEF TypeOK
  <2>8. Tasked /\ Aimed /\ Carried /\ Served
    BY <1>3, <2>3, <2>5 DEF Tasked, Aimed, Carried, Served
  <2> QED
    BY <2>7, <2>8
<1>5. ReplicasApart /\ ReplicasHold
  BY <1>1 DEF Init, ReplicasApart, ReplicasHold, Servers, NoServer, NoCopy
<1> QED
  BY <1>4, <1>5 DEF IInv

\* What a step of the worker leaves in its local variables.
LEMMA WorkFields ==
    ASSUME NEW pc \in {"idle", "primary", "target", "ticket", "fetch", "store", "done",
                       "failed", "try", "push"},
           NEW task \in Tasks, NEW target \in Servers \cup {NoServer}, NEW text \in Copies,
           Work(pc, task, target, text)
    PROVE  /\ worker' \in Workers /\ worker'.pc = pc /\ worker'.task = task
           /\ worker'.target = target /\ worker'.text = text
BY DEF Work, Workers

\* The steps of the worker that change no more than its local variables and
\* the queue: it takes a task, checks it, asks for a ticket, retries.
LEMMA WorkerKeeps ==
    ASSUME IInv,
           TakeTask \/ CheckPrimary \/ PickTarget \/ ReplicationTicket
             \/ WorkerTries \/ WorkerSchedules
    PROVE  IInv'
<1> USE ReplicationAssumption, IdleTypes
<1>0. NoCopy \in Copies /\ NoServer \in Servers \cup {NoServer}
  BY DEF Copies
<1>1. ASSUME /\ worker' \in Workers /\ queue' \in Seq(Tasks)
             /\ \A i \in DOMAIN queue' : Real(queue'[i])
             /\ worker'.pc # "idle" => Real(worker'.task)
             /\ Aimed'
             /\ worker'.pc \notin {"store", "done"}
             /\ UNCHANGED <<nm, pending, ss, net, client, changes, now>>
      PROVE  IInv'
  <2>1. TypeOK'
    BY <1>1 DEF IInv, TypeOK, nm, ss, net
  <2>2. Tasked' /\ Carried' /\ Served'
    BY <1>1 DEF IInv, Tasked, Carried, Served, nm, ss, net
  <2>3. ReplicasApart' /\ ReplicasHold'
    BY <1>1 DEF IInv, ReplicasApart, ReplicasHold, nm, ss
  <2> QED
    BY <1>1, <2>1, <2>2, <2>3 DEF IInv
<1>2. worker \in Workers /\ worker.task \in Tasks /\ queue \in Seq(Tasks)
      /\ \A i \in DOMAIN queue : Real(queue[i])
  BY DEF IInv, TypeOK, Workers, Tasked
<1>3. CASE TakeTask
  <2>1. Head(queue) \in Tasks /\ Real(Head(queue)) /\ Tail(queue) \in Seq(Tasks)
        /\ \A i \in DOMAIN Tail(queue) : Real(Tail(queue)[i])
    BY <1>2, <1>3 DEF TakeTask
  <2>2. worker' \in Workers /\ worker'.pc = "primary" /\ worker'.task = Head(queue)
    BY <1>0, <1>3, <2>1, WorkFields DEF TakeTask
  <2> QED
    BY <1>1, <1>3, <2>1, <2>2 DEF TakeTask, Aimed
<1>4. CASE CheckPrimary
  <2>1. worker' \in Workers /\ worker'.pc \in {"idle", "target"}
        /\ (worker'.pc # "idle" => worker'.task = worker.task)
    BY <1>0, <1>2, <1>4, WorkFields DEF CheckPrimary
  <2> QED
    BY <1>1, <1>2, <1>4, <2>1 DEF CheckPrimary, Aimed, IInv, Tasked
<1>5. CASE PickTarget
  <2>1. worker' \in Workers /\ worker'.pc \in {"idle", "ticket"}
        /\ (worker'.pc # "idle" => worker'.task = worker.task /\ worker'.target \in Servers)
    <3>1. Real(worker.task)
      BY <1>5 DEF PickTarget, IInv, Tasked
    <3>2. CASE worker' = IdleWorker
      BY <3>2
    <3>3. CASE \E t \in Servers : Work("ticket", worker.task, t, NoCopy)
      <4>1. PICK t \in Servers : Work("ticket", worker.task, t, NoCopy)
        BY <3>3
      <4> QED
        BY <1>0, <1>2, <4>1, WorkFields
    <3> QED
      BY <1>5, <3>1, <3>2, <3>3 DEF PickTarget, Real
  <2>2. UNCHANGED <<nm, queue, pending, ss, net, client, changes, now>>
        /\ worker.pc = "target"
    BY <1>5 DEF PickTarget
  <2> QED
    BY <1>1, <1>2, <2>1, <2>2 DEF Aimed, IInv, Tasked
<1>6. CASE ReplicationTicket
  <2>1. worker' \in Workers /\ worker'.pc \in {"fetch", "failed"} /\ worker'.task = worker.task
        /\ worker'.target = worker.target
        /\ (worker'.pc = "fetch" => worker.target # worker.task.primary)
    <3>1. worker.target \in Servers \cup {NoServer}
      BY <1>2 DEF Workers
    <3> QED
      BY <1>0, <1>2, <1>6, <3>1, WorkFields DEF ReplicationTicket
  <2>2. UNCHANGED <<nm, queue, pending, ss, net, client, changes, now>>
        /\ worker.pc = "ticket"
    BY <1>6 DEF ReplicationTicket
  <2> QED
    BY <1>1, <1>2, <2>1, <2>2 DEF Aimed, IInv, Tasked
<1>7. CASE WorkerTries
  <2> DEFINE f == worker.task.file
             task == Task(f, primary[f], NoServer, TRUE)
  <2>1. task \in Tasks /\ Real(task)
    BY <1>2 DEF IInv, TypeOK, Task, Tasks, Real
  <2>2. worker' \in Workers /\ worker'.pc \in {"idle", "push"}
        /\ (worker'.pc # "idle" => worker'.task = task)
    BY <1>0, <1>7, <2>1, WorkFields DEF WorkerTries
  <2>3. UNCHANGED <<nm, queue, pending, ss, net, client, changes, now>>
    BY <1>7 DEF WorkerTries
  <2> QED
    BY <1>1, <1>2, <2>1, <2>2, <2>3 DEF Aimed
<1>8. CASE WorkerSchedules
  <2>1. queue' \in Seq(Tasks) /\ \A i \in DOMAIN queue' : Real(queue'[i])
    BY <1>2, <1>8, ScheduleKeeps DEF WorkerSchedules, IInv, Tasked
  <2> QED
    BY <1>1, <1>8, <2>1 DEF WorkerSchedules, Aimed
<1> QED
  BY <1>3, <1>4, <1>5, <1>6, <1>7, <1>8

\* NM_SYNC fetches a document from the primary and stores it on the backup:
\* no copy is ever taken away, and the worker is done only after the store.
LEMMA SyncKeeps == ASSUME IInv, Fetch \/ Store PROVE IInv'
<1> USE ReplicationAssumption, IdleTypes
<1> DEFINE f == worker.task.file
           p == worker.task.primary
           b == worker.target
<1>1. /\ worker \in Workers /\ worker.task \in Tasks /\ f \in Files
      /\ b \in Servers \cup {NoServer} /\ worker.text \in Copies /\ NoCopy \in Copies
  BY DEF IInv, TypeOK, Workers, Tasks, Copies
<1>2. CASE Fetch
  <2>1. b \in Servers /\ b # p /\ p \in Servers /\ Real(worker.task)
        /\ UNCHANGED <<nm, queue, pending, ss, link, client, changes, now>>
    BY <1>2 DEF Fetch, IInv, Aimed, Tasked, Real
  <2>2. /\ worker' \in Workers /\ worker'.task = worker.task /\ worker'.target = b
        /\ worker'.pc \in {"store", "failed"}
        /\ worker'.pc = "store" => worker'.text # NoCopy
    <3>1. copy[p][f] \in Copies
      BY <1>1, <2>1 DEF IInv, TypeOK
    <3>2. CASE Work("failed", worker.task, b, NoCopy)
      BY <1>1, <3>2, WorkFields
    <3>3. CASE copy[p][f] # NoCopy /\ Work("store", worker.task, b, copy[p][f])
      BY <1>1, <3>1, <3>3, WorkFields
    <3> QED
      BY <1>2, <3>2, <3>3 DEF Fetch
  <2>3. inbox' \in [Conns -> Seq(Msgs)]
    <3>1. Update(f, stamp[p][f]) \in Msgs /\ Conn(p) \in Conns
      BY <1>1, <2>1 DEF IInv, TypeOK, Update, Msgs, Conn, Conns
    <3>2. CASE inbox' = inbox
      BY <3>2 DEF IInv, TypeOK
    <3>3. CASE inbox' = [inbox EXCEPT ![Conn(p)] = Append(@, Update(f, stamp[p][f]))]
      BY <3>1, <3>3 DEF IInv, TypeOK
    <3> QED
      BY <1>2, <3>2, <3>3 DEF Fetch
  <2>4. TypeOK'
    BY <2>1, <2>2, <2>3 DEF IInv, TypeOK, nm, ss
  <2>5. Tasked' /\ Aimed' /\ Carried' /\ Served'
    BY <2>1, <2>2 DEF IInv, Tasked, Aimed, Carried, Served
  <2>6. ReplicasApart' /\ ReplicasHold'
    BY <2>1 DEF IInv, ReplicasApart, ReplicasHold, nm, ss
  <2> QED
    BY <2>4, <2>5, <2>6 DEF IInv
<1>3. CASE Store
  <2>1. b \in Servers /\ b # p /\ Real(worker.task) /\ worker.text # NoCopy
        /\ UNCHANGED <<nm, queue, pending, alive, life, net, client, changes, now>>
    BY <1>3 DEF Store, IInv, Aimed, Tasked, Carried
  <2>2. /\ copy' \in [Servers -> [Files -> Copies]] /\ stamp' \in [Servers -> [Files -> Nat]]
        /\ \A s \in Servers, g \in Files : copy[s][g] # NoCopy => copy'[s][g] # NoCopy
    <3>1. CASE UNCHANGED <<copy, stamp>>
      BY <3>1 DEF IInv, TypeOK
    <3>2. CASE /\ copy' = [copy EXCEPT ![b][f] = worker.text]
               /\ stamp' = [stamp EXCEPT ![b][f] = IF copy[b][f] = NoCopy THEN now ELSE @]
      BY <1>1, <2>1, <3>2 DEF IInv, TypeOK
    <3> QED
      BY <1>3, <3>1, <3>2 DEF Store
  <2>3. /\ worker' \in Workers /\ worker'.task = worker.task /\ worker'.target = b
        /\ worker'.pc \in {"done", "failed"}
        /\ worker'.pc = "done" => copy'[b][f] # NoCopy
    <3>1. CASE Work("failed", worker.task, b, NoCopy)
      BY <1>1, <3>1, WorkFields
    <3>2. CASE /\ copy' = [copy EXCEPT ![b][f] = worker.text]
               /\ Work("done", worker.task, b, NoCopy)
      <4>1. copy'[b][f] = worker.text
        BY <1>1, <2>1, <3>2 DEF IInv, TypeOK
      <4> QED
        BY <1>1, <2>1, <3>2, <4>1, WorkFields
    <3> QED
      BY <1>3, <3>1, <3>2 DEF Store
  <2>4. TypeOK'
    BY <2>1, <2>2, <2>3 DEF IInv, TypeOK, nm, net
  <2>5. Tasked' /\ Aimed' /\ Carried' /\ Served'
    BY <2>1, <2>3 DEF IInv, Tasked, Aimed, Carried, Served
  <2>6. ReplicasApart' /\ ReplicasHold'
    BY <2>1, <2>2 DEF IInv, TypeOK, ReplicasApart, ReplicasHold, nm
  <2> QED
    BY <2>4, <2>5, <2>6 DEF IInv
<1> QED
  BY <1>2, <1>3

\* The only ways in which the code changes where a file is: the backup is
\* dropped, it is promoted and the file has none, or a server that holds a copy
\* and is not the primary becomes the backup.
LEMMA MappingKeeps ==
    ASSUME IInv, TypeOK',
           \A s \in Servers, g \in Files : copy[s][g] # NoCopy => copy'[s][g] # NoCopy,
           \A g \in Files :
              \/ primary'[g] = primary[g] /\ backup'[g] \in {backup[g], NoServer}
              \/ primary'[g] = backup[g] /\ backup[g] # NoServer /\ backup'[g] = NoServer
              \/ /\ primary'[g] = primary[g] /\ backup'[g] # primary[g]
                 /\ copy'[backup'[g]][g] # NoCopy
    PROVE  ReplicasApart' /\ ReplicasHold'
<1> SUFFICES ASSUME NEW g \in Files
             PROVE  /\ primary'[g] # backup'[g]
                    /\ copy'[primary'[g]][g] # NoCopy
                    /\ backup'[g] # NoServer => copy'[backup'[g]][g] # NoCopy
  BY DEF ReplicasApart, ReplicasHold
<1>1. /\ primary[g] \in Servers /\ backup[g] \in Servers \cup {NoServer}
      /\ primary'[g] \in Servers /\ NoServer \notin Servers
      /\ primary[g] # backup[g] /\ copy[primary[g]][g] # NoCopy
      /\ backup[g] # NoServer => copy[backup[g]][g] # NoCopy
  BY IdleTypes DEF IInv, TypeOK, ReplicasApart, ReplicasHold
<1>2. CASE primary'[g] = primary[g] /\ backup'[g] \in {backup[g], NoServer}
  BY <1>1, <1>2
<1>3. CASE primary'[g] = backup[g] /\ backup[g] # NoServer /\ backup'[g] = NoServer
  BY <1>1, <1>3
<1>4. CASE /\ primary'[g] = primary[g] /\ backup'[g] # primary[g]
           /\ copy'[backup'[g]][g] # NoCopy
  BY <1>1, <1>4
<1> QED
  BY <1>2, <1>3, <1>4

\* The end of a task: the target becomes the backup, or a backup is dropped.
\* Here it matters that the primary is still the one the task was made for.
LEMMA EndKeeps == ASSUME IInv, Finish \/ handle_replication_failure PROVE IInv'
<1> USE ReplicationAssumption, IdleTypes
<1> DEFINE f == worker.task.file
           b == worker.target
<1>1. worker \in Workers /\ worker.task \in Tasks /\ f \in Files /\ NoCopy \in Copies
  BY DEF IInv, TypeOK, Workers, Tasks, Copies
<1>2. ASSUME /\ worker' \in Workers /\ worker'.pc \in {"idle", "try"}
             /\ worker'.pc # "idle" => Real(worker'.task)
             /\ UNCHANGED <<online, primary, modified, queue, pending, ss, net, client,
                            changes, now>>
             /\ \/ backup' = backup
                \/ backup' = [backup EXCEPT ![f] = NoServer]
                \/ /\ backup' = [backup EXCEPT ![f] = b]
                   /\ b \in Servers /\ b # primary[f] /\ copy[b][f] # NoCopy
      PROVE  IInv'
  <2>1. TypeOK'
    BY <1>1, <1>2 DEF IInv, TypeOK, ss, net
  <2>2. Tasked' /\ Aimed' /\ Carried' /\ Served'
    BY <1>2 DEF IInv, Tasked, Aimed, Carried, Served, ss
  <2>3. ReplicasApart' /\ ReplicasHold'
    <3>1. ASSUME NEW g \in Files
          PROVE  \/ primary'[g] = primary[g] /\ backup'[g] \in {backup[g], NoServer}
                 \/ /\ primary'[g] = primary[g] /\ backup'[g] # primary[g]
                    /\ copy'[backup'[g]][g] # NoCopy
      <4>1. primary'[g] = primary[g] /\ copy' = copy /\ backup \in [Files -> Servers \cup {NoServer}]
        BY <1>2 DEF IInv, TypeOK, ss
      <4>2. CASE backup' = backup
        BY <4>1, <4>2
      <4>3. CASE backup' = [backup EXCEPT ![f] = NoServer]
        BY <1>1, <4>1, <4>3
      <4>4. CASE /\ backup' = [backup EXCEPT ![f] = b]
                 /\ b \in Servers /\ b # primary[f] /\ copy[b][f] # NoCopy
        BY <1>1, <4>1, <4>4
      <4> QED
        BY <1>2, <4>2, <4>3, <4>4
    <3>2. copy' = copy
      BY <1>2 DEF ss
    <3> QED
      BY <2>1, <3>1, <3>2, MappingKeeps
  <2> QED
    BY <2>1, <2>2, <2>3 DEF IInv
<1>3. CASE Finish
  <2>1. b \in Servers /\ b # worker.task.primary /\ copy[b][f] # NoCopy
    BY <1>3 DEF Finish, IInv, Aimed, Carried
  <2> QED
    BY <1>2, <1>3, <2>1 DEF Finish
<1>4. CASE handle_replication_failure
  <2>1. worker' \in Workers /\ worker'.pc \in {"idle", "try"}
        /\ (worker'.pc # "idle" => worker'.task = worker.task)
    BY <1>1, <1>4, WorkFields DEF handle_replication_failure
  <2>2. Real(worker.task)
    BY <1>4 DEF handle_replication_failure, IInv, Tasked
  <2>3. /\ backup' = backup \/ backup' = [backup EXCEPT ![f] = NoServer]
        /\ UNCHANGED <<online, primary, modified, queue, pending, ss, net, client,
                       changes, now>>
    BY <1>4 DEF handle_replication_failure
  <2> QED
    BY <1>2, <2>1, <2>2, <2>3
<1> QED
  BY <1>3, <1>4

\* The name manager's threads of the storage servers: a server registers,
\* reports a change, or is lost, when its files fail over to their backups.
LEMMA PeerKeeps == ASSUME IInv, PeerThread PROVE IInv'
<1> USE ReplicationAssumption, IdleTypes
<1>0. PICK c \in Conns : \/ handle_ss_register(c) \/ handle_ss_file_update(c)
                         \/ handle_server_disconnect(c)
  BY DEF PeerThread
<1>1. c[1] \in Servers
  BY DEF Conns
<1>2. \A g \in Files : Try(c, g) \in Calls /\ Try(c, g).call = "try"
  BY DEF Try, Calls, Task, Tasks
<1>3. CASE handle_ss_register(c)
  <2>1. inbox' \in [Conns -> Seq(Msgs)]
    <3>1. inbox[c] \in Seq(Msgs) /\ inbox[c] # <<>>
      BY <1>3 DEF handle_ss_register, IInv, TypeOK
    <3>2. Tail(inbox[c]) \in Seq(Msgs)
      BY <3>1
    <3> QED
      BY <1>3, <3>2 DEF handle_ss_register, IInv, TypeOK
  <2>2. pending' \in SUBSET Calls /\ \A q \in pending' : q.call = "push" => Real(q.task)
    BY <1>2, <1>3 DEF handle_ss_register, IInv, TypeOK, Tasked
  <2>3. TypeOK'
    BY <1>1, <1>3, <2>1, <2>2 DEF handle_ss_register, IInv, TypeOK
  <2>4. Tasked' /\ Aimed' /\ Carried' /\ Served'
    BY <1>3, <2>2 DEF handle_ss_register, IInv, Tasked, Aimed, Carried, Served
  <2>5. ReplicasApart' /\ ReplicasHold'
    BY <1>3 DEF handle_ss_register, IInv, ReplicasApart, ReplicasHold
  <2> QED
    BY <2>3, <2>4, <2>5 DEF IInv
<1>4. CASE handle_ss_file_update(c)
  <2> DEFINE m == Head(inbox[c])
             f == m.file
  <2>1. m \in Msgs /\ Tail(inbox[c]) \in Seq(Msgs)
    <3>1. inbox[c] \in Seq(Msgs) /\ inbox[c] # <<>>
      BY <1>4 DEF handle_ss_file_update, IInv, TypeOK
    <3> QED
      BY <3>1
  <2>2. f \in Files /\ m.modified \in Nat
    BY <1>4, <2>1 DEF handle_ss_file_update, Msgs
  <2>3. inbox' \in [Conns -> Seq(Msgs)] /\ modified' \in [Files -> Nat]
    BY <1>4, <2>1, <2>2 DEF handle_ss_file_update, IInv, TypeOK
  <2>4. pending' \in SUBSET Calls /\ \A q \in pending' : q.call = "push" => Real(q.task)
    <3>1. primary[f] \in Servers /\ backup[f] \in Servers \cup {NoServer}
      BY <2>2 DEF IInv, TypeOK
    <3>2. backup[f] # NoServer =>
             /\ Push(c, Task(f, primary[f], backup[f], FALSE)) \in Calls
             /\ Real(Push(c, Task(f, primary[f], backup[f], FALSE)).task)
      BY <2>2, <3>1 DEF Push, Task, Tasks, Calls, Real
    <3>3. /\ Push(c, Task(f, primary[f], NoServer, TRUE)) \in Calls
          /\ Real(Push(c, Task(f, primary[f], NoServer, TRUE)).task)
      BY <2>2, <3>1 DEF Push, Task, Tasks, Calls, Real
    <3>4. \/ pending' = pending
          \/ /\ backup[f] # NoServer
             /\ pending' = pending \cup {Push(c, Task(f, primary[f], backup[f], FALSE))}
          \/ pending' = pending \cup {Push(c, Task(f, primary[f], NoServer, TRUE))}
      BY <1>4 DEF handle_ss_file_update
    <3> QED
      BY <3>2, <3>3, <3>4 DEF IInv, TypeOK, Tasked
  <2>5. UNCHANGED <<online, primary, backup, queue, worker, ss, link, client, changes, now>>
    BY <1>4 DEF handle_ss_file_update
  <2>6. TypeOK'
    BY <2>3, <2>4, <2>5 DEF IInv, TypeOK, ss
  <2>7. Tasked' /\ Aimed' /\ Carried' /\ Served'
    BY <2>4, <2>5 DEF IInv, Tasked, Aimed, Carried, Served, ss
  <2>8. ReplicasApart' /\ ReplicasHold'
    BY <2>5 DEF IInv, ReplicasApart, ReplicasHold, ss
  <2> QED
    BY <2>6, <2>7, <2>8 DEF IInv
<1>5. CASE handle_server_disconnect(c)
  <2>1. /\ online' \in [Servers -> BOOLEAN]
        /\ link' \in [Conns -> {"none", "up", "cut", "gone"}]
    BY <1>1, <1>5 DEF handle_server_disconnect, IInv, TypeOK
  <2>2. \A g \in Files :
           \/ primary'[g] = primary[g] /\ backup'[g] \in {backup[g], NoServer}
           \/ primary'[g] = backup[g] /\ backup[g] # NoServer /\ backup'[g] = NoServer
    BY <1>5 DEF handle_server_disconnect
  <2>3. primary' \in [Files -> Servers] /\ backup' \in [Files -> Servers \cup {NoServer}]
    <3>1. DOMAIN primary' = Files /\ DOMAIN backup' = Files
          /\ primary' = [g \in Files |-> primary'[g]] /\ backup' = [g \in Files |-> backup'[g]]
      BY <1>5 DEF handle_server_disconnect
    <3>2. ASSUME NEW g \in Files
          PROVE  primary'[g] \in Servers /\ backup'[g] \in Servers \cup {NoServer}
      <4>1. primary[g] \in Servers /\ backup[g] \in Servers \cup {NoServer}
        BY DEF IInv, TypeOK
      <4> QED
        BY <2>2, <4>1
    <3> QED
      BY <3>1, <3>2
  <2>4. pending' \in SUBSET Calls /\ \A q \in pending' : q.call = "push" => Real(q.task)
    <3>1. \A q \in pending' : q \in pending \/ \E g \in Files : q = Try(c, g)
      BY <1>5 DEF handle_server_disconnect
    <3>2. pending \in SUBSET Calls /\ \A q \in pending : q.call = "push" => Real(q.task)
      BY DEF IInv, TypeOK, Tasked
    <3> QED
      BY <1>2, <3>1, <3>2
  <2>5. UNCHANGED <<modified, queue, worker, ss, inbox, client, changes, now>>
    BY <1>5 DEF handle_server_disconnect
  <2>6. TypeOK'
    BY <2>1, <2>3, <2>4, <2>5 DEF IInv, TypeOK, ss
  <2>7. Tasked' /\ Aimed' /\ Carried' /\ Served'
    BY <2>4, <2>5 DEF IInv, Tasked, Aimed, Carried, Served, ss
  <2>8. ReplicasApart' /\ ReplicasHold'
    BY <2>2, <2>5, <2>6, MappingKeeps DEF ss
  <2> QED
    BY <2>6, <2>7, <2>8 DEF IInv
<1> QED
  BY <1>0, <1>3, <1>4, <1>5

\* Threads that look at a file and then queue a task for it.
LEMMA SchedulingKeeps == ASSUME IInv, SchedulingThread PROVE IInv'
<1> USE ReplicationAssumption, IdleTypes
<1>0. PICK p \in pending : TryAssign(p) \/ Schedule(p)
  BY DEF SchedulingThread
<1>1. p \in Calls /\ p.task \in Tasks /\ p.task.file \in Files
  BY DEF IInv, TypeOK, Calls, Tasks
<1>2. ASSUME /\ queue' \in Seq(Tasks) /\ \A i \in DOMAIN queue' : Real(queue'[i])
             /\ pending' \in SUBSET Calls /\ \A q \in pending' : q.call = "push" => Real(q.task)
             /\ UNCHANGED <<nm, worker, ss, net, client, changes, now>>
      PROVE  IInv'
  <2>1. TypeOK'
    BY <1>2 DEF IInv, TypeOK, nm, ss, net
  <2>2. Tasked' /\ Aimed' /\ Carried' /\ Served'
    BY <1>2 DEF IInv, Tasked, Aimed, Carried, Served, ss
  <2>3. ReplicasApart' /\ ReplicasHold'
    BY <1>2 DEF IInv, ReplicasApart, ReplicasHold, nm, ss
  <2> QED
    BY <2>1, <2>2, <2>3 DEF IInv
<1>3. CASE TryAssign(p)
  <2> DEFINE f == p.task.file
             call == Push(p.conn, Task(f, primary[f], NoServer, TRUE))
  <2>1. call \in Calls /\ Real(call.task)
    BY <1>1 DEF IInv, TypeOK, Push, Task, Tasks, Calls, Real
  <2>2. pending' \in SUBSET (pending \cup {call})
        /\ UNCHANGED <<nm, queue, worker, ss, net, client, changes, now>>
    BY <1>3 DEF TryAssign
  <2> QED
    BY <1>2, <2>1, <2>2 DEF IInv, TypeOK, Tasked
<1>4. CASE Schedule(p)
  <2>1. queue' \in Seq(Tasks) /\ \A i \in DOMAIN queue' : Real(queue'[i])
    BY <1>1, <1>4, ScheduleKeeps DEF Schedule, IInv, TypeOK, Tasked
  <2> QED
    BY <1>2, <1>4, <2>1 DEF Schedule, IInv, TypeOK, Tasked
<1> QED
  BY <1>0, <1>3, <1>4

\* Clients: a lookup may promote or drop a backup; a change replaces a copy.
LEMMA ClientKeeps == ASSUME IInv, ClientThread PROVE IInv'
<1> USE ReplicationAssumption, IdleTypes
<1>0. PICK k \in Clients : \/ \E f \in Files : Lookup(k, f)
                           \/ issue_ticket(k) \/ Change(k) \/ Notify(k) \/ Leave(k)
  BY DEF ClientThread
<1> DEFINE s == client[k].server
           g == client[k].file
<1>1. client[k] \in ClientStates /\ g \in Files
  BY DEF IInv, TypeOK, ClientStates
<1>2. ASSUME NEW state \in ClientStates, client' = [client EXCEPT ![k] = state],
             state.pc \in {"ticket", "session", "notify"} => state.server \in Servers
      PROVE  client' \in [Clients -> ClientStates] /\ Served'
  BY <1>2 DEF IInv, TypeOK, Served
<1>3. CASE \E f \in Files : Lookup(k, f)
  <2>0. PICK f \in Files : Lookup(k, f)
    BY <1>3
  <2> DEFINE choice == select_storage_server(f)
  <2>1. primary[f] \in Servers /\ backup[f] \in Servers \cup {NoServer}
    BY DEF IInv, TypeOK
  <2>2. /\ choice.server \in Servers \cup {NoServer}
        /\ \/ choice.primary = primary[f] /\ choice.backup \in {backup[f], NoServer}
           \/ choice.primary = backup[f] /\ backup[f] # NoServer /\ choice.backup = NoServer
    BY <2>1 DEF select_storage_server
  <2>3. /\ primary' = [primary EXCEPT ![f] = choice.primary]
        /\ backup' = [backup EXCEPT ![f] = choice.backup]
        /\ UNCHANGED <<online, modified, tasks, ss, net, changes, now>>
    BY <2>0 DEF Lookup
  <2>4. client' \in [Clients -> ClientStates] /\ Served'
    <3>1. CASE client' = [client EXCEPT ![k] = IdleClient]
      BY <1>2, <3>1
    <3>2. CASE choice.server # NoServer /\
               \E n \in {1, 2} : Client(k, "ticket", f, choice.server, n)
      <4> PICK n \in {1, 2} : Client(k, "ticket", f, choice.server, n)
        BY <3>2
      <4> HIDE DEF choice
      <4> DEFINE state == [pc |-> "ticket", file |-> f, server |-> choice.server, attempts |-> n]
      <4>1. choice.server \in Servers
        BY <2>2, <3>2
      <4>2. state \in ClientStates /\ state.server \in Servers
        BY <4>1 DEF ClientStates
      <4>3. client' = [client EXCEPT ![k] = state]
        BY DEF Client
      <4> QED
        BY <1>2, <4>2, <4>3
    <3> QED
      BY <2>0, <3>1, <3>2 DEF Lookup
  <2>5. TypeOK'
    <3> HIDE DEF choice
    <3>1. primary' \in [Files -> Servers] /\ backup' \in [Files -> Servers \cup {NoServer}]
      BY <2>1, <2>2, <2>3 DEF IInv, TypeOK
    <3> QED
      BY <2>3, <2>4, <3>1 DEF IInv, TypeOK, tasks, ss, net
  <2>6. Tasked' /\ Aimed' /\ Carried'
    BY <2>3 DEF IInv, Tasked, Aimed, Carried, tasks, ss
  <2>7. ReplicasApart' /\ ReplicasHold'
    <3> HIDE DEF choice
    <3>1. ASSUME NEW h \in Files
          PROVE  \/ primary'[h] = primary[h] /\ backup'[h] \in {backup[h], NoServer}
                 \/ primary'[h] = backup[h] /\ backup[h] # NoServer /\ backup'[h] = NoServer
      BY <2>2, <2>3 DEF IInv, TypeOK
    <3>2. copy' = copy
      BY <2>3 DEF ss
    <3> QED
      BY <2>5, <3>1, <3>2, MappingKeeps
  <2> QED
    BY <2>4, <2>5, <2>6, <2>7 DEF IInv
<1>4. CASE issue_ticket(k) \/ Notify(k) \/ Leave(k)
  <2>1. client' \in [Clients -> ClientStates] /\ Served'
    <3>1. CASE client' = [client EXCEPT ![k] = IdleClient]
      BY <1>2, <3>1
    <3>2. CASE issue_ticket(k) /\ Client(k, "session", g, s, 0)
      <4> DEFINE state == [pc |-> "session", file |-> g, server |-> s, attempts |-> 0]
      <4>1. s \in Servers
        BY <3>2 DEF issue_ticket, IInv, Served
      <4>2. state \in ClientStates /\ state.server \in Servers
        BY <1>1, <4>1 DEF ClientStates
      <4>3. client' = [client EXCEPT ![k] = state]
        BY <3>2 DEF Client
      <4> QED
        BY <1>2, <4>2, <4>3
    <3>3. CASE Client(k, "again", g, NoServer, 1)
      <4> DEFINE state == [pc |-> "again", file |-> g, server |-> NoServer, attempts |-> 1]
      <4>1. state \in ClientStates /\ state.pc = "again"
        BY <1>1 DEF ClientStates
      <4>2. client' = [client EXCEPT ![k] = state]
        BY <3>3 DEF Client
      <4> QED
        BY <1>2, <4>1, <4>2
    <3> QED
      BY <1>4, <3>1, <3>2, <3>3 DEF issue_ticket, Notify, Leave
  <2>2. online' \in [Servers -> BOOLEAN]
    BY <1>4 DEF issue_ticket, Notify, Leave, nm, IInv, TypeOK
  <2>3. inbox' \in [Conns -> Seq(Msgs)]
    <3>1. CASE inbox' = inbox
      BY <3>1 DEF IInv, TypeOK
    <3>2. CASE Notify(k)
      <4>1. s \in Servers
        BY <3>2 DEF Notify, IInv, Served
      <4>2. Update(g, stamp[s][g]) \in Msgs /\ Conn(s) \in Conns
        BY <1>1, <4>1 DEF IInv, TypeOK, Update, Msgs, Conn, Conns
      <4> QED
        BY <3>2, <4>2 DEF Notify, IInv, TypeOK
    <3> QED
      BY <1>4, <3>1, <3>2 DEF issue_ticket, Leave, net
  <2>4. UNCHANGED <<primary, backup, modified, tasks, ss, link, changes, now>>
    BY <1>4 DEF issue_ticket, Notify, Leave, nm, net
  <2>5. TypeOK'
    BY <2>1, <2>2, <2>3, <2>4 DEF IInv, TypeOK, tasks, ss
  <2>6. Tasked' /\ Aimed' /\ Carried' /\ ReplicasApart' /\ ReplicasHold'
    BY <2>4 DEF IInv, Tasked, Aimed, Carried, ReplicasApart, ReplicasHold, tasks, ss
  <2> QED
    BY <2>1, <2>5, <2>6 DEF IInv
<1>5. CASE Change(k)
  <2>1. s \in Servers
    BY <1>5 DEF Change, IInv, Served
  <2>2. client' \in [Clients -> ClientStates] /\ Served'
    <3> DEFINE state == [pc |-> "notify", file |-> g, server |-> s, attempts |-> 0]
    <3>1. state \in ClientStates /\ state.server \in Servers
      BY <1>1, <2>1 DEF ClientStates
    <3>2. client' = [client EXCEPT ![k] = state]
      BY <1>5 DEF Change, Client
    <3> QED
      BY <1>2, <3>1, <3>2
  <2>3. /\ copy' = [copy EXCEPT ![s][g] = changes + 1]
        /\ stamp' = [stamp EXCEPT ![s][g] = now]
        /\ changes' = changes + 1
        /\ UNCHANGED <<nm, tasks, alive, life, net, now>>
    BY <1>5 DEF Change
  <2>4. /\ copy' \in [Servers -> [Files -> Copies]] /\ stamp' \in [Servers -> [Files -> Nat]]
        /\ changes' \in Nat
        /\ \A r \in Servers, h \in Files : copy[r][h] # NoCopy => copy'[r][h] # NoCopy
    <3>1. changes' \in Nat /\ changes + 1 \in Copies /\ changes + 1 # NoCopy
      BY <2>3 DEF IInv, TypeOK, Copies, NoCopy
    <3>2. copy \in [Servers -> [Files -> Copies]] /\ stamp \in [Servers -> [Files -> Nat]] /\ now \in Nat
      BY DEF IInv, TypeOK
    <3> HIDE DEF s, g
    <3>3. stamp' \in [Servers -> [Files -> Nat]]
      BY <1>1, <2>1, <2>3, <3>2
    <3>4. copy' \in [Servers -> [Files -> Copies]]
      BY <1>1, <2>1, <2>3, <3>1, <3>2
    <3>5. \A r \in Servers, h \in Files :
             copy'[r][h] = IF r = s /\ h = g THEN changes + 1 ELSE copy[r][h]
      BY <1>1, <2>1, <2>3, <3>2
    <3> QED
      BY <3>1, <3>3, <3>4, <3>5
  <2>5. TypeOK'
    BY <2>2, <2>3, <2>4 DEF IInv, TypeOK, nm, tasks, net
  <2>6. Tasked' /\ Aimed'
    BY <2>3 DEF IInv, Tasked, Aimed, tasks
  <2>7. Carried'
    <3>1. worker' = worker /\ worker.task.file \in Files
      BY <2>3 DEF IInv, TypeOK, Workers, Tasks, tasks
    <3> QED
      BY <2>4, <3>1 DEF IInv, Carried, Aimed
  <2>8. ReplicasApart' /\ ReplicasHold'
    BY <2>3, <2>4, <2>5, MappingKeeps DEF nm
  <2> QED
    BY <2>2, <2>5, <2>6, <2>7, <2>8 DEF IInv
<1> QED
  BY <1>0, <1>3, <1>4, <1>5

\* Crashes, restarts and the clock take no copy away.
LEMMA WorldKeeps == ASSUME IInv, World PROVE IInv'
<1> USE ReplicationAssumption, IdleTypes
<1>1. UNCHANGED <<nm, tasks, copy, stamp, changes>> /\ now' \in Nat
  <2>1. CASE Tick
    BY <2>1 DEF Tick, ss, IInv, TypeOK
  <2>2. CASE \E s \in Servers : Crash(s) \/ Start(s)
    BY <2>2 DEF Crash, Start, IInv, TypeOK
  <2> QED
    BY <2>1, <2>2 DEF World
<1>2. alive' \in [Servers -> BOOLEAN]
  BY DEF World, Tick, Crash, Start, ss, IInv, TypeOK
<1>3. life' \in [Servers -> 0..MaxCrashes]
  <2>1. life \in [Servers -> 0..MaxCrashes]
    BY DEF IInv, TypeOK
  <2>2. CASE life' = life
    BY <2>1, <2>2
  <2>3. ASSUME NEW s \in Servers, Start(s)  PROVE life' \in [Servers -> 0..MaxCrashes]
    <3>1. life[s] + 1 \in 0..MaxCrashes /\ life' = [life EXCEPT ![s] = life[s] + 1]
      BY <2>1, <2>3 DEF Start
    <3> QED
      BY <2>1, <3>1
  <2> QED
    BY <2>2, <2>3 DEF World, Tick, Crash, ss
<1>4. link' \in [Conns -> {"none", "up", "cut", "gone"}] /\ inbox' \in [Conns -> Seq(Msgs)]
  <2>1. CASE Tick
    BY <2>1 DEF Tick, net, IInv, TypeOK
  <2>2. ASSUME NEW s \in Servers, Crash(s)
        PROVE  link' \in [Conns -> {"none", "up", "cut", "gone"}] /\ inbox' = inbox
    BY <2>2 DEF Crash, IInv, TypeOK
  <2>3. ASSUME NEW s \in Servers, Start(s)
        PROVE  /\ link' \in [Conns -> {"none", "up", "cut", "gone"}]
               /\ inbox' \in [Conns -> Seq(Msgs)]
    <3>1. Register \in Msgs
      BY DEF Register, Msgs
    <3>2. <<Register>> \in Seq(Msgs)
      BY <3>1
    <3> QED
      BY <2>3, <3>2 DEF Start, IInv, TypeOK
  <2> QED
    BY <2>1, <2>2, <2>3 DEF World, IInv, TypeOK
<1>5. client' \in [Clients -> ClientStates] /\ Served'
  <2>1. CASE client' = client
    BY <2>1 DEF IInv, TypeOK, Served
  <2>2. ASSUME NEW s \in Servers, Crash(s)
        PROVE  client' \in [Clients -> ClientStates] /\ Served'
    BY <2>2 DEF Crash, IInv, TypeOK, Served
  <2> QED
    BY <2>1, <2>2 DEF World, Tick, Start
<1>6. TypeOK'
  BY <1>1, <1>2, <1>3, <1>4, <1>5 DEF IInv, TypeOK, nm, tasks
<1>7. Tasked' /\ Aimed' /\ Carried' /\ ReplicasApart' /\ ReplicasHold'
  BY <1>1 DEF IInv, Tasked, Aimed, Carried, ReplicasApart, ReplicasHold, nm, tasks
<1> QED
  BY <1>5, <1>6, <1>7 DEF IInv

\* The invariant is inductive.
LEMMA NextKeeps == IInv /\ [Next]_vars => IInv'
<1> SUFFICES ASSUME IInv, [Next]_vars PROVE IInv'
  OBVIOUS
<1>1. CASE UNCHANGED vars
  BY <1>1 DEF vars, nm, ss, net, IInv, TypeOK, Tasked, Aimed, Carried, Served,
     ReplicasApart, ReplicasHold
<1>2. CASE replication_worker
  BY <1>2, WorkerKeeps, SyncKeeps, EndKeeps DEF replication_worker
<1> QED
  BY <1>1, <1>2, PeerKeeps, SchedulingKeeps, ClientKeeps, WorldKeeps DEF Next

\* Every reachable state satisfies the inductive invariant.
THEOREM Invariance == Spec => []IInv
<1>1. Init => IInv
  BY InitKeeps
<1>2. IInv /\ [Next]_vars => IInv'
  BY NextKeeps
<1> QED
  BY <1>1, <1>2, PTL DEF Spec

\* The file table of the name manager names existing servers only, for any
\* number of servers, files, clients and crashes.
THEOREM TypeCorrect == Spec => []TypeOK
<1>1. IInv => TypeOK
  BY DEF IInv
<1> QED
  BY <1>1, Invariance, PTL

\* Primary and backup of a file are never the same server, whatever the order
\* of failovers, lookups and completions of the replication worker.
THEOREM Apart == Spec => []ReplicasApart
<1>1. IInv => ReplicasApart
  BY DEF IInv
<1> QED
  BY <1>1, Invariance, PTL

\* A server that has no copy of a file is never its primary or its backup:
\* failover never promotes a server that lacks the document.
THEOREM Held == Spec => []ReplicasHold
<1>1. IInv => ReplicasHold
  BY DEF IInv
<1> QED
  BY <1>1, Invariance, PTL

(***************************************************************************)
(* For every number of servers, files, clients and changes: while no       *)
(* server crashes, no call fails and no document is changed twice within a *)
(* second, no change is lost on its way to the backup.  Without any one of *)
(* the three conditions TLC finds a behaviour in which one is.             *)
(*                                                                         *)
(* The argument follows a change through the name manager.  As long as the *)
(* copies of a file differ, or the worker carries a text that the primary  *)
(* has replaced since, either the report of the last change is on its way  *)
(* and still news to the name manager (Coming), or a task for the file has *)
(* yet to fetch its text (Queued).  Coming turns into Queued when the      *)
(* report is received, because reports arrive in the order of their times  *)
(* (Ordered), so no later report can hide it.                              *)
(***************************************************************************)

Untroubled == MaxCrashes = 0 /\ ~SameSecond /\ ~CallsMayFail

\* The connection of the server that holds every file at the start.
Origin == <<0, 0>>

\* No server is lost, so that server stays the primary of every file and the
\* first of the others is the only backup there can be.
Calm ==
    /\ \A s \in Servers : online[s] /\ alive[s] /\ life[s] = 0
    /\ \A c \in Conns : link[c] = "up" /\ (c # Origin => inbox[c] = <<>>)
    /\ \A f \in Files : primary[f] = 0 /\ backup[f] \in {NoServer, 1}

FromTo(task) == task.primary = 0 /\ (task.assign \/ task.backup = 1)

Directed ==
    /\ \A i \in DOMAIN queue : FromTo(queue[i])
    /\ \A p \in pending : p.call = "push" => FromTo(p.task)
    /\ worker.pc # "idle" => FromTo(worker.task)
    /\ worker.pc \in {"ticket", "fetch", "store", "done"} => worker.target = 1
    /\ worker.pc \notin {"failed", "try", "push"}
    /\ \A k \in Clients :
          /\ client[k].pc \in {"ticket", "session", "notify"} => client[k].server = 0
          /\ client[k].pc # "again"

\* Reports are received in the order of the changes they are about.
Ordered ==
    /\ \A f \in Files : modified[f] <= stamp[0][f]
    /\ \A i \in DOMAIN inbox[Origin] :
          LET m == inbox[Origin][i] IN
          /\ m.type = "SS_FILE_UPDATE"
          /\ modified[m.file] <= m.modified
          /\ m.modified <= stamp[0][m.file]
          /\ \A j \in DOMAIN inbox[Origin] :
                i <= j /\ inbox[Origin][j].file = m.file => m.modified <= inbox[Origin][j].modified

\* The worker has fetched the text and has not recorded the backup yet.
Carrying(f) == worker.pc \in {"store", "done"} /\ worker.task.file = f

\* The backup has, or is about to be given, the document of the primary.
Fresh(f) == IF worker.pc = "store" /\ worker.task.file = f
            THEN worker.text = copy[0][f] ELSE copy[1][f] = copy[0][f]

\* A task for the file has yet to fetch the text.
Queued(f) ==
    \/ \E p \in pending : p.call = "push" /\ p.task.file = f
    \/ \E i \in DOMAIN queue : queue[i].file = f
    \/ worker.pc \in {"primary", "target", "ticket", "fetch"} /\ worker.task.file = f

Reported(f) ==
    \/ \E i \in DOMAIN inbox[Origin] : inbox[Origin][i] = Update(f, stamp[0][f])
    \/ \E k \in Clients : client[k].pc = "notify" /\ client[k].file = f

\* The name manager does not know of the last change, and will be told.
Coming(f) == modified[f] # stamp[0][f] /\ Reported(f)

Tracked(f) == backup[f] # NoServer \/ Carrying(f) => Fresh(f) \/ Queued(f) \/ Coming(f)

Synced == \A f \in Files : Tracked(f)

SInv == Calm /\ Directed /\ Ordered /\ Synced

\* What the conditions and the types say of server 0 and its connection.
LEMMA Known ==
    ASSUME Untroubled, IInv, Calm
    PROVE  /\ 0 \in Servers /\ Origin \in Conns
           /\ \A c \in Conns : c = <<c[1], 0>> /\ c[1] \in Servers
           /\ \A s \in Servers : Conn(s) = <<s, 0>> /\ Conn(s) \in Conns
           /\ Conn(0) = Origin
           /\ inbox[Origin] \in Seq(Msgs)
           /\ \A f \in Files : stamp[0][f] \in Nat /\ modified[f] \in Nat
           /\ NoServer # 1 /\ NoServer # 0 /\ NoServer \notin Servers
<1>1. 0 \in Servers /\ NoServer \notin Servers
  BY ReplicationAssumption DEF Servers, NoServer
<1>2. Origin \in Conns /\ \A c \in Conns : c = <<c[1], 0>> /\ c[1] \in Servers
  BY <1>1 DEF Untroubled, Conns, Origin
<1>3. \A s \in Servers : Conn(s) = <<s, 0>> /\ Conn(s) \in Conns
  BY <1>1 DEF Calm, Conn, Conns, Untroubled
<1>4. Conn(0) = Origin
  BY <1>1, <1>3 DEF Origin
<1>5. inbox[Origin] \in Seq(Msgs)
  BY <1>2 DEF IInv, TypeOK
<1>6. \A f \in Files : stamp[0][f] \in Nat /\ modified[f] \in Nat
  BY <1>1 DEF IInv, TypeOK
<1> QED
  BY <1>1, <1>2, <1>3, <1>4, <1>5, <1>6 DEF NoServer

\* At the start every file has one copy and one pending assignment.
LEMMA SyncInit == ASSUME Untroubled, Init PROVE SInv
<1> USE ReplicationAssumption
<1>1. IInv
  BY InitKeeps
<1>2. 0 \in Servers /\ NoServer \notin Servers
  BY DEF Servers, NoServer
<1>3. Calm
  BY <1>2 DEF Init, Calm, Conns, Untroubled, Origin
<1>4. inbox[Origin] = <<>>
  BY <1>1, <1>3, Known DEF Init
<1>5. Ordered
  BY <1>2, <1>4 DEF Init, Ordered
<1>6. Directed
  <2>1. \A p \in pending : p.call = "try"
    <3>1. pending = {Try(<<N - 1, 0>>, f) : f \in Files}
      BY DEF Init
    <3>2. \A f \in Files : Try(<<N - 1, 0>>, f).call = "try"
      BY DEF Try
    <3> QED
      BY <3>1, <3>2
  <2>2. worker.pc = "idle" /\ \A k \in Clients : client[k].pc = "idle"
    BY IdleTypes DEF Init
  <2>3. queue = <<>>
    BY DEF Init
  <2> QED
    BY <2>1, <2>2, <2>3 DEF Directed
<1>7. Synced
  BY IdleTypes DEF Init, Synced, Tracked, Carrying
<1> QED
  BY <1>3, <1>5, <1>6, <1>7 DEF SInv

\* A report is received (handle_ss_file_update).  If it is the one that is
\* news, a task is made; if not, the one that is news comes later.
LEMMA ReceiveKeeps ==
    ASSUME Untroubled, IInv, SInv, NEW c \in Conns, handle_ss_file_update(c)
    PROVE  SInv'
<1> DEFINE box == inbox[Origin]
           m == box[1]
           f == m.file
<1> USE Known DEF SInv
<1>1. c = Origin /\ box # <<>> /\ m = Head(box) /\ 1 \in DOMAIN box
  BY DEF handle_ss_file_update, Calm
<1>2. f \in Files /\ m.modified \in Nat /\ m.type = "SS_FILE_UPDATE"
  <2>1. m \in Msgs
    BY <1>1
  <2>2. m.type = "SS_FILE_UPDATE"
    BY <1>1 DEF handle_ss_file_update
  <2> QED
    BY <2>1, <2>2 DEF Msgs
<1>3. inbox' = [inbox EXCEPT ![Origin] = Tail(box)] /\ inbox'[Origin] = Tail(box)
  BY <1>1 DEF handle_ss_file_update, IInv, TypeOK
<1>4. /\ \A i \in DOMAIN Tail(box) : i \in Nat /\ i >= 1 /\ i + 1 \in DOMAIN box /\ Tail(box)[i] = box[i + 1]
      /\ \A i \in DOMAIN box : i # 1 => i - 1 \in DOMAIN Tail(box) /\ Tail(box)[i - 1] = box[i]
  BY <1>1
<1>5. modified' = [modified EXCEPT ![f] = m.modified]
  BY <1>1 DEF handle_ss_file_update
<1>6. modified'[f] = m.modified /\ \A g \in Files \ {f} : modified'[g] = modified[g]
  BY <1>2, <1>5 DEF IInv, TypeOK
<1>7. UNCHANGED <<online, primary, backup, queue, worker, alive, life, copy, stamp, link, client>>
  BY <1>1 DEF handle_ss_file_update, ss
<1>8. Calm'
  BY <1>1, <1>3, <1>7 DEF Calm, IInv, TypeOK
<1>9. Ordered'
  <2>1. \A g \in Files : modified'[g] <= stamp'[0][g]
    BY <1>1, <1>2, <1>6, <1>7 DEF Ordered
  <2>2. ASSUME NEW i \in DOMAIN Tail(box)
        PROVE  LET n == Tail(box)[i] IN
               /\ n.type = "SS_FILE_UPDATE"
               /\ modified'[n.file] <= n.modified
               /\ n.modified <= stamp'[0][n.file]
               /\ \A j \in DOMAIN Tail(box) :
                     i <= j /\ Tail(box)[j].file = n.file => n.modified <= Tail(box)[j].modified
    <3> DEFINE n == box[i + 1]
    <3>1. i + 1 \in DOMAIN box /\ Tail(box)[i] = n /\ n \in Msgs /\ i \in Nat
      BY <1>4
    <3>2. n.type = "SS_FILE_UPDATE" /\ n.modified <= stamp[0][n.file]
          /\ modified[n.file] <= n.modified
          /\ (n.file = f => m.modified <= n.modified)
      BY <3>1, <1>1 DEF Ordered
    <3>3. n.file \in Files
      BY <3>1, <3>2 DEF Msgs
    <3>4. modified'[n.file] <= n.modified
      BY <3>2, <3>3, <1>6
    <3>5. ASSUME NEW j \in DOMAIN Tail(box), i <= j, Tail(box)[j].file = n.file
          PROVE  n.modified <= Tail(box)[j].modified
      <4>1. j + 1 \in DOMAIN box /\ Tail(box)[j] = box[j + 1] /\ j \in Nat /\ i + 1 <= j + 1
        BY <1>4, <3>1, <3>5
      <4> QED
        BY <3>1, <3>5, <4>1 DEF Ordered
    <3> QED
      BY <3>1, <3>2, <3>4, <3>5, <1>7
  <2>3. DOMAIN inbox'[Origin] = DOMAIN Tail(box)
        /\ \A i \in DOMAIN Tail(box) : inbox'[Origin][i] = Tail(box)[i]
    BY <1>3
  <2> HIDE DEF box
  <2> QED
    BY ONLY <2>1, <2>2, <2>3 DEF Ordered
<1>10. /\ pending \subseteq pending'
       /\ \A p \in pending' \ pending : p.call = "push" /\ FromTo(p.task)
       /\ m.modified # modified[f] /\ backup[f] # NoServer
            => \E p \in pending' : p.call = "push" /\ p.task.file = f
       /\ backup[f] = NoServer /\ has_backup_candidate(0)
            => \E p \in pending' : p.call = "push" /\ p.task.file = f
  <2> DEFINE sync == Push(c, Task(f, primary[f], backup[f], FALSE))
             assign == Push(c, Task(f, primary[f], NoServer, TRUE))
  <2>1. primary[f] = 0 /\ (backup[f] # NoServer => backup[f] = 1)
    BY <1>2 DEF Calm
  <2>2. pending' = CASE m.modified # modified[f] /\ backup[f] # NoServer -> pending \cup {sync}
                     [] backup[f] = NoServer /\ primary[f] # NoServer
                          /\ has_backup_candidate(primary[f]) -> pending \cup {assign}
                     [] OTHER -> pending
    BY <1>1 DEF handle_ss_file_update
  <2>3. sync.call = "push" /\ sync.task.file = f /\ (backup[f] # NoServer => FromTo(sync.task))
        /\ assign.call = "push" /\ assign.task.file = f /\ FromTo(assign.task)
    BY <2>1 DEF Push, Task, FromTo
  <2> HIDE DEF sync, assign
  <2>4. CASE m.modified # modified[f] /\ backup[f] # NoServer
    BY <2>2, <2>3, <2>4
  <2>5. CASE backup[f] = NoServer /\ has_backup_candidate(0)
    <3>1. pending' = pending \cup {assign}
      BY <2>1, <2>2, <2>5
    <3> QED
      BY <3>1, <2>3, <2>5
  <2>6. CASE /\ ~(m.modified # modified[f] /\ backup[f] # NoServer)
             /\ ~(backup[f] = NoServer /\ has_backup_candidate(0))
    BY <2>1, <2>2, <2>6
  <2> QED
    BY <2>4, <2>5, <2>6
<1>11. Directed'
  BY <1>7, <1>10 DEF Directed
<1>12. ASSUME NEW g \in Files, Tracked(g) PROVE Tracked(g)'
  <2>1. SUFFICES ASSUME backup[g] # NoServer \/ Carrying(g), Coming(g), ~Queued(g)'
                 PROVE  Coming(g)'
    BY <1>7, <1>10, <1>12 DEF Tracked, Carrying, Fresh, Queued
  <2>2. modified[g] # stamp[0][g] /\ stamp' = stamp /\ client' = client
    BY <2>1, <1>7 DEF Coming
  <2>3. ~(g = f /\ m.modified = stamp[0][f])
    <3>1. SUFFICES ASSUME g = f, m.modified = stamp[0][f] PROVE FALSE
      OBVIOUS
    <3>2. Carrying(g) => has_backup_candidate(0)
      <4>1. SUFFICES ASSUME Carrying(g) PROVE has_backup_candidate(0)
        OBVIOUS
      <4>2. worker.target = 1 /\ worker.target \in Servers
        BY <4>1 DEF Carrying, Directed, IInv, Aimed
      <4> QED
        BY <4>2 DEF has_backup_candidate, Calm
    <3>3. \E p \in pending' : p.call = "push" /\ p.task.file = g
      BY <3>1, <3>2, <2>1, <2>2, <1>10
    <3> QED
      BY <3>3, <2>1 DEF Queued
  <2>4. modified'[g] # stamp'[0][g]
    BY <1>6, <2>2, <2>3
  <2>5. Reported(g)'
    <3>1. CASE \E k \in Clients : client[k].pc = "notify" /\ client[k].file = g
      BY <3>1, <2>2 DEF Reported
    <3>2. ASSUME NEW i \in DOMAIN box, box[i] = Update(g, stamp[0][g]) PROVE Reported(g)'
      <4>1. i # 1
        BY <3>2, <2>3 DEF Update
      <4>2. i - 1 \in DOMAIN Tail(box) /\ Tail(box)[i - 1] = Update(g, stamp[0][g])
        BY <4>1, <3>2, <1>4
      <4>3. inbox'[Origin][i - 1] = Update(g, stamp'[0][g]) /\ i - 1 \in DOMAIN inbox'[Origin]
        BY <4>2, <1>3, <2>2
      <4> QED
        BY <4>3 DEF Reported, Update
    <3> QED
      BY <3>1, <3>2, <2>1 DEF Coming, Reported
  <2> QED
    BY <2>4, <2>5 DEF Coming
<1> QED
  BY <1>8, <1>9, <1>11, <1>12 DEF Synced

\* What only the worker, the queue and the pending calls can change: the rest
\* of the invariant stays.
LEMMA TasksFrame ==
    ASSUME SInv, UNCHANGED <<nm, ss, net, client>>
    PROVE  /\ Calm' /\ Ordered'
           /\ \A f \in Files : Coming(f) => Coming(f)'
<1>1. Calm'
  BY DEF SInv, Calm, nm, ss, net
<1>2. Ordered'
  BY DEF SInv, Ordered, nm, ss, net
<1>3. \A f \in Files : Coming(f) => Coming(f)'
  BY DEF Coming, Reported, nm, ss, net
<1> QED
  BY <1>1, <1>2, <1>3

\* Scheduling a task keeps the file in the queue (schedule_replication): one
\* that is not queued again has an equal in the queue.
LEMMA ScheduleHolds ==
    ASSUME queue \in Seq(Tasks), NEW task \in Tasks, schedule_replication(task)
    PROVE  /\ queue' \in Seq(Tasks)
           /\ \A i \in DOMAIN queue : i \in DOMAIN queue' /\ queue'[i] = queue[i]
           /\ \A i \in DOMAIN queue' : i \in DOMAIN queue \/ queue'[i] = task
           /\ \E i \in DOMAIN queue' : queue'[i].file = task.file
<1>1. CASE queue' = Append(queue, task)
  <2>1. Len(queue) + 1 \in DOMAIN queue' /\ queue'[Len(queue) + 1] = task
    BY <1>1
  <2> QED
    BY <1>1, <2>1
<1>2. CASE queue' = queue /\ \E i \in DOMAIN queue : queue[i].file = task.file
  BY <1>2
<1> QED
  BY <1>1, <1>2 DEF schedule_replication

\* A thread looks at a file for try_assign_backup, or queues its task.
LEMMA SchedulingSync == ASSUME Untroubled, IInv, SInv, SchedulingThread PROVE SInv'
<1> USE DEF SInv
<1>1. PICK p \in pending : TryAssign(p) \/ Schedule(p)
  BY DEF SchedulingThread
<1>2. UNCHANGED <<nm, worker, ss, net, client>>
  BY <1>1 DEF TryAssign, Schedule
<1>3. Calm' /\ Ordered' /\ \A f \in Files : Coming(f) => Coming(f)'
  BY <1>2, TasksFrame
<1>4. p \in Calls /\ p.task \in Tasks /\ p.task.file \in Files
  BY DEF IInv, TypeOK, Calls, Tasks
<1>5. Directed' /\ \A f \in Files : Queued(f) => Queued(f)'
  <2>1. CASE TryAssign(p)
    <3> DEFINE f == p.task.file
               new == Push(p.conn, Task(f, primary[f], NoServer, TRUE))
    <3>1. new.call = "push" /\ FromTo(new.task)
      BY <1>4 DEF Calm, Push, Task, FromTo
    <3>2. queue' = queue /\ p.call = "try"
          /\ (pending' = (pending \ {p}) \cup {new} \/ pending' = (pending \ {p}) \cup {})
      BY <2>1 DEF TryAssign
    <3> HIDE DEF new
    <3>3. \A q \in pending' : q \in pending \/ q = new
      BY <3>2
    <3>4. \A q \in pending : q.call = "push" => q \in pending'
      BY <3>2
    <3>5. Directed'
      BY <1>2, <3>1, <3>2, <3>3 DEF Directed
    <3>6. \A g \in Files : Queued(g) => Queued(g)'
      BY <1>2, <3>2, <3>4 DEF Queued
    <3> QED
      BY <3>5, <3>6
  <2>2. CASE Schedule(p)
    <3>1. p.call = "push" /\ FromTo(p.task) /\ pending' = pending \ {p}
          /\ schedule_replication(p.task) /\ queue \in Seq(Tasks)
      BY <2>2 DEF Schedule, Directed, IInv, TypeOK
    <3>2. /\ \A i \in DOMAIN queue : i \in DOMAIN queue' /\ queue'[i] = queue[i]
          /\ \A i \in DOMAIN queue' : i \in DOMAIN queue \/ queue'[i] = p.task
          /\ \E i \in DOMAIN queue' : queue'[i].file = p.task.file
      BY <3>1, <1>4, ScheduleHolds
    <3>3. Directed'
      BY <1>2, <3>1, <3>2 DEF Directed
    <3>4. \A g \in Files : Queued(g) => Queued(g)'
      BY <1>2, <3>1, <3>2 DEF Queued
    <3> QED
      BY <3>3, <3>4
  <2> QED
    BY <1>1, <2>1, <2>2
<1>6. Synced'
  BY <1>2, <1>3, <1>5 DEF Synced, Tracked, Carrying, Fresh, nm, ss
<1> QED
  BY <1>3, <1>5, <1>6

\* The worker takes a task, checks it and asks for a ticket: a task that is
\* dropped is one for a file that has no backup to bring up to date.
LEMMA WorkerSync ==
    ASSUME Untroubled, IInv, SInv, TakeTask \/ CheckPrimary \/ PickTarget \/ ReplicationTicket
    PROVE  SInv'
<1> USE Known DEF SInv
<1>0. UNCHANGED <<nm, pending, ss, net, client>>
  BY DEF TakeTask, CheckPrimary, PickTarget, ReplicationTicket
<1>1. Calm' /\ Ordered' /\ \A f \in Files : Coming(f) => Coming(f)'
  BY <1>0, TasksFrame
<1>2. worker.pc \notin {"store", "done"} /\ worker.task \in Tasks /\ worker.task.file \in Files
  BY DEF TakeTask, CheckPrimary, PickTarget, ReplicationTicket, IInv, TypeOK, Workers, Tasks
<1>3. ASSUME Directed', worker'.pc \notin {"store", "done"},
             \A f \in Files : backup[f] # NoServer /\ Queued(f) => Queued(f)'
      PROVE  SInv'
  <2>1. Synced'
    BY <1>0, <1>1, <1>2, <1>3 DEF Synced, Tracked, Carrying, Fresh, nm, ss
  <2> QED
    BY <1>1, <1>3, <2>1
<1>4. CASE TakeTask
  <2>1. worker.pc = "idle" /\ queue # <<>> /\ queue \in Seq(Tasks) /\ queue' = Tail(queue)
    BY <1>4 DEF TakeTask, IInv, TypeOK
  <2>2. worker'.pc = "primary" /\ worker'.task = queue[1]
    BY <1>4, <2>1 DEF TakeTask, Work
  <2>3. /\ 1 \in DOMAIN queue
        /\ \A i \in DOMAIN queue' : i + 1 \in DOMAIN queue /\ queue'[i] = queue[i + 1]
        /\ \A i \in DOMAIN queue : i # 1 => i - 1 \in DOMAIN queue' /\ queue'[i - 1] = queue[i]
    BY <2>1
  <2>4. Directed'
    BY <1>0, <2>2, <2>3 DEF Directed
  <2>5. \A f \in Files : Queued(f) => Queued(f)'
    BY <1>0, <2>1, <2>2, <2>3 DEF Queued
  <2> QED
    BY <1>3, <2>2, <2>4, <2>5
<1>5. CASE CheckPrimary
  <2>1. worker.pc = "primary" /\ FromTo(worker.task) /\ queue' = queue
    BY <1>5 DEF CheckPrimary, Directed
  <2>2. primary[worker.task.file] = worker.task.primary
    BY <1>2, <2>1 DEF FromTo, Calm
  <2>3. worker'.pc = "target" /\ worker'.task = worker.task
    BY <1>5, <2>2 DEF CheckPrimary, Work
  <2>4. Directed' /\ \A f \in Files : Queued(f) => Queued(f)'
    BY <1>0, <2>1, <2>3 DEF Directed, Queued
  <2> QED
    BY <1>3, <2>3, <2>4
<1>6. CASE PickTarget
  <2> DEFINE task == worker.task
             available == {s \in Servers \ {task.primary} : online[s]}
  <2>1. worker.pc = "target" /\ FromTo(task) /\ queue' = queue
    BY <1>6 DEF PickTarget, Directed
  <2>2. available = Servers \ {0}
    BY <2>1 DEF FromTo, Calm
  <2>3. ASSUME worker'.pc = "ticket", worker'.task = task, worker'.target = 1  PROVE SInv'
    <3>1. Directed' /\ \A f \in Files : Queued(f) => Queued(f)'
      BY <1>0, <2>1, <2>3 DEF Directed, Queued
    <3> QED
      BY <1>3, <2>3, <3>1
  <2>4. ASSUME worker' = IdleWorker, backup[task.file] = NoServer  PROVE SInv'
    <3>1. worker'.pc = "idle"
      BY <2>4, IdleTypes
    <3>2. Directed' /\ \A f \in Files : backup[f] # NoServer /\ Queued(f) => Queued(f)'
      BY <1>0, <2>1, <2>4, <3>1 DEF Directed, Queued
    <3> QED
      BY <1>3, <3>1, <3>2
  <2>5. ASSUME NEW first \in available, \A s \in available : first <= s,
               Work("ticket", task, first, NoCopy)
        PROVE  SInv'
    <3>1. first = 1
      <4>1. first \in Nat \ {0} /\ 1 \in Servers
        BY <2>2, <2>5, ReplicationAssumption DEF Servers
      <4> QED
        BY <4>1, <2>2, <2>5
    <3> QED
      BY <2>3, <2>5, <3>1 DEF Work
  <2>6. CASE ~task.assign /\ Work("ticket", task, task.backup, NoCopy)
    BY <2>1, <2>3, <2>6 DEF FromTo, Work
  <2>7. CASE /\ worker' = IdleWorker
             /\ IF task.assign THEN available = {} ELSE backup[task.file] # task.backup
    <3>1. backup[task.file] \in {NoServer, 1} /\ backup[task.file] \in Servers \cup {NoServer}
      BY <1>2 DEF Calm, IInv, TypeOK
    <3>2. backup[task.file] = NoServer
      BY <2>1, <2>2, <2>7, <3>1 DEF FromTo
    <3> QED
      BY <2>4, <2>7, <3>2
  <2> HIDE DEF available
  <2>8. \/ \E first \in available : (\A s \in available : first <= s) /\ Work("ticket", task, first, NoCopy)
        \/ ~task.assign /\ Work("ticket", task, task.backup, NoCopy)
        \/ /\ worker' = IdleWorker
           /\ IF task.assign THEN available = {} ELSE backup[task.file] # task.backup
    BY <1>6 DEF PickTarget, available
  <2> QED
    BY <2>5, <2>6, <2>7, <2>8
<1>7. CASE ReplicationTicket
  <2>1. worker.pc = "ticket" /\ FromTo(worker.task) /\ worker.target = 1 /\ 1 \in Servers
        /\ queue' = queue
    BY <1>7 DEF ReplicationTicket, Directed, IInv, Aimed
  <2>2. worker'.pc = "fetch" /\ worker'.task = worker.task /\ worker'.target = 1
    BY <1>7, <2>1 DEF ReplicationTicket, Work, Calm, FromTo, Untroubled
  <2>3. Directed' /\ \A f \in Files : Queued(f) => Queued(f)'
    BY <1>0, <2>1, <2>2 DEF Directed, Queued
  <2> QED
    BY <1>3, <2>2, <2>3
<1> QED
  BY <1>4, <1>5, <1>6, <1>7

\* A report carries the time of the last change, so it keeps the order of the
\* reports and is itself the one to wait for.
LEMMA ReportKeeps ==
    ASSUME Untroubled, IInv, SInv, NEW f \in Files,
           inbox' = [inbox EXCEPT ![Origin] = Append(@, Update(f, stamp[0][f]))],
           UNCHANGED <<nm, ss, link>>
    PROVE  /\ Calm' /\ Ordered'
           /\ \E i \in DOMAIN inbox'[Origin] : inbox'[Origin][i] = Update(f, stamp[0][f])
           /\ \A i \in DOMAIN inbox[Origin] :
                 i \in DOMAIN inbox'[Origin] /\ inbox'[Origin][i] = inbox[Origin][i]
<1> DEFINE box == inbox[Origin]
           new == Update(f, stamp[0][f])
<1> USE Known DEF SInv
<1>1. new \in Msgs /\ new.type = "SS_FILE_UPDATE" /\ new.file = f /\ new.modified = stamp[0][f]
  BY DEF Update, Msgs
<1>2. inbox'[Origin] = Append(box, new) /\ \A c \in Conns : c # Origin => inbox'[c] = inbox[c]
  BY DEF IInv, TypeOK
<1> HIDE DEF new
<1>3. /\ \A i \in DOMAIN box : i \in DOMAIN inbox'[Origin] /\ inbox'[Origin][i] = box[i]
      /\ Len(box) + 1 \in DOMAIN inbox'[Origin] /\ inbox'[Origin][Len(box) + 1] = new
      /\ \A i \in DOMAIN inbox'[Origin] : i \in Nat /\ (i \in DOMAIN box \/ i = Len(box) + 1)
      /\ \A i \in DOMAIN box : i < Len(box) + 1
  BY <1>1, <1>2
<1>4. Calm'
  BY <1>2 DEF Calm, nm, ss
<1>5. modified' = modified /\ stamp' = stamp
  BY DEF nm, ss
<1>6. ASSUME NEW i \in DOMAIN inbox'[Origin]
      PROVE  LET m == inbox'[Origin][i] IN
             /\ m.type = "SS_FILE_UPDATE"
             /\ modified[m.file] <= m.modified
             /\ m.modified <= stamp[0][m.file]
             /\ \A j \in DOMAIN inbox'[Origin] :
                   i <= j /\ inbox'[Origin][j].file = m.file => m.modified <= inbox'[Origin][j].modified
  <2>1. CASE i \in DOMAIN box
    <3>1. inbox'[Origin][i] = box[i] /\ box[i].type = "SS_FILE_UPDATE"
          /\ modified[box[i].file] <= box[i].modified /\ box[i].modified <= stamp[0][box[i].file]
      BY <2>1, <1>3 DEF Ordered
    <3>2. ASSUME NEW j \in DOMAIN inbox'[Origin], i <= j, inbox'[Origin][j].file = box[i].file
          PROVE  box[i].modified <= inbox'[Origin][j].modified
      <4>1. CASE j \in DOMAIN box
        BY <4>1, <3>2, <2>1, <1>3 DEF Ordered
      <4>2. CASE j = Len(box) + 1
        BY <4>2, <3>1, <3>2, <1>1, <1>3
      <4> QED
        BY <4>1, <4>2, <1>3
    <3> QED
      BY <3>1, <3>2
  <2>2. CASE i = Len(box) + 1
    <3>1. inbox'[Origin][i] = new /\ modified[f] <= stamp[0][f] /\ stamp[0][f] \in Nat
      BY <2>2, <1>3 DEF Ordered
    <3>2. \A j \in DOMAIN inbox'[Origin] : i <= j => inbox'[Origin][j] = new
      BY <2>2, <1>3
    <3> QED
      BY <3>1, <3>2, <1>1
  <2> QED
    BY <2>1, <2>2, <1>3
<1>7. Ordered'
  BY ONLY <1>5, <1>6, Ordered DEF Ordered
<1> QED
  BY <1>3, <1>4, <1>7 DEF new

\* The text is fetched: it is the primary's, and the READ is reported.
LEMMA FetchSync == ASSUME Untroubled, IInv, SInv, Fetch PROVE SInv'
<1> USE Known DEF SInv
<1> DEFINE f == worker.task.file
<1>1. worker.pc = "fetch" /\ FromTo(worker.task) /\ worker.target = 1 /\ 1 \in Servers
      /\ f \in Files
  BY DEF Fetch, Directed, IInv, Aimed, TypeOK, Workers, Tasks
<1>2. copy[0][f] # NoCopy
  BY <1>1 DEF IInv, ReplicasHold, Calm
<1>3. alive[0] /\ alive[1] /\ online[1] /\ worker.task.primary = 0
  BY <1>1 DEF Calm, FromTo
<1>4. inbox' = [inbox EXCEPT ![Origin] = Append(@, Update(f, stamp[0][f]))]
  BY <1>1, <1>2, <1>3 DEF Fetch, Untroubled
<1>5. worker'.pc = "store" /\ worker'.task = worker.task /\ worker'.target = 1
      /\ worker'.text = copy[0][f]
  BY <1>1, <1>2, <1>3 DEF Fetch, Work, Untroubled
<1>6. UNCHANGED <<nm, queue, pending, ss, link, client>>
  BY DEF Fetch
<1>7. /\ Calm' /\ Ordered'
      /\ \A i \in DOMAIN inbox[Origin] :
            i \in DOMAIN inbox'[Origin] /\ inbox'[Origin][i] = inbox[Origin][i]
  BY <1>1, <1>4, <1>6, ReportKeeps
<1>8. Directed'
  BY <1>1, <1>5, <1>6 DEF Directed
<1>9. ASSUME NEW g \in Files, Tracked(g) PROVE Tracked(g)'
  <2>1. UNCHANGED <<backup, modified, copy, stamp>>
    BY <1>6 DEF nm, ss
  <2>2. CASE g = f
    <3>1. Fresh(g)'
      BY <2>1, <2>2, <1>5 DEF Fresh
    <3> QED
      BY <3>1 DEF Tracked
  <2>3. CASE g # f
    <3>1. Coming(g) => Coming(g)'
      BY <2>1, <1>6, <1>7 DEF Coming, Reported
    <3>2. (Fresh(g) => Fresh(g)') /\ (Queued(g) => Queued(g)') /\ (Carrying(g)' => Carrying(g))
      BY <2>1, <2>3, <1>1, <1>5, <1>6 DEF Fresh, Queued, Carrying
    <3> QED
      BY <3>1, <3>2, <2>1, <1>9 DEF Tracked
  <2> QED
    BY <2>2, <2>3
<1> QED
  BY <1>7, <1>8, <1>9 DEF Synced

\* The text is stored, and the backup recorded: a text that has been replaced
\* meanwhile was accounted for when it was.
LEMMA StoreSync == ASSUME Untroubled, IInv, SInv, Store \/ Finish PROVE SInv'
<1> USE Known DEF SInv
<1> DEFINE f == worker.task.file
<1>1. worker.pc \in {"store", "done"} /\ FromTo(worker.task) /\ worker.target = 1 /\ 1 \in Servers
      /\ f \in Files
  BY DEF Store, Finish, Directed, IInv, Aimed, TypeOK, Workers, Tasks
<1>2. UNCHANGED <<online, primary, modified, queue, pending, alive, life, net, client>>
  BY DEF Store, Finish, nm, ss, net
<1>3. CASE Store
  <2>1. worker.pc = "store" /\ alive[1] /\ UNCHANGED backup
    BY <1>1, <1>3 DEF Store, Calm, nm
  <2>2. copy' = [copy EXCEPT ![1][f] = worker.text]
        /\ stamp' = [stamp EXCEPT ![1][f] = IF copy[1][f] = NoCopy THEN now ELSE @]
        /\ worker'.pc = "done" /\ worker'.task = worker.task /\ worker'.target = 1
    BY <1>1, <1>3, <2>1 DEF Store, Work, Untroubled
  <2>3. stamp'[0] = stamp[0] /\ copy'[0] = copy[0] /\ copy'[1][f] = worker.text
        /\ \A g \in Files : g # f => copy'[1][g] = copy[1][g]
    BY <1>1, <2>2 DEF IInv, TypeOK
  <2>4. Calm' /\ Ordered' /\ \A g \in Files : Coming(g) => Coming(g)'
    BY <1>2, <2>1, <2>3 DEF Calm, Ordered, Coming, Reported, net
  <2>5. Directed'
    BY <1>1, <1>2, <2>2 DEF Directed
  <2>6. ASSUME NEW g \in Files PROVE (Fresh(g) => Fresh(g)') /\ (Queued(g) => Queued(g)')
                                     /\ (Carrying(g)' => Carrying(g))
    BY <1>1, <1>2, <2>1, <2>2, <2>3 DEF Fresh, Queued, Carrying
  <2>7. Synced'
    BY <2>1, <2>4, <2>6 DEF Synced, Tracked
  <2> QED
    BY <2>4, <2>5, <2>7
<1>4. CASE Finish
  <2>1. worker.pc = "done" /\ worker'.pc = "idle" /\ UNCHANGED <<copy, stamp>>
    BY <1>4, IdleTypes DEF Finish, ss
  <2>2. \A g \in Files : backup'[g] = backup[g] \/ (g = f /\ backup'[g] = 1)
    BY <1>1, <1>4 DEF Finish, IInv, TypeOK
  <2>3. Calm' /\ Ordered' /\ \A g \in Files : Coming(g) => Coming(g)'
    BY <1>2, <2>1, <2>2 DEF Calm, Ordered, Coming, Reported, net
  <2>4. Directed'
    BY <1>2, <2>1 DEF Directed
  <2>5. ASSUME NEW g \in Files PROVE (Fresh(g) => Fresh(g)') /\ (Queued(g) => Queued(g)')
                                     /\ ~Carrying(g)' /\ (g = f => Carrying(g))
    BY <1>1, <1>2, <2>1 DEF Fresh, Queued, Carrying
  <2>6. Synced'
    BY <2>2, <2>3, <2>5 DEF Synced, Tracked
  <2> QED
    BY <2>3, <2>4, <2>6
<1> QED
  BY <1>3, <1>4

\* A document is changed on its primary: the change is later than any the
\* name manager was told of, and the handler will report it.
LEMMA ChangeSync == ASSUME Untroubled, IInv, SInv, NEW k \in Clients, Change(k) PROVE SInv'
<1> USE Known DEF SInv
<1> DEFINE f == client[k].file
<1>1. client[k].pc = "session" /\ client[k].server = 0 /\ f \in Files
  BY DEF Change, Directed, IInv, TypeOK, ClientStates
<1>2. UNCHANGED <<nm, queue, pending, worker, alive, life, net>>
  BY DEF Change, tasks
<1>3. stamp[0][f] < now /\ now \in Nat
  BY <1>1 DEF Change, Untroubled, IInv, TypeOK
<1>4. copy' = [copy EXCEPT ![0][f] = changes + 1] /\ stamp' = [stamp EXCEPT ![0][f] = now]
  BY <1>1 DEF Change
<1>5. /\ stamp'[0][f] = now
      /\ \A g \in Files \ {f} : stamp'[0][g] = stamp[0][g] /\ copy'[0][g] = copy[0][g]
      /\ \A s \in Servers \ {0} : copy'[s] = copy[s]
  BY <1>1, <1>4 DEF IInv, TypeOK
<1>6. client'[k].pc = "notify" /\ client'[k].file = f /\ client'[k].server = 0
      /\ \A j \in Clients \ {k} : client'[j] = client[j]
  BY <1>1 DEF Change, Client, IInv, TypeOK
<1>7. \A g \in Files : stamp[0][g] <= stamp'[0][g] /\ stamp'[0][g] \in Nat
  BY <1>3, <1>5
<1>8. Calm'
  BY <1>2 DEF Calm, nm, net
<1>9. Directed'
  BY <1>2, <1>6 DEF Directed
<1>10. Ordered'
  <2>1. modified' = modified /\ inbox' = inbox
    BY <1>2 DEF nm, net
  <2>2. \A g \in Files : modified'[g] <= stamp'[0][g]
    BY <2>1, <1>7 DEF Ordered
  <2>3. ASSUME NEW i \in DOMAIN inbox[Origin]
        PROVE  LET m == inbox[Origin][i] IN
               /\ m.type = "SS_FILE_UPDATE"
               /\ modified[m.file] <= m.modified
               /\ m.modified <= stamp'[0][m.file]
               /\ \A j \in DOMAIN inbox[Origin] :
                     i <= j /\ inbox[Origin][j].file = m.file
                       => m.modified <= inbox[Origin][j].modified
    <3> DEFINE m == inbox[Origin][i]
    <3>1. m \in Msgs /\ m.type = "SS_FILE_UPDATE" /\ m.modified <= stamp[0][m.file]
      BY DEF Ordered
    <3>2. m.file \in Files /\ m.modified \in Nat
      BY <3>1 DEF Msgs
    <3>3. m.modified <= stamp'[0][m.file]
      BY <3>1, <3>2, <1>7
    <3> QED
      BY <3>3 DEF Ordered
  <2> QED
    BY <2>1, <2>2, <2>3 DEF Ordered
<1>11. ASSUME NEW g \in Files, Tracked(g) PROVE Tracked(g)'
  <2>1. CASE g = f
    <3>1. modified'[g] # stamp'[0][g]
      BY <2>1, <1>1, <1>2, <1>3, <1>5 DEF nm, Ordered
    <3>2. Coming(g)'
      BY <3>1, <2>1, <1>6 DEF Coming, Reported
    <3> QED
      BY <3>2 DEF Tracked
  <2>2. CASE g # f
    <3>1. Coming(g) => Coming(g)'
      <4>1. modified'[g] = modified[g] /\ stamp'[0][g] = stamp[0][g] /\ inbox' = inbox
        BY <2>2, <1>2, <1>5 DEF nm, net
      <4>2. \A j \in Clients : client[j].pc = "notify" => client'[j] = client[j]
        BY <1>1, <1>6
      <4>3. Reported(g) => Reported(g)'
        BY <4>1, <4>2 DEF Reported, Update
      <4> QED
        BY <4>1, <4>3 DEF Coming
    <3>2. Queued(g) => Queued(g)'
      BY <1>2 DEF Queued
    <3>3. ASSUME backup[g] # NoServer \/ Carrying(g)  PROVE Fresh(g) => Fresh(g)'
      <4>1. 1 \in Servers
        <5>1. backup[g] \in {NoServer, 1} /\ backup[g] \in Servers \cup {NoServer}
          BY DEF Calm, IInv, TypeOK
        <5>2. Carrying(g) => worker.target = 1 /\ worker.target \in Servers
          BY DEF Carrying, Directed, IInv, Aimed
        <5> QED
          BY <5>1, <5>2, <3>3
      <4>2. copy'[1][g] = copy[1][g] /\ copy'[0][g] = copy[0][g] /\ worker' = worker
        BY <4>1, <2>2, <1>2, <1>5
      <4> QED
        BY <4>2 DEF Fresh
    <3>4. backup' = backup /\ (Carrying(g)' => Carrying(g))
      BY <1>2 DEF nm, Carrying
    <3> QED
      BY <3>1, <3>2, <3>3, <3>4, <1>11 DEF Tracked
  <2> QED
    BY <2>1, <2>2
<1> QED
  BY <1>8, <1>9, <1>10, <1>11 DEF Synced

\* The handler reports the change it made, or a later one.
LEMMA NotifySync == ASSUME Untroubled, IInv, SInv, NEW k \in Clients, Notify(k) PROVE SInv'
<1> USE Known DEF SInv
<1> DEFINE f == client[k].file
<1>1. client[k].pc = "notify" /\ client[k].server = 0 /\ f \in Files
  BY DEF Notify, Directed, IInv, TypeOK, ClientStates
<1>2. UNCHANGED <<nm, queue, pending, worker, ss, link>>
  BY DEF Notify, tasks
<1>3. inbox' = [inbox EXCEPT ![Origin] = Append(@, Update(f, stamp[0][f]))]
  BY <1>1 DEF Notify
<1>4. /\ Calm' /\ Ordered'
      /\ \E i \in DOMAIN inbox'[Origin] : inbox'[Origin][i] = Update(f, stamp[0][f])
      /\ \A i \in DOMAIN inbox[Origin] :
            i \in DOMAIN inbox'[Origin] /\ inbox'[Origin][i] = inbox[Origin][i]
  BY <1>1, <1>2, <1>3, ReportKeeps
<1>5. client'[k].pc = "idle" /\ \A j \in Clients \ {k} : client'[j] = client[j]
  BY IdleTypes DEF Notify, IInv, TypeOK
<1>6. Directed'
  BY <1>2, <1>5 DEF Directed
<1>7. UNCHANGED <<backup, modified, copy, stamp>>
  BY <1>2 DEF nm, ss
<1>8. ASSUME NEW g \in Files PROVE Coming(g) => Coming(g)'
  <2>1. CASE g = f
    BY <2>1, <1>4, <1>7 DEF Coming, Reported
  <2>2. CASE g # f
    BY <2>2, <1>1, <1>4, <1>5, <1>7 DEF Coming, Reported
  <2> QED
    BY <2>1, <2>2
<1>9. Synced'
  BY <1>2, <1>7, <1>8 DEF Synced, Tracked, Carrying, Fresh, Queued
<1> QED
  BY <1>4, <1>6, <1>9

\* A lookup finds the primary available, and tickets are taken.
LEMMA ClientSync == ASSUME Untroubled, IInv, SInv, ClientThread PROVE SInv'
<1> USE Known DEF SInv
<1>1. PICK k \in Clients : \/ \E f \in Files : Lookup(k, f)
                           \/ issue_ticket(k) \/ Change(k) \/ Notify(k) \/ Leave(k)
  BY DEF ClientThread
<1>2. ASSUME UNCHANGED <<nm, tasks, ss, net>>, client[k].pc # "notify",
             \A j \in Clients \ {k} : client'[j] = client[j],
             client'[k].pc \in {"ticket", "session"} => client'[k].server = 0,
             client'[k].pc \notin {"notify", "again"}
      PROVE  SInv'
  <2>1. Calm' /\ Ordered'
    BY <1>2 DEF Calm, Ordered, nm, ss, net
  <2>2. Directed'
    BY <1>2 DEF Directed, tasks
  <2>3. \A f \in Files : Coming(f) => Coming(f)'
    BY <1>2 DEF Coming, Reported, nm, ss, net
  <2>4. Synced'
    BY <1>2, <2>3 DEF Synced, Tracked, Carrying, Fresh, Queued, nm, ss, tasks
  <2> QED
    BY <2>1, <2>2, <2>4
<1>3. client \in [Clients -> ClientStates]
  BY DEF IInv, TypeOK
<1>4. ASSUME NEW f \in Files, Lookup(k, f) PROVE SInv'
  <2>1. primary[f] = 0 /\ online[0]
    BY DEF Calm
  <2>2. select_storage_server(f) = [server |-> 0, primary |-> primary[f], backup |-> backup[f]]
    BY <2>1 DEF select_storage_server
  <2>3. client[k].pc = "idle"
    BY <1>4 DEF Lookup, Directed
  <2>4. primary' = primary /\ backup' = backup
    BY <1>4, <2>2 DEF Lookup, IInv, TypeOK
  <2>5. client'[k].pc = "ticket" /\ client'[k].server = 0
        /\ \A j \in Clients \ {k} : client'[j] = client[j]
    BY <1>3, <1>4, <2>2 DEF Lookup, Client
  <2>6. UNCHANGED <<nm, tasks, ss, net>>
    BY <1>4, <2>4 DEF Lookup, nm
  <2> QED
    BY <1>2, <2>3, <2>5, <2>6
<1>5. CASE issue_ticket(k)
  <2>1. client[k].pc = "ticket" /\ client[k].server = 0 /\ alive[0] /\ online[0]
    BY <1>5 DEF issue_ticket, Directed, Calm
  <2>2. client'[k].pc = "session" /\ client'[k].server = 0 /\ UNCHANGED online
        /\ \A j \in Clients \ {k} : client'[j] = client[j]
    BY <1>3, <1>5, <2>1 DEF issue_ticket, Client, Untroubled
  <2>3. UNCHANGED <<nm, tasks, ss, net>>
    BY <1>5, <2>2 DEF issue_ticket, nm
  <2> QED
    BY <1>2, <2>1, <2>2, <2>3
<1>6. CASE Leave(k)
  <2>1. client'[k].pc = "idle" /\ \A j \in Clients \ {k} : client'[j] = client[j]
    BY <1>3, <1>6, IdleTypes DEF Leave
  <2> QED
    BY <1>2, <1>6, <2>1 DEF Leave
<1> QED
  BY <1>1, <1>4, <1>5, <1>6, ChangeSync, NotifySync

\* What the conditions exclude never happens: no server registers again, is
\* lost or started, and no call of the worker fails.
LEMMA Excluded ==
    ASSUME Untroubled, IInv, SInv
    PROVE  /\ \A c \in Conns : ~handle_ss_register(c) /\ ~handle_server_disconnect(c)
           /\ \A s \in Servers : ~Crash(s) /\ ~Start(s)
           /\ ~handle_replication_failure /\ ~WorkerTries /\ ~WorkerSchedules
<1> USE Known DEF SInv
<1>1. ASSUME NEW c \in Conns PROVE ~handle_ss_register(c) /\ ~handle_server_disconnect(c)
  <2>1. link[c] = "up"
    BY DEF Calm
  <2>2. ASSUME handle_ss_register(c) PROVE FALSE
    <3>1. c = Origin /\ inbox[Origin] # <<>> /\ Head(inbox[Origin]) = Register
      BY <2>2 DEF handle_ss_register, Calm
    <3>2. 1 \in DOMAIN inbox[Origin] /\ inbox[Origin][1] = Register
      BY <3>1
    <3>3. Register.type = "SS_FILE_UPDATE"
      BY <3>2 DEF Ordered
    <3> QED
      BY <3>3 DEF Register
  <2> QED
    BY <2>1, <2>2 DEF handle_server_disconnect
<1>2. ASSUME NEW s \in Servers PROVE ~Crash(s) /\ ~Start(s)
  BY DEF Crash, Start, Calm, Untroubled
<1>3. ~handle_replication_failure /\ ~WorkerTries /\ ~WorkerSchedules
  BY DEF handle_replication_failure, WorkerTries, WorkerSchedules, Directed
<1> QED
  BY <1>1, <1>2, <1>3

\* The invariant is inductive under the conditions.
LEMMA SyncNext == ASSUME Untroubled, IInv, SInv, [Next]_vars PROVE SInv'
<1>1. ASSUME UNCHANGED <<nm, tasks, ss, net, client>> PROVE SInv'
  BY <1>1 DEF nm, tasks, ss, net, SInv, Calm, Directed, Ordered, Synced, Tracked, Carrying,
     Fresh, Queued, Coming, Reported
<1>2. CASE UNCHANGED vars
  BY <1>1, <1>2 DEF vars, tasks
<1>3. CASE PeerThread
  BY <1>3, Excluded, ReceiveKeeps DEF PeerThread
<1>4. CASE replication_worker
  BY <1>4, Excluded, WorkerSync, FetchSync, StoreSync DEF replication_worker
<1>5. CASE World
  BY <1>1, <1>5, Excluded DEF World, Tick
<1> QED
  BY <1>2, <1>3, <1>4, <1>5, SchedulingSync, ClientSync DEF Next

\* While no server crashes, no call fails and no document is changed twice
\* within a second, the backup of a file has the document of the primary
\* whenever the name manager has nothing left to do: no change is lost to
\* the deduplication of tasks, to a task that was in the worker's hands when
\* the change was made, or to reports of equal times.
THEOREM NoChangeLost == Untroubled => (Spec => []BackupCurrent)
<1> SUFFICES ASSUME Untroubled PROVE Spec => []BackupCurrent
  OBVIOUS
<1>1. Init => SInv
  BY SyncInit
<1>2. IInv /\ SInv /\ [Next]_vars => SInv'
  BY SyncNext
<1>3. IInv /\ SInv => BackupCurrent
  <2> SUFFICES ASSUME IInv, SInv, Quiescent, NEW f \in Files, backup[f] # NoServer
               PROVE  copy[backup[f]][f] = copy[primary[f]][f]
    BY DEF BackupCurrent
  <2>1. primary[f] = 0 /\ backup[f] = 1
    BY DEF SInv, Calm
  <2>2. ~Queued(f)
    BY DEF Quiescent, Queued
  <2>3. inbox[Origin] = <<>>
    BY Known DEF Quiescent, SInv
  <2>4. ~Coming(f)
    BY <2>3 DEF Quiescent, Coming, Reported
  <2>5. Fresh(f)
    BY <2>2, <2>4 DEF SInv, Synced, Tracked
  <2> QED
    BY <2>1, <2>5 DEF Fresh, Quiescent
<1> QED
  BY <1>1, <1>2, <1>3, Invariance, PTL DEF Spec
=============================================================================
