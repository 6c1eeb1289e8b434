# CoWrite: models, checks and proofs

CoWrite is a collaborative editor over a network of three kinds of process: a
**name manager** (NM, `nm/`), **storage servers** (SS, `ss/`) and terminal
**clients** (`client/`). The NM keeps the table of files with their owners,
rights, primary and backup server. Documents live on storage servers and are
edited sentence by sentence: a client opens a WRITE session on one sentence,
sends edits, and commits; the server finds the sentence again in the document
as it is then, and merges. This directory holds TLA+ models of the parts in
which threads, processes and failures meet, the TLC runs that check them on
small instances, and TLAPS proofs for instances of every size.

## 1. Inventory

| Component | State | Operations | What makes it correct | Modelled in |
|---|---|---|---|---|
| Sentence editing (`ss_main.c` 367-751, 2322-2538) | none (pure functions) | split, join, insert, replace, delete, find the baseline by context, merge | a commit replaces one occurrence of its baseline and nothing else | `SentenceText` |
| SS data connections (`ss_main.c` 921-1319), one thread each | a write session per connection; shared: file table, sentence locks, disk | READ, STREAM, WRITE with INSERT, REPLACE, DELETE, COMMIT, ABORT | whole documents only; undo text is the previous document; counts agree; every handler ends | `StorageServer` |
| SS sentence locks (`ss_main.c` 2209-2264) | set of (file, index) | acquire, release | one holder per index, given back by its holder only | `StorageServer`, `SentenceLocks` |
| SS commands from the NM (`ss_main.c` 776-898, 1387-1860), main thread | file table, data, undo, `.meta`, checkpoints | CREATE, DELETE, UNDO, CHECKPOINT, REVERT, SYNC | refused while a write is in progress; restart finds what was stored | `StorageServer` |
| Tickets (`ss_main.c` 900-919, 1459-1479, 2148-2207; `nm_main.c` 512-562, 1454-1549) | a ticket table per server, clocks | issue, store, look up, expire | a ticket given out is honoured until it expires, by one request of its user and kind, and not after | `Access` |
| NM control RPCs (`nm_main.c` 228-274, 453-510, 2684-2745) | one slot per peer: flag, response, mutex, condition | forward_command, receive, teardown | one command outstanding; after a loss all waiters come back | `NmRpc` |
| NM replication and failover (`nm_main.c` 767-836, 1362-1504, 2285-2631) | primary, backup and change time of files; availability of servers; queue of tasks; worker | register, update, disconnect, look up, replicate, assign a backup | replicas on different servers that hold the file; the backup catches up; a lost backup is replaced | `Replication` |
| NM files, create and delete (`nm_main.c` 1167-1326, `nm_state.c`) | file table (an array of slots), hash index, cache | CREATE, DELETE, VIEW, INFO | index and array agree; the two sides agree on which files exist | `FileTable`; the servers' side is not modelled |
| NM access control (`nm_main.c` 838-857, 1551-1774) | owner, grants, requests | ADDACCESS, REMACCESS, REQACCESS, HANDLEREQ | rights on a file come from the owner of that file only | `FileTable` |
| NM users and peers (`nm_main.c` 110-451, 564-580, 767-836, 2591-2745, 2820-2940) | peer slots, one thread per connection, active users | accept, handshake, dispatch, answer, close, reset | names are unique; answers return to who asked; a loss is noticed and cleaned up | `Peers` |
| NM saved state (`nm_state.c` 47-69, 481-686) | a text file | save, load | what was acknowledged is there after a restart | `FileTable` |
| Client (`cli_main.c`) | the command under way, a data connection | READ, STREAM, WRITE; one-message commands; EXIT | the user is told the truth; no command hangs | `Access`, `Peers`; the terminal is not modelled |
| Common library | arrays, JSON, framing, logs | send, receive, connect, close | a failed send is noticed | the failures are steps of `Peers` and `Access`; the rest is not modelled |

How they interact. Clients ask the NM (`LOOKUP`), which picks a server, sends it
a ticket by a control RPC and gives host, port and ticket to the client; the
client then talks to the server directly. The NM sends CREATE, DELETE, UNDO,
checkpoint and SYNC commands to servers by the same control RPC. A server reports
every change (`SS_FILE_UPDATE`) on its control connection. The NM's replication
worker asks the backup to fetch a file from the primary (`NM_SYNC`).

What is hard here: threads of one server share files on disk without a lock;
several NM threads share one RPC slot; servers are lost and come back between
any two steps of failover and replication; threads of the NM find their
connection through slots that are given away and reset; nothing has a timeout; a
send to a closed connection raises SIGPIPE, which no program handles. All hazards,
with their lines and the properties that would catch them, are in
`PROJECT.json`.

## 2. Modules

* `SentenceText`: a text is a sequence of words, a word a base and a number of
  delimiters. White space, and which of `.`, `!`, `?` a delimiter is, are
  abstracted; indices are 0-based as in the protocol.
* `StorageServer` (extends `SentenceText`): one server. A thread per data
  connection (`Clients`) and the main thread (`Main`); `pc[t]` is the place of a
  thread in its handler, `job`, `session` and `buf` its local variables, `fd` what
  its open stream refers to. `table` is the file table, `locks` the sentence lock
  table, `disk`, `tmp`, `meta` and `ckpt` the files. An action is one critical
  section or one system call: `store_text_atomic` is open, write and rename, each
  of which can fail, so two threads can meet on the shared `<path>.tmp`.
  `write_meta_file` fails too where the disk may: nobody looks at its result, and
  the file keeps its old count or is cut. CREATE and DELETE do not fail half way.
  `reply` is what the client was told.
* `SentenceLocks`: the abstract lock service, with holders.
* `NmRpc`: the threads in `forward_command` for one server and that server's
  receiving thread. A wait on the condition variable is a control point of its
  own; `Signal` wakes any one waiter, `Broadcast` all. `down` is the `ctrl_fd` of
  -1 that `nm_mark_server_down` leaves, at a failed call or when the loss is
  processed: new calls are refused, and a caller that has taken the slot sends to
  -1 and fails although the connection is up.
* `Replication`: NM state under `state_lock`, the queue under
  `replication_lock`, the worker and the remote calls, against servers that crash
  and start again. A document is the number of the change that made it.
  `pending` holds what a thread has decided under one lock and will do under the
  next. Connections are numbered, so the loss of an old one can be processed
  after the next has registered.
* `FileTable`: the array of files with the chains of its hash index, owners,
  rights and access requests, and the state file they are saved to. CREATE is
  two steps, the critical section before and the one after its calls to servers;
  DELETE is three, as it saves only after the call to the backup. What servers
  answer is open, and they have no state here. `Restart` ends the process at any
  moment and loads the file. The operators that add, remove and load files map a
  table to a table. `SaveElsewhere` stands for the handlers outside the module
  that save the table as it is.

  DELETE removes the file and saves the table without `state_lock`. When nobody
  comes between, each is one step. It may also be cut (`RemoveCut`, after the file
  was found or after it was taken out of its chain; `SaveCut`, after the table was
  read), then one step of another thread falls in (`Overlap`), and the removal or
  save ends on what it finds (`RemoveEnd`, `SaveEnd`). The history variable `race`
  records this, and `Alone` says that it has not happened. What the overlap does is
  in the model, but the properties are claimed while `Alone` holds: afterwards they
  are false of the code (section 4), and only a restart follows in the model.
  Locked handlers into which an unlocked removal falls are not cut in two.
* `RightsStore`: what the table promises, a map from names to files with a durable
  copy. Slots, chains and lines of the state file do not occur in it; the map is
  `FilesIn(tab)`, the copy `FilesSaved(saved.files)`, which reads the lines and
  not what the load makes of them. Its promise ends with `broken`, which is mapped
  to `~Alone`.
* `Peers`: the NM's connections. `slot` is the array of peers, `thread[c]` the
  thread started for connection `c`, `far[c]` what the other end knows and
  `wire[c]` its message under way. A thread keeps the number of its slot and reads
  the slot at every use, as the code does. `Reset` is the assignment both
  `peer_close` and `peer_reset` make; the history variable `hit` is
  the set of connections whose slot was reset by the thread of another one.
  `AnswersReturn` holds throughout: wrong answers come from the threads in `hit`
  only. `NamesUnique`, `ActiveConnected` and `LossHandled` are about the time
  before `hit` has a member.
* `Access`: READ, STREAM and WRITE from the command typed at a client, through
  the NM's lookup and ticket, to the data connection and back. `cmd[u]` is the
  client of a user with its thread in the NM, `link[u]` its data connection with
  its thread on the server, `table` the ticket tables. Servers have clocks of
  their own (`Skew`). Calls fail before or after they took effect, clients and
  servers end at any point, `BrokenPipe` ends a server that answers a client that
  is gone. `AnswerTooLong` is the commit that was stored and whose answer `send_ok`
  refuses to send, because with its 16 characters more it is longer than the buffer
  (`ss_main.c`:320); `handle_write` ignores this and closes. What a session does to
  the document is in `StorageServer`; here a commit stores or fails. A user has one command at a time, and types the next
  when the last connection is closed on both sides.
* `MCStorageServer`, `MCNmRpc`, `MCFileTable`, `MCAccess`: constants, symmetry
  and a view for TLC. `Replication` and `Peers` are run directly.
* `SentenceTextProofs`, `StorageServerProofs`, `StorageTextProofs`, `NmRpcProofs`,
  `ReplicationProofs`, `FileTableProofs`, `PeersProofs`, `AccessProofs`: theorems about
  the module they are named after. `StorageTextProofs`, on the documents of
  `StorageServer`, builds on `StorageServerProofs` and `SentenceTextProofs`.

Operators whose comment begins with "Wrong variant" (for example
`StoreOpen_in_place`, `release_all`) are deliberate mistakes. No specification
uses them: put in the place of the right operator they must make TLC find the
property they are listed with in `PROJECT.json` violated, which shows that the
property depends on the code.


## 3. Runs

| Run | Question | Instance |
|---|---|---|
| `SsLocks` | Does the lock table list exactly the sessions and implement the lock service, and does the flag never stay up? | 2 connections, 1 file, 2 indices, a crash, a disk that fails |
| `SsCommit` | Are documents whole and is the undo text the previous one, through crashes and full disks? Does a commit change only its sentence, when sessions overlap and commits do not? | 2 connections, 3 indices, sentences added and split |
| `SsRollback` | Is this so through undo, revert, sync, create, delete? Are the counts right? | main thread with all its commands, reads, a disk that works |
| `SsLive` | Does every handler end though threads share temporary files? | 1 connection that replaces and deletes words, main thread, fair |
| `RpcSlot` | Is one command outstanding at most? Do all callers return when the server is lost? | 3 callers, 2 calls each, spurious wake-ups, marked down, loss, fair |
| `ReplSafe` | Are replicas apart and do they hold the file? | 2 servers, each may crash and come back |
| `ReplSync` | Does the backup end with the primary's document? | 3 servers, 2 clients, 3 changes |
| `NmFiles` | Do hash index and array agree, do rights come from the owner, does a restart at any moment give back what was acknowledged, and does all of it implement the map `RightsStore`, as long as nothing comes into an unlocked step of DELETE? | 2 users, 3 names in one bucket, 3 slots |
| `Peers` | Do answers go astray only where a slot was reset by another thread? Until then, are names unique, is the list of users right, is every loss cleaned up? | 3 connections on 2 slots, clients of one name or servers, fair |
| `Access` | Is a ticket honoured until it expires and not after? Is the user told the truth of a commit? Can every waiting process go on? | 2 users, 1 server whose clock is ahead, 2 commands, tickets of one unit, a crash |

The bounds. Two sessions and one file are enough for every conflict the code
knows, as nothing relates two files of a server but the order of its lock table.
Two sentences, and edits that add or split one, give shifted indices, equal
sentences and baselines that are gone. One crash reaches every control point.
Three callers are needed for a slot waiter to be woken while another waits for
its answer and a third arrives. Two servers suffice for failover and
re-registration, three for a choice of backups. Three files in one bucket give
chains with a first, a middle and a last one; that a file is refused when the table
is full needs a fourth name. With four the run also passes (1,440,745 states) but
takes more than five minutes, so the case is left to the theorem `StoreImplemented`. Three connections on two slots give a connection that takes
over a slot, one beside it, and one that finds no slot. Two commands of two users
give a ticket that is left in the table while another is looked up, and with four
values of the clock a ticket of one unit is used before, at and after its end. `MaxEdits`, `MaxWords`,
`MaxCommits`, `MaxCrashes`, `MaxCalls`, `MaxTime`, `MaxChanges`, `MaxInbox`,
`MaxConns` and `MaxCommands` bound counters and appear in guards only;
`MaxFiles`, `MaxAcl`, `MaxRequests` and `MaxPeers` are limits of the code itself,
made small. What a bound leaves out: `SsCommit`
has one commit at a time (`MaxCommits` = 1; `SsMerged` shows what two do) and
clients that insert, `ReplSync` has neither crashes nor failing calls nor two
changes in a second, `SsRefuse` only DELETE of the commands, `ReplSafe` no calls that fail while the server runs (the
theorems cover these), `NmFiles` only the mode W, `Access` one server (the
theorems cover any number) and an answer of STREAM of at most one word.
`SsLocks` and `SsCommit` use the view `CountsAside`: word counts, in memory and in
`.meta`, decide no step and occur in no property of these runs, so states that
differ in them only are taken for one.

Fairness. `StorageServer!FairSpec`, `NmRpc!FairSpec` and `Peers!FairSpec` assume
weak fairness of each thread's own steps (in `Peers` of the accept loop too): the operating system schedules a thread that can run.
Nothing is assumed of clients, of the network, of a server that is to answer, or
of crashes.

Deadlock is not checked where counters run out (`CHECK_DEADLOCK FALSE` in the
`Rpc*`, `Repl*`, `Peers*` and `Access*` configurations and in `SsRefuse`): these systems stop when their
callers and clients have made all calls.

## 4. Where code and documents disagree

These configurations check one sentence of the repository's `README.md` each, the
last one an assumption the code makes by running without a lock, and TLC finds it
violated by what the code does. `SsRefuse` and `AccessPipe` are runs of the project; the others are kept
to be run by hand (`tlc -config SsMerged.cfg MCStorageServer`, and so on with
`MCNmRpc`, `Replication`, `Peers` and `MCFileTable`).

| Configuration | Property | Sentence | What happens |
|---|---|---|---|
| `SsRefuse` | `RollbackRefused` | README:50, rollback refused during a write | one flag per file. A second session, on another sentence, gets its lock and raises the flag, cannot begin, and clears it (`ss_main.c`:1073; a session that ends does the same at 1267): a DELETE is accepted while the first edits |
| `AccessPipe` | `ServersStayUp` | README:48, writers proceed concurrently | the answer to a client that has gone away raises SIGPIPE (`net_proto.c`:20) and ends the server with all sessions on it |
| `SsMerged` | `CommitMerged` | README:49, a commit merges the edit | commits load and store without a lock: an acknowledged edit is lost |
| `RpcFailure` | `FailureMeansDown` | README:143, ERR_UNAVAILABLE | the signal wakes a slot waiter, which frees the response |
| `ReplRestored` | `BackupRestored` | README:42, a backup is restored | a stale queued task (`nm_main.c`:2390) swallows the new one and is dropped |
| `PeersDown` | `DownDetected` | README:42, "the NM detects an SS going down when its control connection drops" | the last reset of a thread (`nm_main.c`:2743) frees the slot its successor has been given; the successor's loss then finds no server in it |
| `NmOverlap` | `OverlapHarmless` | none: the lock that DELETE does not take is not needed | a CREATE that falls into the removal (`nm_main.c`:1311) loses its file; a second DELETE makes the first enter the file it deletes again, with its rights, in a slot behind `file_count` |

SIGPIPE is a matter of all three programs: the name manager ends when a client
leaves with answers outstanding (`Peers!BrokenPipe`), and a client ends when it
sends the WRITE_ABORT that follows a refused commit (`cli_main.c`:551) to a
server that has closed. The check `net_send_json(...) < 0` in every handler shows
that the programs are meant to go on. `NmRpc` has only the failing send, not the
end of the name manager by it.

Other disagreements met while modelling, which have no configuration of their own:

* README:50, "`UNDO` restores the immediately previous version". `UndoIsPrevious` is
  weaker. A commit stores the undo text and then the document; if the second store
  fails, the undo text is the present document, the version before is gone, and
  UNDO changes nothing. The model has this; no property is about it.
* A commit that is stored can be reported as failed although no server ended, when
  its answer has 4080 to 4095 characters (`AnswerTooLong`). `ToldTrue` excuses it.

* README:110, "the sentence is locked". Locks are keyed by index
  (`ss_main.c`:2222) and commits shift indices: a session on sentence 1 and one
  that begins after a commit has put a new sentence before it can edit the same
  sentence under different locks.
* README:49, "the commit returns `ERR_CONFLICT`". `goto commit_fail`
  (`ss_main.c`:670) skips the initialisation of `merged_init`, which line 744
  reads. `CommitConflict` has both outcomes, the answer and a crash.
* README:41, every mutation is replicated. Changes within one second carry the
  same time and `need_sync` (`nm_main.c`:2569) takes the second for known.
  `BackupCurrent` fails with `SameSecond = TRUE`.
* `nm_main.c`:1442, "leave the mapping untouched". `select_storage_server` has
  dropped the backup by then (line 1434).
* DELETE (`nm_main.c`:1266) reads its slot, and removes by name, after the call
  to the server and without the lock, and then unlocks a mutex it does not hold.
  Two DELETEs of a name and a CREATE between them can delete the copy of the new
  file on its server while its entry is being added.
* Two CHECKPOINTs of one tag both pass the check (`nm_main.c`:1891) before either
  is recorded; the second replaces the text of the first on the server and is
  then refused with ERR_EXISTS.

## 5. Proofs

The proofs hold for every value of the constants (any number of connections,
files, callers, servers, crashes) that satisfies the `ASSUME` of the module.

* `SentenceTextProofs`. What the text functions compute, for texts of any length.
  `SplitJoin`: cutting a text into sentences and joining them gives its words back,
  each cut after its delimiter, in their order. `MergeReplaces`: unless the baseline
  is gone, the document that `merge` writes is the one it was given with one
  occurrence of the baseline replaced by the edited words, whichever occurrence the
  neighbours lead to (`BestIndex`) and however many sentences the edit makes. The
  functions walk over sequences, so both need induction. It is done with sets in
  place of predicates: a set of sequences that has the empty one and is closed under
  `Append` has all of them (`SeqInduction`), as a least length at which one is missing
  contradicts the closure.
* `StorageServerProofs`. The inductive invariant `IInv` adds to the type
  invariant, `LockTable` and `FlagNotStuck` that only data connections serve
  WRITE, that a thread is only at control points of its request, and that an
  absent file has no flag: without the last, a file created anew could appear
  with a flag nobody clears. Steps are grouped by what they touch (neither table,
  the flag, the lock table, the file table), and one lemma per group is applied
  to every action. The same lemmas say which abstract step each action is, which
  gives the refinement `LocksImplemented`.
* `StorageTextProofs`. `WholeTexts` and `UndoIsPrevious` under `OneWriter`: no
  client writes, or clients do nothing but read and write, commits do not overlap
  and no command comes from the NM. `Local` says which thread serves what and when
  it has a stream open, so that `OneWriter` leaves at most one thread between the
  load of a document and its last change (`Alone`); `Kept` then says, for every place
  of that thread, which of the document, the undo text and `<path>.tmp` hold which
  text, and `HasText` that a file in the table has a document. Together they are
  `TextInv`. Crashes and failed writes are allowed at every step. Neither of the two
  needs what `SentenceText` computes. Two commits, or a commit and UNDO, share
  `<path>.tmp`, and TLC finds both properties violated. `CountsRight` gives
  `CountsMatch` under `Uninterrupted` (no writes, no kill; the disk may fail): the
  count in memory is that of the document except for the file a handler has changed
  and not yet counted (`Behind`). The one in `.meta` is too if the disk does not
  fail; if it does, `CountsMatch` says nothing of `.meta`, which nobody checks. With a kill, or with
  commits, TLC finds `CountsMatch` violated.

  `EditsMerged` gives `EditMerged`, also under `OneWriter`: between the load of a commit
  and its rename lie a dozen steps of its thread, with sessions of other clients
  beginning, editing and ending among them. `EditInv` says that what files and sessions
  hold are texts and that a thread about to store a commit has in its buffer the text it
  read with the session merged into it (`Drafted`, from `MergeReplaces`); `Kept` says that
  the document on disk is still the text it read. The property compares documents by
  their words as the splitter cuts them, since a store writes them that way.
* `NmRpcProofs`. The outstanding command is at one of three places (a caller
  about to send, on the way to the server, on the way back); `Live` says that
  exactly one of the three holds it if `rpc_waiting` is set and the connection is
  up. `OneOutstanding` counts them. A caller that will find `ctrl_fd` at -1 is one
  about to send until it has given the slot back.
* `ReplicationProofs`. `ReplicasHold` is not inductive: the worker records a
  backup long after it has decided on it. The invariant says that tasks name
  real servers (`Tasked`), that the target differs from the primary of the task
  (`Aimed`), and that the target has stored the document before the worker is
  done (`Carried`). The worker's last check, that the primary is still that of
  the task, is what makes `Finish` keep `ReplicasApart`.
* `ReplicationProofs` also has `BackupCurrent` under `Untroubled`: no crash, no failing
  call, no two changes of a file within a second. The argument follows a change
  through the NM. While the two copies of a file differ, or the worker carries a text
  that the primary has replaced since, either the report of the last change is on its
  way and still news to the NM (`Coming`), or a task for the file has yet to fetch its
  text (`Queued`); this is `Synced`. It needs that reports arrive in the order of
  their times (`Ordered`), that the primary and the only possible backup stay what
  they are (`Calm`) and that tasks lead from one to the other (`Directed`). When
  nothing is left to do neither holds, so the copies are equal. With any one of the
  three conditions dropped TLC finds `BackupCurrent` violated.
* `FileTableProofs`. The hash index is a linked structure in an array, and every
  property needs what `find_file_index` returns in it. `Linked` gives each slot in
  use a rank, every chain running through its slots in falling rank; a new slot gets
  a rank above all others (`InsertLinked`), and a slot taken out leaves the ranks of
  the others (`RemoveLinked`). On ranked chains a search ends at the slot with the
  name, or at -1 (`Found`), by a least counterexample. That searching is a function
  at all, even in an array whose links form a ring, is `WalkExists`. `AddFile`,
  `RemoveFile` (with the last file moved into the gap), `SetRights` and `LoadSaved`
  say what the operators do to the index and to the rights on every name. The
  inductive invariant `FInv` says of the state file that it was written from some
  table `t` with a right index, which on every file that is not being deleted gives
  the rights there are now (`Stands`). Loading gives the same rights as `t`, from which
  `Recoverable` and the case `Restart` of `RightsGranted` follow. Proved for every hash
  function and every `MaxFiles`; `NmFiles` checks one bucket of three slots. All of it
  is about the states in which `Alone` holds; of the others `TableTyped` says only
  that threads, requests and the state file are well typed.

  `StoreImplemented` is the refinement of `RightsStore`. The lemmas on the operators say
  what file each name has before and after (`SameOn`, `FileAt`), so each handler is one
  step of the map. A save makes the copy equal to the map (`LinesFiles`), and a restart the
  map equal to the copy (`LoadSaved`). `FilesCounted` shows that `file_count` is the number of
  files of the map, so that the table refuses a file only when there are `MaxFiles`.
* `PeersProofs`. `NamesUnique` and `ActiveConnected` excuse the states in which a reset has hit a
  slot that was given away, so their invariant is `TypeInv /\ (Clobbered \/ Undisturbed)`.
  `Undisturbed` says that the slot of a thread is its own until `peer_close`
  (`Owns`), that what a thread is at agrees with what its other end has sent and was
  told (`Dialogue`), and that the list of users has exactly the names of the
  connections that hold one, each once (`Listed`). `AnsweredRight` excuses no such
  state. Its invariant `KInv` follows each thread by itself: one that is not in `hit`
  still has its connection in its slot (`Keeps`), whatever has happened to the
  others, as no slot in use is given away and every reset by another thread puts
  the owner into `hit`. The number of slots and of connections is arbitrary.
* `AccessProofs`. Both properties of tickets speak of one step, the lookup, but
  depend on all that happened since the ticket was drawn. The invariant follows a
  ticket: while the NM asks for it its token is above every token its user has in
  any table (`Asking`, `Below`), so that no leftover of a failed call can match;
  from then on until it is presented it is `Good`, the only entry with its token,
  and still in the table of its server unless it has expired there, the server
  was started anew, or does not run. `Keeps` says what a step may do to the
  tickets of a user, and every action is shown to keep the tickets of the user
  it serves and of the others (`Bystander`). `Honoured` and `InTime` read the two
  outcomes of `validate_ticket` from `Good`. Clocks may differ by any amount; it
  is assumed that no token is drawn twice.

  `Truthful` gives `ToldTrue`. The invariant `Talk` relates where a client is in its
  dialogue to where the server's thread is, to the messages between them and to
  whether the session was stored: OK is on its way only when it was, and the places
  of a client that will report a failure exclude it. `Blamed` keeps apart the case
  the property excuses, that a server has ended; that the answer was too long to be
  sent is in `stored` ("silent").

  `NobodyStuck` is the safety half of "no command hangs": in every reachable state
  somebody has a step to take for each command under way, and for the thread of a
  client that has gone. `Talk` covers the clients that are there, `Left` says what one
  that has gone can leave behind. The prover does not know ENABLED, so the steps a
  process can take are written out (`ManagerCan`, `ClientCan`, `ServerCan`). They are the
  guards of `ManagerStep`, `ClientStep` and `ServerStep`; on the instance of the run
  `Access` TLC finds each equal to ENABLED of its step in every state.

Each invariant was checked by TLC on the run of its module before it was proved. In
`FInv` the existentials (the ranks, the table behind the state file) were replaced by
small sets and by the table the load returns.

Only model-checked: liveness (`HandlerReturns`, `DropReleasesAll`, `LossHandled`), which
is out of the prover's reach, and `NeverStuck` as it stands, with ENABLED; `NobodyStuck` is
its content with the guards written out. The library's induction theorems take a
predicate as parameter, which the provers cannot instantiate. Where a proof needs
induction (texts, searches along chains, the lines of the state file) it argues with
sets and a least counterexample.

## 6. Limits and plan

Not modelled, and why:

* Data the properties do not tell apart: time stamps other than the time of
  change, user names in locks (never compared), character counts (kept beside
  word counts everywhere), JSON, logging, printing, line editing (`cli_input.c`).
* EXEC runs a file's text in a shell: process execution, no state of the system.
* Running out of memory, the order in which a full disk tears a text, shutdown.
* The name manager's disk: `nm_state_save` ignores failed writes and renames the
  result over the good file. In `FileTable` a save succeeds. Of two saves at once,
  possible as DELETE saves without the lock, the model has the older lines over the
  newer ones (`SaveEnd`), not a file mixed of both.
* Names with blanks. A user name is a whole line of input and lines of the state
  file are split at blanks, so a file of the user "a b" comes back as one of "a"
  on another server. `FileTable` has names without blanks.
* The framing of messages: threads of a server send on the control connection
  without a lock, each message in two sends, and frames can mix
  (`ss_main.c`:753). The modules have messages, not bytes.
* The name manager's lists of checkpoints, and the servers' side of CREATE and
  DELETE: which copies a failed call, a lost answer or two clients at once leave
  behind. `StorageServer` has what one server does with such commands.
* The name manager's own list of tickets (`ctx->tickets`): it is filled and
  pruned, and never consulted.
* A storage server killed in the middle of writing `.meta`, and a CREATE or DELETE
  that fails half way on a server's disk.
* In `Peers` every server connection is from another server, and its registration
  is accepted; one that registers again is in `Replication`, which in turn leaves
  out a server that is lost before its SS_REGISTER is processed. In `NmRpc` a
  server that registers again, so that a caller which took the old slot sends on
  the new connection, is left out.
* `FileTable` has one connection per user, which
  `Peers!NamesUnique` shows, up to the reset it excuses.

What could follow:

1. An abstract document with atomic commits, implemented by `StorageServer` under
   `OneWriter`: `WholeTexts`, `UndoIsPrevious` and `EditMerged` are its parts.
2. `BackupCurrent` with servers that crash: which of the changes reported before a
   crash still reach a backup.
3. Entries and copies: `FileTable` with the file sets of servers.
