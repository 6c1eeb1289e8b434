------------------------------- MODULE Peers --------------------------------
(***************************************************************************)
(* The connections of the name manager (nm/nm_main.c): the accept loop,    *)
(* the array of peer slots, one thread per connection, the handshake, the  *)
(* list of active users, and the end of a connection.                      *)
(*                                                                         *)
(* A thread keeps the number of its slot and reads the slot anew at every  *)
(* use: who it serves, which connection it receives from and answers to    *)
(* are what the slot says at that moment.  A slot is free for the next     *)
(* connection from peer_close on, but its thread resets it once more       *)
(* before it ends.                                                         *)
(*                                                                         *)
(* No process handles SIGPIPE and every message is two sends: an answer to *)
(* a connection whose other end is closed may end the process.             *)
(*                                                                         *)
(* Connections are never numbered alike, unlike file descriptors.  What a  *)
(* request does is in the other modules; here it is answered.  Commands to *)
(* servers and their responses are in NmRpc.  Every server connection is   *)
(* from another server, and is registered: one that registers again is in  *)
(* Replication, one id on two connections and a registration refused for   *)
(* its payload or a full server table are left out.                        *)
(***************************************************************************)
EXTENDS Integers, FiniteSetsExt

CONSTANTS MaxConns,   \* bound: connections made, numbered in their order
          MaxPeers,   \* MAX_PEERS, the number of slots
          Users,      \* names of users
          Nobody      \* the empty user name

Conns == 1..MaxConns
Slots == 1..MaxPeers
NoConn == 0

ASSUME PeersAssumption ==
    /\ MaxPeers \in Nat \ {0}
    /\ MaxConns \in Nat
    /\ Nobody \notin Users

VARIABLES
    slot,       \* ctx->peers: fd (as the connection), type, user and server
                \* index of each slot
    accepting,  \* the connection the accept loop is giving a slot to
    thread,     \* the thread started for each connection
    active,     \* ctx->active_users
    online,     \* the servers with online = 1, by their connection
    far,        \* the other end of each connection
    wire,       \* the message under way on each connection, or NoMessage
    running,    \* the name manager's process has not been ended
    hit         \* history: the connections whose slot the thread of another one
                \* has reset

vars == <<slot, accepting, thread, active, online, far, wire, running, hit>>

NoMessage == [type |-> "none", user |-> Nobody]
Message == [type : {"none", "CLIENT_HELLO", "SS_REGISTER", "SS_FILE_UPDATE", "request",
                    "CLIENT_EXIT"},
            user : Users \cup {Nobody}]

\* peer_reset_fields
Unused == [conn |-> NoConn, type |-> "unused", user |-> Nobody, server |-> NoConn]

\* The slot of a thread (0 before it has one), its place, the connection it
\* is blocked on and the message it has received.
NoThread == [slot |-> 0, pc |-> "none", fd |-> NoConn, msg |-> NoMessage]

\* from: the threads of other connections that have answered here.
NoFar == [state |-> "none", role |-> "none", user |-> Nobody, waits |-> FALSE,
          from |-> {}]

Init ==
    /\ slot = [i \in Slots |-> Unused]
    /\ accepting = NoConn
    /\ thread = [c \in Conns |-> NoThread]
    /\ active = {}
    /\ online = {}
    /\ far = [c \in Conns |-> NoFar]
    /\ wire = [c \in Conns |-> NoMessage]
    /\ running = TRUE
    /\ hit = {}

-----------------------------------------------------------------------------
(* The other ends: clients and storage servers.  A client sends one        *)
(* message and waits for the answer; either may end at any time.           *)

Connect(c) ==
    /\ far[c].state = "none"
    /\ \A d \in Conns : d < c => far[d].state # "none"
    /\ far' = [far EXCEPT ![c].state = "open"]
    /\ UNCHANGED <<slot, accepting, thread, active, online, wire, running, hit>>

Send(c, m) ==
    /\ far[c].state = "open"
    /\ ~far[c].waits
    /\ wire[c] = NoMessage
    /\ wire' = [wire EXCEPT ![c] = m]
    /\ UNCHANGED <<slot, accepting, thread, active, online, running, hit>>

\* The first message says who this is.
SayHello(c) ==
    /\ far[c].role = "none"
    /\ \E u \in Users \cup {Nobody} :
          /\ Send(c, [type |-> "CLIENT_HELLO", user |-> u])
          /\ far' = [far EXCEPT ![c].role = "hello", ![c].user = u, ![c].waits = TRUE]

RegisterServer(c) ==
    /\ far[c].role = "none"
    /\ Send(c, [type |-> "SS_REGISTER", user |-> Nobody])
    /\ far' = [far EXCEPT ![c].role = "registering", ![c].waits = TRUE]

\* A command of the user, or EXIT after which there is no other.
SendRequest(c) ==
    /\ far[c].role = "client"
    /\ \/ /\ Send(c, [type |-> "request", user |-> Nobody])
          /\ far' = [far EXCEPT ![c].waits = TRUE]
       \/ /\ Send(c, [type |-> "CLIENT_EXIT", user |-> Nobody])
          /\ far' = [far EXCEPT ![c].role = "leaving", ![c].waits = TRUE]

\* A storage server reports a change and waits for nothing.
SendUpdate(c) ==
    /\ far[c].role = "server"
    /\ Send(c, [type |-> "SS_FILE_UPDATE", user |-> Nobody])
    /\ UNCHANGED far

Leave(c) ==
    /\ far[c].state = "open"
    /\ far' = [far EXCEPT ![c] = [NoFar EXCEPT !.state = "left", !.from = far[c].from]]
    /\ UNCHANGED <<slot, accepting, thread, active, online, wire, running, hit>>

\* What the other end makes of an answer: only a client told OK goes on.
NextRole(role, ok) ==
    CASE role = "hello"       -> IF ok THEN "client" ELSE "refused"
      [] role = "registering" -> "server"
      [] OTHER                -> role

-----------------------------------------------------------------------------
(* The accept loop *)

\* Connections are accepted in their order, one at a time.
Accepts(c) ==
    /\ accepting = NoConn
    /\ far[c].state # "none"
    /\ thread[c] = NoThread
    /\ \A d \in Conns : d < c => thread[d] # NoThread

\* Wrong variant: any slot is taken for unused.
FreeSlots_any == Slots

FreeSlots == {i \in Slots : slot[i].type = "unused"}

\* The first unused slot and the first of the assignments to it.  The slot
\* still counts as unused, but nobody else allocates.
allocate_peer(c) ==
    /\ running
    /\ Accepts(c)
    /\ FreeSlots # {}
    /\ LET i == Min(FreeSlots) IN
       /\ slot' = [slot EXCEPT ![i] = [Unused EXCEPT !.conn = c]]
       /\ thread' = [thread EXCEPT ![c].slot = i]
    /\ accepting' = c
    /\ UNCHANGED <<active, online, far, wire, running, hit>>

\* No slot: the connection is closed again.
TooManyConnections(c) ==
    /\ running
    /\ Accepts(c)
    /\ FreeSlots = {}
    /\ thread' = [thread EXCEPT ![c].pc = "done"]
    /\ UNCHANGED <<slot, accepting, active, online, far, wire, running, hit>>

\* The other assignments, and the thread starts.
StartThread(c) ==
    /\ running
    /\ accepting = c
    /\ slot' = [slot EXCEPT ![thread[c].slot].type = "unknown",
                            ![thread[c].slot].server = NoConn,
                            ![thread[c].slot].user = Nobody]
    /\ thread' = [thread EXCEPT ![c].pc = "loop"]
    /\ accepting' = NoConn
    /\ UNCHANGED <<active, online, far, wire, running, hit>>

-----------------------------------------------------------------------------
(* The thread of a connection *)

Peer(c) == slot[thread[c].slot]

At(c, pc) == running /\ thread[c].pc = pc

Goto(c, pc) == thread' = [thread EXCEPT ![c].pc = pc]

\* A message has been dealt with.
Done(c, pc) == thread' = [thread EXCEPT ![c].pc = pc, ![c].fd = NoConn, ![c].msg = NoMessage]

\* The connection is read from the slot when the receive begins.
BeginRecv(c) ==
    /\ At(c, "loop")
    /\ thread' = [thread EXCEPT ![c].pc = "recv", ![c].fd = Peer(c).conn]
    /\ UNCHANGED <<slot, accepting, active, online, far, wire, running, hit>>

net_recv_json(c) ==
    LET fd == thread[c].fd IN
    /\ At(c, "recv")
    /\ fd # NoConn
    /\ wire[fd] # NoMessage
    /\ thread' = [thread EXCEPT ![c].pc = "dispatch", ![c].msg = wire[fd]]
    /\ wire' = [wire EXCEPT ![fd] = NoMessage]
    /\ UNCHANGED <<slot, accepting, active, online, far, running, hit>>

\* The other end has closed, or the slot had no connection.  What was sent
\* before may be lost with the connection.
RecvFails(c) ==
    LET fd == thread[c].fd IN
    /\ At(c, "recv")
    /\ fd # NoConn => far[fd].state = "left"
    /\ Done(c, "lost")
    /\ wire' = IF fd = NoConn THEN wire ELSE [wire EXCEPT ![fd] = NoMessage]
    /\ UNCHANGED <<slot, accepting, active, online, far, running, hit>>

\* A message is dispatched by the type of the slot.  What is to be answered
\* is the next place: an error, an OK, or the OK to EXIT.
Hello(c) == Peer(c).type = "unknown" /\ thread[c].msg.type = "CLIENT_HELLO"

\* The name is looked up in one critical section (an empty one is never
\* found) ...
username_in_use(c) ==
    /\ At(c, "dispatch")
    /\ Hello(c)
    /\ Goto(c, IF thread[c].msg.user \in active THEN "refuse" ELSE "add")
    /\ UNCHANGED <<slot, accepting, active, online, far, wire, running, hit>>

\* Wrong variant: the second look is missing.
active_user_add_blind(c) ==
    /\ At(c, "add")
    /\ IF thread[c].msg.user = Nobody
       THEN Goto(c, "refuse") /\ UNCHANGED active
       ELSE Goto(c, "hello") /\ active' = active \cup {thread[c].msg.user}
    /\ UNCHANGED <<slot, accepting, online, far, wire, running, hit>>

\* Wrong variant: an empty name is added.
active_user_add_empty(c) ==
    /\ At(c, "add")
    /\ IF thread[c].msg.user \in active
       THEN Goto(c, "refuse") /\ UNCHANGED active
       ELSE Goto(c, "hello") /\ active' = active \cup {thread[c].msg.user}
    /\ UNCHANGED <<slot, accepting, online, far, wire, running, hit>>

\* ... and added in another, which looks again and adds no empty name.
active_user_add(c) ==
    /\ At(c, "add")
    /\ IF thread[c].msg.user \in active \cup {Nobody}
       THEN Goto(c, "refuse") /\ UNCHANGED active
       ELSE Goto(c, "hello") /\ active' = active \cup {thread[c].msg.user}
    /\ UNCHANGED <<slot, accepting, online, far, wire, running, hit>>

\* The rest of the handshake of a client.
WelcomeClient(c) ==
    /\ At(c, "hello")
    /\ slot' = [slot EXCEPT ![thread[c].slot].user = thread[c].msg.user,
                            ![thread[c].slot].type = "client"]
    /\ Goto(c, "accept")
    /\ UNCHANGED <<accepting, active, online, far, wire, running, hit>>

handle_ss_register(c) ==
    /\ At(c, "dispatch")
    /\ Peer(c).type = "unknown"
    /\ thread[c].msg.type = "SS_REGISTER"
    /\ slot' = [slot EXCEPT ![thread[c].slot].type = "server",
                            ![thread[c].slot].server = thread[c].fd]
    /\ online' = online \cup {thread[c].fd}
    /\ Goto(c, "accept")
    /\ UNCHANGED <<accepting, active, far, wire, running, hit>>

\* Any other message while the slot is not known to be anyone's.
UnknownHandshake(c) ==
    /\ At(c, "dispatch")
    /\ Peer(c).type = "unknown"
    /\ thread[c].msg.type \notin {"CLIENT_HELLO", "SS_REGISTER"}
    /\ Goto(c, "refuse")
    /\ UNCHANGED <<slot, accepting, active, online, far, wire, running, hit>>

handle_client_message(c) ==
    /\ At(c, "dispatch")
    /\ Peer(c).type = "client"
    /\ Goto(c, IF thread[c].msg.type = "CLIENT_EXIT" THEN "exit" ELSE "accept")
    /\ UNCHANGED <<slot, accepting, active, online, far, wire, running, hit>>

\* Nothing is answered.  A message of a type a slot has no use for, and any
\* message in a slot that has been reset, ends the thread.
handle_server_message(c) ==
    /\ At(c, "dispatch")
    /\ Peer(c).type \in {"server", "unused"}
    /\ Done(c, IF Peer(c).type = "server" /\ thread[c].msg.type = "SS_FILE_UPDATE"
               THEN "loop" ELSE "lost")
    /\ UNCHANGED <<slot, accepting, active, online, far, wire, running, hit>>

dispatch_message(c) ==
    \/ username_in_use(c)
    \/ active_user_add(c)
    \/ WelcomeClient(c)
    \/ handle_ss_register(c)
    \/ UnknownHandshake(c)
    \/ handle_client_message(c)
    \/ handle_server_message(c)

Answering(c) == running /\ thread[c].pc \in {"refuse", "accept", "exit"}

AfterAnswer(c) == IF thread[c].pc = "exit" THEN "lost" ELSE "loop"

\* The answer goes to the connection that is in the slot now.
send_response(c) ==
    LET fd == Peer(c).conn IN
    /\ Answering(c)
    /\ fd # NoConn
    /\ far[fd].state = "open"
    /\ Done(c, AfterAnswer(c))
    /\ far' = [far EXCEPT ![fd].waits = FALSE, ![fd].from = @ \cup ({c} \ {fd}),
                          ![fd].role = NextRole(@, thread[c].pc # "refuse")]
    /\ UNCHANGED <<slot, accepting, active, online, wire, running, hit>>

\* The slot has no connection, or its other end is closed: the answer is
\* lost unnoticed, or the send fails and the thread with it.
ResponseLost(c) ==
    LET fd == Peer(c).conn IN
    /\ Answering(c)
    /\ \/ Done(c, "lost")
       \/ fd # NoConn /\ Done(c, AfterAnswer(c))
    /\ fd # NoConn => far[fd].state = "left"
    /\ UNCHANGED <<slot, accepting, active, online, far, wire, running, hit>>

\* The second send of an answer to a closed connection raises SIGPIPE, which
\* nobody handles.
BrokenPipe(c) ==
    LET fd == Peer(c).conn IN
    /\ Answering(c)
    /\ fd # NoConn
    /\ far[fd].state = "left"
    /\ running' = FALSE
    /\ UNCHANGED <<slot, accepting, thread, active, online, far, wire, hit>>

-----------------------------------------------------------------------------
(* The end of a thread *)

\* Wrong variant: the name is not taken out of the list.
disconnect_keeps_name(c) ==
    /\ At(c, "lost")
    /\ online' = IF Peer(c).type = "server" THEN online \ {Peer(c).server} ELSE online
    /\ Goto(c, "close")
    /\ UNCHANGED <<slot, accepting, active, far, wire, running, hit>>

\* Wrong variant: the server is not marked down.
disconnect_keeps_server(c) ==
    /\ At(c, "lost")
    /\ active' = IF Peer(c).type = "client" THEN active \ {Peer(c).user} ELSE active
    /\ Goto(c, "close")
    /\ UNCHANGED <<slot, accepting, online, far, wire, running, hit>>

handle_server_disconnect(c) ==
    /\ At(c, "lost")
    /\ active' = IF Peer(c).type = "client" THEN active \ {Peer(c).user} ELSE active
    /\ online' = IF Peer(c).type = "server" THEN online \ {Peer(c).server} ELSE online
    /\ Goto(c, "close")
    /\ UNCHANGED <<slot, accepting, far, wire, running, hit>>

\* A reset hits another connection if its slot has been given away.
Reset(c) ==
    /\ slot' = [slot EXCEPT ![thread[c].slot] = Unused]
    /\ hit' = hit \cup ({Peer(c).conn} \ {c, NoConn})
    /\ UNCHANGED <<accepting, active, online, far, wire, running>>

\* From here on the slot may be given to another connection.
peer_close(c) ==
    /\ At(c, "close")
    /\ Goto(c, "reset")
    /\ Reset(c)

peer_reset(c) ==
    /\ At(c, "reset")
    /\ thread' = [thread EXCEPT ![c] = [NoThread EXCEPT !.pc = "done"]]
    /\ Reset(c)

ThreadStep(c) ==
    \/ BeginRecv(c)
    \/ net_recv_json(c)
    \/ RecvFails(c)
    \/ dispatch_message(c)
    \/ send_response(c)
    \/ ResponseLost(c)
    \/ BrokenPipe(c)
    \/ handle_server_disconnect(c)
    \/ peer_close(c)
    \/ peer_reset(c)

AcceptStep(c) == allocate_peer(c) \/ TooManyConnections(c) \/ StartThread(c)

\* Once its thread has ended nothing a connection does has an effect.
FarStep(c) ==
    /\ running
    /\ thread[c].pc # "done"
    /\ \/ Connect(c)
       \/ SayHello(c)
       \/ RegisterServer(c)
       \/ SendRequest(c)
       \/ SendUpdate(c)
       \/ Leave(c)

Next == \E c \in Conns : FarStep(c) \/ AcceptStep(c) \/ ThreadStep(c)

Spec == Init /\ [][Next]_vars

\* The name manager's threads go on as long as the process does; what the
\* other ends do is up to them.
FairSpec ==
    /\ Spec
    /\ WF_vars(\E c \in Conns : AcceptStep(c))
    /\ \A c \in Conns : WF_vars(ThreadStep(c))

-----------------------------------------------------------------------------
(* Properties *)

Types == {"unused", "unknown", "client", "server"}
Places == {"none", "loop", "recv", "dispatch", "add", "hello", "refuse", "accept", "exit",
           "lost", "close", "reset", "done"}
Roles == {"none", "hello", "registering", "client", "server", "refused", "leaving"}

\* Type invariant of the peer slots, the threads and the lists.
TypeOK ==
    /\ slot \in [Slots -> [conn : Conns \cup {NoConn}, type : Types, user : Users \cup {Nobody},
                       server : Conns \cup {NoConn}]]
    /\ accepting \in Conns \cup {NoConn}
    /\ thread \in [Conns -> [slot : Slots \cup {0}, pc : Places, fd : Conns \cup {NoConn},
                             msg : Message]]
    /\ active \subseteq Users
    /\ online \subseteq Conns
    /\ far \in [Conns -> [state : {"none", "open", "left"}, role : Roles,
                          user : Users \cup {Nobody}, waits : BOOLEAN,
                          from : SUBSET Conns]]
    /\ wire \in [Conns -> Message]
    /\ running \in BOOLEAN
    /\ hit \subseteq Conns

\* A slot has been reset under its next owner, by the thread that had it
\* before: the names and the lists below are only claimed until then.
Clobbered == hit # {}

\* Two clients that were told they are connected, and have not asked to
\* leave, have different names, whatever the interleaving of their two
\* handshakes and of the end of an earlier connection of that name, as long
\* as no slot was reset under its next owner.
NamesUnique ==
    Clobbered \/ \A c, d \in Conns :
        /\ c # d
        /\ far[c].state = "open" /\ far[c].role = "client"
        /\ far[d].state = "open" /\ far[d].role = "client"
        => far[c].user # far[d].user

\* An answer goes to another connection than the one whose message it answers
\* only if the slot of the answering thread was reset under it: the second
\* reset of a slot (peer_reset) harms the connection that has the slot by
\* then and no other, whatever becomes of the slot afterwards.
AnswersReturn ==
    \A c \in Conns : far[c].from \subseteq hit

\* The thread that put a name into the list and has not taken it out again.
Holds(c, u) ==
    \/ thread[c].pc = "hello" /\ thread[c].msg.user = u
    \/ /\ thread[c].pc \in {"loop", "recv", "dispatch", "refuse", "accept", "exit", "lost"}
       /\ Peer(c).type = "client"
       /\ Peer(c).user = u

\* The list of active users has the name of every connected client, and no
\* name stays in it when the thread of its client has ended: it can be taken
\* again.  A slot reset under its next owner is excepted: its name stays.
ActiveConnected ==
    Clobbered \/ active = {u \in Users : \E c \in Conns : Holds(c, u)}

\* A connection that is lost is cleaned up: its user name can be taken again
\* and its server is not online any more, unless the process was ended or
\* some slot was reset under its next owner.
LossHandled ==
    \A c \in Conns :
        far[c].state = "left"
            ~> (~running \/ Clobbered \/ (thread[c].pc = "done" /\ c \notin online))

\* "the NM detects an SS going down when its control connection drops"
DownDetected ==
    \A c \in Conns :
        (far[c].state = "left" /\ c \in online) ~> (~running \/ c \notin online)
=============================================================================
