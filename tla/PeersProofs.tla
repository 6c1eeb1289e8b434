----------------------------- MODULE PeersProofs ----------------------------
(* Proofs about Peers: the types; that as long as no slot was reset under  *)
(* its next owner user names are unique and the list of active users is    *)
(* exact; and that a thread whose slot was not reset under it answers its  *)
(* own connection, also after that happened to others.                     *)
EXTENDS Peers, TLAPS, WellFoundedInduction

\* The places of a thread that has a slot, up to the one where it gives the
\* slot back.
Own == {"loop", "recv", "dispatch", "add", "hello", "refuse", "accept", "exit", "lost", "close"}

\* The places at which a message is being dealt with.
Busy == {"dispatch", "add", "hello", "refuse", "accept", "exit"}

\* A thread has a slot from its start to its end, and has read from a
\* connection when it deals with a message.
Placed(c) ==
    /\ accepting = c => thread[c].pc = "none"
    /\ accepting = c \/ thread[c].pc \in Own \cup {"reset"} => thread[c].slot \in Slots
    /\ thread[c].pc \in Busy => thread[c].fd \in Conns

TypeInv == TypeOK /\ \A c \in Conns : Placed(c)

\* The slot of a connection is its own, and not free, until peer_close.
Owns(c) ==
    /\ accepting = c \/ thread[c].pc \in Own => Peer(c).conn = c
    /\ thread[c].pc \in Own => Peer(c).type # "unused"
    /\ thread[c].pc \in Busy \cup {"recv"} => thread[c].fd = c
    /\ thread[c].pc \in {"add", "hello"} => Peer(c).type = "unknown"
    /\ far[c].from = {}

\* A name in the list has one holder.
Listed ==
    /\ active = {u \in Users : \E c \in Conns : Holds(c, u)}
    /\ \A c, d \in Conns : \A u \in Users : Holds(c, u) /\ Holds(d, u) => c = d

HelloFrom(c) == [type |-> "CLIENT_HELLO", user |-> far[c].user]

\* What a thread is at, from what its other end has sent and was told.
Silent(c) ==
    far[c].state = "none" \/ (far[c].state = "open" /\ far[c].role = "none") =>
        /\ far[c].role = "none"
        /\ wire[c] = NoMessage
        /\ thread[c].pc \in {"none", "loop", "recv", "done"}
        /\ thread[c].pc \in Own => Peer(c).type = "unknown"

Greeting(c) ==
    far[c].state = "open" /\ far[c].role = "hello" =>
        /\ thread[c].pc \notin {"exit", "lost", "close", "reset"}
        /\ thread[c].pc \in {"loop", "recv", "dispatch", "add", "hello"} => Peer(c).type = "unknown"
        /\ IF thread[c].pc \in {"none", "loop", "recv", "done"}
           THEN wire[c] = HelloFrom(c) ELSE wire[c] = NoMessage
        /\ thread[c].pc \in {"dispatch", "add", "hello"} => thread[c].msg = HelloFrom(c)
        /\ thread[c].pc \in {"hello", "accept"} => far[c].user \in Users
        /\ thread[c].pc = "accept" => Peer(c).type = "client" /\ Peer(c).user = far[c].user

Connected(c) ==
    far[c].state = "open" /\ far[c].role = "client" =>
        /\ thread[c].pc \in {"loop", "recv", "dispatch", "accept"}
        /\ Peer(c).type = "client"
        /\ Peer(c).user = far[c].user
        /\ far[c].user \in Users
        /\ thread[c].msg.type # "CLIENT_EXIT"
        /\ wire[c].type # "CLIENT_EXIT"

Dialogue(c) == Silent(c) /\ Greeting(c) /\ Connected(c)

Undisturbed == Listed /\ \A c \in Conns : Owns(c) /\ Dialogue(c)

IInv == TypeInv /\ (Clobbered \/ Undisturbed)

-----------------------------------------------------------------------------
(* Type correctness *)

Slot == [conn : Conns \cup {NoConn}, type : Types, user : Users \cup {Nobody},
         server : Conns \cup {NoConn}]

Thread == [slot : Slots \cup {0}, pc : Places, fd : Conns \cup {NoConn}, msg : Message]

Far == [state : {"none", "open", "left"}, role : Roles, user : Users \cup {Nobody},
        waits : BOOLEAN, from : SUBSET Conns]

\* The numbers of connections and slots are not the numbers of none.
LEMMA Numbers == NoConn \notin Conns /\ 0 \notin Slots /\ Conns \subseteq Nat /\ Slots \subseteq Nat
  BY PeersAssumption DEF NoConn, Conns, Slots

\* A slot with nobody in it, a message that is not there, a thread that was
\* not started and a connection that was not made.
LEMMA NoneTypes ==
    Unused \in Slot /\ NoMessage \in Message /\ NoThread \in Thread /\ NoFar \in Far
<1>1. NoMessage \in Message
  BY DEF NoMessage, Message
<1>2. QED  BY <1>1 DEF Unused, Slot, NoThread, Thread, NoFar, Far, Types, Places, Roles

\* allocate_peer finds a slot: the first of a nonempty set of numbers is one
\* of them.
LEMMA FirstOne ==
  ASSUME NEW S, S \subseteq Nat, S # {}
  PROVE  Min(S) \in S
<1>1. PICK x \in S : \A y \in S : ~(<<y, x>> \in OpToRel(<, Nat))
  BY NatLessThanWellFounded, WFMin
<1>2. \A y \in S : x =< y
  <2> TAKE y \in S
  <2>1. x \in Nat /\ y \in Nat /\ ~(y < x)
    BY <1>1 DEF OpToRel
  <2>2. QED  BY <2>1
<1>3. QED  BY <1>1, <1>2 DEF Min

\* The types hold before the first connection.
LEMMA InitType == Init => TypeInv
<1> SUFFICES ASSUME Init PROVE TypeInv  OBVIOUS
<1>1. TypeOK
  BY NoneTypes DEF Init, TypeOK, Slot, Thread, Far, NoConn
<1>2. \A c \in Conns : Placed(c)
  BY Numbers DEF Init, Placed, NoThread, Own, Busy
<1>3. QED  BY <1>1, <1>2 DEF TypeInv

\* The records of TypeInv, one connection at a time.
LEMMA TypeFacts ==
  ASSUME TypeInv, NEW c \in Conns
  PROVE  /\ slot \in [Slots -> Slot] /\ thread \in [Conns -> Thread] /\ far \in [Conns -> Far]
         /\ wire \in [Conns -> Message]
         /\ thread[c] \in Thread /\ far[c] \in Far /\ wire[c] \in Message
         /\ Placed(c)
  BY DEF TypeInv, TypeOK, Slot, Thread, Far

\* A step that moves the thread of one connection and leaves the accept loop
\* alone.
LEMMA ThreadType ==
  ASSUME TypeInv, NEW c \in Conns, NEW r \in Thread,
         thread' = [thread EXCEPT ![c] = r], UNCHANGED accepting,
         accepting = c => r.pc = "none" /\ r.slot \in Slots,
         r.pc \in Own \cup {"reset"} => r.slot \in Slots,
         r.pc \in Busy => r.fd \in Conns
  PROVE  thread' \in [Conns -> Thread] /\ \A d \in Conns : Placed(d)'
<1>1. thread \in [Conns -> Thread]
  BY TypeFacts
<1>2. thread' \in [Conns -> Thread]
  BY <1>1
<1>3. ASSUME NEW d \in Conns  PROVE Placed(d)'
  <2>1. CASE d = c
    BY <2>1, <1>1 DEF Placed
  <2>2. CASE d # c
    BY <2>2, <1>1, TypeFacts DEF Placed
  <2>3. QED  BY <2>1, <2>2
<1>4. QED  BY <1>2, <1>3

\* What the other ends do keeps the types.
LEMMA FarType ==
  ASSUME TypeInv, NEW c \in Conns, FarStep(c)
  PROVE  TypeInv'
<1>0. far \in [Conns -> Far] /\ wire \in [Conns -> Message] /\ far[c] \in Far
  BY TypeFacts
<1>1. UNCHANGED <<slot, accepting, thread, active, online, running, hit>>
  BY DEF FarStep, Connect, SayHello, RegisterServer, SendRequest, SendUpdate, Leave, Send
<1>2. far' \in [Conns -> Far] /\ wire' \in [Conns -> Message]
  <2>1. CASE Connect(c)
    BY <2>1, <1>0 DEF Connect, Far
  <2>2. CASE SayHello(c)
    <3>1. PICK u \in Users \cup {Nobody} :
            /\ wire' = [wire EXCEPT ![c] = [type |-> "CLIENT_HELLO", user |-> u]]
            /\ far' = [far EXCEPT ![c].role = "hello", ![c].user = u, ![c].waits = TRUE]
      BY <2>2 DEF SayHello, Send
    <3>2. QED  BY <3>1, <1>0 DEF Far, Message, Roles
  <2>3. CASE RegisterServer(c)
    BY <2>3, <1>0 DEF RegisterServer, Send, Far, Message, Roles
  <2>4. CASE SendRequest(c)
    <3>1. \/ far' = [far EXCEPT ![c].waits = TRUE]
          \/ far' = [far EXCEPT ![c].role = "leaving", ![c].waits = TRUE]
      BY <2>4 DEF SendRequest
    <3>2. far' \in [Conns -> Far]
      <4>1. CASE far' = [far EXCEPT ![c].waits = TRUE]
        BY <4>1, <1>0 DEF Far
      <4>2. CASE far' = [far EXCEPT ![c].role = "leaving", ![c].waits = TRUE]
        BY <4>2, <1>0 DEF Far, Roles
      <4>3. QED  BY <3>1, <4>1, <4>2
    <3>3. PICK m \in Message : wire' = [wire EXCEPT ![c] = m]
      BY <2>4 DEF SendRequest, Send, Message
    <3>4. QED  BY <3>2, <3>3, <1>0
  <2>5. CASE SendUpdate(c)
    BY <2>5, <1>0 DEF SendUpdate, Send, Far, Message
  <2>6. CASE Leave(c)
    BY <2>6, <1>0, NoneTypes DEF Leave, Far, NoFar, Roles
  <2>7. QED  BY <2>1, <2>2, <2>3, <2>4, <2>5, <2>6 DEF FarStep
<1>3. TypeOK'
  BY <1>1, <1>2 DEF TypeInv, TypeOK, Far
<1>4. \A d \in Conns : Placed(d)'
  BY <1>1 DEF TypeInv, Placed
<1>5. QED  BY <1>3, <1>4 DEF TypeInv

\* The accept loop keeps the types.
LEMMA AcceptType ==
  ASSUME TypeInv, NEW c \in Conns, AcceptStep(c)
  PROVE  TypeInv'
<1>0. /\ slot \in [Slots -> Slot] /\ thread \in [Conns -> Thread] /\ thread[c] \in Thread
      /\ Placed(c)
  BY TypeFacts
<1>1. CASE allocate_peer(c)
  <2> DEFINE i == Min(FreeSlots)
  <2>1. i \in Slots
    BY <1>1, FirstOne, Numbers DEF allocate_peer, FreeSlots
  <2>2. /\ slot' = [slot EXCEPT ![i] = [Unused EXCEPT !.conn = c]]
        /\ thread' = [thread EXCEPT ![c].slot = i]
        /\ accepting' = c /\ thread[c] = NoThread
        /\ UNCHANGED <<active, online, far, wire, running, hit>>
    BY <1>1 DEF allocate_peer, Accepts
  <2> HIDE DEF i
  <2>3. slot' \in [Slots -> Slot] /\ thread' \in [Conns -> Thread]
    BY <2>1, <2>2, <1>0, NoneTypes DEF Slot, Thread, Unused
  <2>4. TypeOK'
    BY <2>2, <2>3 DEF TypeInv, TypeOK, Slot, Thread
  <2>5. ASSUME NEW d \in Conns  PROVE Placed(d)'
    <3>1. Placed(d)
      BY DEF TypeInv
    <3>2. QED  BY <3>1, <2>1, <2>2, <1>0 DEF Placed, NoThread, Own, Busy, Thread
  <2>6. QED  BY <2>4, <2>5 DEF TypeInv
<1>2. CASE TooManyConnections(c)
  <2> DEFINE r == [thread[c] EXCEPT !.pc = "done"]
  <2>1. r \in Thread /\ r.pc = "done" /\ thread' = [thread EXCEPT ![c] = r] /\ accepting # c
    BY <1>0, <1>2, Numbers DEF TooManyConnections, Thread, Places, Accepts
  <2> HIDE DEF r
  <2>2. UNCHANGED <<slot, accepting, active, online, far, wire, running, hit>>
    BY <1>2 DEF TooManyConnections
  <2>3. thread' \in [Conns -> Thread] /\ \A d \in Conns : Placed(d)'
    BY <2>1, <2>2, ThreadType DEF Own, Busy
  <2>4. QED  BY <2>2, <2>3 DEF TypeInv, TypeOK, Thread
<1>3. CASE StartThread(c)
  <2>1. /\ slot' = [slot EXCEPT ![thread[c].slot].type = "unknown",
                                ![thread[c].slot].server = NoConn,
                                ![thread[c].slot].user = Nobody]
        /\ thread' = [thread EXCEPT ![c].pc = "loop"]
        /\ accepting = c /\ accepting' = NoConn
        /\ UNCHANGED <<active, online, far, wire, running, hit>>
    BY <1>3 DEF StartThread
  <2>2. slot' \in [Slots -> Slot] /\ thread' \in [Conns -> Thread]
    <3>1. thread[c].slot \in Slots
      BY <2>1, <1>0 DEF Placed
    <3>2. slot' \in [Slots -> Slot]
      BY <3>1, <2>1, <1>0 DEF Slot, Types
    <3>3. QED  BY <3>2, <2>1, <1>0 DEF Thread, Places
  <2>3. TypeOK'
    BY <2>1, <2>2 DEF TypeInv, TypeOK, Slot, Thread
  <2>4. ASSUME NEW d \in Conns  PROVE Placed(d)'
    <3>1. Placed(d)
      BY DEF TypeInv
    <3>2. QED  BY <3>1, <2>1, <1>0, Numbers DEF Placed, Own, Busy, Thread
  <2>5. QED  BY <2>3, <2>4 DEF TypeInv
<1>4. QED  BY <1>1, <1>2, <1>3 DEF AcceptStep

\* A thread goes on to another place and keeps its slot and its connection.
LEMMA GotoType ==
  ASSUME TypeInv, NEW c \in Conns, thread[c].pc \in Own, UNCHANGED accepting,
         NEW p \in Own \cup {"reset"}, p \in Busy => thread[c].pc \in Busy, Goto(c, p)
  PROVE  thread' \in [Conns -> Thread] /\ \A d \in Conns : Placed(d)'
<1> DEFINE r == [thread[c] EXCEPT !.pc = p]
<1>1. thread \in [Conns -> Thread] /\ thread[c] \in Thread /\ Placed(c)
  BY TypeFacts
<1>2. r \in Thread /\ r.pc = p /\ r.slot = thread[c].slot /\ r.fd = thread[c].fd
  BY <1>1 DEF Thread, Places, Own
<1>3. thread' = [thread EXCEPT ![c] = r]
  BY <1>1 DEF Goto
<1>4. accepting # c /\ thread[c].slot \in Slots
  BY <1>1 DEF Placed, Own
<1> HIDE DEF r
<1>5. QED  BY <1>1, <1>2, <1>3, <1>4, ThreadType DEF Placed

\* A thread is through with a message.
LEMMA DoneType ==
  ASSUME TypeInv, NEW c \in Conns, thread[c].pc \in Own, UNCHANGED accepting,
         NEW p \in {"loop", "lost"}, Done(c, p)
  PROVE  thread' \in [Conns -> Thread] /\ \A d \in Conns : Placed(d)'
<1> DEFINE r == [thread[c] EXCEPT !.pc = p, !.fd = NoConn, !.msg = NoMessage]
<1>1. thread \in [Conns -> Thread] /\ thread[c] \in Thread /\ Placed(c)
  BY TypeFacts
<1>2. r \in Thread /\ r.pc = p /\ r.slot = thread[c].slot
  BY <1>1, NoneTypes DEF Thread, Places
<1>3. thread' = [thread EXCEPT ![c] = r]
  BY <1>1 DEF Done
<1>4. accepting # c /\ thread[c].slot \in Slots
  BY <1>1 DEF Placed, Own
<1> HIDE DEF r
<1>5. QED  BY <1>1, <1>2, <1>3, <1>4, ThreadType DEF Own, Busy

\* Receiving keeps the types.
LEMMA RecvType ==
  ASSUME TypeInv, NEW c \in Conns, BeginRecv(c) \/ net_recv_json(c) \/ RecvFails(c)
  PROVE  TypeInv'
<1>0. /\ slot \in [Slots -> Slot] /\ thread \in [Conns -> Thread] /\ wire \in [Conns -> Message]
      /\ thread[c] \in Thread /\ Placed(c)
  BY TypeFacts
<1>1. CASE BeginRecv(c)
  <2> DEFINE r == [thread[c] EXCEPT !.pc = "recv", !.fd = Peer(c).conn]
  <2>1. thread[c].slot \in Slots /\ accepting # c
    BY <1>0, <1>1 DEF BeginRecv, At, Placed, Own
  <2>2. slot[thread[c].slot] \in Slot
    BY <2>1, <1>0
  <2>3. Peer(c).conn \in Conns \cup {NoConn}
    BY <2>2 DEF Slot, Peer
  <2>4. r \in Thread /\ r.pc = "recv" /\ r.slot = thread[c].slot
    BY <1>0, <2>3 DEF Thread, Places
  <2>5. thread' = [thread EXCEPT ![c] = r]
    BY <1>0, <1>1 DEF BeginRecv
  <2>6. UNCHANGED <<slot, accepting, active, online, far, wire, running, hit>>
    BY <1>1 DEF BeginRecv
  <2> HIDE DEF r
  <2>7. thread' \in [Conns -> Thread] /\ \A d \in Conns : Placed(d)'
    BY <2>1, <2>4, <2>5, <2>6, ThreadType DEF Busy
  <2>8. QED  BY <2>6, <2>7 DEF TypeInv, TypeOK, Thread
<1>2. CASE net_recv_json(c)
  <2> DEFINE m == wire[thread[c].fd]
             r == [thread[c] EXCEPT !.pc = "dispatch", !.msg = m]
  <2>1. thread[c].slot \in Slots /\ accepting # c
    BY <1>0, <1>2 DEF net_recv_json, At, Placed, Own
  <2>2. thread[c].fd \in Conns
    BY <1>0, <1>2 DEF net_recv_json, Thread
  <2>3. m \in Message
    BY <2>2, <1>0
  <2>4. thread' = [thread EXCEPT ![c] = r] /\ wire' = [wire EXCEPT ![thread[c].fd] = NoMessage]
    BY <1>0, <1>2 DEF net_recv_json
  <2> HIDE DEF m
  <2>5. r \in Thread /\ r.pc = "dispatch" /\ r.slot = thread[c].slot /\ r.fd = thread[c].fd
    BY <1>0, <2>3 DEF Thread, Places
  <2>6. UNCHANGED <<slot, accepting, active, online, far, running, hit>>
    BY <1>2 DEF net_recv_json
  <2> HIDE DEF r
  <2>7. thread' \in [Conns -> Thread] /\ \A d \in Conns : Placed(d)'
    BY <2>1, <2>2, <2>4, <2>5, <2>6, ThreadType
  <2>8. wire' \in [Conns -> Message]
    BY <2>4, <1>0, NoneTypes
  <2>9. QED  BY <2>6, <2>7, <2>8 DEF TypeInv, TypeOK, Thread
<1>3. CASE RecvFails(c)
  <2>1. UNCHANGED <<slot, accepting, active, online, far, running, hit>>
    BY <1>3 DEF RecvFails
  <2>2. thread' \in [Conns -> Thread] /\ \A d \in Conns : Placed(d)'
    BY <1>3, <2>1, DoneType DEF RecvFails, At, Own
  <2>3. wire' \in [Conns -> Message]
    BY <1>0, <1>3, NoneTypes DEF RecvFails
  <2>4. QED  BY <2>1, <2>2, <2>3 DEF TypeInv, TypeOK, Thread
<1>4. QED  BY <1>1, <1>2, <1>3

\* Dispatching a message keeps the types.
LEMMA DispatchType ==
  ASSUME TypeInv, NEW c \in Conns, dispatch_message(c)
  PROVE  TypeInv'
<1>0. /\ slot \in [Slots -> Slot] /\ thread \in [Conns -> Thread] /\ thread[c] \in Thread
      /\ Placed(c)
  BY TypeFacts
<1>1. UNCHANGED <<accepting, far, wire, running, hit>>
  BY DEF dispatch_message, username_in_use, active_user_add, WelcomeClient,
         handle_ss_register, UnknownHandshake, handle_client_message, handle_server_message
<1>2. thread[c].pc \in Busy
  BY DEF dispatch_message, username_in_use, active_user_add, WelcomeClient,
         handle_ss_register, UnknownHandshake, handle_client_message, handle_server_message,
         At, Busy
<1>3. thread[c].slot \in Slots /\ thread[c].fd \in Conns /\ thread[c].pc \in Own
  BY <1>0, <1>2 DEF Placed, Busy, Own
<1>4. thread' \in [Conns -> Thread] /\ \A d \in Conns : Placed(d)'
  <2>1. CASE handle_server_message(c)
    BY <2>1, <1>1, <1>3, DoneType DEF handle_server_message
  <2>2. CASE ~handle_server_message(c)
    <3>1. PICK p \in Busy : Goto(c, p)
      BY <2>2 DEF dispatch_message, username_in_use, active_user_add, WelcomeClient,
            handle_ss_register, UnknownHandshake, handle_client_message, Busy
    <3>2. p \in Own \cup {"reset"}
      BY DEF Own, Busy
    <3>3. QED  BY <3>1, <3>2, <1>1, <1>2, <1>3, GotoType
  <2>3. QED  BY <2>1, <2>2
<1>5. thread[c].msg.user \in Users \cup {Nobody}
  BY <1>0 DEF Thread, Message
<1>6. slot' \in [Slots -> Slot] /\ active' \subseteq Users /\ online' \subseteq Conns
  <2>0. active \subseteq Users /\ online \subseteq Conns
    BY DEF TypeInv, TypeOK
  <2>1. CASE WelcomeClient(c)
    BY <2>0, <2>1, <1>0, <1>3, <1>5 DEF WelcomeClient, Slot, Types
  <2>2. CASE handle_ss_register(c)
    BY <2>0, <2>2, <1>0, <1>3 DEF handle_ss_register, Slot, Types
  <2>3. CASE active_user_add(c)
    <3>1. slot' = slot /\ online' = online
      BY <2>3 DEF active_user_add
    <3>2. active' = active \/ (active' = active \cup {thread[c].msg.user} /\ thread[c].msg.user # Nobody)
      BY <2>3 DEF active_user_add
    <3>3. QED  BY <3>1, <3>2, <2>0, <1>0, <1>5
  <2>4. CASE ~(WelcomeClient(c) \/ handle_ss_register(c) \/ active_user_add(c))
    BY <2>0, <2>4, <1>0 DEF dispatch_message, username_in_use, UnknownHandshake,
        handle_client_message, handle_server_message
  <2>5. QED  BY <2>1, <2>2, <2>3, <2>4
<1>7. QED  BY <1>1, <1>4, <1>6 DEF TypeInv, TypeOK, Thread, Slot

\* Answering keeps the types.
LEMMA AnswerType ==
  ASSUME TypeInv, NEW c \in Conns, send_response(c) \/ ResponseLost(c) \/ BrokenPipe(c)
  PROVE  TypeInv'
<1>0. slot \in [Slots -> Slot] /\ far \in [Conns -> Far] /\ Placed(c)
  BY TypeFacts
<1>1. CASE BrokenPipe(c)
  BY <1>1 DEF BrokenPipe, TypeInv, TypeOK, Placed
<1>2. CASE send_response(c) \/ ResponseLost(c)
  <2>1. thread[c].pc \in Own /\ AfterAnswer(c) \in {"loop", "lost"}
    BY <1>2 DEF send_response, ResponseLost, Answering, Own, AfterAnswer
  <2>2. UNCHANGED <<slot, accepting, active, online, wire, running, hit>>
    BY <1>2 DEF send_response, ResponseLost
  <2>3. PICK p \in {"loop", "lost"} : Done(c, p)
    BY <1>2, <2>1 DEF send_response, ResponseLost
  <2>4. thread' \in [Conns -> Thread] /\ \A d \in Conns : Placed(d)'
    BY <2>1, <2>2, <2>3, DoneType
  <2>5. far' \in [Conns -> Far]
    <3>1. CASE ResponseLost(c)
      BY <3>1, <1>0 DEF ResponseLost
    <3>2. CASE send_response(c)
      <4> DEFINE fd == Peer(c).conn
                 ok == thread[c].pc # "refuse"
                 role == NextRole(far[fd].role, ok)
      <4>1. thread[c].slot \in Slots
        BY <1>0, <2>1 DEF Placed
      <4>2. slot[thread[c].slot] \in Slot
        BY <4>1, <1>0
      <4>3. fd \in Conns
        BY <3>2, <4>2 DEF send_response, Slot, Peer
      <4>4. far[fd] \in Far
        BY <4>3, <1>0
      <4>5. role \in Roles
        BY <4>4 DEF NextRole, Far, Roles
      <4>6. far' = [far EXCEPT ![fd] =
                      [far[fd] EXCEPT !.waits = FALSE, !.from = far[fd].from \cup ({c} \ {fd}),
                                      !.role = role]]
        BY <3>2, <4>4, <1>0 DEF send_response, Far
      <4> HIDE DEF fd, role
      <4>7. [far[fd] EXCEPT !.waits = FALSE, !.from = far[fd].from \cup ({c} \ {fd}),
                            !.role = role] \in Far
        BY <4>4, <4>5 DEF Far
      <4>8. QED  BY <4>6, <4>7, <1>0
    <3>3. QED  BY <1>2, <3>1, <3>2
  <2>6. QED  BY <2>2, <2>4, <2>5 DEF TypeInv, TypeOK, Thread, Far
<1>3. QED  BY <1>1, <1>2

\* The end of a thread keeps the types.
LEMMA EndType ==
  ASSUME TypeInv, NEW c \in Conns,
         handle_server_disconnect(c) \/ peer_close(c) \/ peer_reset(c)
  PROVE  TypeInv'
<1>0. slot \in [Slots -> Slot] /\ thread \in [Conns -> Thread] /\ Placed(c)
  BY TypeFacts
<1>1. CASE handle_server_disconnect(c)
  <2>1. UNCHANGED <<slot, accepting, far, wire, running, hit>>
    BY <1>1 DEF handle_server_disconnect
  <2>2. thread' \in [Conns -> Thread] /\ \A d \in Conns : Placed(d)'
    BY <1>1, <2>1, GotoType DEF handle_server_disconnect, At, Own, Busy
  <2>3. active' \subseteq active /\ online' \subseteq online
    BY <1>1 DEF handle_server_disconnect
  <2>4. QED  BY <2>1, <2>2, <2>3 DEF TypeInv, TypeOK, Thread
<1>2. CASE peer_close(c) \/ peer_reset(c)
  <2>0. Peer(c) \in Slot
    BY <1>2, <1>0 DEF peer_close, peer_reset, At, Placed, Own, Peer
  <2>1. /\ slot' = [slot EXCEPT ![thread[c].slot] = Unused] /\ hit' \subseteq Conns
        /\ UNCHANGED <<accepting, active, online, far, wire, running>>
    BY <1>2, <2>0 DEF peer_close, peer_reset, Reset, TypeInv, TypeOK, Slot
  <2>2. slot' \in [Slots -> Slot]
    BY <2>1, <1>0, NoneTypes
  <2>3. thread' \in [Conns -> Thread] /\ \A d \in Conns : Placed(d)'
    <3>1. CASE peer_close(c)
      BY <3>1, <2>1, GotoType DEF peer_close, At, Own, Busy
    <3>2. CASE peer_reset(c)
      <4> DEFINE r == [NoThread EXCEPT !.pc = "done"]
      <4>1. r \in Thread /\ r.pc = "done"
        BY NoneTypes DEF Thread, Places, NoThread
      <4>2. thread' = [thread EXCEPT ![c] = r] /\ accepting # c
        BY <3>2, <1>0 DEF peer_reset, At, Placed
      <4> HIDE DEF r
      <4>3. QED  BY <4>1, <4>2, <2>1, ThreadType DEF Own, Busy
    <3>3. QED  BY <1>2, <3>1, <3>2
  <2>4. QED  BY <2>1, <2>2, <2>3 DEF TypeInv, TypeOK, Thread, Slot
<1>3. QED  BY <1>1, <1>2

\* Every step keeps the types.
LEMMA NextType == TypeInv /\ [Next]_vars => TypeInv'
<1> SUFFICES ASSUME TypeInv, [Next]_vars PROVE TypeInv'  OBVIOUS
<1>1. CASE UNCHANGED vars
  BY <1>1 DEF vars, TypeInv, TypeOK, Placed
<1>2. ASSUME NEW c \in Conns, FarStep(c) \/ AcceptStep(c) \/ ThreadStep(c)
      PROVE  TypeInv'
  BY <1>2, FarType, AcceptType, RecvType, DispatchType, AnswerType, EndType DEF ThreadStep
<1>3. QED  BY <1>1, <1>2 DEF Next

\* The slots, the threads and the lists keep their types: a thread never uses
\* a slot it was not given, and nobody is put online as a server, or into the
\* list of users, that is no connection or has no name.
THEOREM Typing == Spec => []TypeOK
<1>1. TypeInv => TypeOK
  BY DEF TypeInv
<1>2. QED  BY InitType, NextType, <1>1, PTL DEF Spec

-----------------------------------------------------------------------------
(* What a step of one connection leaves alone *)

\* A step of c changes nothing that belongs to another connection.
OthersKept(c) ==
    \A d \in Conns \ {c} :
        /\ thread'[d] = thread[d] /\ far'[d] = far[d] /\ wire'[d] = wire[d]
        /\ accepting' = d => accepting = d
        /\ accepting = d \/ thread[d].pc \in Own => slot'[thread[d].slot] = slot[thread[d].slot]

\* Then it keeps what holds of the others, and what they hold.
LEMMA Frame ==
  ASSUME Undisturbed, NEW c \in Conns, OthersKept(c), NEW d \in Conns \ {c}
  PROVE  Owns(d)' /\ Dialogue(d)' /\ \A u : Holds(d, u)' <=> Holds(d, u)
<1>0. Owns(d) /\ Dialogue(d)
  BY DEF Undisturbed
<1>1. /\ thread'[d] = thread[d] /\ far'[d] = far[d] /\ wire'[d] = wire[d]
      /\ accepting' = d => accepting = d
  BY DEF OthersKept
<1>2. accepting = d \/ thread[d].pc \in Own => Peer(d)' = Peer(d)
  BY <1>1 DEF OthersKept, Peer
<1>3. Owns(d)'
  BY <1>0, <1>1, <1>2 DEF Owns, Own, Busy
<1>4. Silent(d)'
  BY <1>0, <1>1, <1>2 DEF Dialogue, Silent
<1>5. Greeting(d)'
  BY <1>0, <1>1, <1>2 DEF Dialogue, Greeting, HelloFrom, Own
<1>6. Connected(d)'
  BY <1>0, <1>1, <1>2 DEF Dialogue, Connected, Own
<1>7. \A u : Holds(d, u)' <=> Holds(d, u)
  BY <1>1, <1>2 DEF Holds, Own
<1>8. QED  BY <1>3, <1>4, <1>5, <1>6, <1>7 DEF Dialogue

\* A thread changes no slot but its own, and no two threads own the same.
LEMMA SlotKept ==
  ASSUME TypeInv, Undisturbed, NEW c \in Conns, accepting = c \/ thread[c].pc \in Own,
         \A i \in Slots \ {thread[c].slot} : slot'[i] = slot[i],
         NEW d \in Conns \ {c}, accepting = d \/ thread[d].pc \in Own
  PROVE  slot'[thread[d].slot] = slot[thread[d].slot]
<1>1. Owns(c) /\ Owns(d) /\ Placed(d)
  BY DEF Undisturbed, TypeInv
<1>2. slot[thread[c].slot].conn = c /\ slot[thread[d].slot].conn = d
  BY <1>1 DEF Owns, Peer
<1>3. thread[d].slot \in Slots /\ thread[d].slot # thread[c].slot
  BY <1>1, <1>2 DEF Placed
<1>4. QED  BY <1>3

\* A step of c that leaves the list of users alone, and after which c holds
\* what it held.
LEMMA SameNames ==
  ASSUME Undisturbed, NEW c \in Conns, OthersKept(c), Owns(c)', Dialogue(c)',
         active' = active, \A u \in Users : Holds(c, u)' <=> Holds(c, u)
  PROVE  Undisturbed'
<1>1. \A d \in Conns : Owns(d)' /\ Dialogue(d)' /\ \A u \in Users : Holds(d, u)' <=> Holds(d, u)
  BY Frame
<1>2. Listed'
  BY <1>1 DEF Undisturbed, Listed
<1>3. QED  BY <1>1, <1>2 DEF Undisturbed

\* A step of c that touches only its thread, its message and its other end.
LEMMA ThreadOnly ==
  ASSUME TypeInv, NEW c \in Conns, NEW r, thread' = [thread EXCEPT ![c] = r],
         UNCHANGED <<slot, accepting>>,
         \A d \in Conns \ {c} : far'[d] = far[d] /\ wire'[d] = wire[d]
  PROVE  OthersKept(c) /\ thread'[c] = r /\ (r.slot = thread[c].slot => Peer(c)' = Peer(c))
<1>1. thread \in [Conns -> Thread]
  BY TypeFacts
<1>2. QED  BY <1>1 DEF OthersKept, Peer

-----------------------------------------------------------------------------
(* The slots, the list and the dialogues are undisturbed *)

\* There is nobody at the start.
LEMMA InitUndisturbed == Init => Undisturbed
<1> SUFFICES ASSUME Init PROVE Undisturbed  OBVIOUS
<1>1. \A c \in Conns : Owns(c) /\ Dialogue(c)
  BY Numbers DEF Init, Owns, Dialogue, Silent, Greeting, Connected, NoThread, NoFar, Own, Busy
<1>2. Listed
  BY DEF Init, Listed, Holds, NoThread
<1>3. QED  BY <1>1, <1>2 DEF Undisturbed

\* What the other end of a connection does.
LEMMA FarKept ==
  ASSUME TypeInv, Undisturbed, NEW c \in Conns, FarStep(c)
  PROVE  Undisturbed'
<1>0. /\ far \in [Conns -> Far] /\ wire \in [Conns -> Message] /\ far[c] \in Far
      /\ Owns(c) /\ Silent(c) /\ Greeting(c) /\ Connected(c)
  BY TypeFacts DEF Undisturbed, Dialogue
<1>1. UNCHANGED <<slot, accepting, thread, active>> /\ thread[c].pc # "done"
  BY DEF FarStep, Connect, SayHello, RegisterServer, SendRequest, SendUpdate, Leave, Send
<1>2. \A d \in Conns \ {c} : far'[d] = far[d] /\ wire'[d] = wire[d]
  BY <1>0 DEF FarStep, Connect, SayHello, RegisterServer, SendRequest, SendUpdate, Leave, Send
<1>3. OthersKept(c) /\ \A u \in Users : Holds(c, u)' <=> Holds(c, u)
  BY <1>1, <1>2 DEF OthersKept, Holds, Peer
<1>4. Owns(c)' /\ Dialogue(c)'
  <2>1. CASE Connect(c)
    <3>1. far'[c] = [far[c] EXCEPT !.state = "open"] /\ wire'[c] = wire[c] /\ far[c].state = "none"
      BY <2>1, <1>0 DEF Connect
    <3>2. QED  BY <3>1, <1>0, <1>1
               DEF Owns, Peer, Dialogue, Silent, Greeting, Connected, Far
  <2>2. CASE SayHello(c)
    <3>1. PICK u \in Users \cup {Nobody} :
            /\ wire'[c] = [type |-> "CLIENT_HELLO", user |-> u]
            /\ far'[c] = [far[c] EXCEPT !.role = "hello", !.user = u, !.waits = TRUE]
      BY <2>2, <1>0 DEF SayHello, Send, Far
    <3>2. far[c].state = "open" /\ far[c].role = "none"
      BY <2>2 DEF SayHello, Send
    <3>3. QED  BY <3>1, <3>2, <1>0, <1>1
               DEF Owns, Peer, Dialogue, Silent, Greeting, Connected, Far, HelloFrom, Own
  <2>3. CASE RegisterServer(c)
    <3>1. far'[c] = [far[c] EXCEPT !.role = "registering", !.waits = TRUE]
      BY <2>3, <1>0 DEF RegisterServer, Far
    <3>2. far[c].state = "open"
      BY <2>3 DEF RegisterServer, Send
    <3>3. QED  BY <3>1, <3>2, <1>0, <1>1
               DEF Owns, Peer, Dialogue, Silent, Greeting, Connected, Far
  <2>4. CASE SendRequest(c)
    <3>1. far[c].state = "open" /\ far[c].role = "client"
      BY <2>4 DEF SendRequest, Send
    <3>2. \/ /\ wire'[c] = [type |-> "request", user |-> Nobody]
             /\ far'[c] = [far[c] EXCEPT !.waits = TRUE]
          \/ far'[c] = [far[c] EXCEPT !.role = "leaving", !.waits = TRUE]
      BY <2>4, <1>0 DEF SendRequest, Send, Far
    <3>3. /\ far'[c].from = far[c].from /\ far'[c].state = "open" /\ far'[c].user = far[c].user
          /\ \/ far'[c].role = "client" /\ wire'[c].type = "request"
             \/ far'[c].role = "leaving"
      <4>1. CASE far'[c] = [far[c] EXCEPT !.role = "leaving", !.waits = TRUE]
        BY <4>1, <3>1, <1>0 DEF Far
      <4>2. CASE /\ wire'[c] = [type |-> "request", user |-> Nobody]
                 /\ far'[c] = [far[c] EXCEPT !.waits = TRUE]
        BY <4>2, <3>1, <1>0 DEF Far
      <4>3. QED  BY <3>2, <4>1, <4>2
    <3>4. Owns(c)' /\ Silent(c)' /\ Greeting(c)'
      BY <3>3, <1>0, <1>1 DEF Owns, Peer, Silent, Greeting
    <3>5. Connected(c)'
      BY <3>1, <3>3, <1>0, <1>1 DEF Peer, Connected
    <3>6. QED  BY <3>4, <3>5 DEF Dialogue
  <2>5. CASE SendUpdate(c)
    <3>1. far' = far /\ far[c].state = "open" /\ far[c].role = "server"
      BY <2>5 DEF SendUpdate, Send
    <3>2. QED  BY <3>1, <1>0, <1>1
               DEF Owns, Peer, Dialogue, Silent, Greeting, Connected
  <2>6. CASE Leave(c)
    <3>1. far'[c].state = "left" /\ far'[c].from = far[c].from
      BY <2>6, <1>0 DEF Leave, NoFar
    <3>2. QED  BY <3>1, <1>0, <1>1
               DEF Owns, Peer, Dialogue, Silent, Greeting, Connected
  <2>7. QED  BY <2>1, <2>2, <2>3, <2>4, <2>5, <2>6 DEF FarStep
<1>5. QED  BY <1>1, <1>3, <1>4, SameNames

\* The accept loop gives away a slot that nobody owns.
LEMMA AcceptKept ==
  ASSUME TypeInv, Undisturbed, NEW c \in Conns, AcceptStep(c)
  PROVE  Undisturbed'
<1>0. /\ slot \in [Slots -> Slot] /\ thread \in [Conns -> Thread] /\ thread[c] \in Thread
      /\ Placed(c) /\ Owns(c) /\ Silent(c) /\ Greeting(c) /\ Connected(c)
  BY TypeFacts DEF Undisturbed, Dialogue
<1>1. CASE allocate_peer(c)
  <2> DEFINE i == Min(FreeSlots)
  <2>1. i \in Slots /\ slot[i].type = "unused"
    BY <1>1, FirstOne, Numbers DEF allocate_peer, FreeSlots
  <2>2. /\ slot' = [slot EXCEPT ![i] = [Unused EXCEPT !.conn = c]]
        /\ thread' = [thread EXCEPT ![c].slot = i]
        /\ accepting = NoConn /\ accepting' = c /\ thread[c] = NoThread
        /\ UNCHANGED <<active, far, wire>>
    BY <1>1 DEF allocate_peer, Accepts
  <2> HIDE DEF i
  <2>3. OthersKept(c)
    <3> SUFFICES ASSUME NEW d \in Conns \ {c}
                 PROVE  /\ thread'[d] = thread[d] /\ accepting' # d
                        /\ accepting = d \/ thread[d].pc \in Own
                              => slot'[thread[d].slot] = slot[thread[d].slot]
      BY <2>2 DEF OthersKept
    <3>1. thread'[d] = thread[d] /\ accepting' # d /\ accepting # d
      BY <2>2, <1>0, Numbers
    <3>2. ASSUME thread[d].pc \in Own  PROVE slot'[thread[d].slot] = slot[thread[d].slot]
      <4>1. thread[d].slot \in Slots /\ slot[thread[d].slot].type # "unused"
        BY <3>2 DEF TypeInv, Placed, Undisturbed, Owns, Peer
      <4>2. QED  BY <4>1, <2>1, <2>2, <1>0
    <3>3. QED  BY <3>1, <3>2
  <2>4. thread[c].pc = "none" /\ thread'[c].pc = "none" /\ thread'[c].slot = i
    BY <2>2, <1>0 DEF NoThread
  <2>5. Peer(c)'.conn = c
    BY <2>1, <2>2, <2>4, <1>0 DEF Peer, Unused
  <2>6. Owns(c)'
    BY <2>4, <2>5, <2>2, <1>0 DEF Owns, Own, Busy
  <2>7. Silent(c)' /\ Greeting(c)' /\ Connected(c)'
    BY <2>4, <2>2, <1>0 DEF Silent, Greeting, Connected, Own, HelloFrom
  <2>8. \A u \in Users : Holds(c, u)' <=> Holds(c, u)
    BY <2>4 DEF Holds
  <2>9. QED  BY <2>2, <2>3, <2>6, <2>7, <2>8, SameNames DEF Dialogue
<1>2. CASE TooManyConnections(c)
  <2> DEFINE r == [thread[c] EXCEPT !.pc = "done"]
  <2>1. /\ thread' = [thread EXCEPT ![c] = r] /\ r.pc = "done" /\ thread[c].pc = "none"
        /\ accepting # c /\ r.slot = thread[c].slot
        /\ UNCHANGED <<slot, accepting, active, far, wire>>
    BY <1>0, <1>2, Numbers DEF TooManyConnections, Thread, Accepts, NoThread
  <2> HIDE DEF r
  <2>2. OthersKept(c) /\ thread'[c] = r
    BY <2>1, ThreadOnly
  <2>3. Owns(c)'
    BY <2>1, <2>2, <1>0 DEF Owns, Own, Busy
  <2>4. Silent(c)' /\ Greeting(c)' /\ Connected(c)'
    BY <2>1, <2>2, <1>0 DEF Silent, Greeting, Connected, Own, HelloFrom
  <2>5. \A u \in Users : Holds(c, u)' <=> Holds(c, u)
    BY <2>1, <2>2 DEF Holds
  <2>6. QED  BY <2>1, <2>2, <2>3, <2>4, <2>5, SameNames DEF Dialogue
<1>3. CASE StartThread(c)
  <2>1. /\ slot' = [slot EXCEPT ![thread[c].slot].type = "unknown",
                                ![thread[c].slot].server = NoConn,
                                ![thread[c].slot].user = Nobody]
        /\ thread' = [thread EXCEPT ![c].pc = "loop"]
        /\ accepting = c /\ accepting' = NoConn
        /\ UNCHANGED <<active, far, wire>>
    BY <1>3 DEF StartThread
  <2>2. thread[c].pc = "none" /\ thread[c].slot \in Slots
    BY <2>1, <1>0 DEF Placed
  <2>3. /\ thread'[c].pc = "loop" /\ thread'[c].slot = thread[c].slot
        /\ \A d \in Conns \ {c} : thread'[d] = thread[d]
    BY <2>1, <1>0 DEF Thread
  <2>4. Peer(c)'.type = "unknown" /\ Peer(c)'.conn = Peer(c).conn
    BY <2>1, <2>2, <2>3, <1>0 DEF Peer, Slot
  <2>5. OthersKept(c)
    <3>1. \A j \in Slots \ {thread[c].slot} : slot'[j] = slot[j]
      BY <2>1, <1>0
    <3>2. QED  BY <2>1, <2>3, <3>1, SlotKept, Numbers DEF OthersKept
  <2>6. Owns(c)'
    BY <2>1, <2>3, <2>4, <1>0, Numbers DEF Owns, Own, Busy
  <2>7. Silent(c)' /\ Greeting(c)' /\ Connected(c)'
    BY <2>1, <2>2, <2>3, <2>4, <1>0 DEF Silent, Greeting, Connected, Own, HelloFrom
  <2>8. \A u \in Users : Holds(c, u)' <=> Holds(c, u)
    BY <2>2, <2>3, <2>4 DEF Holds
  <2>9. QED  BY <2>1, <2>5, <2>6, <2>7, <2>8, SameNames DEF Dialogue
<1>4. QED  BY <1>1, <1>2, <1>3 DEF AcceptStep

\* A thread receives from its own connection.
LEMMA RecvKept ==
  ASSUME TypeInv, Undisturbed, NEW c \in Conns,
         BeginRecv(c) \/ net_recv_json(c) \/ RecvFails(c)
  PROVE  Undisturbed'
<1>0. /\ thread \in [Conns -> Thread] /\ thread[c] \in Thread /\ wire \in [Conns -> Message]
      /\ Placed(c) /\ Owns(c) /\ Silent(c) /\ Greeting(c) /\ Connected(c)
  BY TypeFacts DEF Undisturbed, Dialogue
<1>1. UNCHANGED <<slot, accepting, active, far>>
  BY DEF BeginRecv, net_recv_json, RecvFails
<1>2. CASE BeginRecv(c)
  <2> DEFINE r == [thread[c] EXCEPT !.pc = "recv", !.fd = c]
  <2>1. thread[c].pc = "loop" /\ Peer(c).conn = c /\ wire' = wire
    BY <1>0, <1>2 DEF BeginRecv, At, Owns, Own
  <2>2. /\ thread' = [thread EXCEPT ![c] = r] /\ r.pc = "recv" /\ r.fd = c
        /\ r.slot = thread[c].slot /\ r.msg = thread[c].msg
    BY <1>0, <1>2, <2>1 DEF BeginRecv, Thread
  <2> HIDE DEF r
  <2>3. OthersKept(c) /\ thread'[c] = r /\ Peer(c)' = Peer(c)
    BY <1>1, <2>1, <2>2, ThreadOnly
  <2>4. Owns(c)'
    BY <1>0, <1>1, <2>1, <2>2, <2>3 DEF Owns, Own, Busy
  <2>5. Silent(c)' /\ Greeting(c)' /\ Connected(c)'
    BY <1>0, <1>1, <2>1, <2>2, <2>3 DEF Silent, Greeting, Connected, Own, HelloFrom
  <2>6. \A u \in Users : Holds(c, u)' <=> Holds(c, u)
    BY <2>1, <2>2, <2>3 DEF Holds
  <2>7. QED  BY <1>1, <2>3, <2>4, <2>5, <2>6, SameNames DEF Dialogue
<1>3. CASE net_recv_json(c)
  <2> DEFINE r == [thread[c] EXCEPT !.pc = "dispatch", !.msg = wire[c]]
  <2>1. thread[c].pc = "recv" /\ thread[c].fd = c
    BY <1>0, <1>3 DEF net_recv_json, At, Owns
  <2>2. /\ thread' = [thread EXCEPT ![c] = r] /\ r.pc = "dispatch" /\ r.fd = c
        /\ r.slot = thread[c].slot /\ r.msg = wire[c]
        /\ wire' = [wire EXCEPT ![c] = NoMessage] /\ wire[c] # NoMessage
    BY <1>0, <1>3, <2>1 DEF net_recv_json, Thread
  <2> HIDE DEF r
  <2>3. OthersKept(c) /\ thread'[c] = r /\ Peer(c)' = Peer(c) /\ wire'[c] = NoMessage
    BY <1>0, <1>1, <2>2, ThreadOnly
  <2>4. Owns(c)'
    BY <1>0, <1>1, <2>1, <2>2, <2>3 DEF Owns, Own, Busy
  <2>5. Silent(c)' /\ Greeting(c)' /\ Connected(c)'
    BY <1>0, <1>1, <2>1, <2>2, <2>3
       DEF Silent, Greeting, Connected, Own, HelloFrom, NoMessage
  <2>6. \A u \in Users : Holds(c, u)' <=> Holds(c, u)
    BY <2>1, <2>2, <2>3 DEF Holds
  <2>7. QED  BY <1>1, <2>3, <2>4, <2>5, <2>6, SameNames DEF Dialogue
<1>4. CASE RecvFails(c)
  <2> DEFINE r == [thread[c] EXCEPT !.pc = "lost", !.fd = NoConn, !.msg = NoMessage]
  <2>1. thread[c].pc = "recv" /\ thread[c].fd = c /\ far[c].state = "left"
    BY <1>0, <1>4, Numbers DEF RecvFails, At, Owns
  <2>2. /\ thread' = [thread EXCEPT ![c] = r] /\ r.pc = "lost" /\ r.slot = thread[c].slot
        /\ wire' = [wire EXCEPT ![c] = NoMessage]
    BY <1>0, <1>4, <2>1, Numbers DEF RecvFails, Done, Thread
  <2> HIDE DEF r
  <2>3. OthersKept(c) /\ thread'[c] = r /\ Peer(c)' = Peer(c)
    BY <1>0, <1>1, <2>2, ThreadOnly
  <2>4. Owns(c)'
    BY <1>0, <1>1, <2>1, <2>2, <2>3 DEF Owns, Own, Busy
  <2>5. Silent(c)' /\ Greeting(c)' /\ Connected(c)'
    BY <1>1, <2>1 DEF Silent, Greeting, Connected
  <2>6. \A u \in Users : Holds(c, u)' <=> Holds(c, u)
    BY <2>1, <2>2, <2>3 DEF Holds
  <2>7. QED  BY <1>1, <2>3, <2>4, <2>5, <2>6, SameNames DEF Dialogue
<1>5. QED  BY <1>2, <1>3, <1>4

\* A thread goes on to another place and touches nothing but itself.
LEMMA GotoKept ==
  ASSUME TypeInv, NEW c \in Conns, NEW p, Goto(c, p), UNCHANGED <<slot, accepting, far, wire>>
  PROVE  /\ OthersKept(c) /\ Peer(c)' = Peer(c) /\ thread'[c].pc = p
         /\ thread'[c].fd = thread[c].fd /\ thread'[c].msg = thread[c].msg
<1> DEFINE r == [thread[c] EXCEPT !.pc = p]
<1>1. thread \in [Conns -> Thread] /\ thread[c] \in Thread
  BY TypeFacts
<1>2. /\ thread' = [thread EXCEPT ![c] = r] /\ r.pc = p /\ r.slot = thread[c].slot
      /\ r.fd = thread[c].fd /\ r.msg = thread[c].msg
  BY <1>1 DEF Goto, Thread
<1> HIDE DEF r
<1>3. QED  BY <1>2, ThreadOnly

\* The same when it is through with a message.
LEMMA DoneKept ==
  ASSUME TypeInv, NEW c \in Conns, NEW p, Done(c, p), UNCHANGED <<slot, accepting, wire>>,
         \A d \in Conns \ {c} : far'[d] = far[d]
  PROVE  /\ OthersKept(c) /\ Peer(c)' = Peer(c) /\ thread'[c].pc = p
         /\ thread'[c].msg = NoMessage
<1> DEFINE r == [thread[c] EXCEPT !.pc = p, !.fd = NoConn, !.msg = NoMessage]
<1>1. thread \in [Conns -> Thread] /\ thread[c] \in Thread
  BY TypeFacts
<1>2. /\ thread' = [thread EXCEPT ![c] = r] /\ r.pc = p /\ r.slot = thread[c].slot
      /\ r.msg = NoMessage
  BY <1>1 DEF Done, Thread
<1> HIDE DEF r
<1>3. QED  BY <1>2, ThreadOnly

\* A name is put into the list by the only thread that will hold it.
LEMMA AddKept ==
  ASSUME TypeInv, Undisturbed, NEW c \in Conns, active_user_add(c)
  PROVE  Undisturbed'
<1> DEFINE u == thread[c].msg.user
<1>0. /\ thread[c] \in Thread
      /\ Owns(c) /\ Silent(c) /\ Greeting(c) /\ Connected(c)
  BY TypeFacts DEF Undisturbed, Dialogue
<1>1. UNCHANGED <<slot, accepting, far, wire>> /\ thread[c].pc = "add"
  BY DEF active_user_add, At
<1>2. Peer(c).type = "unknown" /\ u \in Users \cup {Nobody}
  BY <1>0, <1>1 DEF Owns, Thread, Message
<1>3. CASE u \in active \cup {Nobody}
  <2>1. Goto(c, "refuse") /\ active' = active
    BY <1>3 DEF active_user_add
  <2>2. /\ OthersKept(c) /\ Peer(c)' = Peer(c) /\ thread'[c].pc = "refuse"
        /\ thread'[c].fd = thread[c].fd /\ thread'[c].msg = thread[c].msg
    BY <1>1, <2>1, GotoKept
  <2>3. Owns(c)'
    BY <1>0, <1>1, <2>2 DEF Owns, Own, Busy
  <2>4. Silent(c)' /\ Greeting(c)' /\ Connected(c)'
    BY <1>0, <1>1, <2>2 DEF Silent, Greeting, Connected
  <2>5. \A v \in Users : Holds(c, v)' <=> Holds(c, v)
    BY <1>1, <1>2, <2>2 DEF Holds
  <2>6. QED  BY <2>1, <2>2, <2>3, <2>4, <2>5, SameNames DEF Dialogue
<1>4. CASE u \notin active \cup {Nobody}
  <2>1. Goto(c, "hello") /\ active' = active \cup {u}
    BY <1>4 DEF active_user_add
  <2>2. /\ OthersKept(c) /\ Peer(c)' = Peer(c) /\ thread'[c].pc = "hello"
        /\ thread'[c].fd = thread[c].fd /\ thread'[c].msg = thread[c].msg
    BY <1>1, <2>1, GotoKept
  <2>3. Owns(c)'
    BY <1>0, <1>1, <2>2 DEF Owns, Own, Busy
  <2>4. u \in Users
    BY <1>2, <1>4
  <2>5. Silent(c)' /\ Connected(c)'
    BY <1>0, <1>1, <2>2 DEF Silent, Connected
  <2>6. Greeting(c)'
    BY <1>0, <1>1, <2>2, <2>4 DEF Greeting, HelloFrom
  <2>7. \A d \in Conns : Owns(d)' /\ Dialogue(d)'
    BY <2>2, <2>3, <2>5, <2>6, Frame DEF Dialogue
  <2>8. \A d \in Conns \ {c} : \A v : Holds(d, v)' <=> Holds(d, v)
    BY <2>2, Frame
  <2>9. \A v : ~Holds(c, v) /\ (Holds(c, v)' <=> v = u)
    BY <1>1, <2>2 DEF Holds
  <2>10. /\ active = {v \in Users : \E d \in Conns : Holds(d, v)}
         /\ \A d, e \in Conns : \A v \in Users : Holds(d, v) /\ Holds(e, v) => d = e
    BY DEF Undisturbed, Listed
  <2>11. \A v \in Users : (\E d \in Conns : Holds(d, v)') <=> (v = u \/ \E d \in Conns : Holds(d, v))
    BY <2>8, <2>9
  <2>12. active' = {v \in Users : \E d \in Conns : Holds(d, v)'}
    BY <2>1, <2>4, <2>10, <2>11
  <2>13. \A d \in Conns : ~Holds(d, u)
    BY <1>4, <2>4, <2>10
  <2> HIDE DEF u
  <2>14. ASSUME NEW d \in Conns, NEW e \in Conns, NEW v \in Users, Holds(d, v)', Holds(e, v)'
         PROVE  d = e
    BY <2>8, <2>9, <2>10, <2>13, <2>14
  <2>15. Listed'
    BY <2>12, <2>14 DEF Listed
  <2>16. QED  BY <2>7, <2>15 DEF Undisturbed
<1>5. QED  BY <1>3, <1>4

\* The handshakes, and the messages of clients and servers that are known.
LEMMA DispatchKept ==
  ASSUME TypeInv, Undisturbed, NEW c \in Conns, dispatch_message(c)
  PROVE  Undisturbed'
<1>0. /\ slot \in [Slots -> Slot] /\ thread \in [Conns -> Thread] /\ thread[c] \in Thread
      /\ Placed(c) /\ Owns(c) /\ Silent(c) /\ Greeting(c) /\ Connected(c)
  BY TypeFacts DEF Undisturbed, Dialogue
<1>1. CASE username_in_use(c) \/ UnknownHandshake(c)
  <2>1. /\ thread[c].pc = "dispatch" /\ Peer(c).type = "unknown"
        /\ UNCHANGED <<slot, accepting, active, far, wire>>
    BY <1>1 DEF username_in_use, UnknownHandshake, At, Hello
  <2>2. PICK p \in {"refuse", "add"} : Goto(c, p)
    BY <1>1 DEF username_in_use, UnknownHandshake
  <2>3. /\ OthersKept(c) /\ Peer(c)' = Peer(c) /\ thread'[c].pc = p
        /\ thread'[c].fd = thread[c].fd /\ thread'[c].msg = thread[c].msg
    BY <2>1, <2>2, GotoKept
  <2>4. Owns(c)'
    BY <1>0, <2>1, <2>3 DEF Owns, Own, Busy
  <2>5. Silent(c)' /\ Greeting(c)' /\ Connected(c)'
    BY <1>0, <2>1, <2>3 DEF Silent, Greeting, Connected, HelloFrom
  <2>6. \A u \in Users : Holds(c, u)' <=> Holds(c, u)
    BY <2>1, <2>3 DEF Holds
  <2>7. QED  BY <2>1, <2>3, <2>4, <2>5, <2>6, SameNames DEF Dialogue
<1>2. CASE WelcomeClient(c)
  <2>1. /\ slot' = [slot EXCEPT ![thread[c].slot].user = thread[c].msg.user,
                                ![thread[c].slot].type = "client"]
        /\ thread' = [thread EXCEPT ![c].pc = "accept"] /\ thread[c].pc = "hello"
        /\ UNCHANGED <<accepting, active, far, wire>>
    BY <1>2 DEF WelcomeClient, Goto, At
  <2>2. thread[c].slot \in Slots
    BY <2>1, <1>0 DEF Placed, Own
  <2>3. /\ thread'[c].pc = "accept" /\ thread'[c].slot = thread[c].slot
        /\ thread'[c].fd = thread[c].fd
        /\ \A d \in Conns \ {c} : thread'[d] = thread[d]
    BY <2>1, <1>0 DEF Thread
  <2>4. /\ Peer(c)'.type = "client" /\ Peer(c)'.user = thread[c].msg.user
        /\ Peer(c)'.conn = Peer(c).conn
    BY <2>1, <2>2, <2>3, <1>0 DEF Peer, Slot
  <2>5. OthersKept(c)
    <3>1. \A j \in Slots \ {thread[c].slot} : slot'[j] = slot[j]
      BY <2>1, <1>0
    <3>2. thread[c].pc \in Own
      BY <2>1 DEF Own
    <3>3. QED  BY <2>1, <2>3, <3>1, <3>2, SlotKept DEF OthersKept
  <2>6. Owns(c)'
    BY <2>1, <2>3, <2>4, <1>0 DEF Owns, Own, Busy
  <2>7. Silent(c)' /\ Connected(c)'
    BY <2>1, <2>3, <1>0 DEF Silent, Connected
  <2>8. Greeting(c)'
    BY <2>1, <2>3, <2>4, <1>0 DEF Greeting, HelloFrom
  <2>9. \A u \in Users : Holds(c, u)' <=> Holds(c, u)
    BY <2>1, <2>3, <2>4 DEF Holds
  <2>10. QED  BY <2>1, <2>5, <2>6, <2>7, <2>8, <2>9, SameNames DEF Dialogue
<1>3. CASE handle_ss_register(c)
  <2>1. /\ slot' = [slot EXCEPT ![thread[c].slot].type = "server",
                                ![thread[c].slot].server = thread[c].fd]
        /\ thread' = [thread EXCEPT ![c].pc = "accept"] /\ thread[c].pc = "dispatch"
        /\ Peer(c).type = "unknown" /\ thread[c].msg.type = "SS_REGISTER"
        /\ UNCHANGED <<accepting, active, far, wire>>
    BY <1>3 DEF handle_ss_register, Goto, At
  <2>2. thread[c].slot \in Slots
    BY <2>1, <1>0 DEF Placed, Own
  <2>3. /\ thread'[c].pc = "accept" /\ thread'[c].slot = thread[c].slot
        /\ thread'[c].fd = thread[c].fd
        /\ \A d \in Conns \ {c} : thread'[d] = thread[d]
    BY <2>1, <1>0 DEF Thread
  <2>4. Peer(c)'.type = "server" /\ Peer(c)'.conn = Peer(c).conn
    BY <2>1, <2>2, <2>3, <1>0 DEF Peer, Slot
  <2>5. OthersKept(c)
    <3>1. \A j \in Slots \ {thread[c].slot} : slot'[j] = slot[j]
      BY <2>1, <1>0
    <3>2. thread[c].pc \in Own
      BY <2>1 DEF Own
    <3>3. QED  BY <2>1, <2>3, <3>1, <3>2, SlotKept DEF OthersKept
  <2>6. Owns(c)'
    BY <2>1, <2>3, <2>4, <1>0 DEF Owns, Own, Busy
  <2>7. Silent(c)' /\ Greeting(c)' /\ Connected(c)'
    BY <2>1, <2>3, <1>0 DEF Silent, Greeting, Connected, HelloFrom
  <2>8. \A u \in Users : Holds(c, u)' <=> Holds(c, u)
    BY <2>1, <2>3, <2>4 DEF Holds
  <2>9. QED  BY <2>1, <2>5, <2>6, <2>7, <2>8, SameNames DEF Dialogue
<1>4. CASE handle_client_message(c)
  <2>1. /\ thread[c].pc = "dispatch" /\ Peer(c).type = "client"
        /\ Goto(c, IF thread[c].msg.type = "CLIENT_EXIT" THEN "exit" ELSE "accept")
        /\ UNCHANGED <<slot, accepting, active, far, wire>>
    BY <1>4 DEF handle_client_message, At
  <2>2. /\ OthersKept(c) /\ Peer(c)' = Peer(c)
        /\ thread'[c].pc = IF thread[c].msg.type = "CLIENT_EXIT" THEN "exit" ELSE "accept"
        /\ thread'[c].fd = thread[c].fd /\ thread'[c].msg = thread[c].msg
    BY <2>1, GotoKept
  <2>3. Owns(c)'
    BY <1>0, <2>1, <2>2 DEF Owns, Own, Busy
  <2>4. Silent(c)' /\ Greeting(c)' /\ Connected(c)'
    BY <1>0, <2>1, <2>2 DEF Silent, Greeting, Connected
  <2>5. \A u \in Users : Holds(c, u)' <=> Holds(c, u)
    BY <2>1, <2>2 DEF Holds
  <2>6. QED  BY <2>1, <2>2, <2>3, <2>4, <2>5, SameNames DEF Dialogue
<1>5. CASE handle_server_message(c)
  <2>1. /\ thread[c].pc = "dispatch" /\ Peer(c).type \in {"server", "unused"}
        /\ UNCHANGED <<slot, accepting, active, far, wire>>
    BY <1>5 DEF handle_server_message, At
  <2>2. PICK p \in {"loop", "lost"} : Done(c, p)
    BY <1>5 DEF handle_server_message
  <2>3. OthersKept(c) /\ Peer(c)' = Peer(c) /\ thread'[c].pc = p
    BY <2>1, <2>2, DoneKept
  <2>4. Owns(c)'
    BY <1>0, <2>1, <2>3 DEF Owns, Own, Busy
  <2>5. Silent(c)' /\ Greeting(c)' /\ Connected(c)'
    BY <1>0, <2>1, <2>3 DEF Silent, Greeting, Connected
  <2>6. \A u \in Users : Holds(c, u)' <=> Holds(c, u)
    BY <2>1, <2>3 DEF Holds
  <2>7. QED  BY <2>1, <2>3, <2>4, <2>5, <2>6, SameNames DEF Dialogue
<1>6. QED  BY <1>1, <1>2, <1>3, <1>4, <1>5, AddKept DEF dispatch_message

\* The connection in the slot of a thread that answers is its own.
LEMMA AnswerKept ==
  ASSUME TypeInv, Undisturbed, NEW c \in Conns,
         send_response(c) \/ ResponseLost(c) \/ BrokenPipe(c)
  PROVE  Undisturbed'
<1>0. /\ far \in [Conns -> Far] /\ far[c] \in Far
      /\ Owns(c) /\ Silent(c) /\ Greeting(c) /\ Connected(c)
  BY TypeFacts DEF Undisturbed, Dialogue
<1>1. thread[c].pc \in {"refuse", "accept", "exit"} /\ UNCHANGED <<slot, accepting, active, wire>>
  BY DEF send_response, ResponseLost, BrokenPipe, Answering
<1>2. Peer(c).conn = c
  BY <1>0, <1>1 DEF Owns, Own
<1>3. CASE BrokenPipe(c)
  BY <1>3 DEF BrokenPipe, Undisturbed, Listed, Holds, Owns, Dialogue, Silent, Greeting,
              Connected, HelloFrom, Peer
<1>4. CASE ResponseLost(c)
  <2>1. far' = far /\ far[c].state = "left"
    BY <1>2, <1>4, Numbers DEF ResponseLost
  <2>2. \/ Done(c, "lost")
        \/ Done(c, AfterAnswer(c))
    BY <1>4 DEF ResponseLost
  <2>3. PICK p \in {"loop", "lost"} : Done(c, p)
    BY <2>2 DEF AfterAnswer
  <2>4. OthersKept(c) /\ Peer(c)' = Peer(c) /\ thread'[c].pc = p
    BY <1>1, <2>1, <2>3, DoneKept
  <2>5. Owns(c)'
    BY <1>0, <1>1, <2>1, <2>4 DEF Owns, Own, Busy
  <2>6. Silent(c)' /\ Greeting(c)' /\ Connected(c)'
    BY <2>1 DEF Silent, Greeting, Connected
  <2>7. \A u \in Users : Holds(c, u)' <=> Holds(c, u)
    BY <1>1, <2>4 DEF Holds
  <2>8. QED  BY <1>1, <2>4, <2>5, <2>6, <2>7, SameNames DEF Dialogue
<1>5. CASE send_response(c)
  <2> DEFINE role == NextRole(far[c].role, thread[c].pc # "refuse")
             e == [far[c] EXCEPT !.waits = FALSE, !.from = far[c].from \cup ({c} \ {c}),
                                 !.role = role]
  <2>1. far' = [far EXCEPT ![c] = e] /\ Done(c, AfterAnswer(c)) /\ far[c].state = "open"
    <3>1. /\ far' = [far EXCEPT ![c].waits = FALSE, ![c].from = @ \cup ({c} \ {c}),
                                ![c].role = NextRole(@, thread[c].pc # "refuse")]
          /\ Done(c, AfterAnswer(c)) /\ far[c].state = "open"
      BY <1>2, <1>5, Zenon DEF send_response
    <3>2. QED  BY <3>1, <1>0 DEF Far
  <2>2. /\ e.state = "open" /\ e.role = role /\ e.from = far[c].from
        /\ e.user = far[c].user
    BY <1>0, <2>1 DEF Far
  <2> HIDE DEF e
  <2>3. far'[c] = e /\ \A d \in Conns \ {c} : far'[d] = far[d]
    BY <2>1, <1>0
  <2>4. /\ OthersKept(c) /\ Peer(c)' = Peer(c) /\ thread'[c].pc = AfterAnswer(c)
        /\ thread'[c].msg = NoMessage
    BY <1>1, <2>1, <2>3, DoneKept
  <2>5. Owns(c)'
    BY <1>0, <1>1, <2>2, <2>3, <2>4 DEF Owns, Own, Busy, AfterAnswer
  <2>6. far[c].role # "none" /\ (far[c].role \in {"hello", "client"} => thread[c].pc # "exit")
    BY <1>0, <1>1, <2>1 DEF Silent, Greeting, Connected
  <2>7. role \notin {"none", "hello"} /\ (role = "client" => far[c].role \in {"hello", "client"})
    BY <2>6 DEF NextRole
  <2>8. Silent(c)' /\ Greeting(c)'
    BY <2>2, <2>3, <2>7 DEF Silent, Greeting
  <2>9. Connected(c)'
    <3>1. ASSUME role = "client"
          PROVE  /\ thread[c].pc = "accept" /\ Peer(c).type = "client"
                 /\ Peer(c).user = far[c].user /\ far[c].user \in Users
                 /\ wire[c].type # "CLIENT_EXIT"
      <4>1. CASE far[c].role = "hello"
        BY <3>1, <4>1, <1>0, <1>1, <2>1, <2>6 DEF Greeting, NextRole, NoMessage
      <4>2. CASE far[c].role = "client"
        BY <4>2, <1>0, <1>1, <2>1 DEF Connected
      <4>3. QED  BY <3>1, <2>7, <4>1, <4>2
    <3>2. QED  BY <3>1, <1>1, <2>2, <2>3, <2>4 DEF Connected, AfterAnswer, NoMessage
  <2>10. \A u \in Users : Holds(c, u)' <=> Holds(c, u)
    BY <1>1, <2>4 DEF Holds, AfterAnswer
  <2>11. QED  BY <1>1, <2>4, <2>5, <2>8, <2>9, <2>10, SameNames DEF Dialogue
<1>6. QED  BY <1>3, <1>4, <1>5

\* The name of a client leaves the list with the thread that held it.
LEMMA DisconnectKept ==
  ASSUME TypeInv, Undisturbed, NEW c \in Conns, handle_server_disconnect(c)
  PROVE  Undisturbed'
<1>0. Owns(c) /\ Silent(c) /\ Greeting(c) /\ Connected(c)
  BY DEF Undisturbed, Dialogue
<1>1. /\ thread[c].pc = "lost" /\ Goto(c, "close") /\ UNCHANGED <<slot, accepting, far, wire>>
      /\ active' = IF Peer(c).type = "client" THEN active \ {Peer(c).user} ELSE active
  BY DEF handle_server_disconnect, At
<1>2. /\ OthersKept(c) /\ Peer(c)' = Peer(c) /\ thread'[c].pc = "close"
  BY <1>1, GotoKept
<1>3. Owns(c)'
  BY <1>0, <1>1, <1>2 DEF Owns, Own, Busy
<1>4. Silent(c)' /\ Greeting(c)' /\ Connected(c)'
  BY <1>0, <1>1 DEF Silent, Greeting, Connected
<1>5. \A d \in Conns : Owns(d)' /\ Dialogue(d)'
  BY <1>2, <1>3, <1>4, Frame DEF Dialogue
<1>6. \A d \in Conns \ {c} : \A v : Holds(d, v)' <=> Holds(d, v)
  BY <1>2, Frame
<1>7. \A v : ~Holds(c, v)' /\ (Holds(c, v) <=> Peer(c).type = "client" /\ Peer(c).user = v)
  BY <1>1, <1>2 DEF Holds
<1>8. /\ active = {v \in Users : \E d \in Conns : Holds(d, v)}
      /\ \A d, e \in Conns : \A v \in Users : Holds(d, v) /\ Holds(e, v) => d = e
  BY DEF Undisturbed, Listed
<1>9. \A v \in Users : (\E d \in Conns : Holds(d, v)') <=>
          (\E d \in Conns : Holds(d, v)) /\ ~Holds(c, v)
  BY <1>6, <1>7, <1>8
<1>10. active' = {v \in Users : \E d \in Conns : Holds(d, v)'}
  <2>1. active' = {v \in active : ~Holds(c, v)}
    BY <1>1, <1>7
  <2>2. QED  BY <2>1, <1>8, <1>9
<1>11. \A d, e \in Conns : \A v \in Users : Holds(d, v)' /\ Holds(e, v)' => d = e
  BY <1>6, <1>7, <1>8
<1>12. QED  BY <1>5, <1>10, <1>11 DEF Undisturbed, Listed

\* A slot is reset, unless it was given to another connection meanwhile.
LEMMA ResetKept ==
  ASSUME TypeInv, Undisturbed, NEW c \in Conns, peer_close(c) \/ peer_reset(c), hit' = {}
  PROVE  Undisturbed'
<1>0. /\ slot \in [Slots -> Slot] /\ thread \in [Conns -> Thread] /\ thread[c] \in Thread
      /\ Placed(c) /\ Owns(c) /\ Silent(c) /\ Greeting(c) /\ Connected(c)
  BY TypeFacts DEF Undisturbed, Dialogue
<1>1. /\ slot' = [slot EXCEPT ![thread[c].slot] = Unused] /\ Peer(c).conn \in {c, NoConn}
      /\ thread[c].pc \in {"close", "reset"} /\ UNCHANGED <<accepting, active, far, wire>>
  BY DEF peer_close, peer_reset, Reset, At
<1>2. /\ thread'[c].pc \in {"reset", "done"}
      /\ \A d \in Conns \ {c} : thread'[d] = thread[d]
  BY <1>0 DEF peer_close, peer_reset, Goto, Thread, NoThread
<1>3. accepting # c
  BY <1>0, <1>1 DEF Placed
<1>4. OthersKept(c)
  <2>1. ASSUME NEW d \in Conns \ {c}, accepting = d \/ thread[d].pc \in Own
        PROVE  slot'[thread[d].slot] = slot[thread[d].slot]
    <3>1. slot[thread[d].slot].conn = d /\ thread[d].slot \in Slots
      BY <2>1 DEF Undisturbed, Owns, TypeInv, Placed, Peer
    <3>2. thread[d].slot # thread[c].slot
      BY <3>1, <1>1, Numbers DEF Peer
    <3>3. QED  BY <3>1, <3>2, <1>0, <1>1
  <2>2. QED  BY <1>1, <1>2, <2>1 DEF OthersKept
<1>5. Owns(c)'
  BY <1>0, <1>1, <1>2, <1>3 DEF Owns, Own, Busy
<1>6. Silent(c)' /\ Greeting(c)' /\ Connected(c)'
  BY <1>0, <1>1, <1>2 DEF Silent, Greeting, Connected
<1>7. \A u \in Users : Holds(c, u)' <=> Holds(c, u)
  BY <1>1, <1>2 DEF Holds
<1>8. QED  BY <1>1, <1>4, <1>5, <1>6, <1>7, SameNames DEF Dialogue

-----------------------------------------------------------------------------
(* The theorems *)

\* Once a slot was taken from under its connection that is remembered.
LEMMA HitStays == [Next]_vars => hit \subseteq hit'
  BY DEF Next, vars, FarStep, Connect, SayHello, RegisterServer, SendRequest, SendUpdate, Leave,
         Send, AcceptStep, allocate_peer, TooManyConnections, StartThread, ThreadStep, BeginRecv,
         net_recv_json, RecvFails, dispatch_message, username_in_use, active_user_add,
         WelcomeClient, handle_ss_register, UnknownHandshake, handle_client_message,
         handle_server_message, send_response, ResponseLost, BrokenPipe,
         handle_server_disconnect, peer_close, peer_reset, Reset

\* The invariant is inductive.
LEMMA NextKept == IInv /\ [Next]_vars => IInv'
<1> SUFFICES ASSUME IInv, [Next]_vars PROVE IInv'  OBVIOUS
<1>1. TypeInv /\ TypeInv'
  BY NextType DEF IInv
<1>2. CASE hit' # {}
  BY <1>1, <1>2 DEF IInv, Clobbered
<1>3. CASE hit' = {}
  <2>1. Undisturbed
    BY <1>3, HitStays DEF IInv, Clobbered
  <2>2. ASSUME UNCHANGED vars PROVE Undisturbed'
    BY <2>1, <2>2 DEF vars, Undisturbed, Listed, Holds, Owns, Dialogue, Silent, Greeting,
                      Connected, HelloFrom, Peer
  <2>3. ASSUME NEW c \in Conns, FarStep(c) \/ AcceptStep(c) \/ ThreadStep(c)
        PROVE  Undisturbed'
    BY <2>1, <2>3, <1>1, <1>3, FarKept, AcceptKept, RecvKept, DispatchKept, AnswerKept,
       DisconnectKept, ResetKept DEF ThreadStep
  <2>4. Undisturbed'
    BY <2>2, <2>3 DEF Next
  <2>5. QED  BY <1>1, <2>4 DEF IInv
<1>4. QED  BY <1>2, <1>3

\* ... and holds from the start.
LEMMA Invariance == Spec => []IInv
<1>1. Init => IInv
  BY InitType, InitUndisturbed DEF IInv
<1>2. QED  BY <1>1, NextKept, PTL DEF Spec

\* Two clients that were both welcomed have different names, for any number
\* of connections, slots and names: the second look of active_user_add closes
\* the gap that username_in_use leaves, and a name is given up by the thread
\* that holds it.
THEOREM UniqueNames == Spec => []NamesUnique
<1>1. IInv => NamesUnique
  <2> SUFFICES ASSUME Undisturbed, NEW c \in Conns, NEW d \in Conns,
                      far[c].state = "open", far[c].role = "client",
                      far[d].state = "open", far[d].role = "client",
                      far[c].user = far[d].user
               PROVE  c = d
    BY DEF IInv, NamesUnique
  <2>1. Holds(c, far[c].user) /\ Holds(d, far[c].user) /\ far[c].user \in Users
    BY DEF Undisturbed, Dialogue, Connected, Holds
  <2>2. QED  BY <2>1 DEF Undisturbed, Listed
<1>2. QED  BY <1>1, Invariance, PTL

\* A connection whose slot was not reset under it has a slot of its own, not
\* free, until its own peer_close; no such thread has answered another one.
Keeps(c) ==
    c \notin hit =>
        /\ accepting = c \/ thread[c].pc \in Own => Peer(c).conn = c
        /\ thread[c].pc \in Own => Peer(c).type # "unused"

KInv == TypeInv /\ AnswersReturn /\ \A c \in Conns : Keeps(c)

\* What a thread does with a message leaves the connections in all slots as
\* they are, and frees no slot.
LEMMA ThreadSlots ==
  ASSUME TypeInv, NEW c \in Conns,
         \/ BeginRecv(c) \/ net_recv_json(c) \/ RecvFails(c) \/ dispatch_message(c)
         \/ ResponseLost(c) \/ BrokenPipe(c) \/ handle_server_disconnect(c)
         \/ send_response(c)
  PROVE  /\ UNCHANGED <<accepting, hit>>
         /\ thread[c].pc \in Own
         /\ \A d \in Conns : /\ thread'[d].slot = thread[d].slot
                             /\ d # c => thread'[d].pc = thread[d].pc
         /\ \A i \in Slots : /\ slot'[i].conn = slot[i].conn
                             /\ slot[i].type # "unused" => slot'[i].type # "unused"
<1>0. /\ slot \in [Slots -> Slot] /\ thread \in [Conns -> Thread] /\ thread[c] \in Thread
      /\ Placed(c)
  BY TypeFacts
<1>1. UNCHANGED <<accepting, hit>> /\ thread[c].pc \in Own
  BY DEF BeginRecv, net_recv_json, RecvFails, dispatch_message, username_in_use,
         active_user_add, WelcomeClient, handle_ss_register, UnknownHandshake,
         handle_client_message, handle_server_message, ResponseLost, BrokenPipe,
         handle_server_disconnect, send_response, Answering, At, Own
<1>2. \A d \in Conns : /\ thread'[d].slot = thread[d].slot
                       /\ d # c => thread'[d].pc = thread[d].pc
  BY <1>0 DEF BeginRecv, net_recv_json, RecvFails, dispatch_message, username_in_use,
         active_user_add, WelcomeClient, handle_ss_register, UnknownHandshake,
         handle_client_message, handle_server_message, ResponseLost, BrokenPipe,
         handle_server_disconnect, send_response, Goto, Done, Thread
<1>3. thread[c].slot \in Slots
  BY <1>0, <1>1 DEF Placed
<1>4. \A i \in Slots : /\ slot'[i].conn = slot[i].conn
                       /\ slot[i].type # "unused" => slot'[i].type # "unused"
  <2>1. CASE WelcomeClient(c)
    BY <2>1, <1>0, <1>3 DEF WelcomeClient, Slot
  <2>2. CASE handle_ss_register(c)
    BY <2>2, <1>0, <1>3 DEF handle_ss_register, Slot
  <2>3. CASE slot' = slot
    BY <2>3
  <2>4. QED
    BY <2>1, <2>2, <2>3 DEF BeginRecv, net_recv_json, RecvFails, dispatch_message,
         username_in_use, active_user_add, UnknownHandshake, handle_client_message,
         handle_server_message, ResponseLost, BrokenPipe, handle_server_disconnect,
         send_response
<1>5. QED  BY <1>1, <1>2, <1>4

\* The accept loop gives away only a slot that nobody is in, or one that was
\* reset under its owner.
LEMMA AcceptKeeps ==
  ASSUME KInv, NEW c \in Conns, AcceptStep(c), NEW d \in Conns
  PROVE  Keeps(d)'
<1>0. /\ slot \in [Slots -> Slot] /\ thread \in [Conns -> Thread] /\ thread[c] \in Thread
      /\ Placed(c) /\ Placed(d) /\ Keeps(d) /\ hit' = hit
  BY TypeFacts DEF KInv, TypeInv, AcceptStep, allocate_peer, TooManyConnections, StartThread
<1>1. CASE allocate_peer(c)
  <2> DEFINE i == Min(FreeSlots)
  <2>1. i \in Slots /\ slot[i].type = "unused"
    BY <1>1, FirstOne, Numbers DEF allocate_peer, FreeSlots
  <2>2. /\ slot' = [slot EXCEPT ![i] = [Unused EXCEPT !.conn = c]]
        /\ thread' = [thread EXCEPT ![c].slot = i]
        /\ accepting' = c /\ thread[c] = NoThread /\ accepting = NoConn
    BY <1>1 DEF allocate_peer, Accepts
  <2> HIDE DEF i
  <2>3. CASE d = c
    BY <2>1, <2>2, <2>3, <1>0 DEF Keeps, Peer, NoThread, Own, Unused, Thread
  <2>4. CASE d # c
    <3>1. thread'[d] = thread[d]
      BY <2>2, <2>4, <1>0
    <3>2. CASE thread[d].pc \in Own /\ d \notin hit
      <4>1. thread[d].slot \in Slots /\ thread[d].slot # i
        BY <3>2, <2>1, <1>0 DEF Keeps, Peer, Placed
      <4>2. slot'[thread[d].slot] = slot[thread[d].slot]
        BY <4>1, <2>2, <1>0
      <4>3. QED  BY <4>2, <3>1, <3>2, <1>0 DEF Keeps, Peer
    <3>3. QED  BY <3>1, <3>2, <2>2, <2>4, <1>0 DEF Keeps
  <2>5. QED  BY <2>3, <2>4
<1>2. CASE TooManyConnections(c)
  BY <1>2, <1>0, Numbers DEF TooManyConnections, Accepts, Keeps, Peer, Own, Thread
<1>3. CASE StartThread(c)
  <2>1. /\ slot' = [slot EXCEPT ![thread[c].slot].type = "unknown",
                                ![thread[c].slot].server = NoConn,
                                ![thread[c].slot].user = Nobody]
        /\ thread' = [thread EXCEPT ![c].pc = "loop"]
        /\ accepting = c /\ accepting' = NoConn /\ thread[c].slot \in Slots
    BY <1>3, <1>0 DEF StartThread, Placed
  <2>2. \A i \in Slots : /\ slot'[i].conn = slot[i].conn
                         /\ slot[i].type # "unused" => slot'[i].type # "unused"
    BY <2>1, <1>0 DEF Slot
  <2>3. CASE d = c
    <3>1. slot'[thread[c].slot].type = "unknown" /\ thread'[c].slot = thread[c].slot
      BY <2>1, <1>0 DEF Slot, Thread
    <3>2. QED  BY <3>1, <2>1, <2>2, <2>3, <1>0 DEF Keeps, Peer
  <2>4. CASE d # c
    <3>1. thread'[d] = thread[d]
      BY <2>1, <2>4, <1>0
    <3>2. QED  BY <3>1, <2>1, <2>2, <2>4, <1>0, Numbers DEF Keeps, Peer, Placed
  <2>5. QED  BY <2>3, <2>4
<1>4. QED  BY <1>1, <1>2, <1>3 DEF AcceptStep

\* A reset takes the slot from the thread itself, or from the connection that
\* is recorded as hit.
LEMMA ResetKeeps ==
  ASSUME KInv, NEW c \in Conns, peer_close(c) \/ peer_reset(c), NEW d \in Conns
  PROVE  Keeps(d)'
<1>0. /\ slot \in [Slots -> Slot] /\ thread \in [Conns -> Thread] /\ thread[c] \in Thread
      /\ Placed(c) /\ Placed(d) /\ Keeps(d)
  BY TypeFacts DEF KInv, TypeInv
<1>1. /\ slot' = [slot EXCEPT ![thread[c].slot] = Unused]
      /\ hit' = hit \cup ({Peer(c).conn} \ {c, NoConn})
      /\ thread[c].pc \in {"close", "reset"} /\ UNCHANGED accepting
  BY DEF peer_close, peer_reset, Reset, At
<1>2. /\ thread'[c].pc \in {"reset", "done"}
      /\ d # c => thread'[d] = thread[d]
  BY <1>0 DEF peer_close, peer_reset, Goto, Thread, NoThread
<1>3. CASE d = c
  BY <1>0, <1>1, <1>2, <1>3 DEF Placed, Keeps, Own
<1>4. CASE d # c
  <2>1. CASE d \notin hit' /\ (accepting = d \/ thread[d].pc \in Own)
    <3>1. d \notin hit
      BY <2>1, <1>1
    <3>2. slot[thread[d].slot].conn = d /\ thread[d].slot \in Slots
      BY <2>1, <3>1, <1>0 DEF Keeps, Placed, Peer
    <3>3. thread[d].slot # thread[c].slot
      BY <2>1, <3>2, <1>1, <1>4, Numbers DEF Peer
    <3>4. slot'[thread[d].slot] = slot[thread[d].slot]
      BY <3>2, <3>3, <1>0, <1>1
    <3>5. QED  BY <3>1, <3>4, <1>0, <1>1, <1>2, <1>4 DEF Keeps, Peer
  <2>2. QED  BY <2>1, <1>1, <1>2, <1>4 DEF Keeps
<1>5. QED  BY <1>3, <1>4

\* An answer that goes elsewhere comes from a thread whose slot was reset.
LEMMA AnswerFrom ==
  ASSUME KInv, NEW c \in Conns, send_response(c)
  PROVE  AnswersReturn'
<1> DEFINE fd == Peer(c).conn
<1>0. /\ far \in [Conns -> Far] /\ slot \in [Slots -> Slot] /\ Placed(c) /\ Keeps(c)
      /\ hit' = hit /\ thread[c].pc \in Own
  BY TypeFacts DEF KInv, TypeInv, send_response, Answering, Own
<1>1. fd \in Conns
  BY <1>0 DEF send_response, Placed, Peer, Slot
<1>2. {c} \ {fd} \subseteq hit
  BY <1>0 DEF Keeps
<1>3. ASSUME NEW d \in Conns
      PROVE  far'[d].from \subseteq far[d].from \cup ({c} \ {fd})
  <2>0. far[d] \in Far
    BY <1>0
  <2>1. CASE d = fd
    BY <2>0, <2>1, <1>0, <1>1 DEF send_response, Far
  <2>2. CASE d # fd
    BY <2>0, <2>2, <1>0, <1>1 DEF send_response, Far
  <2>3. QED  BY <2>1, <2>2
<1> HIDE DEF fd
<1>4. QED  BY <1>0, <1>2, <1>3 DEF KInv, AnswersReturn

\* No other step makes an answer.
LEMMA SameFrom ==
  ASSUME KInv, NEW c \in Conns,
         \/ FarStep(c) \/ AcceptStep(c) \/ peer_close(c) \/ peer_reset(c)
         \/ BeginRecv(c) \/ net_recv_json(c) \/ RecvFails(c) \/ dispatch_message(c)
         \/ ResponseLost(c) \/ BrokenPipe(c) \/ handle_server_disconnect(c)
  PROVE  AnswersReturn'
<1>0. far \in [Conns -> Far] /\ far[c] \in Far
  BY TypeFacts DEF KInv
<1>1. hit \subseteq hit'
  BY HitStays DEF Next, ThreadStep
<1>2. CASE FarStep(c)
  <2>1. \A d \in Conns : far'[d].from = far[d].from
    <3>1. CASE Connect(c)
      BY <3>1, <1>0 DEF Connect, Far
    <3>2. CASE SayHello(c)
      <4>1. PICK u : far' = [far EXCEPT ![c].role = "hello", ![c].user = u, ![c].waits = TRUE]
        BY <3>2 DEF SayHello
      <4>2. QED  BY <4>1, <1>0 DEF Far
    <3>3. CASE RegisterServer(c)
      BY <3>3, <1>0 DEF RegisterServer, Far
    <3>4. CASE SendRequest(c)
      <4>1. \/ far' = [far EXCEPT ![c].waits = TRUE]
            \/ far' = [far EXCEPT ![c].role = "leaving", ![c].waits = TRUE]
        BY <3>4 DEF SendRequest
      <4>2. QED  BY <4>1, <1>0 DEF Far
    <3>5. CASE SendUpdate(c)
      BY <3>5 DEF SendUpdate
    <3>6. CASE Leave(c)
      BY <3>6, <1>0 DEF Leave, Far, NoFar
    <3>7. QED  BY <1>2, <3>1, <3>2, <3>3, <3>4, <3>5, <3>6 DEF FarStep
  <2>2. QED  BY <2>1, <1>1 DEF KInv, AnswersReturn
<1>3. CASE far' = far
  BY <1>3, <1>1 DEF KInv, AnswersReturn
<1>4. QED
  BY <1>2, <1>3 DEF AcceptStep, allocate_peer, TooManyConnections, StartThread, peer_close,
       peer_reset, Reset, BeginRecv, net_recv_json, RecvFails, dispatch_message,
       username_in_use, active_user_add, WelcomeClient, handle_ss_register, UnknownHandshake,
       handle_client_message, handle_server_message, ResponseLost, BrokenPipe,
       handle_server_disconnect

\* Every step keeps the slots of the connections that were not hit.
LEMMA NextKeeps == KInv /\ [Next]_vars => KInv'
<1> SUFFICES ASSUME KInv, [Next]_vars PROVE KInv'  OBVIOUS
<1>1. TypeInv /\ TypeInv'
  BY NextType DEF KInv
<1>2. ASSUME UNCHANGED vars PROVE AnswersReturn' /\ \A d \in Conns : Keeps(d)'
  BY <1>2 DEF KInv, vars, AnswersReturn, Keeps, Peer
<1>3. ASSUME NEW c \in Conns, FarStep(c) \/ AcceptStep(c) \/ ThreadStep(c)
      PROVE  AnswersReturn'
  BY <1>3, AnswerFrom, SameFrom DEF ThreadStep
<1>4. ASSUME NEW c \in Conns, NEW d \in Conns, FarStep(c) \/ AcceptStep(c) \/ ThreadStep(c)
      PROVE  Keeps(d)'
  <2>0. Keeps(d) /\ Placed(d)
    BY <1>1 DEF KInv, TypeInv
  <2>1. CASE FarStep(c)
    <3>1. UNCHANGED <<slot, accepting, thread, hit>>
      BY <2>1 DEF FarStep, Connect, SayHello, RegisterServer, SendRequest, SendUpdate, Leave,
                  Send
    <3>2. QED  BY <3>1, <2>0 DEF Keeps, Peer
  <2>2. CASE AcceptStep(c)
    BY <2>2, AcceptKeeps
  <2>3. CASE peer_close(c) \/ peer_reset(c)
    BY <2>3, ResetKeeps
  <2>4. CASE \/ BeginRecv(c) \/ net_recv_json(c) \/ RecvFails(c) \/ dispatch_message(c)
             \/ ResponseLost(c) \/ BrokenPipe(c) \/ handle_server_disconnect(c)
             \/ send_response(c)
    <3>1. /\ UNCHANGED <<accepting, hit>> /\ thread[c].pc \in Own
          /\ thread'[d].slot = thread[d].slot /\ (d # c => thread'[d].pc = thread[d].pc)
          /\ \A i \in Slots : /\ slot'[i].conn = slot[i].conn
                              /\ slot[i].type # "unused" => slot'[i].type # "unused"
      BY <2>4, <1>1, ThreadSlots
    <3>2. thread'[d].pc \in Own => thread[d].pc \in Own
      BY <3>1
    <3>3. QED  BY <3>1, <3>2, <2>0 DEF Keeps, Peer, Placed
  <2>5. QED  BY <1>4, <2>1, <2>2, <2>3, <2>4 DEF ThreadStep
<1>5. QED  BY <1>1, <1>2, <1>3, <1>4 DEF KInv, Next

\* An answer goes astray only from a thread whose slot was reset under it,
\* for any number of connections and slots: allocate_peer takes no slot from a
\* thread that is in it, and of the two resets at the end of a thread the
\* second harms the connection in the slot and no other.
THEOREM AnsweredRight == Spec => []AnswersReturn
<1>1. Init => KInv
  <2> SUFFICES ASSUME Init PROVE KInv  OBVIOUS
  <2>1. TypeInv
    BY InitType
  <2>2. QED  BY <2>1, Numbers DEF Init, KInv, AnswersReturn, Keeps, NoThread, NoFar, Own
<1>2. KInv => AnswersReturn
  BY DEF KInv
<1>3. QED  BY <1>1, <1>2, NextKeeps, PTL DEF Spec

\* The list of active users holds the names of the connected clients and no
\* other.
THEOREM ExactList == Spec => []ActiveConnected
<1>1. IInv => ActiveConnected
  BY DEF IInv, ActiveConnected, Undisturbed, Listed
<1>2. QED  BY <1>1, Invariance, PTL
=============================================================================
