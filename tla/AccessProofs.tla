---------------------------- MODULE AccessProofs ----------------------------
(* Proofs about Access.  TicketHonoured and AdmittedInTime rest on an      *)
(* invariant that follows a ticket from the name manager to the connection *)
(* that presents it.  ToldTrue rests on one that relates where the client  *)
(* is in its dialogue with the server to where the server's thread is, and *)
(* both to whether the session was stored.                                 *)
(* The same dialogue shows that no wait has no end (NobodyStuck).          *)
EXTENDS Access, TLAPS

\* A server is selected before it is used.
Selected(u) ==
    /\ cmd[u].pc \in {"issue", "call", "answer", "connect"} => cmd[u].ss \in Servers
    /\ link[u].thread # "none" => link[u].ss \in Servers

TypeInv == TypeOK /\ \A u \in Users : Selected(u)

\* No other ticket of the user has the token of t, and t is still in the
\* table of s, or is expired there, or was lost with that server's process.
Good(u, t, s) ==
    /\ t.user = u
    /\ t.boot =< boot[s]
    /\ \A x \in Servers : \A k \in table[x] : k.user = u /\ k.token = t.token => k = t
    /\ t \in table[s] \/ Expired(t, Clock(s)) \/ t.boot # boot[s] \/ ~alive[s]

Below(u, n) == \A x \in Servers : \A k \in table[x] : k.user = u => k.token < n

\* While the name manager works for a client it has no data connection, and
\* the next token is above every token of the user.
Asking(u) ==
    /\ cmd[u].number =< typed
    /\ cmd[u].pc \in {"lookup", "issue", "call", "answer", "connect"} => link[u].thread = "none"
    /\ cmd[u].pc \in {"lookup", "issue", "call"} => Below(u, Token(u))
    /\ cmd[u].pc \in {"call", "answer", "connect"} =>
          /\ cmd[u].ticket.token = Token(u)
          /\ cmd[u].ticket.user = u
          /\ cmd[u].ticket.op = cmd[u].op
    /\ cmd[u].pc \in {"answer", "connect"} =>
          Good(u, cmd[u].ticket, cmd[u].ss) /\ Below(u, Token(u) + 1)

\* A connection whose ticket was not looked at yet.
Presenting(u) ==
    link[u].thread = "recv" =>
        /\ cmd[u].pc \in {"waiting", "ended"}
        /\ link[u].resp = "none"
        /\ alive[link[u].ss]
        /\ link[u].ticket.op = TicketOp(link[u].req)
        /\ Good(u, link[u].ticket, link[u].ss)

Tickets(u) == Below(u, 2 * typed + 2) /\ Asking(u) /\ Presenting(u)

TicketInv == \A u \in Users : Tickets(u)

IInv == TypeInv /\ TicketInv

-----------------------------------------------------------------------------
(* Type correctness *)

\* The empty ticket has the type of a ticket.
LEMMA NoTicketType == NoTicket \in Ticket
  BY DEF NoTicket, Ticket, Ops

\* The values of an idle client and of a connection that is not there.
LEMMA IdleTypes ==
    /\ \A told \in {"nothing", "refused", "content", "failed", "committed"} :
          [NoCommand EXCEPT !.told = told] \in Command
    /\ NoCommand \in Command
    /\ NoLink \in Link
  BY NoTicketType, AccessAssumption DEF NoCommand, Command, NoLink, Link, Ops

\* The types hold at the start, when no server has stored a ticket.
LEMMA InitType == Init => TypeInv
<1> SUFFICES ASSUME Init PROVE TypeInv  OBVIOUS
<1>1. TypeOK
  BY AccessAssumption, IdleTypes DEF Init, TypeOK, Outcomes
<1>2. \A u \in Users : Selected(u)
  BY DEF Init, Selected, NoCommand, NoLink
<1>3. QED  BY <1>1, <1>2 DEF TypeInv

\* A step that changes only the command of one user.
LEMMA CommandType ==
  ASSUME TypeInv, NEW u \in Users, NEW c \in Command,
         cmd' = [cmd EXCEPT ![u] = c], UNCHANGED <<now, typed, table, servers, link, stored>>,
         c.pc \in {"issue", "call", "answer", "connect"} => c.ss \in Servers
  PROVE  TypeInv'
<1>1. TypeOK'
  BY DEF TypeInv, TypeOK, servers
<1>2. \A v \in Users : Selected(v)'
  BY DEF TypeInv, TypeOK, Selected
<1>3. QED  BY <1>1, <1>2 DEF TypeInv

\* Steps of the name manager on behalf of a client keep the types.
LEMMA ManagerType ==
  ASSUME TypeInv, NEW u \in Users, ManagerStep(u)
  PROVE  TypeInv'
<1>0. cmd[u] \in Command /\ cmd \in [Users -> Command] /\ Selected(u)
  BY DEF TypeInv, TypeOK
<1>1. CASE Lookup(u)
  <2>1. CASE \E s \in Servers : cmd' = [cmd EXCEPT ![u].pc = "issue", ![u].ss = s]
    <3>1. PICK s \in Servers : cmd' = [cmd EXCEPT ![u] = [cmd[u] EXCEPT !.pc = "issue", !.ss = s]]
      BY <2>1, <1>0 DEF Command
    <3>2. [cmd[u] EXCEPT !.pc = "issue", !.ss = s] \in Command
      BY <1>0 DEF Command
    <3>3. QED  BY <1>1, <3>1, <3>2, <1>0, CommandType DEF Lookup, Command
  <2>2. CASE Tell(u, "refused")
    <3>1. [NoCommand EXCEPT !.told = "refused"].pc = "prompt"
      BY DEF NoCommand
    <3>2. QED  BY <1>1, <2>2, <3>1, IdleTypes, CommandType DEF Lookup, Tell
  <2>3. QED  BY <1>1, <2>1, <2>2 DEF Lookup
<1>2. CASE issue_ticket(u)
  <2> DEFINE t == [token |-> Token(u), user |-> u, op |-> cmd[u].op, expiry |-> now + TTL,
                   boot |-> 0]
             c == [cmd[u] EXCEPT !.pc = "call", !.ticket = t]
  <2>1. t \in Ticket
    BY <1>0, AccessAssumption DEF Ticket, Token, Command, TypeInv, TypeOK
  <2>2. c \in Command /\ c.ss = cmd[u].ss
    BY <1>0, <2>1 DEF Command
  <2>3. cmd' = [cmd EXCEPT ![u] = c]
    BY <1>0, <1>2 DEF issue_ticket, Command
  <2>4. cmd[u].ss \in Servers
    BY <1>0, <1>2 DEF issue_ticket, At, Selected
  <2> HIDE DEF c
  <2>5. QED  BY <1>2, <2>2, <2>3, <2>4, CommandType DEF issue_ticket
<1>3. CASE handle_nm_ticket_command(u)
  <2> DEFINE s == cmd[u].ss
             t == [cmd[u].ticket EXCEPT !.boot = boot[s]]
             c == [cmd[u] EXCEPT !.pc = "answer", !.ticket = t]
  <2>1. s \in Servers
    BY <1>0, <1>3 DEF handle_nm_ticket_command, At, Selected
  <2>2. t \in Ticket
    BY <1>0, <2>1 DEF Ticket, Command, TypeInv, TypeOK
  <2>3. c \in Command /\ c.ss = s
    BY <1>0, <2>2 DEF Command
  <2>4. cmd' = [cmd EXCEPT ![u] = c] /\ table' = [table EXCEPT ![s] = @ \cup {t}]
    BY <1>0, <1>3 DEF handle_nm_ticket_command, Command
  <2>5. UNCHANGED <<now, typed, servers, link, stored>>
    BY <1>3 DEF handle_nm_ticket_command
  <2> HIDE DEF s, t, c
  <2>6. TypeOK'
    BY <2>1, <2>2, <2>3, <2>4, <2>5 DEF TypeInv, TypeOK, servers
  <2>7. \A v \in Users : Selected(v)'
    BY <1>0, <2>1, <2>3, <2>4, <2>5 DEF TypeInv, Selected
  <2>8. QED  BY <2>6, <2>7 DEF TypeInv
<1>4. CASE TicketStored(u)
  <2> DEFINE c == [cmd[u] EXCEPT !.pc = "connect"]
  <2>1. c \in Command /\ c.ss = cmd[u].ss /\ cmd' = [cmd EXCEPT ![u] = c]
    BY <1>0, <1>4 DEF Command, TicketStored, Goto
  <2>2. cmd[u].ss \in Servers
    BY <1>0, <1>4 DEF TicketStored, At, Selected
  <2> HIDE DEF c
  <2>3. QED  BY <1>4, <2>1, <2>2, CommandType DEF TicketStored
<1>5. CASE TicketCallFails(u)
  <2>1. CASE cmd[u].attempt = 0
    <3> DEFINE c == [cmd[u] EXCEPT !.pc = "lookup", !.attempt = 1, !.ticket = NoTicket]
    <3>1. c \in Command /\ c.pc = "lookup" /\ cmd' = [cmd EXCEPT ![u] = c]
      BY <1>0, <1>5, <2>1, NoTicketType DEF Command, TicketCallFails
    <3> HIDE DEF c
    <3>2. QED  BY <1>5, <3>1, CommandType DEF TicketCallFails
  <2>2. CASE cmd[u].attempt # 0
    <3>1. [NoCommand EXCEPT !.told = "refused"].pc = "prompt"
      BY DEF NoCommand
    <3>2. QED  BY <1>5, <2>2, <3>1, IdleTypes, CommandType DEF TicketCallFails, Tell
  <2>3. QED  BY <2>1, <2>2
<1>6. QED  BY <1>1, <1>2, <1>3, <1>4, <1>5 DEF ManagerStep

\* A step that changes the command and the connection of one user, or the
\* ticket tables and what was stored with them.
LEMMA LinkType ==
  ASSUME TypeInv, NEW u \in Users, NEW c \in Command, NEW l \in Link,
         cmd' = [cmd EXCEPT ![u] = c], link' = [link EXCEPT ![u] = l],
         UNCHANGED <<now, typed, servers>>,
         table' \in [Servers -> SUBSET Ticket], stored' \in [Users -> Outcomes],
         c.pc \notin {"issue", "call", "answer", "connect"} \/ c = cmd[u],
         l.thread # "none" => l.ss \in Servers
  PROVE  TypeInv'
<1>1. TypeOK'
  BY DEF TypeInv, TypeOK, servers
<1>2. \A v \in Users : Selected(v)'
  BY DEF TypeInv, TypeOK, Selected
<1>3. QED  BY <1>1, <1>2 DEF TypeInv

\* What the user is told, and where a client goes on, are commands.
LEMMA TellType ==
  ASSUME TypeInv, NEW u \in Users,
         NEW r \in {"nothing", "refused", "content", "failed", "committed"}, Tell(u, r)
  PROVE  \E c \in Command : c.pc = "prompt" /\ cmd' = [cmd EXCEPT ![u] = c]
<1>1. [NoCommand EXCEPT !.told = r] \in Command /\ [NoCommand EXCEPT !.told = r].pc = "prompt"
  BY IdleTypes DEF NoCommand
<1>2. QED  BY <1>1 DEF Tell

\* A client that goes on to another place keeps a well-typed command.
LEMMA GotoType ==
  ASSUME TypeInv, NEW u \in Users,
         NEW pc \in {"streaming", "session", "editing", "committing", "abort", "aborting"},
         Goto(u, pc)
  PROVE  \E c \in Command : c.pc = pc /\ cmd' = [cmd EXCEPT ![u] = c]
<1>1. cmd[u] \in Command /\ cmd \in [Users -> Command]
  BY DEF TypeInv, TypeOK
<1>2. [cmd[u] EXCEPT !.pc = pc] \in Command /\ [cmd[u] EXCEPT !.pc = pc].pc = pc
  BY <1>1 DEF Command
<1>3. cmd' = [cmd EXCEPT ![u] = [cmd[u] EXCEPT !.pc = pc]]
  BY <1>1 DEF Goto, Command
<1>4. QED  BY <1>2, <1>3

\* The same of the ends of a connection: a client that closes its end, takes
\* a response or sends a request, and a thread that responds.
LEMMA CloseType ==
  ASSUME TypeInv, NEW u \in Users, net_close(u) \/ Consume(u)
  PROVE  \E l \in Link : (l.thread # "none" => l.ss \in Servers) /\ link' = [link EXCEPT ![u] = l]
<1>1. link[u] \in Link /\ link \in [Users -> Link] /\ Selected(u)
  BY DEF TypeInv, TypeOK
<1> DEFINE k == [link[u] EXCEPT !.gone = TRUE, !.resp = "none"]
           m == [link[u] EXCEPT !.resp = "none"]
<1>2. k \in Link /\ k.thread = link[u].thread /\ k.ss = link[u].ss
  BY <1>1 DEF Link
<1>3. m \in Link /\ m.thread = link[u].thread /\ m.ss = link[u].ss
  BY <1>1 DEF Link
<1>4. NoLink \in Link /\ NoLink.thread = "none"
  BY IdleTypes DEF NoLink
<1>5. link' = [link EXCEPT ![u] = NoLink] \/ link' = [link EXCEPT ![u] = k]
          \/ link' = [link EXCEPT ![u] = m]
  BY <1>1 DEF net_close, Consume, Link
<1> HIDE DEF k, m
<1>6. QED  BY <1>1, <1>2, <1>3, <1>4, <1>5 DEF Selected

\* A thread that answers and goes on, or ends, leaves a well-typed link.
LEMMA RespondType ==
  ASSUME TypeInv, NEW u \in Users,
         NEW r \in {"none", "OK", "ERR", "ERR_NOAUTH", "DATA", "DONE"},
         NEW next \in {"none", "stream", "last", "session"},
         link[u].thread # "none", Respond(u, r, next)
  PROVE  \E l \in Link : (l.thread # "none" => l.ss \in Servers) /\ link' = [link EXCEPT ![u] = l]
<1>1. link[u] \in Link /\ link \in [Users -> Link] /\ link[u].ss \in Servers
  BY DEF TypeInv, TypeOK, Selected
<1> DEFINE k == [link[u] EXCEPT !.thread = next, !.req = "none", !.resp = r]
           m == [link[u] EXCEPT !.thread = next, !.req = "none"]
<1>2. k \in Link /\ k.ss = link[u].ss
  BY <1>1 DEF Link
<1>3. m \in Link /\ m.ss = link[u].ss
  BY <1>1 DEF Link
<1>4. NoLink \in Link /\ NoLink.thread = "none"
  BY IdleTypes DEF NoLink
<1>5. link' = [link EXCEPT ![u] = NoLink] \/ link' = [link EXCEPT ![u] = k]
          \/ link' = [link EXCEPT ![u] = m]
  BY <1>1 DEF Respond, Link
<1> HIDE DEF k, m
<1>6. QED  BY <1>1, <1>2, <1>3, <1>4, <1>5

\* Steps of a client on its data connection.
LEMMA ClientType ==
  ASSUME TypeInv, NEW u \in Users, ClientStep(u) \/ Edit(u) \/ Commit(u)
  PROVE  TypeInv'
<1>0. /\ cmd[u] \in Command /\ cmd \in [Users -> Command]
      /\ link[u] \in Link /\ link \in [Users -> Link] /\ Selected(u)
      /\ table \in [Servers -> SUBSET Ticket] /\ stored \in [Users -> Outcomes]
  BY DEF TypeInv, TypeOK
<1>1. CASE net_connect(u)
  <2>1. cmd[u].ss \in Servers
    BY <1>0, <1>1 DEF net_connect, At, Selected
  <2>2. CASE alive[cmd[u].ss]
    <3> DEFINE l == [NoLink EXCEPT !.ss = cmd[u].ss, !.ticket = cmd[u].ticket,
                                   !.thread = "recv", !.req = Request(cmd[u].op)]
               c == [cmd[u] EXCEPT !.pc = "waiting", !.ss = None, !.ticket = NoTicket,
                                   !.attempt = 0]
    <3>1. l \in Link /\ l.ss = cmd[u].ss
      BY <1>0, NoTicketType DEF Link, Command, NoLink, Request, Ops
    <3>2. c \in Command /\ c.pc = "waiting"
      BY <1>0, NoTicketType DEF Command
    <3>3. cmd' = [cmd EXCEPT ![u] = c] /\ link' = [link EXCEPT ![u] = l]
      BY <1>0, <1>1, <2>2 DEF net_connect, Command
    <3> HIDE DEF l, c
    <3>4. QED  BY <1>0, <1>1, <2>1, <3>1, <3>2, <3>3, LinkType DEF net_connect
  <2>3. CASE ~alive[cmd[u].ss]
    <3>1. PICK c \in Command : c.pc = "prompt" /\ cmd' = [cmd EXCEPT ![u] = c]
      BY <1>1, <2>3, TellType DEF net_connect
    <3>2. QED  BY <1>1, <2>3, <3>1, CommandType DEF net_connect
  <2>4. QED  BY <2>2, <2>3
<1>2. CASE ReceiveResponse(u) \/ ReceiveFails(u)
  <2>1. net_close(u) \/ Consume(u)
    BY <1>2 DEF ReceiveResponse, ReceiveFails, NextResponse, LastResponse
  <2>2. \/ \E r \in {"content", "failed", "committed"} : Tell(u, r)
        \/ \E pc \in {"streaming", "session", "abort"} : Goto(u, pc)
        \/ UNCHANGED cmd
    BY <1>2 DEF ReceiveResponse, ReceiveFails, NextResponse, LastResponse
  <2>3. PICK l \in Link : (l.thread # "none" => l.ss \in Servers)
                            /\ link' = [link EXCEPT ![u] = l]
    BY <2>1, CloseType
  <2>4. PICK c \in Command :
           (c.pc \in {"prompt", "streaming", "session", "abort"} \/ c = cmd[u])
               /\ cmd' = [cmd EXCEPT ![u] = c]
    BY <1>0, <2>2, TellType, GotoType
  <2>5. UNCHANGED <<now, typed, table, servers, stored>>
    BY <1>2 DEF ReceiveResponse, ReceiveFails
  <2>6. QED  BY <1>0, <2>3, <2>4, <2>5, LinkType
<1>3. ASSUME NEW pc, NEW req \in {"WRITE_INSERT", "WRITE_COMMIT", "WRITE_ABORT"},
             NEW next \in {"editing", "committing", "aborting"}, Sends(u, pc, req, next)
      PROVE  TypeInv'
  <2>1. PICK c \in Command : c.pc = next /\ cmd' = [cmd EXCEPT ![u] = c]
    BY <1>3, GotoType DEF Sends
  <2> DEFINE l == IF Closed(u) THEN link[u] ELSE [link[u] EXCEPT !.req = req]
  <2>2. l \in Link /\ l.thread = link[u].thread /\ l.ss = link[u].ss
    BY <1>0 DEF Link
  <2>3. link' = [link EXCEPT ![u] = l]
    BY <1>0, <1>3 DEF Sends, Link
  <2>4. UNCHANGED <<now, typed, table, servers, stored>>
    BY <1>3 DEF Sends
  <2> HIDE DEF l
  <2>5. QED  BY <1>0, <2>1, <2>2, <2>3, <2>4, LinkType DEF Selected
<1>4. QED  BY <1>1, <1>2, <1>3 DEF ClientStep, Edit, Commit, Abort

\* Steps of the thread of a data connection.
LEMMA ServerType ==
  ASSUME TypeInv, NEW u \in Users, ServerStep(u)
  PROVE  TypeInv'
<1>0. /\ cmd[u] \in Command /\ cmd \in [Users -> Command]
      /\ link[u] \in Link /\ link \in [Users -> Link] /\ Selected(u)
      /\ table \in [Servers -> SUBSET Ticket] /\ stored \in [Users -> Outcomes]
      /\ cmd = [cmd EXCEPT ![u] = cmd[u]]
  BY DEF TypeInv, TypeOK
<1>1. ASSUME NEW thread \in {"serve", "committed"},
             link[u].thread # "none", link' = [link EXCEPT ![u].thread = thread]
      PROVE  \E l \in Link : (l.thread # "none" => l.ss \in Servers)
                               /\ link' = [link EXCEPT ![u] = l]
  <2> DEFINE l == [link[u] EXCEPT !.thread = thread]
  <2>1. l \in Link /\ l.ss = link[u].ss /\ link' = [link EXCEPT ![u] = l]
    BY <1>0, <1>1 DEF Link
  <2> HIDE DEF l
  <2>2. QED  BY <1>0, <1>1, <2>1 DEF Selected
<1>2. CASE validate_ticket(u)
  <2>1. link[u].thread = "recv" /\ UNCHANGED <<now, typed, servers, cmd, stored>>
    BY <1>2 DEF validate_ticket
  <2>2. link' = [link EXCEPT ![u].thread = "serve"] \/ Respond(u, "ERR_NOAUTH", "none")
    BY <1>2 DEF validate_ticket
  <2>3. PICK l \in Link : (l.thread # "none" => l.ss \in Servers)
                            /\ link' = [link EXCEPT ![u] = l]
    BY <1>1, <2>1, <2>2, RespondType
  <2>4. table' \in [Servers -> SUBSET Ticket]
    BY <1>0, <1>2, <2>1 DEF validate_ticket, ticket_table_prune, Selected
  <2>5. QED  BY <1>0, <2>1, <2>3, <2>4, LinkType
<1>3. CASE Serve(u)
  <2>1. link[u].thread # "none"
    BY <1>3 DEF Serve, handle_read, handle_stream, handle_write, Serving
  <2>2. \E r \in {"none", "OK", "ERR", "DATA", "DONE"} :
           \E next \in {"none", "stream", "last", "session"} : Respond(u, r, next)
    BY <1>3 DEF Serve, handle_read, handle_stream, handle_write
  <2>3. PICK l \in Link : (l.thread # "none" => l.ss \in Servers)
                            /\ link' = [link EXCEPT ![u] = l]
    BY <2>1, <2>2, RespondType
  <2>4. QED  BY <1>0, <1>3, <2>3, LinkType DEF Serve
<1>4. CASE write_session_commit(u)
  <2>1. link[u].thread # "none" /\ link' = [link EXCEPT ![u].thread = "committed"]
    BY <1>4 DEF write_session_commit, Serving
  <2>2. PICK l \in Link : (l.thread # "none" => l.ss \in Servers)
                            /\ link' = [link EXCEPT ![u] = l]
    BY <1>1, <2>1
  <2>3. QED  BY <1>0, <1>4, <2>2, LinkType DEF write_session_commit, Outcomes
<1>5. CASE AnswerTooLong(u)
  <2>1. link[u].thread # "none" /\ Respond(u, "none", "none")
    BY <1>5 DEF AnswerTooLong
  <2>2. PICK l \in Link : (l.thread # "none" => l.ss \in Servers)
                            /\ link' = [link EXCEPT ![u] = l]
    BY <2>1, RespondType
  <2>3. QED  BY <1>0, <1>5, <2>2, LinkType DEF AnswerTooLong, Outcomes
<1>6. QED  BY <1>2, <1>3, <1>4, <1>5 DEF ServerStep

\* Steps of the users at their clients.
LEMMA UserType ==
  ASSUME TypeInv, NEW u \in Users, UserStep(u)
  PROVE  TypeInv'
<1>0. /\ cmd[u] \in Command /\ cmd \in [Users -> Command]
      /\ link[u] \in Link /\ link \in [Users -> Link] /\ Selected(u)
      /\ table \in [Servers -> SUBSET Ticket] /\ stored \in [Users -> Outcomes]
  BY DEF TypeInv, TypeOK
<1>1. ASSUME NEW op \in Ops, TypeCommand(u, op) PROVE TypeInv'
  <2> DEFINE c == [NoCommand EXCEPT !.pc = "lookup", !.op = op, !.number = typed + 1]
  <2>1. typed + 1 \in 0..MaxCommands
    BY <1>1, AccessAssumption DEF TypeCommand, TypeInv, TypeOK
  <2>2. c \in Command /\ c.pc = "lookup"
    BY <2>1, NoTicketType DEF Command, NoCommand, Ops
  <2>3. cmd' = [cmd EXCEPT ![u] = c]
    BY <1>1 DEF TypeCommand
  <2>4. typed' = typed + 1 /\ stored' = [stored EXCEPT ![u] = "no"]
            /\ UNCHANGED <<now, table, servers, link>>
    BY <1>1 DEF TypeCommand
  <2> HIDE DEF c
  <2>5. TypeOK'
    BY <2>1, <2>2, <2>3, <2>4 DEF TypeInv, TypeOK, servers, Outcomes
  <2>6. \A v \in Users : Selected(v)'
    BY <1>0, <2>2, <2>3, <2>4 DEF TypeInv, Selected
  <2>7. QED  BY <2>5, <2>6 DEF TypeInv
<1>2. CASE EndOfInput(u)
  <2>1. PICK c \in Command : c.pc = "abort" /\ cmd' = [cmd EXCEPT ![u] = c]
    BY <1>2, GotoType DEF EndOfInput
  <2>2. QED  BY <1>2, <2>1, CommandType DEF EndOfInput
<1>3. CASE ClientEnds(u)
  <2> DEFINE c == [NoCommand EXCEPT !.pc = "ended"]
  <2>1. c \in Command /\ c.pc = "ended" /\ cmd' = [cmd EXCEPT ![u] = c]
    BY <1>3, IdleTypes DEF Command, NoCommand, ClientEnds
  <2>2. PICK l \in Link : (l.thread # "none" => l.ss \in Servers)
                            /\ link' = [link EXCEPT ![u] = l]
    BY <1>3, CloseType DEF ClientEnds
  <2> HIDE DEF c
  <2>3. QED  BY <1>0, <1>3, <2>1, <2>2, LinkType DEF ClientEnds
<1>4. QED  BY <1>1, <1>2, <1>3, ClientType DEF UserStep

\* The clock, and servers that end and start.
LEMMA EnvironmentType ==
  ASSUME TypeInv,
         Tick \/ (\E u \in Users : BrokenPipe(u)) \/ \E s \in Servers : Crash(s) \/ Restart(s)
  PROVE  TypeInv'
<1>1. CASE Tick
  <2>1. TypeOK'
    BY <1>1, AccessAssumption DEF Tick, TypeInv, TypeOK, servers
  <2>2. \A v \in Users : Selected(v)'
    BY <1>1 DEF Tick, TypeInv, Selected
  <2>3. QED  BY <2>1, <2>2 DEF TypeInv
<1>2. ASSUME NEW s, End(s), crashes' \in 0..MaxCrashes PROVE TypeInv'
  <2>1. \A u \in Users : link[u] \in Link => [link[u] EXCEPT !.thread = "lost"] \in Link
    BY DEF Link
  <2>2. NoLink \in Link /\ NoLink.thread = "none"
    BY IdleTypes DEF NoLink
  <2>3. link' \in [Users -> Link]
    BY <1>2, <2>1, <2>2 DEF End, TypeInv, TypeOK
  <2>4. table' \in [Servers -> SUBSET Ticket] /\ alive' \in [Servers -> BOOLEAN]
    BY <1>2 DEF End, TypeInv, TypeOK
  <2>5. TypeOK'
    BY <1>2, <2>3, <2>4 DEF End, TypeInv, TypeOK
  <2>6. \A v \in Users : [link[v] EXCEPT !.thread = "lost"].ss = link[v].ss
    BY DEF TypeInv, TypeOK, Link
  <2>7. \A v \in Users : link'[v].thread # "none"
                             => link'[v].ss = link[v].ss /\ link[v].thread # "none"
    BY <1>2, <2>2, <2>6 DEF End
  <2>8. \A v \in Users : Selected(v)'
    BY <1>2, <2>7 DEF End, TypeInv, Selected
  <2>9. QED  BY <2>5, <2>8 DEF TypeInv
<1>3. ASSUME NEW u \in Users, BrokenPipe(u) PROVE TypeInv'
  BY <1>2, <1>3 DEF BrokenPipe, TypeInv, TypeOK
<1>4. ASSUME NEW s \in Servers, Crash(s) PROVE TypeInv'
  <2>1. crashes' \in 0..MaxCrashes
    BY <1>4, AccessAssumption DEF Crash, TypeInv, TypeOK
  <2>2. QED  BY <1>2, <1>4, <2>1 DEF Crash
<1>5. ASSUME NEW s \in Servers, Restart(s) PROVE TypeInv'
  <2>1. TypeOK'
    BY <1>5 DEF Restart, TypeInv, TypeOK
  <2>2. \A v \in Users : Selected(v)'
    BY <1>5 DEF Restart, TypeInv, Selected
  <2>3. QED  BY <2>1, <2>2 DEF TypeInv
<1>6. QED  BY <1>1, <1>3, <1>4, <1>5

\* Every step keeps the types.
LEMMA NextType == TypeInv /\ [Next]_vars => TypeInv'
<1> SUFFICES ASSUME TypeInv, [Next]_vars PROVE TypeInv'
  OBVIOUS
<1>1. CASE Next
  BY <1>1, ManagerType, ClientType, ServerType, UserType, EnvironmentType DEF Next
<1>2. CASE UNCHANGED vars
  <2>1. TypeOK'
    BY <1>2 DEF vars, TypeInv, TypeOK
  <2>2. \A v \in Users : Selected(v)'
    BY <1>2 DEF vars, TypeInv, Selected
  <2>3. QED  BY <2>1, <2>2 DEF TypeInv
<1>3. QED  BY <1>1, <1>2

\* Type correctness: the fields of commands, connections and tickets stay in
\* their sets through every step of clients, name manager and servers.
THEOREM Typing == Spec => []TypeOK
<1>1. TypeInv => TypeOK
  BY DEF TypeInv
<1>2. QED  BY <1>1, InitType, NextType, PTL DEF Spec

-----------------------------------------------------------------------------
(* A ticket from the name manager to the server *)

\* A step that adds no ticket of the user, removes one only when it is
\* expired or its server ends, and starts a server only with a new boot.
Keeps(u) ==
    /\ typed' >= typed /\ now' >= now
    /\ \A s \in Servers :
          /\ \A k \in table'[s] : k.user = u => k \in table[s]
          /\ \A k \in table[s] :
                k.user = u => k \in table'[s] \/ Expired(k, now' + Skew[s]) \/ ~alive'[s]
          /\ (boot'[s] = boot[s] /\ (alive'[s] => alive[s])) \/ boot'[s] = boot[s] + 1

\* Stored tokens of the user stay below every bound that does not shrink,
\* if the user's tickets are not added to.
LEMMA BelowKept ==
  ASSUME TypeInv, NEW u \in Users, NEW n \in Nat, NEW m \in Nat, n =< m, Keeps(u), Below(u, n)
  PROVE  Below(u, m)'
<1>1. ASSUME NEW x \in Servers, NEW k \in table'[x], k.user = u PROVE k.token < m
  <2>1. k \in table[x] /\ k \in Ticket
    BY <1>1 DEF Keeps, TypeInv, TypeOK
  <2>2. k.token < n /\ k.token \in Nat
    BY <1>1, <2>1 DEF Below, Ticket
  <2>3. QED  BY <2>2
<1>2. QED  BY <1>1 DEF Below

\* Stored tokens stay below those of the commands still to be typed.
LEMMA TypedKept ==
  ASSUME TypeInv, TypeInv', NEW u \in Users, Below(u, 2 * typed + 2), typed' >= typed,
         \A s \in Servers : \A k \in table'[s] : k.user = u => k \in table[s]
  PROVE  Below(u, 2 * typed + 2)'
<1>1. typed \in Nat /\ typed' \in Nat
  BY AccessAssumption DEF TypeInv, TypeOK
<1>2. ASSUME NEW x \in Servers, NEW k \in table'[x], k.user = u PROVE k.token < 2 * typed' + 2
  <2>1. k \in table[x] /\ k \in Ticket
    BY <1>2 DEF TypeInv, TypeOK
  <2>2. k.token < 2 * typed + 2 /\ k.token \in Nat
    BY <1>2, <2>1 DEF Below, Ticket
  <2>3. QED  BY <1>1, <2>2
<1>3. QED  BY <1>2 DEF Below

\* A ticket that will be honoured still will be, if its table loses only
\* expired entries and those of others.
LEMMA GoodKept ==
  ASSUME TypeInv, TypeInv', NEW u \in Users, NEW t \in Ticket, NEW s \in Servers,
         Keeps(u), Good(u, t, s)
  PROVE  Good(u, t, s)'
<1>1. /\ t.boot \in Nat /\ t.expiry \in Nat /\ boot[s] \in Nat /\ boot'[s] \in Nat
      /\ now \in Int /\ now' \in Int /\ Skew[s] \in Int
  BY AccessAssumption DEF TypeInv, TypeOK, Ticket
<1>2. t.boot =< boot'[s]
  BY <1>1 DEF Keeps, Good
<1>3. \A x \in Servers : \A k \in table'[x] : k.user = u /\ k.token = t.token => k = t
  BY DEF Keeps, Good
<1>4. t \in table'[s] \/ Expired(t, now' + Skew[s]) \/ t.boot # boot'[s] \/ ~alive'[s]
  <2>1. CASE boot'[s] = boot[s] + 1
    BY <1>1, <2>1 DEF Good
  <2>2. CASE boot'[s] = boot[s] /\ (alive'[s] => alive[s])
    <3>1. CASE t \in table[s]
      BY <3>1 DEF Keeps, Good
    <3>2. CASE Expired(t, now + Skew[s])
      BY <1>1, <3>2 DEF Keeps, Expired
    <3>3. QED  BY <2>2, <3>1, <3>2 DEF Good, Clock
  <2>3. QED  BY <2>1, <2>2 DEF Keeps
<1>5. QED  BY <1>2, <1>3, <1>4 DEF Good, Clock

\* A user none of whose state the step touches.
LEMMA Bystander ==
  ASSUME TypeInv, TypeInv', NEW v \in Users, Tickets(v), Keeps(v), cmd'[v] = cmd[v],
         \/ link'[v] = link[v] /\ (link[v].thread = "recv" => alive'[link[v].ss])
         \/ link'[v].thread = "none"
         \/ link'[v].thread = "lost" /\ link[v].thread # "none"
  PROVE  Tickets(v)'
<1>1. /\ typed \in Nat /\ typed' \in Nat /\ typed =< typed' /\ cmd[v].number \in Nat
      /\ Token(v) \in Nat /\ cmd[v].ticket \in Ticket /\ link[v].ticket \in Ticket /\ Selected(v)
  BY AccessAssumption DEF TypeInv, TypeOK, Command, Link, Token, Keeps
<1>2. Below(v, 2 * typed + 2)'
  BY TypedKept DEF Tickets, Keeps
<1>3. Asking(v)'
  <2>1. cmd'[v].number =< typed'
    BY <1>1 DEF Tickets, Asking
  <2>2. cmd'[v].pc \in {"lookup", "issue", "call", "answer", "connect"} => link'[v].thread = "none"
    BY DEF Tickets, Asking
  <2>3. Below(v, Token(v)) => Below(v, Token(v))'
    BY <1>1, BelowKept DEF Token, Below
  <2>4. Below(v, Token(v) + 1) => Below(v, Token(v) + 1)'
    BY <1>1, BelowKept DEF Token, Below
  <2>5. cmd[v].pc \in {"answer", "connect"} => Good(v, cmd[v].ticket, cmd[v].ss)'
    BY <1>1, GoodKept DEF Tickets, Asking, Selected, Good
  <2>6. Token(v)' = Token(v)
    BY DEF Token
  <2>7. QED  BY <2>1, <2>2, <2>3, <2>4, <2>5, <2>6 DEF Tickets, Asking
<1>4. Presenting(v)'
  <2> SUFFICES ASSUME link'[v].thread = "recv" PROVE Presenting(v)'
    BY DEF Presenting
  <2>1. link'[v] = link[v] /\ link[v].thread = "recv" /\ alive'[link[v].ss]
    OBVIOUS
  <2>2. Good(v, link[v].ticket, link[v].ss)'
    BY <1>1, <2>1, GoodKept DEF Tickets, Presenting, Selected, Good
  <2>3. QED  BY <2>1, <2>2 DEF Tickets, Presenting
<1>5. QED  BY <1>2, <1>3, <1>4 DEF Tickets

\* A step after which the user neither asks for a ticket nor presents one.
LEMMA Idle ==
  ASSUME TypeInv, TypeInv', NEW u \in Users, Tickets(u), typed' >= typed,
         \A s \in Servers : \A k \in table'[s] : k.user = u => k \in table[s],
         cmd'[u].pc \notin {"lookup", "issue", "call", "answer", "connect"},
         cmd'[u].number =< typed', link'[u].thread # "recv"
  PROVE  Tickets(u)'
<1>1. Below(u, 2 * typed + 2)'
  BY TypedKept DEF Tickets
<1>2. QED  BY <1>1 DEF Tickets, Asking, Presenting

\* A step that leaves clock, tables and servers alone keeps every ticket.
LEMMA Untouched ==
  ASSUME TypeInv, NEW u \in Users, typed' >= typed, UNCHANGED <<now, table, servers>>
  PROVE  Keeps(u)
  BY AccessAssumption DEF TypeInv, TypeOK, Keeps, servers

\* The others, in a step of one user that leaves tables and servers alone.
LEMMA OthersKept ==
  ASSUME TypeInv, TypeInv', TicketInv, NEW u \in Users, NEW v \in Users, u # v,
         typed' >= typed, UNCHANGED <<now, table, servers>>,
         cmd'[v] = cmd[v], link'[v] = link[v]
  PROVE  Tickets(v)'
<1>1. Keeps(v)
  BY Untouched
<1>2. Tickets(v)
  BY DEF TicketInv
<1>3. link[v].thread = "recv" => alive'[link[v].ss]
  BY <1>2 DEF Tickets, Presenting, servers
<1>4. QED  BY <1>1, <1>2, <1>3, Bystander

\* The steps of the name manager that touch no table.
LEMMA AskingKept ==
  ASSUME TypeInv, TypeInv', TicketInv, NEW u \in Users,
         Lookup(u) \/ issue_ticket(u) \/ TicketStored(u) \/ TicketCallFails(u)
  PROVE  TicketInv'
<1>0. /\ cmd \in [Users -> Command] /\ cmd[u] \in Command /\ typed \in Nat /\ Tickets(u)
      /\ UNCHANGED <<now, typed, table, servers, link>>
  BY AccessAssumption DEF TypeInv, TypeOK, TicketInv, Lookup, issue_ticket,
              TicketStored, TicketCallFails
<1>1. ASSUME NEW v \in Users, u # v PROVE Tickets(v)'
  <2>1. cmd'[v] = cmd[v]
    BY <1>0, <1>1 DEF Lookup, issue_ticket, TicketStored, TicketCallFails, Tell, Goto
  <2>2. QED  BY <1>0, <1>1, <2>1, OthersKept
<1>2. Tickets(u)'
  <2>0. Below(u, 2 * typed + 2)' /\ typed' = typed /\ link'[u] = link[u]
    BY <1>0, TypedKept DEF Tickets, servers
  <2>1. CASE cmd' = [cmd EXCEPT ![u] = [NoCommand EXCEPT !.told = "refused"]]
    <3>1. cmd'[u].pc = "prompt" /\ cmd'[u].number = 0
      BY <1>0, <2>1 DEF NoCommand
    <3>2. link[u].thread # "recv"
      BY <1>0 DEF Tickets, Asking, Lookup, TicketCallFails, issue_ticket, TicketStored, At
    <3>3. QED  BY <1>0, <3>1, <3>2, Idle
  <2>2. CASE Lookup(u) /\ \E s \in Servers : cmd' = [cmd EXCEPT ![u].pc = "issue", ![u].ss = s]
    <3>1. cmd'[u].pc = "issue" /\ cmd'[u].number = cmd[u].number /\ cmd'[u].attempt = cmd[u].attempt
      BY <1>0, <2>2 DEF Command
    <3>2. Token(u)' = Token(u)
      BY <3>1 DEF Token
    <3>3. Below(u, Token(u))'
      BY <1>0, <2>2, <3>2 DEF Tickets, Asking, Lookup, At, Below
    <3>4. link[u].thread = "none"
      BY <1>0, <2>2 DEF Tickets, Asking, Lookup, At
    <3>5. QED  BY <1>0, <2>0, <3>1, <3>3, <3>4 DEF Tickets, Asking, Presenting
  <2>3. CASE issue_ticket(u)
    <3>1. /\ cmd'[u].pc = "call" /\ cmd'[u].number = cmd[u].number
          /\ cmd'[u].attempt = cmd[u].attempt /\ cmd'[u].op = cmd[u].op
          /\ cmd'[u].ticket.token = Token(u) /\ cmd'[u].ticket.user = u
          /\ cmd'[u].ticket.op = cmd[u].op
      BY <1>0, <2>3 DEF Command, issue_ticket
    <3>2. Token(u)' = Token(u)
      BY <3>1 DEF Token
    <3>3. Below(u, Token(u))'
      BY <1>0, <2>3, <3>2 DEF Tickets, Asking, issue_ticket, At, Below
    <3>4. link[u].thread = "none"
      BY <1>0, <2>3 DEF Tickets, Asking, issue_ticket, At
    <3>5. QED  BY <1>0, <2>0, <3>1, <3>2, <3>3, <3>4 DEF Tickets, Asking, Presenting
  <2>4. CASE TicketStored(u)
    <3>1. /\ cmd'[u].pc = "connect" /\ cmd'[u].number = cmd[u].number
          /\ cmd'[u].attempt = cmd[u].attempt /\ cmd'[u].op = cmd[u].op
          /\ cmd'[u].ticket = cmd[u].ticket /\ cmd'[u].ss = cmd[u].ss
      BY <1>0, <2>4 DEF Command, TicketStored, Goto
    <3>2. Token(u)' = Token(u)
      BY <3>1 DEF Token
    <3>3. Below(u, Token(u) + 1)'
      BY <1>0, <2>4, <3>2 DEF Tickets, Asking, TicketStored, At, Below
    <3>4. Good(u, cmd[u].ticket, cmd[u].ss)'
      <4>1. Good(u, cmd[u].ticket, cmd[u].ss) /\ cmd[u].ss \in Servers /\ cmd[u].ticket \in Ticket
        BY <1>0, <2>4 DEF Tickets, Asking, TicketStored, At, TypeInv, Selected, Command
      <4>2. PICK t \in Ticket, s \in Servers : t = cmd[u].ticket /\ s = cmd[u].ss
        BY <4>1
      <4>3. Good(u, t, s)'
        BY <1>0, <4>1, <4>2, GoodKept, Untouched
      <4>4. QED  BY <3>1, <4>2, <4>3
    <3>5. link[u].thread = "none"
      BY <1>0, <2>4 DEF Tickets, Asking, TicketStored, At
    <3>6. cmd[u].ticket.token = Token(u) /\ cmd[u].ticket.user = u /\ cmd[u].ticket.op = cmd[u].op
      BY <1>0, <2>4 DEF Tickets, Asking, TicketStored, At
    <3>7. QED  BY <1>0, <2>0, <3>1, <3>2, <3>3, <3>4, <3>5, <3>6
              DEF Tickets, Asking, Presenting, Good
  <2>5. CASE TicketCallFails(u) /\ cmd[u].attempt = 0
    <3>1. cmd'[u].pc = "lookup" /\ cmd'[u].number = cmd[u].number /\ cmd'[u].attempt = 1
      BY <1>0, <2>5 DEF Command, TicketCallFails
    <3>2. Token(u)' = Token(u) + 1 /\ Token(u) \in Nat
      BY <1>0, <2>5, <3>1, AccessAssumption DEF Token, Command
    <3>3. Below(u, Token(u) + 1)
      <4>1. Below(u, Token(u)) \/ Below(u, Token(u) + 1)
        BY <1>0, <2>5 DEF Tickets, Asking, TicketCallFails
      <4>2. \A x \in Servers : \A k \in table[x] : k.token \in Nat
        BY DEF TypeInv, TypeOK, Ticket
      <4>3. QED  BY <3>2, <4>1, <4>2 DEF Below
    <3>4. Below(u, Token(u))'
      BY <1>0, <3>2, <3>3 DEF Below
    <3>5. link[u].thread = "none"
      BY <1>0, <2>5 DEF Tickets, Asking, TicketCallFails
    <3>6. QED  BY <1>0, <2>0, <3>1, <3>4, <3>5 DEF Tickets, Asking, Presenting
  <2>6. QED  BY <2>1, <2>2, <2>3, <2>4, <2>5 DEF Lookup, TicketCallFails, Tell
<1>3. QED  BY <1>1, <1>2 DEF TicketInv

\* The server stores the ticket: it is the newest one of its user.
LEMMA StoringKept ==
  ASSUME TypeInv, TypeInv', TicketInv, NEW u \in Users, handle_nm_ticket_command(u)
  PROVE  TicketInv'
<1> DEFINE s == cmd[u].ss
           t == [cmd[u].ticket EXCEPT !.boot = boot[s]]
<1>0. /\ cmd \in [Users -> Command] /\ cmd[u] \in Command /\ typed \in Nat /\ Tickets(u)
      /\ table \in [Servers -> SUBSET Ticket] /\ cmd[u].pc = "call" /\ s \in Servers
      /\ boot[s] \in Nat /\ cmd[u].ticket \in Ticket /\ cmd[u].number \in Nat /\ Token(u) \in Nat
  BY AccessAssumption
  DEF TypeInv, TypeOK, TicketInv, handle_nm_ticket_command, At, Selected, Command, Token
<1>1. /\ t \in Ticket /\ t.token = Token(u) /\ t.user = u /\ t.op = cmd[u].op /\ t.boot = boot[s]
  BY <1>0 DEF Tickets, Asking, Ticket
<1>2. /\ table' = [table EXCEPT ![s] = @ \cup {t}] /\ UNCHANGED <<now, typed, servers, link>>
      /\ cmd'[u].pc = "answer" /\ cmd'[u].ticket = t /\ cmd'[u].number = cmd[u].number
      /\ cmd'[u].attempt = cmd[u].attempt /\ cmd'[u].op = cmd[u].op /\ cmd'[u].ss = s
      /\ \A v \in Users \ {u} : cmd'[v] = cmd[v]
  BY <1>0 DEF handle_nm_ticket_command, Command
<1> HIDE DEF t
<1>3. ASSUME NEW v \in Users, u # v PROVE Tickets(v)'
  <2>1. Keeps(v)
    BY <1>0, <1>1, <1>2, <1>3, AccessAssumption DEF Keeps, servers, TypeInv, TypeOK
  <2>2. Tickets(v) /\ (link[v].thread = "recv" => alive'[link[v].ss])
    BY <1>2 DEF TicketInv, Tickets, Presenting, servers
  <2>3. QED  BY <1>2, <1>3, <2>1, <2>2, Bystander
<1>4. Tickets(u)'
  <2>0. Token(u)' = Token(u) /\ link'[u].thread = "none" /\ link[u].thread = "none"
    BY <1>0, <1>2 DEF Token, Tickets, Asking
  <2>1. \A x \in Servers : \A k \in table'[x] : k \in table[x] \/ k = t
    BY <1>0, <1>2
  <2>2. \A x \in Servers : \A k \in table[x] : k.user = u => k.token < Token(u) /\ k.token \in Nat
    BY <1>0 DEF Tickets, Asking, Below, Ticket
  <2>3. \A x \in Servers : \A k \in table'[x] :
           k.user = u => k.token < Token(u) + 1 /\ (k.token = Token(u) => k = t)
    BY <1>0, <1>1, <2>1, <2>2
  <2>4. Below(u, Token(u) + 1)'
    BY <2>0, <2>3 DEF Below
  <2>5. Below(u, 2 * typed + 2)'
    <3>1. \A x \in Servers : \A k \in table[x] : k.user = u => k.token < 2 * typed + 2
      BY <1>0 DEF Tickets, Below
    <3>2. Token(u) < 2 * typed + 2
      BY <1>0 DEF Token, Tickets, Asking, Command
    <3>3. QED  BY <1>1, <1>2, <2>1, <3>1, <3>2 DEF Below
  <2>6. t \in table'[s] /\ boot'[s] = boot[s]
    BY <1>0, <1>2 DEF servers
  <2>7. Good(u, cmd[u].ticket, cmd[u].ss)'
    BY <1>0, <1>1, <1>2, <2>3, <2>6 DEF Good
  <2>8. Asking(u)'
    BY <1>0, <1>1, <1>2, <2>0, <2>4, <2>7 DEF Tickets, Asking
  <2>9. QED  BY <2>0, <2>5, <2>8 DEF Tickets, Presenting
<1>5. QED  BY <1>3, <1>4 DEF TicketInv

\* A client that connects presents the ticket it was given.
LEMMA ConnectKept ==
  ASSUME TypeInv, TypeInv', TicketInv, NEW u \in Users, net_connect(u)
  PROVE  TicketInv'
<1>0. /\ cmd \in [Users -> Command] /\ cmd[u] \in Command /\ typed \in Nat /\ Tickets(u)
      /\ link \in [Users -> Link] /\ cmd[u].pc = "connect" /\ cmd[u].ss \in Servers
      /\ cmd[u].ticket \in Ticket /\ UNCHANGED <<now, typed, table, servers>>
      /\ cmd[u].number =< typed /\ link[u].thread = "none"
  BY AccessAssumption
  DEF TypeInv, TypeOK, TicketInv, net_connect, At, Selected, Command, Tickets, Asking
<1>1. ASSUME NEW v \in Users, u # v PROVE Tickets(v)'
  <2>1. cmd'[v] = cmd[v] /\ link'[v] = link[v]
    BY <1>0, <1>1 DEF net_connect, Tell
  <2>2. QED  BY <1>0, <1>1, <2>1, OthersKept
<1>2. CASE alive[cmd[u].ss]
  <2>1. /\ link'[u].ss = cmd[u].ss /\ link'[u].ticket = cmd[u].ticket
        /\ link'[u].req = Request(cmd[u].op) /\ link'[u].resp = "none"
    <3> DEFINE l == [NoLink EXCEPT !.ss = cmd[u].ss, !.ticket = cmd[u].ticket,
                                   !.thread = "recv", !.req = Request(cmd[u].op)]
    <3>1. /\ l.ss = cmd[u].ss /\ l.ticket = cmd[u].ticket
          /\ l.req = Request(cmd[u].op) /\ l.resp = "none"
      BY DEF NoLink
    <3>2. link' = [link EXCEPT ![u] = l]
      BY <1>2 DEF net_connect
    <3> HIDE DEF l
    <3>3. QED  BY <1>0, <3>1, <3>2
  <2>2. cmd'[u].pc = "waiting" /\ cmd'[u].number = cmd[u].number
    BY <1>0, <1>2 DEF net_connect, Command
  <2>3. PICK t \in Ticket, s \in Servers : t = cmd[u].ticket /\ s = cmd[u].ss
    BY <1>0
  <2>4. Good(u, t, s)'
    BY <1>0, <2>3, GoodKept, Untouched DEF Tickets, Asking
  <2>5. Good(u, link[u].ticket, link[u].ss)'
    BY <2>1, <2>3, <2>4
  <2>6. link'[u].ticket.op = TicketOp(link[u].req)'
    BY <1>0, <2>1 DEF Tickets, Asking, TicketOp, Request, Command, Ops
  <2>7. Presenting(u)'
    BY <1>0, <1>2, <2>1, <2>2, <2>5, <2>6 DEF Presenting, servers
  <2>8. Below(u, 2 * typed + 2)'
    BY <1>0, TypedKept DEF Tickets
  <2>9. Tickets(u)'
    BY <1>0, <2>2, <2>7, <2>8 DEF Tickets, Asking
  <2>10. QED  BY <1>1, <2>9 DEF TicketInv
<1>3. CASE ~alive[cmd[u].ss]
  <2>1. cmd'[u].pc = "prompt" /\ cmd'[u].number = 0 /\ link'[u] = link[u]
    BY <1>0, <1>3 DEF net_connect, Tell, NoCommand
  <2>2. Tickets(u)'
    BY <1>0, <2>1, Idle
  <2>3. QED  BY <1>1, <2>2 DEF TicketInv
<1>4. QED  BY <1>2, <1>3

\* The other steps of a client: it asks for no ticket, and if it leaves one
\* unlooked at, that one stays as it is.
LEMMA ClientKept ==
  ASSUME TypeInv, TypeInv', TicketInv, NEW u \in Users,
         \/ ReceiveResponse(u) \/ ReceiveFails(u) \/ EndOfInput(u) \/ ClientEnds(u)
         \/ Edit(u) \/ Commit(u) \/ Abort(u)
  PROVE  TicketInv'
<1>0. /\ cmd \in [Users -> Command] /\ cmd[u] \in Command /\ typed \in Nat /\ Tickets(u)
      /\ link \in [Users -> Link] /\ link[u] \in Link
      /\ UNCHANGED <<now, typed, table, servers>>
      /\ cmd[u].number =< typed
  BY AccessAssumption
  DEF TypeInv, TypeOK, TicketInv, Tickets, Asking, ReceiveResponse, ReceiveFails, EndOfInput,
      ClientEnds, Edit, Commit, Abort, Sends
<1>1. ASSUME NEW v \in Users, u # v PROVE Tickets(v)'
  <2>1. cmd'[v] = cmd[v] /\ link'[v] = link[v]
    BY <1>0, <1>1
    DEF ReceiveResponse, NextResponse, LastResponse, ReceiveFails, EndOfInput, ClientEnds, Edit,
        Commit, Abort, Sends, Tell, Goto, net_close, Consume
  <2>2. QED  BY <1>0, <1>1, <2>1, OthersKept
<1>2. CASE link[u].thread # "recv"
  <2>1. /\ cmd'[u].number =< typed'
        /\ cmd'[u].pc \notin {"lookup", "issue", "call", "answer", "connect"}
    <3>1. CASE EndOfInput(u) \/ Edit(u) \/ Commit(u) \/ Abort(u)
      BY <1>0, <3>1 DEF EndOfInput, Edit, Commit, Abort, Sends, Goto, Command
    <3>2. CASE ClientEnds(u)
      BY <1>0, <3>2 DEF ClientEnds, NoCommand
    <3>3. CASE ReceiveFails(u)
      BY <1>0, <3>3 DEF ReceiveFails, Tell, Goto, NoCommand, Command
    <3>4. CASE ReceiveResponse(u)
      BY <1>0, <3>4 DEF ReceiveResponse, NextResponse, LastResponse, Tell, Goto, NoCommand, Command
    <3>5. QED  BY <3>1, <3>2, <3>3, <3>4
  <2>2. link'[u].thread = link[u].thread \/ link'[u].thread = "none"
    <3>1. CASE EndOfInput(u)
      BY <3>1 DEF EndOfInput
    <3>2. CASE Edit(u) \/ Commit(u) \/ Abort(u)
      BY <1>0, <3>2 DEF Edit, Commit, Abort, Sends, Link
    <3>3. CASE net_close(u) \/ Consume(u)
      <4>1. NoLink.thread = "none" /\ [link[u] EXCEPT !.resp = "none"].thread = link[u].thread
        BY <1>0 DEF NoLink, Link
      <4>2. [link[u] EXCEPT !.gone = TRUE, !.resp = "none"].thread = link[u].thread
        BY <1>0 DEF Link
      <4>3. \/ link'[u] = NoLink \/ link'[u] = [link[u] EXCEPT !.resp = "none"]
            \/ link'[u] = [link[u] EXCEPT !.gone = TRUE, !.resp = "none"]
        BY <1>0, <3>3 DEF net_close, Consume, Link
      <4>4. QED  BY <4>1, <4>2, <4>3
    <3>4. QED
      BY <3>1, <3>2, <3>3 DEF ReceiveResponse, NextResponse, LastResponse, ReceiveFails, ClientEnds
  <2>3. Tickets(u)'
    BY <1>0, <1>2, <2>1, <2>2, Idle
  <2>4. QED  BY <1>1, <2>3 DEF TicketInv
<1>3. CASE link[u].thread = "recv"
  <2>1. cmd[u].pc \in {"waiting", "ended"} /\ link[u].resp = "none" /\ ~Closed(u)
    BY <1>0, <1>3 DEF Tickets, Presenting, Closed
  <2>2. ClientEnds(u)
    BY <1>3, <2>1
    DEF ReceiveResponse, ReceiveFails, EndOfInput, Edit, Commit, Abort, Sends, At
  <2>3. cmd'[u].pc = "ended" /\ cmd'[u].number = 0
    BY <1>0, <2>2 DEF ClientEnds, NoCommand
  <2>4. /\ link'[u].thread = "recv" /\ link'[u].resp = "none" /\ link'[u].ss = link[u].ss
        /\ link'[u].ticket = link[u].ticket /\ link'[u].req = link[u].req
    BY <1>0, <1>3, <2>1, <2>2 DEF ClientEnds, net_close, Link
  <2>5. PICK t \in Ticket, s \in Servers : t = link[u].ticket /\ s = link[u].ss
    BY <1>0, <1>3 DEF Link, TypeInv, Selected
  <2>6. Good(u, t, s)'
    BY <1>0, <1>3, <2>5, GoodKept, Untouched DEF Tickets, Presenting
  <2>7. Good(u, link[u].ticket, link[u].ss)'
    BY <2>4, <2>5, <2>6
  <2>8. TicketOp(link[u].req)' = TicketOp(link[u].req)
    BY <2>4 DEF TicketOp
  <2>9. Presenting(u)'
    BY <1>0, <1>3, <2>3, <2>4, <2>7, <2>8 DEF Tickets, Presenting, servers
  <2>10. Below(u, 2 * typed + 2)'
    BY <1>0, TypedKept DEF Tickets
  <2>11. Tickets(u)'
    BY <1>0, <2>3, <2>9, <2>10 DEF Tickets, Asking
  <2>12. QED  BY <1>1, <2>11 DEF TicketInv
<1>4. QED  BY <1>2, <1>3

\* validate_ticket takes out what is expired and the ticket of this user.
LEMMA ValidateKept ==
  ASSUME TypeInv, TypeInv', TicketInv, NEW u \in Users, validate_ticket(u)
  PROVE  TicketInv'
<1> DEFINE s == link[u].ss
           found == {t \in ticket_table_prune(s) :
                        Matches(t, link[u].ticket, u, TicketOp(link[u].req))}
<1>0. /\ cmd[u] \in Command /\ link \in [Users -> Link] /\ link[u] \in Link /\ typed \in Nat
      /\ table \in [Servers -> SUBSET Ticket] /\ Tickets(u)
      /\ link[u].thread = "recv" /\ s \in Servers
      /\ UNCHANGED <<now, typed, servers, cmd>>
  BY AccessAssumption DEF TypeInv, TypeOK, TicketInv, validate_ticket, Selected
<1>1. table' = [table EXCEPT ![s] = ticket_table_prune(s) \ found]
  BY DEF validate_ticket
<1>2. \A k \in found : k.user = u
  BY DEF Matches
<1>3. link'[u].thread # "recv" /\ \A v \in Users \ {u} : link'[v] = link[v]
  <2>1. CASE link' = [link EXCEPT ![u].thread = "serve"]
    BY <1>0, <2>1 DEF Link
  <2>2. CASE Respond(u, "ERR_NOAUTH", "none")
    BY <1>0, <2>2 DEF Respond, NoLink, Link
  <2>3. QED  BY <2>1, <2>2 DEF validate_ticket
<1> HIDE DEF found
<1>4. \A x \in Servers : \A k \in table'[x] : k \in table[x]
  BY <1>0, <1>1 DEF ticket_table_prune
<1>5. ASSUME NEW v \in Users, u # v PROVE Tickets(v)'
  <2>1. \A x \in Servers : \A k \in table[x] :
           k.user = v => k \in table'[x] \/ Expired(k, now + Skew[x])
    BY <1>0, <1>1, <1>2, <1>5 DEF ticket_table_prune, Clock
  <2>2. Keeps(v)
    BY <1>0, <1>4, <2>1, AccessAssumption DEF Keeps, servers, TypeInv, TypeOK
  <2>3. Tickets(v) /\ (link[v].thread = "recv" => alive'[link[v].ss])
    BY <1>0 DEF TicketInv, Tickets, Presenting, servers
  <2>4. QED  BY <1>0, <1>3, <1>5, <2>2, <2>3, Bystander
<1>6. Tickets(u)'
  BY <1>0, <1>3, <1>4, Idle DEF Tickets, Presenting, Asking
<1>7. QED  BY <1>5, <1>6 DEF TicketInv

\* A thread that serves its connection is past its ticket.
LEMMA ServeKept ==
  ASSUME TypeInv, TypeInv', TicketInv, NEW u \in Users,
         Serve(u) \/ write_session_commit(u) \/ AnswerTooLong(u)
  PROVE  TicketInv'
<1>0. /\ link \in [Users -> Link] /\ link[u] \in Link /\ typed \in Nat /\ Tickets(u)
      /\ UNCHANGED <<now, typed, table, servers, cmd>>
  BY AccessAssumption DEF TypeInv, TypeOK, TicketInv, Serve, write_session_commit, AnswerTooLong
<1>1. link[u].thread \notin {"none", "recv"}
  BY DEF Serve, write_session_commit, AnswerTooLong, handle_read, handle_stream, handle_write, Serving
<1>2. \/ link' = [link EXCEPT ![u].thread = "committed"]
      \/ \E r, next : next # "recv" /\ Respond(u, r, next)
  BY DEF Serve, write_session_commit, AnswerTooLong, handle_read, handle_stream, handle_write
<1>3. link'[u].thread # "recv" /\ \A v \in Users \ {u} : link'[v] = link[v]
  <2>1. CASE link' = [link EXCEPT ![u].thread = "committed"]
    BY <1>0, <2>1 DEF Link
  <2>2. ASSUME NEW r, NEW next, next # "recv", Respond(u, r, next)
        PROVE  link'[u].thread # "recv" /\ \A v \in Users \ {u} : link'[v] = link[v]
    BY <1>0, <2>2 DEF Respond, NoLink, Link
  <2>3. QED  BY <1>2, <2>1, <2>2
<1>4. ASSUME NEW v \in Users, u # v PROVE Tickets(v)'
  BY <1>0, <1>3, <1>4, OthersKept
<1>5. cmd[u].pc \notin {"lookup", "issue", "call", "answer", "connect"} /\ cmd[u].number =< typed
  BY <1>0, <1>1 DEF Tickets, Asking
<1>6. Tickets(u)'
  BY <1>0, <1>3, <1>5, Idle
<1>7. QED  BY <1>4, <1>6 DEF TicketInv

\* The number of a new command makes its tokens newer than all others.
LEMMA TypingKept ==
  ASSUME TypeInv, TypeInv', TicketInv, NEW u \in Users, NEW op \in Ops, TypeCommand(u, op)
  PROVE  TicketInv'
<1>0. /\ cmd \in [Users -> Command] /\ typed \in Nat /\ Tickets(u) /\ typed' = typed + 1
      /\ UNCHANGED <<now, table, servers, link>> /\ link[u].thread = "none"
  BY AccessAssumption DEF TypeInv, TypeOK, TicketInv, TypeCommand
<1>1. ASSUME NEW v \in Users, u # v PROVE Tickets(v)'
  <2>1. cmd'[v] = cmd[v]
    BY <1>0, <1>1 DEF TypeCommand
  <2>2. QED  BY <1>0, <1>1, <2>1, OthersKept
<1>2. cmd'[u].pc = "lookup" /\ cmd'[u].number = typed + 1 /\ cmd'[u].attempt = 0
  BY <1>0 DEF TypeCommand, NoCommand
<1>3. Token(u)' = 2 * typed + 2
  BY <1>0, <1>2 DEF Token
<1>4. Below(u, Token(u))'
  BY <1>0, <1>3 DEF Tickets, Below
<1>5. Below(u, 2 * typed + 2)'
  BY <1>0, TypedKept DEF Tickets
<1>6. Tickets(u)'
  BY <1>0, <1>2, <1>4, <1>5 DEF Tickets, Asking, Presenting
<1>7. QED  BY <1>1, <1>6 DEF TicketInv

\* Time passes, a server ends, a server starts.
LEMMA EnvironmentKept ==
  ASSUME TypeInv, TypeInv', TicketInv,
         Tick \/ (\E u \in Users : BrokenPipe(u)) \/ \E s \in Servers : Crash(s) \/ Restart(s)
  PROVE  TicketInv'
<1> SUFFICES ASSUME NEW v \in Users PROVE Tickets(v)'
  BY DEF TicketInv
<1>0. /\ now \in Int /\ typed \in Nat /\ boot \in [Servers -> Nat] /\ alive \in [Servers -> BOOLEAN]
      /\ table \in [Servers -> SUBSET Ticket] /\ Tickets(v) /\ link[v] \in Link /\ Selected(v)
  BY AccessAssumption DEF TypeInv, TypeOK, TicketInv
<1>1. CASE Tick
  <2>1. Keeps(v)
    BY <1>0, <1>1 DEF Tick, Keeps, servers
  <2>2. cmd'[v] = cmd[v] /\ link'[v] = link[v] /\ (link[v].thread = "recv" => alive'[link[v].ss])
    BY <1>0, <1>1 DEF Tick, servers, Tickets, Presenting
  <2>3. QED  BY <1>0, <2>1, <2>2, Bystander
<1>2. ASSUME NEW s, End(s) PROVE Tickets(v)'
  <2>1. Keeps(v)
    BY <1>0, <1>2 DEF End, Keeps
  <2>2. /\ cmd'[v] = cmd[v]
        /\ \/ link'[v] = link[v] /\ (link[v].ss # s \/ link[v].thread = "none")
           \/ link'[v] = NoLink /\ link[v].thread # "none"
           \/ link'[v] = [link[v] EXCEPT !.thread = "lost"] /\ link[v].thread # "none"
    BY <1>2 DEF End
  <2>3. NoLink.thread = "none" /\ [link[v] EXCEPT !.thread = "lost"].thread = "lost"
    BY <1>0 DEF NoLink, Link
  <2>4. link[v].thread = "recv" /\ link[v].ss # s => alive'[link[v].ss]
    BY <1>0, <1>2 DEF End, Tickets, Presenting, Selected
  <2>5. QED  BY <1>0, <2>1, <2>2, <2>3, <2>4, Bystander
<1>3. ASSUME NEW s \in Servers, Restart(s) PROVE Tickets(v)'
  <2>1. Keeps(v)
    BY <1>0, <1>3 DEF Restart, Keeps
  <2>2. cmd'[v] = cmd[v] /\ link'[v] = link[v] /\ (link[v].thread = "recv" => alive'[link[v].ss])
    BY <1>0, <1>3 DEF Restart, Tickets, Presenting, Selected
  <2>3. QED  BY <1>0, <2>1, <2>2, Bystander
<1>4. QED  BY <1>1, <1>2, <1>3 DEF BrokenPipe, Crash

\* At the start nobody asks for or presents a ticket.
LEMMA InitTickets == Init => TicketInv
  BY DEF Init, TicketInv, Tickets, Below, Asking, Presenting, NoCommand, NoLink

\* Every step keeps the inductive invariant.
LEMMA NextTickets == IInv /\ [Next]_vars => IInv'
<1> SUFFICES ASSUME IInv, [Next]_vars PROVE IInv'
  OBVIOUS
<1>1. TypeInv /\ TypeInv' /\ TicketInv
  BY NextType DEF IInv
<1>2. CASE Next
  BY <1>1, <1>2, AskingKept, StoringKept, ConnectKept, ClientKept, ValidateKept, ServeKept,
     TypingKept, EnvironmentKept
  DEF Next, IInv, ManagerStep, ClientStep, ServerStep, UserStep
<1>3. CASE UNCHANGED vars
  <2>1. ASSUME NEW v \in Users PROVE Tickets(v)'
    <3>1. Tickets(v) /\ typed \in Nat
      BY <1>1, AccessAssumption DEF TicketInv, TypeInv, TypeOK
    <3>2. Keeps(v) /\ (link[v].thread = "recv" => alive'[link[v].ss])
      BY <1>1, <1>3, <3>1, Untouched DEF vars, servers, Tickets, Presenting
    <3>3. QED  BY <1>1, <1>3, <3>1, <3>2, Bystander DEF vars
  <2>2. QED  BY <1>1, <2>1 DEF IInv, TicketInv
<1>4. QED  BY <1>2, <1>3

\* At the moment a ticket is looked up in the server's table.
LEMMA Decision ==
  ASSUME IInv, [Next]_vars, NEW u \in Users, link[u].thread = "recv",
         link'[u].resp = "ERR_NOAUTH" \/ link'[u].thread = "serve"
  PROVE  validate_ticket(u)
<1>1. /\ link[u] \in Link /\ link \in [Users -> Link] /\ link[u].resp = "none"
      /\ cmd[u].pc \in {"waiting", "ended"} /\ ~Closed(u)
  BY DEF IInv, TypeInv, TypeOK, TicketInv, Tickets, Presenting, Closed
<1>2. link'[u] # link[u]
  BY <1>1
<1>3. ASSUME NEW s, End(s) PROVE FALSE
  <2>1. NoLink.resp = "none" /\ NoLink.thread = "none"
    BY DEF NoLink
  <2>2. /\ [link[u] EXCEPT !.thread = "lost"].resp = "none"
        /\ [link[u] EXCEPT !.thread = "lost"].thread = "lost"
    BY <1>1 DEF Link
  <2>3. QED  BY <1>1, <1>3, <2>1, <2>2 DEF End
<1>4. ASSUME net_close(u) PROVE FALSE
  <2>1. /\ [link[u] EXCEPT !.gone = TRUE, !.resp = "none"].resp = "none"
        /\ [link[u] EXCEPT !.gone = TRUE, !.resp = "none"].thread = "recv"
    BY <1>1 DEF Link
  <2>2. QED  BY <1>1, <1>4, <2>1 DEF net_close
<1>5. ASSUME NEW v \in Users, v # u
      PROVE ~(ManagerStep(v) \/ ClientStep(v) \/ ServerStep(v) \/ UserStep(v))
  <2>1. CASE ManagerStep(v)
    BY <1>2, <2>1
    DEF ManagerStep, Lookup, issue_ticket, handle_nm_ticket_command, TicketStored, TicketCallFails
  <2>2. CASE ClientStep(v)
    BY <1>1, <1>2, <1>5, <2>2
    DEF ClientStep, net_connect, ReceiveResponse, NextResponse, LastResponse, ReceiveFails, Abort,
        Sends, net_close, Consume
  <2>3. CASE ServerStep(v)
    BY <1>1, <1>2, <1>5, <2>3
    DEF ServerStep, validate_ticket, Serve, handle_read, handle_stream, handle_write, Respond,
        write_session_commit, AnswerTooLong
  <2>4. CASE UserStep(v)
    BY <1>1, <1>2, <1>5, <2>4
    DEF UserStep, TypeCommand, Edit, Commit, EndOfInput, ClientEnds, Sends, net_close
  <2>5. QED  BY <2>1, <2>2, <2>3, <2>4
<1>6. ~(ManagerStep(u) \/ ClientStep(u) \/ UserStep(u) \/ Serve(u) \/ write_session_commit(u)
         \/ AnswerTooLong(u))
  <2>1. CASE ManagerStep(u)
    BY <1>2, <2>1
    DEF ManagerStep, Lookup, issue_ticket, handle_nm_ticket_command, TicketStored, TicketCallFails
  <2>2. CASE ClientStep(u)
    BY <1>1, <2>2 DEF ClientStep, net_connect, ReceiveResponse, ReceiveFails, Abort, Sends, At
  <2>3. CASE UserStep(u)
    BY <1>1, <1>4, <2>3 DEF UserStep, TypeCommand, Edit, Commit, EndOfInput, ClientEnds, Sends, At
  <2>4. CASE Serve(u) \/ write_session_commit(u) \/ AnswerTooLong(u)
    BY <2>4 DEF Serve, handle_read, handle_stream, handle_write, Serving, write_session_commit,
                AnswerTooLong
  <2>5. QED  BY <2>1, <2>2, <2>3, <2>4
<1>7. ~Tick /\ ~UNCHANGED vars /\ \A s \in Servers : ~Restart(s)
  BY <1>2 DEF Tick, Restart, vars
<1>8. QED
  BY <1>3, <1>5, <1>6, <1>7 DEF Next, BrokenPipe, Crash, ServerStep

\* A ticket that was handed out is honoured: validate_ticket refuses it only
\* when it has expired by the server's clock or the server was started anew.
THEOREM Honoured == Spec => TicketHonoured
<1>1. ASSUME IInv, [Next]_vars, NEW u \in Users,
             link[u].thread = "recv" /\ link'[u].resp = "ERR_NOAUTH"
      PROVE  Expired(link[u].ticket, Clock(link[u].ss)) \/ boot[link[u].ss] # link[u].ticket.boot
  <2>1. validate_ticket(u)
    BY <1>1, Decision
  <2>2. Tickets(u) /\ link \in [Users -> Link] /\ link[u] \in Link
    BY <1>1 DEF IInv, TicketInv, TypeInv, TypeOK
  <2>3. ~(link' = [link EXCEPT ![u].thread = "serve"])
    BY <1>1, <2>2 DEF Tickets, Presenting, Link
  <2>4. link[u].ticket \notin ticket_table_prune(link[u].ss)
    BY <1>1, <2>1, <2>2, <2>3 DEF validate_ticket, Matches, Tickets, Presenting, Good
  <2>5. QED
    BY <1>1, <2>2, <2>4 DEF ticket_table_prune, Tickets, Presenting, Good
<1>2. ASSUME IInv, [Next]_vars
      PROVE  [\A u \in Users :
                 link[u].thread = "recv" /\ link'[u].resp = "ERR_NOAUTH"
                    => LET s == link[u].ss IN
                       Expired(link[u].ticket, Clock(s)) \/ boot[s] # link[u].ticket.boot]_vars
  BY <1>1, <1>2
<1>3. Init => IInv
  BY InitType, InitTickets DEF IInv
<1>4. QED  BY <1>2, <1>3, NextTickets, PTL DEF Spec, TicketHonoured

\* A connection is let in only while the ticket it was given is valid by the
\* server's clock: no other entry of the table matches it.
THEOREM InTime == Spec => AdmittedInTime
<1>1. ASSUME IInv, [Next]_vars, NEW u \in Users,
             link[u].thread = "recv" /\ link'[u].thread = "serve"
      PROVE  Clock(link[u].ss) =< link[u].ticket.expiry
  <2>1. validate_ticket(u)
    BY <1>1, Decision
  <2>2. /\ Tickets(u) /\ link \in [Users -> Link] /\ link[u] \in Link /\ link[u].ss \in Servers
        /\ now \in Int /\ table \in [Servers -> SUBSET Ticket]
    BY <1>1 DEF IInv, TicketInv, TypeInv, TypeOK, Selected
  <2>3. ~Respond(u, "ERR_NOAUTH", "none")
    <3>1. NoLink.thread = "none"
      BY DEF NoLink
    <3>2. [link[u] EXCEPT !.thread = "none", !.req = "none", !.resp = "ERR_NOAUTH"].thread = "none"
      BY <2>2 DEF Link
    <3>3. QED  BY <1>1, <2>2, <3>1, <3>2 DEF Respond
  <2>4. PICK t \in ticket_table_prune(link[u].ss) :
           Matches(t, link[u].ticket, u, TicketOp(link[u].req))
    BY <2>1, <2>3 DEF validate_ticket
  <2>5. t = link[u].ticket /\ ~Expired(t, Clock(link[u].ss))
    BY <1>1, <2>2, <2>4 DEF ticket_table_prune, Matches, Tickets, Presenting, Good
  <2>6. link[u].ticket.expiry \in Int /\ Clock(link[u].ss) \in Int
    BY <2>2, AccessAssumption DEF Link, Ticket, Clock
  <2>7. QED  BY <2>5, <2>6 DEF Expired
<1>2. ASSUME IInv, [Next]_vars
      PROVE  [\A u \in Users :
                 link[u].thread = "recv" /\ link'[u].thread = "serve"
                    => Clock(link[u].ss) =< link[u].ticket.expiry]_vars
  BY <1>1, <1>2
<1>3. Init => IInv
  BY InitType, InitTickets DEF IInv
<1>4. QED  BY <1>2, <1>3, NextTickets, PTL DEF Spec, AdmittedInTime
-----------------------------------------------------------------------------
(* What a user is told *)

\* Some server was stopped.
Down == \E s \in Servers : boot[s] > 1 \/ ~alive[s]

\* The places of a client before it has a data connection, and before its
\* session can have been stored.
Unconnected == {"prompt", "lookup", "issue", "call", "answer", "connect"}
Unstored == {"lookup", "issue", "call", "answer", "connect", "waiting", "streaming", "session",
             "editing"}

\* The first request and its response.
Waiting(c, k) ==
    \/ k.thread \in {"recv", "serve"} /\ k.resp = "none" /\ k.req = Request(c.op)
    \/ k.thread = "none" /\ k.resp \in {"none", "ERR", "ERR_NOAUTH"}
    \/ k.thread = "none" /\ k.resp = "OK" /\ c.op = "READ"
    \/ k.thread = "stream" /\ k.resp = "OK" /\ c.op = "STREAM"
    \/ k.thread = "session" /\ k.resp = "OK" /\ k.req = "none" /\ c.op = "WRITE"
    \/ k.thread = "lost"

Streaming(k) ==
    \/ k.thread = "stream" /\ k.resp = "none"
    \/ k.thread = "last" /\ k.resp \in {"none", "DATA"}
    \/ k.thread = "none" /\ k.resp = "DONE"
    \/ k.thread = "lost"

\* Between the edits of a session.
InSession(k) ==
    \/ k.thread = "session" /\ k.resp = "none" /\ k.req = "none"
    \/ k.thread = "lost" /\ k.resp = "none"

Editing(k) ==
    \/ k.thread = "session" /\ k.resp = "none" /\ k.req = "WRITE_INSERT"
    \/ k.thread = "session" /\ k.resp \in {"OK", "ERR"} /\ k.req = "none"
    \/ k.thread = "lost"

\* OK is the answer to a commit that was stored, and to no other.
Committing(k, done) ==
    \/ k.thread = "session" /\ k.resp = "none" /\ k.req = "WRITE_COMMIT" /\ done = "no"
    \/ k.thread = "committed" /\ k.resp = "none" /\ done = "yes"
    \/ k.thread = "none" /\ k.resp = "OK" /\ done = "yes"
    \/ k.thread = "none" /\ k.resp = "none" /\ done = "silent"
    \/ k.thread = "none" /\ k.resp = "ERR" /\ done = "no"
    \/ k.thread = "lost" /\ k.resp = "none"

Aborting(k, done, req) ==
    \/ k.thread = "session" /\ k.resp = "none" /\ k.req = req /\ done = "no"
    \/ k.thread = "none" /\ done \in {"no", "silent"}
    \/ k.thread = "lost"

\* How far the client c, the connection k and the store of a user can be.
Talk(c, k, done) ==
    /\ c.pc # "prompt" => c.told = "nothing"
    /\ c.pc # "ended" => ~k.gone
    /\ c.pc \in Unconnected => k.thread = "none"
    /\ c.pc \in Unstored => done = "no"
    /\ c.pc = "waiting" => Waiting(c, k)
    /\ c.pc = "streaming" => Streaming(k)
    /\ c.pc = "session" => InSession(k)
    /\ c.pc = "editing" => Editing(k)
    /\ c.pc = "committing" => Committing(k, done)
    /\ c.pc = "abort" => Aborting(k, done, "none")
    /\ c.pc = "aborting" => Aborting(k, done, "WRITE_ABORT")
    /\ c.told = "committed" => done = "yes"

\* A connection is lost, and a session that was stored reported as failed,
\* only if a server was stopped.
Blamed(c, k, done) == k.thread = "lost" \/ (c.told = "failed" /\ done = "yes") => Down

ToldInv ==
    /\ \A s \in Servers : boot[s] >= 1
    /\ \A u \in Users : Talk(cmd[u], link[u], stored[u]) /\ Blamed(cmd[u], link[u], stored[u])

TInv == TypeInv /\ ToldInv

-----------------------------------------------------------------------------
(* What the parts of an action do to the records of a user *)

\* The rest of the record of a user whose client goes on.
LEMMA GotoFields ==
  ASSUME TypeInv, NEW u \in Users, NEW p, Goto(u, p)
  PROVE  /\ cmd'[u].pc = p /\ cmd'[u].op = cmd[u].op /\ cmd'[u].told = cmd[u].told
         /\ \A v \in Users \ {u} : cmd'[v] = cmd[v]
<1>1. cmd \in [Users -> Command] /\ cmd[u] \in Command
  BY DEF TypeInv, TypeOK
<1>2. QED  BY <1>1 DEF Goto, Command

\* A user who is told the result is at the prompt.
LEMMA TellFields ==
  ASSUME TypeInv, NEW u \in Users, NEW r, Tell(u, r)
  PROVE  /\ cmd'[u].pc = "prompt" /\ cmd'[u].told = r
         /\ \A v \in Users \ {u} : cmd'[v] = cmd[v]
<1>1. cmd \in [Users -> Command]
  BY DEF TypeInv, TypeOK
<1>2. QED  BY <1>1 DEF Tell, NoCommand

\* Closing a connection that the server has closed leaves nothing of it.
LEMMA CloseFields ==
  ASSUME TypeInv, NEW u \in Users, net_close(u)
  PROVE  /\ Closed(u) => link'[u].thread = "none" /\ ~link'[u].gone
         /\ link'[u].thread # "lost"
         /\ \A v \in Users \ {u} : link'[v] = link[v]
<1>1. link \in [Users -> Link] /\ link[u] \in Link
  BY DEF TypeInv, TypeOK
<1>2. link'[u] = IF Closed(u) THEN NoLink
                 ELSE [link[u] EXCEPT !.gone = TRUE, !.resp = "none"]
  BY <1>1 DEF net_close
<1>3. \A v \in Users \ {u} : link'[v] = link[v]
  BY <1>1 DEF net_close
<1>4. CASE Closed(u)
  BY <1>2, <1>3, <1>4 DEF NoLink
<1>5. CASE ~Closed(u)
  BY <1>1, <1>2, <1>3, <1>5 DEF Closed, Link
<1>6. QED  BY <1>4, <1>5

\* Taking a response off a connection leaves its thread and request.
LEMMA ConsumeFields ==
  ASSUME TypeInv, NEW u \in Users, Consume(u)
  PROVE  /\ link'[u].resp = "none" /\ link'[u].thread = link[u].thread
         /\ link'[u].req = link[u].req /\ link'[u].gone = link[u].gone
         /\ \A v \in Users \ {u} : link'[v] = link[v]
<1>1. link \in [Users -> Link] /\ link[u] \in Link
  BY DEF TypeInv, TypeOK
<1>2. QED  BY <1>1 DEF Consume, Link

\* A response to a client that is there.
LEMMA RespondFields ==
  ASSUME TypeInv, NEW u \in Users, NEW r, NEW next, Respond(u, r, next)
  PROVE  /\ \A v \in Users \ {u} : link'[v] = link[v]
         /\ ~link[u].gone => /\ link'[u].thread = next /\ link'[u].resp = r
                             /\ link'[u].req = "none" /\ ~link'[u].gone
<1>1. link \in [Users -> Link] /\ link[u] \in Link
  BY DEF TypeInv, TypeOK
<1>2. \A v \in Users \ {u} : link'[v] = link[v]
  BY <1>1 DEF Respond
<1>3. ASSUME ~link[u].gone
      PROVE  link'[u] = [link[u] EXCEPT !.thread = next, !.req = "none", !.resp = r]
  BY <1>1, <1>3 DEF Respond
<1>4. QED  BY <1>1, <1>2, <1>3 DEF Link

\* A step of one user while no server ends or starts.
LEMMA OneUser ==
  ASSUME ToldInv, NEW u \in Users, UNCHANGED servers,
         \A v \in Users \ {u} : cmd'[v] = cmd[v] /\ link'[v] = link[v] /\ stored'[v] = stored[v],
         Talk(cmd'[u], link'[u], stored'[u]),
         link'[u].thread = "lost" \/ (cmd'[u].told = "failed" /\ stored'[u] = "yes") => Down
  PROVE  ToldInv'
<1>1. Down' = Down /\ \A s \in Servers : (boot[s] >= 1)'
  BY DEF Down, servers, ToldInv
<1>2. ASSUME NEW v \in Users
      PROVE  Talk(cmd[v], link[v], stored[v])' /\ Blamed(cmd[v], link[v], stored[v])'
  <2>1. CASE v = u
    BY <1>1, <2>1 DEF Blamed, Talk, Waiting, Streaming, InSession, Editing, Committing, Aborting
  <2>2. CASE v # u
    BY <1>1, <2>2 DEF ToldInv, Blamed, Talk, Waiting, Streaming, InSession, Editing, Committing,
                      Aborting
  <2>3. QED  BY <2>1, <2>2
<1>3. QED  BY <1>1, <1>2 DEF ToldInv

-----------------------------------------------------------------------------
(* Every step keeps the dialogue *)

\* The name manager has no say in it: the client has no connection yet.
LEMMA ManagerTold ==
  ASSUME TInv, NEW u \in Users, ManagerStep(u)
  PROVE  ToldInv'
<1>0. /\ TypeInv /\ ToldInv /\ Talk(cmd[u], link[u], stored[u])
      /\ cmd \in [Users -> Command] /\ cmd[u] \in Command
  BY DEF TInv, ToldInv, TypeInv, TypeOK
<1>1. cmd[u].pc \in {"lookup", "issue", "call", "answer"} /\ UNCHANGED <<servers, link, stored>>
  BY DEF ManagerStep, Lookup, issue_ticket, handle_nm_ticket_command, TicketStored,
         TicketCallFails, At
<1>2. /\ cmd'[u].pc \in {"prompt", "lookup", "issue", "call", "answer", "connect"}
      /\ cmd'[u].told \in {"nothing", "refused"}
      /\ cmd'[u].pc # "prompt" => cmd'[u].told = "nothing"
      /\ \A v \in Users \ {u} : cmd'[v] = cmd[v]
  <2>0. cmd[u].told = "nothing"
    BY <1>0, <1>1 DEF Talk
  <2>1. CASE Tell(u, "refused")
    BY <1>0, <2>1, TellFields
  <2>2. CASE Lookup(u) /\ ~Tell(u, "refused")
    BY <1>0, <2>0, <2>2 DEF Lookup, Command
  <2>3. CASE issue_ticket(u)
    BY <1>0, <2>0, <2>3 DEF issue_ticket, Command
  <2>4. CASE handle_nm_ticket_command(u)
    BY <1>0, <2>0, <2>4 DEF handle_nm_ticket_command, Command
  <2>5. CASE TicketStored(u)
    BY <1>0, <2>0, <2>5, GotoFields DEF TicketStored
  <2>6. CASE TicketCallFails(u) /\ ~Tell(u, "refused")
    BY <1>0, <2>0, <2>6 DEF TicketCallFails, Command
  <2>7. QED  BY <2>1, <2>2, <2>3, <2>4, <2>5, <2>6 DEF ManagerStep
<1>3. link[u].thread = "none" /\ stored[u] = "no" /\ ~link[u].gone
  BY <1>0, <1>1 DEF Talk, Unconnected, Unstored
<1>4. Talk(cmd'[u], link'[u], stored'[u])
  BY <1>1, <1>2, <1>3 DEF Talk, Unconnected
<1>5. QED  BY <1>0, <1>1, <1>2, <1>3, <1>4, OneUser

\* The first request goes to a thread that waits for it.
LEMMA ConnectTold ==
  ASSUME TInv, NEW u \in Users, net_connect(u)
  PROVE  ToldInv'
<1>0. /\ TypeInv /\ ToldInv /\ Talk(cmd[u], link[u], stored[u])
      /\ cmd \in [Users -> Command] /\ cmd[u] \in Command /\ link \in [Users -> Link]
  BY DEF TInv, ToldInv, TypeInv, TypeOK
<1>1. cmd[u].pc = "connect" /\ UNCHANGED <<servers, stored>>
  BY DEF net_connect, At
<1>2. link[u].thread = "none" /\ stored[u] = "no" /\ ~link[u].gone /\ cmd[u].told = "nothing"
  BY <1>0, <1>1 DEF Talk, Unconnected, Unstored
<1>3. CASE alive[cmd[u].ss]
  <2> DEFINE k == [NoLink EXCEPT !.ss = cmd[u].ss, !.ticket = cmd[u].ticket, !.thread = "recv",
                                 !.req = Request(cmd[u].op)]
  <2>1. link' = [link EXCEPT ![u] = k] /\ k.thread = "recv" /\ k.resp = "none" /\ ~k.gone
            /\ k.req = Request(cmd[u].op)
    BY <1>3 DEF net_connect, NoLink
  <2> HIDE DEF k
  <2>2. /\ cmd'[u].pc = "waiting" /\ cmd'[u].op = cmd[u].op /\ cmd'[u].told = "nothing"
        /\ \A v \in Users \ {u} : cmd'[v] = cmd[v]
    BY <1>0, <1>2, <1>3 DEF net_connect, Command
  <2>3. link'[u] = k /\ \A v \in Users \ {u} : link'[v] = link[v]
    BY <1>0, <2>1
  <2>4. Waiting(cmd'[u], link'[u])
    BY <2>1, <2>2, <2>3 DEF Waiting
  <2>5. Talk(cmd'[u], link'[u], stored'[u])
    BY <1>1, <1>2, <2>1, <2>2, <2>3, <2>4 DEF Talk, Unconnected
  <2>6. QED  BY <1>0, <1>1, <2>1, <2>2, <2>3, <2>5, OneUser
<1>4. CASE ~alive[cmd[u].ss]
  <2>1. Tell(u, "failed") /\ link' = link
    BY <1>4 DEF net_connect
  <2>2. /\ cmd'[u].pc = "prompt" /\ cmd'[u].told = "failed"
        /\ \A v \in Users \ {u} : cmd'[v] = cmd[v]
    BY <1>0, <2>1, TellFields
  <2>3. Talk(cmd'[u], link'[u], stored'[u])
    BY <1>1, <1>2, <2>1, <2>2 DEF Talk, Unstored
  <2>4. QED  BY <1>0, <1>1, <1>2, <2>1, <2>2, <2>3, OneUser
<1>5. QED  BY <1>3, <1>4

\* A client that sends again has had the answer to what it sent before.
LEMMA SendTold ==
  ASSUME TInv, NEW u \in Users, Edit(u) \/ Commit(u) \/ EndOfInput(u) \/ Abort(u)
  PROVE  ToldInv'
<1>0. /\ TypeInv /\ ToldInv /\ Talk(cmd[u], link[u], stored[u])
      /\ Blamed(cmd[u], link[u], stored[u])
      /\ link \in [Users -> Link] /\ link[u] \in Link
  BY DEF TInv, ToldInv, TypeInv, TypeOK
<1>1. UNCHANGED <<servers, stored>>
  BY DEF Edit, Commit, EndOfInput, Abort, Sends
<1>2. ASSUME NEW pc, NEW req, NEW next, Sends(u, pc, req, next)
      PROVE  /\ cmd[u].pc = pc /\ cmd'[u].pc = next /\ cmd'[u].op = cmd[u].op
             /\ cmd'[u].told = cmd[u].told
             /\ link'[u].thread = link[u].thread /\ link'[u].resp = link[u].resp
             /\ link'[u].gone = link[u].gone
             /\ link[u].thread = "session" => link'[u].req = req
             /\ \A v \in Users \ {u} : cmd'[v] = cmd[v] /\ link'[v] = link[v]
  <2>1. cmd[u].pc = pc /\ Goto(u, next)
    BY <1>2 DEF Sends, At
  <2>2. link' = IF Closed(u) THEN link ELSE [link EXCEPT ![u].req = req]
    BY <1>2 DEF Sends
  <2>3. CASE Closed(u)
    BY <1>0, <2>1, <2>2, <2>3, GotoFields DEF Closed
  <2>4. CASE ~Closed(u)
    BY <1>0, <2>1, <2>2, <2>4, GotoFields DEF Link
  <2>5. QED  BY <2>3, <2>4
<1>3. CASE Edit(u)
  <2>1. /\ cmd[u].pc = "session" /\ cmd'[u].pc = "editing" /\ cmd'[u].told = cmd[u].told
        /\ link'[u].thread = link[u].thread /\ link'[u].resp = link[u].resp
        /\ link'[u].gone = link[u].gone
        /\ link[u].thread = "session" => link'[u].req = "WRITE_INSERT"
        /\ \A v \in Users \ {u} : cmd'[v] = cmd[v] /\ link'[v] = link[v]
    BY <1>2, <1>3 DEF Edit
  <2>2. Editing(link'[u])
    BY <1>0, <2>1 DEF Talk, InSession, Editing
  <2>3. Talk(cmd'[u], link'[u], stored'[u])
    BY <1>0, <1>1, <2>1, <2>2 DEF Talk, Unconnected, Unstored
  <2>4. QED  BY <1>0, <1>1, <2>1, <2>3, OneUser DEF Blamed
<1>4. CASE Commit(u)
  <2>1. /\ cmd[u].pc = "session" /\ cmd'[u].pc = "committing" /\ cmd'[u].told = cmd[u].told
        /\ link'[u].thread = link[u].thread /\ link'[u].resp = link[u].resp
        /\ link'[u].gone = link[u].gone
        /\ link[u].thread = "session" => link'[u].req = "WRITE_COMMIT"
        /\ \A v \in Users \ {u} : cmd'[v] = cmd[v] /\ link'[v] = link[v]
    BY <1>2, <1>4 DEF Commit
  <2>2. Committing(link'[u], stored'[u])
    BY <1>0, <1>1, <2>1 DEF Talk, Unstored, InSession, Committing
  <2>3. Talk(cmd'[u], link'[u], stored'[u])
    BY <1>0, <1>1, <2>1, <2>2 DEF Talk, Unconnected, Unstored
  <2>4. QED  BY <1>0, <1>1, <2>1, <2>3, OneUser DEF Blamed
<1>5. CASE EndOfInput(u)
  <2>1. cmd[u].pc = "session" /\ Goto(u, "abort") /\ link' = link
    BY <1>5 DEF EndOfInput, At
  <2>2. /\ cmd'[u].pc = "abort" /\ cmd'[u].told = cmd[u].told
        /\ \A v \in Users \ {u} : cmd'[v] = cmd[v]
    BY <1>0, <2>1, GotoFields
  <2>3. Aborting(link'[u], stored'[u], "none")
    BY <1>0, <1>1, <2>1 DEF Talk, Unstored, InSession, Aborting
  <2>4. Talk(cmd'[u], link'[u], stored'[u])
    BY <1>0, <1>1, <2>1, <2>2, <2>3 DEF Talk, Unconnected, Unstored
  <2>5. QED  BY <1>0, <1>1, <2>1, <2>2, <2>4, OneUser DEF Blamed
<1>6. CASE Abort(u)
  <2>1. /\ cmd[u].pc = "abort" /\ cmd'[u].pc = "aborting" /\ cmd'[u].told = cmd[u].told
        /\ link'[u].thread = link[u].thread /\ link'[u].resp = link[u].resp
        /\ link'[u].gone = link[u].gone
        /\ link[u].thread = "session" => link'[u].req = "WRITE_ABORT"
        /\ \A v \in Users \ {u} : cmd'[v] = cmd[v] /\ link'[v] = link[v]
    BY <1>2, <1>6 DEF Abort
  <2>2. Aborting(link'[u], stored'[u], "WRITE_ABORT")
    BY <1>0, <1>1, <2>1 DEF Talk, Aborting
  <2>3. Talk(cmd'[u], link'[u], stored'[u])
    BY <1>0, <1>1, <2>1, <2>2 DEF Talk, Unconnected, Unstored
  <2>4. QED  BY <1>0, <1>1, <2>1, <2>3, OneUser DEF Blamed
<1>7. QED  BY <1>3, <1>4, <1>5, <1>6

\* A client that tells its user the result has a connection the server has
\* closed, and what it says agrees with the store.
LEMMA ResultTold ==
  ASSUME TInv, NEW u \in Users, UNCHANGED <<servers, stored>>, net_close(u), Closed(u),
         NEW r, Tell(u, r), r = "committed" => stored[u] = "yes",
         r = "failed" /\ stored[u] = "yes" => link[u].thread = "lost"
  PROVE  ToldInv'
<1>0. TypeInv /\ ToldInv /\ Blamed(cmd[u], link[u], stored[u])
  BY DEF TInv, ToldInv
<1>1. /\ cmd'[u].pc = "prompt" /\ cmd'[u].told = r
      /\ link'[u].thread = "none" /\ ~link'[u].gone
      /\ \A v \in Users \ {u} : cmd'[v] = cmd[v] /\ link'[v] = link[v]
  BY <1>0, TellFields, CloseFields
<1>2. Talk(cmd'[u], link'[u], stored'[u])
  BY <1>1 DEF Talk, Unstored
<1>3. QED  BY <1>0, <1>1, <1>2, OneUser DEF Blamed

\* A client that goes on takes the response off the connection.
LEMMA GoesOn ==
  ASSUME TInv, NEW u \in Users, UNCHANGED <<servers, stored>>, Consume(u),
         NEW p, Goto(u, p), cmd[u].pc # "prompt",
         p \in {"session", "streaming", "abort"},
         p \in Unstored => stored[u] = "no", ~link[u].gone,
         p = "session" => \/ link[u].thread = "session" /\ link[u].req = "none"
                          \/ link[u].thread = "lost",
         p = "streaming" => link[u].thread \in {"stream", "last", "lost"},
         p = "abort" => (link[u].thread = "none" /\ stored[u] \in {"no", "silent"}) \/ link[u].thread = "lost"
  PROVE  ToldInv'
<1>0. TypeInv /\ ToldInv /\ Talk(cmd[u], link[u], stored[u]) /\ Blamed(cmd[u], link[u], stored[u])
  BY DEF TInv, ToldInv
<1>1. /\ cmd'[u].pc = p /\ cmd'[u].told = "nothing"
      /\ link'[u].resp = "none" /\ link'[u].thread = link[u].thread
      /\ link'[u].req = link[u].req /\ ~link'[u].gone
      /\ \A v \in Users \ {u} : cmd'[v] = cmd[v] /\ link'[v] = link[v]
  BY <1>0, GotoFields, ConsumeFields DEF Talk
<1>2. CASE p = "session"
  <2>1. InSession(link'[u])
    BY <1>1, <1>2 DEF InSession
  <2>2. Talk(cmd'[u], link'[u], stored'[u])
    BY <1>1, <1>2, <2>1 DEF Talk, Unconnected
  <2>3. QED  BY <1>0, <1>1, <2>2, OneUser DEF Blamed
<1>3. CASE p = "streaming"
  <2>1. Streaming(link'[u])
    BY <1>1, <1>3 DEF Streaming
  <2>2. Talk(cmd'[u], link'[u], stored'[u])
    BY <1>1, <1>3, <2>1 DEF Talk, Unconnected
  <2>3. QED  BY <1>0, <1>1, <2>2, OneUser DEF Blamed
<1>4. CASE p = "abort"
  <2>1. Aborting(link'[u], stored'[u], "none")
    BY <1>1, <1>4 DEF Aborting
  <2>2. Talk(cmd'[u], link'[u], stored'[u])
    BY <1>1, <1>4, <2>1 DEF Talk, Unconnected, Unstored
  <2>3. QED  BY <1>0, <1>1, <2>2, OneUser DEF Blamed
<1>5. QED  BY <1>2, <1>3, <1>4

\* A response, or the end of the connection instead of it.
LEMMA ReceiveTold ==
  ASSUME TInv, NEW u \in Users, ReceiveResponse(u) \/ ReceiveFails(u)
  PROVE  ToldInv'
<1>0. TypeInv /\ ToldInv /\ Talk(cmd[u], link[u], stored[u])
  BY DEF TInv, ToldInv
<1>1. UNCHANGED <<servers, stored>>
  BY DEF ReceiveResponse, ReceiveFails
<1>2. CASE link[u].resp # "none" /\ NextResponse(u)
  <2>1. CASE /\ cmd[u].pc = "waiting" /\ link[u].resp = "OK" /\ cmd[u].op # "READ"
             /\ Goto(u, IF cmd[u].op = "WRITE" THEN "session" ELSE "streaming") /\ Consume(u)
    <3>1. stored[u] = "no" /\ ~link[u].gone /\ Waiting(cmd[u], link[u])
      BY <1>0, <2>1 DEF Talk, Unstored
    <3>2. \/ link[u].thread = "stream" /\ cmd[u].op = "STREAM"
          \/ link[u].thread = "session" /\ link[u].req = "none" /\ cmd[u].op = "WRITE"
          \/ link[u].thread = "lost"
      BY <2>1, <3>1 DEF Waiting
    <3>3. CASE cmd[u].op = "WRITE"
      BY <1>1, <2>1, <3>1, <3>2, <3>3, GoesOn
    <3>4. CASE cmd[u].op # "WRITE"
      BY <1>1, <2>1, <3>1, <3>2, <3>4, GoesOn
    <3>5. QED  BY <3>3, <3>4
  <2>2. CASE cmd[u].pc = "streaming" /\ link[u].resp = "DATA" /\ UNCHANGED cmd /\ Consume(u)
    <3>1. cmd \in [Users -> Command] /\ cmd[u] \in Command
      BY <1>0 DEF TypeInv, TypeOK
    <3>2. Goto(u, "streaming")
      BY <2>2, <3>1 DEF Goto, Command
    <3>3. stored[u] = "no" /\ ~link[u].gone /\ Streaming(link[u])
      BY <1>0, <2>2 DEF Talk, Unstored
    <3>4. QED  BY <1>1, <2>2, <3>2, <3>3, GoesOn DEF Streaming
  <2>3. CASE cmd[u].pc = "editing" /\ Goto(u, "session") /\ Consume(u)
    <3>1. stored[u] = "no" /\ ~link[u].gone /\ Editing(link[u])
      BY <1>0, <2>3 DEF Talk, Unstored
    <3>2. QED  BY <1>1, <1>2, <2>3, <3>1, GoesOn DEF Editing
  <2>4. CASE cmd[u].pc = "committing" /\ link[u].resp # "OK" /\ Goto(u, "abort") /\ Consume(u)
    <3>1. ~link[u].gone /\ Committing(link[u], stored[u])
      BY <1>0, <2>4 DEF Talk
    <3>2. QED  BY <1>1, <1>2, <2>4, <3>1, GoesOn DEF Committing, Unstored
  <2>5. QED  BY <1>2, <2>1, <2>2, <2>3, <2>4 DEF NextResponse
<1>3. CASE link[u].resp # "none" /\ LastResponse(u)
  <2>0. net_close(u)
    BY <1>3 DEF LastResponse
  <2>1. CASE cmd[u].pc = "waiting" /\ link[u].resp = "OK" /\ cmd[u].op = "READ" /\ Tell(u, "content")
    <3>1. Waiting(cmd[u], link[u])
      BY <1>0, <2>1 DEF Talk
    <3>2. QED  BY <1>1, <2>0, <2>1, <3>1, ResultTold DEF Waiting, Closed
  <2>2. CASE cmd[u].pc = "waiting" /\ link[u].resp # "OK" /\ Tell(u, "failed")
    <3>1. Waiting(cmd[u], link[u]) /\ stored[u] = "no"
      BY <1>0, <2>2 DEF Talk, Unstored
    <3>2. QED  BY <1>1, <1>3, <2>0, <2>2, <3>1, ResultTold DEF Waiting, Closed
  <2>3. CASE cmd[u].pc = "streaming" /\ link[u].resp = "DONE" /\ Tell(u, "content")
    <3>1. Streaming(link[u])
      BY <1>0, <2>3 DEF Talk
    <3>2. QED  BY <1>1, <2>0, <2>3, <3>1, ResultTold DEF Streaming, Closed
  <2>4. CASE cmd[u].pc = "committing" /\ link[u].resp = "OK" /\ Tell(u, "committed")
    <3>1. Committing(link[u], stored[u])
      BY <1>0, <2>4 DEF Talk
    <3>2. QED  BY <1>1, <2>0, <2>4, <3>1, ResultTold DEF Committing, Closed
  <2>5. CASE cmd[u].pc = "aborting" /\ Tell(u, "failed")
    <3>1. Aborting(link[u], stored[u], "WRITE_ABORT")
      BY <1>0, <2>5 DEF Talk
    <3>2. QED  BY <1>1, <1>3, <2>0, <2>5, <3>1, ResultTold DEF Aborting, Closed
  <2>6. QED  BY <1>3, <2>1, <2>2, <2>3, <2>4, <2>5 DEF LastResponse
<1>4. CASE ReceiveFails(u)
  <2>1. Closed(u) /\ (link[u].thread = "none" => link[u].resp = "none")
    BY <1>4 DEF ReceiveFails
  <2>2. CASE cmd[u].pc \in {"waiting", "streaming", "aborting"} /\ Tell(u, "failed") /\ net_close(u)
    <3>1. stored[u] = "yes" => link[u].thread = "lost"
      BY <1>0, <2>1, <2>2 DEF Talk, Unstored, Aborting, Closed
    <3>2. QED  BY <1>1, <2>1, <2>2, <3>1, ResultTold
  <2>3. CASE cmd[u].pc \in {"editing", "committing"} /\ Goto(u, "abort") /\ Consume(u)
    <3>1. ~link[u].gone /\ ((link[u].thread = "none" /\ stored[u] \in {"no", "silent"}) \/ link[u].thread = "lost")
      BY <1>0, <2>1, <2>3 DEF Talk, Editing, Committing, Closed
    <3>2. QED  BY <1>1, <2>3, <3>1, GoesOn DEF Unstored
  <2>4. QED  BY <1>4, <2>2, <2>3 DEF ReceiveFails
<1>5. QED  BY <1>2, <1>3, <1>4 DEF ReceiveResponse

\* The thread of a connection: it answers what it was sent, and the answer to
\* a commit is OK only after the store.
LEMMA ServerTold ==
  ASSUME TInv, NEW u \in Users, ServerStep(u)
  PROVE  ToldInv'
<1>0. /\ TypeInv /\ ToldInv /\ Talk(cmd[u], link[u], stored[u])
      /\ Blamed(cmd[u], link[u], stored[u])
      /\ link \in [Users -> Link] /\ link[u] \in Link
      /\ stored \in [Users -> Outcomes] /\ cmd[u] \in Command
  BY DEF TInv, ToldInv, TypeInv, TypeOK
<1>1. cmd' = cmd /\ UNCHANGED servers /\ link[u].thread \notin {"none", "lost"}
  BY DEF ServerStep, validate_ticket, Serve, handle_read, handle_stream, handle_write, Serving,
         write_session_commit, AnswerTooLong
<1>2. cmd[u].pc \notin Unconnected /\ cmd[u].told = "nothing"
  BY <1>0, <1>1 DEF Talk, Unconnected
<1>3. ASSUME NEW thread, link' = [link EXCEPT ![u].thread = thread]
      PROVE  /\ link'[u].thread = thread /\ link'[u].req = link[u].req
             /\ link'[u].resp = link[u].resp /\ link'[u].gone = link[u].gone
             /\ \A v \in Users \ {u} : link'[v] = link[v]
  BY <1>0, <1>3 DEF Link
<1>4. ASSUME \A v \in Users \ {u} : link'[v] = link[v], stored' = stored,
             link'[u].thread # "lost",
             cmd[u].pc # "ended" =>
                 /\ cmd[u].pc \notin {"session", "abort"} /\ ~link'[u].gone
                 /\ cmd[u].pc = "waiting" => Waiting(cmd[u], link'[u])
                 /\ cmd[u].pc = "streaming" => Streaming(link'[u])
                 /\ cmd[u].pc = "editing" => Editing(link'[u])
                 /\ cmd[u].pc = "committing" => Committing(link'[u], stored[u])
                 /\ cmd[u].pc = "aborting" => Aborting(link'[u], stored[u], "WRITE_ABORT")
      PROVE  ToldInv'
  <2>1. Talk(cmd'[u], link'[u], stored'[u])
    BY <1>0, <1>1, <1>2, <1>4 DEF Talk
  <2>2. QED  BY <1>0, <1>1, <1>2, <1>4, <2>1, OneUser
<1>5. CASE validate_ticket(u)
  <2>1. link[u].thread = "recv" /\ stored' = stored
    BY <1>5 DEF validate_ticket
  <2>2. cmd[u].pc # "ended" => /\ cmd[u].pc = "waiting" /\ Waiting(cmd[u], link[u])
                               /\ ~link[u].gone
    BY <1>0, <1>2, <2>1 DEF Talk, Streaming, InSession, Editing, Committing, Aborting,
                            Unconnected, Command
  <2>3. CASE link' = [link EXCEPT ![u].thread = "serve"]
    <3>1. cmd[u].pc # "ended" => Waiting(cmd[u], link'[u]) /\ ~link'[u].gone
      BY <1>3, <2>1, <2>2, <2>3 DEF Waiting
    <3>2. QED  BY <1>3, <1>4, <2>1, <2>2, <2>3, <3>1
  <2>4. CASE Respond(u, "ERR_NOAUTH", "none")
    <3>1. cmd[u].pc # "ended" => Waiting(cmd[u], link'[u]) /\ ~link'[u].gone
      BY <1>0, <2>2, <2>4, RespondFields DEF Waiting
    <3>2. link'[u].thread # "lost" /\ \A v \in Users \ {u} : link'[v] = link[v]
      BY <1>0, <2>4 DEF Respond, NoLink, Link
    <3>3. QED  BY <1>4, <2>1, <2>2, <3>1, <3>2
  <2>5. QED  BY <1>5, <2>3, <2>4 DEF validate_ticket
<1>6. CASE write_session_commit(u)
  <2>1. /\ link[u].thread = "session" /\ link[u].req = "WRITE_COMMIT"
        /\ stored' = [stored EXCEPT ![u] = "yes"]
        /\ link' = [link EXCEPT ![u].thread = "committed"]
    BY <1>6 DEF write_session_commit, Serving
  <2>2. /\ link'[u].thread = "committed" /\ link'[u].resp = link[u].resp
        /\ link'[u].gone = link[u].gone /\ stored'[u] = "yes"
        /\ \A v \in Users \ {u} : link'[v] = link[v] /\ stored'[v] = stored[v]
    BY <1>0, <1>3, <2>1
  <2>3. cmd[u].pc # "ended" => /\ cmd[u].pc = "committing" /\ link[u].resp = "none"
                               /\ ~link[u].gone
    BY <1>0, <1>2, <2>1 DEF Talk, Waiting, Streaming, InSession, Editing, Committing, Aborting,
                            Unconnected, Command
  <2>4. Talk(cmd'[u], link'[u], stored'[u])
    BY <1>0, <1>1, <1>2, <2>2, <2>3 DEF Talk, Committing, Unconnected, Unstored
  <2>5. QED  BY <1>0, <1>1, <1>2, <2>2, <2>4, OneUser
<1>7. CASE Serve(u)
  <2>1. stored' = stored
    BY <1>7 DEF Serve
  <2>2. PICK r \in {"none", "OK", "ERR", "DATA", "DONE"},
             next \in {"none", "stream", "last", "session"} : Respond(u, r, next)
    BY <1>7 DEF Serve, handle_read, handle_stream, handle_write
  <2>3. link'[u].thread # "lost" /\ \A v \in Users \ {u} : link'[v] = link[v]
    BY <1>0, <2>2 DEF Respond, NoLink, Link
  <2>4. CASE cmd[u].pc = "ended"
    BY <1>4, <2>1, <2>3, <2>4
  <2>5. CASE cmd[u].pc # "ended"
    <3>0. ~link[u].gone
      BY <1>0, <2>5 DEF Talk
    <3>1. ASSUME NEW q, NEW n, Respond(u, q, n)
          PROVE  /\ link'[u].thread = n /\ link'[u].resp = q /\ link'[u].req = "none"
                 /\ ~link'[u].gone
      BY <1>0, <3>0, <3>1, RespondFields
    <3>2. CASE handle_read(u)
      <4>1. link[u].thread = "serve" /\ link[u].req = "READ"
        BY <3>2 DEF handle_read, Serving
      <4>2. cmd[u].pc = "waiting" /\ cmd[u].op = "READ"
        BY <1>0, <1>2, <2>5, <4>1 DEF Talk, Waiting, Streaming, InSession, Editing, Committing,
              Aborting, Unconnected, Command, Request, Ops
      <4>3. Waiting(cmd[u], link'[u])
        BY <3>1, <3>2, <4>2 DEF handle_read, Waiting
      <4>4. ~link'[u].gone
        BY <2>2, <3>1
      <4>5. QED  BY <1>4, <2>1, <2>3, <4>2, <4>3, <4>4
    <3>3. CASE handle_stream(u)
      <4>1. ~link'[u].gone
        BY <2>2, <3>1
      <4>2. CASE link[u].thread = "serve"
        <5>1. link[u].req = "STREAM" /\ (Respond(u, "ERR", "none") \/ Respond(u, "OK", "stream"))
          BY <3>3, <4>2 DEF handle_stream, Serving
        <5>2. cmd[u].pc = "waiting" /\ cmd[u].op = "STREAM"
          BY <1>0, <1>2, <2>5, <4>2, <5>1 DEF Talk, Waiting, Streaming, InSession, Editing,
                Committing, Aborting, Unconnected, Command, Request, Ops
        <5>3. Waiting(cmd[u], link'[u])
          BY <3>1, <5>1, <5>2 DEF Waiting
        <5>4. QED  BY <1>4, <2>1, <2>3, <4>1, <5>2, <5>3
      <4>3. CASE link[u].thread # "serve"
        <5>1. /\ link[u].thread \in {"stream", "last"} /\ link[u].resp = "none"
              /\ Respond(u, "DATA", "last") \/ Respond(u, "DONE", "none")
          BY <3>3, <4>3 DEF handle_stream, Serving
        <5>2. cmd[u].pc = "streaming"
          BY <1>0, <1>2, <2>5, <5>1 DEF Talk, Waiting, InSession, Editing,
                Committing, Aborting, Unconnected, Command
        <5>3. Streaming(link'[u])
          BY <3>1, <5>1 DEF Streaming
        <5>4. QED  BY <1>4, <2>1, <2>3, <4>1, <5>2, <5>3
      <4>4. QED  BY <4>2, <4>3
    <3>4. CASE handle_write(u)
      <4>1. ~link'[u].gone
        BY <2>2, <3>1
      <4>2. CASE link[u].thread = "serve"
        <5>1. /\ link[u].req = "WRITE_BEGIN"
              /\ \/ Respond(u, "ERR", "none") \/ Respond(u, "none", "none")
                 \/ Respond(u, "OK", "session")
          BY <3>4, <4>2 DEF handle_write, Serving
        <5>2. cmd[u].pc = "waiting" /\ cmd[u].op = "WRITE"
          BY <1>0, <1>2, <2>5, <4>2, <5>1 DEF Talk, Waiting, Streaming, InSession, Editing,
                Committing, Aborting, Unconnected, Command, Request, Ops
        <5>3. Waiting(cmd[u], link'[u])
          BY <3>1, <5>1, <5>2 DEF Waiting
        <5>4. QED  BY <1>4, <2>1, <2>3, <4>1, <5>2, <5>3
      <4>3. CASE link[u].thread = "session" /\ link[u].req = "WRITE_INSERT"
        <5>1. Respond(u, "OK", "session") \/ Respond(u, "ERR", "session")
          BY <3>4, <4>3 DEF handle_write, Serving
        <5>2. cmd[u].pc = "editing"
          BY <1>0, <1>2, <2>5, <4>3 DEF Talk, Waiting, Streaming, InSession, Editing,
                Committing, Aborting, Unconnected, Command
        <5>3. Editing(link'[u])
          BY <3>1, <5>1 DEF Editing
        <5>4. QED  BY <1>4, <2>1, <2>3, <4>1, <5>2, <5>3
      <4>4. CASE link[u].thread = "session" /\ link[u].req = "WRITE_COMMIT"
        <5>1. Respond(u, "ERR", "none")
          BY <3>4, <4>4 DEF handle_write, Serving
        <5>2. cmd[u].pc = "committing" /\ stored[u] = "no"
          BY <1>0, <1>2, <2>5, <4>4 DEF Talk, Waiting, Streaming, InSession, Editing,
                Committing, Aborting, Unconnected, Command
        <5>3. Committing(link'[u], stored[u])
          BY <3>1, <5>1, <5>2 DEF Committing
        <5>4. QED  BY <1>4, <2>1, <2>3, <4>1, <5>2, <5>3
      <4>5. CASE link[u].thread = "committed"
        <5>1. Respond(u, "OK", "none")
          BY <3>4, <4>5 DEF handle_write, Serving
        <5>2. cmd[u].pc = "committing" /\ stored[u] = "yes"
          BY <1>0, <1>2, <2>5, <4>5 DEF Talk, Waiting, Streaming, InSession, Editing,
                Committing, Aborting, Unconnected, Command
        <5>3. Committing(link'[u], stored[u])
          BY <3>1, <5>1, <5>2 DEF Committing
        <5>4. QED  BY <1>4, <2>1, <2>3, <4>1, <5>2, <5>3
      <4>6. CASE link[u].thread = "session" /\ link[u].req = "WRITE_ABORT"
        <5>1. Respond(u, "OK", "none")
          BY <3>4, <4>6 DEF handle_write, Serving
        <5>2. cmd[u].pc = "aborting" /\ stored[u] = "no"
          BY <1>0, <1>2, <2>5, <4>6 DEF Talk, Waiting, Streaming, InSession, Editing,
                Committing, Aborting, Unconnected, Command
        <5>3. Aborting(link'[u], stored[u], "WRITE_ABORT")
          BY <3>1, <5>1, <5>2 DEF Aborting
        <5>4. QED  BY <1>4, <2>1, <2>3, <4>1, <5>2, <5>3
      <4>7. QED  BY <3>0, <3>4, <4>2, <4>3, <4>4, <4>5, <4>6 DEF handle_write, Serving
    <3>5. QED  BY <1>7, <3>2, <3>3, <3>4 DEF Serve
  <2>6. QED  BY <2>4, <2>5
<1>8. CASE AnswerTooLong(u)
  <2>1. /\ link[u].thread = "committed" /\ Respond(u, "none", "none")
        /\ stored' = [stored EXCEPT ![u] = "silent"]
    BY <1>8 DEF AnswerTooLong
  <2>2. link'[u].thread = "none" /\ \A v \in Users \ {u} : link'[v] = link[v] /\ stored'[v] = stored[v]
    BY <1>0, <2>1 DEF Respond, NoLink, Link
  <2>3. stored'[u] = "silent"
    BY <1>0, <2>1
  <2>4. cmd[u].pc # "ended" => cmd[u].pc = "committing" /\ ~link[u].gone
    BY <1>0, <1>2, <2>1 DEF Talk, Waiting, Streaming, InSession, Editing, Committing, Aborting,
                            Unconnected, Command
  <2>5. cmd[u].pc # "ended" => link'[u].resp = "none" /\ ~link'[u].gone
    BY <1>0, <2>1, <2>4, RespondFields
  <2>6. Talk(cmd'[u], link'[u], stored'[u])
    BY <1>0, <1>1, <1>2, <2>2, <2>3, <2>4, <2>5 DEF Talk, Committing, Unconnected, Unstored
  <2>7. QED  BY <1>0, <1>1, <1>2, <2>2, <2>3, <2>6, OneUser
<1>9. QED  BY <1>5, <1>6, <1>7, <1>8 DEF ServerStep

\* A new command starts with nothing stored; a client that ends is told
\* nothing.
LEMMA UserTold ==
  ASSUME TInv, NEW u \in Users, (\E op \in Ops : TypeCommand(u, op)) \/ ClientEnds(u)
  PROVE  ToldInv'
<1>0. /\ TypeInv /\ ToldInv /\ Talk(cmd[u], link[u], stored[u])
      /\ Blamed(cmd[u], link[u], stored[u])
      /\ cmd \in [Users -> Command] /\ stored \in [Users -> Outcomes]
  BY DEF TInv, ToldInv, TypeInv, TypeOK
<1>1. UNCHANGED servers
  BY DEF TypeCommand, ClientEnds
<1>2. ASSUME NEW op \in Ops, TypeCommand(u, op)  PROVE ToldInv'
  <2>1. cmd[u].pc = "prompt" /\ link[u].thread = "none" /\ link' = link
    BY <1>2 DEF TypeCommand, At
  <2>2. /\ cmd'[u].pc = "lookup" /\ cmd'[u].told = "nothing" /\ stored'[u] = "no"
        /\ \A v \in Users \ {u} : cmd'[v] = cmd[v] /\ stored'[v] = stored[v]
    BY <1>0, <1>2 DEF TypeCommand, NoCommand
  <2>3. Talk(cmd'[u], link'[u], stored'[u])
    BY <1>0, <2>1, <2>2 DEF Talk
  <2>4. QED  BY <1>0, <1>1, <2>1, <2>2, <2>3, OneUser
<1>3. CASE ClientEnds(u)
  <2>1. net_close(u) /\ stored' = stored
    BY <1>3 DEF ClientEnds
  <2>2. /\ cmd'[u].pc = "ended" /\ cmd'[u].told = "nothing"
        /\ \A v \in Users \ {u} : cmd'[v] = cmd[v]
    BY <1>0, <1>3 DEF ClientEnds, NoCommand
  <2>3. link'[u].thread # "lost" /\ \A v \in Users \ {u} : link'[v] = link[v]
    BY <1>0, <2>1, CloseFields
  <2>4. Talk(cmd'[u], link'[u], stored'[u])
    BY <2>2 DEF Talk, Unconnected, Unstored
  <2>5. QED  BY <1>0, <1>1, <2>1, <2>2, <2>3, <2>4, OneUser
<1>4. QED  BY <1>2, <1>3

\* The end of a server takes threads with it, and is what they are lost by.
LEMMA EndTold ==
  ASSUME TInv, NEW s \in Servers, End(s)
  PROVE  ToldInv'
<1>0. /\ TypeInv /\ ToldInv /\ link \in [Users -> Link] /\ alive \in [Servers -> BOOLEAN]
      /\ boot \in [Servers -> Nat]
  BY DEF TInv, TypeInv, TypeOK
<1>1. ~alive'[s] /\ UNCHANGED <<cmd, stored, boot>>
  BY <1>0 DEF End
<1>2. Down'
  BY <1>1 DEF Down
<1>3. ASSUME NEW u \in Users  PROVE Talk(cmd[u], link[u], stored[u])'
  <2>0. Talk(cmd[u], link[u], stored[u]) /\ link[u] \in Link
    BY <1>0 DEF ToldInv
  <2>1. link'[u] = IF link[u].ss # s \/ link[u].thread = "none" THEN link[u]
                   ELSE IF link[u].gone THEN NoLink
                   ELSE [link[u] EXCEPT !.thread = "lost"]
    BY DEF End
  <2>2. CASE link'[u] = link[u]
    BY <1>1, <2>0, <2>2 DEF Talk, Waiting, Streaming, InSession, Editing, Committing, Aborting
  <2>3. CASE link[u].gone
    <3>1. cmd[u].pc = "ended" /\ cmd[u].told = "nothing"
      BY <2>0, <2>3 DEF Talk
    <3>2. QED  BY <1>1, <3>1 DEF Talk, Unconnected, Unstored
  <2>4. CASE ~link[u].gone /\ link'[u] # link[u]
    <3>1. /\ link[u].thread # "none" /\ link'[u].thread = "lost" /\ ~link'[u].gone
          /\ link'[u].resp = link[u].resp
      BY <2>0, <2>1, <2>4 DEF Link
    <3>2. cmd[u].pc \notin Unconnected
      BY <2>0, <3>1 DEF Talk
    <3>3. cmd[u].pc \in {"session", "committing"} => link[u].resp = "none"
      BY <2>0, <3>1 DEF Talk, InSession, Committing
    <3>4. QED  BY <1>1, <2>0, <3>1, <3>2, <3>3
               DEF Talk, Waiting, Streaming, InSession, Editing, Committing, Aborting
  <2>5. QED  BY <2>2, <2>3, <2>4
<1>4. QED  BY <1>0, <1>1, <1>2, <1>3 DEF ToldInv, Blamed

\* Everything else that happens.
LEMMA EnvironmentTold ==
  ASSUME TInv,
         Tick \/ (\E u \in Users : BrokenPipe(u)) \/ \E s \in Servers : Crash(s) \/ Restart(s)
  PROVE  ToldInv'
<1>0. /\ TypeInv /\ ToldInv /\ alive \in [Servers -> BOOLEAN] /\ boot \in [Servers -> Nat]
  BY DEF TInv, TypeInv, TypeOK
<1>1. CASE Tick
  BY <1>0, <1>1 DEF Tick, ToldInv, Blamed, Down, servers, Talk, Waiting, Streaming, InSession,
                    Editing, Committing, Aborting
<1>2. ASSUME NEW u \in Users, BrokenPipe(u)  PROVE ToldInv'
  <2>1. link[u].gone /\ End(link[u].ss)
    BY <1>2 DEF BrokenPipe
  <2>2. CASE link[u].ss \in Servers
    BY <2>1, <2>2, EndTold
  <2>3. CASE link[u].ss \notin Servers
    <3>1. link \in [Users -> Link] /\ \A v \in Users : Selected(v)
      BY <1>0 DEF TypeInv, TypeOK
    <3>2. \A v \in Users : link'[v] = link[v]
      BY <2>1, <2>3, <3>1 DEF Selected, End
    <3>3. UNCHANGED <<alive, boot, cmd, stored>>
      BY <2>1, <2>3, <1>0 DEF End
    <3>4. QED
      BY <3>2, <3>3, <1>0 DEF ToldInv, Blamed, Down, Talk, Waiting, Streaming, InSession, Editing,
                              Committing, Aborting
  <2>4. QED  BY <2>2, <2>3
<1>3. ASSUME NEW s \in Servers, Crash(s)  PROVE ToldInv'
  BY <1>3, EndTold DEF Crash
<1>4. ASSUME NEW s \in Servers, Restart(s)  PROVE ToldInv'
  <2>1. /\ UNCHANGED <<cmd, link, stored>>
        /\ boot' = [boot EXCEPT ![s] = @ + 1] /\ alive' = [alive EXCEPT ![s] = TRUE]
    BY <1>4 DEF Restart
  <2>2. \A x \in Servers : boot[x] >= 1 /\ boot[x] \in Nat
    BY <1>0 DEF ToldInv
  <2>3. boot'[s] > 1 /\ \A x \in Servers : boot'[x] >= 1
    BY <1>0, <2>1, <2>2
  <2>4. Down'
    BY <2>3 DEF Down
  <2>5. \A u \in Users : Talk(cmd[u], link[u], stored[u])'
    BY <1>0, <2>1 DEF ToldInv, Talk, Waiting, Streaming, InSession, Editing, Committing, Aborting
  <2>6. QED  BY <2>3, <2>4, <2>5 DEF ToldInv, Blamed
<1>5. QED  BY <1>1, <1>2, <1>3, <1>4

-----------------------------------------------------------------------------
(* The theorem *)

\* At the start there are only prompts.
LEMMA InitTold == Init => ToldInv
<1> SUFFICES ASSUME Init PROVE ToldInv  OBVIOUS
<1>1. \A u \in Users : Talk(cmd[u], link[u], stored[u]) /\ Blamed(cmd[u], link[u], stored[u])
  BY DEF Init, NoCommand, NoLink, Talk, Blamed, Unconnected, Unstored
<1>2. \A s \in Servers : boot[s] = 1
  BY DEF Init
<1>3. \A s \in Servers : boot[s] >= 1
  BY <1>2
<1>4. QED  BY <1>1, <1>3 DEF ToldInv

\* The invariant is inductive.
LEMMA NextTold == TInv /\ [Next]_vars => TInv'
<1> SUFFICES ASSUME TInv, [Next]_vars PROVE TInv'  OBVIOUS
<1>1. TypeInv'
  BY NextType DEF TInv
<1>2. ASSUME UNCHANGED vars  PROVE ToldInv'
  BY <1>2 DEF vars, TInv, ToldInv, Blamed, Down, Talk, Waiting, Streaming, InSession, Editing,
              Committing, Aborting
<1>3. ASSUME NEW u \in Users, ManagerStep(u) \/ ClientStep(u) \/ ServerStep(u) \/ UserStep(u)
      PROVE  ToldInv'
  <2>1. CASE ClientStep(u)
    BY <2>1, ConnectTold, ReceiveTold, SendTold DEF ClientStep
  <2>2. CASE UserStep(u)
    BY <2>2, SendTold, UserTold DEF UserStep
  <2>3. QED  BY <1>3, <2>1, <2>2, ManagerTold, ServerTold
<1>4. ToldInv'
  BY <1>2, <1>3, EnvironmentTold DEF Next
<1>5. QED  BY <1>1, <1>4 DEF TInv

\* What a user is told of a commit is true, for any number of users, servers,
\* crashes and restarts: "committed" was stored, and what was stored is
\* reported as failed only if a server was stopped.
THEOREM Truthful == Spec => []ToldTrue
<1>1. Init => TInv
  BY InitType, InitTold DEF TInv
<1>2. TInv => ToldTrue
  BY DEF TInv, ToldInv, Talk, Blamed, Down, ToldTrue
<1>3. QED  BY <1>1, <1>2, NextTold, PTL DEF Spec

-----------------------------------------------------------------------------
(* Nobody waits for ever.  ENABLED is written out: when the name manager,   *)
(* the client and the server's thread of a user have a step to take.        *)

ManagerCan(u) == cmd[u].pc \in {"lookup", "issue", "call", "answer"}

ClientCan(u) ==
    \/ cmd[u].pc \in {"connect", "abort"}
    \/ /\ link[u].resp # "none"
       /\ \/ cmd[u].pc \in {"waiting", "editing", "committing", "aborting"}
          \/ cmd[u].pc = "streaming" /\ link[u].resp \in {"DATA", "DONE"}
    \/ /\ Closed(u)
       /\ link[u].thread = "none" => link[u].resp = "none"
       /\ cmd[u].pc \in {"waiting", "streaming", "editing", "committing", "aborting"}

FirstRequests == {"READ", "STREAM", "WRITE_BEGIN"}
SessionRequests == {"WRITE_INSERT", "WRITE_COMMIT", "WRITE_ABORT"}

ServerCan(u) ==
    \/ link[u].thread \in {"recv", "committed"}
    \/ link[u].thread = "serve" /\ link[u].req \in FirstRequests
    \/ link[u].thread \in {"stream", "last"} /\ link[u].resp = "none"
    \/ link[u].thread = "session" /\ link[u].req \in SessionRequests
    \/ link[u].thread = "session" /\ link[u].req = "none" /\ link[u].gone

\* A command that has not come back to its user, or a thread whose client is
\* gone.
Pending(u) == cmd[u].pc \notin {"prompt", "session", "ended"} \/ link[u].gone

CanGoOn(u) == ManagerCan(u) \/ ClientCan(u) \/ ServerCan(u)

\* What a client that is gone can have left behind.
Left(k) ==
    k.gone =>
        /\ k.resp = "none"
        /\ \/ k.thread \in {"recv", "serve"} /\ k.req \in FirstRequests
           \/ k.thread \in {"stream", "last", "committed"}
           \/ k.thread = "session" /\ k.req \in SessionRequests \cup {"none"}

LeftInv == \A u \in Users : Left(link[u])

\* Where the dialogue of a user is, and what is left of it, one can go on.
LEMMA OneCan ==
  ASSUME TInv, LeftInv, NEW u \in Users, Pending(u)
  PROVE  CanGoOn(u)
<1>0. /\ Talk(cmd[u], link[u], stored[u]) /\ Left(link[u])
      /\ cmd[u] \in Command /\ link[u] \in Link
  BY DEF TInv, TypeInv, TypeOK, ToldInv, LeftInv
<1>1. CASE link[u].gone
  BY <1>0, <1>1 DEF Left, CanGoOn, ServerCan
<1>2. CASE cmd[u].pc \in {"lookup", "issue", "call", "answer", "connect", "abort"}
  BY <1>2 DEF CanGoOn, ManagerCan, ClientCan
<1>3. CASE cmd[u].pc = "waiting"
  <2>1. Waiting(cmd[u], link[u]) /\ Request(cmd[u].op) \in FirstRequests
    BY <1>0, <1>3 DEF Talk, Command, Ops, Request, FirstRequests
  <2>2. QED  BY <1>3, <2>1 DEF Waiting, CanGoOn, ClientCan, ServerCan, Closed
<1>4. CASE cmd[u].pc = "streaming"
  <2>1. Streaming(link[u])
    BY <1>0, <1>4 DEF Talk
  <2>2. QED  BY <1>4, <2>1 DEF Streaming, CanGoOn, ClientCan, ServerCan, Closed
<1>5. CASE cmd[u].pc = "editing"
  <2>1. Editing(link[u])
    BY <1>0, <1>5 DEF Talk
  <2>2. QED  BY <1>5, <2>1 DEF Editing, CanGoOn, ClientCan, ServerCan, Closed, SessionRequests
<1>6. CASE cmd[u].pc = "committing"
  <2>1. Committing(link[u], stored[u])
    BY <1>0, <1>6 DEF Talk
  <2>2. QED  BY <1>6, <2>1 DEF Committing, CanGoOn, ClientCan, ServerCan, Closed, SessionRequests
<1>7. CASE cmd[u].pc = "aborting"
  <2>1. Aborting(link[u], stored[u], "WRITE_ABORT")
    BY <1>0, <1>7 DEF Talk
  <2>2. QED  BY <1>7, <2>1 DEF Aborting, CanGoOn, ClientCan, ServerCan, Closed, SessionRequests
<1>8. QED  BY <1>0, <1>1, <1>2, <1>3, <1>4, <1>5, <1>6, <1>7 DEF Pending, Command

\* A client that closes leaves a thread that was in a dialogue with it.
LEMMA CloseLeft ==
  ASSUME TInv, NEW u \in Users, net_close(u), cmd[u].pc \notin Unconnected \cup {"ended"}
  PROVE  Left(link'[u]) /\ \A v \in Users \ {u} : link'[v] = link[v]
<1>0. /\ TypeInv /\ Talk(cmd[u], link[u], stored[u])
      /\ cmd[u] \in Command /\ link[u] \in Link /\ link \in [Users -> Link]
  BY DEF TInv, TypeInv, TypeOK, ToldInv
<1>1. CASE Closed(u)
  BY <1>0, <1>1, CloseFields DEF Left
<1>2. CASE ~Closed(u)
  <2>1. link'[u] = [link[u] EXCEPT !.gone = TRUE, !.resp = "none"]
    BY <1>0, <1>2 DEF net_close
  <2>2. link'[u].resp = "none" /\ link'[u].thread = link[u].thread /\ link'[u].req = link[u].req
    BY <1>0, <2>1 DEF Link
  <2>3. Request(cmd[u].op) \in FirstRequests
    BY <1>0 DEF Command, Ops, Request, FirstRequests
  <2>4. \/ link[u].thread \in {"recv", "serve"} /\ link[u].req \in FirstRequests
        \/ link[u].thread \in {"stream", "last", "committed"}
        \/ link[u].thread = "session" /\ link[u].req \in SessionRequests \cup {"none"}
    BY <1>0, <1>2, <2>3 DEF Talk, Waiting, Streaming, InSession, Editing, Committing, Aborting,
                            Unconnected, Command, Closed, SessionRequests
  <2>5. QED  BY <1>0, <2>2, <2>4, CloseFields DEF Left
<1>3. QED  BY <1>1, <1>2

\* A step of the client of one user.
LEMMA ClientLeft ==
  ASSUME TInv, LeftInv, NEW u \in Users,
         ClientStep(u) \/ Edit(u) \/ Commit(u) \/ ClientEnds(u)
  PROVE  LeftInv'
<1>0. /\ TypeInv /\ Talk(cmd[u], link[u], stored[u]) /\ Left(link[u])
      /\ cmd[u] \in Command /\ link[u] \in Link /\ link \in [Users -> Link]
  BY DEF TInv, TypeInv, TypeOK, ToldInv, LeftInv
<1>1. ASSUME Left(link'[u]), \A v \in Users \ {u} : link'[v] = link[v]  PROVE LeftInv'
  BY <1>1 DEF LeftInv, Left
<1>2. ASSUME ~link'[u].gone, \A v \in Users \ {u} : link'[v] = link[v]  PROVE LeftInv'
  BY <1>1, <1>2 DEF Left
<1>3. ASSUME Consume(u), cmd[u].pc # "ended"  PROVE LeftInv'
  BY <1>0, <1>2, <1>3, ConsumeFields DEF Talk
<1>4. ASSUME net_close(u), cmd[u].pc \notin Unconnected \cup {"ended"}  PROVE LeftInv'
  BY <1>1, <1>4, CloseLeft
<1>5. ASSUME NEW p, NEW req, NEW next, Sends(u, p, req, next), p # "ended"  PROVE LeftInv'
  <2>1. cmd[u].pc # "ended" /\ ~link[u].gone
    BY <1>0, <1>5 DEF Sends, At, Talk
  <2>2. link' = link \/ link' = [link EXCEPT ![u].req = req]
    BY <1>5 DEF Sends
  <2>3. ~link'[u].gone /\ \A v \in Users \ {u} : link'[v] = link[v]
    BY <1>0, <2>1, <2>2 DEF Link
  <2>4. QED  BY <1>2, <2>3
<1>6. CASE net_connect(u)
  <2>1. link' = link \/ (~link'[u].gone /\ \A v \in Users \ {u} : link'[v] = link[v])
    BY <1>0, <1>6 DEF net_connect, NoLink
  <2>2. QED  BY <1>0, <1>1, <1>2, <2>1
<1>7. CASE ReceiveResponse(u)
  <2>1. CASE NextResponse(u)
    BY <1>3, <2>1 DEF NextResponse
  <2>2. CASE LastResponse(u)
    BY <1>4, <2>2 DEF LastResponse, Unconnected
  <2>3. QED  BY <1>7, <2>1, <2>2 DEF ReceiveResponse
<1>8. CASE ReceiveFails(u)
  BY <1>3, <1>4, <1>8 DEF ReceiveFails, Unconnected
<1>9. CASE Abort(u) \/ Edit(u) \/ Commit(u)
  BY <1>5, <1>9 DEF Abort, Edit, Commit
<1>10. CASE ClientEnds(u)
  BY <1>4, <1>10 DEF ClientEnds, Unconnected
<1>11. QED  BY <1>6, <1>7, <1>8, <1>9, <1>10 DEF ClientStep

\* A step of the thread of one connection.
LEMMA ServerLeft ==
  ASSUME TInv, LeftInv, NEW u \in Users, ServerStep(u)
  PROVE  LeftInv'
<1>0. TypeInv /\ Left(link[u]) /\ link[u] \in Link /\ link \in [Users -> Link]
  BY DEF TInv, TypeInv, TypeOK, LeftInv
<1>1. ASSUME Left(link'[u]), \A v \in Users \ {u} : link'[v] = link[v]  PROVE LeftInv'
  BY <1>1 DEF LeftInv, Left
<1>2. ASSUME NEW thread, link' = [link EXCEPT ![u].thread = thread],
             \/ thread = "serve" /\ link[u].thread = "recv"
             \/ thread = "committed"
      PROVE  LeftInv'
  <2>1. /\ link'[u].thread = thread /\ link'[u].req = link[u].req
        /\ link'[u].resp = link[u].resp /\ link'[u].gone = link[u].gone
        /\ \A v \in Users \ {u} : link'[v] = link[v]
    BY <1>0, <1>2 DEF Link
  <2>2. QED  BY <1>0, <1>1, <1>2, <2>1 DEF Left
<1>3. ASSUME NEW r, NEW next \in {"none", "stream", "last", "session"}, Respond(u, r, next)
      PROVE  LeftInv'
  <2>1. \A v \in Users \ {u} : link'[v] = link[v]
    BY <1>0, <1>3, RespondFields
  <2>2. CASE ~link[u].gone
    BY <1>0, <1>1, <1>3, <2>1, <2>2, RespondFields DEF Left
  <2>3. CASE link[u].gone /\ next = "none"
    <3>1. link'[u] = NoLink
      BY <1>0, <1>3, <2>3 DEF Respond
    <3>2. QED  BY <1>1, <2>1, <3>1 DEF Left, NoLink
  <2>4. CASE link[u].gone /\ next # "none"
    <3>1. link'[u] = [link[u] EXCEPT !.thread = next, !.req = "none"]
      BY <1>0, <1>3, <2>4 DEF Respond
    <3>2. link'[u].thread = next /\ link'[u].req = "none" /\ link'[u].resp = link[u].resp
      BY <1>0, <3>1 DEF Link
    <3>3. QED  BY <1>0, <1>1, <1>3, <2>1, <2>4, <3>2 DEF Left
  <2>5. QED  BY <2>2, <2>3, <2>4
<1>4. CASE validate_ticket(u)
  BY <1>2, <1>3, <1>4 DEF validate_ticket
<1>5. CASE write_session_commit(u)
  BY <1>2, <1>5 DEF write_session_commit
<1>6. CASE Serve(u)
  BY <1>3, <1>6 DEF Serve, handle_read, handle_stream, handle_write
<1>7. CASE AnswerTooLong(u)
  BY <1>3, <1>7 DEF AnswerTooLong
<1>8. QED  BY <1>4, <1>5, <1>6, <1>7 DEF ServerStep

\* Every step keeps what is left behind in order.
LEMMA NextLeft == TInv /\ LeftInv /\ [Next]_vars => LeftInv'
<1> SUFFICES ASSUME TInv, LeftInv, [Next]_vars PROVE LeftInv'  OBVIOUS
<1>1. ASSUME link' = link  PROVE LeftInv'
  BY <1>1 DEF LeftInv, Left
<1>2. ASSUME NEW s, End(s)  PROVE LeftInv'
  <2> SUFFICES ASSUME NEW u \in Users PROVE Left(link'[u])  BY DEF LeftInv, Left
  <2>0. Left(link[u]) /\ link[u] \in Link
    BY DEF TInv, TypeInv, TypeOK, LeftInv
  <2>1. link'[u] = IF link[u].ss # s \/ link[u].thread = "none" THEN link[u]
                   ELSE IF link[u].gone THEN NoLink
                   ELSE [link[u] EXCEPT !.thread = "lost"]
    BY <1>2 DEF End
  <2>2. link'[u] = link[u] \/ ~link'[u].gone
    BY <2>0, <2>1 DEF NoLink, Link
  <2>3. QED  BY <2>0, <2>2 DEF Left
<1>3. ASSUME NEW u \in Users, ManagerStep(u)  PROVE link' = link
  BY <1>3 DEF ManagerStep, Lookup, issue_ticket, handle_nm_ticket_command, TicketStored,
              TicketCallFails
<1>4. ASSUME NEW u \in Users, UserStep(u)  PROVE LeftInv'
  <2>1. CASE (\E op \in Ops : TypeCommand(u, op)) \/ EndOfInput(u)
    BY <1>1, <2>1 DEF TypeCommand, EndOfInput
  <2>2. QED  BY <1>4, <2>1, ClientLeft DEF UserStep
<1>5. ASSUME NEW u \in Users, BrokenPipe(u)  PROVE LeftInv'
  BY <1>2, <1>5 DEF BrokenPipe
<1>6. ASSUME NEW s \in Servers, Crash(s) \/ Restart(s)  PROVE LeftInv'
  BY <1>1, <1>2, <1>6 DEF Crash, Restart
<1>7. CASE Tick \/ UNCHANGED vars
  BY <1>1, <1>7 DEF Tick, vars
<1>8. QED
  BY <1>1, <1>3, <1>4, <1>5, <1>6, <1>7, ClientLeft, ServerLeft DEF Next

\* No cycle of waiting, for any number of users, servers and crashes: until a
\* command has come back, its client, its thread in the name manager or the
\* thread of its connection can go on, and so can the thread of a client that
\* is gone.  NeverStuck says the same with ENABLED.
THEOREM NobodyStuck == Spec => [](\A u \in Users : Pending(u) => CanGoOn(u))
<1>1. Init => TInv /\ LeftInv
  <2> SUFFICES ASSUME Init PROVE TInv /\ LeftInv  OBVIOUS
  <2>1. TInv
    BY InitType, InitTold DEF TInv
  <2>2. LeftInv
    BY DEF Init, NoLink, LeftInv, Left
  <2>3. QED  BY <2>1, <2>2
<1>2. TInv /\ LeftInv /\ [Next]_vars => (TInv /\ LeftInv)'
  BY NextTold, NextLeft
<1>3. TInv /\ LeftInv => \A u \in Users : Pending(u) => CanGoOn(u)
  BY OneCan
<1>4. QED  BY <1>1, <1>2, <1>3, PTL DEF Spec
=============================================================================
