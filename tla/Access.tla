------------------------------- MODULE Access -------------------------------
(***************************************************************************)
(* READ, STREAM and WRITE from the command typed at a client to its result *)
(* (client/cli_main.c, nm/nm_main.c, ss/ss_main.c): the name manager       *)
(* issues a ticket and stores it on a storage server, the client takes     *)
(* ticket and endpoint to that server, which looks the ticket up in its    *)
(* table, by its own clock, and serves the connection.                     *)
(*                                                                         *)
(* There is one file.  Which server is selected and what a failed call     *)
(* does to the file table is in Replication; what a session does to the    *)
(* document is in StorageServer.  Here a commit stores or fails.           *)
(*                                                                         *)
(* No process handles SIGPIPE: sending to a connection whose other end is  *)
(* closed may end the process.                                             *)
(***************************************************************************)
EXTENDS Integers, FiniteSets

CONSTANTS Users, Servers,
          TTL,          \* TICKET_TTL, in units of the clock
          Skew,         \* how far the clock of each server is ahead
          MaxTime,      \* bound: last value of the clock
          MaxCommands,  \* bound: commands typed
          MaxCrashes,   \* bound: crashes of storage servers
          None

ASSUME AccessAssumption ==
    /\ TTL \in Nat /\ MaxTime \in Nat \ {0} /\ MaxCommands \in Nat /\ MaxCrashes \in Nat
    /\ Skew \in [Servers -> Int]
    /\ None \notin Servers

VARIABLES
    now,        \* the name manager's clock
    typed,      \* number of commands typed so far
    table,      \* the ticket table of each storage server
    alive,      \* the storage server's process runs
    boot,       \* history: how often it was started
    crashes,    \* history: how often it was stopped from outside
    cmd,        \* the command of each user: client, and its thread in the name manager
    link,       \* the data connection of each user and its thread on the server
    stored      \* history: the session of this command has changed the document,
                \* and its answer was too long to be sent ("silent")

vars == <<now, typed, table, alive, boot, crashes, cmd, link, stored>>

servers == <<alive, boot, crashes>>

Ops == {"READ", "STREAM", "WRITE"}

Clock(s) == now + Skew[s]

NoTicket == [token |-> 0, user |-> None, op |-> "READ", expiry |-> 0, boot |-> 0]

NoCommand == [pc |-> "prompt", number |-> 0, op |-> "READ", attempt |-> 0, ss |-> None,
              ticket |-> NoTicket, told |-> "nothing"]

\* The place of the server's thread, the request and the response under
\* way, and whether the client's end is closed.
NoLink == [ss |-> None, ticket |-> NoTicket, thread |-> "none", req |-> "none",
           resp |-> "none", gone |-> FALSE]

Init ==
    /\ now = 1
    /\ typed = 0
    /\ table = [s \in Servers |-> {}]
    /\ alive = [s \in Servers |-> TRUE]
    /\ boot = [s \in Servers |-> 1]
    /\ crashes = 0
    /\ cmd = [u \in Users |-> NoCommand]
    /\ link = [u \in Users |-> NoLink]
    /\ stored = [u \in Users |-> "no"]

At(u, pc) == cmd[u].pc = pc

Goto(u, pc) == cmd' = [cmd EXCEPT ![u].pc = pc]

\* A command is over and the user is told how it went.
Tell(u, result) == cmd' = [cmd EXCEPT ![u] = [NoCommand EXCEPT !.told = result]]

-----------------------------------------------------------------------------
(* The name manager *)

\* handle_read_cmd, handle_stream_cmd, handle_write_cmd: the client sends the
\* command and waits for the endpoint.
TypeCommand(u, op) ==
    /\ At(u, "prompt")
    /\ typed < MaxCommands
    /\ typed' = typed + 1
    /\ link[u].thread = "none"
    /\ cmd' = [cmd EXCEPT ![u] = [NoCommand EXCEPT !.pc = "lookup", !.op = op,
                                                   !.number = typed + 1]]
    /\ stored' = [stored EXCEPT ![u] = "no"]
    /\ UNCHANGED <<now, table, servers, link>>

\* One attempt of obtain_ticket_for_file up to the end of its critical
\* section: a server is selected, or the file or the right to it is missing,
\* or none of its servers is online.
Lookup(u) ==
    /\ At(u, "lookup")
    /\ \/ \E s \in Servers : cmd' = [cmd EXCEPT ![u].pc = "issue", ![u].ss = s]
       \/ Tell(u, "refused")
    /\ UNCHANGED <<now, typed, table, servers, link, stored>>

Expired(t, time) == t.expiry < time

\* randutil_token: no token is drawn twice.
Token(u) == 2 * cmd[u].number + cmd[u].attempt

\* issue_ticket up to the call.
issue_ticket(u) ==
    /\ At(u, "issue")
    /\ cmd' = [cmd EXCEPT ![u].pc = "call",
                          ![u].ticket = [token |-> Token(u), user |-> u, op |-> cmd[u].op,
                                         expiry |-> now + TTL, boot |-> 0]]
    /\ UNCHANGED <<now, typed, table, servers, link, stored>>

\* NM_TICKET on the server: ticket_table_add.
handle_nm_ticket_command(u) ==
    LET s == cmd[u].ss  t == [cmd[u].ticket EXCEPT !.boot = boot[s]] IN
    /\ At(u, "call")
    /\ alive[s]
    /\ table' = [table EXCEPT ![s] = @ \cup {t}]
    /\ cmd' = [cmd EXCEPT ![u].pc = "answer", ![u].ticket = t]
    /\ UNCHANGED <<now, typed, servers, link, stored>>

\* The server has answered OK: the rest of issue_ticket, and
\* respond_with_endpoint.
TicketStored(u) ==
    /\ At(u, "answer")
    /\ Goto(u, "connect")
    /\ UNCHANGED <<now, typed, table, servers, link, stored>>

\* Wrong variant: one attempt too many.
TicketCallFails_again(u) ==
    /\ cmd[u].pc \in {"call", "answer"}
    /\ IF cmd[u].attempt < 2
       THEN cmd' = [cmd EXCEPT ![u].pc = "lookup", ![u].attempt = @ + 1, ![u].ticket = NoTicket]
       ELSE Tell(u, "refused")
    /\ UNCHANGED <<now, typed, table, servers, link, stored>>

\* The call has failed, before or after the server stored the ticket: a
\* second attempt, or ERR_UNAVAILABLE.
TicketCallFails(u) ==
    /\ cmd[u].pc \in {"call", "answer"}
    /\ IF cmd[u].attempt = 0
       THEN cmd' = [cmd EXCEPT ![u].pc = "lookup", ![u].attempt = 1, ![u].ticket = NoTicket]
       ELSE Tell(u, "refused")
    /\ UNCHANGED <<now, typed, table, servers, link, stored>>

Tick ==
    /\ now < MaxTime
    /\ now' = now + 1
    /\ UNCHANGED <<typed, table, servers, cmd, link, stored>>

-----------------------------------------------------------------------------
(* The client on its data connection *)

Request(op) == IF op = "WRITE" THEN "WRITE_BEGIN" ELSE op

\* ss_read, ss_stream, ss_write_session: connect and send the request.
net_connect(u) ==
    /\ At(u, "connect")
    /\ IF alive[cmd[u].ss]
       THEN /\ link' = [link EXCEPT ![u] = [NoLink EXCEPT !.ss = cmd[u].ss,
                                                          !.ticket = cmd[u].ticket,
                                                          !.thread = "recv",
                                                          !.req = Request(cmd[u].op)]]
            /\ cmd' = [cmd EXCEPT ![u].pc = "waiting", ![u].ss = None, ![u].ticket = NoTicket,
                                  ![u].attempt = 0]
       ELSE Tell(u, "failed") /\ UNCHANGED link
    /\ UNCHANGED <<now, typed, table, servers, stored>>

\* The server's thread has closed its end, or is lost with its process.
Closed(u) == link[u].thread \in {"none", "lost"}

\* The client closes its end; a thread finds out by itself.
net_close(u) ==
    link' = [link EXCEPT ![u] =
                IF Closed(u) THEN NoLink ELSE [@ EXCEPT !.gone = TRUE, !.resp = "none"]]

Consume(u) == link' = [link EXCEPT ![u].resp = "none"]

\* What the client does with a response, by where it waits for it.
NextResponse(u) ==
    LET r == link[u].resp  pc == cmd[u].pc IN
    \/ /\ pc = "waiting" /\ r = "OK" /\ cmd[u].op # "READ"
       /\ Goto(u, IF cmd[u].op = "WRITE" THEN "session" ELSE "streaming") /\ Consume(u)
    \/ pc = "streaming" /\ r = "DATA" /\ UNCHANGED cmd /\ Consume(u)
    \/ pc = "editing" /\ Goto(u, "session") /\ Consume(u)
    \/ pc = "committing" /\ r # "OK" /\ Goto(u, "abort") /\ Consume(u)

LastResponse(u) ==
    LET r == link[u].resp  pc == cmd[u].pc IN
    /\ \/ pc = "waiting" /\ r = "OK" /\ cmd[u].op = "READ" /\ Tell(u, "content")
       \/ pc = "waiting" /\ r # "OK" /\ Tell(u, "failed")
       \/ pc = "streaming" /\ r = "DONE" /\ Tell(u, "content")
       \/ pc = "committing" /\ r = "OK" /\ Tell(u, "committed")
       \/ pc = "aborting" /\ Tell(u, "failed")
    /\ net_close(u)

ReceiveResponse(u) ==
    /\ link[u].resp # "none"
    /\ NextResponse(u) \/ LastResponse(u)
    /\ UNCHANGED <<now, typed, table, servers, stored>>

\* The connection ends before the response; one that is lost with the
\* server's process may take the response with it.
ReceiveFails(u) ==
    /\ Closed(u)
    /\ link[u].thread = "none" => link[u].resp = "none"
    /\ \/ /\ cmd[u].pc \in {"waiting", "streaming", "aborting"}
          /\ Tell(u, "failed")
          /\ net_close(u)
       \/ /\ cmd[u].pc \in {"editing", "committing"}
          /\ Goto(u, "abort")
          /\ Consume(u)
    /\ UNCHANGED <<now, typed, table, servers, stored>>

\* What the client sends in a session, and where it waits for the answer.
Sends(u, pc, req, next) ==
    /\ At(u, pc)
    /\ link' = IF Closed(u) THEN link ELSE [link EXCEPT ![u].req = req]
    /\ Goto(u, next)
    /\ UNCHANGED <<now, typed, table, servers, stored>>

Edit(u) == Sends(u, "session", "WRITE_INSERT", "editing")
Commit(u) == Sends(u, "session", "WRITE_COMMIT", "committing")

\* The input ends without ETIRW.
EndOfInput(u) ==
    /\ At(u, "session")
    /\ Goto(u, "abort")
    /\ UNCHANGED <<now, typed, table, servers, link, stored>>

\* WRITE_ABORT is sent whenever there was no successful commit, also to a
\* server that has closed the connection after a failed one.
Abort(u) == Sends(u, "abort", "WRITE_ABORT", "aborting")

\* The client is killed, or ended by SIGPIPE as it sends to a closed
\* connection.
ClientEnds(u) ==
    /\ \/ cmd[u].pc \in {"waiting", "streaming", "session", "editing", "committing"}
       \/ cmd[u].pc = "abort" /\ Closed(u)
    /\ cmd' = [cmd EXCEPT ![u] = [NoCommand EXCEPT !.pc = "ended"]]
    /\ net_close(u)
    /\ UNCHANGED <<now, typed, table, servers, stored>>

-----------------------------------------------------------------------------
(* The thread of a data connection on its server *)

\* A response is sent and the thread goes on at next; at "none" it closes its
\* end.  A response to a client that is gone is lost.  "none" is no response:
\* send_ok sends nothing when the text just fits its caller's buffer and, with
\* the status in front, no longer its own.
Respond(u, r, next) ==
    link' = [link EXCEPT ![u] =
                IF ~@.gone THEN [@ EXCEPT !.thread = next, !.req = "none", !.resp = r]
                ELSE IF next = "none" THEN NoLink
                ELSE [@ EXCEPT !.thread = next, !.req = "none"]]

\* Wrong variant: a ticket is dropped in the second it expires in.
prune_early(s) == {t \in table[s] : t.expiry > Clock(s)}

\* Wrong variant: the table is not pruned.
prune_never(s) == table[s]

\* validate_ticket: ticket_table_take prunes by the server's clock first.
ticket_table_prune(s) == {t \in table[s] : ~Expired(t, Clock(s))}

Matches(t, ticket, u, op) == t.token = ticket.token /\ t.user = u /\ t.op = op

TicketOp(req) == IF req = "WRITE_BEGIN" THEN "WRITE" ELSE req

validate_ticket(u) ==
    LET s == link[u].ss
        kept == ticket_table_prune(s)
        found == {t \in kept : Matches(t, link[u].ticket, u, TicketOp(link[u].req))}
    IN
    /\ link[u].thread = "recv"
    /\ table' = [table EXCEPT ![s] = kept \ found]
    /\ IF found # {}
       THEN link' = [link EXCEPT ![u].thread = "serve"]
       ELSE Respond(u, "ERR_NOAUTH", "none")
    /\ UNCHANGED <<now, typed, servers, cmd, stored>>

Serving(u, thread, req) == link[u].thread = thread /\ link[u].req = req

\* The first response, OK or an error of the operation.
handle_read(u) ==
    /\ Serving(u, "serve", "READ")
    /\ \E r \in {"OK", "ERR", "none"} : Respond(u, r, "none")

handle_stream(u) ==
    \/ /\ Serving(u, "serve", "STREAM")
       /\ \/ Respond(u, "ERR", "none")
          \/ Respond(u, "OK", "stream")
    \/ /\ link[u].thread = "stream"
       /\ link[u].resp = "none"
       /\ Respond(u, "DATA", "last")
    \/ /\ link[u].thread \in {"stream", "last"}
       /\ link[u].resp = "none"
       /\ Respond(u, "DONE", "none")

\* Wrong variant: the loop goes on when the receive fails.
handle_write_deaf(u) ==
    \/ /\ Serving(u, "serve", "WRITE_BEGIN")
       /\ \/ \E r \in {"ERR", "none"} : Respond(u, r, "none")
          \/ Respond(u, "OK", "session")
    \/ /\ Serving(u, "session", "WRITE_INSERT")
       /\ \E r \in {"OK", "ERR"} : Respond(u, r, "session")
    \/ /\ Serving(u, "session", "WRITE_COMMIT")
       /\ Respond(u, "ERR", "none")
    \/ /\ link[u].thread = "committed"
       /\ Respond(u, "OK", "none")
    \/ /\ Serving(u, "session", "WRITE_ABORT")
       /\ Respond(u, "OK", "none")

handle_write(u) ==
    \/ /\ Serving(u, "serve", "WRITE_BEGIN")
       /\ \/ \E r \in {"ERR", "none"} : Respond(u, r, "none")
          \/ Respond(u, "OK", "session")
    \/ /\ Serving(u, "session", "WRITE_INSERT")
       /\ \E r \in {"OK", "ERR"} : Respond(u, r, "session")
    \/ /\ Serving(u, "session", "WRITE_COMMIT")
       /\ Respond(u, "ERR", "none")
    \/ /\ link[u].thread = "committed"
       /\ Respond(u, "OK", "none")
    \/ /\ Serving(u, "session", "WRITE_ABORT")
       /\ Respond(u, "OK", "none")
    \/ /\ Serving(u, "session", "none")
       /\ link[u].gone
       /\ Respond(u, "none", "none")

\* Wrong variant: a store that failed is taken for done.
commit_unstored(u) ==
    /\ Serving(u, "session", "WRITE_COMMIT")
    /\ link' = [link EXCEPT ![u].thread = "committed"]
    /\ UNCHANGED <<now, typed, table, servers, cmd, stored>>

write_session_commit(u) ==
    /\ Serving(u, "session", "WRITE_COMMIT")
    /\ stored' = [stored EXCEPT ![u] = "yes"]
    /\ link' = [link EXCEPT ![u].thread = "committed"]
    /\ UNCHANGED <<now, typed, table, servers, cmd>>

\* The answer to a commit that was stored is too long for send_ok; handle_write
\* does not look at its result and closes the connection.
AnswerTooLong(u) ==
    /\ link[u].thread = "committed"
    /\ stored' = [stored EXCEPT ![u] = "silent"]
    /\ Respond(u, "none", "none")
    /\ UNCHANGED <<now, typed, table, servers, cmd>>

Serve(u) ==
    /\ handle_read(u) \/ handle_stream(u) \/ handle_write(u)
    /\ UNCHANGED <<now, typed, table, servers, cmd, stored>>

\* The end of a server's process takes its ticket table and its threads.
End(s) ==
    /\ alive[s]
    /\ alive' = [alive EXCEPT ![s] = FALSE]
    /\ table' = [table EXCEPT ![s] = {}]
    /\ link' = [u \in Users |->
                   IF link[u].ss # s \/ link[u].thread = "none" THEN link[u]
                   ELSE IF link[u].gone THEN NoLink
                   ELSE [link[u] EXCEPT !.thread = "lost"]]
    /\ UNCHANGED <<now, typed, boot, cmd, stored>>

Crash(s) ==
    /\ crashes < MaxCrashes
    /\ crashes' = crashes + 1
    /\ End(s)

\* A thread that sends to a client that is gone.
BrokenPipe(u) ==
    /\ link[u].gone
    /\ ~Serving(u, "session", "none")
    /\ End(link[u].ss)
    /\ UNCHANGED crashes

Restart(s) ==
    /\ ~alive[s]
    /\ alive' = [alive EXCEPT ![s] = TRUE]
    /\ boot' = [boot EXCEPT ![s] = @ + 1]
    /\ UNCHANGED <<now, typed, table, crashes, cmd, link, stored>>

-----------------------------------------------------------------------------

ManagerStep(u) ==
    \/ Lookup(u)
    \/ issue_ticket(u)
    \/ handle_nm_ticket_command(u)
    \/ TicketStored(u)
    \/ TicketCallFails(u)

ClientStep(u) ==
    \/ net_connect(u)
    \/ ReceiveResponse(u)
    \/ ReceiveFails(u)
    \/ Abort(u)

ServerStep(u) ==
    \/ validate_ticket(u)
    \/ Serve(u)
    \/ write_session_commit(u)
    \/ AnswerTooLong(u)

UserStep(u) ==
    \/ \E op \in Ops : TypeCommand(u, op)
    \/ Edit(u)
    \/ Commit(u)
    \/ EndOfInput(u)
    \/ ClientEnds(u)

Next ==
    \/ Tick
    \/ \E u \in Users :
          ManagerStep(u) \/ ClientStep(u) \/ ServerStep(u) \/ UserStep(u) \/ BrokenPipe(u)
    \/ \E s \in Servers : Crash(s) \/ Restart(s)

Spec == Init /\ [][Next]_vars

-----------------------------------------------------------------------------
(* Properties *)

Ticket == [token : Nat, user : Users \cup {None}, op : Ops, expiry : Nat, boot : Nat]

Command ==
    [pc : {"prompt", "lookup", "issue", "call", "answer", "connect", "waiting", "streaming",
           "session", "editing", "committing", "abort", "aborting", "ended"},
     number : 0..MaxCommands, op : Ops, attempt : {0, 1}, ss : Servers \cup {None},
     ticket : Ticket, told : {"nothing", "refused", "content", "failed", "committed"}]

Link ==
    [ss : Servers \cup {None}, ticket : Ticket,
     thread : {"none", "recv", "serve", "stream", "last", "session", "committed", "lost"},
     req : {"none", "READ", "STREAM", "WRITE_BEGIN", "WRITE_INSERT", "WRITE_COMMIT",
            "WRITE_ABORT"},
     resp : {"none", "OK", "ERR", "ERR_NOAUTH", "DATA", "DONE"},
     gone : BOOLEAN]

Outcomes == {"no", "yes", "silent"}

\* Type invariant of the commands, the connections and the ticket tables.
TypeOK ==
    /\ now \in 1..MaxTime
    /\ typed \in 0..MaxCommands
    /\ table \in [Servers -> SUBSET Ticket]
    /\ alive \in [Servers -> BOOLEAN]
    /\ boot \in [Servers -> Nat]
    /\ crashes \in 0..MaxCrashes
    /\ cmd \in [Users -> Command]
    /\ link \in [Users -> Link]
    /\ stored \in [Users -> Outcomes]

\* A ticket that was handed out is honoured: the server refuses it only when
\* it has expired by the server's clock or the server was started anew, not
\* because another command, another user's ticket or a prune came between.
TicketHonoured ==
    [][\A u \in Users :
          link[u].thread = "recv" /\ link'[u].resp = "ERR_NOAUTH"
              => LET s == link[u].ss IN
                 Expired(link[u].ticket, Clock(s)) \/ boot[s] # link[u].ticket.boot]_vars

\* A connection is let in only while its ticket is valid by the server's
\* clock, the one the name manager gave to this client and not another in
\* the table that happens to match.
AdmittedInTime ==
    [][\A u \in Users :
          link[u].thread = "recv" /\ link'[u].thread = "serve"
              => Clock(link[u].ss) =< link[u].ticket.expiry]_vars

\* What the user is told of a commit is true: told it is committed, the
\* document was stored; told it failed, it was not, unless the server ended
\* between the two or its answer, which repeats the document, was too long to
\* be sent.
ToldTrue ==
    \A u \in Users :
        /\ cmd[u].told = "committed" => stored[u] = "yes"
        /\ cmd[u].told = "failed" /\ stored[u] = "yes"
              => \E s \in Servers : boot[s] > 1 \/ ~alive[s]

\* Nobody waits for ever: until a command has come back to its user the
\* client, its thread in the name manager or the thread of its connection can
\* go on, through refused tickets, failed calls and servers that end; and so
\* can the thread of a client that is gone.
NeverStuck ==
    \A u \in Users :
        cmd[u].pc \notin {"prompt", "session", "ended"} \/ link[u].gone
            => ENABLED (ManagerStep(u) \/ ClientStep(u) \/ ServerStep(u))

\* As long as no server is stopped from outside all of them stay up, so that
\* one user's connection never disturbs another's.
ServersStayUp == crashes = 0 => \A s \in Servers : alive[s]
=============================================================================
