-------------------------------- MODULE NmRpc -------------------------------
(***************************************************************************)
(* Control RPCs of the name manager to one storage server (nm/nm_main.c):  *)
(* forward_command, called by the threads of clients and by the            *)
(* replication worker, and the thread that receives from the server's      *)
(* connection.  They share one peer slot: a flag that a command is         *)
(* outstanding, one response, one mutex and ONE condition variable, on     *)
(* which wait both the callers that want the slot and the caller that      *)
(* wants its response.                                                     *)
(*                                                                         *)
(* One action is one critical section under io_lock, or one call outside   *)
(* of it.  A command and its response carry the name of their caller.      *)
(* Left out: shutting down, messages with a type (they leave the slot      *)
(* alone), and a server that connects again: another slot serves it, but a *)
(* caller that took this one before would send on the new connection.      *)
(***************************************************************************)
EXTENDS Naturals, Sequences, FiniteSets

CONSTANTS Callers,    \* threads that call forward_command
          None,       \* no response
          MaxCalls,   \* bound: calls of one caller
          MayBreak,   \* whether the connection may be lost
          Spurious    \* whether pthread_cond_wait may wake up for no reason

ASSUME RpcAssumption ==
    /\ None \notin Callers
    /\ MaxCalls \in Nat
    /\ MayBreak \in BOOLEAN
    /\ Spurious \in BOOLEAN

VARIABLES
    rpc_waiting,   \* a command is outstanding
    rpc_response,  \* the response that came, or None
    pc,            \* where each caller is in forward_command
    calls,         \* how many calls each caller has made
    result,        \* what the last call of each caller returned
    to_ss, to_nm,  \* the two directions of the connection
    conn,          \* "up", "broken" (the server is gone), "closed" (our end)
    peer,          \* where the receiving thread of the slot is
    down           \* the server was marked down: its ctrl_fd is -1

vars == <<rpc_waiting, rpc_response, pc, calls, result, to_ss, to_nm, conn, peer, down>>

slot == <<rpc_waiting, rpc_response>>
wire == <<to_ss, to_nm>>

\* "slot" and "answer": about to lock and test; "slot_wait" and
\* "answer_wait": in pthread_cond_wait.
CallerLabels == {"idle", "slot", "slot_wait", "send", "unsent", "answer", "answer_wait"}

Woken(l) == CASE l = "slot_wait" -> "slot" [] l = "answer_wait" -> "answer" [] OTHER -> l

Waiters == {c \in Callers : pc[c] \in {"slot_wait", "answer_wait"}}

\* Wrong variant: nobody is woken up.
Broadcast_missing == UNCHANGED pc

\* pthread_cond_broadcast, while caller c moves on to a label of its own.
Broadcast == pc' = [d \in Callers |-> Woken(pc[d])]
BroadcastAnd(c, l) == pc' = [d \in Callers |-> IF d = c THEN l ELSE Woken(pc[d])]

\* pthread_cond_signal: one waiter wakes up, if there is one.
Signal ==
    IF Waiters = {} THEN UNCHANGED pc
    ELSE \E c \in Waiters : pc' = [pc EXCEPT ![c] = Woken(@)]

\* Wrong variant: the response of the slot is not initialised.
Init_garbage ==
    /\ rpc_waiting = FALSE
    /\ rpc_response = "garbage"
    /\ pc = [c \in Callers |-> "idle"]
    /\ calls = [c \in Callers |-> 0]
    /\ result = [c \in Callers |-> None]
    /\ to_ss = <<>>
    /\ to_nm = <<>>
    /\ conn = "up"
    /\ peer = "recv"
    /\ down = FALSE

\* peer_reset_fields: a fresh slot.
Init ==
    /\ rpc_waiting = FALSE
    /\ rpc_response = None
    /\ pc = [c \in Callers |-> "idle"]
    /\ calls = [c \in Callers |-> 0]
    /\ result = [c \in Callers |-> None]
    /\ to_ss = <<>>
    /\ to_nm = <<>>
    /\ conn = "up"
    /\ peer = "recv"
    /\ down = FALSE

-----------------------------------------------------------------------------
(* forward_command *)

\* find_server_peer finds the slot by ctrl_fd, until the server is marked down.
Call(c) ==
    /\ pc[c] = "idle"
    /\ conn # "closed"
    /\ ~down
    /\ calls[c] < MaxCalls
    /\ pc' = [pc EXCEPT ![c] = "slot"]
    /\ calls' = [calls EXCEPT ![c] = @ + 1]
    /\ UNCHANGED <<slot, result, wire, conn, peer, down>>

AwaitSlot(c) ==
    /\ pc[c] = "slot"
    /\ rpc_waiting
    /\ pc' = [pc EXCEPT ![c] = "slot_wait"]
    /\ UNCHANGED <<slot, calls, result, wire, conn, peer, down>>

\* Wrong variant: the slot is taken without a look at the flag.
TakeSlot_unchecked(c) ==
    /\ pc[c] = "slot"
    /\ rpc_waiting' = TRUE
    /\ rpc_response' = None
    /\ pc' = [pc EXCEPT ![c] = "send"]
    /\ UNCHANGED <<calls, result, wire, conn, peer, down>>

\* A response nobody took is freed.
TakeSlot(c) ==
    /\ pc[c] = "slot"
    /\ ~rpc_waiting
    /\ rpc_waiting' = TRUE
    /\ rpc_response' = None
    /\ pc' = [pc EXCEPT ![c] = "send"]
    /\ UNCHANGED <<calls, result, wire, conn, peer, down>>

\* ctrl_fd is read again for the send.  A send to a server that is gone may go
\* through all the same, or fail; after a mark-down it fails, also if the
\* connection is up.
Send(c) ==
    /\ pc[c] = "send"
    /\ \/ /\ conn = "up" /\ ~down
          /\ to_ss' = Append(to_ss, c)
          /\ pc' = [pc EXCEPT ![c] = "answer"]
       \/ /\ conn = "broken" /\ ~down
          /\ pc' = [pc EXCEPT ![c] = "answer"]
          /\ UNCHANGED to_ss
       \/ /\ conn # "up" \/ down
          /\ pc' = [pc EXCEPT ![c] = "unsent"]
          /\ UNCHANGED to_ss
    /\ UNCHANGED <<slot, calls, result, to_nm, conn, peer, down>>

SendFailed(c) ==
    /\ pc[c] = "unsent"
    /\ rpc_waiting' = FALSE
    /\ BroadcastAnd(c, "idle")
    /\ result' = [result EXCEPT ![c] = "failed"]
    /\ UNCHANGED <<rpc_response, calls, wire, conn, peer, down>>

AwaitAnswer(c) ==
    /\ pc[c] = "answer"
    /\ rpc_waiting
    /\ pc' = [pc EXCEPT ![c] = "answer_wait"]
    /\ UNCHANGED <<slot, calls, result, wire, conn, peer, down>>

\* Whatever response is there is taken; none is a failure.
TakeAnswer(c) ==
    /\ pc[c] = "answer"
    /\ ~rpc_waiting
    /\ rpc_response' = None
    /\ result' = [result EXCEPT ![c] = IF rpc_response = None THEN "failed" ELSE rpc_response]
    /\ pc' = [pc EXCEPT ![c] = "idle"]
    /\ UNCHANGED <<rpc_waiting, calls, wire, conn, peer, down>>

WakeUp(c) ==
    /\ Spurious
    /\ c \in Waiters
    /\ pc' = [pc EXCEPT ![c] = Woken(@)]
    /\ UNCHANGED <<slot, calls, result, wire, conn, peer, down>>

\* A handler whose command failed may mark the server down, whatever the
\* reason of the failure.
nm_mark_server_down(c) ==
    /\ pc[c] = "idle"
    /\ result[c] = "failed"
    /\ ~down
    /\ down' = TRUE
    /\ UNCHANGED <<slot, pc, calls, result, wire, conn, peer>>

-----------------------------------------------------------------------------
(* The receiving thread: peer_thread_main, peer_close and peer_reset *)

Receive ==
    /\ peer = "recv"
    /\ to_nm # <<>>
    /\ to_nm' = Tail(to_nm)
    /\ \/ /\ rpc_waiting
          /\ rpc_response' = Head(to_nm)
          /\ rpc_waiting' = FALSE
          /\ Signal
       \/ /\ ~rpc_waiting
          /\ UNCHANGED <<slot, pc>>
    /\ UNCHANGED <<calls, result, to_ss, conn, peer, down>>

ReceiveFails ==
    /\ peer = "recv"
    /\ conn = "broken"
    /\ to_nm = <<>>
    /\ peer' = "disconnect"
    /\ \/ /\ rpc_waiting
          /\ rpc_waiting' = FALSE
          /\ rpc_response' = None
          /\ Broadcast
       \/ /\ ~rpc_waiting
          /\ UNCHANGED <<slot, pc>>
    /\ UNCHANGED <<calls, result, wire, conn, down>>

handle_server_disconnect ==
    /\ peer = "disconnect"
    /\ peer' = "close"
    /\ down' = TRUE
    /\ UNCHANGED <<slot, pc, calls, result, wire, conn>>

peer_close ==
    /\ peer = "close"
    /\ peer' = "reset"
    /\ conn' = "closed"
    /\ rpc_waiting' = FALSE
    /\ rpc_response' = None
    /\ Broadcast
    /\ UNCHANGED <<calls, result, wire, down>>

\* The thread ends and resets the slot once more.
peer_reset ==
    /\ peer = "reset"
    /\ peer' = "done"
    /\ rpc_waiting' = FALSE
    /\ rpc_response' = None
    /\ Broadcast
    /\ UNCHANGED <<calls, result, wire, conn, down>>

-----------------------------------------------------------------------------
(* The storage server, which answers commands one after the other *)

Serve ==
    /\ conn = "up"
    /\ to_ss # <<>>
    /\ to_ss' = Tail(to_ss)
    /\ to_nm' = Append(to_nm, Head(to_ss))
    /\ UNCHANGED <<slot, pc, calls, result, conn, peer, down>>

\* What the server has sent can still be received; what it has not read is lost.
Break ==
    /\ MayBreak
    /\ conn = "up"
    /\ conn' = "broken"
    /\ to_ss' = <<>>
    /\ UNCHANGED <<slot, pc, calls, result, to_nm, peer, down>>

-----------------------------------------------------------------------------
forward_command(c) ==
    \/ AwaitSlot(c) \/ TakeSlot(c)
    \/ Send(c) \/ SendFailed(c)
    \/ AwaitAnswer(c) \/ TakeAnswer(c)

peer_thread_main ==
    Receive \/ ReceiveFails \/ handle_server_disconnect \/ peer_close \/ peer_reset

Next ==
    \/ \E c \in Callers : Call(c) \/ forward_command(c) \/ WakeUp(c) \/ nm_mark_server_down(c)
    \/ peer_thread_main
    \/ Serve
    \/ Break

Spec == Init /\ [][Next]_vars

\* The threads of the name manager run; the server need not answer.
Fairness ==
    /\ \A c \in Callers : WF_vars(forward_command(c))
    /\ WF_vars(peer_thread_main)

FairSpec == Spec /\ Fairness

-----------------------------------------------------------------------------
\* The type invariant: a response is that of a caller or none, and every thread
\* is at one of its control points.
TypeOK ==
    /\ rpc_waiting \in BOOLEAN
    /\ rpc_response \in Callers \cup {None}
    /\ pc \in [Callers -> CallerLabels]
    /\ calls \in [Callers -> Nat]
    /\ result \in [Callers -> Callers \cup {None, "failed"}]
    /\ to_ss \in Seq(Callers)
    /\ to_nm \in Seq(Callers)
    /\ conn \in {"up", "broken", "closed"}
    /\ peer \in {"recv", "disconnect", "close", "reset", "done"}
    /\ down \in BOOLEAN

\* The callers between taking the slot and a send that went through.
Sending == {c \in Callers : pc[c] \in {"send", "unsent"}}

\* While the connection is up, the flag rpc_waiting, which is set and reset in
\* four places, tells exactly whether a command is on its way: never are two
\* commands outstanding at once, and the slot is never given up early, also
\* when the server is marked down while callers are on their way to it.
OneOutstanding ==
    conn = "up" =>
        Cardinality(Sending) + Len(to_ss) + Len(to_nm) = IF rpc_waiting THEN 1 ELSE 0

\* When the server is lost, every thread that waits for it comes back: those
\* that wait for a response, those that wait for the slot, and those that take
\* the slot while the receiving thread tears it down.
DropReleasesAll == conn = "broken" ~> \A c \in Callers : pc[c] = "idle"

-----------------------------------------------------------------------------
\* README.md, error codes: "ERR_UNAVAILABLE: A dependent service is offline/
\* unreachable".  A call fails (which the callers report as ERR_UNAVAILABLE,
\* marking the server down) only when the connection is lost.
FailureMeansDown ==
    [][\A c \in Callers : pc[c] # "idle" /\ pc'[c] = "idle" /\ result'[c] = "failed"
          => conn # "up"]_vars
=============================================================================
