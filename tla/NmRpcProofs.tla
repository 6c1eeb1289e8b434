----------------------------- MODULE NmRpcProofs ----------------------------
(***************************************************************************)
(* Proofs about the peer slot of forward_command, for any number of        *)
(* callers and calls, spurious wake-ups and a loss of the connection       *)
(* included.                                                               *)
(***************************************************************************)
EXTENDS NmRpc, FiniteSetTheorems, SequenceTheorems, TLAPS

\* Where the outstanding command is while the connection is up: with the
\* caller that sends it or could not, on its way to the server, or on its way back.
Outstanding ==
    IF rpc_waiting
    THEN \/ (\E c \in Callers : Sending = {c}) /\ to_ss = <<>> /\ to_nm = <<>>
         \/ Sending = {} /\ Len(to_ss) = 1 /\ to_nm = <<>>
         \/ Sending = {} /\ to_ss = <<>> /\ Len(to_nm) = 1
    ELSE Sending = {} /\ to_ss = <<>> /\ to_nm = <<>>

\* Only the loss of the connection ends the receiver.
Live == conn = "up" => peer = "recv" /\ Outstanding

IInv == TypeOK /\ Live

\* The invariant counts what OneOutstanding counts.
LEMMA Counted == IInv => OneOutstanding
  <1> SUFFICES ASSUME IInv, conn = "up"
               PROVE  Cardinality(Sending) + Len(to_ss) + Len(to_nm)
                        = IF rpc_waiting THEN 1 ELSE 0
    BY DEF OneOutstanding
  <1>1. Outstanding
    BY DEF IInv, Live
  <1>2. Len(<<>>) = 0
    OBVIOUS
  <1>3. CASE Sending = {}
    <2>1. Cardinality(Sending) = 0
      BY <1>3, FS_EmptySet
    <2>2. CASE rpc_waiting
      <3>1. \/ Len(to_ss) = 1 /\ Len(to_nm) = 0
            \/ Len(to_ss) = 0 /\ Len(to_nm) = 1
        BY <1>1, <1>2, <1>3, <2>2 DEF Outstanding
      <3>2. Cardinality(Sending) + Len(to_ss) + Len(to_nm) = 1
        <4>1. CASE Len(to_ss) = 1 /\ Len(to_nm) = 0
          BY <2>1, <4>1
        <4>2. CASE Len(to_ss) = 0 /\ Len(to_nm) = 1
          BY <2>1, <4>2
        <4> QED  BY <3>1, <4>1, <4>2
      <3> QED  BY <2>2, <3>2
    <2>3. CASE ~rpc_waiting
      <3>1. Len(to_ss) = 0 /\ Len(to_nm) = 0
        BY <1>1, <1>2, <2>3 DEF Outstanding
      <3>2. Cardinality(Sending) + Len(to_ss) + Len(to_nm) = 0
        BY <2>1, <3>1
      <3> QED  BY <2>3, <3>2
    <2> QED  BY <2>2, <2>3
  <1>4. CASE Sending # {}
    <2>1. PICK c \in Callers : Sending = {c}
      BY <1>1, <1>4 DEF Outstanding
    <2>2. Cardinality(Sending) = 1
      BY <2>1, FS_Singleton
    <2>3. rpc_waiting /\ Len(to_ss) = 0 /\ Len(to_nm) = 0
      BY <1>1, <1>2, <1>4 DEF Outstanding
    <2>4. Cardinality(Sending) + Len(to_ss) + Len(to_nm) = 1
      BY <2>2, <2>3
    <2> QED  BY <2>3, <2>4
  <1> QED  BY <1>3, <1>4

\* Initially nothing is outstanding.
LEMMA InitIInv == Init => IInv
  <1> SUFFICES ASSUME Init  PROVE IInv
    OBVIOUS
  <1>1. TypeOK
    BY EmptySeq DEF Init, TypeOK, CallerLabels
  <1>2. Sending = {}
    BY DEF Init, Sending
  <1> QED  BY <1>1, <1>2 DEF Init, IInv, Live, Outstanding

\* Waking up puts a caller back to its test.
LEMMA WokenType ==
    \A l \in CallerLabels : /\ Woken(l) \in CallerLabels
                            /\ Woken(l) = "send" <=> l = "send"
                            /\ Woken(l) = "unsent" <=> l = "unsent"
  BY DEF Woken, CallerLabels

\* Every step of the RPC machinery keeps the type invariant.
LEMMA NextType ==
    ASSUME TypeOK, [Next]_vars
    PROVE  TypeOK'
  <1> USE RpcAssumption DEF TypeOK
  <1>1. ASSUME NEW c \in Callers, Call(c)  PROVE TypeOK'
    BY <1>1 DEF Call, CallerLabels, slot, wire
  <1>2. ASSUME NEW c \in Callers, AwaitSlot(c) \/ TakeSlot(c) \/ AwaitAnswer(c)  PROVE TypeOK'
    BY <1>2 DEF AwaitSlot, TakeSlot, AwaitAnswer, CallerLabels, slot, wire
  <1>3. ASSUME NEW c \in Callers, Send(c)  PROVE TypeOK'
    <2>1. to_ss' \in Seq(Callers)
      <3>1. Append(to_ss, c) \in Seq(Callers)
        BY <1>3
      <3> QED  BY <1>3, <3>1 DEF Send
    <2>2. pc' \in [Callers -> CallerLabels]
      BY <1>3 DEF Send, CallerLabels
    <2> QED  BY <1>3, <2>1, <2>2 DEF Send, slot
  <1>4. ASSUME NEW c \in Callers, SendFailed(c)  PROVE TypeOK'
    <2>1. pc' \in [Callers -> CallerLabels]
      BY <1>4, WokenType DEF SendFailed, BroadcastAnd, CallerLabels
    <2> QED  BY <1>4, <2>1 DEF SendFailed, wire
  <1>5. ASSUME NEW c \in Callers, TakeAnswer(c)  PROVE TypeOK'
    <2>1. result' \in [Callers -> Callers \cup {None, "failed"}]
      <3>1. PICK r \in Callers \cup {None, "failed"} : result' = [result EXCEPT ![c] = r]
        BY <1>5 DEF TakeAnswer
      <3> QED  BY <3>1
    <2>2. pc' \in [Callers -> CallerLabels]
      BY <1>5 DEF TakeAnswer, CallerLabels
    <2> QED  BY <1>5, <2>1, <2>2 DEF TakeAnswer, wire
  <1>6. ASSUME NEW c \in Callers, WakeUp(c)  PROVE TypeOK'
    BY <1>6, WokenType DEF WakeUp, slot, wire
  <1>7. CASE Receive
    <2>1. pc' \in [Callers -> CallerLabels]
      <3>1. UNCHANGED pc \/ \E c \in Callers : pc' = [pc EXCEPT ![c] = Woken(@)]
        BY <1>7 DEF Receive, Signal, Waiters
      <3>2. \A c \in Callers : Woken(pc[c]) \in CallerLabels
        BY WokenType
      <3> QED  BY <3>1, <3>2
    <2>2. to_nm' \in Seq(Callers) /\ Head(to_nm) \in Callers
      BY <1>7 DEF Receive
    <2>3. rpc_waiting' \in BOOLEAN /\ rpc_response' \in Callers \cup {None}
      BY <1>7, <2>2 DEF Receive, slot
    <2> QED  BY <1>7, <2>1, <2>2, <2>3 DEF Receive
  <1>8. CASE ReceiveFails
    <2>1. pc' \in [Callers -> CallerLabels]
      BY <1>8, WokenType DEF ReceiveFails, Broadcast
    <2>2. rpc_waiting' \in BOOLEAN /\ rpc_response' \in Callers \cup {None}
      BY <1>8 DEF ReceiveFails, slot
    <2> QED  BY <1>8, <2>1, <2>2 DEF ReceiveFails, wire
  <1>0. CASE handle_server_disconnect \/ \E c \in Callers : nm_mark_server_down(c)
    BY <1>0 DEF handle_server_disconnect, nm_mark_server_down, slot, wire
  <1>9. CASE peer_close \/ peer_reset
    <2>1. pc' \in [Callers -> CallerLabels]
      BY <1>9, WokenType DEF peer_close, peer_reset, Broadcast
    <2> QED  BY <1>9, <2>1 DEF peer_close, peer_reset, wire
  <1>10. CASE Serve
    BY <1>10 DEF Serve, slot
  <1>11. CASE Break
    BY <1>11 DEF Break, slot
  <1>12. CASE UNCHANGED vars
    BY <1>12 DEF vars
  <1> QED
    BY <1>0, <1>1, <1>2, <1>3, <1>4, <1>5, <1>6, <1>7, <1>8, <1>9, <1>10, <1>11, <1>12
       DEF Next, forward_command, peer_thread_main

\* Every step keeps track of the outstanding command.
LEMMA NextLive ==
    ASSUME IInv, [Next]_vars
    PROVE  Live'
  <1> SUFFICES ASSUME conn' = "up"
               PROVE  peer' = "recv" /\ Outstanding'
    BY DEF Live
  <1>0. conn = "up" /\ peer = "recv" /\ Outstanding /\ TypeOK
    BY DEF IInv, Live, Next, forward_command, peer_thread_main, Call, AwaitSlot, TakeSlot,
           Send, SendFailed, AwaitAnswer, TakeAnswer, WakeUp, Receive, ReceiveFails,
           peer_close, peer_reset, handle_server_disconnect, nm_mark_server_down, Serve, Break,
           vars
  <1> USE <1>0
  \* A caller moves between control points other than "send" and "unsent".
  <1>1. ASSUME NEW c \in Callers, NEW l \in CallerLabels \ {"send", "unsent"},
               pc[c] \notin {"send", "unsent"}, pc' = [pc EXCEPT ![c] = l]
        PROVE  Sending' = Sending
    BY <1>1 DEF Sending, TypeOK
  <1>2. ASSUME NEW c \in Callers, Call(c) \/ AwaitSlot(c) \/ AwaitAnswer(c)
        PROVE  peer' = "recv" /\ Outstanding'
    <2>1. PICK l \in CallerLabels \ {"send", "unsent"} :
              pc[c] \notin {"send", "unsent"} /\ pc' = [pc EXCEPT ![c] = l]
      BY <1>2 DEF Call, AwaitSlot, AwaitAnswer, CallerLabels
    <2>2. UNCHANGED <<rpc_waiting, to_ss, to_nm, peer>>
      BY <1>2 DEF Call, AwaitSlot, AwaitAnswer, slot, wire
    <2> QED  BY <1>1, <2>1, <2>2 DEF Outstanding
  <1>3. ASSUME NEW c \in Callers, TakeSlot(c)
        PROVE  peer' = "recv" /\ Outstanding'
    <2>1. Sending = {} /\ to_ss = <<>> /\ to_nm = <<>>
      BY <1>3 DEF TakeSlot, Outstanding
    <2>2. pc' = [pc EXCEPT ![c] = "send"] /\ rpc_waiting' /\ UNCHANGED <<to_ss, to_nm, peer>>
      BY <1>3 DEF TakeSlot, wire
    <2>3. Sending' = {c}
      BY <2>1, <2>2 DEF Sending, TypeOK
    <2> QED  BY <2>1, <2>2, <2>3 DEF Outstanding
  <1>4. ASSUME NEW c \in Callers, Send(c)
        PROVE  peer' = "recv" /\ Outstanding'
    <2>1. c \in Sending /\ UNCHANGED <<rpc_waiting, to_nm, peer>>
      BY <1>4 DEF Send, Sending, slot
    <2>2. rpc_waiting /\ Sending = {c} /\ to_ss = <<>> /\ to_nm = <<>>
      BY <2>1 DEF Outstanding
    <2>3. CASE pc' = [pc EXCEPT ![c] = "answer"] /\ to_ss' = Append(to_ss, c)
      <3>1. Sending' = {}
        BY <2>2, <2>3 DEF Sending, TypeOK
      <3>2. Len(to_ss') = 1
        BY <2>2, <2>3
      <3> QED  BY <2>1, <2>2, <3>1, <3>2 DEF Outstanding
    <2>4. CASE pc' = [pc EXCEPT ![c] = "unsent"] /\ UNCHANGED to_ss
      <3>1. Sending' = {c}
        BY <2>2, <2>4 DEF Sending, TypeOK
      <3> QED  BY <2>1, <2>2, <2>4, <3>1 DEF Outstanding
    <2> QED  BY <1>4, <2>3, <2>4 DEF Send
  <1>5. ASSUME NEW c \in Callers, SendFailed(c)
        PROVE  peer' = "recv" /\ Outstanding'
    <2>1. /\ c \in Sending /\ rpc_waiting' = FALSE /\ BroadcastAnd(c, "idle")
          /\ UNCHANGED <<to_ss, to_nm, peer>>
      BY <1>5 DEF SendFailed, Sending, wire
    <2>2. Sending = {c} /\ to_ss = <<>> /\ to_nm = <<>>
      BY <2>1 DEF Outstanding
    <2>3. ASSUME NEW d \in Callers  PROVE pc'[d] \notin {"send", "unsent"}
      <3>1. CASE d = c
        BY <2>1, <3>1 DEF BroadcastAnd
      <3>2. CASE d # c
        <4>1. pc[d] \in CallerLabels \ {"send", "unsent"}
          BY <2>2, <3>2 DEF Sending, TypeOK
        <4> QED  BY <2>1, <3>2, <4>1, WokenType DEF BroadcastAnd
      <3> QED  BY <3>1, <3>2
    <2>4. Sending' = {}
      BY <2>3 DEF Sending
    <2> QED  BY <2>1, <2>2, <2>4 DEF Outstanding
  <1>6. ASSUME NEW c \in Callers, TakeAnswer(c)
        PROVE  peer' = "recv" /\ Outstanding'
    <2>1. /\ pc[c] \notin {"send", "unsent"} /\ pc' = [pc EXCEPT ![c] = "idle"]
          /\ UNCHANGED <<rpc_waiting, to_ss, to_nm, peer>>
      BY <1>6 DEF TakeAnswer, wire
    <2>2. Sending' = Sending
      BY <1>1, <2>1 DEF CallerLabels
    <2> QED  BY <2>1, <2>2 DEF Outstanding
  <1>7. ASSUME NEW c \in Waiters, pc' = [pc EXCEPT ![c] = Woken(@)]
        PROVE  Sending' = Sending
    <2>1. c \in Callers /\ pc[c] \in {"slot_wait", "answer_wait"}
      BY <1>7 DEF Waiters
    <2>2. Woken(pc[c]) \in {"slot", "answer"}
      BY <2>1 DEF Woken
    <2> QED  BY <1>1, <1>7, <2>1, <2>2 DEF CallerLabels
  <1>8. ASSUME NEW c \in Callers, WakeUp(c)
        PROVE  peer' = "recv" /\ Outstanding'
    BY <1>7, <1>8 DEF WakeUp, slot, wire, Outstanding
  <1>9. CASE Receive
    <2>1. to_nm # <<>> /\ to_nm' = Tail(to_nm) /\ UNCHANGED <<to_ss, peer>>
      BY <1>9 DEF Receive
    <2>2. rpc_waiting /\ Sending = {} /\ to_ss = <<>> /\ Len(to_nm) = 1
      BY <2>1 DEF Outstanding
    <2>3. to_nm' = <<>> /\ ~rpc_waiting'
      BY <1>9, <2>1, <2>2 DEF Receive, TypeOK
    <2>4. Sending' = Sending
      <3>1. CASE UNCHANGED pc
        BY <3>1 DEF Sending
      <3>2. CASE ~UNCHANGED pc
        BY <1>7, <1>9, <2>2, <3>2 DEF Receive, Signal
      <3> QED  BY <3>1, <3>2
    <2> QED  BY <2>1, <2>2, <2>3, <2>4 DEF Outstanding
  <1>10. CASE Serve
    <2>1. /\ to_ss # <<>> /\ to_ss' = Tail(to_ss) /\ to_nm' = Append(to_nm, Head(to_ss))
          /\ UNCHANGED <<rpc_waiting, pc, peer>>
      BY <1>10 DEF Serve, slot
    <2>2. rpc_waiting /\ Sending = {} /\ Len(to_ss) = 1 /\ to_nm = <<>>
      BY <2>1 DEF Outstanding
    <2>3. to_ss' = <<>> /\ Len(to_nm') = 1
      BY <2>1, <2>2 DEF TypeOK
    <2> QED  BY <2>1, <2>2, <2>3 DEF Outstanding, Sending
  <1>11. CASE UNCHANGED vars
    BY <1>11 DEF vars, Outstanding, Sending
  <1>12. ASSUME NEW c \in Callers, nm_mark_server_down(c)
         PROVE  peer' = "recv" /\ Outstanding'
    BY <1>12 DEF nm_mark_server_down, slot, wire, Outstanding, Sending
  <1>13. ~ReceiveFails /\ ~peer_close /\ ~peer_reset /\ ~Break /\ ~handle_server_disconnect
    BY DEF ReceiveFails, peer_close, peer_reset, Break, handle_server_disconnect
  <1> QED
    BY <1>2, <1>3, <1>4, <1>5, <1>6, <1>8, <1>9, <1>10, <1>11, <1>12, <1>13
       DEF Next, forward_command, peer_thread_main

\* The slot of a peer is well typed in every reachable state.
THEOREM TypeCorrect == Spec => []TypeOK
  <1>1. Init => TypeOK
    BY InitIInv DEF IInv
  <1>2. TypeOK /\ [Next]_vars => TypeOK'
    BY NextType
  <1> QED  BY <1>1, <1>2, PTL DEF Spec

\* forward_command never has two commands outstanding on a connection that is
\* up, and rpc_waiting is down exactly when none is, for any number of callers,
\* also when the server is marked down under them.
THEOREM SlotCorrect == Spec => []OneOutstanding
  <1>1. Init => IInv
    BY InitIInv
  <1>2. IInv /\ [Next]_vars => IInv'
    BY NextType, NextLive DEF IInv
  <1>3. IInv => OneOutstanding
    BY Counted
  <1> QED  BY <1>1, <1>2, <1>3, PTL DEF Spec
=============================================================================
