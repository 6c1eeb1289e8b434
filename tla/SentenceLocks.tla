---------------------------- MODULE SentenceLocks ---------------------------
(***************************************************************************)
(* What the sentence lock table of a storage server promises: a lock on a  *)
(* sentence index of a file has at most one holder, only the holder gives  *)
(* it back, and a request for a lock that is held is refused at once.      *)
(***************************************************************************)
EXTENDS Naturals

CONSTANTS Clients,  \* those who ask for locks
          Locks     \* the lockable things

VARIABLES held,     \* pairs of a client and a lock it holds
          epoch     \* how often the lock server lost its table

Init ==
    /\ held = {}
    /\ epoch = 0

Acquire(c, k) ==
    /\ \A d \in Clients : <<d, k>> \notin held
    /\ held' = held \cup {<<c, k>>}
    /\ UNCHANGED epoch

Release(c, k) ==
    /\ <<c, k>> \in held
    /\ held' = held \ {<<c, k>>}
    /\ UNCHANGED epoch

\* The server crashed: its lock table is only in memory.
Reset ==
    /\ held' = {}
    /\ epoch' = epoch + 1

Next ==
    \/ \E c \in Clients, k \in Locks : Acquire(c, k) \/ Release(c, k)
    \/ Reset

Spec == Init /\ [][Next]_<<held, epoch>>
=============================================================================
