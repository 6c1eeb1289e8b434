-------------------------- MODULE MCStorageServer --------------------------
(* Values of the constants of StorageServer for TLC. *)
EXTENDS StorageServer

CONSTANTS a, b, x, y

Plain(l) == [base |-> l, dots |-> 0]
Ended(l) == [base |-> l, dots |-> 1]

\* "a. b."
TwoSentences == <<Ended(a), Ended(b)>>

\* "a."
OneSentence == <<Ended(a)>>

\* One or two words to insert; the second ends a sentence.
InsertX  == {<<Plain(x)>>}
InsertXY == {<<Plain(x)>>, <<Ended(y)>>}

\* What another server may hold.
RemoteTexts == {<<Ended(y)>>}

ClientSymmetry == Permutations(Clients)

\* The state without the counts of words, for runs whose properties are not
\* about them: no step depends on a count, and a restart only on whether a
\* .meta file is there.
CountsAside ==
    <<[f \in Files |-> <<table[f].present, table[f].lock_active, meta[f] = None>>],
      locks, disk, tmp, ckpt, pc, job, session, buf, fd, reply, crashes>>
=============================================================================
