---------------------------- MODULE RightsStore -----------------------------
(***************************************************************************)
(* What the name manager's table of files promises: a map from names to    *)
(* files, each with an owner and the rights it has given to others, and a  *)
(* durable copy of the map.  Every operation is atomic and concerns one    *)
(* file.  A file that is created, and a right that is given or taken, is   *)
(* in the durable copy at once.  A deletion is only with the next          *)
(* operation that writes the copy, and is lost when the process ends       *)
(* before.  The promise ends when the table is broken, which its users do  *)
(* not see happen: then the map may be any.                                *)
(***************************************************************************)
EXTENDS Integers, FiniteSetsExt, Functions

CONSTANTS Names,     \* file names
          Users,     \* owners and those who are given rights
          Perms,     \* the sets of rights that can be given at once
          MaxFiles,  \* how many files there may be
          MaxAcl     \* to how many others a file's owner may give rights

VARIABLES file,      \* the files there are, by name
          kept,      \* the files there are after a restart
          broken     \* two operations have met in the table

Holders(n) == {u \in Users : file[n].acl[u] # {}}

Init ==
    /\ file = [n \in {} |-> {}]
    /\ kept = file
    /\ broken = FALSE

Create(u, n) ==
    LET new == [owner |-> u, acl |-> [v \in Users |-> {}]] IN
    /\ n \notin DOMAIN file
    /\ Cardinality(DOMAIN file) < MaxFiles
    /\ file' = [m \in DOMAIN file \cup {n} |-> IF m = n THEN new ELSE file[m]]
    /\ kept' = file'

\* An owner needs no entry, and one that has an entry needs no room.
Grant(n, u, perm) ==
    /\ n \in DOMAIN file
    /\ file[n].owner # u
    /\ u \in Holders(n) \/ Cardinality(Holders(n)) < MaxAcl
    /\ file' = [file EXCEPT ![n].acl[u] = @ \cup perm]
    /\ kept' = file'

Revoke(n, u) ==
    /\ n \in DOMAIN file
    /\ file' = [file EXCEPT ![n].acl[u] = {}]
    /\ kept' = file'

Delete(n) ==
    /\ n \in DOMAIN file
    /\ file' = Restrict(file, DOMAIN file \ {n})
    /\ UNCHANGED kept

Save ==
    /\ kept' = file
    /\ UNCHANGED file

Restart ==
    /\ file' = kept
    /\ UNCHANGED kept

Operation ==
    \/ Save
    \/ Restart
    \/ \E n \in Names :
          \/ Delete(n)
          \/ \E u \in Users :
                \/ Create(u, n)
                \/ Revoke(n, u)
                \/ \E perm \in Perms : Grant(n, u, perm)

\* Nothing is said of the map from here on.
Break == broken' = TRUE

Next == (~broken /\ Operation /\ UNCHANGED broken) \/ Break

Spec == Init /\ [][Next]_<<file, kept, broken>>
=============================================================================
