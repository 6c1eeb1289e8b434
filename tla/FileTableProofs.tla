--------------------------- MODULE FileTableProofs --------------------------
(***************************************************************************)
(* Proofs about FileTable: the hash index, the state file and the rights   *)
(* are right for every hash function, number of slots, set of names and    *)
(* set of users.                                                           *)
(*                                                                         *)
(* The index is a linked structure in an array.  Linked gives each slot in *)
(* use a rank: every chain runs through its slots in falling rank, so the  *)
(* link of a slot leads to the highest one below it.  A new slot gets a    *)
(* rank above all others, a removed slot leaves a gap that the link across *)
(* it closes.  Searches go along links that an arbitrary array could close *)
(* to a ring; WalkExists shows that such a search is a function all the    *)
(* same, and Found that on ranked chains it ends where it should.          *)
(*                                                                         *)
(* The state file is compared with the table it was written from (Stands), *)
(* which the load gives back with a new index (LoadSaved).                 *)
(*                                                                         *)
(* All this up to the first step of another thread inside a removal or a   *)
(* save that DELETE makes without the lock: AloneStep shows that until     *)
(* then every step is one of the handlers, undisturbed.                    *)
(***************************************************************************)
EXTENDS FileTable, TLAPS, WellFoundedInduction, FiniteSetTheorems

\* A nonempty set of numbers has a least one.
LEMMA Least ==
    ASSUME NEW S, S \subseteq Nat, S # {}
    PROVE  \E x \in S : \A y \in S : x <= y
<1>1. PICK x \in S : \A y \in S : ~(<<y, x>> \in OpToRel(<, Nat))
  BY NatLessThanWellFounded, WFMin
<1>2. \A y \in S : x <= y
  <2> TAKE y \in S
  <2>1. x \in Nat /\ y \in Nat /\ ~(y < x)
    BY <1>1 DEF OpToRel
  <2> QED
    BY <2>1
<1> QED
  BY <1>1, <1>2

Walk(w, D, End, link) == w = [i \in D |-> IF i \in End THEN i ELSE w[link[i]]]

\* Following links until one of the ends is a function, whatever the links:
\* all places of a path have the same ends ahead of them.
LEMMA WalkExists ==
    ASSUME NEW D, NEW End, End \subseteq D, NEW link, \A i \in D \ End : link[i] \in D
    PROVE  \E w : Walk(w, D, End, link)
<1> DEFINE Closed(C) == C \subseteq D /\ \A i \in C \ End : link[i] \in C
           Path(i) == {j \in D : \A C \in SUBSET D : Closed(C) /\ i \in C => j \in C}
           Ahead(i) == Path(i) \cap End
           w == [i \in D |-> IF i \in End THEN i ELSE CHOOSE j : j \in Ahead(i)]
<1>1. \A i \in D : Closed(Path(i)) /\ i \in Path(i)
  OBVIOUS
<1>2. ASSUME NEW i \in End PROVE Ahead(i) = {i}
  <2>1. Closed({i}) /\ {i} \in SUBSET D
    OBVIOUS
  <2>2. Path(i) \subseteq {i}
    BY <2>1
  <2>3. i \in Path(i)
    BY <1>1
  <2> QED
    BY <2>2, <2>3
<1>3. ASSUME NEW i \in D \ End PROVE Ahead(i) = Ahead(link[i])
  <2>1. Closed(Path(link[i]) \cup {i}) /\ i \in Path(link[i]) \cup {i}
    BY <1>1
  <2>2. Path(i) \subseteq Path(link[i]) \cup {i}
    BY <2>1
  <2>3. Path(link[i]) \subseteq Path(i)
    OBVIOUS
  <2> QED
    BY <2>2, <2>3
<1>4. \A i \in D \ End : w[i] = w[link[i]]
  <2> SUFFICES ASSUME NEW i \in D \ End PROVE w[i] = w[link[i]]
    OBVIOUS
  <2>1. CASE link[i] \in End
    <3>1. Ahead(i) = {link[i]}
      BY <1>2, <1>3, <2>1
    <3> HIDE DEF Ahead
    <3>2. (CHOOSE j : j \in Ahead(i)) = link[i]
      BY <3>1
    <3> QED
      BY <2>1, <3>2
  <2>2. CASE link[i] \notin End
    <3>1. Ahead(i) = Ahead(link[i])
      BY <1>3
    <3> HIDE DEF Ahead
    <3> QED
      BY <2>2, <3>1
  <2> QED
    BY <2>1, <2>2
<1>5. w = [i \in D |-> IF i \in End THEN i ELSE w[link[i]]]
  <2> HIDE DEF Ahead
  <2>1. \A i \in D : w[i] = IF i \in End THEN i ELSE w[link[i]]
    BY <1>4
  <2> QED
    BY <2>1
<1> QED
  BY <1>5 DEF Walk

(***************************************************************************)
(* The hash index.                                                         *)
(***************************************************************************)

Table == [files : [Slots -> Entry], file_count : 0..MaxFiles,
          file_buckets : [Buckets -> Slots \cup {-1}]]

Name(t, i) == t.files[i].name
Link(t, i) == t.files[i].hash_next
Head(t, b) == t.file_buckets[b]

\* Slot m is the first of chain b, among the slots L, with a rank below r.
First(t, L, rank, m, b, r) ==
    /\ m \in L \cup {-1}
    /\ m \in L => Hash[Name(t, m)] = b
    /\ rank[m] < r
    /\ \A j \in L : Hash[Name(t, j)] = b /\ rank[j] < r => rank[j] <= rank[m]

\* The chains have the slots L, each slot once, in the order of their ranks.
Linked(t, L, rank, top) ==
    /\ rank \in [Slots \cup {-1} -> Nat] /\ top \in Nat /\ rank[-1] = 0
    /\ \A i \in L : Name(t, i) \in Names /\ rank[i] > 0 /\ rank[i] < top
    /\ \A i, j \in L : rank[i] = rank[j] => i = j
    /\ \A i \in L : First(t, L, rank, Link(t, i), Hash[Name(t, i)], rank[i])
    /\ \A b \in Buckets : First(t, L, rank, Head(t, b), b, top)

Distinct(t, L) == \A i, j \in L : Name(t, i) = Name(t, j) => i = j

\* The parts of a table.
LEMMA TableParts ==
    ASSUME NEW t \in Table
    PROVE  /\ t = [files |-> t.files, file_count |-> t.file_count, file_buckets |-> t.file_buckets]
           /\ t.files \in [Slots -> Entry] /\ t.file_count \in 0..MaxFiles
           /\ t.file_buckets \in [Buckets -> Slots \cup {-1}]
           /\ \A i \in Slots : t.files[i] \in Entry /\ t.files[i].hash_next \in Slots \cup {-1}
                              /\ i >= 0 /\ i < MaxFiles /\ i \in Int
           /\ \A n \in Names : Hash[n] \in Buckets /\ t.file_buckets[Hash[n]] \in Slots \cup {-1}
<1>1. /\ t = [files |-> t.files, file_count |-> t.file_count, file_buckets |-> t.file_buckets]
      /\ t.files \in [Slots -> Entry] /\ t.file_count \in 0..MaxFiles
      /\ t.file_buckets \in [Buckets -> Slots \cup {-1}]
  BY DEF Table
<1>2. \A i \in Slots : t.files[i] \in Entry
  BY <1>1
<1>3. \A e \in Entry : e.hash_next \in Slots \cup {-1}
  BY DEF Entry
<1>4. \A i \in Slots : i >= 0 /\ i < MaxFiles /\ i \in Int
  BY TableAssumption DEF Slots
<1>5. \A n \in Names : Hash[n] \in Buckets /\ t.file_buckets[Hash[n]] \in Slots \cup {-1}
  BY <1>1 DEF Buckets
<1> QED
  BY <1>1, <1>2, <1>3, <1>4, <1>5

\* A search follows the links of the table.
LEMMA FindWalks ==
    ASSUME NEW t \in Table, NEW n \in Names
    PROVE  \E w : /\ \A i \in Slots \cup {-1} :
                        w[i] = IF i < 0 \/ Name(t, i) = n THEN i ELSE w[Link(t, i)]
                  /\ find_file_index(t, n) = w[Head(t, Hash[n])]
<1> DEFINE D == Slots \cup {-1}
           End == {i \in D : i < 0 \/ t.files[i].name = n}
           link == [i \in Slots |-> t.files[i].hash_next]
           walk == CHOOSE w : w = [i \in Slots \cup {-1} |->
                       IF i < 0 \/ t.files[i].name = n THEN i ELSE w[t.files[i].hash_next]]
<1>1. \A i \in D \ End : i \in Slots /\ link[i] \in D /\ link[i] = t.files[i].hash_next
  BY TableParts
<1>2. PICK w : Walk(w, D, End, link)
  <2>1. End \subseteq D
    OBVIOUS
  <2>2. \A i \in D \ End : link[i] \in D
    BY <1>1
  <2> HIDE DEF D, End, link
  <2> QED
    BY <2>1, <2>2, WalkExists
<1>3. w = [i \in D |-> IF i < 0 \/ t.files[i].name = n THEN i ELSE w[t.files[i].hash_next]]
  <2>1. \A i \in D : (IF i \in End THEN i ELSE w[link[i]]) =
                     IF i < 0 \/ t.files[i].name = n THEN i ELSE w[t.files[i].hash_next]
    BY <1>1
  <2> QED
    BY <1>2, <2>1 DEF Walk
<1>4. walk = [i \in D |-> IF i < 0 \/ t.files[i].name = n THEN i ELSE walk[t.files[i].hash_next]]
  BY <1>3
<1>5. find_file_index(t, n) = walk[t.file_buckets[Hash[n]]]
  BY DEF find_file_index
<1> HIDE DEF walk
<1> QED
  BY <1>4, <1>5 DEF Name, Link, Head

\* A search finds the slot with the name, and nothing if there is none.
LEMMA Found ==
    ASSUME NEW t \in Table, NEW L, L \subseteq Slots, NEW rank, NEW top, Linked(t, L, rank, top),
           Distinct(t, L), NEW n \in Names
    PROVE  /\ \A x \in L : Name(t, x) = n => find_file_index(t, n) = x
           /\ (\A x \in L : Name(t, x) # n) => find_file_index(t, n) = -1
<1>1. PICK w : /\ \A i \in Slots \cup {-1} :
                     w[i] = IF i < 0 \/ Name(t, i) = n THEN i ELSE w[Link(t, i)]
               /\ find_file_index(t, n) = w[Head(t, Hash[n])]
  BY FindWalks
<1> DEFINE b == Hash[n]
           h == Head(t, b)
<1>2. b \in Buckets /\ First(t, L, rank, h, b, top)
  BY TableParts DEF Linked
<1>3. /\ \A i \in L : i \in Slots /\ i \in Int /\ i >= 0 /\ rank[i] \in Nat
      /\ w[-1] = -1 /\ rank[-1] = 0 /\ top \in Nat /\ rank \in [Slots \cup {-1} -> Nat]
  BY <1>1, TableParts DEF Linked
<1>4. ASSUME NEW x \in L, Name(t, x) = n PROVE w[h] = x
  <2> DEFINE Bad == {rank[s] : s \in {s \in L : Hash[Name(t, s)] = b /\ rank[x] <= rank[s] /\ w[s] # x}}
  <2>1. Bad = {}
    <3> SUFFICES ASSUME Bad # {} PROVE FALSE
      OBVIOUS
    <3>1. Bad \subseteq Nat
      BY <1>3
    <3>2. PICK r \in Bad : \A y \in Bad : r <= y
      BY <3>1, Least
    <3>3. PICK s \in L : Hash[Name(t, s)] = b /\ rank[x] <= rank[s] /\ w[s] # x /\ r = rank[s]
      BY <3>2
    <3>4. s # x /\ rank[s] # rank[x] /\ Name(t, s) # n
      <4>1. w[x] = x
        BY <1>1, <1>3, <1>4
      <4> QED
        BY <1>4, <3>3, <4>1 DEF Linked, Distinct
    <3> DEFINE m == Link(t, s)
    <3>5. First(t, L, rank, m, b, rank[s]) /\ w[s] = w[m]
      BY <1>1, <1>3, <3>3, <3>4 DEF Linked
    <3>6. rank[x] <= rank[m] /\ rank[m] < rank[s] /\ m \in L \cup {-1} /\ (m \in L => Hash[Name(t, m)] = b)
      BY <1>3, <1>4, <3>3, <3>4, <3>5 DEF First
    <3>7. m \in L
      BY <1>3, <3>6 DEF Linked
    <3>8. rank[m] \in Bad
      BY <3>3, <3>5, <3>6, <3>7
    <3> QED
      BY <1>3, <3>2, <3>3, <3>6, <3>7, <3>8
  <2>2. rank[x] <= rank[h] /\ h \in L \cup {-1} /\ (h \in L => Hash[Name(t, h)] = b)
    BY <1>2, <1>3, <1>4 DEF First, Linked
  <2>3. h \in L
    BY <1>3, <2>2 DEF Linked
  <2> QED
    BY <2>1, <2>2, <2>3
<1>5. ASSUME \A x \in L : Name(t, x) # n PROVE w[h] = -1
  <2> DEFINE Bad == {rank[s] : s \in {s \in L : w[s] # -1}}
  <2>1. Bad = {}
    <3> SUFFICES ASSUME Bad # {} PROVE FALSE
      OBVIOUS
    <3>1. Bad \subseteq Nat
      BY <1>3
    <3>2. PICK r \in Bad : \A y \in Bad : r <= y
      BY <3>1, Least
    <3>3. PICK s \in L : w[s] # -1 /\ r = rank[s]
      BY <3>2
    <3> DEFINE m == Link(t, s)
    <3>4. First(t, L, rank, m, Hash[Name(t, s)], rank[s]) /\ w[s] = w[m]
      BY <1>1, <1>3, <1>5, <3>3 DEF Linked
    <3>5. rank[m] < rank[s] /\ m \in L \cup {-1}
      BY <3>4 DEF First
    <3>6. m \in L /\ rank[m] \in Bad
      BY <1>3, <3>3, <3>4, <3>5
    <3> QED
      BY <1>3, <3>2, <3>3, <3>5, <3>6
  <2>2. h \in L \cup {-1}
    BY <1>2 DEF First
  <2> QED
    BY <1>3, <2>1, <2>2
<1> QED
  BY <1>1, <1>4, <1>5

\* The same file in the table, apart from its place in the index.
SameFile(d, e) == d.name = e.name /\ d.owner = e.owner /\ d.acl = e.acl
SameFiles(u, t) == u.file_count = t.file_count /\ \A j \in Slots : SameFile(u.files[j], t.files[j])

\* A change of one link keeps an entry.
LEMMA Relinked ==
    ASSUME NEW e \in Entry, NEW m \in Slots \cup {-1}
    PROVE  LET d == [e EXCEPT !.hash_next = m] IN d \in Entry /\ SameFile(d, e) /\ d.hash_next = m
BY DEF Entry, SameFile

\* file_hash_insert puts a slot before the first one of its chain.
LEMMA InsertParts ==
    ASSUME NEW t \in Table, NEW i \in Slots, Name(t, i) \in Names
    PROVE  LET u == file_hash_insert(t, i) IN
           /\ u \in Table /\ SameFiles(u, t)
           /\ \A j \in Slots : Link(u, j) = IF j = i THEN Head(t, Hash[Name(t, i)]) ELSE Link(t, j)
           /\ \A b \in Buckets : Head(u, b) = IF b = Hash[Name(t, i)] THEN i ELSE Head(t, b)
<1> DEFINE b == Hash[Name(t, i)]
           m == t.file_buckets[b]
           d == [t.files[i] EXCEPT !.hash_next = m]
           F == [t.files EXCEPT ![i] = d]
           K == [t.file_buckets EXCEPT ![b] = i]
           u == file_hash_insert(t, i)
<1>1. /\ t = [files |-> t.files, file_count |-> t.file_count, file_buckets |-> t.file_buckets]
      /\ t.files \in [Slots -> Entry] /\ t.file_count \in 0..MaxFiles
      /\ t.file_buckets \in [Buckets -> Slots \cup {-1}]
      /\ t.files[i] \in Entry /\ b \in Buckets /\ m \in Slots \cup {-1}
  BY TableParts
<1>2. d \in Entry /\ SameFile(d, t.files[i]) /\ d.hash_next = m
  BY <1>1, Relinked
<1>3. u = [t EXCEPT !.files = F, !.file_buckets = K]
  BY <1>1 DEF file_hash_insert, Name
<1> HIDE DEF d, m, b
<1>4. F \in [Slots -> Entry] /\ F[i] = d /\ \A j \in Slots \ {i} : F[j] = t.files[j]
  BY <1>1, <1>2
<1>5. /\ K \in [Buckets -> Slots \cup {-1}]
      /\ \A c \in Buckets : K[c] = IF c = b THEN i ELSE t.file_buckets[c]
  BY <1>1
<1> HIDE DEF F, K, u
<1>6. u = [files |-> F, file_count |-> t.file_count, file_buckets |-> K]
  BY <1>1, <1>3
<1>7. u \in Table /\ u.files = F /\ u.file_count = t.file_count /\ u.file_buckets = K
  BY <1>1, <1>4, <1>5, <1>6 DEF Table
<1>8. SameFiles(u, t)
  BY <1>2, <1>4, <1>7 DEF SameFiles, SameFile
<1>9. \A j \in Slots : Link(u, j) = IF j = i THEN m ELSE Link(t, j)
  BY <1>2, <1>4, <1>7 DEF Link
<1>10. \A c \in Buckets : Head(u, c) = IF c = b THEN i ELSE Head(t, c)
  BY <1>5, <1>7 DEF Head
<1> QED
  BY <1>7, <1>8, <1>9, <1>10 DEF u, m, b, Head

\* A slot that is entered is the highest of its chain.
LEMMA InsertLinked ==
    ASSUME NEW t \in Table, NEW L, L \subseteq Slots, NEW rank, NEW top, Linked(t, L, rank, top),
           NEW i \in Slots \ L, Name(t, i) \in Names
    PROVE  \E r, s : Linked(file_hash_insert(t, i), L \cup {i}, r, s)
<1> DEFINE u == file_hash_insert(t, i)
           M == L \cup {i}
           r == [rank EXCEPT ![i] = top + 1]
           s == top + 2
<1>1. /\ u \in Table /\ \A j \in Slots : Name(u, j) = Name(t, j)
      /\ \A j \in Slots : Link(u, j) = IF j = i THEN Head(t, Hash[Name(t, i)]) ELSE Link(t, j)
      /\ \A b \in Buckets : Head(u, b) = IF b = Hash[Name(t, i)] THEN i ELSE Head(t, b)
  BY InsertParts DEF SameFiles, SameFile, Name
<1>2. /\ rank \in [Slots \cup {-1} -> Nat] /\ top \in Nat /\ rank[-1] = 0
      /\ \A j \in L : Name(t, j) \in Names /\ rank[j] > 0 /\ rank[j] < top /\ rank[j] \in Nat
      /\ \A j, k \in L : rank[j] = rank[k] => j = k
  BY DEF Linked
<1>3. -1 \notin Slots /\ \A j \in Slots : Name(t, j) \in Names => Hash[Name(t, j)] \in Buckets
  BY TableParts DEF Buckets, Slots
<1>4. /\ r \in [Slots \cup {-1} -> Nat] /\ s \in Nat /\ r[-1] = 0 /\ r[i] = top + 1
      /\ \A j \in L : r[j] = rank[j]
  BY <1>2, <1>3
<1> HIDE DEF u, r, s
<1>5. \A j \in M : Name(u, j) \in Names /\ r[j] > 0 /\ r[j] < s /\ r[j] \in Nat
  BY <1>1, <1>2, <1>4 DEF s
<1>6. \A j, k \in M : r[j] = r[k] => j = k
  BY <1>2, <1>4
<1>7. ASSUME NEW m, NEW b, NEW x \in Nat, NEW y \in Nat, x <= top, First(t, L, rank, m, b, x),
             y <= top + 1, \A j \in L : rank[j] < y => rank[j] < x, x <= y
      PROVE  First(u, M, r, m, b, y)
  <2>1. m \in L \cup {-1} /\ r[m] = rank[m] /\ rank[m] < x /\ m # i
    BY <1>2, <1>3, <1>4, <1>7 DEF First
  <2>2. m \in L => Hash[Name(u, m)] = b
    BY <1>1, <1>7 DEF First
  <2>3. \A j \in M : Hash[Name(u, j)] = b /\ r[j] < y => r[j] <= r[m]
    BY <1>1, <1>2, <1>4, <1>7, <2>1 DEF First
  <2>4. m \in M \cup {-1} /\ r[m] < y /\ (m \in M => Hash[Name(u, m)] = b)
    BY <1>2, <1>7, <2>1, <2>2
  <2> QED
    BY <2>3, <2>4 DEF First
<1>8. ASSUME NEW j \in M PROVE First(u, M, r, Link(u, j), Hash[Name(u, j)], r[j])
  <2>1. CASE j = i
    <3>1. First(t, L, rank, Head(t, Hash[Name(t, i)]), Hash[Name(t, i)], top)
      BY <1>3 DEF Linked
    <3>2. First(u, M, r, Head(t, Hash[Name(t, i)]), Hash[Name(t, i)], top + 1)
      BY <1>2, <1>7, <3>1
    <3> QED
      BY <1>1, <1>4, <2>1, <3>2
  <2>2. CASE j # i
    <3>1. First(t, L, rank, Link(t, j), Hash[Name(t, j)], rank[j]) /\ j \in L
      BY <2>2 DEF Linked
    <3>2. First(u, M, r, Link(t, j), Hash[Name(t, j)], rank[j])
      BY <1>2, <1>7, <3>1
    <3> QED
      BY <1>1, <1>4, <2>2, <3>1, <3>2
  <2> QED
    BY <2>1, <2>2
<1>9. ASSUME NEW b \in Buckets PROVE First(u, M, r, Head(u, b), b, s)
  <2>1. CASE b = Hash[Name(t, i)]
    <3>1. Head(u, b) = i /\ r[i] < s
      BY <1>1, <1>5, <2>1
    <3>2. \A j \in M : r[j] <= r[i]
      BY <1>2, <1>4
    <3> QED
      BY <1>1, <2>1, <3>1, <3>2 DEF First
  <2>2. CASE b # Hash[Name(t, i)]
    <3>1. First(t, L, rank, Head(t, b), b, top) /\ Head(u, b) = Head(t, b)
      BY <1>1, <2>2 DEF Linked
    <3>2. First(u, M, r, Head(t, b), b, top)
      BY <1>2, <1>7, <3>1
    <3>3. r[Head(t, b)] < s /\ \A j \in M : Hash[Name(u, j)] = b => r[j] < top
      <4>1. Head(t, b) \in L \cup {-1}
        BY <3>1 DEF First
      <4>2. \A j \in M : Hash[Name(u, j)] = b => j \in L
        BY <1>1, <2>2
      <4> QED
        BY <1>2, <1>4, <4>1, <4>2 DEF s
    <3> QED
      BY <3>1, <3>2, <3>3 DEF First
  <2> QED
    BY <2>1, <2>2
<1>10. Linked(u, M, r, s)
  BY <1>4, <1>5, <1>6, <1>8, <1>9 DEF Linked
<1> QED
  BY <1>10 DEF u

\* The search for the link that leads to a slot follows the links too.
LEMMA RemoveWalks ==
    ASSUME NEW t \in Table, NEW i \in Slots
    PROVE  \E w : /\ \A s \in Slots \cup {-1} :
                        w[s] = IF s < 0 \/ Link(t, s) = i THEN s ELSE w[Link(t, s)]
                  /\ LET b == Hash[Name(t, i)]
                         h == Head(t, b)
                     IN  file_hash_remove(t, i) =
                           IF h = i THEN [t EXCEPT !.file_buckets[b] = Link(t, i)]
                           ELSE IF w[h] < 0 THEN t
                           ELSE [t EXCEPT !.files[w[h]].hash_next = Link(t, i)]
<1> DEFINE D == Slots \cup {-1}
           End == {s \in D : s < 0 \/ t.files[s].hash_next = i}
           link == [s \in Slots |-> t.files[s].hash_next]
           before == CHOOSE w : w = [s \in Slots \cup {-1} |->
                       IF s < 0 \/ t.files[s].hash_next = i THEN s ELSE w[t.files[s].hash_next]]
<1>1. \A s \in D \ End : s \in Slots /\ link[s] \in D /\ link[s] = t.files[s].hash_next
  BY TableParts
<1>2. PICK w : Walk(w, D, End, link)
  <2>1. End \subseteq D
    OBVIOUS
  <2>2. \A s \in D \ End : link[s] \in D
    BY <1>1
  <2> HIDE DEF D, End, link
  <2> QED
    BY <2>1, <2>2, WalkExists
<1>3. w = [s \in D |-> IF s < 0 \/ t.files[s].hash_next = i THEN s ELSE w[t.files[s].hash_next]]
  <2>1. \A s \in D : (IF s \in End THEN s ELSE w[link[s]]) =
                     IF s < 0 \/ t.files[s].hash_next = i THEN s ELSE w[t.files[s].hash_next]
    BY <1>1
  <2> QED
    BY <1>2, <2>1 DEF Walk
<1>4. before = [s \in D |-> IF s < 0 \/ t.files[s].hash_next = i THEN s ELSE before[t.files[s].hash_next]]
  BY <1>3
<1>5. LET b == Hash[t.files[i].name]
          h == t.file_buckets[b]
      IN  file_hash_remove(t, i) =
            IF h = i THEN [t EXCEPT !.file_buckets[b] = t.files[i].hash_next]
            ELSE IF before[h] < 0 THEN t
            ELSE [t EXCEPT !.files[before[h]].hash_next = t.files[i].hash_next]
  BY DEF file_hash_remove
<1> HIDE DEF before
<1> QED
  BY <1>4, <1>5 DEF Name, Link, Head

\* The slot before one that is not the first of its chain is found.
LEMMA BeforeFound ==
    ASSUME NEW t \in Table, NEW L, L \subseteq Slots, NEW rank, NEW top, Linked(t, L, rank, top),
           NEW i \in L, NEW w, Head(t, Hash[Name(t, i)]) # i,
           \A s \in Slots \cup {-1} : w[s] = IF s < 0 \/ Link(t, s) = i THEN s ELSE w[Link(t, s)]
    PROVE  LET p == w[Head(t, Hash[Name(t, i)])] IN
           p \in L /\ Link(t, p) = i /\ Hash[Name(t, p)] = Hash[Name(t, i)]
<1> DEFINE b == Hash[Name(t, i)]
           h == Head(t, b)
           Good(s) == w[s] \in L /\ Link(t, w[s]) = i /\ Hash[Name(t, w[s])] = b
           Bad == {rank[s] : s \in {s \in L : Hash[Name(t, s)] = b /\ rank[i] < rank[s] /\ ~Good(s)}}
<1>1. /\ \A j \in L : j \in Slots /\ j >= 0 /\ j \in Int /\ rank[j] \in Nat /\ rank[j] > 0
      /\ rank[-1] = 0 /\ top \in Nat /\ b \in Buckets
  BY TableParts DEF Linked
<1>2. Bad = {}
  <2> SUFFICES ASSUME Bad # {} PROVE FALSE
    OBVIOUS
  <2>1. Bad \subseteq Nat
    BY <1>1
  <2>2. PICK r \in Bad : \A y \in Bad : r <= y
    BY <2>1, Least
  <2>3. PICK s \in L : Hash[Name(t, s)] = b /\ rank[i] < rank[s] /\ ~Good(s) /\ r = rank[s]
    BY <2>2
  <2> DEFINE m == Link(t, s)
  <2>4. m # i /\ w[s] = w[m]
    <3>1. m = i => w[s] = s
      BY <1>1
    <3>2. m # i
      BY <2>3, <3>1
    <3> QED
      BY <1>1, <3>2
  <2>5. First(t, L, rank, m, b, rank[s])
    BY <2>3 DEF Linked
  <2>6. rank[i] <= rank[m] /\ rank[m] < rank[s] /\ m \in L \cup {-1} /\ (m \in L => Hash[Name(t, m)] = b)
    BY <1>1, <2>3, <2>5 DEF First
  <2>7. m \in L
    BY <1>1, <2>6
  <2>8. rank[i] # rank[m]
    BY <2>4, <2>7 DEF Linked
  <2>9. rank[m] \in Bad
    BY <1>1, <2>3, <2>4, <2>6, <2>7, <2>8
  <2> QED
    BY <1>1, <2>2, <2>3, <2>6, <2>7, <2>9
<1>3. First(t, L, rank, h, b, top) /\ rank[i] < top
  BY <1>1 DEF Linked
<1>4. rank[i] <= rank[h] /\ h \in L \cup {-1} /\ (h \in L => Hash[Name(t, h)] = b)
  BY <1>3 DEF First
<1>5. h \in L /\ rank[i] < rank[h]
  <2>1. h \in L
    BY <1>1, <1>4
  <2>2. rank[i] # rank[h]
    BY <2>1 DEF Linked
  <2> QED
    BY <1>1, <1>4, <2>1, <2>2
<1> QED
  BY <1>2, <1>4, <1>5

\* file_hash_remove lets the link that leads to a slot lead past it.
LEMMA RemoveParts ==
    ASSUME NEW t \in Table, NEW L, L \subseteq Slots, NEW rank, NEW top, Linked(t, L, rank, top),
           NEW i \in L
    PROVE  LET u == file_hash_remove(t, i)
               b == Hash[Name(t, i)]
           IN  /\ u \in Table /\ SameFiles(u, t)
               /\ \/ /\ Head(t, b) = i /\ \A j \in Slots : Link(u, j) = Link(t, j)
                     /\ \A c \in Buckets : Head(u, c) = IF c = b THEN Link(t, i) ELSE Head(t, c)
                  \/ /\ Head(t, b) # i /\ \A c \in Buckets : Head(u, c) = Head(t, c)
                     /\ \E p \in L : /\ Link(t, p) = i /\ Hash[Name(t, p)] = b
                                     /\ \A j \in Slots :
                                           Link(u, j) = IF j = p THEN Link(t, i) ELSE Link(t, j)
<1> DEFINE u == file_hash_remove(t, i)
           b == Hash[Name(t, i)]
           h == Head(t, b)
           m == Link(t, i)
<1>1. /\ t = [files |-> t.files, file_count |-> t.file_count, file_buckets |-> t.file_buckets]
      /\ t.files \in [Slots -> Entry] /\ t.file_count \in 0..MaxFiles
      /\ t.file_buckets \in [Buckets -> Slots \cup {-1}]
      /\ i \in Slots /\ b \in Buckets /\ m \in Slots \cup {-1}
  BY TableParts DEF Linked, Link
<1>2. PICK w : /\ \A s \in Slots \cup {-1} :
                     w[s] = IF s < 0 \/ Link(t, s) = i THEN s ELSE w[Link(t, s)]
               /\ u = IF h = i THEN [t EXCEPT !.file_buckets[b] = m]
                      ELSE IF w[h] < 0 THEN t
                      ELSE [t EXCEPT !.files[w[h]].hash_next = m]
  BY <1>1, RemoveWalks
<1> HIDE DEF u
<1>3. CASE h = i
  <2> DEFINE K == [t.file_buckets EXCEPT ![b] = m]
  <2>1. u = [files |-> t.files, file_count |-> t.file_count, file_buckets |-> K]
    BY <1>1, <1>2, <1>3
  <2>2. K \in [Buckets -> Slots \cup {-1}] /\ \A c \in Buckets : K[c] = IF c = b THEN m ELSE Head(t, c)
    BY <1>1 DEF Head
  <2> HIDE DEF K
  <2>3. u \in Table /\ u.files = t.files /\ u.file_count = t.file_count /\ u.file_buckets = K
    BY <1>1, <2>1, <2>2 DEF Table
  <2>4. SameFiles(u, t) /\ \A j \in Slots : Link(u, j) = Link(t, j)
    BY <2>3 DEF SameFiles, SameFile, Link
  <2>5. \A c \in Buckets : Head(u, c) = IF c = b THEN m ELSE Head(t, c)
    BY <2>2, <2>3 DEF Head
  <2> QED
    BY <1>3, <2>3, <2>4, <2>5 DEF u
<1>4. CASE h # i
  <2> DEFINE p == w[h]
             d == [t.files[p] EXCEPT !.hash_next = m]
             F == [t.files EXCEPT ![p] = d]
  <2>1. p \in L /\ Link(t, p) = i /\ Hash[Name(t, p)] = b
    BY <1>2, <1>4, BeforeFound
  <2>2. p \in Slots /\ ~(p < 0) /\ t.files[p] \in Entry
    BY <2>1, TableParts
  <2>3. d \in Entry /\ SameFile(d, t.files[p]) /\ d.hash_next = m
    BY <1>1, <2>2, Relinked
  <2>4. u = [t EXCEPT !.files[p].hash_next = m]
    BY <1>2, <1>4, <2>2
  <2> HIDE DEF p
  <2>5. u = [files |-> F, file_count |-> t.file_count, file_buckets |-> t.file_buckets]
    BY <1>1, <2>4
  <2>6. F \in [Slots -> Entry] /\ F[p] = d /\ \A j \in Slots \ {p} : F[j] = t.files[j]
    BY <1>1, <2>2, <2>3
  <2> HIDE DEF F, d
  <2>7. u \in Table /\ u.files = F /\ u.file_count = t.file_count /\ u.file_buckets = t.file_buckets
    BY <1>1, <2>5, <2>6 DEF Table
  <2>8. SameFiles(u, t)
    BY <2>3, <2>6, <2>7 DEF SameFiles, SameFile
  <2>9. \A j \in Slots : Link(u, j) = IF j = p THEN m ELSE Link(t, j)
    BY <2>3, <2>6, <2>7 DEF Link
  <2>10. \A c \in Buckets : Head(u, c) = Head(t, c)
    BY <2>7 DEF Head
  <2> QED
    BY <1>4, <2>1, <2>7, <2>8, <2>9, <2>10 DEF u
<1> QED
  BY <1>3, <1>4

\* The other slots stay linked.
LEMMA RemoveLinked ==
    ASSUME NEW t \in Table, NEW L, L \subseteq Slots, NEW rank, NEW top, Linked(t, L, rank, top),
           NEW i \in L
    PROVE  Linked(file_hash_remove(t, i), L \ {i}, rank, top)
<1> DEFINE u == file_hash_remove(t, i)
           b == Hash[Name(t, i)]
           M == L \ {i}
<1>1. /\ u \in Table /\ \A j \in Slots : Name(u, j) = Name(t, j)
      /\ \/ /\ Head(t, b) = i /\ \A j \in Slots : Link(u, j) = Link(t, j)
            /\ \A c \in Buckets : Head(u, c) = IF c = b THEN Link(t, i) ELSE Head(t, c)
         \/ /\ Head(t, b) # i /\ \A c \in Buckets : Head(u, c) = Head(t, c)
            /\ \E p \in L : /\ Link(t, p) = i /\ Hash[Name(t, p)] = b
                            /\ \A j \in Slots : Link(u, j) = IF j = p THEN Link(t, i) ELSE Link(t, j)
  BY RemoveParts DEF SameFiles, SameFile, Name
<1> HIDE DEF u
<1>2. /\ rank \in [Slots \cup {-1} -> Nat] /\ top \in Nat /\ rank[-1] = 0
      /\ \A j \in L : Name(t, j) \in Names /\ rank[j] > 0 /\ rank[j] < top /\ rank[j] \in Nat
      /\ \A j, k \in L : rank[j] = rank[k] => j = k
      /\ \A j \in L : First(t, L, rank, Link(t, j), Hash[Name(t, j)], rank[j])
      /\ \A c \in Buckets : First(t, L, rank, Head(t, c), c, top)
  BY DEF Linked
<1>3. -1 \notin Slots /\ b \in Buckets
  BY <1>2, TableParts DEF Buckets, Slots
\* Where the link does not lead to the slot, nothing changes.
<1>4. ASSUME NEW m, NEW c, NEW x \in Nat, First(t, L, rank, m, c, x), m # i
      PROVE  First(u, M, rank, m, c, x)
  BY <1>1, <1>4 DEF First
\* Where it does, the slot's own link takes its place.
<1>5. ASSUME NEW x \in Nat, First(t, L, rank, i, b, x) PROVE First(u, M, rank, Link(t, i), b, x)
  <2> DEFINE m == Link(t, i)
  <2>1. First(t, L, rank, m, b, rank[i]) /\ rank[i] < x
    BY <1>2, <1>5 DEF First
  <2>2. m \in L \cup {-1} /\ rank[m] < rank[i] /\ rank[m] \in Nat /\ rank[i] \in Nat
    BY <1>2, <1>3, <2>1 DEF First
  <2>3. m \in M \cup {-1} /\ rank[m] < x /\ (m \in M => Hash[Name(u, m)] = b)
    BY <1>1, <2>1, <2>2 DEF First
  <2>4. \A j \in M : Hash[Name(u, j)] = b /\ rank[j] < x => rank[j] <= rank[m]
    <3> SUFFICES ASSUME NEW j \in M, Hash[Name(u, j)] = b, rank[j] < x PROVE rank[j] <= rank[m]
      OBVIOUS
    <3>1. Hash[Name(t, j)] = b /\ rank[j] <= rank[i] /\ rank[j] # rank[i]
      BY <1>1, <1>2, <1>5 DEF First
    <3>2. rank[j] < rank[i]
      BY <1>2, <3>1
    <3> QED
      BY <2>1, <3>1, <3>2 DEF First
  <2> QED
    BY <2>3, <2>4 DEF First
<1>6. CASE Head(t, b) = i
  <2>1. ASSUME NEW j \in M PROVE Link(t, j) # i
    <3> SUFFICES ASSUME Link(t, j) = i PROVE FALSE
      OBVIOUS
    <3>1. rank[i] < rank[j] /\ Hash[Name(t, j)] = b
      BY <1>2 DEF First
    <3>2. rank[j] <= rank[i]
      BY <1>2, <1>3, <1>6, <3>1 DEF First
    <3> QED
      BY <1>2, <3>1, <3>2
  <2>2. ASSUME NEW j \in M PROVE First(u, M, rank, Link(u, j), Hash[Name(u, j)], rank[j])
    <3>1. Link(u, j) = Link(t, j) /\ Name(u, j) = Name(t, j)
      BY <1>1, <1>6
    <3>2. First(t, L, rank, Link(t, j), Hash[Name(t, j)], rank[j]) /\ rank[j] \in Nat
      BY <1>2
    <3> QED
      BY <1>4, <2>1, <3>1, <3>2
  <2>3. ASSUME NEW c \in Buckets PROVE First(u, M, rank, Head(u, c), c, top)
    <3>1. First(t, L, rank, Head(t, c), c, top)
      BY <1>2
    <3>2. CASE c = b
      BY <1>1, <1>2, <1>5, <1>6, <3>1, <3>2
    <3>3. CASE c # b
      <4>1. Head(t, c) # i
        BY <1>2, <3>1, <3>3 DEF First
      <4> QED
        BY <1>1, <1>2, <1>4, <1>6, <3>1, <3>3, <4>1
    <3> QED
      BY <3>2, <3>3
  <2> QED
    BY <1>1, <1>2, <2>2, <2>3 DEF Linked, u
<1>7. CASE Head(t, b) # i
  <2>1. PICK p \in L : /\ Link(t, p) = i /\ Hash[Name(t, p)] = b
                       /\ \A j \in Slots : Link(u, j) = IF j = p THEN Link(t, i) ELSE Link(t, j)
    BY <1>1, <1>7
  <2>2. First(t, L, rank, i, b, rank[p])
    BY <1>2, <2>1
  <2>3. rank[i] < rank[p]
    BY <2>2 DEF First
  <2>4. ASSUME NEW j \in M, j # p PROVE Link(t, j) # i
    <3> SUFFICES ASSUME Link(t, j) = i PROVE FALSE
      OBVIOUS
    <3>1. First(t, L, rank, i, b, rank[j]) /\ Hash[Name(t, j)] = b /\ rank[i] < rank[j]
      BY <1>2 DEF First
    <3>2. rank[j] < rank[p] => rank[j] <= rank[i]
      BY <2>2, <3>1 DEF First
    <3>3. rank[p] < rank[j] => rank[p] <= rank[i]
      BY <2>1, <3>1 DEF First
    <3>4. rank[p] # rank[j]
      BY <1>2, <2>4
    <3> QED
      BY <1>2, <2>3, <3>1, <3>2, <3>3, <3>4
  <2>5. ASSUME NEW j \in M PROVE First(u, M, rank, Link(u, j), Hash[Name(u, j)], rank[j])
    <3>1. Name(u, j) = Name(t, j) /\ rank[j] \in Nat
      BY <1>1, <1>2
    <3>2. CASE j = p
      BY <1>5, <2>1, <2>2, <3>1, <3>2
    <3>3. CASE j # p
      <4>1. First(t, L, rank, Link(t, j), Hash[Name(t, j)], rank[j]) /\ Link(u, j) = Link(t, j)
        BY <1>2, <2>1, <3>3
      <4> QED
        BY <1>4, <2>4, <3>1, <3>3, <4>1
    <3> QED
      BY <3>2, <3>3
  <2>6. ASSUME NEW c \in Buckets PROVE First(u, M, rank, Head(u, c), c, top)
    <3>1. First(t, L, rank, Head(t, c), c, top) /\ Head(u, c) = Head(t, c)
      BY <1>1, <1>2, <1>7
    <3>2. Head(t, c) # i
      <4>1. Head(t, c) = i => c = b
        BY <3>1 DEF First
      <4> QED
        BY <1>7, <4>1
    <3> QED
      BY <1>2, <1>4, <3>1, <3>2
  <2> QED
    BY <1>1, <1>2, <2>5, <2>6 DEF Linked, u
<1> QED
  BY <1>6, <1>7

(***************************************************************************)
(* Tables whose index has exactly the files in them.                       *)
(***************************************************************************)

Live(t) == 0..(t.file_count - 1)

Indexed(t) == /\ t \in Table
              /\ Distinct(t, Live(t))
              /\ \E rank, top : Linked(t, Live(t), rank, top)

\* The slots in use.
LEMMA LiveSlots ==
    ASSUME NEW t \in Table
    PROVE  /\ Live(t) \subseteq Slots /\ t.file_count \in Nat /\ t.file_count <= MaxFiles
           /\ \A i \in Live(t) : i \in Int /\ i >= 0 /\ i < t.file_count
           /\ \A i \in Slots : i < t.file_count => i \in Live(t)
<1>1. t.file_count \in 0..MaxFiles
  BY TableParts
<1> QED
  BY <1>1, TableAssumption DEF Live, Slots

\* What is in other slots does not matter.
LEMMA LinkedElsewhere ==
    ASSUME NEW t \in Table, NEW u \in Table, NEW L, L \subseteq Slots, NEW rank, NEW top,
           Linked(t, L, rank, top), u.file_buckets = t.file_buckets,
           \A j \in L : Name(u, j) = Name(t, j) /\ Link(u, j) = Link(t, j)
    PROVE  Linked(u, L, rank, top)
<1>1. ASSUME NEW m, NEW b, NEW x, First(t, L, rank, m, b, x) PROVE First(u, L, rank, m, b, x)
  BY <1>1 DEF First
<1>2. \A b \in Buckets : Head(u, b) = Head(t, b)
  BY DEF Head
<1> QED
  BY <1>1, <1>2 DEF Linked

\* What a search returns in such a table.
LEMMA FindFile ==
    ASSUME NEW t, Indexed(t), NEW n \in Names
    PROVE  LET i == find_file_index(t, n) IN
           /\ i \in Live(t) \cup {-1}
           /\ i \in Live(t) => Name(t, i) = n
           /\ i \notin Live(t) => \A x \in Live(t) : Name(t, x) # n
           /\ \A x \in Live(t) : Name(t, x) = n => i = x
           /\ i >= 0 <=> i \in Live(t)
           /\ i < 0 <=> i = -1
<1>1. t \in Table /\ Distinct(t, Live(t))
  BY DEF Indexed
<1>2. PICK rank, top : Linked(t, Live(t), rank, top)
  BY DEF Indexed
<1>3. /\ \A x \in Live(t) : Name(t, x) = n => find_file_index(t, n) = x
      /\ (\A x \in Live(t) : Name(t, x) # n) => find_file_index(t, n) = -1
  BY <1>1, <1>2, LiveSlots, Found
<1> QED
  BY <1>1, <1>3, LiveSlots

\* The rights of the users on an entry.
EntryRights(e) == [e.acl EXCEPT ![e.owner] = Perm("W")]

\* The rights on a name are those of the entry with this name.
LEMMA RightsFound ==
    ASSUME NEW t, Indexed(t), NEW n \in Names
    PROVE  /\ \A x \in Live(t) : Name(t, x) = n => RightsOn(t, n) = EntryRights(t.files[x])
           /\ (\A x \in Live(t) : Name(t, x) # n) => RightsOn(t, n) = NoRights
<1> DEFINE i == find_file_index(t, n)
<1>1. /\ RightsOn(t, n) = IF i < 0 THEN NoRights ELSE EntryRights(t.files[i])
  BY DEF RightsOn, EntryRights
<1>2. /\ i \in Live(t) \cup {-1} /\ (i < 0 <=> i = -1) /\ -1 \notin Live(t)
      /\ i \in Live(t) => Name(t, i) = n
      /\ \A x \in Live(t) : Name(t, x) = n => i = x
  BY FindFile, LiveSlots DEF Indexed
<1> HIDE DEF i
<1> QED
  BY <1>1, <1>2

\* The file with a name, and that two tables have the same file under it.
Has(t, n) == find_file_index(t, n) >= 0
FileAt(t, n) == FileOf(t.files[find_file_index(t, n)])
SameOn(u, t, n) == (Has(u, n) <=> Has(t, n)) /\ (Has(t, n) => FileAt(u, n) = FileAt(t, n))

\* The file with a name is the one in the slot with this name.
LEMMA FileFound ==
    ASSUME NEW t, Indexed(t), NEW n \in Names
    PROVE  /\ \A x \in Live(t) : Name(t, x) = n => Has(t, n) /\ FileAt(t, n) = FileOf(t.files[x])
           /\ (\A x \in Live(t) : Name(t, x) # n) => ~Has(t, n)
           /\ Has(t, n) => \E x \in Live(t) : Name(t, x) = n
<1> DEFINE i == find_file_index(t, n)
<1>1. (Has(t, n) <=> i >= 0) /\ FileAt(t, n) = FileOf(t.files[i])
  BY DEF Has, FileAt
<1>2. /\ i \in Live(t) \cup {-1} /\ (i >= 0 <=> i \in Live(t))
      /\ i \in Live(t) => Name(t, i) = n
      /\ \A x \in Live(t) : Name(t, x) = n => i = x
  BY FindFile
<1> HIDE DEF i
<1> QED
  BY <1>1, <1>2

\* Tables with the same file under a name give the same rights on it.
LEMMA RightsSame ==
    ASSUME NEW t, NEW u, Indexed(t), Indexed(u), NEW n \in Names,
           \A x \in Live(t) : Name(t, x) = n => \E y \in Live(u) : SameFile(u.files[y], t.files[x]),
           \A y \in Live(u) : Name(u, y) = n => \E x \in Live(t) : Name(t, x) = n
    PROVE  RightsOn(u, n) = RightsOn(t, n) /\ SameOn(u, t, n)
<1>1. CASE \E x \in Live(t) : Name(t, x) = n
  <2>1. PICK x \in Live(t) : Name(t, x) = n
    BY <1>1
  <2>2. PICK y \in Live(u) : SameFile(u.files[y], t.files[x])
    BY <2>1
  <2>3. /\ Name(u, y) = n /\ EntryRights(u.files[y]) = EntryRights(t.files[x])
        /\ FileOf(u.files[y]) = FileOf(t.files[x])
    BY <2>1, <2>2 DEF SameFile, Name, EntryRights, FileOf
  <2>4. RightsOn(u, n) = RightsOn(t, n)
    BY <2>1, <2>3, RightsFound
  <2>5. SameOn(u, t, n)
    BY <2>1, <2>3, FileFound DEF SameOn
  <2> QED
    BY <2>4, <2>5
<1>2. CASE \A x \in Live(t) : Name(t, x) # n
  <2>1. \A y \in Live(u) : Name(u, y) # n
    BY <1>2
  <2>2. RightsOn(u, n) = RightsOn(t, n)
    BY <1>2, <2>1, RightsFound
  <2>3. SameOn(u, t, n)
    BY <1>2, <2>1, FileFound DEF SameOn
  <2> QED
    BY <2>2, <2>3
<1> QED
  BY <1>1, <1>2

Put(t, i, e, c) == [t EXCEPT !.files[i] = e, !.file_count = c]

\* An entry in one slot is replaced.
LEMMA PutParts ==
    ASSUME NEW t \in Table, NEW i \in Slots, NEW e \in Entry, NEW c \in 0..MaxFiles, NEW u,
           u = Put(t, i, e, c)
    PROVE  /\ u \in Table /\ u.file_count = c /\ u.file_buckets = t.file_buckets
           /\ u.files[i] = e /\ \A j \in Slots \ {i} : u.files[j] = t.files[j]
<1> DEFINE F == [t.files EXCEPT ![i] = e]
<1>1. /\ t = [files |-> t.files, file_count |-> t.file_count, file_buckets |-> t.file_buckets]
      /\ t.files \in [Slots -> Entry] /\ t.file_buckets \in [Buckets -> Slots \cup {-1}]
  BY TableParts
<1>2. u = [files |-> F, file_count |-> c, file_buckets |-> t.file_buckets]
  <2>1. u = [t EXCEPT !.files = F, !.file_count = c]
    BY <1>1 DEF Put
  <2> HIDE DEF F
  <2> QED
    BY <1>1, <2>1
<1>3. F \in [Slots -> Entry] /\ F[i] = e /\ \A j \in Slots \ {i} : F[j] = t.files[j]
  BY <1>1
<1> HIDE DEF F
<1>4. u \in Table /\ u.files = F /\ u.file_count = c /\ u.file_buckets = t.file_buckets
  BY <1>1, <1>2, <1>3 DEF Table
<1> QED
  BY <1>3, <1>4

\* The same, without a change of the count.
LEMMA PutOnly ==
    ASSUME NEW t \in Table, NEW i \in Slots, NEW e \in Entry
    PROVE  [t EXCEPT !.files[i] = e] = Put(t, i, e, t.file_count)
<1> DEFINE F == [t.files EXCEPT ![i] = e]
<1>1. t = [files |-> t.files, file_count |-> t.file_count, file_buckets |-> t.file_buckets]
  BY TableParts
<1>2. /\ [t EXCEPT !.files[i] = e] = [t EXCEPT !.files = F]
      /\ Put(t, i, e, t.file_count) = [t EXCEPT !.files = F, !.file_count = t.file_count]
  BY <1>1 DEF Put
<1> HIDE DEF F
<1> QED
  BY <1>1, <1>2

\* An empty slot, and a slot as it is left behind.
LEMMA BlankType ==
    /\ Blank \in Entry /\ Blank.name = None /\ Blank.acl = NoRights /\ NoRights \in [Users -> {{}} \cup Perms]
    /\ \A n \in Names, u \in Users :
          LET e == [Blank EXCEPT !.name = n, !.owner = u] IN
          e \in Entry /\ e.name = n /\ e.owner = u /\ e.acl = NoRights
    /\ \A d \in Entry : [Blank EXCEPT !.acl = d.acl] \in Entry
<1>1. NoRights \in [Users -> {{}} \cup Perms]
  BY DEF NoRights
<1>2. 0 \in Slots
  BY TableAssumption DEF Slots
<1> QED
  BY <1>1, <1>2 DEF Blank, Entry

\* nm_add_file enters a file that only its owner has rights on.
LEMMA AddFile ==
    ASSUME NEW t, Indexed(t), t.file_count < MaxFiles, NEW n \in Names, NEW o \in Users,
           find_file_index(t, n) < 0
    PROVE  LET u == nm_add_file(t, n, o) IN
           /\ Indexed(u)
           /\ \A m \in Names \ {n} : RightsOn(u, m) = RightsOn(t, m) /\ SameOn(u, t, m)
           /\ RightsOn(t, n) = NoRights /\ RightsOn(u, n) = [NoRights EXCEPT ![o] = Perm("W")]
           /\ Has(u, n) /\ FileAt(u, n) = [owner |-> o, acl |-> NoRights]
<1> DEFINE i == t.file_count
           e == [Blank EXCEPT !.name = n, !.owner = o]
           v == [t EXCEPT !.files[i] = e, !.file_count = @ + 1]
           u == nm_add_file(t, n, o)
           L == Live(t)
<1>1. t \in Table /\ Distinct(t, L) /\ L \subseteq Slots /\ i \in Slots \ L /\ i + 1 \in 0..MaxFiles
      /\ L \cup {i} = 0..i
  <2>1. t \in Table /\ Distinct(t, L) /\ L \subseteq Slots /\ i \in Nat
    BY LiveSlots DEF Indexed
  <2> QED
    BY <2>1, TableAssumption DEF Live, Slots
<1>2. PICK rank, top : Linked(t, L, rank, top)
  BY DEF Indexed
<1>3. e \in Entry /\ e.name = n /\ e.owner = o /\ e.acl = NoRights
  BY BlankType
<1>4. \A x \in L : Name(t, x) # n
  BY FindFile
<1> HIDE DEF e
<1>5. /\ v \in Table /\ v.file_count = i + 1 /\ v.file_buckets = t.file_buckets
      /\ v.files[i] = e /\ \A j \in Slots \ {i} : v.files[j] = t.files[j]
  <2>1. v = Put(t, i, e, i + 1)
    <3>1. t = [files |-> t.files, file_count |-> t.file_count, file_buckets |-> t.file_buckets]
      BY <1>1, TableParts
    <3> QED
      BY <3>1 DEF Put
  <2> HIDE DEF v
  <2> QED
    BY <1>1, <1>3, <2>1, PutParts
<1>6. u = file_hash_insert(v, i)
  BY DEF nm_add_file, e
<1> HIDE DEF v, u
<1>7. Linked(v, L, rank, top) /\ Name(v, i) = n
  <2>1. \A j \in L : Name(v, j) = Name(t, j) /\ Link(v, j) = Link(t, j)
    BY <1>1, <1>5 DEF Name, Link
  <2> QED
    BY <1>1, <1>2, <1>3, <1>5, <2>1, LinkedElsewhere DEF Name
<1>8. u \in Table /\ u.file_count = i + 1 /\ \A j \in Slots : SameFile(u.files[j], v.files[j])
  BY <1>1, <1>5, <1>6, <1>7, InsertParts DEF SameFiles
<1>9. Live(u) = L \cup {i}
  BY <1>1, <1>8, LiveSlots DEF Live
<1>10. \E r, s : Linked(u, Live(u), r, s)
  <2>1. \E r, s : Linked(file_hash_insert(v, i), L \cup {i}, r, s)
    BY <1>1, <1>5, <1>7, InsertLinked
  <2> QED
    BY <1>6, <1>9, <2>1
<1>11. /\ \A j \in L : SameFile(u.files[j], t.files[j]) /\ Name(u, j) = Name(t, j)
       /\ Name(u, i) = n /\ u.files[i].owner = o /\ u.files[i].acl = NoRights
  BY <1>1, <1>3, <1>5, <1>8 DEF SameFile, Name
<1>12. Indexed(u)
  BY <1>1, <1>4, <1>8, <1>9, <1>10, <1>11 DEF Indexed, Distinct
<1>13. ASSUME NEW m \in Names \ {n} PROVE RightsOn(u, m) = RightsOn(t, m) /\ SameOn(u, t, m)
  BY <1>9, <1>11, <1>12, RightsSame
<1>14. RightsOn(u, n) = EntryRights(u.files[i])
  BY <1>9, <1>11, <1>12, RightsFound
<1>15. RightsOn(t, n) = NoRights
  BY <1>4, RightsFound
<1>16. Has(u, n) /\ FileAt(u, n) = FileOf(u.files[i])
  BY <1>9, <1>11, <1>12, FileFound
<1> QED
  BY <1>11, <1>12, <1>13, <1>14, <1>15, <1>16 DEF u, EntryRights, FileOf

\* nm_remove_file takes a file and its rights away, and no other, although
\* another file moves.
LEMMA RemoveFile ==
    ASSUME NEW t, Indexed(t), NEW n \in Names
    PROVE  LET u == nm_remove_file(t, n) IN
           /\ Indexed(u)
           /\ \A m \in Names \ {n} : RightsOn(u, m) = RightsOn(t, m) /\ SameOn(u, t, m)
           /\ RightsOn(u, n) = NoRights /\ ~Has(u, n)
<1> DEFINE i == find_file_index(t, n)
           last == t.file_count - 1
           unlinked == file_hash_remove(t, i)
           both == file_hash_remove(unlinked, last)
           placed == [both EXCEPT !.files[i] = both.files[last]]
           moved == IF i = last THEN unlinked ELSE file_hash_insert(placed, i)
           left == [Blank EXCEPT !.acl = t.files[last].acl]
           u == nm_remove_file(t, n)
           L == Live(t)
           M == L \ {last}
<1>1. u = IF i < 0 THEN t ELSE [moved EXCEPT !.file_count = last, !.files[last] = left]
  BY DEF nm_remove_file
<1>2. t \in Table /\ Distinct(t, L) /\ L \subseteq Slots
  BY LiveSlots DEF Indexed
<1>3. PICK rank, top : Linked(t, L, rank, top)
  BY DEF Indexed
<1>4. /\ i \in L \cup {-1} /\ (i \in L => Name(t, i) = n) /\ (i < 0 <=> i = -1)
      /\ \A x \in L : Name(t, x) = n => i = x
  BY FindFile
<1> HIDE DEF i
<1>5. CASE i < 0
  <2>1. u = t /\ \A x \in L : Name(t, x) # n
    BY <1>1, <1>2, <1>4, <1>5, LiveSlots
  <2> QED
    BY <2>1, RightsFound, FileFound DEF SameOn
<1>6. CASE ~(i < 0)
  <2>1. i \in L /\ last \in L /\ last \in Slots /\ last \in 0..MaxFiles /\ M = 0..(last - 1) /\ i \in Slots
    <3>1. t.file_count \in Nat /\ i \in 0..(t.file_count - 1) /\ t.file_count <= MaxFiles
      BY <1>2, <1>4, <1>6, LiveSlots DEF Live
    <3>2. last \in L /\ last \in 0..MaxFiles /\ M = 0..(last - 1)
      BY <3>1, TableAssumption DEF Live
    <3> QED
      BY <1>2, <1>4, <1>6, <3>2
  <2>2. left \in Entry
    BY <1>2, <2>1, BlankType, TableParts
  <2>3. unlinked \in Table /\ SameFiles(unlinked, t) /\ Linked(unlinked, L \ {i}, rank, top)
    BY <1>2, <1>3, <2>1, RemoveParts, RemoveLinked
  <2>4. u = [moved EXCEPT !.file_count = last, !.files[last] = left]
    BY <1>1, <1>6
  <2> HIDE DEF last, left, unlinked, both, placed, moved, u
  <2>5. /\ moved \in Table /\ (\E r, s : Linked(moved, M, r, s))
        /\ \A j \in M \ {i} : SameFile(moved.files[j], t.files[j])
        /\ i # last => SameFile(moved.files[i], t.files[last])
    <3>1. CASE i = last
      BY <1>2, <2>3, <3>1 DEF moved, SameFiles
    <3>2. CASE i # last
      <4>1. L \ {i} \subseteq Slots /\ last \in L \ {i}
        BY <1>2, <2>1, <3>2
      <4>2. both \in Table /\ SameFiles(both, unlinked) /\ Linked(both, (L \ {i}) \ {last}, rank, top)
        BY <2>3, <4>1, RemoveParts, RemoveLinked DEF both
      <4>3. both.files[last] \in Entry /\ both.file_count \in 0..MaxFiles
        BY <2>1, <4>2, TableParts
      <4>4. placed = Put(both, i, both.files[last], both.file_count)
        BY <2>1, <4>2, <4>3, PutOnly DEF placed
      <4>5. /\ placed \in Table /\ placed.file_buckets = both.file_buckets
            /\ placed.files[i] = both.files[last]
            /\ \A j \in Slots \ {i} : placed.files[j] = both.files[j]
        BY <2>1, <4>2, <4>3, <4>4, PutParts
      <4>6. Linked(placed, (L \ {i}) \ {last}, rank, top)
        <5>1. \A j \in (L \ {i}) \ {last} : Name(placed, j) = Name(both, j) /\ Link(placed, j) = Link(both, j)
          BY <1>2, <4>5 DEF Name, Link
        <5> QED
          BY <1>2, <4>2, <4>5, <5>1, LinkedElsewhere
      <4>7. SameFile(placed.files[i], t.files[last]) /\ Name(placed, i) = Name(t, last) /\ Name(t, last) \in Names
        BY <1>3, <2>1, <2>3, <4>2, <4>5 DEF SameFiles, SameFile, Name, Linked
      <4>8. \A j \in M \ {i} : SameFile(placed.files[j], t.files[j])
        BY <1>2, <2>3, <4>2, <4>5 DEF SameFiles, SameFile
      <4>9. moved = file_hash_insert(placed, i) /\ M = ((L \ {i}) \ {last}) \cup {i}
        BY <2>1, <3>2 DEF moved
      <4>10. \E r, s : Linked(file_hash_insert(placed, i), ((L \ {i}) \ {last}) \cup {i}, r, s)
        BY <1>2, <2>1, <4>5, <4>6, <4>7, InsertLinked
      <4>11. moved \in Table /\ SameFiles(moved, placed)
        BY <2>1, <4>5, <4>7, <4>9, InsertParts
      <4> QED
        BY <1>2, <2>1, <4>7, <4>8, <4>9, <4>10, <4>11 DEF SameFiles, SameFile
    <3> QED
      BY <3>1, <3>2
  <2>6. u = Put(moved, last, left, last)
    <3> DEFINE F == [moved.files EXCEPT ![last] = left]
    <3>1. moved = [files |-> moved.files, file_count |-> moved.file_count,
                   file_buckets |-> moved.file_buckets]
      BY <2>5, TableParts
    <3>2. /\ u = [moved EXCEPT !.file_count = last, !.files = F]
          /\ Put(moved, last, left, last) = [moved EXCEPT !.files = F, !.file_count = last]
      BY <2>4, <3>1 DEF Put
    <3> HIDE DEF F
    <3> QED
      BY <3>1, <3>2
  <2>7. /\ u \in Table /\ u.file_count = last /\ u.file_buckets = moved.file_buckets
        /\ \A j \in Slots \ {last} : u.files[j] = moved.files[j]
    BY <2>1, <2>2, <2>5, <2>6, PutParts
  <2>8. Live(u) = M
    BY <2>1, <2>7 DEF Live
  <2>9. \E r, s : Linked(u, M, r, s)
    <3>1. PICK r, s : Linked(moved, M, r, s)
      BY <2>5
    <3>2. \A j \in M : Name(u, j) = Name(moved, j) /\ Link(u, j) = Link(moved, j)
      BY <1>2, <2>7 DEF Name, Link
    <3>3. Linked(u, M, r, s)
      BY <1>2, <2>5, <2>7, <3>1, <3>2, LinkedElsewhere
    <3> QED
      BY <3>3
  <2>10. /\ \A j \in M \ {i} : SameFile(u.files[j], t.files[j]) /\ Name(u, j) = Name(t, j)
         /\ i # last => SameFile(u.files[i], t.files[last]) /\ Name(u, i) = Name(t, last)
    BY <1>2, <2>1, <2>5, <2>7 DEF SameFile, Name
  <2>11. Distinct(u, M)
    BY <1>2, <2>1, <2>10 DEF Distinct
  <2>12. Indexed(u)
    BY <2>7, <2>8, <2>9, <2>11 DEF Indexed
  <2>13. ASSUME NEW m \in Names \ {n} PROVE RightsOn(u, m) = RightsOn(t, m) /\ SameOn(u, t, m)
    <3>1. ASSUME NEW x \in L, Name(t, x) = m PROVE \E y \in M : SameFile(u.files[y], t.files[x])
      BY <1>4, <2>1, <2>10, <3>1
    <3>2. ASSUME NEW y \in M, Name(u, y) = m PROVE \E x \in L : Name(t, x) = m
      BY <2>1, <2>10, <3>2
    <3> QED
      BY <2>8, <2>12, <3>1, <3>2, RightsSame
  <2>14. \A y \in M : Name(u, y) # n
    BY <1>4, <2>1, <2>10
  <2>15. RightsOn(u, n) = NoRights /\ ~Has(u, n)
    BY <2>8, <2>12, <2>14, RightsFound, FileFound
  <2> QED
    BY <2>12, <2>13, <2>15 DEF u
<1> QED
  BY <1>5, <1>6

\* The owner and the rights of one entry are replaced.
LEMMA SetEntry ==
    ASSUME NEW t, Indexed(t), NEW n \in Names, NEW i \in Live(t), Name(t, i) = n, NEW e \in Entry,
           e.name = n, e.hash_next = Link(t, i), NEW u, u = Put(t, i, e, t.file_count)
    PROVE  /\ Indexed(u)
           /\ \A m \in Names \ {n} : RightsOn(u, m) = RightsOn(t, m) /\ SameOn(u, t, m)
           /\ RightsOn(t, n) = EntryRights(t.files[i]) /\ RightsOn(u, n) = EntryRights(e)
           /\ Has(t, n) /\ FileAt(t, n) = FileOf(t.files[i])
           /\ Has(u, n) /\ FileAt(u, n) = FileOf(e)
<1>1. t \in Table /\ Distinct(t, Live(t)) /\ Live(t) \subseteq Slots /\ i \in Slots
      /\ t.file_count \in 0..MaxFiles
  BY LiveSlots, TableParts DEF Indexed
<1>2. /\ u \in Table /\ u.file_count = t.file_count /\ u.file_buckets = t.file_buckets
      /\ u.files[i] = e /\ \A j \in Slots \ {i} : u.files[j] = t.files[j]
  BY <1>1, PutParts
<1>3. Live(u) = Live(t)
  BY <1>2 DEF Live
<1>4. \A j \in Live(t) : Name(u, j) = Name(t, j) /\ Link(u, j) = Link(t, j)
  BY <1>1, <1>2 DEF Name, Link
<1>5. Indexed(u)
  <2>1. PICK rank, top : Linked(t, Live(t), rank, top)
    BY DEF Indexed
  <2>2. Linked(u, Live(u), rank, top)
    BY <1>1, <1>2, <1>3, <1>4, <2>1, LinkedElsewhere
  <2>3. Distinct(u, Live(u))
    BY <1>1, <1>3, <1>4 DEF Distinct
  <2> QED
    BY <1>2, <2>2, <2>3 DEF Indexed
<1>6. ASSUME NEW m \in Names \ {n} PROVE RightsOn(u, m) = RightsOn(t, m) /\ SameOn(u, t, m)
  <2>1. \A x \in Live(t) : Name(t, x) = m => x \in Live(u) /\ SameFile(u.files[x], t.files[x])
    BY <1>1, <1>2, <1>3 DEF SameFile
  <2>2. \A y \in Live(u) : Name(u, y) = m => y \in Live(t) /\ Name(t, y) = m
    BY <1>3, <1>4
  <2>3. m \in Names
    OBVIOUS
  <2> QED
    BY <1>5, <2>1, <2>2, <2>3, RightsSame
<1>7. RightsOn(u, n) = EntryRights(e) /\ RightsOn(t, n) = EntryRights(t.files[i])
  BY <1>2, <1>3, <1>4, <1>5, RightsFound
<1>8. /\ Has(t, n) /\ FileAt(t, n) = FileOf(t.files[i])
      /\ Has(u, n) /\ FileAt(u, n) = FileOf(e)
  BY <1>2, <1>3, <1>4, <1>5, FileFound
<1> QED
  BY <1>5, <1>6, <1>7, <1>8

SetAcl(t, i, v, X) == [t EXCEPT !.files[i].acl[v] = X]

\* The rights of one user on one file are set.
LEMMA SetRights ==
    ASSUME NEW t, Indexed(t), NEW n \in Names, NEW i \in Live(t), Name(t, i) = n,
           NEW v \in Users, NEW X \in {{}} \cup Perms
    PROVE  LET u == SetAcl(t, i, v, X) IN
           /\ Indexed(u)
           /\ \A m \in Names \ {n} : RightsOn(u, m) = RightsOn(t, m) /\ SameOn(u, t, m)
           /\ Has(t, n) /\ Has(u, n) /\ FileAt(u, n) = [FileAt(t, n) EXCEPT !.acl[v] = X]
           /\ \A w \in Users : RightsOn(u, n)[w] = IF w = t.files[i].owner THEN Perm("W")
                                                  ELSE IF w = v THEN X ELSE t.files[i].acl[w]
           /\ \A w \in Users : RightsOn(t, n)[w] = IF w = t.files[i].owner THEN Perm("W")
                                                  ELSE t.files[i].acl[w]
<1> DEFINE d == t.files[i]
           A == [d.acl EXCEPT ![v] = X]
           e == [d EXCEPT !.acl = A]
           u == SetAcl(t, i, v, X)
<1>1. t \in Table /\ i \in Slots /\ d \in Entry /\ t.file_count \in 0..MaxFiles
  BY LiveSlots, TableParts DEF Indexed
<1>2. d.acl \in [Users -> {{}} \cup Perms] /\ A \in [Users -> {{}} \cup Perms]
      /\ \A w \in Users : A[w] = IF w = v THEN X ELSE d.acl[w]
  BY <1>1 DEF Entry
<1>3. [d EXCEPT !.acl[v] = X] = e
  BY <1>1 DEF Entry
<1>4. u = [t EXCEPT !.files[i] = [d EXCEPT !.acl[v] = X]]
  BY <1>1, TableParts DEF SetAcl
<1>5. e \in Entry /\ e.name = d.name /\ e.owner = d.owner /\ e.acl = A /\ e.hash_next = d.hash_next
  <2> HIDE DEF A
  <2> QED
    BY <1>1, <1>2 DEF Entry
<1> HIDE DEF A, e, u
<1>6. u = Put(t, i, e, t.file_count)
  BY <1>1, <1>3, <1>4, <1>5, PutOnly
<1>7. /\ Indexed(u)
      /\ \A m \in Names \ {n} : RightsOn(u, m) = RightsOn(t, m) /\ SameOn(u, t, m)
      /\ RightsOn(t, n) = EntryRights(d) /\ RightsOn(u, n) = EntryRights(e)
      /\ Has(t, n) /\ FileAt(t, n) = FileOf(d) /\ Has(u, n) /\ FileAt(u, n) = FileOf(e)
  BY <1>5, <1>6, SetEntry DEF Name, Link
<1>8. /\ \A w \in Users : EntryRights(e)[w] = IF w = d.owner THEN Perm("W") ELSE A[w]
      /\ \A w \in Users : EntryRights(d)[w] = IF w = d.owner THEN Perm("W") ELSE d.acl[w]
  BY <1>2, <1>5 DEF EntryRights
<1>9. FileOf(e) = [FileOf(d) EXCEPT !.acl[v] = X]
  BY <1>5 DEF FileOf, A
<1> QED
  BY <1>2, <1>7, <1>8, <1>9 DEF u
-----------------------------------------------------------------------------
(* The table that is loaded *)

LoadStep(t, lines, k) == file_hash_insert(Put(t, k - 1, lines[k - 1], k), k - 1)

Loads(f, lines, K) == f = [k \in 0..K |-> IF k = 0 THEN EmptyTable ELSE LoadStep(f[k - 1], lines, k)]

\* The loop of nm_state_load has a result after any number of lines.
LEMMA LoadExists ==
    ASSUME NEW lines, NEW K \in Nat
    PROVE  \E f : Loads(f, lines, K)
<1> DEFINE Bad == {k \in Nat : ~ \E f : Loads(f, lines, k)}
<1> SUFFICES ASSUME Bad # {} PROVE FALSE
  OBVIOUS
<1>1. PICK k \in Bad : \A j \in Bad : k <= j
  <2>1. Bad \subseteq Nat
    OBVIOUS
  <2> HIDE DEF Bad
  <2> QED
    BY <2>1, Least
<1>2. CASE k = 0
  <2> DEFINE f == [j \in 0..0 |-> EmptyTable]
  <2>1. Loads(f, lines, 0)
    BY DEF Loads
  <2> QED
    BY <1>1, <1>2, <2>1
<1>3. CASE k # 0
  <2>1. k \in Nat /\ k - 1 \in Nat /\ k - 1 \notin Bad
    BY <1>1, <1>3
  <2>2. PICK g : Loads(g, lines, k - 1)
    BY <2>1
  <2> DEFINE f == [j \in 0..k |-> IF j < k THEN g[j] ELSE LoadStep(g[k - 1], lines, k)]
  <2>3. \A j \in 0..(k - 1) : g[j] = IF j = 0 THEN EmptyTable ELSE LoadStep(g[j - 1], lines, j)
    BY <2>2 DEF Loads
  <2>4. ASSUME NEW j \in 0..k
        PROVE  f[j] = IF j = 0 THEN EmptyTable ELSE LoadStep(f[j - 1], lines, j)
    <3>1. CASE j < k
      <4>1. j \in 0..(k - 1) /\ f[j] = g[j] /\ (j # 0 => f[j - 1] = g[j - 1])
        BY <2>1, <3>1
      <4> QED
        BY <2>3, <4>1
    <3>2. CASE j = k
      <4>1. f[j] = LoadStep(g[k - 1], lines, k) /\ f[j - 1] = g[k - 1]
        BY <2>1, <3>2
      <4> QED
        BY <1>3, <3>2, <4>1
    <3> QED
      BY <2>1, <3>1, <3>2
  <2>5. f = [j \in 0..k |-> f[j]]
    OBVIOUS
  <2> HIDE DEF f
  <2>6. Loads(f, lines, k)
    BY <2>4, <2>5 DEF Loads
  <2> QED
    BY <1>1, <2>6
<1> QED
  BY <1>2, <1>3

\* nm_state_load is this loop, as many times as there are lines.
LEMMA LoadLoops ==
    ASSUME NEW lines
    PROVE  \E f : Loads(f, lines, MaxFiles) /\ nm_state_load(lines) = f[Cardinality(DOMAIN lines)]
<1> DEFINE after == CHOOSE f : f = [k \in 0..MaxFiles |->
                       IF k = 0 THEN EmptyTable
                       ELSE file_hash_insert([f[k - 1] EXCEPT !.files[k - 1] = lines[k - 1],
                                                              !.file_count = k], k - 1)]
<1>1. \E f : f = [k \in 0..MaxFiles |->
                       IF k = 0 THEN EmptyTable
                       ELSE file_hash_insert([f[k - 1] EXCEPT !.files[k - 1] = lines[k - 1],
                                                              !.file_count = k], k - 1)]
  BY LoadExists, TableAssumption DEF Loads, LoadStep, Put
<1>2. after = [k \in 0..MaxFiles |->
                       IF k = 0 THEN EmptyTable
                       ELSE file_hash_insert([after[k - 1] EXCEPT !.files[k - 1] = lines[k - 1],
                                                              !.file_count = k], k - 1)]
  BY <1>1, Zenon
<1>3. nm_state_load(lines) = after[Cardinality(DOMAIN lines)]
  BY Zenon DEF nm_state_load
<1> HIDE DEF after
<1>4. Loads(after, lines, MaxFiles)
  BY <1>2, Zenon DEF Loads, LoadStep, Put
<1> QED
  BY <1>3, <1>4

\* The table before the first line.
LEMMA EmptyIndexed ==
    /\ EmptyTable \in Table /\ EmptyTable.file_count = 0
    /\ \E rank, top : Linked(EmptyTable, {}, rank, top)
    /\ Indexed(EmptyTable)
<1>1. EmptyTable \in Table /\ EmptyTable.file_count = 0
  <2>1. [i \in Slots |-> Blank] \in [Slots -> Entry] /\ 0 \in 0..MaxFiles
    <3>1. Blank \in Entry
      BY BlankType
    <3> QED
      BY <3>1, TableAssumption
  <2>2. [b \in Buckets |-> -1] \in [Buckets -> Slots \cup {-1}]
    OBVIOUS
  <2> QED
    BY <2>1, <2>2 DEF EmptyTable, Table
<1> DEFINE rank == [i \in Slots \cup {-1} |-> 0]
<1>2. rank \in [Slots \cup {-1} -> Nat] /\ rank[-1] = 0
  OBVIOUS
<1>3. \A b \in Buckets : Head(EmptyTable, b) = -1
  BY DEF EmptyTable, Head
<1> HIDE DEF rank
<1>4. Linked(EmptyTable, {}, rank, 1)
  BY <1>2, <1>3 DEF Linked, First
<1>5. Live(EmptyTable) = {}
  BY <1>1 DEF Live
<1> QED
  BY <1>1, <1>4, <1>5 DEF Indexed, Distinct

\* The lines of a table are entries.
LEMMA LinesType ==
    ASSUME NEW t \in Table
    PROVE  /\ DOMAIN FileLines(t) = Live(t)
           /\ \A i \in Live(t) : FileLines(t)[i] \in Entry /\ SameFile(FileLines(t)[i], t.files[i])
<1>1. DOMAIN FileLines(t) = Live(t)
  BY DEF FileLines, Live
<1>2. ASSUME NEW i \in Live(t)
      PROVE  FileLines(t)[i] \in Entry /\ SameFile(FileLines(t)[i], t.files[i])
  <2>1. t.files[i] \in Entry /\ 0 \in Slots \cup {-1}
    BY LiveSlots, TableParts, TableAssumption DEF Slots
  <2>2. FileLines(t)[i] = [t.files[i] EXCEPT !.hash_next = 0]
    BY DEF FileLines, Live
  <2> QED
    BY <2>1, <2>2, Relinked
<1> QED
  BY <1>1, <1>2

\* After k lines the first k files are there, in their slots and in the index.
Loaded(u, t, k) ==
    /\ u \in Table /\ u.file_count = k
    /\ \A j \in 0..(k - 1) : SameFile(u.files[j], t.files[j])
    /\ \E rank, top : Linked(u, 0..(k - 1), rank, top)

\* One more line.
LEMMA LoadOne ==
    ASSUME NEW t, Indexed(t), NEW k \in Nat, k # 0, k <= t.file_count, NEW v, Loaded(v, t, k - 1)
    PROVE  Loaded(LoadStep(v, FileLines(t), k), t, k)
<1> DEFINE i == k - 1
           e == FileLines(t)[i]
           p == Put(v, i, e, k)
           u == LoadStep(v, FileLines(t), k)
           L == 0..(i - 1)
<1>1. t \in Table /\ i \in Live(t) /\ i \in Slots /\ k \in 0..MaxFiles /\ L \subseteq Slots
      /\ i \notin L /\ L \cup {i} = 0..(k - 1)
  <2>1. t \in Table /\ t.file_count \in Nat /\ t.file_count <= MaxFiles
    BY LiveSlots DEF Indexed
  <2> QED
    BY <2>1, TableAssumption DEF Live, Slots
<1>2. e \in Entry /\ SameFile(e, t.files[i])
  BY <1>1, LinesType
<1>3. Name(t, i) \in Names
  BY <1>1 DEF Indexed, Linked
<1>4. v \in Table /\ \A j \in L : SameFile(v.files[j], t.files[j])
  BY DEF Loaded
<1>5. PICK rank, top : Linked(v, L, rank, top)
  BY DEF Loaded
<1>6. u = file_hash_insert(p, i)
  BY DEF LoadStep
<1> HIDE DEF e, p, u, L, i
<1>7. /\ p \in Table /\ p.file_count = k /\ p.file_buckets = v.file_buckets
      /\ p.files[i] = e /\ \A j \in Slots \ {i} : p.files[j] = v.files[j]
  BY <1>1, <1>2, <1>4, PutParts DEF p
<1>8. Linked(p, L, rank, top)
  <2>1. \A j \in L : Name(p, j) = Name(v, j) /\ Link(p, j) = Link(v, j)
    BY <1>1, <1>7 DEF Name, Link
  <2> QED
    BY <1>1, <1>4, <1>5, <1>7, <2>1, LinkedElsewhere
<1>9. Name(p, i) \in Names
  BY <1>2, <1>3, <1>7 DEF Name, SameFile
<1>10. u \in Table /\ SameFiles(u, p)
  BY <1>1, <1>6, <1>7, <1>9, InsertParts
<1>11. \E r, s : Linked(u, L \cup {i}, r, s)
  BY <1>1, <1>6, <1>7, <1>8, <1>9, InsertLinked
<1>12. ASSUME NEW j \in 0..(k - 1) PROVE SameFile(u.files[j], t.files[j])
  <2>1. j \in Slots /\ SameFile(u.files[j], p.files[j]) /\ (j = i \/ j \in L)
    BY <1>1, <1>10 DEF SameFiles
  <2> QED
    BY <1>1, <1>2, <1>4, <1>7, <2>1 DEF SameFile
<1>13. u.file_count = k
  BY <1>7, <1>10 DEF SameFiles
<1> QED
  BY <1>1, <1>10, <1>11, <1>12, <1>13 DEF Loaded, u

\* What is saved is loaded: the same files with the same rights, and an index
\* that finds them.
LEMMA LoadSaved ==
    ASSUME NEW t, Indexed(t)
    PROVE  LET u == nm_state_load(FileLines(t)) IN
           /\ Indexed(u)
           /\ \A n \in Names : RightsOn(u, n) = RightsOn(t, n) /\ SameOn(u, t, n)
<1> DEFINE lines == FileLines(t)
           c == t.file_count
           u == nm_state_load(lines)
<1>1. PICK f : Loads(f, lines, MaxFiles) /\ u = f[Cardinality(DOMAIN lines)]
  BY LoadLoops
<1>2. t \in Table /\ c \in Nat /\ c <= MaxFiles
  BY LiveSlots DEF Indexed
<1>3. Cardinality(DOMAIN lines) = c
  <2>1. DOMAIN lines = 0..(c - 1)
    BY <1>2, LinesType DEF Live
  <2> QED
    BY <1>2, <2>1, FS_Interval
<1>4. \A k \in 0..MaxFiles : f[k] = IF k = 0 THEN EmptyTable ELSE LoadStep(f[k - 1], lines, k)
  BY <1>1 DEF Loads
<1> DEFINE Bad == {k \in 0..c : ~Loaded(f[k], t, k)}
<1>5. Bad = {}
  <2> SUFFICES ASSUME Bad # {} PROVE FALSE
    OBVIOUS
  <2>1. Bad \subseteq Nat
    BY <1>2
  <2>2. PICK k \in Bad : \A j \in Bad : k <= j
    <3> HIDE DEF Bad
    <3> QED
      BY <2>1, Least
  <2>3. k \in Nat /\ k <= c /\ k \in 0..MaxFiles
    <3>1. k \in 0..c
      BY <2>2
    <3> HIDE DEF c
    <3> QED
      BY <1>2, <3>1, TableAssumption
  <2>4. CASE k = 0
    <3>1. Loaded(EmptyTable, t, 0)
      BY EmptyIndexed DEF Loaded
    <3> QED
      BY <1>4, <2>2, <2>3, <2>4, <3>1
  <2>5. CASE k # 0
    <3>1. k - 1 \in 0..c /\ k - 1 \notin Bad
      BY <2>2, <2>3, <2>5, <1>2
    <3>2. Loaded(f[k - 1], t, k - 1)
      BY <3>1
    <3>3. Loaded(LoadStep(f[k - 1], lines, k), t, k)
      BY <2>3, <2>5, <3>2, LoadOne
    <3> QED
      BY <1>4, <2>2, <2>3, <2>5, <3>3
  <2> QED
    BY <2>4, <2>5
<1>6. Loaded(u, t, c)
  <2>1. Loaded(f[c], t, c)
    BY <1>2, <1>5
  <2> QED
    BY <1>1, <1>3, <2>1
<1> HIDE DEF u
<1>7. u \in Table /\ Live(u) = Live(t) /\ \A j \in Live(t) : SameFile(u.files[j], t.files[j])
  BY <1>6 DEF Loaded, Live
<1>8. Indexed(u)
  <2>1. Distinct(t, Live(t))
    BY DEF Indexed
  <2>2. Distinct(u, Live(u))
    BY <1>7, <2>1 DEF Distinct, Name, SameFile
  <2>3. \E rank, top : Linked(u, Live(u), rank, top)
    BY <1>6 DEF Loaded, Live
  <2> QED
    BY <1>7, <2>2, <2>3 DEF Indexed
<1>9. ASSUME NEW n \in Names PROVE RightsOn(u, n) = RightsOn(t, n) /\ SameOn(u, t, n)
  <2>1. \A x \in Live(t) : Name(t, x) = n => x \in Live(u) /\ SameFile(u.files[x], t.files[x])
    BY <1>7
  <2>2. \A y \in Live(u) : Name(u, y) = n => y \in Live(t) /\ Name(t, y) = n
    BY <1>7 DEF Name, SameFile
  <2> QED
    BY <1>8, <2>1, <2>2, RightsSame
<1> QED
  BY <1>8, <1>9 DEF u
-----------------------------------------------------------------------------
(* The inductive invariant *)

RequestTable == [Names \X Users -> Request]
JobTable == [Users -> [pc : {"idle", "create", "delete", "unsaved"}, name : Names \cup {None}]]

\* A thread that is at work has a name.
Working == job \in JobTable /\ \A u \in Users : job[u].pc # "idle" => job[u].name \in Names

\* The state file was written from a table t with an index that was right; on
\* a file that is not being deleted that table gives the rights there are now.
Stands(t) ==
    /\ Indexed(t) /\ saved.files = FileLines(t)
    /\ \A n \in Names : ~Unsaved(n) => RightsOn(t, n) = RightsOn(tab, n)

Kept == saved.requests = requests /\ \E t : Stands(t)

FInv == /\ requests \in RequestTable
        /\ Working
        /\ Indexed(tab)
        /\ Kept

\* Rights are all, to read, or none.
LEMMA PermsType ==
    /\ \A mode \in {"R", "W"} : Perm(mode) \in Perms
    /\ \A X, Y \in {{}} \cup Perms : X \cup Y \in {{}} \cup Perms
    /\ \A X \in {{}} \cup Perms : X \subseteq Perm("W")
<1>1. Perms = {{"READ"}, {"READ", "WRITE"}} /\ Perm("W") = {"READ", "WRITE"} /\ Perm("R") = {"READ"}
  BY DEF Perms, Perm
<1> QED
  BY <1>1 DEF Perms

\* A file that is found is in a slot in use, with its name.
LEMMA PresentFile ==
    ASSUME Indexed(tab), NEW n \in Names, Present(n)
    PROVE  LET i == find_file_index(tab, n) IN
           i \in Live(tab) /\ Name(tab, i) = n /\ tab.files[i] \in Entry
<1>1. find_file_index(tab, n) \in Live(tab) /\ Name(tab, find_file_index(tab, n)) = n
  BY FindFile DEF Present
<1> QED
  BY <1>1, LiveSlots, TableParts DEF Indexed

\* What a grant and a withdrawal do to the file: nothing else changes.
Changed(n, v, X) ==
    /\ \A m \in Names \ {n} : SameOn(tab', tab, m)
    /\ Has(tab, n) /\ Has(tab', n) /\ FileAt(tab', n) = [FileAt(tab, n) EXCEPT !.acl[v] = X]

Given(n, v, perm) ==
    /\ FileAt(tab, n).owner # v
    /\ FileAt(tab, n).acl \in [Users -> {{}} \cup Perms]
    /\ HasRoom(FileAt(tab, n), v)
    /\ Changed(n, v, FileAt(tab, n).acl[v] \cup perm)

\* nm_grant_access gives at most the rights asked for, to one user on one file.
LEMMA GrantStep ==
    ASSUME Indexed(tab), NEW n \in Names, Present(n), NEW v \in Users, NEW perm \in {{}} \cup Perms,
           nm_grant_access(n, v, perm)
    PROVE  /\ Indexed(tab')
           /\ \A m \in Names \ {n} : RightsOn(tab', m) = RightsOn(tab, m)
           /\ \A w \in Users \ {v} : RightsOn(tab', n)[w] \subseteq RightsOn(tab, n)[w]
           /\ RightsOn(tab', n)[v] \subseteq RightsOn(tab, n)[v] \cup perm
           /\ tab' = tab \/ Given(n, v, perm)
<1> DEFINE i == find_file_index(tab, n)
           d == tab.files[i]
           X == d.acl[v] \cup perm
<1>1. i \in Live(tab) /\ Name(tab, i) = n /\ d \in Entry
  BY PresentFile
<1>2. tab' = IF d.owner = v THEN tab ELSE [tab EXCEPT !.files[i].acl[v] = d.acl[v] \cup perm]
  BY DEF nm_grant_access
<1>3. X \in {{}} \cup Perms
  <2>1. d.acl[v] \in {{}} \cup Perms
    BY <1>1 DEF Entry
  <2> QED
    BY <2>1, PermsType
<1>4. CASE d.owner = v
  BY <1>2, <1>4
<1>5. CASE d.owner # v
  <2>1. tab' = SetAcl(tab, i, v, X)
    BY <1>2, <1>5 DEF SetAcl
  <2> HIDE DEF i, X
  <2>2. /\ Indexed(tab')
        /\ \A m \in Names \ {n} : RightsOn(tab', m) = RightsOn(tab, m) /\ SameOn(tab', tab, m)
        /\ \A w \in Users : RightsOn(tab', n)[w] = IF w = d.owner THEN Perm("W")
                                                  ELSE IF w = v THEN X ELSE d.acl[w]
        /\ \A w \in Users : RightsOn(tab, n)[w] = IF w = d.owner THEN Perm("W") ELSE d.acl[w]
        /\ Has(tab, n) /\ Has(tab', n) /\ FileAt(tab', n) = [FileAt(tab, n) EXCEPT !.acl[v] = X]
    BY <1>1, <1>3, <2>1, SetRights
  <2>3. Changed(n, v, X)
    BY <2>2 DEF Changed
  <2>4. FileAt(tab, n) = FileOf(d)
    BY DEF FileAt, i
  <2>5. FileAt(tab, n).owner = d.owner /\ FileAt(tab, n).acl = d.acl
    BY <2>4 DEF FileOf
  <2>6. HasRoom(FileAt(tab, n), v)
    <3>1. HasRoom(d, v)
      BY DEF nm_grant_access, i
    <3> QED
      BY <2>5, <3>1 DEF HasRoom
  <2>7. Given(n, v, perm)
    <3>1. d.acl \in [Users -> {{}} \cup Perms]
      BY <1>1 DEF Entry
    <3>2. X = FileAt(tab, n).acl[v] \cup perm
      BY <2>5 DEF X
    <3> QED
      BY <1>5, <2>3, <2>5, <2>6, <3>1, <3>2 DEF Given
  <2> QED
    BY <1>5, <2>2, <2>7 DEF X
<1> QED
  BY <1>4, <1>5

\* nm_remove_access gives nobody a right.
LEMMA WithdrawStep ==
    ASSUME Indexed(tab), NEW n \in Names, Present(n), NEW v \in Users, nm_remove_access(n, v)
    PROVE  /\ Indexed(tab')
           /\ \A m \in Names \ {n} : RightsOn(tab', m) = RightsOn(tab, m)
           /\ \A w \in Users : RightsOn(tab', n)[w] \subseteq RightsOn(tab, n)[w]
           /\ Changed(n, v, {})
<1> DEFINE i == find_file_index(tab, n)
           d == tab.files[i]
<1>1. i \in Live(tab) /\ Name(tab, i) = n /\ d \in Entry
  BY PresentFile
<1>2. tab' = SetAcl(tab, i, v, {})
  BY DEF nm_remove_access, SetAcl
<1> HIDE DEF i
<1>3. /\ Indexed(tab')
      /\ \A m \in Names \ {n} : RightsOn(tab', m) = RightsOn(tab, m) /\ SameOn(tab', tab, m)
      /\ Has(tab, n) /\ Has(tab', n) /\ FileAt(tab', n) = [FileAt(tab, n) EXCEPT !.acl[v] = {}]
      /\ \A w \in Users : RightsOn(tab', n)[w] = IF w = d.owner THEN Perm("W")
                                                ELSE IF w = v THEN {} ELSE d.acl[w]
      /\ \A w \in Users : RightsOn(tab, n)[w] = IF w = d.owner THEN Perm("W") ELSE d.acl[w]
  BY <1>1, <1>2, SetRights
<1> QED
  BY <1>3 DEF Changed

\* The state file is right when it has just been written.
LEMMA SaveKept ==
    ASSUME Indexed(tab'), nm_state_save(tab', requests')
    PROVE  Kept'
<1>1. saved'.files = FileLines(tab') /\ saved'.requests = requests'
  BY DEF nm_state_save, Lines
<1>2. Stands(tab)'
  BY <1>1 DEF Stands
<1> QED
  BY <1>1, <1>2 DEF Kept

\* A thread that begins or gives up leaves the names that are being deleted.
LEMMA StillUnsaved ==
    ASSUME Working, NEW u \in Users, job[u].pc # "unsaved", NEW x, job' = [job EXCEPT ![u] = x]
    PROVE  \A n \in Names : Unsaved(n) => Unsaved(n)'
<1> SUFFICES ASSUME NEW n \in Names, Unsaved(n) PROVE Unsaved(n)'
  OBVIOUS
<1>1. PICK w \in Users : job[w] = [pc |-> "unsaved", name |-> n]
  BY DEF Unsaved
<1>2. w # u
  BY <1>1
<1>3. job'[w] = job[w]
  BY <1>2 DEF Working, JobTable
<1> QED
  BY <1>1, <1>3 DEF Unsaved

\* Without a change of the table the state file stays right.
LEMMA SameKept ==
    ASSUME Kept, UNCHANGED <<tab, requests, saved>>, \A n \in Names : Unsaved(n) => Unsaved(n)'
    PROVE  Kept'
<1>1. PICK t : Stands(t)
  BY DEF Kept
<1>2. Indexed(t) /\ saved'.files = FileLines(t)
      /\ \A n \in Names : ~Unsaved(n)' => RightsOn(t, n) = RightsOn(tab', n)
  BY <1>1 DEF Stands
<1>3. \E s : Indexed(s) /\ saved'.files = FileLines(s)
      /\ \A n \in Names : ~Unsaved(n)' => RightsOn(s, n) = RightsOn(tab', n)
  BY <1>2
<1> QED
  BY <1>3 DEF Kept, Stands

\* CREATE in the table, when nothing stands against it.
LEMMA AddStep ==
    ASSUME FInv, NEW u \in Users, job[u].pc = "create", tab.file_count < MaxFiles,
           ~Present(job[u].name), tab' = nm_add_file(tab, job[u].name, u)
    PROVE  LET n == job[u].name IN
           /\ n \in Names /\ Indexed(tab')
           /\ \A m \in Names \ {n} : RightsOn(tab', m) = RightsOn(tab, m) /\ SameOn(tab', tab, m)
           /\ RightsOn(tab', n) = [NoRights EXCEPT ![u] = Perm("W")]
           /\ Has(tab', n) /\ FileAt(tab', n) = [owner |-> u, acl |-> NoRights]
<1> DEFINE n == job[u].name
<1>1. n \in Names /\ Indexed(tab)
  BY DEF FInv, Working
<1>2. find_file_index(tab, n) < 0
  <2>1. find_file_index(tab, n) \in Live(tab) \cup {-1} /\ tab \in Table
    BY <1>1, FindFile DEF Indexed
  <2>2. find_file_index(tab, n) \in Int
    BY <2>1, LiveSlots
  <2>3. ~(find_file_index(tab, n) >= 0)
    BY DEF Present
  <2> QED
    BY <2>2, <2>3
<1> HIDE DEF n
<1>3. tab' = nm_add_file(tab, n, u)
  BY DEF n
<1>4. /\ Indexed(tab')
      /\ \A m \in Names \ {n} : RightsOn(tab', m) = RightsOn(tab, m) /\ SameOn(tab', tab, m)
      /\ RightsOn(tab', n) = [NoRights EXCEPT ![u] = Perm("W")]
      /\ Has(tab', n) /\ FileAt(tab', n) = [owner |-> u, acl |-> NoRights]
  BY <1>1, <1>2, <1>3, AddFile
<1> QED
  BY <1>1, <1>4 DEF n

\* DELETE in the table.
LEMMA RemoveStep ==
    ASSUME FInv, NEW u \in Users, DeleteRemove(u)
    PROVE  LET n == job[u].name IN
           /\ n \in Names /\ Indexed(tab')
           /\ \A m \in Names \ {n} : RightsOn(tab', m) = RightsOn(tab, m) /\ SameOn(tab', tab, m)
           /\ RightsOn(tab', n) = NoRights /\ ~Has(tab', n)
<1> DEFINE n == job[u].name
<1>1. n \in Names /\ Indexed(tab) /\ tab' = nm_remove_file(tab, n)
  BY DEF FInv, Working, DeleteRemove
<1> HIDE DEF n
<1>2. /\ Indexed(tab')
      /\ \A m \in Names \ {n} : RightsOn(tab', m) = RightsOn(tab, m) /\ SameOn(tab', tab, m)
      /\ RightsOn(tab', n) = NoRights /\ ~Has(tab', n)
  BY <1>1, RemoveFile
<1> QED
  BY <1>1, <1>2 DEF n

\* A restart gives the rights that the table behind the state file gives.
LEMMA RestartStep ==
    ASSUME FInv, Restart
    PROVE  /\ Indexed(tab')
           /\ \A n \in Names : ~Unsaved(n) => RightsOn(tab', n) = RightsOn(tab, n)
           /\ Kept'
<1>1. PICK t : Stands(t)
  BY DEF FInv, Kept
<1>2. Indexed(t) /\ saved.files = FileLines(t)
      /\ \A n \in Names : ~Unsaved(n) => RightsOn(t, n) = RightsOn(tab, n)
  BY <1>1 DEF Stands
<1>3. tab' = nm_state_load(FileLines(t)) /\ saved' = saved /\ requests' = saved.requests
  BY <1>2 DEF Restart
<1>4. Indexed(tab') /\ \A n \in Names : RightsOn(tab', n) = RightsOn(t, n)
  BY <1>2, <1>3, LoadSaved
<1>5. \E s : Indexed(s) /\ saved'.files = FileLines(s)
      /\ \A n \in Names : ~Unsaved(n)' => RightsOn(s, n) = RightsOn(tab', n)
  BY <1>2, <1>3, <1>4
<1>6. Kept'
  BY <1>3, <1>5 DEF Kept, Stands
<1> QED
  BY <1>2, <1>4, <1>6

\* What ADDACCESS, REMACCESS and HANDLEREQ do to rights.
LEMMA RightsSteps ==
    ASSUME FInv, NEW u \in Users, NEW n \in Names, NEW v \in Users
    PROVE  /\ \A mode \in Modes : handle_client_addaccess(u, n, v, mode) =>
                /\ Indexed(tab')
                /\ \A m \in Names \ {n} : RightsOn(tab', m) = RightsOn(tab, m)
                /\ \A w \in Users \ {v} : RightsOn(tab', n)[w] \subseteq RightsOn(tab, n)[w]
           /\ handle_client_removeaccess(u, n, v) =>
                /\ Indexed(tab')
                /\ \A m \in Names \ {n} : RightsOn(tab', m) = RightsOn(tab, m)
                /\ \A w \in Users : RightsOn(tab', n)[w] \subseteq RightsOn(tab, n)[w]
           /\ \A approve \in BOOLEAN : handle_client_handlereq(u, n, v, approve) =>
                /\ Indexed(tab')
                /\ \A m \in Names \ {n} : RightsOn(tab', m) = RightsOn(tab, m)
                /\ \A w \in Users \ {v} : RightsOn(tab', n)[w] \subseteq RightsOn(tab, n)[w]
                /\ RightsOn(tab', n)[v] \subseteq RightsOn(tab, n)[v] \cup requests[<<n, v>>].perm
                /\ ~approve => tab' = tab
<1>1. Indexed(tab) /\ requests[<<n, v>>] \in Request
  BY DEF FInv, RequestTable
<1>2. requests[<<n, v>>].perm \in {{}} \cup Perms
  BY <1>1 DEF Request
<1>3. ASSUME NEW mode \in Modes, handle_client_addaccess(u, n, v, mode)
      PROVE  /\ Indexed(tab')
             /\ \A m \in Names \ {n} : RightsOn(tab', m) = RightsOn(tab, m)
             /\ \A w \in Users \ {v} : RightsOn(tab', n)[w] \subseteq RightsOn(tab, n)[w]
  <2>1. Perm(mode) \in {{}} \cup Perms
    BY PermsType, TableAssumption
  <2>2. Present(n) /\ nm_grant_access(n, v, Perm(mode))
    BY <1>3 DEF handle_client_addaccess, Owns
  <2> QED
    BY <1>1, <2>1, <2>2, GrantStep
<1>4. ASSUME handle_client_removeaccess(u, n, v)
      PROVE  /\ Indexed(tab')
             /\ \A m \in Names \ {n} : RightsOn(tab', m) = RightsOn(tab, m)
             /\ \A w \in Users : RightsOn(tab', n)[w] \subseteq RightsOn(tab, n)[w]
  <2>1. Present(n) /\ nm_remove_access(n, v)
    BY <1>4 DEF handle_client_removeaccess, Owns
  <2> QED
    BY <1>1, <2>1, WithdrawStep
<1>5. ASSUME NEW approve \in BOOLEAN, handle_client_handlereq(u, n, v, approve)
      PROVE  /\ Indexed(tab')
             /\ \A m \in Names \ {n} : RightsOn(tab', m) = RightsOn(tab, m)
             /\ \A w \in Users \ {v} : RightsOn(tab', n)[w] \subseteq RightsOn(tab, n)[w]
             /\ RightsOn(tab', n)[v] \subseteq RightsOn(tab, n)[v] \cup requests[<<n, v>>].perm
             /\ ~approve => tab' = tab
  <2>1. /\ Present(n)
        /\ \/ approve /\ nm_grant_access(n, v, requests[<<n, v>>].perm)
           \/ ~approve /\ tab' = tab
    BY <1>5 DEF handle_client_handlereq, Owns
  <2>2. CASE approve /\ nm_grant_access(n, v, requests[<<n, v>>].perm)
    BY <1>1, <1>2, <2>1, <2>2, GrantStep
  <2>3. CASE ~approve /\ tab' = tab
    BY <1>1, <2>3
  <2> QED
    BY <2>1, <2>2, <2>3
<1> QED
  BY <1>3, <1>4, <1>5

\* A thread goes on: it has a name while it is at work.
LEMMA JobStep ==
    ASSUME Working, NEW u \in Users,
           NEW x \in [pc : {"idle", "create", "delete", "unsaved"}, name : Names \cup {None}],
           x.pc # "idle" => x.name \in Names, job' = [job EXCEPT ![u] = x]
    PROVE  Working'
<1>1. job' \in JobTable /\ \A w \in Users : job'[w] = IF w = u THEN x ELSE job[w]
  BY DEF Working, JobTable
<1> QED
  BY <1>1 DEF Working

\* Init establishes the invariant.
LEMMA InitHolds == Init => FInv
<1> SUFFICES ASSUME Init PROVE FInv
  OBVIOUS
<1> USE DEF Init, NoRequests
<1>1. requests \in RequestTable
  <2>1. NoRequest \in Request
    BY DEF NoRequest, Request
  <2> QED
    BY <2>1 DEF RequestTable
<1>2. Working
  BY DEF Working, JobTable, Idle
<1>3. Indexed(tab)
  BY EmptyIndexed
<1>4. saved.files = FileLines(tab) /\ saved.requests = requests
  OBVIOUS
<1>5. Stands(tab)
  BY <1>3, <1>4 DEF Stands
<1>6. Kept
  BY <1>4, <1>5 DEF Kept
<1> QED
  BY <1>1, <1>2, <1>3, <1>6 DEF FInv

\* Every step keeps the invariant.
LEMMA StepKeeps == FInv /\ [Step]_table => FInv'
<1> SUFFICES ASSUME FInv, [Step]_table PROVE FInv'
  OBVIOUS
<1>1. requests \in RequestTable /\ Working /\ Indexed(tab) /\ Kept
  BY DEF FInv
<1>2. ASSUME NEW u \in Users, CreateAdd(u) PROVE FInv'
  <2>1. job' = [job EXCEPT ![u] = Idle] /\ requests' = requests /\ job[u].pc = "create"
    BY <1>2 DEF CreateAdd
  <2>2. Working'
    BY <1>1, <2>1, JobStep DEF Idle
  <2>3. CASE UNCHANGED <<tab, saved>>
    <3>1. \A n \in Names : Unsaved(n) => Unsaved(n)'
      BY <1>1, <2>1, StillUnsaved
    <3>2. Kept'
      BY <1>1, <2>1, <2>3, <3>1, SameKept
    <3> QED
      BY <1>1, <2>1, <2>2, <2>3, <3>2 DEF FInv
  <2>4. CASE /\ ~(tab.file_count >= MaxFiles \/ Present(job[u].name))
             /\ tab' = nm_add_file(tab, job[u].name, u) /\ nm_state_save(tab', requests)
    <3>1. tab.file_count < MaxFiles
      BY <1>1, <2>4, LiveSlots, TableAssumption DEF Indexed
    <3>2. Indexed(tab')
      BY <2>1, <2>4, <3>1, AddStep
    <3>3. Kept'
      BY <2>1, <2>4, <3>2, SaveKept
    <3> QED
      BY <1>1, <2>1, <2>2, <3>2, <3>3 DEF FInv
  <2> QED
    BY <1>2, <2>3, <2>4 DEF CreateAdd
<1>3. ASSUME NEW u \in Users, DeleteRemove(u) PROVE FInv'
  <2>0. PICK n : n = job[u].name
    OBVIOUS
  <2> DEFINE x == [pc |-> "unsaved", name |-> n]
  <2>1. /\ n \in Names /\ Indexed(tab')
        /\ \A m \in Names \ {n} : RightsOn(tab', m) = RightsOn(tab, m)
    BY <1>3, <2>0, RemoveStep
  <2>2. job[u].pc = "delete" /\ job' = [job EXCEPT ![u].pc = "unsaved"] /\ UNCHANGED <<requests, saved>>
    BY <1>3 DEF DeleteRemove
  <2>3. job \in [Users -> [pc : {"idle", "create", "delete", "unsaved"}, name : Names \cup {None}]]
    BY <1>1 DEF Working, JobTable
  <2>4. job' = [job EXCEPT ![u] = x]
    <3>1. [job[u] EXCEPT !.pc = "unsaved"] = x
      BY <2>0, <2>3
    <3>2. job' = [job EXCEPT ![u] = [job[u] EXCEPT !.pc = "unsaved"]]
      BY <2>2, <2>3
    <3> QED
      BY <3>1, <3>2
  <2>5. x \in [pc : {"idle", "create", "delete", "unsaved"}, name : Names \cup {None}] /\ x.name = n
    BY <2>1
  <2>6. job'[u] = x
    BY <2>3, <2>4
  <2>7. Unsaved(n)'
    BY <2>6 DEF Unsaved
  <2> HIDE DEF x
  <2>8. Working'
    BY <1>1, <2>1, <2>4, <2>5, JobStep
  <2>9. \A m \in Names : Unsaved(m) => Unsaved(m)'
    BY <1>1, <2>2, <2>4, StillUnsaved
  <2>10. PICK t : Stands(t)
    BY <1>1 DEF Kept
  <2>11. /\ Indexed(t) /\ saved'.files = FileLines(t)
         /\ \A m \in Names : ~Unsaved(m)' => RightsOn(t, m) = RightsOn(tab', m)
    BY <2>1, <2>2, <2>7, <2>9, <2>10 DEF Stands
  <2>12. \E s : /\ Indexed(s) /\ saved'.files = FileLines(s)
                /\ \A m \in Names : ~Unsaved(m)' => RightsOn(s, m) = RightsOn(tab', m)
    BY <2>11
  <2>13. Kept'
    BY <1>1, <2>2, <2>12 DEF Kept, Stands
  <2> QED
    BY <1>1, <2>1, <2>2, <2>8, <2>13 DEF FInv
<1>4. ASSUME NEW u \in Users, DeleteSave(u) PROVE FInv'
  <2>1. job' = [job EXCEPT ![u] = Idle] /\ UNCHANGED <<tab, requests>> /\ nm_state_save(tab', requests')
    BY <1>4 DEF DeleteSave
  <2>2. Working'
    BY <1>1, <2>1, JobStep DEF Idle
  <2>3. Indexed(tab')
    BY <1>1, <2>1
  <2>4. Kept'
    BY <2>1, <2>3, SaveKept
  <2> QED
    BY <1>1, <2>1, <2>2, <2>3, <2>4 DEF FInv
<1>5. ASSUME NEW u \in Users, NEW x \in [pc : {"idle", "create", "delete", "unsaved"}, name : Names \cup {None}],
             x.pc # "idle" => x.name \in Names, job[u].pc # "unsaved", job' = [job EXCEPT ![u] = x],
             UNCHANGED <<tab, requests, saved>>
      PROVE  FInv'
  <2>1. Working'
    BY <1>1, <1>5, JobStep
  <2>2. \A n \in Names : Unsaved(n) => Unsaved(n)'
    BY <1>1, <1>5, StillUnsaved
  <2>3. Kept'
    BY <1>1, <1>5, <2>2, SameKept
  <2>4. Indexed(tab') /\ requests' \in RequestTable
    BY <1>1, <1>5
  <2> QED
    BY <2>1, <2>3, <2>4 DEF FInv
<1>6. ASSUME NEW u \in Users, CallFails(u) PROVE FInv'
  BY <1>5, <1>6 DEF CallFails, Idle
<1>7. ASSUME NEW u \in Users, NEW n \in Names, CreateCheck(u, n) PROVE FInv'
  <2> DEFINE x == [pc |-> "create", name |-> n]
  <2>1. x \in [pc : {"idle", "create", "delete", "unsaved"}, name : Names \cup {None}] /\ x.name = n
    OBVIOUS
  <2>2. job[u].pc # "unsaved" /\ job' = [job EXCEPT ![u] = x] /\ UNCHANGED <<tab, requests, saved>>
    BY <1>7 DEF CreateCheck, Idle
  <2> HIDE DEF x
  <2> QED
    BY <1>5, <2>1, <2>2
<1>8. ASSUME NEW u \in Users, NEW n \in Names, DeleteCheck(u, n) PROVE FInv'
  <2> DEFINE x == [pc |-> "delete", name |-> n]
  <2>1. x \in [pc : {"idle", "create", "delete", "unsaved"}, name : Names \cup {None}] /\ x.name = n
    OBVIOUS
  <2>2. job[u].pc # "unsaved" /\ job' = [job EXCEPT ![u] = x] /\ UNCHANGED <<tab, requests, saved>>
    BY <1>8 DEF DeleteCheck, Idle
  <2> HIDE DEF x
  <2> QED
    BY <1>5, <2>1, <2>2
<1>9. ASSUME Indexed(tab'), requests' \in RequestTable, job' = job, nm_state_save(tab', requests')
      PROVE  FInv'
  <2>1. Working'
    BY <1>1, <1>9 DEF Working
  <2>2. Kept'
    BY <1>9, SaveKept
  <2> QED
    BY <1>9, <2>1, <2>2 DEF FInv
<1>10. ASSUME NEW u \in Users, NEW n \in Names, NEW mode \in Modes, handle_client_reqaccess(u, n, mode)
       PROVE  FInv'
  <2> DEFINE r == [owner |-> File(n).owner, perm |-> Perm(mode), status |-> "pending"]
  <2>1. Present(n) /\ requests' = [requests EXCEPT ![<<n, u>>] = r] /\ tab' = tab /\ job' = job
        /\ nm_state_save(tab, requests')
    BY <1>10 DEF handle_client_reqaccess
  <2>2. File(n).owner \in Users \cup {None}
    BY <1>1, <2>1, PresentFile DEF File, Entry
  <2>3. r \in Request
    BY <2>2, PermsType, TableAssumption DEF Request
  <2> HIDE DEF r
  <2>4. requests' \in RequestTable
    BY <1>1, <2>1, <2>3 DEF RequestTable
  <2>5. Indexed(tab') /\ nm_state_save(tab', requests')
    BY <1>1, <2>1
  <2> QED
    BY <1>9, <2>1, <2>4, <2>5
<1>11. ASSUME NEW u \in Users, NEW n \in Names, NEW v \in Users, NEW mode \in Modes,
              handle_client_addaccess(u, n, v, mode)
       PROVE  FInv'
  <2>1. requests' = requests /\ job' = job /\ nm_state_save(tab', requests')
    BY <1>11 DEF handle_client_addaccess
  <2>2. Indexed(tab')
    BY <1>11, RightsSteps
  <2> QED
    BY <1>1, <1>9, <2>1, <2>2
<1>12. ASSUME NEW u \in Users, NEW n \in Names, NEW v \in Users, handle_client_removeaccess(u, n, v)
       PROVE  FInv'
  <2>1. requests' = requests /\ job' = job /\ nm_state_save(tab', requests')
    BY <1>12 DEF handle_client_removeaccess
  <2>2. Indexed(tab')
    BY <1>12, RightsSteps
  <2> QED
    BY <1>1, <1>9, <2>1, <2>2
<1>13. ASSUME NEW u \in Users, NEW n \in Names, NEW v \in Users, NEW approve \in BOOLEAN,
              handle_client_handlereq(u, n, v, approve)
       PROVE  FInv'
  <2> DEFINE s == IF approve THEN "approved" ELSE "denied"
             r == [requests[<<n, v>>] EXCEPT !.status = s]
  <2>1. requests' = [requests EXCEPT ![<<n, v>>].status = s] /\ job' = job /\ nm_state_save(tab', requests')
    BY <1>13 DEF handle_client_handlereq
  <2>2. requests \in [Names \X Users -> Request] /\ <<n, v>> \in Names \X Users
    BY <1>1 DEF RequestTable
  <2>3. s \in {"none", "pending", "approved", "denied"}
    OBVIOUS
  <2> HIDE DEF s
  <2>4. r \in Request
    BY <2>2, <2>3 DEF Request
  <2>5. requests' = [requests EXCEPT ![<<n, v>>] = r]
    BY <2>1, <2>2
  <2> HIDE DEF r
  <2>6. requests' \in RequestTable
    BY <2>2, <2>4, <2>5 DEF RequestTable
  <2>7. Indexed(tab')
    BY <1>13, RightsSteps
  <2> QED
    BY <1>9, <2>1, <2>6, <2>7
<1>14. CASE SaveElsewhere
  BY <1>1, <1>9, <1>14 DEF SaveElsewhere
<1>15. CASE Restart
  <2>1. Indexed(tab') /\ Kept'
    BY <1>15, RestartStep
  <2>2. requests' \in RequestTable
    BY <1>1, <1>15 DEF Restart, Kept
  <2>3. Working'
    BY <1>15 DEF Restart, Working, JobTable, Idle
  <2> QED
    BY <2>1, <2>2, <2>3 DEF FInv
<1>16. CASE UNCHANGED table
  <2>1. tab' = tab /\ requests' = requests /\ saved' = saved /\ job' = job
    BY <1>16 DEF table
  <2>2. \A n \in Names : Unsaved(n) => Unsaved(n)'
    BY <2>1 DEF Unsaved
  <2>3. Kept'
    BY <1>1, <2>1, <2>2, SameKept
  <2> QED
    BY <1>1, <2>1, <2>3 DEF FInv, Working
<1> QED
  BY <1>2, <1>3, <1>4, <1>6, <1>7, <1>8, <1>10, <1>11, <1>12, <1>13, <1>14, <1>15, <1>16
  DEF Step, Client

RaceTyped ==
    /\ race \in [phase : {"none", "cut", "overlapped", "over"}, thread : Users \cup {None},
                 at : {"start", "found", "unlinked", "read"}, index : Slots \cup {-1},
                 last : Slots \cup {-1}, read : {race.read}]
    /\ AreLines(race.read)

\* What a thread that is held up has read is typed.
LEMMA CutTyped ==
    ASSUME FInv, NEW u \in Users, NEW at \in {"found", "unlinked", "read"},
           NEW i \in Slots \cup {-1}, race' = Cut(u, at, i)
    PROVE  RaceTyped'
<1>1. requests \in RequestTable /\ tab \in Table
  BY DEF FInv, Indexed
<1>2. tab.file_count - 1 \in Slots \cup {-1}
  BY <1>1, TableAssumption DEF Table, Slots
<1>3. AreLines(Lines(tab, requests))
  BY <1>1, LinesType DEF AreLines, Lines, RequestTable
<1> QED
  BY <1>2, <1>3 DEF RaceTyped, Cut

\* The record of an overlap keeps its type.
LEMMA RaceKept == RaceTyped /\ (Alone => FInv) /\ [Next]_vars => RaceTyped'
<1> SUFFICES ASSUME RaceTyped, Alone => FInv, [Next]_vars PROVE RaceTyped'
  OBVIOUS
<1>1. ASSUME NEW u \in Users, RemoveCut(u) PROVE RaceTyped'
  <2>1. PICK i : i = find_file_index(tab, job[u].name)
    OBVIOUS
  <2>2. FInv /\ job[u].pc = "delete" /\ (race' = Cut(u, "found", i) \/ race' = Cut(u, "unlinked", i))
    BY <1>1, <2>1 DEF RemoveCut
  <2>3. job[u].name \in Names /\ Indexed(tab)
    BY <2>2 DEF FInv, Working
  <2>4. i \in Slots \cup {-1}
    BY <2>1, <2>3, FindFile, LiveSlots DEF Indexed
  <2> QED
    BY <2>2, <2>4, CutTyped
<1>2. ASSUME NEW u \in Users, SaveCut(u) PROVE RaceTyped'
  BY <1>2, CutTyped DEF SaveCut
<1>3. ASSUME NEW x \in {"overlapped", "over"}, race' = [race EXCEPT !.phase = x] PROVE RaceTyped'
  <2>1. race'.read = race.read
    BY <1>3 DEF RaceTyped
  <2> QED
    BY <1>3, <2>1 DEF RaceTyped
<1>4. ASSUME NEW u \in Users, RemoveEnd(u) \/ SaveEnd(u) PROVE RaceTyped'
  BY <1>3, <1>4 DEF RemoveEnd, SaveEnd
<1>5. CASE Overlap
  BY <1>3, <1>5 DEF Overlap
<1>6. CASE race' = race
  BY <1>6 DEF RaceTyped
<1>7. CASE RestartAfter
  BY <1>6, <1>7 DEF RestartAfter
<1>8. CASE UNCHANGED vars
  BY <1>6, <1>8 DEF vars
<1> QED
  BY <1>1, <1>2, <1>4, <1>5, <1>6, <1>7, <1>8 DEF Next

\* Where a behaviour is alone after a step it was so before, and the step is
\* one of the handlers, undisturbed: an overlap is never forgotten.
LEMMA AloneStep ==
    ASSUME RaceTyped, [Next]_vars, Alone'
    PROVE  Alone /\ [Step]_table
<1>1. CASE Alone /\ Step /\ UNCHANGED race
  BY <1>1
<1>2. ASSUME NEW u \in Users, RemoveCut(u) \/ SaveCut(u) PROVE FALSE
  <2>1. race'.phase = "cut"
    BY <1>2 DEF RemoveCut, SaveCut, Cut
  <2> QED
    BY <2>1 DEF Alone
<1>3. ASSUME race.phase \in {"cut", "overlapped"}, NEW x \in {"overlapped", "over"},
             race' = [race EXCEPT !.phase = x]
      PROVE  FALSE
  BY <1>3 DEF Alone, RaceTyped
<1>4. ASSUME NEW u \in Users, RemoveEnd(u) \/ SaveEnd(u) PROVE FALSE
  BY <1>3, <1>4 DEF RemoveEnd, SaveEnd
<1>5. CASE Overlap
  BY <1>3, <1>5 DEF Overlap
<1>6. CASE RestartAfter
  BY <1>6 DEF RestartAfter, Alone
<1>7. CASE UNCHANGED vars
  BY <1>7 DEF vars, table, Alone
<1> QED
  BY <1>1, <1>2, <1>4, <1>5, <1>6, <1>7 DEF Next
-----------------------------------------------------------------------------
(* The theorems *)

\* The invariant until two threads meet, and the type of the record of that.
TInv == RaceTyped /\ (Alone => FInv)

\* It holds in every state of a behaviour of the name manager's table.
THEOREM TableInvariance == Spec => []TInv
<1>1. Init => TInv
  <2> SUFFICES ASSUME Init PROVE RaceTyped
    BY InitHolds DEF TInv
  <2>1. NoRequests \in [Names \X Users -> Request]
    BY DEF NoRequests, NoRequest, Request
  <2>2. EmptyTable \in Table
    BY EmptyIndexed DEF Indexed
  <2>3. AreLines(Lines(EmptyTable, NoRequests))
    BY <2>1, <2>2, LinesType DEF AreLines, Lines
  <2> QED
    BY <2>3 DEF Init, RaceTyped, NoRace
<1>2. TInv /\ [Next]_vars => TInv'
  BY RaceKept, AloneStep, StepKeeps DEF TInv
<1> QED
  BY <1>1, <1>2, PTL DEF Spec

\* The table is typed where the invariant holds.
LEMMA TableTypes == FInv => TableTypeOK
<1> SUFFICES ASSUME FInv PROVE TableTypeOK
  OBVIOUS
<1>1. requests \in RequestTable /\ Working /\ Indexed(tab) /\ Kept
  BY DEF FInv
<1>2. PICK t : Stands(t)
  BY <1>1 DEF Kept
<1>3. \A i \in DOMAIN saved.files : saved.files[i] \in Entry
  <2>1. t \in Table /\ saved.files = FileLines(t)
    BY <1>2 DEF Stands, Indexed
  <2> QED
    BY <2>1, LinesType
<1> QED
  BY <1>1, <1>3 DEF TableTypeOK, AreLines, Table, RequestTable, Working, JobTable, Indexed, Kept

\* Type correctness (TypeOK) of the table, the requests, the state file and the
\* threads: until two threads meet in the table, hash_next and the buckets never
\* point outside the array.
THEOREM TableTyped == Spec => []TypeOK
<1>1. TInv => TypeOK
  BY TableTypes DEF TInv, RaceTyped, TypeOK
<1> QED
  BY <1>1, TableInvariance, PTL

\* The index and the array agree (IndexSound) whatever files nm_add_file and
\* nm_remove_file enter, move and remove, whatever the hash function, until
\* another thread comes into a removal or a save that DELETE makes unlocked.
THEOREM IndexRight == Spec => []IndexSound
<1>1. TInv => IndexSound
  <2> SUFFICES ASSUME FInv PROVE IndexAgrees
    BY DEF IndexSound, TInv
  <2>1. Indexed(tab)
    BY DEF FInv
  <2>2. tab \in Table /\ tab.file_count \in Nat
    BY <2>1, LiveSlots DEF Indexed
  <2>3. ASSUME NEW i \in Slots, i < tab.file_count
        PROVE  find_file_index(tab, tab.files[i].name) = i
    <3>1. i \in Live(tab)
      BY <2>2, <2>3, LiveSlots
    <3>2. Name(tab, i) \in Names
      BY <2>1, <3>1 DEF Indexed, Linked
    <3>3. find_file_index(tab, Name(tab, i)) = i
      BY <2>1, <3>1, <3>2, FindFile
    <3> QED
      BY <3>3 DEF Name
  <2>4. ASSUME NEW n \in Names PROVE find_file_index(tab, n) < tab.file_count
    <3>1. find_file_index(tab, n) \in Live(tab) \cup {-1}
      BY <2>1, FindFile
    <3> QED
      BY <2>2, <3>1, LiveSlots
  <2> QED
    BY <2>3, <2>4 DEF IndexAgrees
<1> QED
  BY <1>1, TableInvariance, PTL

\* What was answered survives a crash (Recoverable): loading the state file
\* gives every user the rights it has, unless a DELETE is not yet saved, or
\* another thread has come into a removal or a save that DELETE makes unlocked.
THEOREM RestartRecovers == Spec => []Recoverable
<1>1. TInv => Recoverable
  <2> SUFFICES ASSUME FInv PROVE Recoverable
    BY DEF Recoverable, TInv
  <2>1. saved.requests = requests
    BY DEF FInv, Kept
  <2>2. PICK t : Stands(t)
    BY DEF FInv, Kept
  <2> DEFINE u == nm_state_load(saved.files)
  <2>3. \A n \in Names : RightsOn(u, n) = RightsOn(t, n)
    BY <2>2, LoadSaved DEF Stands
  <2>4. \A n \in Names : ~Unsaved(n) => RightsOn(t, n) = RightsOn(tab, n)
    BY <2>2 DEF Stands
  <2> HIDE DEF u
  <2>5. \A n \in Names : ~Unsaved(n) => RightsOn(u, n) = RightsOn(tab, n)
    BY <2>3, <2>4
  <2> QED
    BY <2>1, <2>5 DEF Recoverable, u
<1> QED
  BY <1>1, TableInvariance, PTL

\* Why a user's rights on a name may grow in a step.
Earned(n, u) ==
    \/ ~Present(n) /\ job[u] = [pc |-> "create", name |-> n]
    \/ Unsaved(n) /\ Restart
    \/ \E owner \in Users :
          /\ Owns(owner, n)
          /\ \/ \E mode \in Modes : handle_client_addaccess(owner, n, u, mode)
             \/ /\ handle_client_handlereq(owner, n, u, TRUE)
                /\ requests[<<n, u>>].status = "pending"
                /\ RightsOn(tab', n)[u] \subseteq RightsOn(tab, n)[u] \cup requests[<<n, u>>].perm

Grown(n, u) == RightsOn(tab, n) # RightsOn(tab', n) /\ ~(RightsOn(tab', n)[u] \subseteq RightsOn(tab, n)[u])

\* Every growth of a right is earned.
LEMMA GrowthEarned ==
    ASSUME FInv, Step, NEW m \in Names, NEW w \in Users, Grown(m, w)
    PROVE  Earned(m, w)
<1>1. tab' # tab
  BY DEF Grown
<1>2. ASSUME NEW u \in Users, CreateAdd(u) PROVE Earned(m, w)
  <2>1. PICK n : n = job[u].name
    OBVIOUS
  <2>2. /\ job[u].pc = "create" /\ ~(tab.file_count >= MaxFiles) /\ ~Present(n)
        /\ tab' = nm_add_file(tab, n, u)
    BY <1>1, <1>2, <2>1 DEF CreateAdd
  <2>3. tab.file_count < MaxFiles
    BY <2>2, LiveSlots, TableAssumption DEF FInv, Indexed
  <2>4. /\ n \in Names
        /\ \A k \in Names \ {n} : RightsOn(tab', k) = RightsOn(tab, k)
        /\ RightsOn(tab', n) = [NoRights EXCEPT ![u] = Perm("W")]
    BY <2>1, <2>2, <2>3, AddStep
  <2>5. \A v \in Users \ {u} : RightsOn(tab', n)[v] \subseteq RightsOn(tab, n)[v]
    BY <2>4 DEF NoRights
  <2>6. m = n /\ w = u
    BY <2>4, <2>5 DEF Grown
  <2>7. job[u] = [pc |-> "create", name |-> n]
    <3>1. job[u] \in [pc : {"idle", "create", "delete", "unsaved"}, name : Names \cup {None}]
      BY DEF FInv, Working, JobTable
    <3> QED
      BY <2>1, <2>2, <3>1
  <2> QED
    BY <2>2, <2>6, <2>7 DEF Earned
<1>3. ASSUME NEW u \in Users, DeleteRemove(u) PROVE Earned(m, w)
  <2>1. PICK n : n = job[u].name
    OBVIOUS
  <2>2. /\ n \in Names
        /\ \A k \in Names \ {n} : RightsOn(tab', k) = RightsOn(tab, k)
        /\ RightsOn(tab', n) = NoRights
    BY <1>3, <2>1, RemoveStep
  <2>3. \A v \in Users : RightsOn(tab', n)[v] \subseteq RightsOn(tab, n)[v]
    BY <2>2 DEF NoRights
  <2> QED
    BY <2>2, <2>3 DEF Grown
<1>4. ASSUME NEW u \in Users, NEW n \in Names, NEW v \in Users, NEW mode \in Modes,
             handle_client_addaccess(u, n, v, mode)
      PROVE  Earned(m, w)
  <2>1. /\ \A k \in Names \ {n} : RightsOn(tab', k) = RightsOn(tab, k)
        /\ \A x \in Users \ {v} : RightsOn(tab', n)[x] \subseteq RightsOn(tab, n)[x]
    BY <1>4, RightsSteps
  <2>2. m = n /\ w = v
    BY <2>1 DEF Grown
  <2>3. Owns(u, n)
    BY <1>4 DEF handle_client_addaccess
  <2> QED
    BY <1>4, <2>2, <2>3 DEF Earned
<1>5. ASSUME NEW u \in Users, NEW n \in Names, NEW v \in Users, handle_client_removeaccess(u, n, v)
      PROVE  Earned(m, w)
  <2>1. /\ \A k \in Names \ {n} : RightsOn(tab', k) = RightsOn(tab, k)
        /\ \A x \in Users : RightsOn(tab', n)[x] \subseteq RightsOn(tab, n)[x]
    BY <1>5, RightsSteps
  <2> QED
    BY <2>1 DEF Grown
<1>6. ASSUME NEW u \in Users, NEW n \in Names, NEW v \in Users, NEW approve \in BOOLEAN,
             handle_client_handlereq(u, n, v, approve)
      PROVE  Earned(m, w)
  <2>1. /\ \A k \in Names \ {n} : RightsOn(tab', k) = RightsOn(tab, k)
        /\ \A x \in Users \ {v} : RightsOn(tab', n)[x] \subseteq RightsOn(tab, n)[x]
        /\ RightsOn(tab', n)[v] \subseteq RightsOn(tab, n)[v] \cup requests[<<n, v>>].perm
        /\ ~approve => tab' = tab
    BY <1>6, RightsSteps
  <2>2. m = n /\ w = v
    BY <2>1 DEF Grown
  <2>3. Owns(u, n) /\ requests[<<n, v>>].status = "pending"
    BY <1>6 DEF handle_client_handlereq
  <2>4. approve = TRUE
    BY <1>1, <2>1
  <2> QED
    BY <1>6, <2>1, <2>2, <2>3, <2>4 DEF Earned
<1>7. CASE Restart
  <2>1. \A n \in Names : ~Unsaved(n) => RightsOn(tab', n) = RightsOn(tab, n)
    BY <1>7, RestartStep
  <2> QED
    BY <1>7, <2>1 DEF Earned, Grown
<1>8. ASSUME NEW u \in Users, DeleteSave(u) \/ CallFails(u) PROVE Earned(m, w)
  BY <1>1, <1>8 DEF DeleteSave, CallFails
<1>9. ASSUME NEW u \in Users, NEW n \in Names,
             \/ CreateCheck(u, n) \/ DeleteCheck(u, n)
             \/ \E mode \in Modes : handle_client_reqaccess(u, n, mode)
      PROVE  Earned(m, w)
  BY <1>1, <1>9 DEF CreateCheck, DeleteCheck, handle_client_reqaccess
<1>10. CASE SaveElsewhere
  BY <1>1, <1>10 DEF SaveElsewhere
<1> QED
  BY <1>2, <1>3, <1>4, <1>5, <1>6, <1>7, <1>8, <1>9, <1>10 DEF Step, Client

\* Rights are only granted (RightsGranted): whatever slots and chains are used
\* again, a right on a file comes from its creator, its owner or its return,
\* until another thread comes into a removal or a save that DELETE makes
\* unlocked.
THEOREM RightsOnlyGranted == Spec => RightsGranted
<1>1. TInv /\ [Next]_vars =>
         [Alone' => \A n \in Names : \A u \in Users : Grown(n, u) => Earned(n, u)]_tab
  <2> SUFFICES ASSUME TInv, [Next]_vars, Alone', tab' # tab,
                      NEW n \in Names, NEW u \in Users, Grown(n, u)
               PROVE  Earned(n, u)
    OBVIOUS
  <2>1. FInv /\ Step
    BY AloneStep DEF table, TInv
  <2> QED
    BY <2>1, GrowthEarned
<1>2. [Alone' => \A n \in Names : \A u \in Users : Grown(n, u) => Earned(n, u)]_tab =>
      [Alone' => \A n \in Names :
          LET before == RightsOn(tab, n)  after == RightsOn(tab', n) IN
          before # after =>
             \A u \in Users : ~(after[u] \subseteq before[u]) =>
                \/ ~Present(n) /\ job[u] = [pc |-> "create", name |-> n]
                \/ Unsaved(n) /\ Restart
                \/ \E owner \in Users :
                      /\ Owns(owner, n)
                      /\ \/ \E mode \in Modes : handle_client_addaccess(owner, n, u, mode)
                         \/ /\ handle_client_handlereq(owner, n, u, TRUE)
                            /\ requests[<<n, u>>].status = "pending"
                            /\ after[u] \subseteq before[u] \cup requests[<<n, u>>].perm]_tab
  BY Zenon DEF Grown, Earned
<1> QED
  BY <1>1, <1>2, TableInvariance, PTL DEF Spec, RightsGranted

-----------------------------------------------------------------------------
(* The refinement *)

\* The map the table stands for.
LEMMA FilesParts ==
    ASSUME NEW t
    PROVE  /\ DOMAIN FilesIn(t) = {m \in Names : Has(t, m)}
           /\ FilesIn(t) = [m \in {k \in Names : Has(t, k)} |-> FileAt(t, m)]
           /\ \A m \in Names : Has(t, m) => FilesIn(t)[m] = FileAt(t, m)
BY DEF FilesIn, Has, FileAt

\* Tables with the same files stand for the same map.
LEMMA FilesSame ==
    ASSUME NEW t, NEW u, \A n \in Names : SameOn(u, t, n)
    PROVE  FilesIn(u) = FilesIn(t)
<1>1. {m \in Names : Has(u, m)} = {m \in Names : Has(t, m)}
  BY DEF SameOn
<1>2. \A m \in {k \in Names : Has(t, k)} : FileAt(u, m) = FileAt(t, m)
  BY DEF SameOn
<1> QED
  BY <1>1, <1>2, FilesParts

\* The lines of a table stand for the same map as the table.
LEMMA LinesFiles ==
    ASSUME NEW t, Indexed(t)
    PROVE  FilesSaved(FileLines(t)) = FilesIn(t)
<1>1. PICK lines : lines = FileLines(t)
  OBVIOUS
<1> DEFINE S == {lines[i].name : i \in DOMAIN lines}
           D == {m \in Names : Has(t, m)}
<1>2. t \in Table /\ Distinct(t, Live(t)) /\ \A i \in Live(t) : Name(t, i) \in Names
  BY DEF Indexed, Linked
<1>3. DOMAIN lines = Live(t) /\ \A i \in Live(t) : lines[i].name = Name(t, i) /\ FileOf(lines[i]) = FileOf(t.files[i])
  BY <1>1, <1>2, LinesType DEF SameFile, Name, FileOf
<1>4. ASSUME NEW m \in D
      PROVE  /\ m \in S
             /\ FileOf(lines[CHOOSE i \in DOMAIN lines : lines[i].name = m]) = FileAt(t, m)
  <2>1. PICK x \in Live(t) : Name(t, x) = m
    BY FileFound
  <2>2. FileAt(t, m) = FileOf(t.files[x])
    BY <2>1, FileFound
  <2>3. (CHOOSE i \in DOMAIN lines : lines[i].name = m) = x
    BY <1>2, <1>3, <2>1 DEF Distinct
  <2> QED
    BY <1>3, <2>1, <2>2, <2>3
<1>5. S \subseteq D
  <2> SUFFICES ASSUME NEW i \in DOMAIN lines PROVE lines[i].name \in D
    OBVIOUS
  <2>1. i \in Live(t) /\ lines[i].name = Name(t, i) /\ Name(t, i) \in Names
    BY <1>2, <1>3
  <2> QED
    BY <2>1, FileFound
<1>6. S = D
  BY <1>4, <1>5
<1>7. FilesSaved(lines) = [m \in S |-> FileOf(lines[CHOOSE i \in DOMAIN lines : lines[i].name = m])]
  BY DEF FilesSaved
<1> HIDE DEF S
<1>8. FilesSaved(lines) = [m \in D |-> FileAt(t, m)]
  BY <1>4, <1>6, <1>7
<1> QED
  BY <1>1, <1>8, FilesParts

\* file_count is the number of files there are.
LEMMA FilesCounted ==
    ASSUME NEW t, Indexed(t)
    PROVE  Cardinality(DOMAIN FilesIn(t)) = t.file_count
<1> DEFINE D == {m \in Names : Has(t, m)}
           L == Live(t)
           f == [i \in L |-> Name(t, i)]
<1>1. t \in Table /\ Distinct(t, L) /\ \A i \in L : Name(t, i) \in Names
  BY DEF Indexed, Linked
<1>2. \A i \in L : Name(t, i) \in D
  BY <1>1, FileFound
<1>3. \A m \in D : \E i \in L : Name(t, i) = m
  BY FileFound
<1>4. IsFiniteSet(L) /\ Cardinality(L) = t.file_count
  <2>1. t.file_count \in Nat /\ L = 0..(t.file_count - 1)
    BY <1>1, LiveSlots DEF Live
  <2> QED
    BY <2>1, FS_Interval
<1> HIDE DEF L, D
<1>5. f \in Bijection(L, D)
  BY <1>1, <1>2, <1>3 DEF Distinct, Bijection, Injection, Surjection, IsInjective
<1>6. ExistsBijection(L, D)
  BY <1>5 DEF ExistsBijection
<1>7. Cardinality(D) = t.file_count
  BY <1>4, <1>6, FS_Bijection
<1> QED
  BY <1>7, FilesParts DEF D

\* A change of one file of the table is a change of one file of the map.
LEMMA ChangedFiles ==
    ASSUME NEW n \in Names, NEW v \in Users, NEW X, Changed(n, v, X)
    PROVE  /\ n \in DOMAIN FilesIn(tab) /\ FilesIn(tab)[n] = FileAt(tab, n)
           /\ FilesIn(tab') = [FilesIn(tab) EXCEPT ![n].acl[v] = X]
<1>1. PICK F : F = FilesIn(tab)
  OBVIOUS
<1>2. PICK G : G = FilesIn(tab')
  OBVIOUS
<1>3. PICK D : D = {m \in Names : Has(tab, m)}
  OBVIOUS
<1>4. D = {m \in Names : Has(tab', m)} /\ n \in D
  BY <1>3 DEF Changed, SameOn
<1>5. F = [m \in D |-> FileAt(tab, m)] /\ G = [m \in D |-> FileAt(tab', m)]
  BY <1>1, <1>2, <1>3, <1>4, FilesParts
<1>6. \A m \in D : G[m] = IF m = n THEN [F[n] EXCEPT !.acl[v] = X] ELSE F[m]
  BY <1>3, <1>4, <1>5 DEF Changed, SameOn
<1>7. G = [F EXCEPT ![n].acl[v] = X]
  BY <1>4, <1>5, <1>6
<1> QED
  BY <1>1, <1>2, <1>4, <1>5, <1>7

\* The map counts as the table does.
LEMMA SameCardinality == \A S : Store!Cardinality(S) = Cardinality(S)
BY DEF Store!Cardinality, Cardinality

\* Every step is a step of the map, or changes neither the map nor its copy.
LEMMA StoreSteps == FInv /\ [Step]_table => [Store!Operation]_<<FilesIn(tab), FilesSaved(saved.files)>>
<1> SUFFICES ASSUME FInv, [Step]_table
             PROVE  Store!Operation \/ UNCHANGED <<FilesIn(tab), FilesSaved(saved.files)>>
  OBVIOUS
<1>1. requests \in RequestTable /\ Working /\ Indexed(tab) /\ Kept
  BY DEF FInv
<1>2. Indexed(tab')
  BY StepKeeps DEF FInv
<1>3. ASSUME NEW r, nm_state_save(tab', r) PROVE FilesSaved(saved'.files) = FilesIn(tab')
  <2>1. saved'.files = FileLines(tab')
    BY <1>3 DEF nm_state_save, Lines
  <2> QED
    BY <1>2, <2>1, LinesFiles
<1>4. ASSUME tab' = tab, saved' = saved PROVE UNCHANGED <<FilesIn(tab), FilesSaved(saved.files)>>
  BY <1>4
<1>5. ASSUME tab' = tab, NEW r, nm_state_save(tab', r) PROVE Store!Save
  BY <1>3, <1>5 DEF Store!Save
<1>6. ASSUME NEW u \in Users, CreateAdd(u)
      PROVE  Store!Operation \/ UNCHANGED <<FilesIn(tab), FilesSaved(saved.files)>>
  <2>1. CASE UNCHANGED <<tab, saved>>
    BY <1>4, <2>1
  <2>2. CASE /\ ~(tab.file_count >= MaxFiles \/ Present(job[u].name))
             /\ tab' = nm_add_file(tab, job[u].name, u) /\ nm_state_save(tab', requests)
    <3>1. PICK n : n = job[u].name
      OBVIOUS
    <3>2. tab.file_count < MaxFiles /\ job[u].pc = "create"
      BY <1>1, <1>6, <2>2, LiveSlots, TableAssumption DEF Indexed, CreateAdd
    <3>3. /\ n \in Names /\ Has(tab', n) /\ FileAt(tab', n) = [owner |-> u, acl |-> NoRights]
          /\ \A m \in Names \ {n} : SameOn(tab', tab, m)
      BY <2>2, <3>1, <3>2, AddStep
    <3>4. ~Has(tab, n)
      BY <2>2, <3>1 DEF Has, Present
    <3>5. Cardinality(DOMAIN FilesIn(tab)) < MaxFiles
      BY <1>1, <3>2, FilesCounted
    <3>6. PICK D : D = {m \in Names : Has(tab, m)}
      OBVIOUS
    <3>7. DOMAIN FilesIn(tab) = D /\ FilesIn(tab) = [m \in D |-> FileAt(tab, m)] /\ n \notin D
      BY <3>4, <3>6, FilesParts
    <3>8. {m \in Names : Has(tab', m)} = D \cup {n}
      BY <3>3, <3>6 DEF SameOn
    <3>9. FilesIn(tab') = [m \in D \cup {n} |-> FileAt(tab', m)]
      BY <3>8, FilesParts
    <3>10. \A m \in D : FileAt(tab', m) = FilesIn(tab)[m]
      BY <3>3, <3>6, <3>7 DEF SameOn
    <3>11. FilesIn(tab') = [m \in D \cup {n} |-> IF m = n THEN [owner |-> u, acl |-> NoRights]
                                                        ELSE FilesIn(tab)[m]]
      BY <3>3, <3>7, <3>9, <3>10
    <3>12. FilesSaved(saved'.files) = FilesIn(tab')
      BY <1>3, <2>2
    <3>13. Store!Create(u, n)
      BY <3>5, <3>7, <3>11, <3>12, SameCardinality DEF Store!Create, NoRights
    <3> QED
      BY <3>3, <3>13 DEF Store!Operation
  <2> QED
    BY <1>6, <2>1, <2>2 DEF CreateAdd
<1>7. ASSUME NEW u \in Users, DeleteRemove(u)
      PROVE  Store!Operation \/ UNCHANGED <<FilesIn(tab), FilesSaved(saved.files)>>
  <2>1. PICK n : n = job[u].name
    OBVIOUS
  <2>2. n \in Names /\ ~Has(tab', n) /\ (\A m \in Names \ {n} : SameOn(tab', tab, m)) /\ saved' = saved
    BY <1>7, <2>1, RemoveStep DEF DeleteRemove
  <2>3. CASE ~Has(tab, n)
    <3>1. \A m \in Names : SameOn(tab', tab, m)
      BY <2>2, <2>3 DEF SameOn
    <3>2. FilesIn(tab') = FilesIn(tab)
      BY <3>1, FilesSame
    <3> QED
      BY <2>2, <3>2
  <2>4. CASE Has(tab, n)
    <3>1. PICK D : D = {m \in Names : Has(tab, m)}
      OBVIOUS
    <3>2. DOMAIN FilesIn(tab) = D /\ FilesIn(tab) = [m \in D |-> FileAt(tab, m)] /\ n \in D
      BY <2>2, <2>4, <3>1, FilesParts
    <3>3. {m \in Names : Has(tab', m)} = D \ {n}
      BY <2>2, <3>1 DEF SameOn
    <3>4. FilesIn(tab') = [m \in D \ {n} |-> FileAt(tab', m)]
      BY <3>3, FilesParts
    <3>5. \A m \in D \ {n} : FileAt(tab', m) = FilesIn(tab)[m]
      BY <2>2, <3>1, <3>2 DEF SameOn
    <3>6. FilesIn(tab') = [m \in D \ {n} |-> FilesIn(tab)[m]]
      BY <3>4, <3>5
    <3>7. Store!Delete(n)
      BY <2>2, <3>2, <3>6 DEF Store!Delete, Store!Restrict, Restrict
    <3> QED
      BY <2>2, <3>7 DEF Store!Operation
  <2> QED
    BY <2>3, <2>4
<1>8. ASSUME NEW n \in Names, NEW v \in Users, NEW perm \in {{}} \cup Perms, Present(n),
             nm_grant_access(n, v, perm), NEW r, nm_state_save(tab', r)
      PROVE  Store!Operation
  <2>1. tab' = tab \/ Given(n, v, perm)
    BY <1>1, <1>8, GrantStep
  <2>2. CASE tab' = tab
    BY <1>5, <1>8, <2>2 DEF Store!Operation
  <2>3. CASE Given(n, v, perm)
    <3>1. PICK d : d = FileAt(tab, n)
      OBVIOUS
    <3>2. /\ d.owner # v /\ d.acl \in [Users -> {{}} \cup Perms] /\ HasRoom(d, v)
          /\ Changed(n, v, d.acl[v] \cup perm)
      BY <2>3, <3>1 DEF Given
    <3>3. PICK F : F = FilesIn(tab)
      OBVIOUS
    <3>4. /\ n \in DOMAIN F /\ F[n] = d
          /\ FilesIn(tab') = [F EXCEPT ![n].acl[v] = d.acl[v] \cup perm]
      BY <3>1, <3>2, <3>3, ChangedFiles
    <3>5. FilesSaved(saved'.files) = FilesIn(tab')
      BY <1>3, <1>8
    <3>6. CASE perm \in Perms
      <4>1. FilesIn(tab') = [F EXCEPT ![n].acl[v] = @ \cup perm]
        BY <3>4
      <4>2. d.acl[v] # {} \/ Cardinality({w \in Users : d.acl[w] # {}}) < MaxAcl
        BY <3>2 DEF HasRoom
      <4>3. Store!Grant(n, v, perm)
        BY <3>2, <3>3, <3>4, <3>5, <4>1, <4>2, SameCardinality DEF Store!Grant, Store!Holders
      <4> QED
        BY <3>6, <4>3 DEF Store!Operation
    <3>7. CASE perm = {}
      <4>1. d.acl[v] \cup perm = d.acl[v]
        BY <3>7
      <4>2. d = FileOf(tab.files[find_file_index(tab, n)])
        BY <3>1 DEF FileAt
      <4>3. [d EXCEPT !.acl[v] = d.acl[v]] = d
        BY <3>2, <4>2 DEF FileOf
      <4>4. \A m \in Names : SameOn(tab', tab, m)
        BY <3>1, <3>2, <4>1, <4>3 DEF Changed, SameOn
      <4>5. FilesIn(tab') = FilesIn(tab)
        BY <4>4, FilesSame
      <4> QED
        BY <3>5, <4>5 DEF Store!Operation, Store!Save
    <3> QED
      BY <3>6, <3>7
  <2> QED
    BY <2>1, <2>2, <2>3
<1>9. ASSUME NEW u \in Users, NEW n \in Names, NEW v \in Users, NEW mode \in Modes,
             handle_client_addaccess(u, n, v, mode)
      PROVE  Store!Operation
  <2>1. Perm(mode) \in {{}} \cup Perms
    BY PermsType, TableAssumption
  <2>2. Present(n) /\ nm_grant_access(n, v, Perm(mode)) /\ nm_state_save(tab', requests)
    BY <1>9 DEF handle_client_addaccess, Owns
  <2> QED
    BY <1>8, <2>1, <2>2
<1>10. ASSUME NEW u \in Users, NEW n \in Names, NEW v \in Users, handle_client_removeaccess(u, n, v)
       PROVE  Store!Operation
  <2>1. Present(n) /\ nm_remove_access(n, v) /\ nm_state_save(tab', requests)
    BY <1>10 DEF handle_client_removeaccess, Owns
  <2>2. Changed(n, v, {})
    BY <1>1, <2>1, WithdrawStep
  <2>3. n \in DOMAIN FilesIn(tab) /\ FilesIn(tab') = [FilesIn(tab) EXCEPT ![n].acl[v] = {}]
    BY <2>2, ChangedFiles
  <2>4. FilesSaved(saved'.files) = FilesIn(tab')
    BY <1>3, <2>1
  <2>5. Store!Revoke(n, v)
    BY <2>3, <2>4 DEF Store!Revoke
  <2> QED
    BY <2>5 DEF Store!Operation
<1>11. ASSUME NEW u \in Users, NEW n \in Names, NEW v \in Users, NEW approve \in BOOLEAN,
              handle_client_handlereq(u, n, v, approve)
       PROVE  Store!Operation
  <2>1. PICK perm : perm = requests[<<n, v>>].perm
    OBVIOUS
  <2>2. perm \in {{}} \cup Perms
    BY <1>1, <2>1 DEF RequestTable, Request
  <2>3. /\ Present(n) /\ nm_state_save(tab', requests')
        /\ nm_grant_access(n, v, perm) \/ tab' = tab
    BY <1>11, <2>1 DEF handle_client_handlereq, Owns
  <2>4. CASE nm_grant_access(n, v, perm)
    BY <1>8, <2>2, <2>3, <2>4
  <2>5. CASE tab' = tab
    BY <1>5, <2>3, <2>5 DEF Store!Operation
  <2> QED
    BY <2>3, <2>4, <2>5
<1>12. ASSUME NEW u \in Users, NEW n \in Names, NEW mode \in Modes, handle_client_reqaccess(u, n, mode)
       PROVE  Store!Operation
  <2>1. tab' = tab /\ nm_state_save(tab', requests')
    BY <1>12 DEF handle_client_reqaccess
  <2> QED
    BY <1>5, <2>1 DEF Store!Operation
<1>13. ASSUME NEW u \in Users, DeleteSave(u) PROVE Store!Operation
  <2>1. tab' = tab /\ nm_state_save(tab', requests)
    BY <1>13 DEF DeleteSave
  <2> QED
    BY <1>5, <2>1 DEF Store!Operation
<1>14. CASE SaveElsewhere
  <2>1. tab' = tab /\ nm_state_save(tab', requests)
    BY <1>14 DEF SaveElsewhere
  <2> QED
    BY <1>5, <2>1 DEF Store!Operation
<1>15. CASE Restart
  <2>1. PICK t : Stands(t)
    BY <1>1 DEF Kept
  <2>2. Indexed(t) /\ saved.files = FileLines(t) /\ saved' = saved /\ tab' = nm_state_load(FileLines(t))
    BY <1>15, <2>1 DEF Stands, Restart
  <2>3. \A n \in Names : SameOn(tab', t, n)
    BY <2>2, LoadSaved
  <2>4. FilesIn(tab') = FilesSaved(saved.files)
    BY <2>2, <2>3, FilesSame, LinesFiles
  <2> QED
    BY <2>2, <2>4 DEF Store!Operation, Store!Restart
<1>16. CASE \E u \in Users : CallFails(u) \/ \E n \in Names : CreateCheck(u, n) \/ DeleteCheck(u, n)
  <2>1. tab' = tab /\ saved' = saved
    BY <1>16 DEF CallFails, CreateCheck, DeleteCheck
  <2> QED
    BY <1>4, <2>1
<1>17. CASE UNCHANGED table
  BY <1>4, <1>17 DEF table
<1> QED
  BY <1>6, <1>7, <1>9, <1>10, <1>11, <1>12, <1>13, <1>14, <1>15, <1>16, <1>17 DEF Step, Client

\* The array, its hash index and the state file implement the map RightsStore:
\* each handler changes one file of it at once, and what a restart gives is the
\* map as it was last saved.  Slots that are moved or used again are not seen.
\* Until another thread comes into a removal or a save that DELETE makes unlocked.
THEOREM StoreImplemented == Spec => ImplementsStore
<1>1. Init => Store!Init
  <2> SUFFICES ASSUME Init PROVE Store!Init
    OBVIOUS
  <2>1. Indexed(tab) /\ saved.files = FileLines(tab) /\ tab = EmptyTable
    BY InitHolds DEF Init, FInv
  <2>2. FilesSaved(saved.files) = FilesIn(tab)
    BY <2>1, LinesFiles
  <2>3. Live(tab) = {}
    BY <2>1, EmptyIndexed DEF Live
  <2>4. \A n \in Names : ~Has(tab, n)
    BY <2>1, <2>3, FileFound
  <2>5. FilesIn(tab) = [m \in {} |-> {}]
    BY <2>4, FilesParts
  <2>6. Alone = TRUE
    BY DEF Init, NoRace, Alone
  <2> QED
    BY <2>2, <2>5, <2>6 DEF Store!Init
<1>2. TInv /\ [Next]_vars =>
         [Store!Next]_<<FilesIn(tab), FilesSaved(saved.files), ~Alone>>
  <2> SUFFICES ASSUME TInv, [Next]_vars
               PROVE  Store!Next \/ UNCHANGED <<FilesIn(tab), FilesSaved(saved.files), ~Alone>>
    OBVIOUS
  <2>1. CASE ~Alone'
    BY <2>1 DEF Store!Next, Store!Break
  <2>2. CASE Alone'
    <3>1. Alone /\ FInv /\ [Step]_table
      BY <2>2, AloneStep DEF TInv
    <3>2. Store!Operation \/ UNCHANGED <<FilesIn(tab), FilesSaved(saved.files)>>
      BY <3>1, StoreSteps
    <3>3. (~Alone)' = ~Alone
      BY <2>2, <3>1
    <3> QED
      BY <3>1, <3>2, <3>3 DEF Store!Next
  <2> QED
    BY <2>1, <2>2
<1> QED
  BY <1>1, <1>2, TableInvariance, PTL DEF Spec, ImplementsStore, Store!Spec
=============================================================================
