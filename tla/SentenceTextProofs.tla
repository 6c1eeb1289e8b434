------------------------- MODULE SentenceTextProofs -------------------------
(***************************************************************************)
(* Proofs about the text functions of the storage server, for texts of any *)
(* length: cutting a document into sentences and joining them again loses  *)
(* no word, and the commit-time merge replaces one occurrence of the       *)
(* session's sentence and no other word.                                   *)
(*                                                                         *)
(* The functions walk over texts.  What they compute is proved from the    *)
(* least counterexample: a set of numbers that is not empty has a least    *)
(* member (LeastNumber), hence a set of sequences that is closed under     *)
(* Append holds all of them (SeqInduction).                                *)
(***************************************************************************)
EXTENDS SentenceText, TLAPS, WellFoundedInduction, SequenceTheorems

\* A nonempty set of numbers has a least one.
LEMMA LeastNumber ==
    ASSUME NEW S, S \subseteq Nat, S # {}
    PROVE  \E x \in S : \A y \in S : x <= y
<1>1. PICK x \in S : \A y \in S : ~(<<y, x>> \in OpToRel(<, Nat))
  BY NatLessThanWellFounded, WFMin
<1>2. \A y \in S : x <= y
  <2> TAKE y \in S
  <2>1. x \in Nat /\ y \in Nat /\ ~(y < x)
    BY <1>1 DEF OpToRel
  <2> QED
    BY <2>1
<1> QED
  BY <1>1, <1>2

-----------------------------------------------------------------------------
(* Concatenation of a sequence of sequences *)

Flat(f, seqs, n) == f = [i \in 1..n |-> IF i = 1 THEN seqs[i] ELSE f[i - 1] \o seqs[i]]

\* The parts can be put together one after the other.
LEMMA FlatExists ==
    ASSUME NEW seqs, NEW N \in Nat
    PROVE  \E f : Flat(f, seqs, N)
<1> DEFINE Bad == {n \in Nat : ~ \E f : Flat(f, seqs, n)}
<1> SUFFICES ASSUME Bad # {} PROVE FALSE
  OBVIOUS
<1>1. PICK n \in Bad : \A m \in Bad : n <= m
  <2>1. Bad \subseteq Nat
    OBVIOUS
  <2> HIDE DEF Bad
  <2> QED
    BY <2>1, LeastNumber
<1>2. CASE n = 0
  <2> DEFINE f == [i \in 1..0 |-> <<>>]
  <2>1. Flat(f, seqs, 0)
    BY DEF Flat
  <2> QED
    BY <1>1, <1>2, <2>1
<1>3. CASE n # 0
  <2>1. n \in Nat /\ n - 1 \in Nat /\ n - 1 \notin Bad
    BY <1>1, <1>3
  <2>2. PICK g : Flat(g, seqs, n - 1)
    BY <2>1
  <2> DEFINE last == IF n = 1 THEN seqs[n] ELSE g[n - 1] \o seqs[n]
             f == [i \in 1..n |-> IF i < n THEN g[i] ELSE last]
  <2>3. \A i \in 1..(n - 1) : g[i] = IF i = 1 THEN seqs[i] ELSE g[i - 1] \o seqs[i]
    BY <2>2 DEF Flat
  <2>4. ASSUME NEW i \in 1..n PROVE f[i] = IF i = 1 THEN seqs[i] ELSE f[i - 1] \o seqs[i]
    <3>1. CASE i < n
      <4>1. i \in 1..(n - 1) /\ f[i] = g[i] /\ (i # 1 => f[i - 1] = g[i - 1])
        BY <2>1, <3>1
      <4> QED
        BY <2>3, <4>1
    <3>2. CASE i = n
      <4>1. f[i] = last /\ (i # 1 => f[i - 1] = g[n - 1])
        BY <2>1, <3>2
      <4> QED
        BY <3>2, <4>1
    <3> QED
      BY <2>1, <3>1, <3>2
  <2>5. f = [i \in 1..n |-> f[i]]
    OBVIOUS
  <2> HIDE DEF f
  <2>6. Flat(f, seqs, n)
    BY <2>4, <2>5 DEF Flat
  <2> QED
    BY <1>1, <2>6
<1> QED
  BY <1>2, <1>3

\* FlattenSeq is the last of them.
LEMMA FlattenIs ==
    ASSUME NEW S, NEW seqs \in Seq(S), seqs # <<>>
    PROVE  \E f : Flat(f, seqs, Len(seqs)) /\ FlattenSeq(seqs) = f[Len(seqs)]
<1> DEFINE flatten == CHOOSE f : f = [i \in 1..Len(seqs) |->
                         IF i = 1 THEN seqs[i] ELSE f[i - 1] \o seqs[i]]
<1>1. \E f : f = [i \in 1..Len(seqs) |-> IF i = 1 THEN seqs[i] ELSE f[i - 1] \o seqs[i]]
  <2>1. Len(seqs) \in Nat
    BY LenProperties
  <2>2. \E f : Flat(f, seqs, Len(seqs))
    BY <2>1, FlatExists
  <2> QED
    BY <2>2, Zenon DEF Flat
<1>2. flatten = [i \in 1..Len(seqs) |-> IF i = 1 THEN seqs[i] ELSE flatten[i - 1] \o seqs[i]]
  BY <1>1, Zenon
<1>3. Len(seqs) # 0
  OBVIOUS
<1>4. FlattenSeq(seqs) = flatten[Len(seqs)]
  BY <1>3, Zenon DEF FlattenSeq
<1> HIDE DEF flatten
<1>5. Flat(flatten, seqs, Len(seqs))
  BY <1>2, Zenon DEF Flat
<1> QED
  BY <1>4, <1>5

\* Nothing put together is nothing.
LEMMA FlattenEmpty == FlattenSeq(<<>>) = <<>>
BY DEF FlattenSeq

\* The value at each place.
LEMMA FlatAt ==
    ASSUME NEW seqs, NEW f, NEW n \in Nat, Flat(f, seqs, n), NEW i \in 1..n
    PROVE  f[i] = IF i = 1 THEN seqs[i] ELSE f[i - 1] \o seqs[i]
BY DEF Flat

Agree(f, g, n) == \A i \in 1..n : f[i] = g[i]

\* Two functions that put the same parts together agree.
LEMMA FlatSame ==
    ASSUME NEW s, NEW t, NEW f, NEW g, NEW n \in Nat, NEW m \in Nat, m <= n, Flat(f, s, n), Flat(g, t, m),
           Agree(s, t, m)
    PROVE  Agree(f, g, m)
<1> DEFINE Bad == {i \in 1..m : f[i] # g[i]}
<1> SUFFICES ASSUME Bad # {} PROVE FALSE
  BY DEF Agree
<1>1. PICK i \in Bad : \A j \in Bad : i <= j
  <2>1. Bad \subseteq Nat
    OBVIOUS
  <2> HIDE DEF Bad
  <2> QED
    BY <2>1, LeastNumber
<1>2. i \in 1..m /\ i \in 1..n
  BY <1>1
<1>3. f[i] = IF i = 1 THEN s[i] ELSE f[i - 1] \o s[i]
  BY <1>2 DEF Flat
<1>4. g[i] = IF i = 1 THEN t[i] ELSE g[i - 1] \o t[i]
  BY <1>2 DEF Flat
<1>5. CASE i = 1
  BY <1>1, <1>2, <1>3, <1>4, <1>5 DEF Agree
<1>6. CASE i # 1
  <2>1. i - 1 \in 1..m /\ i - 1 \notin Bad
    BY <1>1, <1>2, <1>6
  <2> QED
    BY <1>1, <1>2, <1>3, <1>4, <1>6, <2>1 DEF Agree
<1> QED
  BY <1>5, <1>6

\* One part more.
LEMMA FlattenAppend ==
    ASSUME NEW S, NEW seqs \in Seq(Seq(S)), NEW x \in Seq(S)
    PROVE  FlattenSeq(Append(seqs, x)) = FlattenSeq(seqs) \o x
<1> DEFINE t == Append(seqs, x)
           n == Len(seqs)
<1>1. t \in Seq(Seq(S)) /\ t # <<>> /\ Len(t) = n + 1 /\ t[n + 1] = x /\ n \in Nat
      /\ \A i \in 1..n : t[i] = seqs[i]
  BY AppendProperties
<1> HIDE DEF t
<1>2. PICK f : Flat(f, t, n + 1) /\ FlattenSeq(t) = f[n + 1]
  BY <1>1, FlattenIs
<1>3. f[n + 1] = IF n + 1 = 1 THEN t[n + 1] ELSE f[n] \o t[n + 1]
  <2>1. n + 1 \in Nat /\ n + 1 \in 1..(n + 1) /\ (n + 1) - 1 = n
    BY <1>1
  <2> QED
    BY <1>2, <2>1, FlatAt
<1>4. CASE n = 0
  <2>1. seqs = <<>>
    BY <1>4
  <2>2. FlattenSeq(seqs) = <<>>
    BY <2>1, FlattenEmpty
  <2>3. FlattenSeq(t) = x
    BY <1>1, <1>2, <1>3, <1>4
  <2> QED
    BY <2>2, <2>3 DEF t
<1>5. CASE n # 0
  <2>1. seqs # <<>>
    BY <1>5
  <2>2. PICK g : Flat(g, seqs, n) /\ FlattenSeq(seqs) = g[n]
    BY <2>1, FlattenIs
  <2>3. Agree(f, g, n)
    <3>1. Agree(t, seqs, n)
      BY <1>1 DEF Agree
    <3>2. n \in Nat /\ n + 1 \in Nat /\ n <= n + 1 /\ Flat(f, t, n + 1) /\ Flat(g, seqs, n)
      BY <1>1, <1>2, <2>2
    <3> QED
      BY <3>1, <3>2, FlatSame
  <2>4. f[n] = g[n]
    BY <1>1, <1>5, <2>3 DEF Agree
  <2>5. FlattenSeq(t) = FlattenSeq(seqs) \o x
    BY <1>1, <1>2, <1>3, <1>5, <2>2, <2>4
  <2> QED
    BY <2>5 DEF t
<1> QED
  BY <1>4, <1>5

-----------------------------------------------------------------------------
(* Induction over a sequence *)

\* A set of sequences that holds the empty one and with each one its
\* extensions holds them all.
LEMMA SeqInduction ==
    ASSUME NEW S, NEW G, <<>> \in G, \A s \in Seq(S), e \in S : s \in G => Append(s, e) \in G
    PROVE  \A s \in Seq(S) : s \in G
<1> DEFINE Bad == {n \in Nat : \E s \in Seq(S) : Len(s) = n /\ s \notin G}
<1> SUFFICES ASSUME NEW s0 \in Seq(S), s0 \notin G PROVE FALSE
  OBVIOUS
<1>1. Bad \subseteq Nat /\ Bad # {}
  <2>1. Len(s0) \in Nat
    BY LenProperties
  <2>2. Len(s0) \in Bad
    BY <2>1
  <2> QED
    BY <2>2
<1>2. PICK n \in Bad : \A m \in Bad : n <= m
  <2> HIDE DEF Bad
  <2> QED
    BY <1>1, LeastNumber
<1>3. PICK s \in Seq(S) : Len(s) = n /\ s \notin G
  BY <1>2
<1>4. s # <<>>
  BY <1>3
<1>5. PICK u \in Seq(S), e \in S : s = Append(u, e)
  BY <1>4, SequenceEmptyOrAppend
<1>6. Len(u) \in Nat /\ n = Len(u) + 1
  BY <1>3, <1>5, LenProperties, AppendProperties
<1>7. Len(u) \notin Bad
  BY <1>2, <1>6
<1>8. u \in G
  BY <1>6, <1>7
<1> QED
  BY <1>3, <1>5, <1>8

\* Sequences put together are a sequence.
LEMMA FlattenType ==
    ASSUME NEW S, NEW seqs \in Seq(Seq(S))
    PROVE  FlattenSeq(seqs) \in Seq(S)
<1> DEFINE G == {s \in Seq(Seq(S)) : FlattenSeq(s) \in Seq(S)}
<1>1. <<>> \in G
  <2>1. <<>> \in Seq(S) /\ <<>> \in Seq(Seq(S))
    BY EmptySeq
  <2> QED
    BY <2>1, FlattenEmpty
<1>2. ASSUME NEW s \in Seq(Seq(S)), NEW e \in Seq(S), s \in G PROVE Append(s, e) \in G
  <2>1. Append(s, e) \in Seq(Seq(S)) /\ FlattenSeq(Append(s, e)) = FlattenSeq(s) \o e
    BY FlattenAppend, AppendProperties
  <2>2. FlattenSeq(s) \o e \in Seq(S)
    BY <1>2, ConcatProperties
  <2> QED
    BY <2>1, <2>2
<1> HIDE DEF G
<1>3. seqs \in G
  BY <1>1, <1>2, SeqInduction
<1> QED
  BY <1>3 DEF G

\* Putting together distributes over concatenation.
LEMMA FlattenConcat ==
    ASSUME NEW S, NEW s \in Seq(Seq(S)), NEW t \in Seq(Seq(S))
    PROVE  FlattenSeq(s \o t) = FlattenSeq(s) \o FlattenSeq(t)
<1> DEFINE G == {u \in Seq(Seq(S)) : FlattenSeq(s \o u) = FlattenSeq(s) \o FlattenSeq(u)}
<1>0. FlattenSeq(s) \in Seq(S)
  BY FlattenType
<1>1. <<>> \in G
  <2>1. <<>> \in Seq(Seq(S))
    BY EmptySeq
  <2>2. s \o <<>> = s /\ FlattenSeq(s) \o <<>> = FlattenSeq(s)
    BY <1>0, ConcatEmptySeq
  <2> QED
    BY <2>1, <2>2, FlattenEmpty
<1>2. ASSUME NEW u \in Seq(Seq(S)), NEW e \in Seq(S), u \in G PROVE Append(u, e) \in G
  <2>1. Append(u, e) \in Seq(Seq(S)) /\ FlattenSeq(Append(u, e)) = FlattenSeq(u) \o e
    BY FlattenAppend, AppendProperties
  <2>2. s \o u \in Seq(Seq(S)) /\ FlattenSeq(u) \in Seq(S)
    BY ConcatProperties, FlattenType
  <2>3. s \o Append(u, e) = Append(s \o u, e)
    OBVIOUS
  <2>4. FlattenSeq(Append(s \o u, e)) = FlattenSeq(s \o u) \o e
    BY <2>2, FlattenAppend
  <2>5. FlattenSeq(s \o u) = FlattenSeq(s) \o FlattenSeq(u)
    BY <1>2
  <2>6. (FlattenSeq(s) \o FlattenSeq(u)) \o e = FlattenSeq(s) \o (FlattenSeq(u) \o e)
    <3>1. PICK a \in Seq(S) : a = FlattenSeq(s)
      BY <1>0
    <3>2. PICK b \in Seq(S) : b = FlattenSeq(u)
      BY <2>2
    <3>3. (a \o b) \o e = a \o (b \o e)
      BY ConcatAssociative
    <3> QED
      BY <3>1, <3>2, <3>3
  <2>7. FlattenSeq(s \o Append(u, e)) = FlattenSeq(s) \o FlattenSeq(Append(u, e))
    BY <2>1, <2>3, <2>4, <2>5, <2>6
  <2> QED
    BY <2>1, <2>7
<1> HIDE DEF G
<1>3. t \in G
  BY <1>1, <1>2, SeqInduction
<1> QED
  BY <1>3 DEF G
-----------------------------------------------------------------------------
(* Cutting and joining *)

\* A function on 1..n with its values in S is a sequence over S.
LEMMA FunctionSeq ==
    ASSUME NEW S, NEW n \in Nat, NEW f \in [1..n -> S]
    PROVE  f \in Seq(S) /\ Len(f) = n
OBVIOUS

\* A word is cut into words.
LEMMA CutWordType ==
    ASSUME NEW w \in Word
    PROVE  cut_word(w) \in Text
<1>0. w.dots \in Nat /\ w.base \in Base \cup {NoBase}
  BY DEF Word
<1>1. CASE w.dots = 0
  BY <1>1 DEF cut_word, Text
<1>2. CASE w.dots > 0
  <2> DEFINE e == [k \in 1..w.dots |-> [base |-> IF k = 1 THEN w.base ELSE NoBase, dots |-> 1]]
  <2>1. cut_word(w) = e
    BY <1>0, <1>2 DEF cut_word
  <2>2. \A k \in 1..w.dots : [base |-> IF k = 1 THEN w.base ELSE NoBase, dots |-> 1] \in Word
    BY <1>0 DEF Word
  <2>3. e \in [1..w.dots -> Word]
    BY <2>2
  <2> HIDE DEF e
  <2>4. e \in Seq(Word)
    BY <1>0, <2>3, FunctionSeq
  <2> QED
    BY <2>1, <2>4 DEF Text
<1> QED
  BY <1>0, <1>1, <1>2

\* The text put together again is a text.
LEMMA CutType ==
    ASSUME NEW text \in Text
    PROVE  cut(text) \in Text
<1> DEFINE e == [i \in DOMAIN text |-> cut_word(text[i])]
<1>1. Len(text) \in Nat /\ DOMAIN text = 1..Len(text) /\ \A i \in 1..Len(text) : text[i] \in Word
  BY LenProperties, ElementOfSeq DEF Text
<1>2. \A i \in 1..Len(text) : cut_word(text[i]) \in Seq(Word)
  BY <1>1, CutWordType DEF Text
<1>3. e \in [1..Len(text) -> Seq(Word)]
  BY <1>1, <1>2
<1> HIDE DEF e
<1>4. e \in Seq(Seq(Word))
  BY <1>1, <1>3, FunctionSeq
<1>5. FlattenSeq(e) \in Seq(Word)
  BY <1>4, FlattenType
<1> QED
  BY <1>5 DEF cut, Text, e

Reads(read, words, N) ==
    read = [n \in 0..N |-> IF n = 0 THEN <<>> ELSE add_word(read[n - 1], words, n)]

\* The sentences can be read one word after the other.
LEMMA ReadsExists ==
    ASSUME NEW words, NEW N \in Nat
    PROVE  \E f : Reads(f, words, N)
<1> DEFINE Bad == {n \in Nat : ~ \E f : Reads(f, words, n)}
<1> SUFFICES ASSUME Bad # {} PROVE FALSE
  OBVIOUS
<1>1. PICK n \in Bad : \A m \in Bad : n <= m
  <2>1. Bad \subseteq Nat
    OBVIOUS
  <2> HIDE DEF Bad
  <2> QED
    BY <2>1, LeastNumber
<1>2. CASE n = 0
  <2> DEFINE f == [i \in 0..0 |-> <<>>]
  <2>1. Reads(f, words, 0)
    BY DEF Reads
  <2> QED
    BY <1>1, <1>2, <2>1
<1>3. CASE n # 0
  <2>1. n \in Nat /\ n - 1 \in Nat /\ n - 1 \notin Bad
    BY <1>1, <1>3
  <2>2. PICK g : Reads(g, words, n - 1)
    BY <2>1
  <2> DEFINE f == [i \in 0..n |-> IF i < n THEN g[i] ELSE add_word(g[n - 1], words, n)]
  <2>3. \A i \in 0..(n - 1) : g[i] = IF i = 0 THEN <<>> ELSE add_word(g[i - 1], words, i)
    BY <2>2 DEF Reads
  <2>4. ASSUME NEW i \in 0..n PROVE f[i] = IF i = 0 THEN <<>> ELSE add_word(f[i - 1], words, i)
    <3>1. CASE i < n
      <4>1. i \in 0..(n - 1) /\ f[i] = g[i] /\ (i # 0 => f[i - 1] = g[i - 1])
        BY <2>1, <3>1
      <4> QED
        BY <2>3, <4>1
    <3>2. CASE i = n
      <4>1. f[i] = add_word(g[n - 1], words, n) /\ f[i - 1] = g[n - 1]
        BY <2>1, <3>2
      <4> QED
        BY <1>3, <3>2, <4>1
    <3> QED
      BY <2>1, <3>1, <3>2
  <2>5. f = [i \in 0..n |-> f[i]]
    OBVIOUS
  <2> HIDE DEF f
  <2>6. Reads(f, words, n)
    BY <2>4, <2>5 DEF Reads
  <2> QED
    BY <1>1, <2>6
<1> QED
  BY <1>2, <1>3

\* The sentences of a text are those read at its end.
LEMMA SplitIs ==
    ASSUME NEW text \in Text
    PROVE  \E f : Reads(f, cut(text), Len(cut(text))) /\ split_sentences(text) = f[Len(cut(text))]
<1> DEFINE words == cut(text)
           read == CHOOSE f : f = [n \in 0..Len(words) |->
                       IF n = 0 THEN <<>> ELSE add_word(f[n - 1], words, n)]
<1>1. \E f : f = [n \in 0..Len(words) |-> IF n = 0 THEN <<>> ELSE add_word(f[n - 1], words, n)]
  <2>1. Len(words) \in Nat
    BY CutType, LenProperties DEF Text
  <2> HIDE DEF words
  <2>2. \E f : Reads(f, words, Len(words))
    BY <2>1, ReadsExists
  <2> QED
    BY <2>2, Zenon DEF Reads
<1>2. read = [n \in 0..Len(words) |-> IF n = 0 THEN <<>> ELSE add_word(read[n - 1], words, n)]
  <2> HIDE DEF words
  <2> QED
    BY <1>1, Zenon
<1>3. split_sentences(text) = read[Len(words)]
  BY Zenon DEF split_sentences
<1> HIDE DEF read, words
<1>4. Reads(read, words, Len(words))
  BY <1>2, Zenon DEF Reads
<1> QED
  BY <1>3, <1>4 DEF words
Grown(seqs, w) == [seqs EXCEPT ![Len(seqs)] = Append(@, w)]

\* Lengthening the last part lengthens the whole.
LEMMA FlattenGrow ==
    ASSUME NEW S, NEW seqs \in Seq(Seq(S)), seqs # <<>>, NEW w \in S
    PROVE  /\ Grown(seqs, w) \in Seq(Seq(S)) /\ Grown(seqs, w) # <<>>
           /\ FlattenSeq(Grown(seqs, w)) = FlattenSeq(seqs) \o <<w>>
<1> DEFINE more == Grown(seqs, w)
<1>1. PICK u \in Seq(Seq(S)), x \in Seq(S) : seqs = Append(u, x)
  BY SequenceEmptyOrAppend
<1>2. Append(x, w) \in Seq(S) /\ Append(x, w) = x \o <<w>>
  BY AppendProperties, AppendIsConcat
<1>3. Len(seqs) = Len(u) + 1 /\ Len(u) \in Nat /\ seqs[Len(seqs)] = x
      /\ \A i \in 1..Len(u) : seqs[i] = u[i]
  BY <1>1, AppendProperties, LenProperties
<1>y. PICK y \in Seq(S) : y = Append(x, w)
  BY <1>2
<1> DEFINE v == Append(u, y)
<1>4. v \in Seq(Seq(S)) /\ v # <<>> /\ Len(v) = Len(u) + 1 /\ v[Len(u) + 1] = y
      /\ \A i \in 1..Len(u) : v[i] = u[i]
  <2>1. v \in Seq(Seq(S))
    BY AppendProperties, Zenon
  <2>4. Len(v) = Len(u) + 1
    OBVIOUS
  <2>5. v # <<>>
    <3> HIDE DEF v
    <3> QED
      BY <1>3, <2>4
  <2>2. v[Len(u) + 1] = y
    BY AppendProperties
  <2>3. \A i \in 1..Len(u) : v[i] = u[i]
    BY AppendProperties
  <2> QED
    BY <2>1, <2>2, <2>3, <2>4, <2>5
<1>5. more = [seqs EXCEPT ![Len(seqs)] = y]
  BY <1>3, <1>y DEF Grown
<1>6. more \in Seq(Seq(S)) /\ Len(more) = Len(u) + 1
      /\ \A i \in 1..Len(seqs) : more[i] = IF i = Len(seqs) THEN y ELSE seqs[i]
  <2>1. Len(seqs) \in 1..Len(seqs)
    BY <1>3
  <2> HIDE DEF more
  <2> QED
    BY <1>3, <1>4, <1>5, <2>1, ExceptSeq
<1> HIDE DEF more, v
<1>7. \A i \in 1..Len(more) : more[i] = v[i]
  <2> TAKE i \in 1..Len(more)
  <2>1. CASE i = Len(u) + 1
    BY <1>3, <1>4, <1>6, <2>1
  <2>2. CASE i \in 1..Len(u)
    BY <1>3, <1>4, <1>6, <2>2
  <2> QED
    BY <1>3, <1>6, <2>1, <2>2
<1>8. more = v
  BY <1>4, <1>6, <1>7, SeqEqual
<1>9. FlattenSeq(v) = FlattenSeq(u) \o y
  BY <1>4, FlattenAppend DEF v
<1>10. FlattenSeq(seqs) = FlattenSeq(u) \o x
  BY <1>1, FlattenAppend
<1>11. FlattenSeq(u) \in Seq(S) /\ <<w>> \in Seq(S)
  BY FlattenType
<1>12. FlattenSeq(u) \o (x \o <<w>>) = (FlattenSeq(u) \o x) \o <<w>>
  BY <1>11, ConcatAssociative
<1>13. /\ more \in Seq(Seq(S)) /\ more # <<>>
       /\ FlattenSeq(more) = FlattenSeq(seqs) \o <<w>>
  BY <1>2, <1>4, <1>8, <1>9, <1>10, <1>12, <1>y
<1> QED
  BY <1>13 DEF more

\* What is read after n words, of the words up to the n-th.
SoFar(S, g, words, n) == /\ g \in Seq(Seq(S))
                         /\ n > 0 => g # <<>>
                         /\ FlattenSeq(g) = SubSeq(words, 1, n)

\* One word is read.
LEMMA ReadStep ==
    ASSUME NEW S, NEW words \in Seq(S), NEW n \in 1..Len(words), NEW g, SoFar(S, g, words, n - 1)
    PROVE  SoFar(S, add_word(g, words, n), words, n)
<1>0. Len(words) \in Nat /\ n \in Nat
  BY LenProperties
<1>1. g \in Seq(Seq(S)) /\ FlattenSeq(g) = SubSeq(words, 1, n - 1)
  BY DEF SoFar
<1>2. PICK w \in S : w = words[n]
  BY ElementOfSeq
<1>3. SubSeq(words, 1, n) = SubSeq(words, 1, n - 1) \o <<w>>
  <2>1. 1 \in 1..Len(words) /\ n \in 1..Len(words)
    BY <1>0
  <2> QED
    BY <1>2, <2>1, SubSeqRecursiveSecond
<1>4. CASE n = 1 \/ words[n - 1].dots > 0
  <2>0. <<w>> \in Seq(S)
    OBVIOUS
  <2>1. PICK z \in Seq(S) : z = <<w>>
    BY <2>0
  <2>2. add_word(g, words, n) = Append(g, z)
    BY <1>2, <1>4, <2>1 DEF add_word
  <2>3. Append(g, z) \in Seq(Seq(S)) /\ Append(g, z) # <<>>
    BY <1>1, AppendProperties
  <2>4. FlattenSeq(Append(g, z)) = FlattenSeq(g) \o z
    BY <1>1, FlattenAppend
  <2> QED
    BY <1>1, <1>3, <2>1, <2>2, <2>3, <2>4 DEF SoFar
<1>5. CASE ~(n = 1 \/ words[n - 1].dots > 0)
  <2>1. add_word(g, words, n) = Grown(g, w)
    BY <1>2, <1>5 DEF add_word, Grown
  <2>2. g # <<>>
    BY <1>0, <1>5 DEF SoFar
  <2>3. /\ Grown(g, w) \in Seq(Seq(S)) /\ Grown(g, w) # <<>>
        /\ FlattenSeq(Grown(g, w)) = FlattenSeq(g) \o <<w>>
    BY <1>1, <2>2, FlattenGrow
  <2> QED
    BY <1>1, <1>3, <2>1, <2>3 DEF SoFar
<1> QED
  BY <1>4, <1>5

\* The words read so far are the beginning of the text, in sentences.
LEMMA ReadSoFar ==
    ASSUME NEW S, NEW words \in Seq(S), NEW f, Reads(f, words, Len(words))
    PROVE  \A n \in 0..Len(words) : SoFar(S, f[n], words, n)
<1> DEFINE Bad == {n \in 0..Len(words) : ~SoFar(S, f[n], words, n)}
<1>0. Len(words) \in Nat
  BY LenProperties
<1> SUFFICES ASSUME Bad # {} PROVE FALSE
  OBVIOUS
<1>1. PICK n \in Bad : \A m \in Bad : n <= m
  <2>1. Bad \subseteq Nat
    BY <1>0
  <2> HIDE DEF Bad
  <2> QED
    BY <2>1, LeastNumber
<1>2. n \in 0..Len(words) /\ n \in Nat /\ ~SoFar(S, f[n], words, n)
  BY <1>0, <1>1
<1>3. f[n] = IF n = 0 THEN <<>> ELSE add_word(f[n - 1], words, n)
  BY <1>0, <1>2 DEF Reads
<1>4. CASE n = 0
  <2>1. SubSeq(words, 1, 0) = <<>> /\ <<>> \in Seq(Seq(S))
    BY SubSeqEmpty, EmptySeq
  <2>2. ~(0 > 0)
    OBVIOUS
  <2>3. SoFar(S, <<>>, words, 0)
    BY <2>1, <2>2, FlattenEmpty, Zenon DEF SoFar
  <2> QED
    BY <1>2, <1>3, <1>4, <2>3
<1>5. CASE n # 0
  <2>1. n - 1 \in 0..Len(words) /\ n \in 1..Len(words) /\ n - 1 \notin Bad
    BY <1>0, <1>1, <1>2, <1>5
  <2>2. SoFar(S, f[n - 1], words, n - 1)
    BY <2>1
  <2>3. SoFar(S, add_word(f[n - 1], words, n), words, n)
    BY <2>1, <2>2, ReadStep
  <2> QED
    BY <1>2, <1>3, <1>5, <2>3
<1> QED
  BY <1>4, <1>5

\* split_sentences loses no word, and joining the sentences gives the words
\* of the text back.
THEOREM SplitJoin ==
    ASSUME NEW text \in Text
    PROVE  /\ split_sentences(text) \in Seq(Text)
           /\ join_sentences(split_sentences(text)) = cut(text)
<1>1. PICK words : words = cut(text)
  OBVIOUS
<1>2. words \in Seq(Word) /\ Len(words) \in Nat
  BY <1>1, CutType, LenProperties DEF Text
<1>3. PICK f : Reads(f, words, Len(words)) /\ split_sentences(text) = f[Len(words)]
  BY <1>1, SplitIs
<1>4. /\ f[Len(words)] \in Seq(Seq(Word))
      /\ FlattenSeq(f[Len(words)]) = SubSeq(words, 1, Len(words))
  <2>1. Len(words) \in 0..Len(words)
    BY <1>2
  <2> QED
    BY <1>2, <1>3, <2>1, ReadSoFar DEF SoFar
<1>5. SubSeq(words, 1, Len(words)) = words
  BY <1>2, SubSeqFull
<1> QED
  BY <1>1, <1>3, <1>4, <1>5 DEF join_sentences, Text
-----------------------------------------------------------------------------
(* The place of a merge *)

\* A largest number exists in a nonempty set of numbers up to a limit.
LEMMA MaxBelow ==
    ASSUME NEW limit \in Nat, NEW S, S \subseteq 0..limit, S # {}
    PROVE  Max(S) \in 0..limit
<1> DEFINE T == {m \in Nat : \E n \in S : m = limit - n}
<1>1. T \subseteq Nat /\ T # {}
  <2>1. PICK n \in S : TRUE
    OBVIOUS
  <2>2. limit - n \in T
    BY <2>1
  <2> QED
    BY <2>2
<1>2. PICK m \in T : \A k \in T : m <= k
  <2> HIDE DEF T
  <2> QED
    BY <1>1, LeastNumber
<1>3. PICK x \in S : m = limit - x
  BY <1>2
<1>4. \A y \in S : x >= y
  <2> TAKE y \in S
  <2>1. limit - y \in T
    OBVIOUS
  <2>2. limit - x <= limit - y
    BY <1>2, <1>3, <2>1
  <2>3. x \in Int /\ y \in Int
    OBVIOUS
  <2> QED
    BY <2>2, <2>3
<1>5. Max(S) \in S
  BY <1>4 DEF Max
<1> QED
  BY <1>5

\* The context on one side counts at most CONTEXT_MATCH_LIMIT sentences.
LEMMA CountBound ==
    ASSUME NEW latest, NEW original, NEW candidate, NEW target, NEW direction
    PROVE  count_context_matches(latest, original, candidate, target, direction) \in 0..CONTEXT_MATCH_LIMIT
<1> DEFINE agrees(step) ==
              LET o == target + direction * step
                  l == candidate + direction * step
              IN  /\ o \in 0..(Len(original) - 1)
                  /\ l \in 0..(Len(latest) - 1)
                  /\ original[o + 1] = latest[l + 1]
           S == {n \in 0..CONTEXT_MATCH_LIMIT : \A step \in 1..n : agrees(step)}
<1>1. count_context_matches(latest, original, candidate, target, direction) = Max(S)
  BY DEF count_context_matches
<1> HIDE DEF agrees
<1>2. 0 \in S /\ S \subseteq 0..CONTEXT_MATCH_LIMIT
  BY DEF CONTEXT_MATCH_LIMIT
<1>3. CONTEXT_MATCH_LIMIT \in Nat
  BY DEF CONTEXT_MATCH_LIMIT
<1> HIDE DEF S
<1>4. Max(S) \in 0..CONTEXT_MATCH_LIMIT
  BY <1>2, <1>3, MaxBelow
<1> QED
  BY <1>1, <1>4

\* A score is a number, and bounded.
LEMMA ScoreType ==
    ASSUME NEW latest, NEW original, NEW candidate \in Nat, NEW target \in Nat
    PROVE  /\ score(latest, original, candidate, target) \in Int
           /\ score(latest, original, candidate, target) <= 6000
<1>1. PICK before \in 0..4 : before = count_context_matches(latest, original, candidate, target, -1)
  BY CountBound DEF CONTEXT_MATCH_LIMIT
<1>2. PICK after \in 0..4 : after = count_context_matches(latest, original, candidate, target, 1)
  BY CountBound DEF CONTEXT_MATCH_LIMIT
<1> DEFINE distance == IF candidate < target THEN target - candidate ELSE candidate - target
           behind == IF candidate < target THEN 50 ELSE 0
<1>3. distance \in Nat /\ behind \in Nat
  OBVIOUS
<1>4. score(latest, original, candidate, target) = 1000 * before + 500 * after - 10 * distance - behind
  BY <1>1, <1>2 DEF score
<1> HIDE DEF distance, behind
<1>5. /\ 1000 * before + 500 * after - 10 * distance - behind \in Int
      /\ 1000 * before + 500 * after - 10 * distance - behind <= 6000
  BY <1>3
<1> QED
  BY <1>4, <1>5

\* Of finitely bounded scores there is a best, and a first with it.
LEMMA BestOf ==
    ASSUME NEW top \in Int, NEW C, C \subseteq Nat, C # {}, NEW f, \A i \in C : f[i] \in Int /\ f[i] <= top
    PROVE  \E k \in C : \A j \in C : f[j] < f[k] \/ (f[j] = f[k] /\ k <= j)
<1> DEFINE V == {v \in Nat : \E i \in C : v = top - f[i]}
<1>1. V \subseteq Nat /\ V # {}
  <2>1. PICK i \in C : TRUE
    BY Zenon
  <2>2. top - f[i] \in V
    BY <2>1
  <2> QED
    BY <2>2
<1>2. \A j \in C : top - f[j] \in V
  OBVIOUS
<1>3. PICK v \in V : \A w \in V : v <= w
  <2> HIDE DEF V
  <2> QED
    BY <1>1, LeastNumber, Zenon
<1>4. v \in Nat /\ \E i \in C : v = top - f[i]
  OBVIOUS
<1> HIDE DEF V
<1> DEFINE B == {i \in C : top - f[i] = v}
<1>5. B \subseteq Nat /\ B # {}
  <2>1. B \subseteq Nat
    BY Zenon
  <2>2. PICK i \in C : v = top - f[i]
    BY <1>4
  <2>3. i \in B
    BY <2>2
  <2> QED
    BY <2>1, <2>3
<1>6. PICK k \in B : \A j \in B : k <= j
  <2> HIDE DEF B
  <2> QED
    BY <1>5, LeastNumber, Zenon
<1>7. k \in C /\ f[k] = top - v
  BY <1>4, <1>6
<1>8. ASSUME NEW j \in C PROVE f[j] < f[k] \/ (f[j] = f[k] /\ k <= j)
  <2>1. v <= top - f[j] /\ f[j] \in Int
    BY <1>2, <1>3
  <2>2. CASE top - f[j] = v
    <3>1. j \in B
      BY <2>2
    <3> QED
      BY <1>4, <1>6, <1>7, <2>1, <2>2, <3>1
  <2>3. CASE top - f[j] # v
    BY <1>4, <1>7, <2>1, <2>3
  <2> QED
    BY <2>2, <2>3
<1> QED
  BY <1>7, <1>8

\* While the baseline stands somewhere in the document, the place chosen is
\* one of those places.
LEMMA BestIndex ==
    ASSUME NEW latest \in Seq(Text), NEW original, NEW baseline, NEW target \in Nat,
           candidates(latest, baseline) # {}
    PROVE  best_index(latest, original, baseline, target) \in candidates(latest, baseline)
<1>1. PICK C : C = candidates(latest, baseline)
  OBVIOUS
<1>2. C \subseteq Nat /\ C # {}
  BY <1>1, LenProperties DEF candidates
<1>3. PICK f : f = [i \in C |-> score(latest, original, i, target)]
  OBVIOUS
<1>4. \A i \in C : f[i] = score(latest, original, i, target)
  BY <1>3
<1>5. PICK top \in Int : \A i \in C : f[i] \in Int /\ f[i] <= top
  <2>1. 6000 \in Int /\ \A i \in C : f[i] \in Int /\ f[i] <= 6000
    BY <1>2, <1>4, ScoreType
  <2> QED
    BY <2>1
<1>6. \E k \in C : \A j \in C : f[j] < f[k] \/ (f[j] = f[k] /\ k <= j)
  BY <1>2, <1>5, BestOf, Zenon
<1>7. \E k \in C : \A j \in C : \/ score(latest, original, j, target) < score(latest, original, k, target)
                                 \/ /\ score(latest, original, j, target) = score(latest, original, k, target)
                                    /\ k <= j
  BY <1>4, <1>6
<1> QED
  BY <1>1, <1>7, Zenon DEF best_index
-----------------------------------------------------------------------------
(* The merge *)

\* Replacing the middle of three parts.
LEMMA ReplacedAt ==
    ASSUME NEW S, NEW a \in Seq(S), NEW b \in Seq(S), NEW c \in Seq(S), NEW n \in Seq(S)
    PROVE  Replaced((a \o b) \o c, (a \o n) \o c, b, n)
<1> DEFINE w == (a \o b) \o c
           k == Len(a)
           r == k + Len(b)
<1>1. /\ Len(a) \in Nat /\ Len(b) \in Nat /\ Len(c) \in Nat
      /\ a \o b \in Seq(S) /\ w \in Seq(S)
      /\ Len(a \o b) = r /\ Len(w) = r + Len(c)
  BY LenProperties, ConcatProperties
<1>2. \A i \in 1..Len(w) : w[i] = IF i <= k THEN a[i] ELSE IF i <= r THEN b[i - k] ELSE c[i - r]
  <2> TAKE i \in 1..Len(w)
  <2>1. w[i] = IF i <= r THEN (a \o b)[i] ELSE c[i - r]
    BY <1>1, ConcatProperties
  <2>2. i <= r => (a \o b)[i] = IF i <= k THEN a[i] ELSE b[i - k]
    BY <1>1, ConcatProperties
  <2> QED
    BY <1>1, <2>1, <2>2
<1>3. ASSUME NEW m \in Nat, NEW u \in Seq(S), m + Len(u) <= Len(w),
             \A i \in 1..Len(u) : w[m + i] = u[i]
      PROVE  SubSeq(w, m + 1, m + Len(u)) = u
  <2>1. Len(u) \in Nat /\ m + 1 \in Int /\ m + Len(u) \in Int
    BY LenProperties
  <2>2. \A i \in (m + 1)..(m + Len(u)) : w[i] \in S
    <3> TAKE i \in (m + 1)..(m + Len(u))
    <3>1. i \in 1..Len(w)
      BY <1>1, <1>3, <2>1
    <3> HIDE DEF w
    <3> QED
      BY <1>1, <3>1, ElementOfSeq
  <2> HIDE DEF w
  <2>3. /\ SubSeq(w, m + 1, m + Len(u)) \in Seq(S)
        /\ Len(SubSeq(w, m + 1, m + Len(u))) = Len(u)
        /\ \A i \in 1..Len(u) : SubSeq(w, m + 1, m + Len(u))[i] = w[m + i]
    <3>1. /\ SubSeq(w, m + 1, m + Len(u)) \in Seq(S)
          /\ Len(SubSeq(w, m + 1, m + Len(u)))
               = IF m + 1 <= m + Len(u) THEN m + Len(u) - (m + 1) + 1 ELSE 0
          /\ \A i \in 1..(m + Len(u) - (m + 1) + 1) : SubSeq(w, m + 1, m + Len(u))[i] = w[m + 1 + i - 1]
      BY <2>1, <2>2, SubSeqProperties
    <3>2. m + Len(u) - (m + 1) + 1 = Len(u) /\ \A i \in 1..Len(u) : m + 1 + i - 1 = m + i
      BY <2>1
    <3>3. Len(SubSeq(w, m + 1, m + Len(u))) = Len(u)
      BY <2>1, <3>1
    <3> QED
      BY <3>1, <3>2, <3>3
  <2> QED
    BY <1>3, <2>3, SeqEqual
<1>4. SubSeq(w, 1, k) = a
  <2>1. 0 + Len(a) <= Len(w) /\ \A i \in 1..Len(a) : w[0 + i] = a[i]
    BY <1>1, <1>2
  <2>2. SubSeq(w, 0 + 1, 0 + Len(a)) = a
    BY <1>3, <2>1
  <2> QED
    BY <1>1, <2>2
<1>5. SubSeq(w, k + 1, r) = b
  <2>1. k + Len(b) <= Len(w) /\ \A i \in 1..Len(b) : w[k + i] = b[i]
    BY <1>1, <1>2
  <2> QED
    BY <1>1, <1>3, <2>1
<1>6. SubSeq(w, r + 1, Len(w)) = c
  <2>1. r \in Nat /\ r + Len(c) <= Len(w) /\ \A i \in 1..Len(c) : w[r + i] = c[i]
    BY <1>1, <1>2
  <2>2. SubSeq(w, r + 1, r + Len(c)) = c
    BY <1>1, <1>3, <2>1
  <2> QED
    BY <1>1, <2>2
<1>7. k \in 0..(Len(w) - Len(b))
  BY <1>1
<1> HIDE DEF w
<1>8. Replaced(w, (a \o n) \o c, b, n)
  BY <1>4, <1>5, <1>6, <1>7 DEF Replaced
<1> QED
  BY <1>8 DEF w
\* A document in three parts, of which a merge replaces the middle one.
LEMMA MergeParts ==
    ASSUME NEW S, NEW A \in Seq(Seq(S)), NEW M \in Seq(Seq(S)), NEW C \in Seq(Seq(S)),
           NEW P \in Seq(Seq(S))
    PROVE  /\ FlattenSeq((A \o P) \o C) \in Seq(S)
           /\ Replaced(FlattenSeq((A \o M) \o C), FlattenSeq((A \o P) \o C), FlattenSeq(M), FlattenSeq(P))
<1>1. ASSUME NEW X \in Seq(Seq(S))
      PROVE  /\ FlattenSeq((A \o X) \o C) = (FlattenSeq(A) \o FlattenSeq(X)) \o FlattenSeq(C)
             /\ FlattenSeq((A \o X) \o C) \in Seq(S)
  <2>1. A \o X \in Seq(Seq(S)) /\ (A \o X) \o C \in Seq(Seq(S))
    BY ConcatProperties
  <2>2. FlattenSeq((A \o X) \o C) = FlattenSeq(A \o X) \o FlattenSeq(C)
    BY <2>1, FlattenConcat
  <2>3. FlattenSeq(A \o X) = FlattenSeq(A) \o FlattenSeq(X)
    BY FlattenConcat
  <2>4. FlattenSeq((A \o X) \o C) \in Seq(S)
    BY <2>1, FlattenType
  <2> QED
    BY <2>2, <2>3, <2>4
<1>2. /\ FlattenSeq(A) \in Seq(S) /\ FlattenSeq(M) \in Seq(S) /\ FlattenSeq(C) \in Seq(S)
      /\ FlattenSeq(P) \in Seq(S)
  BY FlattenType
<1>3. Replaced((FlattenSeq(A) \o FlattenSeq(M)) \o FlattenSeq(C),
               (FlattenSeq(A) \o FlattenSeq(P)) \o FlattenSeq(C), FlattenSeq(M), FlattenSeq(P))
  BY <1>2, ReplacedAt
<1> QED
  BY <1>1, <1>3

\* One sentence alone is its words.
LEMMA FlattenOne ==
    ASSUME NEW S, NEW x \in Seq(S)
    PROVE  <<x>> \in Seq(Seq(S)) /\ FlattenSeq(<<x>>) = x
<1>1. <<>> \in Seq(Seq(S)) /\ <<x>> = Append(<<>>, x) /\ <<x>> \in Seq(Seq(S))
  BY EmptySeq
<1>2. FlattenSeq(Append(<<>>, x)) = FlattenSeq(<<>>) \o x
  BY <1>1, FlattenAppend
<1>3. <<>> \o x = x
  BY ConcatEmptySeq
<1> QED
  BY <1>1, <1>2, <1>3, FlattenEmpty

\* The part of a sequence from one place to another.
LEMMA PartType ==
    ASSUME NEW S, NEW s \in Seq(S), NEW m \in Nat, m >= 1, NEW n \in Nat, n <= Len(s)
    PROVE  SubSeq(s, m, n) \in Seq(S)
<1>1. Len(s) \in Nat /\ \A i \in m..n : s[i] \in S
  <2>1. Len(s) \in Nat
    BY LenProperties
  <2>2. ASSUME NEW i \in m..n PROVE s[i] \in S
    <3>1. i \in 1..Len(s)
      BY <2>1
    <3> QED
      BY <3>1, ElementOfSeq
  <2> QED
    BY <2>1, <2>2
<1> QED
  BY <1>1, SubSeqProperties

\* Sentences R are the sentences L with P in the place of one part.
Spliced(L, baseline, R, P) ==
    \E A \in Seq(Text), M \in Seq(Text), C \in Seq(Text) :
        L = (A \o M) \o C /\ FlattenSeq(M) = baseline /\ R = (A \o P) \o C

\* A merge into sentences, at the place it chooses.
LEMMA MergeAt ==
    ASSUME NEW L \in Seq(Text), NEW original, NEW baseline \in Text, NEW target \in Nat,
           NEW P \in Seq(Text), ~conflicts(L, baseline)
    PROVE  Spliced(L, baseline, merge(L, original, baseline, target, P), P)
<1>0. Len(L) \in Nat
  BY LenProperties
<1>1. ASSUME NEW at \in Nat, NEW rest \in Nat, at + 1 <= rest, rest <= Len(L) + 1,
             merge(L, original, baseline, target, P)
               = (SubSeq(L, 1, at) \o P) \o SubSeq(L, rest, Len(L)),
             FlattenSeq(SubSeq(L, at + 1, rest - 1)) = baseline
      PROVE  Spliced(L, baseline, merge(L, original, baseline, target, P), P)
  <2>1. PICK A : A = SubSeq(L, 1, at)
    OBVIOUS
  <2>2. PICK M : M = SubSeq(L, at + 1, rest - 1)
    OBVIOUS
  <2>3. PICK C : C = SubSeq(L, rest, Len(L))
    OBVIOUS
  <2>4. A \in Seq(Text) /\ M \in Seq(Text) /\ C \in Seq(Text)
    <3>1. at <= Len(L) /\ rest - 1 <= Len(L) /\ rest - 1 \in Nat /\ at + 1 \in Nat /\ rest >= 1
      BY <1>0, <1>1
    <3>2. A \in Seq(Text)
      BY <1>0, <2>1, <3>1, PartType
    <3>3. M \in Seq(Text)
      BY <1>0, <2>2, <3>1, PartType
    <3>4. C \in Seq(Text)
      BY <1>0, <2>3, <3>1, PartType
    <3> QED
      BY <3>2, <3>3, <3>4
  <2>5. A \o M = SubSeq(L, 1, rest - 1)
    <3>1. 1 \in 1..(Len(L) + 1) /\ at \in (1 - 1)..Len(L) /\ rest - 1 \in at..Len(L)
      BY <1>0, <1>1
    <3> QED
      BY <2>1, <2>2, <3>1, ConcatAdjacentSubSeq
  <2>6. SubSeq(L, 1, rest - 1) \o C = SubSeq(L, 1, Len(L))
    <3>1. /\ 1 \in 1..(Len(L) + 1) /\ rest - 1 \in (1 - 1)..Len(L) /\ Len(L) \in (rest - 1)..Len(L)
          /\ (rest - 1) + 1 = rest
      BY <1>0, <1>1
    <3>2. SubSeq(L, 1, rest - 1) \o SubSeq(L, (rest - 1) + 1, Len(L)) = SubSeq(L, 1, Len(L))
      BY <3>1, ConcatAdjacentSubSeq
    <3> QED
      BY <2>3, <3>1, <3>2
  <2>7. SubSeq(L, 1, Len(L)) = L
    BY SubSeqFull
  <2>8. L = (A \o M) \o C
    BY <2>5, <2>6, <2>7
  <2> QED
    BY <1>1, <2>1, <2>2, <2>3, <2>4, <2>8 DEF Spliced
<1>2. CASE baseline = <<>>
  <2>1. PICK at \in Nat : at = IF target > Len(L) THEN Len(L) ELSE target
    BY <1>0
  <2>2. at + 1 \in Nat /\ at + 1 <= at + 1 /\ at + 1 <= Len(L) + 1 /\ (at + 1) - 1 = at
    BY <1>0, <2>1
  <2>3. merge(L, original, baseline, target, P) = (SubSeq(L, 1, at) \o P) \o SubSeq(L, at + 1, Len(L))
    BY <1>2, <2>1 DEF merge
  <2>4. FlattenSeq(SubSeq(L, at + 1, (at + 1) - 1)) = baseline
    <3>1. SubSeq(L, at + 1, (at + 1) - 1) = <<>>
      BY <2>1, <2>2, SubSeqEmpty
    <3> QED
      BY <1>2, <3>1, FlattenEmpty
  <2> QED
    BY <1>1, <2>2, <2>3, <2>4
<1>3. CASE baseline # <<>>
  <2>1. candidates(L, baseline) # {}
    BY <1>3 DEF conflicts
  <2>2. PICK at \in candidates(L, baseline) : at = best_index(L, original, baseline, target)
    BY <2>1, BestIndex
  <2>3. at \in 0..(Len(L) - 1) /\ L[at + 1] = baseline
    BY DEF candidates
  <2>4. /\ at \in Nat /\ at + 2 \in Nat /\ at + 1 <= at + 2 /\ at + 2 <= Len(L) + 1
        /\ (at + 2) - 1 = at + 1 /\ at + 1 \in 1..Len(L)
    BY <1>0, <2>3
  <2>5. merge(L, original, baseline, target, P) = (SubSeq(L, 1, at) \o P) \o SubSeq(L, at + 2, Len(L))
    BY <1>3, <2>2 DEF merge
  <2>6. FlattenSeq(SubSeq(L, at + 1, (at + 2) - 1)) = baseline
    <3>1. SubSeq(L, at + 1, at + 1) = <<L[at + 1]>>
      <4>1. PICK m : m = at + 1
        OBVIOUS
      <4>2. m \in 1..Len(L) /\ m \in m..Len(L) /\ m + 1 \in Int /\ m < m + 1 /\ m \in Int
        BY <1>0, <2>4, <4>1
      <4>3. SubSeq(L, m, m) = <<L[m]>> \o SubSeq(L, m + 1, m)
        BY <4>2, SubSeqRecursiveFirst
      <4>4. SubSeq(L, m + 1, m) = <<>>
        BY <4>2, SubSeqEmpty
      <4>5. <<L[m]>> \in Seq(Text)
        BY <4>2, ElementOfSeq
      <4>6. <<L[m]>> \o <<>> = <<L[m]>>
        BY <4>5, ConcatEmptySeq
      <4> QED
        BY <4>1, <4>3, <4>4, <4>6
    <3> QED
      BY <2>3, <2>4, <3>1, FlattenOne DEF Text
  <2> QED
    BY <1>1, <2>4, <2>5, <2>6
<1> QED
  BY <1>2, <1>3

\* The commit-time merge, for every document, every session and every place
\* it asked for: what is written is the document as it is then, with one
\* occurrence of the session's sentence replaced by the edited words.
THEOREM MergeReplaces ==
    ASSUME NEW text \in Text, NEW original, NEW baseline \in Text, NEW target \in Nat,
           NEW edited \in Text, ~conflicts(split_sentences(text), baseline)
    PROVE  LET after == join_sentences(merge(split_sentences(text), original, baseline, target,
                                             split_sentences(edited)))
           IN  after \in Text /\ Replaced(cut(text), after, baseline, cut(edited))
<1>1. PICK L : L = split_sentences(text)
  OBVIOUS
<1>2. PICK P : P = split_sentences(edited)
  OBVIOUS
<1>3. /\ L \in Seq(Text) /\ FlattenSeq(L) = cut(text)
      /\ P \in Seq(Text) /\ FlattenSeq(P) = cut(edited)
  BY <1>1, <1>2, SplitJoin DEF join_sentences
<1>4. PICK A \in Seq(Text), M \in Seq(Text), C \in Seq(Text) :
          /\ L = (A \o M) \o C /\ FlattenSeq(M) = baseline
          /\ merge(L, original, baseline, target, P) = (A \o P) \o C
  <2>1. ~conflicts(L, baseline)
    BY <1>1
  <2>2. Spliced(L, baseline, merge(L, original, baseline, target, P), P)
    BY <1>3, <2>1, MergeAt
  <2> QED
    BY <2>2, Zenon DEF Spliced
<1>5. PICK after : after = FlattenSeq((A \o P) \o C)
  OBVIOUS
<1>6. after \in Text /\ Replaced(cut(text), after, baseline, cut(edited))
  <2>1. A \in Seq(Seq(Word)) /\ M \in Seq(Seq(Word)) /\ C \in Seq(Seq(Word)) /\ P \in Seq(Seq(Word))
    BY <1>3, <1>4 DEF Text
  <2>2. /\ FlattenSeq((A \o P) \o C) \in Seq(Word)
        /\ Replaced(FlattenSeq((A \o M) \o C), FlattenSeq((A \o P) \o C), FlattenSeq(M), FlattenSeq(P))
    BY <2>1, MergeParts
  <2> QED
    BY <1>3, <1>4, <1>5, <2>2 DEF Text
<1>7. after = join_sentences(merge(split_sentences(text), original, baseline, target,
                                   split_sentences(edited)))
  BY <1>1, <1>2, <1>4, <1>5 DEF join_sentences
<1> QED
  BY <1>6, <1>7
-----------------------------------------------------------------------------
(* The edits of a session *)

\* The words of a sentence text are words.
LEMMA WordsType ==
    ASSUME NEW text \in Text
    PROVE  split_words(text) \in Text
<1> DEFINE e == [i \in DOMAIN text |->
                    IF text[i].base = NoBase /\ text[i].dots = 0 THEN <<>> ELSE <<text[i]>>]
<1>1. Len(text) \in Nat /\ DOMAIN text = 1..Len(text) /\ \A i \in 1..Len(text) : text[i] \in Word
  BY LenProperties, ElementOfSeq DEF Text
<1>2. \A w \in Word : <<w>> \in Seq(Word) /\ <<>> \in Seq(Word)
  OBVIOUS
<1>3. e \in [1..Len(text) -> Seq(Word)]
  BY <1>1, <1>2
<1> HIDE DEF e
<1>4. e \in Seq(Seq(Word))
  BY <1>1, <1>3, FunctionSeq
<1>5. FlattenSeq(e) \in Seq(Word)
  BY <1>4, FlattenType
<1> QED
  BY <1>5 DEF split_words, Text, e

\* A word with another number of delimiters.
LEMMA DotsType ==
    ASSUME NEW s \in Text, NEW i \in 1..Len(s), NEW n \in Nat
    PROVE  [s EXCEPT ![i].dots = n] \in Text
<1>1. s[i] \in Word
  BY ElementOfSeq DEF Text
<1>2. PICK w \in Word : w = [s[i] EXCEPT !.dots = n]
  BY <1>1 DEF Word
<1>3. [s EXCEPT ![i] = w] \in Seq(Word)
  BY ExceptSeq DEF Text
<1> QED
  BY <1>2, <1>3 DEF Text

\* Words put in the place of some others.
LEMMA SpliceType ==
    ASSUME NEW words \in Text, NEW index \in Nat, index <= Len(words), NEW content \in Text,
           NEW rest \in Nat, rest >= 1
    PROVE  /\ (SubSeq(words, 1, index) \o content) \o SubSeq(words, rest, Len(words)) \in Text
           /\ Len((SubSeq(words, 1, index) \o content) \o SubSeq(words, rest, Len(words))) >= index
<1>0. Len(words) \in Nat /\ Len(content) \in Nat
  BY LenProperties DEF Text
<1>1. SubSeq(words, 1, index) \in Seq(Word) /\ SubSeq(words, rest, Len(words)) \in Seq(Word)
  <2>1. words \in Seq(Word)
    BY DEF Text
  <2>2. SubSeq(words, 1, index) \in Seq(Word)
    BY <2>1, PartType
  <2>3. SubSeq(words, rest, Len(words)) \in Seq(Word)
    BY <1>0, <2>1, PartType
  <2> QED
    BY <2>2, <2>3
<1>2. Len(SubSeq(words, 1, index)) = index
  <2>1. \A i \in 1..index : words[i] \in Word
    BY <1>0, ElementOfSeq DEF Text
  <2> QED
    BY <2>1, SubSeqProperties
<1>3. PICK a \in Seq(Word) : a = SubSeq(words, 1, index)
  BY <1>1
<1>4. PICK c \in Seq(Word) : c = SubSeq(words, rest, Len(words))
  BY <1>1
<1>5. /\ a \o content \in Seq(Word) /\ (a \o content) \o c \in Seq(Word)
      /\ Len((a \o content) \o c) = Len(a) + Len(content) + Len(c) /\ Len(c) \in Nat
  BY LenProperties, ConcatProperties DEF Text
<1>6. Len(a) = index /\ Len((a \o content) \o c) >= index
  BY <1>0, <1>2, <1>3, <1>5
<1>7. (a \o content) \o c \in Text
  BY <1>5 DEF Text
<1> QED
  BY <1>3, <1>4, <1>6, <1>7

\* WRITE_INSERT leaves a sentence text.
LEMMA InsertType ==
    ASSUME NEW text \in Text, NEW index \in Nat, NEW content \in Text
    PROVE  apply_insert(text, index, content) \in Text
<1>1. PICK words \in Text : words = split_words(text)
  BY WordsType
<1>2. PICK last \in Nat : last = Len(words)
  BY LenProperties DEF Text
<1> DEFINE relocate == index = last /\ last > 0 /\ words[last].dots > 0
           before == IF relocate THEN [words EXCEPT ![last].dots = @ - 1] ELSE words
           spliced == (SubSeq(before, 1, index) \o content) \o SubSeq(before, index + 1, last)
<1>3. apply_insert(text, index, content) =
         IF index > last THEN text
         ELSE IF relocate THEN [spliced EXCEPT ![Len(spliced)].dots = @ + 1]
         ELSE spliced
  BY <1>1, <1>2 DEF apply_insert
<1>4. before \in Text /\ Len(before) = last
  <2>1. CASE relocate
    <3>1. last \in 1..Len(words) /\ words[last] \in Word
      BY <1>2, <2>1, ElementOfSeq DEF Text
    <3>2. PICK n \in Nat : n = words[last].dots - 1
      BY <2>1, <3>1 DEF Word
    <3>3. [words EXCEPT ![last].dots = n] \in Text
      BY <3>1, DotsType
    <3>4. before = [words EXCEPT ![last].dots = n]
      BY <2>1, <3>2
    <3>5. Len(before) = Len(words)
      BY <2>1 DEF Text
    <3> QED
      BY <1>2, <3>3, <3>4, <3>5
  <2>2. CASE ~relocate
    BY <1>2, <2>2
  <2> QED
    BY <2>1, <2>2
<1> HIDE DEF before
<1>5. CASE index > last
  BY <1>3, <1>5
<1>6. CASE ~(index > last)
  <2>1. index <= Len(before) /\ index + 1 \in Nat /\ index + 1 >= 1
    BY <1>2, <1>4, <1>6
  <2>2. spliced \in Text /\ Len(spliced) >= index
    BY <1>4, <2>1, SpliceType
  <2> HIDE DEF spliced
  <2>3. CASE relocate
    <3>1. Len(spliced) \in 1..Len(spliced)
      <4>1. Len(spliced) \in Nat
        BY <2>2, LenProperties DEF Text
      <4> QED
        BY <2>2, <2>3, <4>1
    <3>2. spliced[Len(spliced)] \in Word
      BY <2>2, <3>1, ElementOfSeq DEF Text
    <3>3. PICK n \in Nat : n = spliced[Len(spliced)].dots + 1
      BY <3>2 DEF Word
    <3>4. [spliced EXCEPT ![Len(spliced)].dots = n] \in Text
      BY <2>2, <3>1, DotsType
    <3>5. apply_insert(text, index, content) = [spliced EXCEPT ![Len(spliced)].dots = n]
      BY <1>3, <1>6, <2>3, <3>3
    <3> QED
      BY <3>4, <3>5
  <2>4. CASE ~relocate
    BY <1>3, <1>6, <2>2, <2>4
  <2> QED
    BY <2>3, <2>4
<1> QED
  BY <1>5, <1>6

\* WRITE_REPLACE and WRITE_DELETE leave a sentence text.
LEMMA ReplaceType ==
    ASSUME NEW text \in Text, NEW index \in Nat, NEW content \in Text
    PROVE  apply_replace(text, index, content) \in Text /\ apply_delete(text, index) \in Text
<1>1. ASSUME NEW c \in Text PROVE apply_replace(text, index, c) \in Text
  <2>1. PICK words \in Text : words = split_words(text)
    BY WordsType
  <2>2. Len(words) \in Nat
    BY LenProperties DEF Text
  <2>3. CASE index >= Len(words)
    BY <2>1, <2>3 DEF apply_replace
  <2>4. CASE ~(index >= Len(words))
    <3>1. index <= Len(words) /\ index + 2 \in Nat /\ index + 2 >= 1
      BY <2>2, <2>4
    <3>2. (SubSeq(words, 1, index) \o c) \o SubSeq(words, index + 2, Len(words)) \in Text
      BY <3>1, SpliceType
    <3> QED
      BY <2>1, <2>4, <3>2 DEF apply_replace
  <2> QED
    BY <2>3, <2>4
<1>2. <<>> \in Text
  BY EmptySeq DEF Text
<1> QED
  BY <1>1, <1>2 DEF apply_delete
=============================================================================
