---------------------------- MODULE SentenceText ----------------------------
(***************************************************************************)
(* The text functions of the storage server (ss/ss_main.c): how a document *)
(* is cut into sentences and words, how a WRITE session edits one          *)
(* sentence, and how a commit finds that sentence again in a document that *)
(* changed meanwhile and merges the edit into it.                          *)
(*                                                                         *)
(* A text is a sequence of words.  A word is a base (any run of characters *)
(* other than blanks and delimiters) followed by some number of sentence   *)
(* delimiters ('.', '!' or '?', not told apart).  White space is           *)
(* abstracted: the server itself reads a newline as a blank and trims      *)
(* every sentence, so two texts with the same words are cut alike.         *)
(* Sentence and word indices are 0-based, as they are in the protocol.     *)
(***************************************************************************)
EXTENDS Integers, SequencesExt

CONSTANTS Base,    \* the letters of words, without delimiters
          NoBase   \* the empty base: a word made of delimiters only

ASSUME BaseAssumption == NoBase \notin Base

Word == [base : Base \cup {NoBase}, dots : Nat]

Text == Seq(Word)

(***************************************************************************)
(* Cutting and joining.                                                    *)
(***************************************************************************)

\* What the sentence splitter sees of one word: "ab.." is cut after each
\* delimiter into "ab." and ".", and an empty word leaves nothing.
cut_word(w) ==
    CASE w.dots = 0 -> IF w.base = NoBase THEN <<>> ELSE <<w>>
      [] w.dots > 0 -> [k \in 1..w.dots |->
                           [base |-> IF k = 1 THEN w.base ELSE NoBase, dots |-> 1]]

\* The words of a text once every delimiter ends its word.
cut(text) == FlattenSeq([i \in DOMAIN text |-> cut_word(text[i])])

\* The next word begins a sentence at the start and after a delimiter, and
\* otherwise continues the last one.
add_word(sentences, words, n) ==
    IF n = 1 \/ words[n - 1].dots > 0
    THEN Append(sentences, <<words[n]>>)
    ELSE [sentences EXCEPT ![Len(sentences)] = Append(@, words[n])]

\* The sequence of the sentences of a text.
split_sentences(text) ==
    LET words == cut(text)
        read[n \in 0..Len(words)] ==
            IF n = 0 THEN <<>> ELSE add_word(read[n - 1], words, n)
    IN  read[Len(words)]

\* Sentences are joined by a newline, which is a blank to the splitter: an
\* unterminated sentence runs into the next one when the text is cut again.
join_sentences(sentences) == FlattenSeq(sentences)

\* Counts blank-separated words; a stored text has been cut.
count_words_in_text(text) == Len(text)

(***************************************************************************)
(* The edits of a session.  Each returns the edited sentence text; an      *)
(* index out of range leaves it as it was (ERR_BADREQ).                    *)
(***************************************************************************)

\* The blank-separated words of a sentence text: a word whose delimiter was
\* taken away and that has no base is no word.
split_words(text) ==
    FlattenSeq([i \in DOMAIN text |->
        IF text[i].base = NoBase /\ text[i].dots = 0 THEN <<>> ELSE <<text[i]>>])

\* Inserting after the last word moves that word's delimiter behind the
\* inserted words.
apply_insert(text, index, content) ==
    LET words == split_words(text)
        last  == Len(words)
        relocate == index = last /\ last > 0 /\ words[last].dots > 0
        before == IF relocate THEN [words EXCEPT ![last].dots = @ - 1] ELSE words
        spliced == SubSeq(before, 1, index) \o content \o SubSeq(before, index + 1, last)
    IN  IF index > last THEN text
        ELSE IF relocate THEN [spliced EXCEPT ![Len(spliced)].dots = @ + 1]
        ELSE spliced

apply_replace(text, index, content) ==
    LET words == split_words(text)
    IN  IF index >= Len(words) THEN text
        ELSE SubSeq(words, 1, index) \o content \o SubSeq(words, index + 2, Len(words))

apply_delete(text, index) == apply_replace(text, index, <<>>)

(***************************************************************************)
(* The commit-time merge.                                                  *)
(***************************************************************************)

CONTEXT_MATCH_LIMIT == 4

\* How many neighbours of the candidate agree, in one direction, with the
\* neighbours the sentence had when the session began.
count_context_matches(latest, original, candidate, target, direction) ==
    LET agrees(step) ==
            LET o == target + direction * step
                l == candidate + direction * step
            IN  /\ o \in 0..(Len(original) - 1)
                /\ l \in 0..(Len(latest) - 1)
                /\ original[o + 1] = latest[l + 1]
    IN  Max({n \in 0..CONTEXT_MATCH_LIMIT : \A step \in 1..n : agrees(step)})

score(latest, original, candidate, target) ==
    LET distance == IF candidate < target THEN target - candidate ELSE candidate - target
    IN    1000 * count_context_matches(latest, original, candidate, target, -1)
        + 500 * count_context_matches(latest, original, candidate, target, 1)
        - 10 * distance
        - (IF candidate < target THEN 50 ELSE 0)

\* The places of the latest document where the baseline sentence stands.
candidates(latest, baseline) ==
    {i \in 0..(Len(latest) - 1) : latest[i + 1] = baseline}

\* The candidate with the best score, the first of them on a tie.
best_index(latest, original, baseline, target) ==
    CHOOSE i \in candidates(latest, baseline) :
        \A j \in candidates(latest, baseline) :
            LET si == score(latest, original, i, target)
                sj == score(latest, original, j, target)
            IN  sj < si \/ (sj = si /\ i <= j)

\* The baseline is gone: the commit is refused with ERR_CONFLICT.
conflicts(latest, baseline) == baseline # <<>> /\ candidates(latest, baseline) = {}

\* Wrong variant: the old sentence is kept behind the new one.
merge_keeps_baseline(latest, original, baseline, target, parts) ==
    LET clamped == IF target > Len(latest) THEN Len(latest) ELSE target
        at == IF baseline = <<>> THEN clamped
              ELSE best_index(latest, original, baseline, target)
    IN  SubSeq(latest, 1, at) \o parts \o SubSeq(latest, at + 1, Len(latest))

\* The sentences after a commit that does not conflict.  Without a baseline
\* (the session was opened past the last sentence) nothing is replaced.
merge(latest, original, baseline, target, parts) ==
    LET clamped == IF target > Len(latest) THEN Len(latest) ELSE target
        at == IF baseline = <<>> THEN clamped
              ELSE best_index(latest, original, baseline, target)
        rest == IF baseline = <<>> THEN at + 1 ELSE at + 2
    IN  SubSeq(latest, 1, at) \o parts \o SubSeq(latest, rest, Len(latest))

\* One occurrence of the words old is replaced by the words new, and every
\* other word stays where it is: what a merge promises.
Replaced(before, after, old, new) ==
    \E k \in 0..(Len(before) - Len(old)) :
        LET rest == k + Len(old) IN
        /\ SubSeq(before, k + 1, rest) = old
        /\ after = SubSeq(before, 1, k) \o new \o SubSeq(before, rest + 1, Len(before))
=============================================================================
