------------------------------ MODULE SmartBrevity ------------------------------
(***************************************************************************)
(* SmartBrevitySummarizer: the summary that a worker records for an        *)
(* article.  The sentences of the text that are long enough are scored by  *)
(* the frequency of their words and by bonuses for digits, keywords and    *)
(* position; the best one says why it matters, the next ones are bullets,  *)
(* and the last of the text is the bottom line.                            *)
(*                                                                         *)
(* The content of an article is the sequence of its sentences.  A score is *)
(* kept as an integer, times the frequency of the most frequent word: the  *)
(* code's floating-point quotients are exact when no count exceeds two.    *)
(***************************************************************************)
EXTENDS Integers, SequencesExt

CONSTANTS
  Sentence,      \* sentences, normalised
  Length,        \* characters of each sentence
  HasDigit,      \* sentences with a digit
  Word,
  Language,      \* languages that have a profile
  Keywords,      \* the sentences with a keyword of each language
  Words,         \* by language, how often a sentence has a word that counts
  Requested,     \* languages that jobs ask for
  MaxSentences   \* bound on the sentences of an article

ASSUME LengthAssumption == Length \in [Sentence -> Nat \ {0}]
ASSUME DigitAssumption == HasDigit \subseteq Sentence
ASSUME ProfileAssumption ==
  /\ "en" \in Language
  /\ Keywords \in [Language -> SUBSET Sentence]
  /\ Words \in [Language -> [Sentence -> [Word -> Nat]]]
ASSUME WordAssumption == IsFiniteSet(Word)
ASSUME BoundAssumption == MaxSentences \in Nat

(* The texts for an article that has no sentence are not sentences.        *)
ASSUME FallbackAssumption == Sentence \cap {"fallback_why", "fallback_bullet"} = {}

VARIABLES
  content,    \* the sentences of an article
  lang,       \* the language its job asked for
  summary     \* the summary of it

vars == <<content, lang, summary>>

(* _resolve_language                                                       *)
Resolved(requested) == IF requested \in Language THEN requested ELSE "en"

(* What a profile says of sentences.                                       *)
Profile(requested) ==
  [keywords |-> Keywords[Resolved(requested)], words |-> Words[Resolved(requested)]]

(* A text is so many characters of a sentence.                             *)
Text(s) == [of |-> s, upto |-> Length[s]]
Fallback(name) == [of |-> name, upto |-> 0]
Truncate(text, max) == IF text.upto <= max THEN text ELSE [text EXCEPT !.upto = max]

-----------------------------------------------------------------------------
(* Mutant: a sentence may occur twice.                                     *)
MeaningfulRepeated(sentences) ==
  FoldLeft(LAMBDA unique, s : IF Length[s] < 20 THEN unique ELSE Append(unique, s), <<>>, sentences)

(* _dedupe_sentences of the sentences of at least 20 characters.           *)
Meaningful(sentences) ==
  FoldLeft(LAMBDA unique, s : IF Length[s] < 20 \/ Contains(unique, s) THEN unique
                              ELSE Append(unique, s),
           <<>>, sentences)

Count(word, sentences, profile) ==
  SumFunction([k \in DOMAIN sentences |-> profile.words[sentences[k]][word]])

MaxFrequency(sentences, profile) ==
  Max({0} \cup {Count(word, sentences, profile) : word \in Word})

(* The score of the k-th sentence.                                         *)
Score(k, sentences, profile) ==
  LET s == sentences[k]
      scale == Max({1, MaxFrequency(sentences, profile)})
      base == SumFunction([word \in Word |->
                             profile.words[s][word] * Count(word, sentences, profile)])
      number == IF s \in HasDigit THEN 2 ELSE 0
      keyword == IF s \in profile.keywords THEN 2 ELSE 0
      position == IF k \in {1, Len(sentences)} THEN 1 ELSE 0
  IN base + scale * (number + keyword + position)

(* Mutant: of two equal scores, the later one.                             *)
RanksLate(j, k, score) == score[j] > score[k] \/ (score[j] = score[k] /\ j > k)

(* The order of the sort: by score, then by position.                      *)
Ranks(j, k, score) == score[j] > score[k] \/ (score[j] = score[k] /\ j < k)

(* The position that n - 1 positions come before.                          *)
Nth(n, score) ==
  CHOOSE k \in DOMAIN score : Cardinality({j \in DOMAIN score : Ranks(j, k, score)}) = n - 1

Scored(sentences, profile) ==
  LET score == [k \in DOMAIN sentences |-> Score(k, sentences, profile)]
  IN [n \in DOMAIN sentences |-> sentences[Nth(n, score)]]

Why(scored) ==
  Truncate(IF scored = <<>> THEN Fallback("fallback_why") ELSE Text(Head(scored)), 160)

(* Mutant: the sentence of the why line is not looked for.                 *)
BulletsAll(scored, why) ==
  LET chosen == SubSeq(scored, 1, Min({3, Len(scored)}))
  IN IF chosen = <<>> THEN <<Fallback("fallback_bullet")>>
     ELSE [n \in DOMAIN chosen |-> Truncate(Text(chosen[n]), 200)]

(* The best three other than the why line, as that was truncated.          *)
Bullets(scored, why) ==
  LET chosen == FoldLeft(LAMBDA bullets, s : IF Text(s) = why \/ Len(bullets) = 3 THEN bullets
                                             ELSE Append(bullets, s),
                         <<>>, scored)
  IN IF chosen = <<>> THEN <<Fallback("fallback_bullet")>>
     ELSE [n \in DOMAIN chosen |-> Truncate(Text(chosen[n]), 200)]

BottomLine(sentences) ==
  Truncate(IF sentences = <<>> THEN Fallback("fallback_bottom") ELSE Text(Last(sentences)), 160)

Summary(sentences, requested) ==
  LET meaningful == Meaningful(sentences)
      scored == Scored(meaningful, Profile(requested))
      why == Why(scored)
  IN [why |-> why, bullets |-> Bullets(scored, why), bottom |-> BottomLine(meaningful)]

-----------------------------------------------------------------------------
(* The summary is PENDING.                                                 *)
Pending == [why |-> Fallback("pending"), bullets |-> <<>>, bottom |-> Fallback("pending")]

Init ==
  /\ content \in SeqOf(Sentence, MaxSentences)
  /\ lang \in Requested
  /\ summary = Pending

(* One delivery of the job; another one writes the summary again.          *)
Summarize ==
  /\ summary' = Summary(content, lang)
  /\ UNCHANGED <<content, lang>>

Next == Summarize

Spec == Init /\ [][Next]_vars

-----------------------------------------------------------------------------
(* Sentences that count, by their first position in the content.           *)
Known == {s \in Range(content) : Length[s] >= 20}
FirstAt(s) == CHOOSE k \in DOMAIN content : content[k] = s /\ \A l \in 1 .. k - 1 : content[l] # s

(* The score of a sentence among the known ones, stated over the set.      *)
Worth(s) ==
  LET profile == Profile(lang)
      count(word) == SumFunction([t \in Known |-> profile.words[t][word]])
      most == Max({1} \cup {count(word) : word \in Word})
      extreme == \/ \A t \in Known : FirstAt(s) <= FirstAt(t)
                 \/ \A t \in Known : FirstAt(t) <= FirstAt(s)
  IN SumFunction([word \in Word |-> profile.words[s][word] * count(word)])
     + most * ((IF s \in HasDigit THEN 2 ELSE 0) + (IF s \in profile.keywords THEN 2 ELSE 0)
               + (IF extreme THEN 1 ELSE 0))

Better(s, t) == Worth(s) > Worth(t) \/ (Worth(s) = Worth(t) /\ FirstAt(s) < FirstAt(t))

Shown == {text.of : text \in {summary.why} \cup Range(summary.bullets)} \cap Sentence

(* No sentence is left out for one that is worth less, the best is the why *)
(* line and the bullets are in order; of two that are worth the same, the  *)
(* one that the article has first.                                         *)
BestAreShown ==
  summary # Pending =>
    /\ Known # {} => \A s \in Known \ {summary.why.of} : Better(summary.why.of, s)
    /\ \A s \in Shown, t \in Known \ Shown : Better(s, t)
    /\ \A m, n \in DOMAIN summary.bullets :
         m < n => Better(summary.bullets[m].of, summary.bullets[n].of)

(* A summary shows the best four sentences, or all; but a why line of more *)
(* than 160 characters is repeated as the first bullet, because it was     *)
(* truncated when the bullets are compared with it, and takes the place of *)
(* the fourth.                                                             *)
RepeatedWhyIsLong ==
  LET long == Known # {} /\ Length[summary.why.of] > 160 IN
  summary # Pending =>
    /\ (\E n \in DOMAIN summary.bullets : summary.bullets[n].of = summary.why.of) <=> long
    /\ Cardinality(Shown) = Min({Cardinality(Known), IF long THEN 3 ELSE 4})

(* A sentence that repeats an earlier one, or is too short to count, adds  *)
(* nothing to an article: not to the word frequencies, nor to what is the  *)
(* last sentence.                                                          *)
PaddingChangesNothing ==
  summary # Pending =>
    \A s \in Sentence :
      Length[s] < 20 \/ s \in Range(content) => Summary(Append(content, s), lang) = summary
=============================================================================
