SPECIFICATION Spec
CONSTANTS
  Sentence <- Sentences
  Length <- MCLength
  HasDigit = {"s1", "s6"}
  Word = {"w1", "w2", "w3", "w4"}
  Language = {"en", "pt"}
  Keywords <- MCKeywords
  Words <- MCWords
  Requested = {"en", "pt", "es"}
  MaxSentences = 5
INVARIANTS
  BestAreShown
  RepeatedWhyIsLong
  PaddingChangesNothing
