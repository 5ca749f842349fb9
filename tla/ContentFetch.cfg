SPECIFICATION CSpec
CONSTANTS
  a1 = a1
  a2 = a2
  a3 = a3
  None = None
  Article <- ThreeArticles
  Message = {m1, m2, m3, m4}
  Ingester = {i1, i2}
  Worker = {}
  ManualJob <- ReprocessA1
  MaxFaults = 2
  ConsistentReads = TRUE
  Language = {"en", "pt"}
  Feed = {"shared", "own"}
  Entry = {"e1", "e2", "e3", "e4"}
  Registry <- MCRegistry
  Document <- MCDocument
  DateValue <- MCDateValue
  PageText <- MCPageText
  HashOf <- MCHashOf
SYMMETRY Symmetry
INVARIANTS
  OneListingPerArticle
PROPERTIES
  FinishedIsServed
