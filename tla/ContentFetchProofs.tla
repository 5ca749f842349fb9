--------------------------- MODULE ContentFetchProofs ---------------------------
(***************************************************************************)
(* Theorems about ContentFetch, for all registries, documents, pages and   *)
(* hashes and everything that SummaryPipelineProofs leaves open.           *)
(***************************************************************************)
EXTENDS ContentFetch, SummaryPipelineProofs, SequenceTheorems, Foundations

-----------------------------------------------------------------------------
(* The inductive invariant.                                                *)

Runs == [pc : {"idle", "running"}, lang : Language \cup {None}, feeds : Seq(Feed),
         source : Feed \cup {None}, entries : SUBSET Nat, given : SUBSET Entry,
         date : DateField \cup {"none"}]
Dating == [lang : Language, date : DateField \cup {"none"}]

FetchTypes ==
  /\ run \in [Ingester -> Runs]
  /\ item \in [Article -> Dating \cup {None}]

(* The entry is an article of the table, in this language or in another    *)
(* that has it too.                                                        *)
Handled(e, lang) ==
  \E a \in Articles(e) \cap raw : item[a].lang = lang \/ SharedBeyond(lang, a)

Awaits(i, e) == \E k \in run[i].entries : Document[run[i].source][k] = e

(* A run has only feeds and entries of its language before it, and what it *)
(* was given is before it or handled.                                      *)
RunInv(i) ==
  run[i].pc = "running" =>
    /\ run[i].lang \in Language
    /\ \A n \in DOMAIN run[i].feeds : run[i].feeds[n] \in FeedsOf(run[i].lang)
    /\ run[i].entries # {} => /\ run[i].source \in FeedsOf(run[i].lang)
                              /\ run[i].entries \subseteq Normalized(Document[run[i].source])
    /\ \A e \in run[i].given : Handled(e, run[i].lang) \/ Awaits(i, e)

RunsInv == \A i \in Ingester : RunInv(i)

(* The article in the hands of an ingest() is the one its run has stored.  *)
InHand ==
  \A i \in Ingester : ing[i].pc # "idle" =>
    /\ run[i].pc = "running"
    /\ item[ing[i].art] = [lang |-> run[i].lang, date |-> run[i].date]

(* The language of an article is that of a feed it came from.              *)
ItemHasSource ==
  \A a \in raw : \E l \in Language :
    item[a].lang = l /\ \E e \in EntriesFor(l) : a \in Articles(e)

ListedIsStored == \A row \in rows : row.art \in raw

FInv ==
  /\ FetchTypes
  /\ RunsInv
  /\ InHand
  /\ ItemHasSource
  /\ ListedIsStored
  /\ OneListingPerArticle

-----------------------------------------------------------------------------
(* Entries and their articles.                                             *)

LEMMA EntryTypes ==
  /\ \A s \in Feed : \A k \in Normalized(Document[s]) : k \in Nat /\ Document[s][k] \in Entry
  /\ \A e \in Entry : Articles(e) \subseteq Article
  /\ \A e \in Entry : PublishedAt(e) \in DateField \cup {"none"}
  /\ \A l \in Language : FeedsOf(l) \subseteq Feed
<1>1. \A s \in Feed : \A k \in Normalized(Document[s]) : k \in Nat /\ Document[s][k] \in Entry
  BY DocumentAssumption DEF Normalized
<1>2. \A e \in Entry : Articles(e) \subseteq Article
  <2>1. \A e \in Entry : Enriched(e) \subseteq Version
    BY DEF Enriched, Version
  <2> QED
    BY <2>1, EntryAssumption DEF Articles, ContentHash
<1>3. ASSUME NEW e \in Entry
      PROVE  PublishedAt(e) \in DateField \cup {"none"}
  <2>1. DOMAIN DateOrder \subseteq Nat
    BY DEF DateOrder
  <2>2. Dates(e) \subseteq DOMAIN DateOrder /\ Dates(e) \in SUBSET Nat
    BY <2>1 DEF Dates
  <2>3. CASE Dates(e) # {}
    <3>1. \E k \in Dates(e) : \A l \in Dates(e) : k <= l
      BY <2>2, <2>3, LeastNatural
    <3> DEFINE k == CHOOSE k \in Dates(e) : \A l \in Dates(e) : k <= l
    <3>2. k \in DOMAIN DateOrder
      BY <3>1, <2>2
    <3>3. PublishedAt(e) = DateOrder[k]
      BY <2>3 DEF PublishedAt
    <3> QED
      BY <3>2, <3>3 DEF DateField
  <2>4. CASE Dates(e) = {}
    BY <2>4 DEF PublishedAt
  <2> QED
    BY <2>3, <2>4
<1>4. \A l \in Language : FeedsOf(l) \subseteq Feed
  BY RegistryAssumption DEF FeedsOf
<1> QED
  BY <1>1, <1>2, <1>3, <1>4

(* The entry that a run turns to is one of those before it.                *)
LEMMA NextEntryIsKnown ==
  ASSUME FInv, NEW i \in Ingester, Between(i), run[i].entries # {}
  PROVE  /\ NextPosition(i) \in run[i].entries
         /\ NextEntry(i) = Document[run[i].source][NextPosition(i)]
         /\ NextEntry(i) \in Entry
         /\ NextEntry(i) \in EntriesFor(run[i].lang)
         /\ run[i].lang \in Language
<1>1. run[i].entries \in SUBSET Nat /\ run[i].entries # {}
  BY DEF FInv, FetchTypes, Runs
<1>2. NextPosition(i) \in run[i].entries
  <2>1. \E k \in run[i].entries : \A l \in run[i].entries : k <= l
    BY <1>1, LeastNatural
  <2> QED
    BY <2>1 DEF NextPosition
<1>3. RunInv(i) /\ run[i].pc = "running"
  BY DEF FInv, RunsInv, Between
<1>4. /\ run[i].lang \in Language
      /\ run[i].source \in FeedsOf(run[i].lang)
      /\ NextPosition(i) \in Normalized(Document[run[i].source])
  BY <1>1, <1>2, <1>3 DEF RunInv
<1>5. NextEntry(i) \in EntriesFor(run[i].lang)
  BY <1>4 DEF EntriesFor, NextEntry
<1>6. NextEntry(i) \in Entry
  BY <1>4, EntryTypes DEF NextEntry
<1> QED
  BY <1>2, <1>4, <1>5, <1>6 DEF NextEntry

-----------------------------------------------------------------------------
(* Every step of ContentFetch is one of these.                             *)
LEMMA FetchCases ==
  ASSUME CNext
  PROVE  \/ \E i \in Ingester, lang \in Language : BeginRun(i, lang)
         \/ \E i \in Ingester : FetchFeed(i) \/ StoreEntry(i) \/ SkipEntry(i) \/ ListEntry(i)
                                \/ OweSummary(i) \/ AskForSummary(i) \/ EndRun(i)
                                \/ RunRaises(i) \/ RunDies(i)
         \/ Elsewhere
BY Zenon DEF CNext, RunStep

(* Each is a step of the pipeline, or leaves the pipeline alone.           *)
LEMMA StepOfPipeline ==
  ASSUME FInv, [CNext]_allVars
  PROVE  [Next]_vars
<1>1. ASSUME NEW i \in Ingester, IngesterStep(i)
      PROVE  [Next]_vars
  BY <1>1, Zenon DEF Next
<1>2. ASSUME NEW i \in Ingester, StoreEntry(i)
      PROVE  [Next]_vars
  <2>1. PICK a \in Articles(NextEntry(i)) : PutRaw(i, a)
    BY <1>2 DEF StoreEntry
  <2>2. a \in Article
    BY <1>2, NextEntryIsKnown, EntryTypes DEF StoreEntry
  <2> QED
    BY <1>1, <2>1, <2>2, Zenon DEF IngesterStep
<1>3. ASSUME NEW i \in Ingester, SkipEntry(i)
      PROVE  [Next]_vars
  <2>1. PICK a \in Articles(NextEntry(i)) : IngestDuplicate(i, a)
    BY <1>3 DEF SkipEntry
  <2>2. a \in Article
    BY <1>3, NextEntryIsKnown, EntryTypes DEF SkipEntry
  <2> QED
    BY <1>1, <2>1, <2>2, Zenon DEF IngesterStep
<1>4. ASSUME NEW i \in Ingester, ListEntry(i) \/ OweSummary(i) \/ AskForSummary(i) \/ RunDies(i)
      PROVE  [Next]_vars
  BY <1>1, <1>4, Zenon DEF ListEntry, OweSummary, AskForSummary, RunDies, IngesterStep
<1>5. CASE UNCHANGED vars
  BY <1>5
<1>6. CASE Elsewhere
  BY <1>6, Zenon DEF Elsewhere, Next
<1>7. CASE UNCHANGED allVars
  BY <1>5, <1>7 DEF allVars
<1>8. CASE CNext
  <2>1. \A i \in Ingester : \A lang \in Language : BeginRun(i, lang) => UNCHANGED vars
    BY DEF BeginRun
  <2>2. \A i \in Ingester : FetchFeed(i) \/ EndRun(i) \/ RunRaises(i) => UNCHANGED vars
    BY DEF FetchFeed, EndRun, RunRaises
  <2> QED
    BY <1>2, <1>3, <1>4, <1>5, <1>6, <1>8, <2>1, <2>2, FetchCases, Zenon
<1> QED
  BY <1>7, <1>8

-----------------------------------------------------------------------------
(* The effect of the steps on the variables of ContentFetch.               *)

LEMMA FetchTypesStep ==
  ASSUME FInv, [CNext]_allVars
  PROVE  FetchTypes'
<1> USE NoneIsNoInput
<1> USE DEF FetchTypes, Runs
<1>0. /\ run \in [Ingester -> Runs]
      /\ item \in [Article -> Dating \cup {None}]
      /\ NoRun \in Runs
  BY DEF FInv, NoRun
<1>1. ASSUME NEW i \in Ingester, NEW r \in Runs, run' = [run EXCEPT ![i] = r], UNCHANGED item
      PROVE  FetchTypes'
  BY <1>0, <1>1
<1>2. ASSUME NEW i \in Ingester, NEW lang \in Language, BeginRun(i, lang)
      PROVE  FetchTypes'
  <2>1. [NoRun EXCEPT !.pc = "running", !.lang = lang, !.feeds = Registry[lang]] \in Runs
    BY <1>0, RegistryAssumption
  <2> QED
    BY <1>1, <1>2, <2>1 DEF BeginRun
<1>3. ASSUME NEW i \in Ingester, FetchFeed(i)
      PROVE  FetchTypes'
  <2> DEFINE s == Head(run[i].feeds)
  <2>1. run[i] \in Runs /\ run[i].feeds # <<>>
    BY <1>0, <1>3 DEF FetchFeed
  <2>2. s \in Feed /\ Tail(run[i].feeds) \in Seq(Feed)
    BY <2>1, HeadTailProperties
  <2>3. PICK kept \in {Normalized(Document[s]), {}} :
          run' = [run EXCEPT ![i] = WithEntries(@, s, kept)]
    BY <1>3 DEF FetchFeed
  <2>4. kept \in SUBSET Nat /\ {Document[s][k] : k \in kept} \in SUBSET Entry
    BY <2>2, EntryTypes
  <2> DEFINE r == WithEntries(run[i], s, kept)
  <2>5. r \in Runs
    <3> HIDE DEF s
    <3> QED
      BY <2>1, <2>2, <2>4 DEF WithEntries
  <2>6. run' = [run EXCEPT ![i] = r] /\ UNCHANGED item
    BY <1>3, <2>3 DEF FetchFeed
  <2> HIDE DEF r
  <2> QED
    BY <1>1, <2>5, <2>6
<1>4. ASSUME NEW i \in Ingester, StoreEntry(i)
      PROVE  FetchTypes'
  <2>1. PICK a \in Articles(NextEntry(i)) :
          item' = [item EXCEPT ![a] = [lang |-> run[i].lang, date |-> PublishedAt(NextEntry(i))]]
    BY <1>4 DEF StoreEntry
  <2>2. NextEntry(i) \in Entry /\ run[i].lang \in Language
    BY <1>4, NextEntryIsKnown DEF StoreEntry
  <2>3. PublishedAt(NextEntry(i)) \in DateField \cup {"none"}
    BY <2>2, EntryTypes
  <2>4. item' \in [Article -> Dating \cup {None}]
    BY <1>0, <2>1, <2>2, <2>3 DEF Dating
  <2>5. run' \in [Ingester -> Runs]
    BY <1>0, <1>4, <2>3 DEF StoreEntry
  <2> QED
    BY <2>4, <2>5
<1>5. ASSUME NEW i \in Ingester, SkipEntry(i)
      PROVE  FetchTypes'
  BY <1>0, <1>5 DEF SkipEntry
<1>6. ASSUME NEW i \in Ingester, AskForSummary(i)
      PROVE  FetchTypes'
  BY <1>0, <1>6 DEF AskForSummary
<1>7. ASSUME NEW i \in Ingester, EndRun(i) \/ RunRaises(i) \/ RunDies(i)
      PROVE  FetchTypes'
  BY <1>0, <1>1, <1>7 DEF EndRun, RunRaises, RunDies
<1>8. CASE UNCHANGED <<run, item>>
  BY <1>0, <1>8
<1>9. CASE UNCHANGED allVars
  BY <1>8, <1>9 DEF allVars, fetchVars
<1>10. CASE CNext
  <2>1. \A i \in Ingester : ListEntry(i) \/ OweSummary(i) => UNCHANGED <<run, item>>
    BY DEF ListEntry, OweSummary, fetchVars
  <2>2. Elsewhere => UNCHANGED <<run, item>>
    BY DEF Elsewhere, fetchVars
  <2> QED
    BY <1>10, <1>2, <1>3, <1>4, <1>5, <1>6, <1>7, <1>8, <2>1, <2>2, FetchCases, Zenon
<1> QED
  BY <1>9, <1>10

(* A stored article keeps its item.                                        *)
ItemsStay ==
  /\ raw \subseteq raw'
  /\ \A a \in raw : item'[a] = item[a]

LEMMA ItemsStep ==
  ASSUME FInv, TypeOK, [CNext]_allVars
  PROVE  ItemsStay
<1>1. raw \subseteq raw'
  BY StepOfPipeline, StepKeeps DEF Kept
<1>2. CASE UNCHANGED item
  BY <1>1, <1>2 DEF ItemsStay
<1>3. ASSUME NEW i \in Ingester, StoreEntry(i)
      PROVE  ItemsStay
  <2>1. PICK a \in Articles(NextEntry(i)) :
          /\ PutRaw(i, a)
          /\ item' = [item EXCEPT ![a] = [lang |-> run[i].lang, date |-> PublishedAt(NextEntry(i))]]
    BY <1>3 DEF StoreEntry
  <2>2. a \notin raw
    BY <2>1 DEF PutRaw
  <2>3. \A b \in raw : item'[b] = item[b]
    BY <2>1, <2>2 DEF FInv, FetchTypes, TypeOK
  <2> QED
    BY <1>1, <2>3 DEF ItemsStay
<1>4. CASE UNCHANGED allVars
  BY <1>2, <1>4 DEF allVars, fetchVars
<1>5. CASE CNext
  <2>1. \A i \in Ingester : \A lang \in Language : BeginRun(i, lang) => UNCHANGED item
    BY DEF BeginRun
  <2>2. \A i \in Ingester : FetchFeed(i) \/ SkipEntry(i) \/ ListEntry(i) \/ OweSummary(i)
          \/ AskForSummary(i) \/ EndRun(i) \/ RunRaises(i) \/ RunDies(i) => UNCHANGED item
    BY DEF FetchFeed, SkipEntry, ListEntry, OweSummary, AskForSummary, EndRun, RunRaises, RunDies,
       fetchVars
  <2>3. Elsewhere => UNCHANGED item
    BY DEF Elsewhere, fetchVars
  <2> QED
    BY <1>2, <1>3, <1>5, <2>1, <2>2, <2>3, FetchCases, Zenon
<1> QED
  BY <1>4, <1>5

LEMMA HandledStays ==
  ASSUME ItemsStay, NEW e, NEW lang, Handled(e, lang)
  PROVE  Handled(e, lang)'
BY DEF ItemsStay, Handled

(* What is found in the table was handled before, in this language or in   *)
(* another that has it.                                                    *)
LEMMA FoundIsHandled ==
  ASSUME FInv, NEW e, NEW lang \in Language, NEW a \in Articles(e), a \in raw
  PROVE  Handled(e, lang)
<1>1. PICK l \in Language : item[a].lang = l /\ \E f \in EntriesFor(l) : a \in Articles(f)
  BY DEF FInv, ItemHasSource
<1>2. CASE l = lang
  BY <1>1, <1>2 DEF Handled
<1>3. CASE l # lang
  BY <1>1, <1>3 DEF Handled, SharedBeyond
<1> QED
  BY <1>2, <1>3

-----------------------------------------------------------------------------
(* Each part of the invariant is kept.                                     *)

(* A run that takes no step keeps its part, whoever stores what.           *)
LEMMA IdleRunKeepsInv ==
  ASSUME ItemsStay, NEW i \in Ingester, RunInv(i), run'[i] = run[i]
  PROVE  RunInv(i)'
<1>1. \A e : Awaits(i, e) => Awaits(i, e)'
  BY DEF Awaits
<1> QED
  BY <1>1, HandledStays DEF RunInv

(* The entry in turn is done with, and its article is in the table.        *)
LEMMA EntryDone ==
  ASSUME FInv, ItemsStay, NEW i \in Ingester, Between(i),
         run'[i].pc = run[i].pc, run'[i].lang = run[i].lang, run'[i].feeds = run[i].feeds,
         run'[i].source = run[i].source, run'[i].given = run[i].given,
         run'[i].entries = run[i].entries \ {NextPosition(i)},
         NEW f, f = NextEntry(i), NEW lang, lang = run[i].lang, Handled(f, lang)'
  PROVE  RunInv(i)'
<1>1. RunInv(i) /\ run[i].pc = "running"
  BY DEF FInv, RunsInv, Between
<1>2. ASSUME NEW e \in run[i].given
      PROVE  Handled(e, lang)' \/ Awaits(i, e)'
  <2>1. CASE Handled(e, lang)
    BY <2>1, HandledStays
  <2>2. CASE Awaits(i, e)
    <3>1. PICK k \in run[i].entries : Document[run[i].source][k] = e
      BY <2>2 DEF Awaits
    <3>2. CASE k = NextPosition(i)
      BY <3>1, <3>2 DEF NextEntry
    <3>3. CASE k # NextPosition(i)
      BY <3>1, <3>3 DEF Awaits
    <3> QED
      BY <3>2, <3>3
  <2> QED
    BY <1>1, <2>1, <2>2 DEF RunInv
<1>3. \A e \in run'[i].given : Handled(e, run[i].lang)' \/ Awaits(i, e)'
  BY <1>2 DEF Handled
<1> QED
  BY <1>1, <1>3 DEF RunInv

LEMMA RunsStep ==
  ASSUME FInv, ItemsStay, [CNext]_allVars
  PROVE  RunsInv'
<1>0. run \in [Ingester -> Runs] /\ \A j \in Ingester : RunInv(j)
  BY DEF FInv, FetchTypes, RunsInv
<1>1. CASE UNCHANGED run
  BY <1>0, <1>1, IdleRunKeepsInv DEF RunsInv
<1>2. ASSUME NEW i \in Ingester, \A j \in Ingester \ {i} : run'[j] = run[j], RunInv(i)'
      PROVE  RunsInv'
  BY <1>0, <1>2, IdleRunKeepsInv DEF RunsInv
<1>3. ASSUME NEW i \in Ingester, NEW lang \in Language, BeginRun(i, lang)
      PROVE  RunsInv'
  <2>1. run' = [run EXCEPT ![i] = [NoRun EXCEPT !.pc = "running", !.lang = lang,
                                                !.feeds = Registry[lang]]]
    BY <1>3 DEF BeginRun
  <2>2. /\ run'[i].lang = lang /\ run'[i].feeds = Registry[lang]
        /\ run'[i].entries = {} /\ run'[i].given = {}
    BY <1>0, <2>1 DEF NoRun
  <2>3. RunInv(i)'
    BY <2>2 DEF RunInv, FeedsOf
  <2> QED
    BY <1>0, <1>2, <2>1, <2>3
<1>4. ASSUME NEW i \in Ingester, FetchFeed(i)
      PROVE  RunsInv'
  <2>0. PICK s : s = Head(run[i].feeds)
    OBVIOUS
  <2>1. /\ RunInv(i) /\ run[i].pc = "running" /\ run[i].entries = {}
        /\ run[i].feeds \in Seq(Feed) /\ run[i].feeds # <<>>
    BY <1>0, <1>4 DEF FetchFeed, Between, Runs
  <2>2. PICK kept \in {Normalized(Document[s]), {}} :
          run' = [run EXCEPT ![i] = WithEntries(@, s, kept)]
    BY <1>4, <2>0 DEF FetchFeed
  <2>3. /\ run'[i].pc = "running" /\ run'[i].lang = run[i].lang
        /\ run'[i].feeds = Tail(run[i].feeds) /\ run'[i].source = s /\ run'[i].entries = kept
        /\ run'[i].given = run[i].given \cup {Document[s][k] : k \in kept}
    BY <1>0, <2>1, <2>2 DEF Runs, WithEntries
  <2>4. s \in FeedsOf(run[i].lang)
    BY <2>0, <2>1 DEF RunInv
  <2>5. \A n \in DOMAIN run'[i].feeds : run'[i].feeds[n] \in FeedsOf(run[i].lang)
    <3>1. /\ Tail(run[i].feeds) \in Seq(Feed) /\ Len(Tail(run[i].feeds)) = Len(run[i].feeds) - 1
          /\ \A n \in 1 .. Len(Tail(run[i].feeds)) : Tail(run[i].feeds)[n] = run[i].feeds[n + 1]
      BY <2>1, HeadTailProperties
    <3>2. \A n \in 1 .. Len(run[i].feeds) : run[i].feeds[n] \in FeedsOf(run[i].lang)
      BY <2>1 DEF RunInv
    <3>3. Len(run[i].feeds) \in Nat
      BY <2>1
    <3> QED
      BY <2>3, <3>1, <3>2, <3>3
  <2>6. \A e \in run'[i].given : Handled(e, run[i].lang)' \/ Awaits(i, e)'
    <3>0. PICK lang : lang = run[i].lang
      OBVIOUS
    <3>1. \A e \in run[i].given : Handled(e, lang)
      BY <2>1, <3>0 DEF RunInv, Awaits
    <3>2. \A e \in run[i].given : Handled(e, lang)'
      BY <3>1, HandledStays
    <3>3. \A k \in kept : Awaits(i, Document[s][k])'
      BY <2>3 DEF Awaits
    <3> HIDE DEF Handled
    <3>4. \A e \in run'[i].given : Handled(e, lang)' \/ Awaits(i, e)'
      BY <2>3, <3>2, <3>3
    <3> QED
      BY <2>3, <3>0, <3>4 DEF Handled
  <2>7. RunInv(i)'
    BY <2>1, <2>3, <2>4, <2>5, <2>6 DEF RunInv
  <2> QED
    BY <1>0, <1>2, <2>2, <2>7
<1>5. ASSUME NEW i \in Ingester, StoreEntry(i)
      PROVE  RunsInv'
  <2>0. PICK f, lang : f = NextEntry(i) /\ lang = run[i].lang
    OBVIOUS
  <2>1. PICK a \in Articles(f) :
          /\ PutRaw(i, a)
          /\ item' = [item EXCEPT ![a] = [lang |-> lang, date |-> PublishedAt(f)]]
    BY <1>5, <2>0 DEF StoreEntry
  <2>2. f \in Entry
    BY <1>5, <2>0, NextEntryIsKnown DEF StoreEntry
  <2>3. a \in Article /\ item \in [Article -> Dating \cup {None}]
    BY <2>1, <2>2, EntryTypes DEF FInv, FetchTypes
  <2>4. a \in raw' /\ item'[a].lang = lang
    BY <2>1, <2>3 DEF PutRaw
  <2>5. Handled(f, lang)'
    BY <2>1, <2>4 DEF Handled
  <2>6. /\ run'[i].pc = run[i].pc /\ run'[i].lang = run[i].lang /\ run'[i].feeds = run[i].feeds
        /\ run'[i].source = run[i].source /\ run'[i].given = run[i].given
        /\ run'[i].entries = run[i].entries \ {NextPosition(i)}
        /\ \A j \in Ingester \ {i} : run'[j] = run[j]
    BY <1>0, <1>5 DEF StoreEntry, Runs
  <2>7. RunInv(i)'
    BY <1>5, <2>0, <2>5, <2>6, EntryDone DEF StoreEntry
  <2> QED
    BY <1>2, <2>6, <2>7
<1>6. ASSUME NEW i \in Ingester, SkipEntry(i)
      PROVE  RunsInv'
  <2>0. PICK f, lang : f = NextEntry(i) /\ lang = run[i].lang
    OBVIOUS
  <2>1. PICK a \in Articles(f) : IngestDuplicate(i, a)
    BY <1>6, <2>0 DEF SkipEntry
  <2>2. lang \in Language
    BY <1>6, <2>0, NextEntryIsKnown DEF SkipEntry
  <2>3. Handled(f, lang)
    BY <2>1, <2>2, FoundIsHandled DEF IngestDuplicate
  <2>4. Handled(f, lang)'
    BY <2>3, HandledStays
  <2>5. /\ run'[i].pc = run[i].pc /\ run'[i].lang = run[i].lang /\ run'[i].feeds = run[i].feeds
        /\ run'[i].source = run[i].source /\ run'[i].given = run[i].given
        /\ run'[i].entries = run[i].entries \ {NextPosition(i)}
        /\ \A j \in Ingester \ {i} : run'[j] = run[j]
    BY <1>0, <1>6 DEF SkipEntry, Runs
  <2>6. RunInv(i)'
    BY <1>6, <2>0, <2>4, <2>5, EntryDone DEF SkipEntry
  <2> QED
    BY <1>2, <2>5, <2>6
<1>7. ASSUME NEW i \in Ingester, AskForSummary(i)
      PROVE  RunsInv'
  <2>1. /\ run'[i].pc = run[i].pc /\ run'[i].lang = run[i].lang /\ run'[i].feeds = run[i].feeds
        /\ run'[i].source = run[i].source /\ run'[i].given = run[i].given
        /\ run'[i].entries = run[i].entries
        /\ \A j \in Ingester \ {i} : run'[j] = run[j]
    BY <1>0, <1>7 DEF AskForSummary, Runs
  <2>2. RunInv(i)
    BY <1>0
  <2>3. \A e : Awaits(i, e) => Awaits(i, e)'
    BY <2>1 DEF Awaits
  <2>4. RunInv(i)'
    BY <2>1, <2>2, <2>3, HandledStays DEF RunInv
  <2> QED
    BY <1>2, <2>1, <2>4
<1>8. ASSUME NEW i \in Ingester, EndRun(i) \/ RunRaises(i) \/ RunDies(i)
      PROVE  RunsInv'
  <2>1. run' = [run EXCEPT ![i] = NoRun]
    BY <1>8 DEF EndRun, RunRaises, RunDies
  <2>2. RunInv(i)'
    BY <1>0, <2>1 DEF RunInv, NoRun
  <2> QED
    BY <1>0, <1>2, <2>1, <2>2
<1>9. CASE UNCHANGED allVars
  BY <1>1, <1>9 DEF allVars, fetchVars
<1>10. CASE CNext
  <2>1. \A i \in Ingester : ListEntry(i) \/ OweSummary(i) => UNCHANGED run
    BY DEF ListEntry, OweSummary, fetchVars
  <2>2. Elsewhere => UNCHANGED run
    BY DEF Elsewhere, fetchVars
  <2> QED
    BY <1>10, <1>1, <1>3, <1>4, <1>5, <1>6, <1>7, <1>8, <2>1, <2>2, FetchCases, Zenon
<1> QED
  BY <1>9, <1>10

(* What an ingest() holds keeps its item, and its run the language and     *)
(* the date, until it returns.                                             *)
LEMMA InHandStep ==
  ASSUME FInv, TypeOK, WrittenSoFar, ItemsStay, [CNext]_allVars
  PROVE  InHand'
<1>0. /\ run \in [Ingester -> Runs] /\ item \in [Article -> Dating \cup {None}]
      /\ ing \in [Ingester -> IngesterState]
      /\ InHand
  BY DEF FInv, FetchTypes, TypeOK
<1>1. ASSUME \A j \in Ingester :
               \/ ing'[j].pc = "idle"
               \/ /\ ing[j].pc # "idle" /\ ing'[j].art = ing[j].art
                  /\ run'[j].pc = run[j].pc /\ run'[j].lang = run[j].lang
                  /\ run'[j].date = run[j].date
      PROVE  InHand'
  <2>1. \A j \in Ingester : ing[j].pc # "idle" => item'[ing[j].art] = item[ing[j].art]
    BY DEF WrittenSoFar, ItemsStay
  <2> QED
    BY <1>0, <1>1, <2>1 DEF InHand
<1>2. CASE UNCHANGED <<run, ing>>
  BY <1>1, <1>2
<1>3. ASSUME NEW i \in Ingester, ing[i].pc = "idle", UNCHANGED ing,
             \A j \in Ingester \ {i} : run'[j] = run[j]
      PROVE  InHand'
  BY <1>1, <1>3
<1>4. ASSUME NEW i \in Ingester, StoreEntry(i)
      PROVE  InHand'
  <2>0. PICK f, lang : f = NextEntry(i) /\ lang = run[i].lang
    OBVIOUS
  <2>1. PICK a \in Articles(f) :
          /\ PutRaw(i, a)
          /\ item' = [item EXCEPT ![a] = [lang |-> lang, date |-> PublishedAt(f)]]
    BY <1>4, <2>0 DEF StoreEntry
  <2>2. f \in Entry
    BY <1>4, <2>0, NextEntryIsKnown DEF StoreEntry
  <2>3. a \in Article
    BY <2>1, <2>2, EntryTypes
  <2>4. /\ run'[i].pc = "running" /\ run'[i].lang = lang /\ run'[i].date = PublishedAt(f)
        /\ \A j \in Ingester \ {i} : run'[j] = run[j]
    BY <1>0, <1>4, <2>0 DEF StoreEntry, Between, Runs
  <2>5. ing'[i].art = a /\ \A j \in Ingester \ {i} : ing'[j] = ing[j]
    BY <1>0, <2>1 DEF PutRaw
  <2>6. item'[a] = [lang |-> run'[i].lang, date |-> run'[i].date]
    BY <1>0, <2>1, <2>3, <2>4
  <2>7. \A j \in Ingester : ing[j].pc # "idle" => item'[ing[j].art] = item[ing[j].art]
    BY DEF WrittenSoFar, ItemsStay
  <2> QED
    BY <1>0, <2>4, <2>5, <2>6, <2>7 DEF InHand
<1>5. ASSUME NEW i \in Ingester, AskForSummary(i)
      PROVE  InHand'
  <2>1. ing'[i].pc = "idle" /\ \A j \in Ingester \ {i} : ing'[j] = ing[j] /\ run'[j] = run[j]
    BY <1>0, <1>5 DEF AskForSummary, Enqueue, IdleIngester
  <2> QED
    BY <1>1, <2>1
<1>6. ASSUME NEW i \in Ingester, RunDies(i)
      PROVE  InHand'
  <2>1. ing'[i].pc = "idle" /\ \A j \in Ingester \ {i} : ing'[j] = ing[j] /\ run'[j] = run[j]
    BY <1>0, <1>6 DEF RunDies, IngesterCrash, IdleIngester
  <2> QED
    BY <1>1, <2>1
<1>7. ASSUME NEW i \in Ingester, ListEntry(i) \/ OweSummary(i)
      PROVE  InHand'
  <2>1. /\ ing[i].pc # "idle" /\ ing'[i].art = ing[i].art /\ UNCHANGED run
        /\ \A j \in Ingester \ {i} : ing'[j] = ing[j]
    BY <1>0, <1>7 DEF ListEntry, OweSummary, PutFeed, PutPending, fetchVars, IngesterState
  <2> QED
    BY <1>1, <2>1
<1>8. CASE UNCHANGED allVars
  BY <1>2, <1>8 DEF allVars, fetchVars, vars
<1>9. CASE CNext
  <2>1. ASSUME NEW i \in Ingester, NEW lang \in Language, BeginRun(i, lang)
        PROVE  InHand'
    <3>1. ing[i].pc = "idle"
      BY <1>0, <2>1 DEF BeginRun, InHand
    <3> QED
      BY <1>0, <1>3, <2>1, <3>1 DEF BeginRun, vars
  <2>2. ASSUME NEW i \in Ingester, FetchFeed(i) \/ SkipEntry(i) \/ EndRun(i) \/ RunRaises(i)
        PROVE  InHand'
    BY <1>0, <1>3, <2>2 DEF FetchFeed, SkipEntry, IngestDuplicate, EndRun, RunRaises, Between, vars
  <2>3. Elsewhere => UNCHANGED <<run, ing>>
    <3>1. \A m \in Message : QueueStep(m) => UNCHANGED ing
      BY DEF QueueStep, OperatorSend, ExpireAbandoned, ExpireEarly
    <3>2. \A w \in Worker : WorkerStep(w) => UNCHANGED ing
      BY DEF WorkerStep, Process, Receive, SkipDone, ReadState, ReadRaw, MarkFailed, MarkDone, Ack,
         WorkerCrash
    <3> QED
      BY <3>1, <3>2 DEF Elsewhere, fetchVars
  <2> QED
    BY <1>9, <1>2, <1>4, <1>5, <1>6, <1>7, <2>1, <2>2, <2>3, FetchCases, Zenon
<1> QED
  BY <1>8, <1>9

(* Only StoreEntry adds to the table, and it adds an article of the run's  *)
(* language.                                                               *)
LEMMA SourceStep ==
  ASSUME FInv, TypeOK, ItemsStay, [CNext]_allVars
  PROVE  ItemHasSource'
<1>0. ItemHasSource /\ item \in [Article -> Dating \cup {None}]
  BY DEF FInv, FetchTypes
<1>1. CASE raw' = raw
  BY <1>0, <1>1 DEF ItemsStay, ItemHasSource
<1>2. ASSUME NEW i \in Ingester, StoreEntry(i)
      PROVE  ItemHasSource'
  <2>0. PICK f, lang : f = NextEntry(i) /\ lang = run[i].lang
    OBVIOUS
  <2>1. PICK a \in Articles(f) :
          /\ PutRaw(i, a)
          /\ item' = [item EXCEPT ![a] = [lang |-> lang, date |-> PublishedAt(f)]]
    BY <1>2, <2>0 DEF StoreEntry
  <2>2. f \in Entry /\ lang \in Language /\ f \in EntriesFor(lang)
    BY <1>2, <2>0, NextEntryIsKnown DEF StoreEntry
  <2>3. a \in Article
    BY <2>1, <2>2, EntryTypes
  <2>4. item'[a].lang = lang
    BY <1>0, <2>1, <2>3
  <2>5. raw' = raw \cup {a}
    BY <2>1 DEF PutRaw
  <2> QED
    BY <1>0, <2>1, <2>2, <2>4, <2>5 DEF ItemsStay, ItemHasSource
<1>3. CASE UNCHANGED allVars
  BY <1>1, <1>3 DEF allVars, vars
<1>4. CASE CNext
  <2>1. \A i \in Ingester : \A lang \in Language : BeginRun(i, lang) => raw' = raw
    BY DEF BeginRun, vars
  <2>2. \A i \in Ingester : FetchFeed(i) \/ SkipEntry(i) \/ ListEntry(i) \/ OweSummary(i)
          \/ AskForSummary(i) \/ EndRun(i) \/ RunRaises(i) \/ RunDies(i) => raw' = raw
    BY DEF FetchFeed, SkipEntry, ListEntry, OweSummary, AskForSummary, EndRun, RunRaises, RunDies,
       vars, IngestDuplicate, PutFeed, PutPending, Enqueue, IngesterCrash
  <2>3. Elsewhere => raw' = raw
    <3>1. \A m \in Message : QueueStep(m) => raw' = raw
      BY DEF QueueStep, OperatorSend, ExpireAbandoned, ExpireEarly
    <3>2. \A w \in Worker : WorkerStep(w) => raw' = raw
      BY DEF WorkerStep, Process, Receive, SkipDone, ReadState, ReadRaw, MarkFailed, MarkDone, Ack,
         WorkerCrash
    <3> QED
      BY <3>1, <3>2 DEF Elsewhere
  <2> QED
    BY <1>4, <1>1, <1>2, <2>1, <2>2, <2>3, FetchCases, Zenon
<1> QED
  BY <1>3, <1>4

(* A row and a request for a summary are written with what the run holds,  *)
(* which is what its item has.                                             *)
LEMMA ListingStep ==
  ASSUME FInv, WrittenSoFar, ItemsStay, [CNext]_allVars
  PROVE  ListedIsStored' /\ OneListingPerArticle'
<1>0. ListedIsStored /\ OneListingPerArticle /\ InHand
  BY DEF FInv
<1> DEFINE Goal == ListedIsStored /\ OneListingPerArticle
<1>1. CASE UNCHANGED <<rows, asked>>
  BY <1>0, <1>1 DEF ListedIsStored, OneListingPerArticle, ItemsStay
<1>2. ASSUME NEW i \in Ingester, ListEntry(i)
      PROVE  Goal'
  <2>1. /\ ing[i].art \in raw
        /\ item[ing[i].art] = [lang |-> run[i].lang, date |-> run[i].date]
    BY <1>0, <1>2 DEF ListEntry, PutFeed, WrittenSoFar, InHand
  <2>2. /\ rows' = rows \cup {[art |-> ing[i].art, lang |-> run[i].lang, date |-> run[i].date]}
        /\ UNCHANGED asked
    BY <1>2 DEF ListEntry
  <2> QED
    BY <1>0, <2>1, <2>2 DEF ListedIsStored, OneListingPerArticle, ItemsStay
<1>3. ASSUME NEW i \in Ingester, AskForSummary(i)
      PROVE  Goal'
  <2>0. ing[i].pc # "idle"
    BY <1>3 DEF AskForSummary, Enqueue
  <2>1. /\ ing[i].art \in raw
        /\ item[ing[i].art] = [lang |-> run[i].lang, date |-> run[i].date]
    BY <1>0, <2>0 DEF WrittenSoFar, InHand
  <2>2. /\ asked' = asked \cup {[art |-> ing[i].art, lang |-> run[i].lang]}
        /\ UNCHANGED rows
    BY <1>3 DEF AskForSummary
  <2>3. item[ing[i].art].lang = run[i].lang
    BY <2>1
  <2> QED
    BY <1>0, <2>1, <2>2, <2>3 DEF ListedIsStored, OneListingPerArticle, ItemsStay
<1>4. CASE UNCHANGED allVars
  BY <1>1, <1>4 DEF allVars, fetchVars
<1>5. CASE CNext
  <2>1. \A i \in Ingester : \A lang \in Language : BeginRun(i, lang) => UNCHANGED <<rows, asked>>
    BY DEF BeginRun
  <2>2. \A i \in Ingester : FetchFeed(i) \/ StoreEntry(i) \/ SkipEntry(i) \/ OweSummary(i)
          \/ EndRun(i) \/ RunRaises(i) \/ RunDies(i) => UNCHANGED <<rows, asked>>
    BY DEF FetchFeed, StoreEntry, SkipEntry, OweSummary, EndRun, RunRaises, RunDies, fetchVars
  <2>3. Elsewhere => UNCHANGED <<rows, asked>>
    BY DEF Elsewhere, fetchVars
  <2> QED
    BY <1>5, <1>1, <1>2, <1>3, <2>1, <2>2, <2>3, FetchCases, Zenon
<1> QED
  BY <1>4, <1>5

-----------------------------------------------------------------------------
(* The invariant of a run and the invariant of the pipeline together.      *)
THEOREM FetchInvariant == CSpec => [](IInv /\ FInv)
<1>1. ASSUME CInit
      PROVE  IInv /\ FInv
  <2>1. IInv
    BY <1>1, InitInvariant DEF CInit
  <2>2. /\ raw = {} /\ rows = {} /\ asked = {}
        /\ \A i \in Ingester : ing[i].pc = "idle"
        /\ \A i \in Ingester : run[i].pc = "idle"
    BY <1>1 DEF CInit, Init, IdleIngester, NoRun
  <2>3. FetchTypes
    BY <1>1 DEF CInit, FetchTypes, NoRun, Runs
  <2> QED
    BY <2>1, <2>2, <2>3 DEF FInv, RunsInv, RunInv, InHand, ItemHasSource, ListedIsStored,
       OneListingPerArticle
<1>2. ASSUME IInv, FInv, [CNext]_allVars
      PROVE  (IInv /\ FInv)'
  <2>1. IInv'
    BY <1>2, StepOfPipeline, StepInvariant
  <2>2. TypeOK /\ WrittenSoFar
    BY <1>2 DEF IInv
  <2>3. ItemsStay
    BY <1>2, <2>2, ItemsStep
  <2> QED
    BY <1>2, <2>1, <2>2, <2>3, FetchTypesStep, RunsStep, InHandStep, SourceStep, ListingStep
    DEF FInv
<1> QED
  BY <1>1, <1>2, PTL DEF CSpec

(* Runs of fetch_rss.py add nothing that the pipeline could not do with    *)
(* ingesters of its own: what is proved of the pipeline holds with them.   *)
THEOREM FetchIsPipeline == CSpec => Spec
<1>1. CInit => Init
  BY DEF CInit
<1>2. FInv /\ [CNext]_allVars => [Next]_vars
  BY StepOfPipeline
<1> QED
  BY <1>1, <1>2, FetchInvariant, PTL DEF CSpec, Spec

(* An article has one feed row and one language, those of its item, for    *)
(* every registry and every set of runs.                                   *)
THEOREM OneListingPerArticleHolds == CSpec => []OneListingPerArticle
<1>1. FInv => OneListingPerArticle
  BY DEF FInv
<1> QED
  BY <1>1, FetchInvariant, PTL

(* A run that ends by itself has left none of its entries out, unless the  *)
(* article is another language's already or something crashed.             *)
THEOREM FinishedIsServedHolds == CSpec => FinishedIsServed
<1> DEFINE Good == \A i \in Ingester : EndRun(i) => \A e \in run[i].given : Served(e, run[i].lang)
<1>1. ASSUME IInv, FInv, OrphanNeedsFault
      PROVE  Good
  <2> SUFFICES ASSUME NEW i \in Ingester, EndRun(i), NEW e \in run[i].given
               PROVE  Served(e, run[i].lang)
    OBVIOUS
  <2>1. RunInv(i) /\ run[i].pc = "running" /\ run[i].entries = {}
    BY <1>1 DEF FInv, RunsInv, EndRun, Between
  <2>2. Handled(e, run[i].lang)
    BY <2>1 DEF RunInv, Awaits
  <2> QED
    BY <1>1, <2>2 DEF Handled, Served, OrphanNeedsFault
<1>2. ASSUME IInv, FInv, OrphanNeedsFault
      PROVE  [Good]_allVars
  BY <1>1, <1>2
<1>3. CSpec => []OrphanNeedsFault
  BY FetchIsPipeline, OrphanNeedsFaultHolds, PTL
<1> QED
  BY <1>2, <1>3, FetchInvariant, PTL DEF CSpec, FinishedIsServed
=============================================================================
