------------------------------ MODULE ContentFetch ------------------------------
(***************************************************************************)
(* scripts/fetch_rss.py: a run takes the feeds that the registry has for a *)
(* language, fetches one after the other, turns each document into dated   *)
(* entries, looks for the full text of every entry on its page, and        *)
(* ingests the result.  The processes that run it are the ingesters of     *)
(* SummaryPipeline, and each ingest() is the pipeline's, call by call: a   *)
(* run chooses what is ingested and ends when a call dies.                 *)
(*                                                                         *)
(* A content hash is of title and text, so an entry is one article or      *)
(* another as its page was readable or not, and two entries, of one        *)
(* language or of two, may be the same article.                            *)
(***************************************************************************)
EXTENDS SummaryPipeline, Sequences

CONSTANTS
  Language,
  Feed,        \* sources, known by their URL
  Entry,       \* entries of feed documents
  Registry,    \* the feeds of each language, in order
  Document,    \* the entries of each feed, in order
  DateValue,   \* what each date field of an entry holds
  PageText,    \* the text on the page of each entry: "long", "short" or "none"
  HashOf       \* the hash of each entry with the text of its page, or of the feed

DateOrder == <<"published_parsed", "updated_parsed", "published", "updated", "pubDate", "date">>
DateField == {DateOrder[k] : k \in DOMAIN DateOrder}
Value == [type : {"none", "datetime", "struct", "tuple", "text"}, valid : BOOLEAN]
Version == {"page", "feed"}

ASSUME RegistryAssumption == Registry \in [Language -> Seq(Feed)]
ASSUME DocumentAssumption == Document \in [Feed -> Seq(Entry)]
ASSUME EntryAssumption ==
  /\ DateValue \in [Entry -> [DateField -> Value]]
  /\ PageText \in [Entry -> {"long", "short", "none"}]
  /\ HashOf \in [Entry -> [Version -> Article]]
ASSUME NoneIsNoInput == None \notin Language \cup Feed

VARIABLES
  run,       \* what each ingester's run has before it
  item,      \* language and date of the RAW item of each article
  rows,      \* the FEED rows
  asked      \* the language in which a summary of an article was asked for

fetchVars == <<run, item, rows, asked>>
allVars == <<vars, fetchVars>>

NoRun == [pc |-> "idle", lang |-> None, feeds |-> <<>>, source |-> None, entries |-> {},
          given |-> {}, date |-> "none"]

CInit ==
  /\ Init
  /\ run = [i \in Ingester |-> NoRun]
  /\ item = [a \in Article |-> None]
  /\ rows = {}
  /\ asked = {}

-----------------------------------------------------------------------------
(* From a document to articles.                                            *)

(* _coerce_datetime: a tuple that is no date and a text that neither       *)
(* parser takes are None, as an absent field is.                           *)
Coerces(value) ==
  \/ value.type \in {"datetime", "struct"}
  \/ value.type \in {"tuple", "text"} /\ value.valid

(* _extract_published_at: the first field that holds a date.               *)
Dates(e) == {k \in DOMAIN DateOrder : Coerces(DateValue[e][DateOrder[k]])}
PublishedAt(e) ==
  IF Dates(e) = {} THEN "none"
  ELSE DateOrder[CHOOSE k \in Dates(e) : \A l \in Dates(e) : k <= l]

(* normalize_parsed_feed: the positions of the entries that have a date;   *)
(* the others are dropped.                                                 *)
HasDate(e) == PublishedAt(e) # "none"
Normalized(document) == {k \in DOMAIN document : HasDate(document[k])}

(* The full text, or the text of the feed when the page cannot be fetched, *)
(* when nothing can be extracted or when that is under 200 characters.     *)
FetchHtml == {"html", "nothing"}
MainText(e, html) == IF html = "nothing" THEN {"none"} ELSE {PageText[e], "none"}
Enriched(e) ==
  {IF text = "long" THEN "page" ELSE "feed" : text \in UNION {MainText(e, html) : html \in FetchHtml}}

ContentHash(e, version) == HashOf[e][version]
Articles(e) == {ContentHash(e, version) : version \in Enriched(e)}

-----------------------------------------------------------------------------
(* A run.                                                                  *)

Between(i) == run[i].pc = "running" /\ ing[i].pc = "idle"

BeginRun(i, lang) ==
  /\ run[i].pc = "idle"
  /\ run' = [run EXCEPT ![i] = [NoRun EXCEPT !.pc = "running", !.lang = lang,
                                             !.feeds = Registry[lang]]]
  /\ UNCHANGED <<vars, item, rows, asked>>

NextPosition(i) == CHOOSE k \in run[i].entries : \A l \in run[i].entries : k <= l
NextEntry(i) == Document[run[i].source][NextPosition(i)]

WithEntries(r, source, kept) ==
  [r EXCEPT !.feeds = Tail(@), !.source = source, !.entries = kept,
            !.given = @ \cup {Document[source][k] : k \in kept}]

(* fetch_feed.  The status of the response is not looked at: an error page *)
(* is a document without entries.                                          *)
FetchFeed(i) ==
  /\ Between(i)
  /\ run[i].entries = {} /\ run[i].feeds # <<>>
  /\ LET source == Head(run[i].feeds) IN
       \E kept \in {Normalized(Document[source]), {}} :
         run' = [run EXCEPT ![i] = WithEntries(@, source, kept)]
  /\ UNCHANGED <<vars, item, rows, asked>>

(* The next entry is enriched and ingest() creates its article ...         *)
StoreEntry(i) ==
  /\ Between(i)
  /\ run[i].entries # {}
  /\ \E a \in Articles(NextEntry(i)) :
       /\ PutRaw(i, a)
       /\ item' = [item EXCEPT ![a] = [lang |-> run[i].lang, date |-> PublishedAt(NextEntry(i))]]
  /\ run' = [run EXCEPT ![i].entries = @ \ {NextPosition(i)}, ![i].date = PublishedAt(NextEntry(i))]
  /\ UNCHANGED <<rows, asked>>

(* Mutant: a duplicate ends the feed.                                      *)
SkipRest(i) ==
  /\ Between(i)
  /\ run[i].entries # {}
  /\ \E a \in Articles(NextEntry(i)) : IngestDuplicate(i, a)
  /\ run' = [run EXCEPT ![i].entries = {}]
  /\ UNCHANGED <<item, rows, asked>>

(* ... or finds it there.                                                  *)
SkipEntry(i) ==
  /\ Between(i)
  /\ run[i].entries # {}
  /\ \E a \in Articles(NextEntry(i)) : IngestDuplicate(i, a)
  /\ run' = [run EXCEPT ![i].entries = @ \ {NextPosition(i)}]
  /\ UNCHANGED <<item, rows, asked>>

(* Language and date are the key of the feed row, the language is in the   *)
(* job; both come from the article in the hands of this ingest().          *)
ListEntry(i) ==
  /\ PutFeed(i)
  /\ rows' = rows \cup {[art |-> ing[i].art, lang |-> run[i].lang, date |-> run[i].date]}
  /\ UNCHANGED <<run, item, asked>>

OweSummary(i) == PutPending(i) /\ UNCHANGED fetchVars

AskForSummary(i) ==
  /\ \E m \in Message : Enqueue(i, m)
  /\ asked' = asked \cup {[art |-> ing[i].art, lang |-> run[i].lang]}
  /\ run' = [run EXCEPT ![i].date = "none"]
  /\ UNCHANGED <<item, rows>>

EndRun(i) ==
  /\ Between(i)
  /\ run[i].entries = {} /\ run[i].feeds = <<>>
  /\ run' = [run EXCEPT ![i] = NoRun]
  /\ UNCHANGED <<vars, item, rows, asked>>

(* A feed that cannot be fetched, or any call between two ingest()s that   *)
(* raises, ends the run: what is left of it is not fetched.                *)
RunRaises(i) ==
  /\ Between(i)
  /\ run' = [run EXCEPT ![i] = NoRun]
  /\ UNCHANGED <<vars, item, rows, asked>>

(* So does a call within ingest().                                         *)
RunDies(i) ==
  /\ IngesterCrash(i)
  /\ run' = [run EXCEPT ![i] = NoRun]
  /\ UNCHANGED <<item, rows, asked>>

RunStep(i) ==
  \/ \E lang \in Language : BeginRun(i, lang)
  \/ FetchFeed(i)
  \/ StoreEntry(i)
  \/ SkipEntry(i)
  \/ ListEntry(i)
  \/ OweSummary(i)
  \/ AskForSummary(i)
  \/ EndRun(i)
  \/ RunRaises(i)
  \/ RunDies(i)

(* The queue and its consumers work as ever.                               *)
Elsewhere ==
  /\ \/ \E m \in Message : QueueStep(m)
     \/ \E w \in Worker : WorkerStep(w)
  /\ UNCHANGED fetchVars

CNext ==
  \/ \E i \in Ingester : RunStep(i)
  \/ Elsewhere

CSpec == CInit /\ [][CNext]_allVars

-----------------------------------------------------------------------------
(* The dated entries that the feeds of a language may hand to a run.       *)
FeedsOf(lang) == {Registry[lang][n] : n \in DOMAIN Registry[lang]}
EntriesFor(lang) ==
  UNION {{Document[source][k] : k \in Normalized(Document[source])} : source \in FeedsOf(lang)}

(* Another language has a feed with this very article.                     *)
SharedBeyond(lang, a) ==
  \E other \in Language \ {lang} : \E e \in EntriesFor(other) : a \in Articles(e)

(* When a run ends by itself, each dated entry it was given is an article  *)
(* with all its items and its job, or another ingester is at it, or        *)
(* something crashed; and it is in the feed of the run's language unless a *)
(* feed of another language has the same article and came first.           *)
Served(e, lang) ==
  \E a \in Articles(e) \cap raw :
    /\ Complete(a) \/ Ingesting(a) \/ faults > 0
    /\ item[a].lang = lang \/ SharedBeyond(lang, a)

FinishedIsServed ==
  [][\A i \in Ingester : EndRun(i) => \A e \in run[i].given : Served(e, run[i].lang)]_allVars

(* Whoever fetches an article, for whichever languages and from entries    *)
(* however dated: it has one feed row and one language of its summary, and *)
(* they are those of the stored article.  A reader never meets it twice.   *)
OneListingPerArticle ==
  /\ \A row \in rows : item[row.art] = [lang |-> row.lang, date |-> row.date]
  /\ \A job \in asked : job.art \in raw /\ item[job.art].lang = job.lang
=============================================================================
