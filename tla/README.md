# Verification of the While I Slept API

TLA+ models of the service in `src/`, the TLC runs that check them on small
instances, and theorems about them that TLAPS proves for every value of the
constants. Paths below are relative to `src/src/while_i_slept_api/` unless they
start with another directory.

## The system

| Part | State it keeps | Operations | What is hard |
|---|---|---|---|
| Ingestion: `article_pipeline/use_cases.py` (`IngestArticleUseCase`), driven by `src/scripts/fetch_rss.py` | RAW, FEED and SUMMARY items of the single articles table | `ingest` | four calls without a transaction; concurrent fetchers; a crash between two calls |
| Summarisation: `ProcessSummaryJobUseCase`, driven by `summarizer_worker/local_consumer.py` | the SUMMARY item: status and `retry_count` | `process_summary_job` | at-least-once delivery, visibility timeouts, unconditional updates, eventually consistent reads |
| Consumers: `local_consumer.py`, `lambda_handler.py`, `message_processing.py`, `retry.py`, `use_case.py` | the SQS queue, briefing items | poll, process, acknowledge; batch, retry, report failures | two job contracts on one kind of queue, signals, partial failures, check-then-save |
| Feed: `api/routers/feed.py`, `sleep_window/resolver.py`, `feed_query/`, `story_dedup/` | none | `GET /while-i-slept` | window arithmetic over local and UTC days, a limit spread over partitions, reads that interleave with the pipeline |
| Users: `services/users.py`, `services/auth.py`, `repositories/dynamodb.py`, `api/routers/me.py` | the users table and its index GSI1 | login, preferences, legal acceptance | the whole profile is read, changed and put back; the index lags |
| RevenueCat webhook: `services/revenuecat.py`, `repositories/revenuecat_events.py` | the entitlement attributes of a user, the idempotency table | `process_webhook` | duplicate deliveries, a crash between record and update, concurrent profile puts |
| Briefings and entitlements: `services/briefings.py`, `services/entitlements.py` | none | `GET /briefings/...` | expiry, limits per tier |
| Tokens: `services/tokens.py`, `services/auth.py`, `get_current_user` | none: tokens are signed and stored nowhere | `POST /auth/oauth/exchange`, `POST /auth/refresh` | expiry while a request is served |
| Content fetching: `src/scripts/fetch_rss.py`, `content/`, `article_fetcher/` | none: a run lives in one process | take the feeds of a language, date their entries, read their pages, `ingest` each | two runs at once, pages and feeds that fail, one article behind two entries or in two languages |
| Summariser: `summarizers/smart_brevity.py` | none | score, rank, truncate sentences | comparisons after truncation, repeated and short sentences |
| OAuth verification, devices, sleep preferences, in-memory repositories, scripts | see `components` in `PROJECT.json` | | |

The parts meet in three stores. Ingesters and workers share the articles table
and the queue of summary jobs; the feed reads what they write. The webhook and
the API handlers share the users table; the feed and the briefings read the
profile and its entitlement. The Lambda reads a queue of briefing jobs and saves
the briefings that `GET /briefings` serves. There are no callbacks between the
parts and no locks: every hazard is an interleaving of storage calls. The full
list, each with its line, is under `hazards` in `PROJECT.json`.

What makes each part correct:

- pipeline: every article stored is listed, owed a summary and enqueued once; a
  job leaves the queue only with an outcome; a published summary stays;
- fetching: a run that ends has served every dated entry it was given; an article
  is listed once, however it comes in;
- summariser: the best sentences are shown, in order, whatever pads the article;
- consumers: nothing is acknowledged undone, nothing comes back but what was cut
  short, no body keeps the others on the queue, a briefing settles;
- feed: the window is the last night; no article of it is skipped for a later
  one; no published summary is hidden by deduplication; the tier's limit holds;
- users and webhook: no acknowledged write is lost, `onboarding_completed` and
  premium agree with what justifies them, an event counts once and does count;
- sessions and briefings: a login ends, and what premium buys is answered only
  on an activation that has not expired.

## Modules

| Module | Content |
|---|---|
| `SummaryLifecycle` | Abstract specification: the stages an article passes through, as a reader of the table sees them |
| `SummaryPipeline` | Ingesters, queue and workers, one action per DynamoDB or SQS call; implements `SummaryLifecycle` |
| `ContentFetch` | Extends `SummaryPipeline` with the runs that drive `ingest`: registry, feeds, dates, pages, the hash of an article |
| `SmartBrevity` | The summariser as operators on sequences of sentences |
| `SummaryConsumers` | The two consumer programs around the use cases: polling, parsing verdicts, acknowledgement, batches, retries |
| `SleepFeed` | One feed request, call by call, while the pipeline takes steps of `SummaryLifecycle` (INSTANCE) |
| `UserAccounts` | Login, onboarding requests and the webhook over the users table, its index and a lagging replica |
| `Sessions` | Extends `UserAccounts` with a clock: tokens, their refresh, and briefing requests with the history gate and the limit |
| `MC...` | Instances for TLC: message kinds, titles, events, symmetry |
| `Foundations` | Lemmas about finite sets and numbers that the proofs share; it models nothing |
| `...Proofs` | The theorems about each module above but `SummaryLifecycle`, which `SummaryPipelineProofs` covers |

`SummaryLifecycle` is where the modules meet. `SummaryPipeline` is shown to
implement it, and `SleepFeed` uses it in place of the pipeline: what the feed can
observe between two of its calls is a change of stage. A published summary may
be withdrawn there (`DoneIsFinal <- FALSE`), as the code allows.

### SummaryPipeline and the code

| TLA+ | Code |
|---|---|
| `raw`, `feed`, `summary` | RAW, FEED and SUMMARY items; `summary[a]` has `status` and `retry_count` |
| `versions` | earlier contents of the SUMMARY item, which an eventually consistent `get_item` may return |
| `sent`, `queue`, `hidden` | messages ever sent, not yet deleted, within a visibility timeout |
| `ing[i]`, `wrk[w]` | the next call of `ingest` and of `process_summary_job`, with the locals it carries |
| `PutRaw` / `IngestDuplicate` | `put_raw_article_if_absent` creating the item, or failing and returning DUPLICATE |
| `PutFeed`, `PutPending`, `Enqueue` | the other calls of `ingest`, in order. The two feed puts write the same row and are one action |
| `Receive`, `ReadState` / `SkipDone`, `ReadRaw`, `MarkFailed`, `MarkDone`, `Ack` | `poll_once` and `process_summary_job` |
| `IngesterCrash`, `WorkerCrash`, `ExpireEarly` | faults. A call that raises abandons the message as a death does |
| `ExpireAbandoned` | SQS makes the message of a dead worker visible again |
| `OperatorSend` | a hand-made job; the only way to get `reprocess = true`, which the code reads and never sets |

### ContentFetch and the code

`run[i]` is a `main()` of `fetch_rss.py` in the ingester `i`: the feeds it has left
and the entries of the feed at hand, by their positions. `FetchFeed` is
`fetch_feed`: an error page is a document without entries, since the status of
the response is not looked at, and entries without a date are dropped
(`Normalized`). `StoreEntry` and `SkipEntry` are the body of the loop up to the
RAW put of `ingest`: the page of the entry is read or not (`Enriched`), which
decides the text and so the content hash (`ContentHash`). The rest of `ingest` is
the pipeline's (`ListEntry`, `OweSummary`, `AskForSummary`). `RunRaises` is any
error between two `ingest` calls, `RunDies` one within. The constants `Registry`,
`Document`, `DateValue`, `PageText` and `HashOf` are the outside world. `rows` and
`asked` say under which language and date an article was listed and its summary
asked for. Topics only select feeds and are left out.

### SmartBrevity and the code

A behaviour is an article and the summary that one delivery of its job writes; a
second delivery writes the same. A sentence is known by its length, whether it
has a digit or a keyword of the language, and how often it has each word that
counts; a text is a sentence up to some character, so that a truncated sentence
differs from the sentence. Scores are integers, those of the code times the
greatest frequency; with counts up to two the code's quotients are exact, so the
order is the same, ties included. That floats round otherwise is not modelled,
nor a truncated text that equals another sentence or a fallback text. The sort is
by rank (`Nth`): the position that n - 1 others precede. The reference definition,
`Better`, ranks the set of sentences by their worth, which is stated without
positions, folds or sorting.

### SummaryConsumers and the code

The article use case is one step (`ProcessArticle`), since `SummaryPipeline` has
its calls. The briefing use case keeps its read (`ReadBriefing`) and its save
(`SaveBriefing`) apart. A message body is an article job, a legacy briefing job
or unreadable; which of these a program accepts is the point. `con[c]` is the
`while` loop of `_run_consumer` with its count of empty polls and the flag that
SIGTERM clears; `lam[l]` is one execution of `lambda_handler` with the rest of
its batch and the failures to report. `Restart` is the shell loop of
`make summary-worker-loop`.

An empty poll is two steps. `EmptyReceive` is the `receive_message` that returns
nothing; `poll_once` then sleeps for 0.25 s, in which messages may come or come
back, and `CountEmpty` is what the loop makes of its `False`. `quiet` counts the
empty receives of a once consumer since its last message, as a history variable
that the code's count is held against. `cutShort` is another: the messages whose
latest delivery raised (in a Lambda at the last attempt), died or killed its
consumer. The read of a briefing is eventually consistent: until every copy of
the table has it (`copied`) the read may find none (`Readable`).

### SleepFeed and the code

`Start` is the route up to the repository call: window (`LastWindow`) and limit
(`EffectiveLimit`). `Query` is one turn of the loop over partitions in
`query_feed_window`, `SortAndCut` its last two lines, `ReadSummary` one
`get_summary`, `Respond` the deduplication. `Partition` has the rows of a UTC day,
and of the old partition `all` after the last day. No read asks for consistency,
so a write shows in some copies of the table first: `everywhere` has the articles
whose row is in all of them, `texts[a]` what the copies show of the summary of
`a`, and each query and each read is answered by any copy (`Views`). `known` is a
history variable: what every copy listed when the request came, and which
summaries every copy had then and have not been withdrawn since. Times are integers;
a day has `DayLength` ticks and local time is `Offset` ahead of UTC. Titles are sets
of tokens, a summary is its length.

### UserAccounts and the code

`h[x]` is a request between its read and its write: `base` is the profile it
read, `copy` the one it is going to put. `Save` is the put, which replaces the item
whatever happened since: the conditional put of `save` falls back to the same put
without the condition.
`WebhookUpdate` sets the entitlement attributes only, as `update_item` does.
`gsi` and `replica` are copies that `Propagate` and `Replicate` bring up to date
at some later moment.

An entitlement is the flag, the time until which it lasts (`until`) and the last
event. An activation that states no expiration inherits the one of the profile
that was read. An `expires_date` that cannot be parsed is stored as it came
(`Garbled`), and `is_premium_active` takes it for none. `Onboarding` says which of
the two onboarding forms are sent at all.

### Sessions and the code

The same handlers also serve `POST /auth/refresh` and `GET /briefings`; `read[x]`
is such a request between two of its calls. Time passes between any two steps
(`Tick`), so a refresh may be answered long after the token was verified, and
`get_for_date` asks the clock twice: `Gate` is `require_premium_history`,
`ChooseLimit` is `briefing_limit`, both about the entitlement that `Authorize`
loaded. `session` is one client with the last token of each kind it was given,
and one login or refresh under way; the other clients are in the steps of
`UserAccounts`. A stored briefing is its number of items (`BriefingSizes`). What
the client is refused (401, 403, 422) changes nothing.

## Runs

| Run | Question | Bounds |
|---|---|---|
| `pipeline_safety` | What survives crashes, early timeouts, redeliveries and stale reads? | 2 articles, 3 messages, 2 ingesters, 2 workers, 1 reprocess job, 2 faults |
| `pipeline_one_worker` | Is a published summary final for a single consumer with consistent reads, and does every job settle? | 2 articles, 2 messages, 2 ingesters, 3 faults, fairness |
| `pipeline_ingest_promise` | Violated: what `ingest` says of an article it has answered for | 1 article, 2 ingesters, 1 fault |
| `content_fetch` | Is what a fetcher was given served, and is an article listed once? | 2 ingesters, 2 languages with a feed in common, 4 entries, 3 articles, 4 messages, 2 faults, a reprocess job; no worker |
| `smart_brevity` | Are the best sentences shown, and when is one repeated? | 6 sentences of 19, 20, 160, 161, 200 and 201 characters, articles of up to 5, 3 languages |
| `consumers_local` | Do forever and once consumers lose, abandon or leave anything? | an article job, a legacy job and an unreadable body, 2 consumers, 2 faults, fairness; 75 thousand states |
| `consumers_mixed` | Both programs on one queue: are failures reported and briefings kept? | an article job and 2 jobs for one briefing, a consumer and 2 Lambda executions, batches of 2, 2 attempts, 2 faults, stale reads; 1.4 million states |
| `feed_request` | Is the answer right while the table changes? | 4 articles on 2 UTC days and in the old partition, 2 request times, 4 profiles, 2 limits, copies that lag; 2.1 million states |
| `feed_after_midnight` | Violated: the window is the most recent sleep window | the same instance |
| `accounts_concurrent` | What can stale copies not break, and does anything else lose a write? | 2 handlers, 2 users, 8 events of every class, lagging reads; 3 million states |
| `accounts_sessions` | Do sessions end, and is premium answered only while it lasts? | 2 handlers, 1 user, a purchase that expires after 1 tick, a renewal without an expiration, a refund, lagging reads; 3 moments, tokens of 1 and 2 ticks; 6.2 million states |
| `accounts_answered` | Violated: 200 means applied | 1 handler, 2 events |

Why these bounds are enough. A race here is between two processes over one item,
so two of each kind meet; a second article shows that they do not disturb each
other's. Two faults allow a crash during the recovery from another, a third the
recovery of that. The third message of `pipeline_safety` is what a reprocess job
needs beside one job per article. In `feed_request` the nights cross both the
local and the UTC midnight, the tier limit is below and above the number of
rows that are found, and the titles form a chain in which the ends are not similar. What is not
bounded by nature (users, events, Lambdas, batch sizes, faults) is covered by the
theorems, which hold for all constants. In `accounts_sessions` a purchase
may expire before, between and after the two checks of a request, while the other
handler renews it, refunds it or puts back an old profile, and an access
token may be refreshed at the last moment of the login or too late.

`accounts_concurrent` has a state constraint, `Explored`, as all events with all
requests are too many states. It is a union of three parts, each with both handlers and
lagging reads: the onboarding of one user while a purchase and a cancellation
come; the entitlements of two users with a purchase, a renewal without an
expiration, a refund, an expiration that cannot be parsed for the other user, and
events from the sandbox and without a user; one user with a purchase and an event
without an id, which may be applied again and again. The theorems about this
module have no such bound. The views of the two passing accounts runs leave out
`returned`, which no action reads and no property of those runs mentions.

In `content_fetch` one entry is one of two articles by its page, two entries may be
the same article, and the languages share a feed; the workers are left out because
neither property depends on them. The lengths in `smart_brevity` lie on both sides
of each bound of the code, articles have more sentences than a summary shows, and
words repeat up to twice.

The two consumer runs say `CHECK_DEADLOCK FALSE`: each message is sent once, and
when the consumers of a finite set of messages have stopped or the queue is empty
nothing is left to do.

### What the violations show

- `pipeline_ingest_promise` (`use_cases.py:52`). A fetcher dies after the RAW put.
  The next `ingest` of the article answers DUPLICATE, for ever, and the article
  has no feed row, no summary and no job.
- `feed_after_midnight` (`resolver.py:54`). For hours such as 01:00 to 06:30 the
  window starts at 01:00 of the day before it ends: 29.5 hours with a day awake
  and another bedtime in them. The docstring of the resolver promises the most
  recent completed sleep window, and the briefing service, with a test for these
  hours, makes the case distinction that the resolver lacks. `TodayIsTheFeedNight`
  and the last line of `WindowIsLatest` are therefore about the other hours only.
- `accounts_answered` (`revenuecat.py:90`). A delivery dies after recording its
  id; the retry is a duplicate, answered 200, and nothing is applied.

More disagreements need no run of their own:

- A legacy payload (`local_consumer.py:225`, "Backward-compatible path") is parsed
  and handed to the article use case, which reads `job.content_hash`; the job has
  none, the exception ends the process and the message comes back (`LegacyKills`).
  `EveryMessageLeaves` exempts such a job on a queue of local consumers, and shows
  that it does not keep the others there.
- The "idempotent save" of a briefing (`use_case.py:34`) is a get, which may be
  stale, and an unconditional put: two Lambda executions may each make the
  briefing, and the later put replaces the earlier. `BriefingIsKept` says from
  when on it is final.
- `get_raw_article` (`dynamodb_single_table.py:133`) may miss an item just written;
  the worker then records RAW_NOT_FOUND and acknowledges, so it is final
  (`ReadRaw`).
- A why line of more than 160 characters is shown a second time as the first
  bullet (`smart_brevity.py:328`): `RepeatedWhyIsLong` says exactly when.

`ImplementsLifecycle` holds under a hypothesis, and dropping it in the configuration
shows why it is there: that a published summary is final fails with a second
worker, as an early timeout lets two deliveries overlap and a failure overwrites
DONE. `UndoneOnlyByStaleCopy` says in what way writes to a profile are lost, and
with two handlers they are: preferences and acceptance sent together each put back
the profile they read, and a login puts back what the index held. `LoginNew` alone
shows two users for one identity when two first logins overlap.

## Faults and fairness

Faults are counted (`MaxFaults`) in the pipeline and the consumers, because
properties such as "a withdrawal needs a redelivery" speak of them and because
no queue drains under endless crashes. In `UserAccounts` a request may die at any
step, without a bound. No read of the code asks DynamoDB for consistency. Stale
reads are modelled as far as each module can tell them apart: any earlier content
of an item (pipeline), one lagging copy (accounts), rows and summaries that not
every copy has yet (feed), no item yet (briefings). `ConsistentReads` is TRUE
in `pipeline_one_worker`, for `ImplementsLifecycle`, which needs it; in the violations
`pipeline_ingest_promise` and `accounts_answered`, which occur even then; and in
`content_fetch`, where no worker reads anything.

Liveness is claimed for the pipeline with one worker and for local consumers.
Fairness is weak fairness of what a running program does next: an `ingest` that
has begun goes on, the consumer's loop polls and finishes the message it has,
`make summary-worker-loop` restarts a consumer that died, SQS ends timeouts.
Nothing makes a fetch begin, a signal arrive or a fault occur. In the pipeline
receiving needs no more than weak fairness: with one worker a visible message stays
visible until that worker takes it, and of several messages any may be taken, as
each leaves the queue and the supply is finite. With local consumers a legacy job
never leaves the queue and is received again and again, so there a message that is
visible again and again is assumed to be received in the end (strong fairness,
`Receive`): SQS gives messages from a sample of its servers, in no fixed order, and
does not pass over one for ever.

## Proofs

`tlapm` checks every leaf; nothing is assumed beyond the named assumptions on the
constants (types of the constants, and that `None` is none of the data).

**SummaryPipelineProofs.** The inductive invariant has, beside `TypeOK`: what an
ingester has written by the time it reaches each call, and that at most one
ingester works on an article and then no job for it has been sent (this is
what the conditional put buys); that a worker about to acknowledge holds a
settled article; that every earlier content of a SUMMARY item is a possible
record, and that once settled an article is never unsettled. None of the checked
invariants is inductive alone: `NoJobLost` needs the worker part,
`OneJobPerArticle` the ingester part. `Refinement` shows each step a step of
`SummaryLifecycle` or a stutter; that DONE is final when there is one worker with
consistent reads needs that what this worker read is still what is stored.

`OrphanNeedsFault` is inductive once the ingester part is known.

`WithdrawalNeedsRedelivery` rests on an invariant of the behaviours without a
fault so far (`OneDelivery`): one worker holds each message at work, which is
hidden, and an article with an outcome has a message that is spent (deleted, or
about to be). As ingestion sends one job per article, no second attempt is left.
`LostIncrementNeedsRedelivery` rests on the same: the one delivery that fails read
a record that no failure had touched, stale or not, so the count it stores is
higher. `RetriesNeedDeliveries` needs an account of attempts still to come
(`CountsHaveRoom`): workers at work on the article and messages of it that can
be received use up the room between a count and the jobs sent plus faults. A
receipt moves an attempt, a mark uses one up, a crash or an early timeout pays with a
fault for the one it adds. Stale counts need no care, as every earlier count had its
room and room only grows. It assumes finitely many messages and workers.

**ContentFetchProofs.** `FetchIsPipeline` shows every step of a run a step of
`SummaryPipeline` or a stutter, which brings in its invariant. What is added
(`FInv`) says of each run that every entry it was given is still ahead, at hand,
or served (`RunsInv`), that what is in the hands of an `ingest` is what the RAW
item has (`InHand`), and that an article's language and date come from an entry
of a feed of that language (`ItemHasSource`). `FinishedIsServed` needs all three:
a DUPLICATE is only good news because of what the invariant says of the run that
stored the article.

**SummaryConsumersProofs.** `IInv` is `TypeOK`, what each consumer and Lambda has
done by each point of its work (`AllGood`: at `ack` the message is processed, the
finished records of a batch are processed or reported), `NoJobLost`, `Accounted` and
`CountsGood`: the count of a once consumer is the number of its empty receives since
the last message.
`AbandonedNeedsFault` follows from a stronger fact (`Accounted`): what is hidden and
was not cut short is in the hands of a consumer, or of a Lambda that has not
reported it as failed and will delete it. `OnceEndsWhenQuiet` follows from
`CountsGood`, since only `CountEmpty` ends a consumer that was not told to stop
(`EndsAtEmptyPoll`). `BriefingIsKept` needs that a briefing that every copy has is
there (`CopiedIsThere`): every read then finds it, so no execution comes to `save`
for it anew. None of the theorems bounds consumers, executions, batches or faults.

**UserAccountsProofs.** The key is that soundness of a profile is a property of
every copy: stored, in the index, in the replica or in a handler's hands. Then
putting a stale copy back cannot break `OnboardedIffBoth` or
`EntitlementHasSource`. `IdentifiedAppliedOnce` needs that an identified event
being delivered is recorded, not yet applied, and delivered by one handler only.
`UndoneOnlyByStaleCopy` needs of each handler that the profile it is about to put has
the entitlement of the one it read, and its preferences and acceptance
(`NothingDropped`): a put from the stored profile then takes nothing back.

**SessionsProofs.** `SessionsAreAccounts` shows every step of `Sessions` a step of
`UserAccounts` or a stutter, which brings in the theorems about the accounts. The
invariant adds what a request knows at each call (`ReadGood`): from the gate on
its entitlement was active at some moment since the request came, and
`CopiesSound` says that an applied activation stands behind it, also when the
profile came from a replica. Events are never unapplied and time never runs back,
so that knowledge lasts (`KnowledgeStays`).

**SleepFeedProofs.** Rows are a strict total order, so ranks in a finite set run
from 0 without a gap (`RanksOnto`), which gives what a limited query returns
(`EarliestCount`) and that all it leaves out comes later (`PassedOver`).
`EarliestAreKept` alone is not inductive: `KeptInv` says of each article, as soon as
its partition has been queried, that it is among the rows or the limit is used up
before it. Rows are never deleted, so a row that every copy had is in whatever copy
answers a later query. That each partition may be queried to the limit only, and at another
moment, then does no harm. `WindowFacts` is the arithmetic of days. For the
number of articles in a response nothing of the clustering is needed but that
every place is in a cluster.

`PublishedStoryIsShown` needs the clustering itself, a recursive function over the
places of the rows, which is first shown to obey its equation
(`ClusterEquation`). A row joins the cluster of an earlier one only if the two are
similar (`ClusterJoins`), so a set of rows that is closed under similarity has all
of a cluster or nothing of it (`ClusterIsWithin`). `Story` is such a set
(`StoryIsClosed`): its chain grows until it stands still, and does so within as
many turns as there are rows. The representative of a cluster is the longest
summary found in it, and `StoryInv` says that what every copy shows all along was
found at its length.

**SmartBrevityProofs.** The invariant is one line: a summary is `Pending` or the
summary of the article. The work is in the operators. Each fold over a sequence is
shown to be what it has after each element (`MeaningfulByPrefix`,
`BulletsByPrefix`), and those are then described without recursion: the sentences
kept are the ones that count, each once and in the order of the article
(`MeaningfulFacts`), and what is dropped leaves no trace (`Padding`). Word counts
over positions are the same sums as over the set of sentences
(`CountIsKnownCount`, from `SumRenamed`), so the score of a position is the worth
of its sentence, bonuses at the ends included (`ScoreIsWorth`). The sort puts the
positions at their ranks (`NthFacts`), whence the best come first (`ScoredFacts`).
The bullets are the next ones after the why line, or from it when it was
truncated (`BulletsAreNext`). The theorems assume that words are finitely many and
that no sentence has the name of a fallback text.

**Foundations.** `tlapm` knows no induction over data and no recursive function
but by what is proved of it. This module derives induction over the naturals for
sets (`EveryNatural`), that a recursion over the naturals or over the subsets of a
finite set has a solution (`RecursiveFunctionExists`, `ReductionExists`), the
equation of a finite sum and its independence of the order and the names of its
terms (`SumEquation`, `SumWithout`, `SumRenamed`), and ranks (`RanksOnto`).

Every invariant and action property of a passing run is the statement of a
theorem. What stays with TLC is liveness (`EveryJobSettles`, `QueueDrains`,
`EveryMessageLeaves`): it rests on fairness and ENABLED, which the prover does not
reach. The three violations are counterexamples and have nothing to prove.

## What is left out, and why

- The text of sentences, titles and pages: HTML and feed parsing, cleaning of
  text, the headline, the labels and the layout of a summary, page metadata.
  `ContentFetch` has what a document yields, `SmartBrevity` what a sentence weighs.
- The `except` branch of `summarize` (`smart_brevity.py:237`): an article's title and
  content are strings, and nothing in the `try` raises for strings.
- To the pipeline the summariser still answers or raises: a worker's use of
  `SmartBrevity` would only make `MarkFailed` after a summary impossible.
- A message that always fails: the queue has no redrive policy
  (`scripts/create_queues.py:37`), so there is no dead-letter queue to model.
- DynamoDB page limits (1 MB): a feed row is a few hundred bytes and a query asks
  for at most 25 of them.
- Daylight saving: the offset of local time is a constant, so a window across a
  change of clocks is not checked.
- Product and store of an entitlement, which nothing decides on, and the
  composition of the feed with `UserAccounts`: the feed trusts the stored flag and
  ignores the expiration, the briefings test it.
- The content of briefings: `SummaryConsumers` saves them, `Sessions` reads a
  number of items.
- `scripts/create_tables.py` keys the users table by `user_id`, while the
  repository uses `pk`/`sk`: the model follows the repository.
- The in-memory repositories, request validation, configuration, and the scripts
  that create or purge tables and queues.

## Plan

In order of importance; the first eight items are done.

1. `SummaryLifecycle`, `SummaryPipeline`: the core, with its refinement. Done.
2. `SummaryPipelineProofs`: types, safety, refinement. Done.
3. `UserAccounts` and proofs. Done.
4. `SummaryConsumers` and proofs. Done.
5. `SleepFeed` composed with `SummaryLifecycle`, and proofs. Done.
6. `Sessions`: tokens and expiry, the briefing requests, and proofs. Done.
7. `ContentFetch` composed with `SummaryPipeline`, and proofs. Done.
8. `SmartBrevity` against a reference definition, and proofs. Done.
9. One abstract specification of "what a tier may see", implemented by `Sessions`
   and compared with the feed, which reads the flag only; the briefings that
   `SummaryConsumers` saves joined to the reader in `Sessions`.
10. An abstract specification of the accounts (a register per user that each
   acknowledged request updates), implemented when requests are served one at a
   time and logins read the table.
11. Devices and sleep preferences, as upserts that race; `calculator.py` against
   `resolver.py`.
