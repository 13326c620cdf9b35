# Verification of content-based

`content-based` is a recommender of news categories. A module (`src/src/core`,
`src/src/service`) counts which categories users click, keeps the counts across
restarts with a write-ahead log and recommends categories from them; a
framework (`src/src/framework`) feeds it from a Kafka topic and from sockets,
and a *center* in the same framework joins several such modules, a candidate
service and a cache of ready lists behind one port.

This directory holds TLA+ models of that code, TLC configurations that check
them on small instances, and theorems that TLAPS proves for every instance.
`PROJECT.json` is the index: components, runs, the lines each definition
stands for, hazards, theorems and, for each property, a mutant of the model
that breaks it.

All paths below are relative to `src/src/` (in `PROJECT.json`: `src/src/...`).

## 1. The system

| Component | State | Operations | Talks to |
|---|---|---|---|
| `core/periodic_log` | `.writing`, `.recovering`, `<prefix>-<n>.log`; write buffer, `last_counter_`, the mutex | `open` (with `recovery`), `write`, `rollover`, `getIterator` | one owner, a `DistTable` |
| `core/dist_table` | a `PeriodicLog`, a table file and its `.tmp` | `init`, `reload`, `train`, `rollover`, `eliminate`, `flush`, `addClick`, `addItem` | base of the next two, which supply the callbacks |
| `core/news_trends` | two maps of category shares, a pointer to the served one | training callbacks, `queryCurrentTrends` | queries read without a lock |
| `core/user_interests` | current counts per category and per user, `current_day_`; two maps of the long-term table and a pointer to the served one | training and elimination callbacks, `addClick`, `addItem`, `reload`, queries | |
| `core/content_based` | user table, item table, the two above, category table | `openModel`, `updateAction`, `updateItem`, `flush`, `train`, `rollover`, `reload`, `predict`, `queryAlgorithm` | all of `core`; called by glue |
| `core/marshaler` | only local to a call | `marshal` | called by queries |
| `core/model_options` | options | parse once | |
| `service/service_glue` | four next-due times, `save_time_stamp` of the framework | `init_module`, `persistent_library`, wrappers of updates and queries | `thread_persistent` |
| `framework/CF_framework_module` | Kafka offset file, flag file of the persistent thread, sockets | `thread_kafka`, `thread_network`, `thread_persistent` | topic, clients, glue |
| `framework/CF_framework_center`, `..._cache` | task queue, flush queue, flags of users, cache of lists, `sync.save`, `sync.send` | `thread_listen`, `thread_process`, `thread_flushcache`, `thread_feedback`, the two `UC_CenterMessage` processors | clients, the candidate, the modules |
| center's `parse_json` and its six functions | the task's buffer | one row of fields without names per message | listener before, handlers and daily logs after it |
| `service/service_grpc`, `main.cpp` | none | start-up, queries by RPC | `content_based` |
| `tools/converter` | | writes the long-term table in place | `DistTable::reload` reads that file |
| `tools/wal_reader`, `proto/`, configuration, JSON of the topic | none that persists | conversions | |

`main.cpp` starts a module, never a center; the two framework headers come in
one package and `CF_framework_center.h` is what stands in front of such modules.
Its wire format is not the protobuf of today's module.

What is hard here, and what must hold:

* **Crashes inside file operations.** A log is renamed, copied back, flushed,
  removed; the process can die at each call, and again in the recovery. An
  acknowledged record must survive and must not be replayed twice.
* **Threads without a common lock.** A query walks a map the training swaps;
  two threads get the same click; two threads serve one user from one cache.
  One answer must be mixed of one version of each source, a click's count must
  be bounded, a list must not hand out an article twice.
* **Two files, two logs, many services.** Both logs are given the same clicks;
  an update goes to the candidate and to each module with failures in between.
  What a code says must have happened, and no part may lead the one before it.
* **A file written and read at once.** The converter rewrites the table of all
  users in place; the reload takes whatever it reads until a record fails or is
  empty for the whole.
* **Rows without names.** What a client sends is put into a buffer by one set
  of functions and read at offsets that others count for themselves.
* **Late and repeated calls.** Kafka delivers again after a crash; polls of the
  timers are late; feedback is sent again. Nothing may be lost beyond what the
  design gives up, no moment be skipped.
* **Waiting on one another.** Full queues, flags held while waiting, a loop
  that draws until it finds something, descriptors that are never closed.
* **Numbers at their edge.** The counter in a log's header, the ring and the
  rounds of the shuffle.

`PROJECT.json` lists 40 hazards at their lines, each with its properties or the
reason it has none. Where the code really goes wrong and a property has to leave
the case out, the hazard says so, and section 6 does.

## 2. The modules

Each module but the abstract `Journal` and `Recommender`, and `NewsTrends`,
which `Prediction` extends, has an `MC...` module and a `.cfg` for TLC:

| Module | Code | State and steps |
|---|---|---|
| `Journal` | what `PeriodicLog` promises | records are live, then rolled; crashes are invisible |
| `PeriodicLog` | `periodic_log.cpp` | one step per system call; `pc` is the next one. Files are sequences of entries: a counter first, then records. `buf` is what `append(data, false)` holds back and `Spill` the moment the library writes some of it early |
| `UserInterests` | `user_interests.cpp` over `dist_table.cpp` | counts, log records and logs. A network thread's click is three steps: the prior, the user's count, the log. `Restart` is `init` with the replay and the training it does. `eliminate` is one step: as the window of the iterator and `needEliminate` are the same, it never subtracts anything, and a mutant that makes them differ breaks `WeightsFinite`. A pass over logged events is said by the set of events its guards let through: each is counted with the same amount, so the order does not matter |
| `NewsTrends` | `news_trends.cpp` over `DistTable::train`, `reload` | the training's steps against the steps of queries |
| `Prediction` | `predictUserInterests`, `DistTable::reload` and `user_interests.cpp`'s part in it, `converter.cpp`'s dump, statuses of `service_glue` and `service_grpc`, `main.cpp`'s start | extends `NewsTrends` by the long-term table: two maps of rows, the file record by record, converter and reload at once; a prediction walks the user's row, then the trends, and is mixed in one last step |
| `ContentBased` | `updateAction`, `updateItem` | per thread, one step per call into a table or a log |
| `ServiceGlue` | `service_glue.cpp`, `thread_persistent`, and the order of calls in `ContentBased::flush/train/rollover` | the clock in ticks, `next` per timer, one step per timer looked at |
| `Marshaler` | `marshaler.cpp` | one call; a step per category |
| `FrameworkModule` | `thread_kafka`, `thread_network`, `init_framework` | position in the topic, offset file, per-worker step, state of connections |
| `CenterMessage` | `parse_json` and what it calls, the rows that `thread_process`, the handlers and the logs read | a byte of the buffer is known by the message, field and part it belongs to; a step per field and piece. The writer's `len` and the readers' offsets are sums of sizes, and add up apart from each other |
| `CenterUpdate` | `thread_listen`, task queue, `thread_process`, `process_action/document/subscribe`, `ICM_Update_Processor` | per-thread step, what the candidate and each module took in, the code sent |
| `Recommender` | what the center promises its users | per user a list, articles in a request's hand, what was told, what was shown |
| `CenterQuery` | `process_query`, `process_feedback`, `CF_framework_cache`, `thread_flushcache`, `thread_feedback` | per-thread step, cache entry, flag, both queues, both sync files, what the candidate was told |

Composition. `PeriodicLog` implements `Journal` (refinement mapping
`live <- Live`). `UserInterests` uses the log at the grain that refinement
allows: an operation of the log is one step. `Prediction` extends `NewsTrends`
and implements it: trainings and reloads share one thread, each starts only
when the other is idle. `ServiceGlue` composes the timers with the parts
`ContentBased` calls under them. `ContentBased` has the threads that
`FrameworkModule` runs; `FrameworkModule` keeps of the model only which calls
returned 0. `CenterMessage` is what comes before the tasks of `CenterUpdate`
and `CenterQuery`, the two halves of the center; these share the candidate, and
no other state: updates do not touch the cache, the flags or the sync files.
`CenterQuery` implements `Recommender`: the list is the cache entry's, a hand
is what a thread has taken out of it and not yet answered.

Definitions named like a function of the code model that function; a
definition with `(* mutant: ... *)` above it belongs to no specification and
only shows that a property can fail.

Outside the model, behaving as the code uses them: the user and item tables
(taken to survive a crash), ChronoExpr (`next(t)` is the first moment after
`t`), librdkafka (a message counts as consumed once `consume()` has returned
it, and the count reaches the offset file at any later time),
`UC_CenterMessage` (runs the processor for each module, in any order and
interleaving, then combines; may give up), the candidate and the modules (do
what is asked or fail, before or after they did it; the candidate may also answer
that it refuses).

## 3. The runs

All are exhaustive.

| Run | Bounds | What it shows |
|---|---|---|
| `log` | 2 records, 2 crashes, 1 failing call, counter to 2 | `RecoveryPrefix`: a recovery can be started again at any moment. `RecordedOnce`: nothing is twice in the file the next one reads. `ReplayComplete`: once open, all of it is in memory. `OwnLogsFrozen`: no rollover of this process overwrites a log of this process. `JournalSpec`: refinement. `OpenEnds`: `open()` ends |
| `interests` | 2 users, 1 category, 2 threads, window 2, clock to 2, 3 events, counter to 2, 1 restart | `PriorIsSumOfUsers`: the prior and the users' counts differ by the clicks between the two steps and no more; `NeverOvercounted` across restarts; `WeightsFinite`: no query divides by a prior of 0 |
| `queries` | 1 query thread, 2 categories, one of them current, 2 users, one with a row of only the other, 2 trainings, 3 trainings and reloads together, 2 conversions, 1 fault (a failing read or write of the table, or a death), 1 restart; 5.6 million states | `ReadsOneVersion`: with at most one training and one reload alongside, what is mixed is one version of each (with two, the walk reads a map being filled: the code relies on queries being fast). `TablesWhole`: a table read to its end while nobody wrote it is served with one conversion's row of every user but those whose own write failed. `CurrentUserAnswered`: a user with current interests is refused just when the long-term row found names categories and none of `kCategory` |
| `updates` | 2 threads, 2 users, 1 item of 2 categories, one named twice, 5 deliveries, 1 failed log write, 1 crash | `CountedAtMostThreads` (per thread, once for each place at which the item names the category; both threads together do reach that bound), `LogsAgree`, `SettledClickCounted` |
| `timers` | hour of 6 ticks, day of 12, a call every 3, polls up to 1 late, 30 ticks, 2 restarts, 1 failing flush | `KeepsSchedule`: rollover, reload and the user table's flush come within their period and `Slack = Interval + 2 * MaxGap` = 5, less than an hour: a lost rollover would show, and so would a call held back twice |
| `marshal` | six lists of weights, 1 or 9 categories asked for, draws from 0 to 99 | `MinGap`, over the seam of top and draws too, and no round repeats a category; `Returns` |
| `module` | 3 messages, 3 clients (one garbled, one that does not unpack), 2 workers, 2 descriptors, 2 crashes, 1 failure | `OneLostPerCrash`, `ClientsServed` |
| `messages` | 15 messages (right ones of each kind, lacking a field or a member, with a field too many, one byte too long for a buffer of 100), any two after each other | `AcceptsWhatFits`: just the complete ones that fit get through; `ReadsAreFields`: handlers and logs read the fields they mean, of this message |
| `center_updates` | 2 actions of a user, a document, a subscription, the first action and the subscription such that the candidate may refuse them; 1 listener, 2 process threads, 2 modules, queue of 1, 1 failing call | `CodeZeroMeansAll`, `ModulesAfterCandidate`, `HistoryHoldsAnswered`, `EveryRequestEnds` |
| `center` | 1 user, 2 articles, answers of 1, 2 process threads, 1 flush thread, queue of 2, 3 queries or feedbacks (a client's of 5 articles, long enough that what a shorter one leaves behind it is read as a record), 1 crash | `ShownWasTold`, `PromiseSpec` (refinement of `Recommender`: an article leaves the list with one request), `FeedbackKept`: a saved feedback leaves the two files told, or about to be told, or in one of two ways, see section 6; `QueriesAnswered` |

Two further runs, `interests_restart` and `messages_feedback`, expect a
violation, see section 6.

Why the bounds suffice: the hazards are pairwise (two threads on one click, a
reader against a training, two threads and a refill on one user, a crash inside
a recovery from a crash), so two actors, two crashes and one failure reach
them; with two trainings or reloads a map is used again, and a query that
starts before both has two alongside; a queue of one or two is full with two
waiting threads; 96 bytes are the length of one of the right messages, so that
the ones beside it are a byte too long; the day is long enough for hourly and
daily timers to meet twice, and the interval long enough that two polls in three
are held back. Every mutant is found under the same bounds, and
every action fires in some passing run. `CHECK_DEADLOCK FALSE` is set where a
run may stop by its own bounds (records, deliveries, requests used up), by the
program's end (`marshal`), or, in `center`, by the code's own deadlock, which
`QueriesAnswered` excludes with its premise.

The runs `module` and `updates` share one question: `FrameworkModule`
says which messages reach the model at all, `ContentBased` what happens to one
that does, delivered again or not.

### Fairness

* `PeriodicLog`: weak, on `open`/recovery and on the middle of a rollover:
  straight-line code of one thread, and the service is started again. A write,
  a rollover, a crash are never forced.
* `Marshaler`: weak on `Next`: one call in one thread.
* `FrameworkModule`: weak on start, `thread_kafka` and each network worker. A
  client need not connect and the offset need not be written.
* `CenterUpdate`: weak per thread, and of the calls to modules that are out one
  ends: sockets have time limits (`cp_set_overtime`), so all do, well or not.
* `CenterQuery`: weak per process thread and per flush thread. Users' flags are
  spin locks with no order of waiters; weak fairness is enough because the
  queries, and so the competitors, are bounded; in the code an unlucky waiter
  under endless load has no guarantee, and none is claimed. `thread_feedback`
  has no fairness: nothing depends on it here.
* The other modules (`UserInterests`, `Prediction`, `ContentBased`,
  `ServiceGlue`, `CenterMessage`) are checked for safety only and have none.

## 4. What is proved

TLAPS checks eight modules to the last leaf: `PeriodicLogProofs`,
`UserInterestsProofs`, `PredictionProofs`, `ContentBasedProofs`,
`MarshalerProofs`, `FrameworkProofs` (module framework and timers),
`CenterProofs` (updates and messages) and `CenterQueryProofs`. Every safety
property that a run finds to hold, invariant, action property or refinement, is
a theorem here. The results hold for every set of records, users,
categories, articles, messages, threads, modules and requests, every schedule,
and any number of crashes and failures. Assumed are the constants' `ASSUME`s:
records are not numbers (`atoi` of a record is 0), sets of users, threads and
modules are finite where they are counted, weights of the shuffle are naturals
and its lists have between 1 and 100 categories (`total_flags`), the converter's
map has every user, a window is an hour at least, what the candidate may refuse is
some of the requests, a task's buffer has room for the four bytes of its length,
bounds are numbers.

**The write-ahead log** (`PeriodicLogProofs`).

* `TypeCorrect`, one lemma per part of the code.
* `Invariance`: `IInv == TypeOK /\ Directory /\ OwnBelow /\ ReaderPosition /\
  RecoveryPrefix /\ Accounting /\ RecordedOnce`. None of the properties is
  inductive alone. That nothing is recorded twice depends on what the recovery
  has copied, on which files are there at each call (`Directory`), and on what
  was acknowledged (a write is of a new event, `Accounting`).
  `Accounting` speaks of the *authority*, the file the next `open()` would read:
  `.recovering` if it exists, else `.writing`. The lemma `AuthoritySteps` says
  how a step can change the authority: not at all, by a write's append, or by a
  rollover's rename, as long as no dropped status has struck. All of open and
  recovery are in the first case, and that is why a crash there is harmless.
* From it `RecoverySound`, `NoDoubleCount`, `OwnLogsSafe` (an action property),
  `NothingLost`, `ReplaySound`, and `ImplementsJournal`: the initial state maps
  to `J!Init`, every step to a step of `Journal` or a stutter.
* The lemmas at the top are the few facts about `SubSeq`, `Append` and `\o`
  these need and the library does not state.

**The current interests** (`UserInterestsProofs`).

* `Invariance`: `IInv == TypeOK /\ Steps /\ Positive /\ Kept /\
  PriorIsSumOfUsers /\ NeverOvercounted`. `Steps`: only a click waits to be
  counted for a user. `Positive`: a category of the prior has been counted
  there, which is `WeightsFinite`. `Kept`: the files, `.writing` and all logs,
  hold no click more often than it was given; a rollover moves records and,
  after a restart, may do so over another log, which only loses some.
  `NeverOvercounted` needs it at a restart, where what is counted is what the
  iterator finds: each in a record of a log of its own, since it visits no log
  twice (`RestartWithinFiles`).
* `PriorStep`: every step changes the prior of a category and the sum of its
  users' counts alike, but for the clicks between the two. A click does by one
  and one; a training, by the records that the guards let through, counted once
  for all users and once each (`TotalOfParts`); an elimination by nothing, since
  `needEliminate` names only logs beyond the window the iterator visits
  (`NothingEliminated`). For the sums over users and records no induction is
  needed: `Total` is the size of a set of cells, and how a sum changes is how
  the set does.
* From it `TypeCorrect`, `PriorIsSum`, `NeverOver` and `WeightsAreFinite`, all
  four properties of run `interests`.

**Predictions** (`PredictionProofs`).

* `TrendsCorrect` for `NewsTrends` by itself, and `PredictionRefinesTrends`:
  `PredictionSpec => Spec`, so the former holds with reloads, converter and
  predictions alongside.
* `Invariance`: `TrendsInv /\ TablesInv /\ RowsInv /\ Mixing`. `TrendsInv` and
  `RowsInv` have the same key, once for the trends and once for the users' rows:
  a training or a reload fills only the map that is not served, so with none
  begun since the query took its pointer it walks the served one, and with one
  begun the map it walks is untouched, whether or not the swap has happened.
  `TablesInv`: what a reload has read is a prefix of the file as long as nobody
  writes it, so at the file's end it is all of it; that is all users but those
  whose write failed, of which the file itself shows nothing. `Mixing`: the case the last
  step chooses is the one the sizes at that step call for.
* From it `TypeCorrect`, `OneVersion`, `WholeTables` and `CurrentAnswered`, all
  four invariants of run `queries`.

**Update calls** (`ContentBasedProofs`).

* `Invariance`: `TypeOK /\ Looping /\ Balance /\ Settling`. `Balance`: the news
  log is ahead of the other by just the threads between the two, unless a call
  was broken off; `Settling`: for a click marked as read each category is
  counted, or still ahead of a thread, or its call was broken off. From it
  `LogsKeepAgreeing` and `ClicksSettle`.
* `CountsBounded`: of a thread and a place at which the item names the category,
  at most one count comes. `Budget` says that a key's count and the pairs of
  thread and place that may still count it are together no more than there are
  such pairs; `Endings`, that what a call has left is the end of its item's
  categories, so each step of the loop uses up one place.

**The timers** (`FrameworkProofs`). `TimersInvariance`: `Typed /\ Near /\ Asleep /\
Busy`. A moment is never further off than its period (`Near`); asleep, the
last poll has seen every moment before it or the flag file has kept the call
back; in a call, what was looked at is done or not due. `RestOf` and
`ChronoNext` are what the `CHOOSE` in `chronoNext` needs of division. From it
`ScheduleKept`, which is about rollovers, reloads and the user table: the
trainings and the item table keep no schedule (section 6).

**The shuffle** (`MarshalerProofs`). `Invariance` ties the ring, the flags of
the round and their two counters to the end of `results`; `GapsKept` is the gap
and that no round repeats. `RingPlaces` is about places modulo `N`, `MinIsOne`
that the least element of a nonempty set of naturals exists.

**The module framework** (`FrameworkProofs`). `Invariance`: only a crash
makes messages missing, and only the one in hand; `LostOnlyInHand` counts them.

**Updates through the center** (`CenterProofs`).

* `Invariance`: `IInv == TypeOK /\ Working /\ Known /\ Earned /\ Taken /\
  Prepared`. `Working`: a thread that waits for the modules has the candidate's
  answer. `Known`: what the modules have or are about to get, the candidate has
  answered, to take it in (`seen`) or to refuse it (`refused`), and what counts
  as acknowledged was applied. `Earned`: a code was sent for what the candidate
  has answered, a 0 only when all modules acknowledged, or for a subscription it
  took in. `Taken`: what has begun belongs to a thread or is answered, so the
  request a listener accepts is a new one and its `before` can be set without
  touching an old one. `Prepared`: actions answered before a request came are
  with the candidate or were refused, and the former are from the history query
  on in its history.
  The steps that answer a client share the lemma `SendInvariant`.
* From it `ZeroIsComplete`, `CandidateFirst` and `HistoryComplete`, the three
  safety properties of run `center_updates`, and `TypeCorrect`.

**Messages of clients** (`CenterProofs`).

* `MessageInvariance`: `MessageInv == MessageTypeOK /\ Progress /\ RefusedRight
  /\ ReadsAreFields`. `Progress` says how far the parsing is: `g` fields are
  found and of the last one's pieces `p` are put (`Placed`), `len` is where
  the next piece belongs, and each piece before it is in the buffer, byte by
  byte, where the sizes before it add up to (`Written`).
* `PlacesAre` says that a piece begins where the one before it ends, within a
  field and from one to the next; with it `ReadsArePlaces` compares the offsets
  of the handlers and logs, one lemma per kind of message, with what is put
  there. The lengths of texts and lists are any, so the two walks of
  `save_log_document` begin at no fixed place. `CountsAre`: the one comparison
  of numbers in each of the six functions, with every field found, excludes
  any field too many.
* From it `MessageTypeCorrect` (nothing is written past the buffer's end),
  `RightAccepted` and `FieldsReadRight`, all properties of run `messages`.

**Queries through the center** (`CenterQueryProofs`).

* `Invariance`: `IInv == TypeOK /\ Busy /\ Owner /\ Telling /\ Popped /\ Sending
  /\ Saved /\ ShownWasTold`. `Owner`: from adding the user's flag to deleting it a thread
  has it, so two threads are never both between the cache's get and add;
  `Popped`: therefore the cache still holds what the thread left there;
  `Telling`: what a thread answers with was told; `Sending`: a feedback
  confirmed is in the candidate's memory; `Saved`: before the first crash, the
  feedback in `sync.save`, which the next one is written over, has been told or
  its thread still is to tell it.
* From it `TypeCorrect`, `NothingShownUntold`, `FeedbackDelivered` (an action
  property) and `KeepsPromise`, the refinement of `Recommender`.

Only model-checked: all liveness (`OpenEnds`, `Returns`, `ClientsServed`,
`EveryRequestEnds`, `QueriesAnswered`), which the prover does not reach.

## 5. What is not modelled

* Arithmetic of scores: `predict`, `queryAlgorithm`, rounding in the shuffle,
  the scores in `process_query` (any order is allowed there). Floating point.
* The category table and the parts of `content_based.cpp` around it:
  `loadCategory` unlocks on a failing `fopen` what it has not locked;
  `kIsCategoryModified` is never set. The first start needs a long-term table:
  `Prediction` begins with one.
* `queryAlgorithm`'s maximum over an item's categories.
* The topic's JSON (`CF_framework_jparse.h`): `thread_kafka` uses it to make a
  message of a text. No state outlives a call; what the models need is whether
  a text is refused (`dropMessage`) and that an item's categories may be any
  list. An item without a category gets category 13 there; the check after
  `"count"` looks at `node` where `node_two` is meant.
* `thread_train` (`kUpdateTrain` is 0 in this service, so it is not started),
  `thread_watch`, `thread_trim`, configuration, `wal_reader`, the converter's
  inputs and its own trends, the plain dumps of gRPC, generated messages. The
  center's daily logs are modelled as readers of a message's row only.
* Undefined behaviour of walking a `std::map` that is being changed: the walk
  sees each entry as it is when it gets there, the mildest outcome. A read of
  an uninitialised value is modelled as any value (`is_flush` of the cache, the
  buffer read from an empty flag file).
* JSON values of another type than a field's: for a number where a text belongs
  `valuestring` is NULL and `parse_json` crashes in `strlen`. `Message` in
  `CenterMessage` has fields of the right type only.
* Feedback is modelled with `fw_sync_flag` on (without it nothing is saved). A
  record in `sync.save` is written whole or, when `fclose` fails, not at all;
  its users and articles are the model's, so what is read as a record behind a
  shorter one tells the candidate articles it was not meant to, never other ids.

## 6. Where code and comments disagree

Runs that TLC refutes:

* `interests_restart` (`RestartKeepsCurrent`): `init()` replays `.writing`,
  then `train()` clears what that counted and reads rolled logs only: a restart
  forgets the clicks since the last rollover.
* `messages_feedback` (`ReturnedArticles`): `process_feedback` takes the list of
  articles to begin at byte 16 of the row (`CF_framework_center.h:1297`);
  `parse_feedback` puts the list's number there (line 2244) and the articles
  from byte 20 on. Each id read is half a number and half an id.
  `CenterQuery`'s `ClientFeedback` goes on as if the ids were read whole.

Seen while modelling, in the models as in the code, without a run of their own:

* `rollover()` writes the counter to the new header before it increments it
  (`periodic_log.cpp:234`): after a restart the newest log is out of the
  iterator's reach and the next rollover renames over it. `OwnLogsFrozen`
  speaks of one process for this reason; `interests_restart` meets it as well.
* `service_glue.cpp:121` computes the next training from the next *flush*: after
  the first one the trends and the current interests are trained about once a
  day, where `model_options.h:36-37` has "50/hour". `KeepsSchedule` makes no claim
  of the trainings.
* A record of the long-term table that cannot be read, like an empty one, ends
  `reload()`, and the part is served with status OK (`dist_table.cpp:72-79`);
  so is the beginning of a table the converter is writing. `TablesWhole` leaves
  out both.
* The converter looks at the status of no write (`converter.cpp:211`, as `:182`
  for its trends): a user whose record was not written is missing in a table that
  looks like any other. `TablesWhole` names these users (`lost`).
* A user with current interests whose long-term row names only categories that are
  not in `kCategory` gets the mix of both, which is empty: Corruption, -1
  (`content_based.cpp:431-444`, `:341-343`), though the current interests alone
  would do. `CurrentUserAnswered` says that this is the only case.
* An item may name a category twice (`content_based.cpp:513-534` and the parsing
  before it do not look): its clicks are counted twice there.
* The comment in `predictUserInterests` (`content_based.cpp:417-420`) multiplies
  with the news trends in every case; the code that did is commented out.
* A click that arrives before its item is marked as read and counted nowhere;
  its redelivery is skipped (`content_based.cpp:499-508`).
* With no more weighted categories than `marshaler_n`, every category can be
  masked and `marshal()` never returns. `Returns` has the opposite as premise.
* With fewer categories than `marshaler_topt`, `trends[k]` is read past its end
  (phase `overrun`).
* `recovery()` drops three statuses (`periodic_log.cpp:177, 204, 205`):
  `damaged` marks these, and the log's promises end there.
* A crash between the creation of `.writing` and its header makes the next
  record the "counter".
* No rolled log is ever eliminated: iterator and `needEliminate` use the same
  window (`dist_table.cpp:216`).
* `ContentBased::flush` returns after the user table; the item table is only
  flushed when the user table fails.
* `model_options.cpp:57` and `:91` set the default of another option; `:63` has
  a default of 3 where `model_options.h:31` says 2; `conf/content_based.conf`
  has `flush_timer` "1/mon" and lacks `marshaler_r1`, `_r2`, `_n`.
* `total_flags` of the shuffle has room for 100 categories (`marshaler.cpp:15`),
  which nothing checks; 13 are shipped. `MarshalerAssumption` has it.
* An unparsable request leaves its socket open (`CF_framework_module.h:498`);
  once descriptors have run out nobody is served. `ClientsServed` has as premise
  that one is left.
* `process_action` and `process_document` look at whether the candidate answered,
  not at what (`CF_framework_center.h:867`, `:915`): an update it refused goes to
  the modules, its client gets the modules' code, 0 if they took it in, and it is
  in no later history. `process_subscribe` does look. `CodeZeroMeansAll`,
  `ModulesAfterCandidate` and `HistoryHoldsAnswered` say what is left: the
  candidate has *answered*, and histories hold what it did not refuse.
* The comment above the log of actions (`CF_framework_center.h:1480`) calls its
  third column `publictime`; it is the click's time.
* A refill of the cache asks for articles before it takes the user's flag: an
  article given meanwhile can be in the next list again. `Recommender`'s refill
  may therefore bring an article back.
* Every feedback is written over the last in `sync.save` ("rb+", offset 0,
  `CF_framework_center.h:1316`). As the thread that saved it tells the candidate
  itself, one that is overwritten is only lost when a crash came in between
  (first way out of `FeedbackKept`). What a longer record leaves behind a shorter
  one is read as a record of its own (`ReadLeft`).
* `thread_feedback` leaves its loop when an `fread` fails and removes `sync.send`
  as if it had come to the end (`:780-786`, `:796`): the second way out.
* `is_flush` of the cache is left unassigned with few articles left less than a
  minute after a flush (`CF_framework_cache.h:103`): articles taken out may be
  told to the candidate and never shown. No property says that what was told is
  shown.
* A query that meets a full flush queue waits in `PushData` with its user's
  flag, for which all flush threads may be waiting: a deadlock, excluded by the
  premise of `QueriesAnswered`.

## 7. Plan

Done: the core (log, current and long-term interests, trends, predictions,
updates, timers, shuffle), the module framework, the center with its messages;
abstract specifications of the log and of the center's queries with their
refinements; proofs of every safety property that the runs find to hold.

Next, in this order:

1. `UserInterests` over `PeriodicLog` itself instead of its atomic form: a crash
   inside a recovery of the log together with the counts it replays.
2. An abstract specification of the update call (all or an error) that
   `CenterUpdate` implements.
3. `ContentBased` under `FrameworkModule`: which clicks a crash of the whole
   process loses or counts again, over offset file, log and marks together.
4. Larger instances: two users and two flush threads in `center`, two query
   threads in `queries`.
