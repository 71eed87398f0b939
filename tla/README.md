# Milieu in TLA+

Milieu is a context ledger. It ingests Slack messages, mails, documents and call transcripts,
has an LLM extract *context objects* (requirements, decisions, commitments and so on) from them,
keeps those objects in one consistent state per subject, and checks each handoff between two
teams against a contract, reporting what was lost. This directory models its back end
(`src/api/app`): state machines that TLC checks on small instances, and theorems about them that
TLAPS proves for all values of the constants.

## The system

| Component | State | Operations | Hard part |
|---|---|---|---|
| Ingestion (`pipeline/ingest.py`) | `sources` | `ingest_source`: look up by dedupe key, insert and commit, enqueue | racing calls, a death between commit and enqueue |
| Job queue (`queue/postgres.py`) | `processing_jobs` | `enqueue`, `claim`, `ack`, `fail`, `reclaim_stale` | concurrent claims, retries, stale jobs |
| Worker (`worker.py`) | a process with one job at most | start, claim, extract, ack or fail, die | crashes between transactions, slow attempts |
| Context ledger (`pipeline/process.py`, `dedup.py`, `lifecycle.py`, `lineage.py`, `authority.py`) | `context_objects`, `context_versions`, `context_relations` | persist an item, compare it with its siblings (rules R1-R4, dedup), link lineage | the order of processing is not the order of speaking |
| Review (`api/context.py`, `api/conflicts.py`) | the same tables, `reviews` | confirm, ignore, mark stale, edit, resolve a conflict | steps in any order, and overlapping transactions |
| Handoff validator (`pipeline/handoff.py`, `contracts.py`, `api/handoffs.py`) | `handoff_validations`, `context_gaps` | validate one contract, validate all | depends on status, lineage and authority decided elsewhere |
| Gap review (`api/gaps.py`) | `context_gaps`, `reviews` | confirm or ignore a gap | gaps have no identity across validations |
| Incidents (`api/incidents.py`, `scripts/declare_seed_incidents.py`) | `incidents`, `incident_context_objects` | declare, link, resolve; the script that does all three | several statements at READ COMMITTED, overlapping windows, retries |
| Connections and sync (`api/simulation.py`, `api/org_setup.py`, `pipeline/load_mock_data.py`, `connectors/mock_*.py`) | `connections`, `simulation_seed_sources`, `sync_runs` | connect, disconnect, sync, load mock data | one request commits many times and reads expired rows again |
| Slack capture (`api/slack.py`, `slack/`) | none of its own | event, `mark`, save-as-context | redelivery, late answers, one message through several paths |
| Entity and capability resolution (`pipeline/*_resolution.py`) | `entities`, `entity_aliases`, `capability_vocab` | resolve or create, propose a candidate | racing inserts, lock waits in opposite orders, unique slugs |
| Extraction cache and prewarm (`pipeline/extraction_cache.py`, `prewarm.py`) | Redis | look up, ask, store | the key decides whose answer is served |
| LLM and embedding clients (`llm/`, `embedding/`) | none | ask, ask again for invalid JSON | rate limits, long requests |
| Directory, permissions, evidence, connectors, prompts | none | pure functions and look-ups | |
| Dashboard, entities, sources, jobs, health | none | queries | |
| Migrations, scripts, evals, web client, mock data | | tooling around the program | |

A source flows from ingestion through the queue to a worker, which turns it into ledger objects
in one transaction. Reviewers and the validator read and change the ledger through the API. All
components share one Postgres database, at READ COMMITTED; each handler has a session of its own
and takes no row locks, except `claim`.

What makes each modelled part correct:

- queue: one row per content, no job worked on twice at once, none lost or settled twice, every
  commit accounted for, until a start takes a job from a worker that is late; every source
  eventually settled;
- ledger: no silent contradiction, no conflict that nobody can find, a complete history, lineage
  that does not depend on the order of processing;
- validator: no loss that two consecutive handoffs both overlook;
- incidents: declared once, no evidence lost, no link confirmed without a reason, a human's
  ruling kept, timelines of different customers apart;
- connections: what a connection and a sync run show is true of the tables, and a sync ingests
  what it read;
- Slack: a redelivery adds nothing, and what was acknowledged or announced is stored;
- resolution: one entity per name however workers race, nothing left of a failed attempt;
- extraction: an object comes from an answer to the question its section asks.

## The modules

| Module | Models | Depends on |
|---|---|---|
| `WorkQueue` | abstract: what ingestion, queue and workers promise of a source | |
| `JobQueue` | ingestion, queue and workers; implements `WorkQueue` | `WorkQueue` |
| `Slots` | slot comparison and the stance matrix (pure) | |
| `Ledger` | processing, review and resolution, each handler atomic | `Slots` |
| `LedgerRaces` | the same handlers as read-then-commit transactions that overlap | `Ledger` (an undisturbed transaction is a step of it) |
| `Handoff` | validator and gap review, over the evolving ledger | `Ledger` |
| `Incidents` | declaring, linking and resolving, with objects persisted and edited meanwhile | |
| `Extraction` | the cache, prewarm, the evidence check, entity and capability resolution of one job | |
| `ExtractionHistory` | the same with a memory of why attempts failed, for proofs only | `Extraction` |
| `Connections` | connect, disconnect, sync, load, over changing mock data | |
| `SlackCapture` | Slack's deliveries and the three capture paths, down to the enqueue | |
| `*Proofs` | theorems about the module of that name | that module, TLAPS |
| `MC*` | instances for TLC (`JobQueue` needs none) | the module of that name |

Definitions whose comment begins with "Mutant" are plausible bugs of the definition they
precede; no specification uses them, and the checks replace the definition by each in turn to
see that the properties notice.

### JobQueue and WorkQueue

One action is one database transaction. `rows`, `status`, `attempts`, `wait` and `age` are the
tables (`wait` is `run_after` minus now, `age` is now minus `updated_at`); `ipc`/`isrc` and
`wpc`/`wjob`/`elapsed` are the position of each ingest call and worker between its transactions.
`extracted` counts the commits of `process_extraction_job` per source; `lost`, `deaths`,
`abandoned` and `overtaken` are history. `Tick` lets time pass; both clocks saturate, so the
state space is finite although time goes on for ever.

- `IngestCheck`, `IngestInsert`, `Enqueue`: the three transactions of `ingest_source`. `Refused`
  is the constraint `uq_source_dedupe`.
- `Claim`, `Ack`, `Fail`, `Start` (with `reclaim_stale`): the queue's operations. `Fail` chooses
  between the exponential backoff and any Retry-After of the provider.
- `Extract`, `Raise`: the attempt commits, or raises (LLM, rate limit, database).
- `Die`, `IngestDies`: the process is killed at any point.

An attempt takes at most `AttemptTime`, which may be longer than `StaleTimeout`:
`worker.py:24-25` calls the timeout "comfortably longer" than one LLM request of 180 s, but an
attempt makes up to four of them and sleeps after a 429, and nothing keeps their sum within 600
s. A `Start` whose `reclaim_stale` takes a job from a worker that still runs it puts the source
in `overtaken`.

`WorkQueue` is the promise: a source is absent, stored, queued, held, committed, orphaned, done,
poison or contended, and moves between these only along the protocol. The refinement mapping is
`Phase`: a job row that says `running` is *held*, *committed* or *orphaned* according to the
workers, which the table cannot tell apart; what was overtaken is *contended* and stays so;
`commits` is `extracted`. Until a job is contended, a second worker on it, an acknowledgement
without a commit, or one that changes a settled status has no step of `WorkQueue` to map to;
from then on only its commits are promised to stay. `OnlyLateIsOvertaken` says when that may
happen: after the stale timeout, counted from the worker's own claim, and never before.

### Slots and Ledger

An item is what an extraction returns, reduced to what the rules read. Slots are kept by the way
they are compared: the stance, a due date with its precision, a quantity's unit, protocol,
region, an incident slot with one key that counts, one ordinary slot for all the others, one key
of `extra`, and the rationale that nothing compares. Similarity of embeddings is a class (auto,
review, low) chosen freely for each pair.

- `Process(n, i)`: one iteration of `process_extraction_job`'s loop, with `resolve_object_state`
  (siblings, R1-R4, dedup) and `create_lineage_links`.
- `Confirm`, `Ignore`, `MarkStale`, `Edit`: `review_context_object`.
- `Resolve(r, keep)`: `resolve_conflict`, with either end or neither kept.

`PipelineSpec` is the ledger under the workers alone; `Spec` adds the human steps.

### LedgerRaces

A handler is two steps: `Begin...` reads the tables and decides on a set of writes
(`ProcessWrites`, `StatusWrites`, `EditWrites`, `ResolveWrites`), `Commit` applies them to
whatever the tables hold by then, column by column, as SQLAlchemy's unit of work does: a column
that was assigned the value it was loaded with is not written (`Dirty`), so a confirm of an
object it read as active leaves a `conflicting` that was committed since. A job of several items
is one transaction: `BeginProcess` takes the first item and `ProcessNext` each further one,
decided on what is committed by then, while the decisions on the earlier items stand
(`Together`). `Rollback` is an aborted transaction. `disturbed` marks the transactions during
which another committed: `UndisturbedIsSerial` says that a commit of any other that creates one
object at most (`Single`) is a step of `Ledger`, `UndisturbedIsLinked` that what any other
creates is linked exactly.

Bounded: the items of one job are on different subjects (`NewSubject`), so none is a sibling of
another; items on one subject, one after the other, are what `Ledger` models. Not distinguished:
the several reads made for one item, which happen at one instant here, and the row locks from a
flush to the commit, which only forbid orders that the model has.

### Handoff

`Validate(e, c)` computes the report of contract `c` for entity `e` in one step, as
`validate_handoff` does, and stores the validation and its gaps; `ReviewGap` is `review_gap`;
`Evolve` is any step of the ledger. Where the code takes the first row of a query whose order
leaves ties, the model takes any of them (`Foremost`, `Effective`), so `Reports` is the set of
all reports the same ledger can yield: `Unions` takes one possibility for each slot, subject and
field. `current` is a history variable: the validations made on the ledger as it is now.
Severity is in hundredths. The contract instance keeps two of the fields of `contracts/*.yaml`:
the requirement field with three slots, and the lineage check.

### Incidents

`declare_incident` is one transaction whose statements each see what is committed by then:
`DeclareCheck` (the look-up that answers 409, and the entities), `DeclareInsert` (the flush,
which waits for another open transaction's row of that id and fails on a committed one),
`DeclareConfirm` (the objects that carry the id), `DeclareCommit` (the candidates in the window,
and the commit), `DeclareLost` (the session or the process is gone). `LinkObject` and `Resolve`
are the two other endpoints. The caller `Script` is `declare_seed_incidents.py`: it goes on to
resolve what it declared or found declared. Between any two steps an object is persisted
(`Persist`, which decides whether its subject key ends in a bare `:incident`) or its tag edited
(`EditTag`, which leaves the subject key alone). `declared`, `ruled`, `carried` and `steady` are
history.

### Extraction

One job is one transaction, and its steps are those at which another worker can matter:
`StartSome` claims a job, computes the hint that a sibling section establishes and looks up the
cache; the answer is stored and its items are gone through one by one, each with its look-up and
its flush of an entity and alias (`entity`, `flushEntity`) and of a vocabulary row
(`capability`, `flushVocab`). `Seen` is what a transaction sees: the committed rows and its own.
A flush waits for an open transaction that has flushed the same key, fails on a committed one,
and is a victim when it is one of a ring of sessions that wait for each other (`InDeadlock`);
the attempt is then rolled back and retried up to `MaxAttempts`. An item keeps the incident id
of its answer only for the capability `Incident`, and makes a candidate of what the model was
not sure of (`sure`: a confidence of 0.6 or more). `WarmAsk` and `WarmAnswer` are prewarm, which
asks with no hint.

The load of `directory.json` is one more transaction, of the session `Loader`, that workers wait
for and deadlock with: `LoadBegin`, then for each entity its look-up and insert (`LoadEntity`),
its flush (`LoadFlush`), its aliases, which wait for the next flush since the session has no
autoflush (`LoadAlias`, `LoadEnd`), and `LoadCommit`, or `LoadFails`.

Each object keeps `hint` (what its section had to be told) and `told` (what the prompt that its
answer answers had told).

`ExtractionHistory` adds two variables that only watch: `lost` (per source, the unique keys over
which flushes of its attempts failed) and `cut` (its deadlocks and faults). No run uses it; what
it states is proved.

### Connections

A request's session commits several times. `loaded` is the `connections` row as it knows it, and
a flush writes the columns that differ from that; `held` are the seed rows its connector
iterates over, which `expire_on_commit` makes it read again after each ingest. The actions are
the reading of the files, the refresh of the seed rows, each item's ingest, the sync's last
commit with the run's `Outcome`, the load of all kinds, connect (in two steps: the count of the
seed rows, `SetCount`, and the commit that says `connected` or why not, `SetCommit`),
disconnect, simulated errors, and the loss of a request at any point. `EditDisk` changes the
mock data meanwhile. `crossed` and `clash` are history: a row whose columns two requests wrote,
a sync whose kind another request refreshed.

### SlackCapture

`Deliver` sends an event, again and again until a delivery is answered in time; `TimeOut` makes
a running handler's answer count for nothing; `Click` is the shortcut. A handler is `Compose`,
`Select`, `Insert`, `Enqueue`, `Reply`, `Answer`. `Fault` is an error or a death at any of them.
An API process serves one delivery at a time, as its handlers call the database and Slack
without awaiting; several processes race on the same table.

A mark in a thread fetches its parent's words in `Compose`. `fetch_message` gives them or, when
Slack answers that it cannot, `None` without an error (`ParentWords`): a mark with words of its
own is then captured without the parent, and one without (`bare`) is answered "Nothing to mark"
and acknowledged. `refused` remembers which events met this (`Curtailed`, `Dismissed`),
`stranded` the sources committed by a handler that failed before its enqueue; both are history.

## What the runs show

| Run | Shows | Bounds |
|---|---|---|
| `JobQueue_safety` | type, `IngestIsOnce`, `SoleHolder`, `CommitsAccounted`, `AtAnyTiming`, `OnlyLateIsOvertaken`; refinement of `WorkQueue` (`Implements`); `EverySourceSettles` under `FairSpec` | two sources, two ingest calls, two workers, two attempts, one death; an attempt of 2 outlasts a timeout of 1 |
| `JobQueue_orphan` | counterexample: an orphaned job is never reclaimed | one death |
| `Ledger_pipeline` | `NoSilentContradiction`, `SupportOutranked`, `LineageIsExact` | three objects out of twelve kinds of statement |
| `Ledger_review` | type, `HistoryIsFaithful`, `SupersededIsExplained` | three objects, six kinds of statement, one review call, resolutions |
| `Ledger_scim` | counterexample: one of three disagreements is not flagged | three statements |
| `LedgerRaces_overlap` | `ConflictIsListed`, `OneOpenQuestion`, `UndisturbedIsSerial`, `UndisturbedIsLinked` | three objects of four kinds of statement, jobs of several items; two workers and a request, any two in flight |
| `LedgerRaces_resolve` | counterexample: a relation is resolved twice | two requests |
| `Handoff_chain` | type, `NoSilentLoss`, `LossKeepsSurfacing`, `TaggedIsListed` | three objects of six statements in three stages, two validations |
| `Incidents_declare` | type, `DeclaredOnce`, `LinksAreEarned`, `NoCrossTalk`, `EvidenceIsKept` | two incidents of two customers, two objects, a request and the script, one edit, one tick, rulings on one pair |
| `Extraction_jobs` | type, `EntitiesAreSound`, `BindingIsHonoured`, `LosersConverge`, `EveryJobEnds` under `FairSpec` | two sections of one document, two workers, three attempts, one fault, one prewarm, one load of a directory of two entities |
| `Connections_sync` | type, `StatusIsTrue`, `RunIsHonest`, `SyncReflectsDisk` | two files of one kind, two requests, one edit |
| `SlackCapture_redelivery` | type, `OneSourcePerEvent`, `AnswersAreTrue`, `PostedIsCaptured` under `FairSpec` | a post and a mark in its thread, with words of its own or none, the post's words given or declined; two processes, three tries, one fault, one edit, one click |

Why these bounds are enough to be interesting. A conflict needs two statements, a conflict with
several partners or a chain over three stages needs three, and every rule looks at one new
object against its siblings. For the queue, a reclaim that goes wrong needs two workers and an
attempt longer than the timeout, so `AttemptTime` is 2 and `StaleTimeout` is 1; a job that is
claimed beyond `MaxAttempts` needs one start more. A lost race in resolution needs two workers
that name the same two things in opposite orders, and a retry after a deadlock and a duplicate
needs the three attempts the code allows. Two requests suffice to mix the columns of a
connection, one edit to make a version stale, two incidents to overlap windows. Slack retries
more often (`MaxTries`) than things fail (`MaxFaults`), as `PostedIsCaptured` needs and says.

`MaxVersion`, `MaxReviews`, `MaxRuns`, `MaxGapReviews`, `MaxCrashes`, `LagFloor`, `MaxTime`,
`MaxEdits`, `MaxRulings`, `MaxFaults`, `MaxWarms`, `MaxLoads`, `MaxInFlight`, `MaxTries` and
`MaxClicks` are bounds of the checking (Slack does limit its tries); the theorems hold for every
value of the ones that occur in their modules. `MaxAttempts` is the code's own. The connection
instance has the kind "call", whose connector refuses items without consent; the other importers
differ in how many items a file has. `Handoff_chain` explores only ledgers in which dedup
relates nothing (`WordedApart`): the validator reads none of dedup's relations. It has no review
of objects, which multiply its states; resolutions are included. Deadlock is not checked where
the bounds make the system stop.

### Fairness

`JobQueue!FairSpec`: time passes, an ingest call goes on to its end once it has found no row, a
stopped worker is started again, a worker claims when a job is runnable, and an attempt ends in
a commit or an exception and is then acknowledged or failed. The code justifies each: the
handlers run to their end, `main` loops for ever and every LLM request has a timeout. Restarting
a dead worker is the operator's part (it is started by hand). Nothing is assumed about which
outcome an attempt has, and nothing forces a death. Claims are fair per worker only: which job
is next is the order by `run_after`, and with finitely many sources and attempts no run can tell
a fair order from another. A continuing stream of new and requeued jobs is beyond the model.

`Extraction!FairSpec`: a free worker starts some job that is queued, and each worker goes on
with its own. A worker that waits for another's transaction is not enabled; that it does not
wait for ever is what `EveryJobEnds` says. A load that was begun goes on too; nobody has to
begin one.

`SlackCapture!FairSpec`: a handler goes on, and Slack delivers an unanswered event again while
it has tries left. Nobody has to post, edit or click.

`Ledger`, `Handoff`, `Incidents` and `Connections` state safety only: their steps are requests
of people, and nothing has to happen.

### Where code and documents disagree

The counterexample runs each refute one sentence of the repository; `PROJECT.json` quotes it.

- `JobQueue_orphan`: `reclaim_stale` runs only when a worker starts. A worker restarted sooner
  than the timeout leaves the orphaned job running until some later restart.
- `Ledger_scim`: the first conflict takes an object out of `active`, so the third stage's
  statement is never compared with it.
- `LedgerRaces_resolve`: "relation already resolved" is decided on an unlocked read.

Met while modelling and part of the models, but without a run that refutes a sentence (a
property that one of them would break excepts it, and its comment says so):

- Queue. The stale timeout "never reclaims a job that's still genuinely in flight"
  (`worker.py:24-25`), but up to four LLM requests of 180 s make an attempt that can outlast the
  600 s, after which a second worker's start takes the job away. The two then extract one
  source, and the late ack or fail overwrites a settled status (`overtaken`). An ingest call
  that dies between its commit and its enqueue leaves a source that is never extracted. A death
  between an attempt's commit and its ack extracts a source twice. A job whose workers die or
  are overtaken is claimed more than three times (`ClaimsPaid` bounds how often).
- Ledger. An author's statements processed out of order end in a conflict, not a supersession.
  Confirm and edit can make an active pair contradict, as neither looks at siblings. Overlapping
  transactions write two `context_versions` rows of one version. A human's ruling that a
  worker's commit overlaps is overwritten; the other way round a confirm of an object it read as
  active goes unnoticed under the worker's `conflicting`, with a `context_versions` row that
  says active. Two workers that process contradicting statements at once leave both active, and
  two that process an upstream and a downstream statement at once link neither to the other,
  which no later step makes good.
- Validator. R1 and R4 make both ends of a cross-stage contradiction `conflicting`, and the
  validator looks for an `active` counterpart only (`handoff.py:402`). What reaches it through
  the pipeline as a contradiction is reported as `object_missing`, not as `docs/SPEC.md:449`
  lists it. A walk up the lineage may take a value from an ignored or superseded ancestor. A
  reviewed gap comes back open with the next validation.
- Incidents. `resolve_incident` has no guard: every further resolution moves `resolved_at`, and
  a second run of `declare_seed_incidents.py`, idempotent according to its line 13, resolves
  again what it finds declared (lines 104-109).
- Connections. `sync_connection` never reads the status, so a disconnected source still ingests
  and becomes connected (`orm.py:482-484`: "the ingestion path checks this table before a
  connector kind is allowed to run"). The note at `orm.py:518-523` that connectors read the disk
  is out of date: they read `simulation_seed_sources`. Two requests can combine one's `error`
  with the other's absent reason (`crossed`). A seed row whose file is gone is never deleted and
  is part of every later sync, although `simulation.py:69-71` says that a sync reflects the
  latest mock data.
- Slack. A mark fetches its parent's words at each delivery, so a redelivery after an edit makes
  a second source (`slack.py:9-12`: "a redelivery is a no-op"); `OneSourcePerEvent` bounds how
  many. When Slack declines to give those words (`client.py:82-90` returns `None` where other
  calls raise), a mark with words of its own is captured without its parent, and a redelivery
  that gets them makes a second source; a mark with none is answered "Nothing to mark"
  (`slack.py:233-239`) and acknowledged, so it is never delivered again. After a failure between
  commit and enqueue the redelivery finds the row and replies that extraction is queued, which
  nothing will do (`stranded`). One message captured as an event, by a mark and by the shortcut
  becomes several sources under different ids. `render_context_reply` matches aliases of status
  `candidate` too (`slack.py:279-284`).
- Extraction. The cache key leaves out the path and heading that are part of the prompt
  (`extraction_cache.py:4-6`), so a section can be served the answer to another's prompt if its
  text and hint are the same. `entity_resolution.py:133-134` flushes so that the job's next
  look-up sees its row and inserts no duplicate, but `_slugify` turns punctuation into a dash
  and `normalize_alias` drops it: "Acme-Labs" and "Acme Labs" have one slug and aliases that
  differ and are not alike, so the second insert violates `uq_entities_tenant_slug`, at each
  attempt, and the job is poisoned: TLC finds it in an instance of two such names with one
  worker, one source and no fault, and `PoisonIsAccounted` names it (`Blunt`). Names without a
  Latin letter all get the slug "entity", with the same effect. A job can lose a deadlock and a
  duplicate to the load of the directory and one more duplicate to another worker, which are its
  three attempts; `LosersConverge` excepts runs with a load. Two workers that add a synonym to
  one vocabulary row lose one of them (`capability_resolution.py:136-144`).

## What is proved

All proofs are checked by TLAPS with the SMT, Zenon and PTL back ends. Each proof module takes
the assumption on the constants named in its component.

`JobQueueProofs` (`QueueAssumption` alone: an attempt may take as long as it likes). `IngestInv`
strengthens the type invariant and `IngestIsOnce` with the link between an ingest call's step
and its source. `HoldInv` is about the jobs that no start has taken from a live worker. It adds
what makes `SoleHolder` inductive: a worker's `elapsed` and its job's `age` run together
(`InTime`), so a job in flight is stale only if its worker is late; and each commit is held,
lost or done (`CommitsOnce`). From it follow `SoleHolder` (`MutualExclusion`),
`CommitsAccounted`, that done and poison are final (`SettledStays`) and the refinement
(`QueueImplements`): every step maps to one of `WorkQueue` or to a stutter, `Start` to a
`Reclaim` of exactly the orphans it finds stale and of those it takes from a worker. All of them
except what is in `overtaken`, and `OvertakenIsLate` is the other half: a job gets there only
when its worker has been on it longer than the stale timeout.

`WhateverTheTiming` is about every job, overtaken or not: it is done only after a commit and
poisoned only with its attempts used up (`SettledForCause`), a claim commits once at most
(`OneCommitPerClaim`: the commits and the attempts that may still make one are within
`attempts`), and `attempts` stays below `MaxAttempts` plus the deaths and the processes that run
(`ClaimsPaid`): a claim beyond `MaxAttempts` takes a reclaim, and a reclaim a start. `AnyInv`
adds that a job that waits has been paid for, and that a worker about to acknowledge has
committed.

`LedgerProofs` (`LedgerAssumption`). Type correctness comes first; each other property is shown
inductive with the facts it needs:

- `ConflictIsListed` needs that a conflicting object keeps an open `contradicts` relation; a
  resolution closes one relation and takes both its ends out of `conflicting`.
- `LineageIsExact` follows from linking both ways at creation, and from no other action touching
  items or `derived_from` relations.
- `OneOpenQuestion` rests on each sibling being either clashing or agreeing, and on a new object
  having no relation before it exists.
- `HistoryIsFaithful` carries, for each object, that its rows are exactly its versions.
- `SupersededIsExplained` needs that a relation, once resolved, stays.
- `NoSilentContradiction` is proved for `PipelineSpec` only, as human steps break it.

`IncidentsProofs` (`IncidentsAssumption`). The invariant says that an id has been declared
exactly if its row exists and that one call at most is past its insert (`CountMatches`,
`OneDeclares`); that links and calls speak of existing objects and declared incidents
(`ObjectsExist`, `LinksFollow`, `ResolvesKnown`); that a link with no tie and no ruling was a
candidate of a customer the incident names (`RowsExplained`, from which `NoCrossTalk` follows);
and that what carried the id throughout a call is in what the call confirmed (`EvidenceSeen`,
from which the action property `EvidenceIsKept` follows).

`ExtractionProofs` (`ExtractionAssumption`). The invariant is about transactions, not only about
committed rows: a cache entry was told the hint of its key (`CacheOk`), each open job's names
and rows are sound with the committed ones (`Works`), no two open transactions have flushed the
same key (`Apart`), and the committed rows are sound alone, each object's name grounded in a
confirmed alias of its entity (`Stays`). `EntitiesAreSound` and `BindingIsHonoured` follow. It
holds for any answers, names, slugs and similarities, thus also for colliding slugs. `JobInv`
adds the jobs: a running job has exactly one worker, and only a done one has objects
(`JobsAtomic`).

A directory load is one of the open transactions: its rows are sound with the committed ones,
and it shares no flushed key with a job (`Loaded`).

The rest is about attempts that fail. `KnownInv` says that the look-up finds each entity there
is by its name (`Known`), if the slug is `Telling`: the names that have it, and the directory's
entity of that slug, have aliases that are equal or alike. The code does not ensure that; a slug
that is not telling is `Blunt`. The theorems hold for all names and say where such a slug is the
way out. A job's insert clashes with its own rows only over a blunt slug (`NoSelfDuplicates`).
Any other failed flush is a lost race, and its key is committed by the winner and stays: the
retry's look-up finds it (`LostSettled`, `PendingNew`), so it inserts it no more
(`NothingLostTwice`). `PoisonAccounted` counts: a poisoned job has had `MaxAttempts` failures,
each a deadlock, a fault, or a key it never loses again, out of those that its text's answers
name, or has lost one over a blunt slug.

`ConnectionsProofs` (`ConnectionsAssumption`, with any kinds, those without an importer
included, where TLC's instance has one). The invariant says which fields each step of a request
has set (`Shape`); that a session which knows a row knows it as it is unless another wrote it
meanwhile (`LoadedRow`), and that one session at most has an uncommitted row of a kind
(`InsertedRow`); that what is to do, refused and ingested is apart and seeded (`ItemsApart`);
and that without a clash what a session read is seeded so until it is done (`ReadKept`). A count
of seed rows that was not zero stays true, as no row is deleted. All four properties of the run
follow, `StatusIsTrue` by an induction of its own, the two action properties from the invariant
before the step.

`SlackCaptureProofs` (`SlackAssumption`). The invariant says what a delivery knows of its source
at each step (`Deliveries`), that a message's words are those of its event (`Words`), and that
whatever is stored is queued, about to be or stranded (`AllQueued`), whatever is acknowledged
stored or a dismissed mark (`AllMade`) and whatever is announced stored (`Told`).
`AnswersAreTrue` follows, and `MessageIsOneSource`: for every number of processes, tries and
faults a message makes one source. `OneSourcePerEvent` also bounds a mark's sources, which takes
a count (`Counted`): the sources of an event and its deliveries that may still insert one are
together at most the faults, and one more while the event is acknowledged or a delivery is in
time. A redelivery adds a delivery and has been paid for by a fault or a late answer. The other
half is that a source has one of the `edits + 1` versions of its parent's words, or none of them
if they were declined (`Anchors`, `Changes`).

`LedgerRacesProofs` (`LedgerAssumption`, `RacesAssumption`). The subject is what a transaction
decided on a state that is gone when it commits. `Lawful` says what of its writes was true then
and stays true whatever commits before it: their types, that an object it makes conflicting
comes with its relation, that what it supersedes it explains, and the ranks of its duplicates.
The ids it inserts are its own (`Unclaimed`). `Settleable` is what keeps `ConflictIsListed`: a
conflicting object has a relation that no transaction in flight closes without moving the
object. With that, each commit keeps `ConflictIsListed`, `OneOpenQuestion`,
`SupersededIsExplained` and `SupportOutranked`, which therefore hold for any number of
overlapping transactions of any number of items; the run checks the first two, and `Ledger`'s
runs the others for handlers one at a time. `Serial` proves `UndisturbedIsSerial`: a transaction
that nothing disturbed was decided on the state it commits to (`Snapshot`), and its writes,
without the columns that stay as they are, are exactly the handler's step of `Ledger`. It is
stated for transactions with one new object at most, since a job of several items is as many
steps of `Ledger`. `SerialRunsAreLedgers` draws the refinement from it: a run in which no
disturbed transaction commits (what a version check at the commit would give; the code has
none), and none with several new objects, is a run of `Ledger`'s `Spec`, its reads and rollbacks
stuttering, and has all of `Ledger`'s theorems. `LineageIsExact` and `HistoryIsFaithful` are not
claimed of the overlap, which breaks them: two rows may claim one version, and a late commit may
take the version back. What is left of the history is `RacesRecorded` (`HistoryHasNoHole`):
every version and the present status have a row, because a transaction brings a row for each
version and status it assigns, and the versions below were on record when it read them
(`Recorded`). What is left of the lineage is that every link joins an earlier statement and a
later one of a stage that follows (`RacesLineage`), as a transaction links what it has compared
and items never change (`Descended`), and that an object whose transaction nothing disturbed
has exactly the links it should have, whatever the number of items (`UndisturbedLinks`).

`HandoffProofs` (`LedgerAssumption` and `HandoffAssumption`: a contract's id is its key, a
wording has one group of synonyms, an absent value is no wording). The key is
`CurrentIsFaithful`: as long as the ledger is as it was when a validation was made, the gaps
with its number are one of the `Reports` of its contract, whatever was validated and reviewed
since (a theorem of its own, `ReportsStand`; `ReportsStay`: a report reads nothing but items,
attributes, statuses and relations). `ReportHas` opens a report: for one reference and one
counterpart it has the gap of every slot that is lost. `NoBlindSpot` then splits on the middle
stage: it has nothing (`object_missing` is in the first report), it lost the slot (the first
report says so), or it kept it, and then, as what survives twice has survived
(`SurvivalComposes`), the second report has the loss. `LossResurfaces` rests on `LineageIsExact`
and on `EffectiveParent`, that the walk up the lineage stops at the nearest ancestors that have
the slot. `TaggedIsListed` takes `ConflictIsListed` and that conflicts and lineage stay on one
subject (`Lines`). `GapsAreLosses` is the converse of `NoLossUnseen`: no report invents a loss,
nor reports again at the next handoff, as a loss of its own, what was lost at the one before
(SPEC 10.4). Each gap of a current validation is one of three facts of the ledger
(`NobodyAnswers`, `Lost`, `NotThere`); the statement it blames has the slot, and for an
inherited gap it was made before the reference, as every step of the walk goes back in time
(`AncestorsEarlier`, from `LineageIsExact`). That a reference is always found is a least element
again, by cardinality (`ForemostExists`). The walk is a recursive function over its depth; that
it is defined at every depth, and that there is a nearest one with the slot, is shown through a
least element of a set of numbers (`NatMin`), which needs no induction over an operator.

Only model-checked: liveness (`EverySourceSettles`, `EveryJobEnds`, `PostedIsCaptured`) is out
of TLAPS's reach. `LosersConverge` is claimed of the instance only: with more workers and
sources a job may lose more often than it is retried. `PoisonAccounted` is what holds of every
instance; that a race costs one deadlock at most, which would turn it into `LosersConverge`, is
not proved.

## Plan

Done: the queue with its abstract specification and refinement, the ledger, its races, the
validator, incidents, connections, Slack capture, extraction with resolution, and the proofs
listed above. What remains, in this order:

1. `Handoff`: a pure form of `classify_slot` against a reference definition over all slot values
   (stale references, regions, dates of every precision); reviews of objects between
   validations.
2. `Extraction` composed with `Ledger`: one transaction from the claim to the ledger's commit,
   with the overlap of `LedgerRaces`.
3. `Extraction`: a bound on the deadlocks of one job, which `PoisonAccounted` lacks to become
   `LosersConverge` for more than one instance.

## Not modelled, and why

What an LLM answers, how long it takes and how similar two embeddings are is an input. The text
of prompts, explanations and replies, the splitting of documents, the search for a quote and
Slack's signatures and access lists are computations on text without state; a quote that is not
found is modelled, how it is looked for is not. The buttons under a Slack reply change nothing.
Dashboards and the GET endpoints only read; people, domains and permissions are looked up. The
tenant's mode never changes, as production is refused. Contracts are loaded from YAML once.
Migrations, evals, the remaining scripts, mock data and the web client surround the program.

## Running

In this directory, with the TLA+ tools and the community modules on the path:

    tlc -config JobQueue_safety.cfg JobQueue
    tlc -config Incidents_declare.cfg MCIncidents
    tlapm JobQueueProofs.tla
