------------------------------ MODULE JobQueue ------------------------------
(***************************************************************************)
(* Ingestion, the Postgres-backed job queue and the worker processes that  *)
(* drain it: app/pipeline/ingest.py, app/queue/postgres.py, app/worker.py. *)
(*                                                                         *)
(* Every database transaction of the code is one action here; what happens *)
(* between two transactions of one process (a crash, another process, the  *)
(* passing of time) happens between two actions.  There is one job per     *)
(* source, because the idempotency key is built from the source's id, so a *)
(* job is named by its source.                                             *)
(*                                                                         *)
(* Time is discrete and relative: wait[s] is run_after - now and age[s] is *)
(* now - updated_at, both saturating, so that time passes for ever in a    *)
(* finite state space.                                                     *)
(***************************************************************************)
EXTENDS Integers, FiniteSets

CONSTANTS
    Sources,         \* dedupe keys (tenant, kind, external_id, content_hash)
    Clients,         \* concurrent callers of ingest_source
    Workers,         \* worker processes
    NoSource,        \* "this process holds nothing"
    MaxAttempts,     \* queue/base.py MAX_ATTEMPTS
    StaleTimeout,    \* worker.py STALE_JOB_TIMEOUT_SECONDS
    AttemptTime,     \* the longest one attempt (LLM requests, commit, ack) may take;
                     \* nothing in the code keeps it below StaleTimeout
    RetryAfters,     \* the Retry-After values a provider's 429 may carry
    LagFloor,        \* bound: how far past due two jobs are still told apart
    MaxCrashes       \* bound: how many processes may die

ASSUME QueueAssumption ==
    /\ NoSource \notin Sources
    /\ MaxAttempts \in Nat \ {0}
    /\ StaleTimeout \in Nat
    /\ AttemptTime \in Nat
    /\ RetryAfters \subseteq Nat
    /\ LagFloor \in Nat
    /\ MaxCrashes \in Nat

VARIABLES
    rows,        \* rows[s]: number of sources rows with dedupe key s
    ipc, isrc,   \* an ingest call's step, and its source
    status, attempts, wait, age,   \* the processing_jobs row of a source
    wpc, wjob, elapsed,            \* a worker's step, its job, time since its claim
    extracted,   \* extracted[s]: committed runs of process_extraction_job on s
    lost,        \* history: commits whose worker died before its ack
    deaths,      \* history: how many processes have died
    abandoned,   \* history: sources a process had in hand when it died
    overtaken    \* history: sources whose job a start took from a worker that ran

srcVars == <<rows, ipc, isrc>>
jobVars == <<status, attempts, wait, age>>
workVars == <<wpc, wjob, elapsed>>
histVars == <<lost, deaths, abandoned, overtaken>>
vars == <<rows, ipc, isrc, status, attempts, wait, age, wpc, wjob, elapsed,
          extracted, lost, deaths, abandoned, overtaken>>

Status == {"none", "queued", "running", "done", "poison"}

TypeOK ==
    /\ rows \in [Sources -> Nat]
    /\ ipc \in [Clients -> {"idle", "absent", "inserted"}]
    /\ isrc \in [Clients -> Sources \cup {NoSource}]
    /\ status \in [Sources -> Status]
    /\ attempts \in [Sources -> Nat]
    /\ wait \in [Sources -> Int]
    /\ age \in [Sources -> Nat]
    /\ wpc \in [Workers -> {"down", "idle", "running", "extracted", "erred"}]
    /\ wjob \in [Workers -> Sources \cup {NoSource}]
    /\ elapsed \in [Workers -> Nat]
    /\ extracted \in [Sources -> Nat]
    /\ lost \in [Sources -> Nat]
    /\ deaths \in Nat
    /\ abandoned \subseteq Sources
    /\ overtaken \subseteq Sources

Init ==
    /\ rows = [s \in Sources |-> 0]
    /\ ipc = [c \in Clients |-> "idle"]
    /\ isrc = [c \in Clients |-> NoSource]
    /\ status = [s \in Sources |-> "none"]
    /\ attempts = [s \in Sources |-> 0]
    /\ wait = [s \in Sources |-> 0]
    /\ age = [s \in Sources |-> 0]
    /\ wpc = [w \in Workers |-> "down"]
    /\ wjob = [w \in Workers |-> NoSource]
    /\ elapsed = [w \in Workers |-> 0]
    /\ extracted = [s \in Sources |-> 0]
    /\ lost = [s \in Sources |-> 0]
    /\ deaths = 0
    /\ abandoned = {}
    /\ overtaken = {}

-----------------------------------------------------------------------------
(***************************************************************************)
(* ingest_source: SELECT, then INSERT and commit, then enqueue in a        *)
(* session of its own.                                                     *)
(***************************************************************************)

\* The SELECT.  A row that exists ends the call (was_new = False, no job).
IngestCheck(c, s) ==
    /\ ipc[c] = "idle"
    /\ rows[s] = 0
    /\ ipc' = [ipc EXCEPT ![c] = "absent"]
    /\ isrc' = [isrc EXCEPT ![c] = s]
    /\ UNCHANGED <<rows, jobVars, workVars, extracted, histVars>>

\* Mutant: the table has no unique constraint.
NotRefused(s) == FALSE

\* uq_source_dedupe.
Refused(s) == rows[s] # 0

\* INSERT and commit; uq_source_dedupe refuses the second of two racing calls,
\* whose IntegrityError ends the request.
IngestInsert(c) ==
    /\ ipc[c] = "absent"
    /\ IF ~Refused(isrc[c])
         THEN /\ rows' = [rows EXCEPT ![isrc[c]] = @ + 1]
              /\ ipc' = [ipc EXCEPT ![c] = "inserted"]
              /\ UNCHANGED isrc
         ELSE /\ ipc' = [ipc EXCEPT ![c] = "idle"]
              /\ isrc' = [isrc EXCEPT ![c] = NoSource]
              /\ UNCHANGED rows
    /\ UNCHANGED <<jobVars, workVars, extracted, histVars>>

\* Mutant: the job is enqueued before its source is committed.
ReadyEarly(c) == ipc[c] # "idle"

ReadyToEnqueue(c) == ipc[c] = "inserted"

\* INSERT ... ON CONFLICT (idempotency_key): a row that exists keeps its state.
Enqueue(c) ==
    /\ ReadyToEnqueue(c)
    /\ IF status[isrc[c]] = "none"
         THEN /\ status' = [status EXCEPT ![isrc[c]] = "queued"]
              /\ wait' = [wait EXCEPT ![isrc[c]] = 0]
         ELSE UNCHANGED <<status, wait>>
    /\ ipc' = [ipc EXCEPT ![c] = "idle"]
    /\ isrc' = [isrc EXCEPT ![c] = NoSource]
    /\ UNCHANGED <<rows, attempts, age, workVars, extracted, histVars>>

\* The API process dies, or the enqueue's own session fails.
IngestDies(c) ==
    /\ ipc[c] # "idle"
    /\ deaths < MaxCrashes
    /\ deaths' = deaths + 1
    /\ abandoned' = abandoned \cup {isrc[c]}
    /\ ipc' = [ipc EXCEPT ![c] = "idle"]
    /\ isrc' = [isrc EXCEPT ![c] = NoSource]
    /\ UNCHANGED <<rows, jobVars, workVars, extracted, lost, overtaken>>

-----------------------------------------------------------------------------
(***************************************************************************)
(* The queue operations, each one transaction.                             *)
(***************************************************************************)

\* Mutant: no filter on status.
RunnableAnyStatus(s) == status[s] # "none" /\ wait[s] <= 0

Runnable(s) == status[s] = "queued" /\ wait[s] <= 0

\* claim: the runnable job with the earliest run_after, by SKIP LOCKED.
Claim(w, s) ==
    /\ wpc[w] = "idle"
    /\ Runnable(s)
    /\ \A t \in Sources : Runnable(t) => wait[s] <= wait[t]
    /\ status' = [status EXCEPT ![s] = "running"]
    /\ attempts' = [attempts EXCEPT ![s] = @ + 1]
    /\ wait' = [wait EXCEPT ![s] = 0]
    /\ age' = [age EXCEPT ![s] = 0]
    /\ wpc' = [wpc EXCEPT ![w] = "running"]
    /\ wjob' = [wjob EXCEPT ![w] = s]
    /\ elapsed' = [elapsed EXCEPT ![w] = 0]
    /\ UNCHANGED <<srcVars, extracted, histVars>>

Release(w) ==
    /\ wpc' = [wpc EXCEPT ![w] = "idle"]
    /\ wjob' = [wjob EXCEPT ![w] = NoSource]
    /\ elapsed' = [elapsed EXCEPT ![w] = 0]

\* process_extraction_job commits its one transaction.
Extract(w) ==
    /\ wpc[w] = "running"
    /\ wpc' = [wpc EXCEPT ![w] = "extracted"]
    /\ extracted' = [extracted EXCEPT ![wjob[w]] = @ + 1]
    /\ UNCHANGED <<srcVars, jobVars, wjob, elapsed, histVars>>

\* Mutant: the handler around process_extraction_job also covers its ack.
MayRaiseLate(w) == wpc[w] \in {"running", "extracted"}

MayRaise(w) == wpc[w] = "running"

\* No session, a rate limit, a provider's or a database error: rolled back.
Raise(w) ==
    /\ MayRaise(w)
    /\ wpc' = [wpc EXCEPT ![w] = "erred"]
    /\ UNCHANGED <<srcVars, jobVars, wjob, elapsed, extracted, histVars>>

\* ack: an unconditional UPDATE by id.
Ack(w) ==
    /\ wpc[w] = "extracted"
    /\ status' = [status EXCEPT ![wjob[w]] = "done"]
    /\ wait' = [wait EXCEPT ![wjob[w]] = 0]
    /\ age' = [age EXCEPT ![wjob[w]] = 0]
    /\ Release(w)
    /\ UNCHANGED <<srcVars, attempts, extracted, histVars>>

Backoffs(n) == {2^n} \cup RetryAfters

\* Mutants: a job out of attempts is "failed"; it is retried once more.
FailStatusFailed(s) == IF attempts[s] >= MaxAttempts THEN "failed" ELSE "queued"

FailStatusLate(s) == IF attempts[s] > MaxAttempts THEN "poison" ELSE "queued"

FailStatus(s) == IF attempts[s] >= MaxAttempts THEN "poison" ELSE "queued"

\* fail: poison at MAX_ATTEMPTS, else queued again after the backoff or the
\* provider's Retry-After.  Neither UPDATE looks at the row's status.
Fail(w) ==
    /\ wpc[w] = "erred"
    /\ LET s == wjob[w] IN
         /\ status' = [status EXCEPT ![s] = FailStatus(s)]
         /\ \E d \in IF FailStatus(s) = "queued" THEN Backoffs(attempts[s]) ELSE {0} :
              wait' = [wait EXCEPT ![s] = d]
         /\ age' = [age EXCEPT ![s] = 0]
    /\ Release(w)
    /\ UNCHANGED <<srcVars, attempts, extracted, histVars>>

-----------------------------------------------------------------------------
(***************************************************************************)
(* The life of a worker process.                                           *)
(***************************************************************************)

Holds(w) == wpc[w] \in {"running", "extracted", "erred"}
Held(s) == \E w \in Workers : Holds(w) /\ wjob[w] = s
Unacked(s) == \E w \in Workers : wpc[w] = "extracted" /\ wjob[w] = s

\* Mutant: a job is stale as soon as its timeout is reached.
StaleOnTime(s) == status[s] = "running" /\ age[s] >= StaleTimeout

Stale(s) == status[s] = "running" /\ age[s] > StaleTimeout

\* main(): reclaim_stale once, before the loop.  It resets status and run_after
\* and leaves attempts and updated_at as they are.  It cannot see whether a worker
\* still runs the job.
Start(w) ==
    /\ wpc[w] = "down"
    /\ status' = [s \in Sources |-> IF Stale(s) THEN "queued" ELSE status[s]]
    /\ wait' = [s \in Sources |-> IF Stale(s) THEN 0 ELSE wait[s]]
    /\ wpc' = [wpc EXCEPT ![w] = "idle"]
    /\ overtaken' = overtaken \cup {s \in Sources : Stale(s) /\ Held(s)}
    /\ UNCHANGED <<srcVars, attempts, age, wjob, elapsed, extracted, lost, deaths, abandoned>>

\* SIGKILL, or an exception of ack, fail or claim, none of which is caught.
Die(w) ==
    /\ wpc[w] # "down"
    /\ deaths < MaxCrashes
    /\ deaths' = deaths + 1
    /\ lost' = IF wpc[w] = "extracted" THEN [lost EXCEPT ![wjob[w]] = @ + 1] ELSE lost
    /\ abandoned' = IF Holds(w) THEN abandoned \cup {wjob[w]} ELSE abandoned
    /\ wpc' = [wpc EXCEPT ![w] = "down"]
    /\ wjob' = [wjob EXCEPT ![w] = NoSource]
    /\ elapsed' = [elapsed EXCEPT ![w] = 0]
    /\ UNCHANGED <<srcVars, jobVars, extracted, overtaken>>

\* Time passes; no attempt outlives AttemptTime.
Tick ==
    /\ \A w \in Workers : Holds(w) => elapsed[w] < AttemptTime
    /\ elapsed' = [w \in Workers |-> IF Holds(w) THEN elapsed[w] + 1 ELSE elapsed[w]]
    /\ wait' = [s \in Sources |->
                  IF status[s] = "queued" /\ wait[s] > -LagFloor
                    THEN wait[s] - 1 ELSE wait[s]]
    /\ age' = [s \in Sources |->
                  IF status[s] = "running" /\ age[s] <= StaleTimeout
                    THEN age[s] + 1 ELSE age[s]]
    /\ UNCHANGED <<srcVars, status, attempts, wpc, wjob, extracted, histVars>>

\* What a worker's loop does next, if its process lives on.
WorkerStep(w) ==
    \/ \E s \in Sources : Claim(w, s)
    \/ Extract(w)
    \/ Raise(w)
    \/ Ack(w)
    \/ Fail(w)
    \/ Start(w)

Next ==
    \/ \E c \in Clients :
         \/ \E s \in Sources : IngestCheck(c, s)
         \/ IngestInsert(c)
         \/ Enqueue(c)
         \/ IngestDies(c)
    \/ \E w \in Workers : WorkerStep(w) \/ Die(w)
    \/ Tick

Spec == Init /\ [][Next]_vars

(***************************************************************************)
(* A live process keeps going: an ingest call runs to its end, a worker is *)
(* (re)started and drains the queue, and time passes.  Nothing makes a     *)
(* process die.                                                            *)
(***************************************************************************)
Fairness ==
    /\ WF_vars(Tick)
    /\ \A c \in Clients : WF_vars(IngestInsert(c) \/ Enqueue(c))
    /\ \A w \in Workers : WF_vars(WorkerStep(w))

FairSpec == Spec /\ Fairness

-----------------------------------------------------------------------------
(***************************************************************************)
(* Properties.                                                             *)
(***************************************************************************)

\* However ingest calls of the same content race, its dedupe key has one sources
\* row (uq_source_dedupe decides what the SELECT alone cannot).
OneRowPerKey == \A s \in Sources : rows[s] <= 1

\* No job exists before its source is committed, and a call that is about to
\* enqueue is the only one: the job's payload always names a row the worker can
\* load, so process_extraction_job never raises SourceNotFoundError.
JobHasSource ==
    /\ \A s \in Sources : status[s] # "none" => rows[s] = 1
    /\ \A c \in Clients : ipc[c] = "inserted" => rows[isrc[c]] = 1
    /\ \A c, d \in Clients :
         ipc[c] = "inserted" /\ ipc[d] = "inserted" /\ isrc[c] = isrc[d] => c = d

\* Racing ingest calls of one content make one row and offer it once, whichever of
\* them dies where.
IngestIsOnce == OneRowPerKey /\ JobHasSource

\* Two live workers work on the same job only after a start took it from one of them,
\* and the row of a job in flight says so otherwise: SKIP LOCKED at the claim, and the
\* unconditional UPDATEs of ack and fail, act on a row their worker still owns.
SoleHolder ==
    /\ \A v, w \in Workers :
         Holds(v) /\ Holds(w) /\ wjob[v] = wjob[w] => v = w \/ wjob[v] \in overtaken
    /\ \A w \in Workers : Holds(w) => status[wjob[w]] = "running" \/ wjob[w] \in overtaken

\* Every committed extraction of a source is the one its job is done for, the one
\* a live worker is about to acknowledge, or one whose worker died before its ack:
\* a job is done only with its context objects committed, and only a death between
\* the commit and the ack, or a start that overtakes the worker, makes a source be
\* extracted twice.
CommitsAccounted ==
    \A s \in Sources \ overtaken :
       extracted[s] = lost[s]
         + Cardinality({w \in Workers : wpc[w] = "extracted" /\ wjob[w] = s})
         + (IF status[s] = "done" THEN 1 ELSE 0)

\* A settled job is settled: the only late ack or fail that takes a job out of done
\* or poison is that of a worker that was overtaken.
SettledIsFinal ==
    [][\A s \in Sources \ overtaken :
          status[s] \in {"done", "poison"} => status'[s] = status[s]]_vars

\* A start overtakes a worker only in an attempt that has outlasted
\* STALE_JOB_TIMEOUT_SECONDS, however the job was queued, claimed, lost and reclaimed
\* before: reclaim_stale counts from the claim of the worker that holds the job now.
OnlyLateIsOvertaken ==
    [][\A s \in overtaken' \ overtaken, w \in Workers :
          Holds(w) /\ wjob[w] = s => elapsed[w] > StaleTimeout]_vars

\* The job as WorkQueue sees it: who holds it is read off the workers, so that an
\* orphaned job and a held one, which the table cannot tell apart, are two phases.
Phase(s) ==
    IF s \in overtaken THEN "contended"
    ELSE CASE status[s] = "none" -> IF rows[s] = 0 THEN "absent" ELSE "stored"
           [] status[s] = "running" -> IF Unacked(s) THEN "committed"
                                       ELSE IF Held(s) THEN "held" ELSE "orphaned"
           [] OTHER -> status[s]

Queue == INSTANCE WorkQueue WITH phase <- [s \in Sources |-> Phase(s)], commits <- extracted

\* What ingestion, queue and workers do together, crashes and reclaims included, is
\* what WorkQueue allows: a job is never worked on by two, acknowledged without its
\* commit or resumed once it is settled, until it is taken from a worker that runs.
Implements == Queue!Spec

Up == {w \in Workers : wpc[w] # "down"}
Runners(s) == {w \in Workers : wpc[w] = "running" /\ wjob[w] = s}

\* The starts of a process so far, at most: those that run and those that died.
Starts == deaths + Cardinality(Up)

\* A job is done only with a commit of its own, and poisoned only out of attempts.
SettledForCause ==
    \A s \in Sources : /\ status[s] = "done" => extracted[s] >= 1
                       /\ status[s] = "poison" => attempts[s] >= MaxAttempts

\* Each claim leads to one commit at most, however many workers hold the job.
OneCommitPerClaim == \A s \in Sources : extracted[s] + Cardinality(Runners(s)) <= attempts[s]

\* A job is claimed less than MAX_ATTEMPTS plus the number of starts: each start but
\* the first, which finds nothing running, may give it one attempt more.
ClaimsPaid == \A s \in Sources : attempts[s] < MaxAttempts + Starts

\* What holds even of a job that two workers run at once, whose late ack and fail
\* overwrite each other: claim, ack, fail and reclaim_stale keep the three counts.
AtAnyTiming == SettledForCause /\ OneCommitPerClaim /\ ClaimsPaid

\* In the end every source that an ingest call committed is extracted or poisoned, and
\* stays so, unless a process died with that very source in hand: its job is enqueued,
\* claimed, retried and settled, whatever other processes die and whichever workers are
\* overtaken.
EverySourceSettles ==
    <>[](\A s \in Sources : rows[s] = 1 => status[s] \in {"done", "poison"} \/ s \in abandoned)

-----------------------------------------------------------------------------
(***************************************************************************)
(* What the documents say and the code does not do (violation runs).       *)
(***************************************************************************)

\* worker.py, postgres.py: a job orphaned by a dead worker is stuck "until
\* reclaim_stale's 600s timeout", no longer.
OrphanIsReclaimed ==
    \A s \in Sources :
       (status[s] = "running" /\ \A w \in Workers : wjob[w] # s) ~> status[s] # "running"
=============================================================================
