--------------------------- MODULE JobQueueProofs ---------------------------
(***************************************************************************)
(* Proofs about module JobQueue, for any sources, clients and workers.     *)
(*                                                                         *)
(* Three inductive invariants, none of which assumes anything of how long  *)
(* an attempt takes.  IngestInv is what the ingest calls and the unique    *)
(* constraint achieve.  HoldInv says who holds a job that no start has     *)
(* taken from a live worker; it adds the two clocks, a job's age and its   *)
(* worker's elapsed time, because what keeps reclaim_stale away from a job *)
(* in flight is nothing but that the first never runs ahead of the second. *)
(* AnyInv is what is left for the jobs that were taken.                    *)
(***************************************************************************)
EXTENDS JobQueue, FiniteSetTheorems, TLAPS

\* A busy process has a source; an idle worker has none.
BusyHasSource ==
    /\ \A c \in Clients : ipc[c] # "idle" => isrc[c] \in Sources
    /\ \A w \in Workers : IF Holds(w) THEN wjob[w] \in Sources ELSE wjob[w] = NoSource

\* The job a worker holds names a committed source, even after a reclaim.
HeldHasSource == \A w \in Workers : Holds(w) => rows[wjob[w]] = 1

IngestInv == TypeOK /\ BusyHasSource /\ OneRowPerKey /\ JobHasSource /\ HeldHasSource

\* The row of a job in flight was updated no earlier than its worker claimed it.
InTime ==
    \A w \in Workers : Holds(w) => age[wjob[w]] <= elapsed[w] \/ wjob[w] \in overtaken

\* CommitsAccounted without counting: at most one worker holds a job.
CommitsOnce ==
    \A s \in Sources \ overtaken :
       extracted[s] = lost[s] + (IF Unacked(s) THEN 1 ELSE 0)
                              + (IF status[s] = "done" THEN 1 ELSE 0)

\* What was taken from a worker had been enqueued.
OvertakenHasJob == \A s \in overtaken : status[s] # "none"

HoldInv == IngestInv /\ SoleHolder /\ InTime /\ CommitsOnce /\ OvertakenHasJob

USE QueueAssumption

-----------------------------------------------------------------------------
(* The ingest side. *)

\* The default backoff is a number of seconds.
LEMMA BackoffType == ASSUME NEW n \in Nat PROVE Backoffs(n) \subseteq Int
  BY DEF Backoffs

\* In the initial state the ingest invariant holds.
LEMMA IngestInvInit == Init => IngestInv
  BY DEF Init, IngestInv, TypeOK, BusyHasSource, OneRowPerKey, JobHasSource, HeldHasSource,
         Status, Holds

\* Every step keeps types and busy processes as they should be.
LEMMA TypeStep == TypeOK /\ BusyHasSource /\ [Next]_vars => TypeOK' /\ BusyHasSource'
<1> SUFFICES ASSUME TypeOK, BusyHasSource, [Next]_vars
             PROVE  TypeOK' /\ BusyHasSource'
  OBVIOUS
<1> USE DEF TypeOK, BusyHasSource, Status, Holds
<1>1. ASSUME NEW c \in Clients, NEW s \in Sources, IngestCheck(c, s)
      PROVE  TypeOK' /\ BusyHasSource'
  BY <1>1 DEF IngestCheck, jobVars, workVars, histVars
<1>2. ASSUME NEW c \in Clients, IngestInsert(c)
      PROVE  TypeOK' /\ BusyHasSource'
  BY <1>2 DEF IngestInsert, jobVars, workVars, histVars
<1>3. ASSUME NEW c \in Clients, Enqueue(c)
      PROVE  TypeOK' /\ BusyHasSource'
  BY <1>3 DEF Enqueue, workVars, histVars
<1>4. ASSUME NEW c \in Clients, IngestDies(c)
      PROVE  TypeOK' /\ BusyHasSource'
  BY <1>4 DEF IngestDies, jobVars, workVars
<1>5. ASSUME NEW w \in Workers, NEW s \in Sources, Claim(w, s)
      PROVE  TypeOK' /\ BusyHasSource'
  BY <1>5 DEF Claim, srcVars, histVars
<1>6. ASSUME NEW w \in Workers, Extract(w)
      PROVE  TypeOK' /\ BusyHasSource'
  BY <1>6 DEF Extract, srcVars, jobVars, histVars
<1>7. ASSUME NEW w \in Workers, Raise(w)
      PROVE  TypeOK' /\ BusyHasSource'
  BY <1>7 DEF Raise, MayRaise, srcVars, jobVars, histVars
<1>8. ASSUME NEW w \in Workers, Ack(w)
      PROVE  TypeOK' /\ BusyHasSource'
  BY <1>8 DEF Ack, Release, srcVars, histVars
<1>9. ASSUME NEW w \in Workers, Fail(w)
      PROVE  TypeOK' /\ BusyHasSource'
  <2>1. wjob[w] \in Sources /\ attempts[wjob[w]] \in Nat
    BY <1>9 DEF Fail
  <2>2. \A d \in Backoffs(attempts[wjob[w]]) \cup {0} : d \in Int
    BY <2>1, BackoffType
  <2>3. wait' \in [Sources -> Int]
    BY <1>9, <2>1, <2>2 DEF Fail
  <2> QED
    BY <1>9, <2>1, <2>3 DEF Fail, FailStatus, Release, srcVars, histVars
<1>10. ASSUME NEW w \in Workers, Start(w)
       PROVE  TypeOK' /\ BusyHasSource'
  BY <1>10 DEF Start, srcVars, histVars
<1>11. ASSUME NEW w \in Workers, Die(w)
       PROVE  TypeOK' /\ BusyHasSource'
  BY <1>11 DEF Die, srcVars, jobVars
<1>12. CASE Tick
  BY <1>12 DEF Tick, srcVars, histVars
<1>13. CASE UNCHANGED vars
  BY <1>13 DEF vars
<1> QED
  BY <1>1, <1>2, <1>3, <1>4, <1>5, <1>6, <1>7, <1>8, <1>9, <1>10, <1>11, <1>12, <1>13 DEF Next, WorkerStep

\* Every step keeps the ingest invariant.
LEMMA IngestInvStep == IngestInv /\ [Next]_vars => IngestInv'
<1> SUFFICES ASSUME IngestInv, [Next]_vars
             PROVE  IngestInv'
  OBVIOUS
<1>0. TypeOK' /\ BusyHasSource'
  BY TypeStep DEF IngestInv
<1> SUFFICES OneRowPerKey' /\ JobHasSource' /\ HeldHasSource'
  BY <1>0 DEF IngestInv
<1> USE DEF IngestInv, TypeOK, BusyHasSource, OneRowPerKey, JobHasSource, HeldHasSource, Holds
<1>1. ASSUME NEW c \in Clients, NEW s \in Sources, IngestCheck(c, s)
      PROVE  OneRowPerKey' /\ JobHasSource' /\ HeldHasSource'
  BY <1>1 DEF IngestCheck, jobVars, workVars
<1>2. ASSUME NEW c \in Clients, IngestInsert(c)
      PROVE  OneRowPerKey' /\ JobHasSource' /\ HeldHasSource'
  BY <1>2 DEF IngestInsert, Refused, jobVars, workVars
<1>3. ASSUME NEW c \in Clients, Enqueue(c)
      PROVE  OneRowPerKey' /\ JobHasSource' /\ HeldHasSource'
  BY <1>3 DEF Enqueue, ReadyToEnqueue, workVars
<1>4. ASSUME NEW c \in Clients, IngestDies(c)
      PROVE  OneRowPerKey' /\ JobHasSource' /\ HeldHasSource'
  BY <1>4 DEF IngestDies, jobVars, workVars
<1>5. ASSUME NEW w \in Workers, NEW s \in Sources, Claim(w, s)
      PROVE  OneRowPerKey' /\ JobHasSource' /\ HeldHasSource'
  BY <1>5 DEF Claim, Runnable, srcVars
<1>6. ASSUME NEW w \in Workers, Extract(w) \/ Raise(w) \/ Die(w)
      PROVE  OneRowPerKey' /\ JobHasSource' /\ HeldHasSource'
  BY <1>6 DEF Extract, Raise, MayRaise, Die, srcVars, jobVars
<1>7. ASSUME NEW w \in Workers, Ack(w) \/ Fail(w)
      PROVE  OneRowPerKey' /\ JobHasSource' /\ HeldHasSource'
  BY <1>7 DEF Ack, Fail, Release, srcVars
<1>8. ASSUME NEW w \in Workers, Start(w)
      PROVE  OneRowPerKey' /\ JobHasSource' /\ HeldHasSource'
  BY <1>8 DEF Start, Stale, srcVars
<1>9. CASE Tick
  BY <1>9 DEF Tick, srcVars
<1>10. CASE UNCHANGED vars
  BY <1>10 DEF vars
<1> QED
  BY <1>1, <1>2, <1>3, <1>4, <1>5, <1>6, <1>7, <1>8, <1>9, <1>10 DEF Next, WorkerStep

\* The ingest invariant holds of every run, whatever the timing.
THEOREM IngestCorrect == Spec => []IngestInv
<1>1. Init => IngestInv
  BY IngestInvInit
<1>2. IngestInv /\ [Next]_vars => IngestInv'
  BY IngestInvStep
<1> QED
  BY <1>1, <1>2, PTL DEF Spec

-----------------------------------------------------------------------------
(* The worker side: jobs that no start has taken from a live worker. *)

\* In the initial state nobody holds anything and nothing has been tried.
LEMMA HoldInvInit == Init => HoldInv
<1> SUFFICES ASSUME Init
             PROVE  HoldInv
  OBVIOUS
<1>1. IngestInv
  BY IngestInvInit
<1>2. SoleHolder /\ InTime
  BY DEF Init, SoleHolder, InTime, Holds
<1>3. CommitsOnce /\ OvertakenHasJob
  BY DEF Init, CommitsOnce, Unacked, OvertakenHasJob
<1> QED
  BY <1>1, <1>2, <1>3 DEF HoldInv

\* Every step keeps holders apart and the two clocks in step.
LEMMA HolderStep == HoldInv /\ [Next]_vars => SoleHolder' /\ InTime'
<1> SUFFICES ASSUME HoldInv, [Next]_vars
             PROVE  SoleHolder' /\ InTime'
  OBVIOUS
<1> USE DEF HoldInv, IngestInv, TypeOK, BusyHasSource, SoleHolder, InTime, Holds
<1>1. ASSUME NEW c \in Clients, NEW s \in Sources, IngestCheck(c, s)
      PROVE  SoleHolder' /\ InTime'
  BY <1>1 DEF IngestCheck, jobVars, workVars, histVars
<1>2. ASSUME NEW c \in Clients, IngestInsert(c) \/ IngestDies(c)
      PROVE  SoleHolder' /\ InTime'
  BY <1>2 DEF IngestInsert, IngestDies, jobVars, workVars, histVars
<1>3. ASSUME NEW c \in Clients, Enqueue(c)
      PROVE  SoleHolder' /\ InTime'
  BY <1>3 DEF Enqueue, workVars, histVars
<1>4. ASSUME NEW w \in Workers, NEW s \in Sources, Claim(w, s)
      PROVE  SoleHolder' /\ InTime'
  BY <1>4 DEF Claim, Runnable, histVars
<1>5. ASSUME NEW w \in Workers, Extract(w) \/ Raise(w) \/ Die(w)
      PROVE  SoleHolder' /\ InTime'
  BY <1>5 DEF Extract, Raise, MayRaise, Die, jobVars, histVars
<1>6. ASSUME NEW w \in Workers, Ack(w) \/ Fail(w)
      PROVE  SoleHolder' /\ InTime'
  BY <1>6 DEF Ack, Fail, Release, histVars
<1>7. ASSUME NEW w \in Workers, Start(w)
      PROVE  SoleHolder' /\ InTime'
  BY <1>7 DEF Start, Held, Stale
<1>8. CASE Tick
  BY <1>8 DEF Tick, workVars, histVars
<1>9. CASE UNCHANGED vars
  BY <1>9 DEF vars
<1> QED
  BY <1>1, <1>2, <1>3, <1>4, <1>5, <1>6, <1>7, <1>8, <1>9 DEF Next, WorkerStep

\* Every step keeps the account of the commits.
LEMMA CommitsStep == HoldInv /\ [Next]_vars => CommitsOnce'
<1> SUFFICES ASSUME HoldInv, [Next]_vars
             PROVE  CommitsOnce'
  OBVIOUS
<1> USE DEF HoldInv, IngestInv, TypeOK, BusyHasSource, SoleHolder, CommitsOnce, Unacked, Holds
<1>1. ASSUME NEW c \in Clients, NEW s \in Sources, IngestCheck(c, s)
      PROVE  CommitsOnce'
  BY <1>1 DEF IngestCheck, jobVars, workVars, histVars
<1>2. ASSUME NEW c \in Clients, IngestInsert(c) \/ IngestDies(c)
      PROVE  CommitsOnce'
  BY <1>2 DEF IngestInsert, IngestDies, jobVars, workVars, histVars
<1>3. ASSUME NEW c \in Clients, Enqueue(c)
      PROVE  CommitsOnce'
  BY <1>3 DEF Enqueue, workVars, histVars
<1>4. ASSUME NEW w \in Workers, NEW s \in Sources, Claim(w, s)
      PROVE  CommitsOnce'
  BY <1>4 DEF Claim, Runnable, histVars
<1>5. ASSUME NEW w \in Workers, Extract(w)
      PROVE  CommitsOnce'
  BY <1>5 DEF Extract, jobVars, histVars
<1>6. ASSUME NEW w \in Workers, Raise(w)
      PROVE  CommitsOnce'
  BY <1>6 DEF Raise, MayRaise, jobVars, histVars
<1>7. ASSUME NEW w \in Workers, Die(w)
      PROVE  CommitsOnce'
  BY <1>7 DEF Die, jobVars
<1>8. ASSUME NEW w \in Workers, Ack(w)
      PROVE  CommitsOnce'
  BY <1>8 DEF Ack, Release, histVars
<1>9. ASSUME NEW w \in Workers, Fail(w)
      PROVE  CommitsOnce'
  BY <1>9 DEF Fail, FailStatus, Release, histVars
<1>10. ASSUME NEW w \in Workers, Start(w)
       PROVE  CommitsOnce'
  BY <1>10 DEF Start, Stale, histVars
<1>11. CASE Tick
  BY <1>11 DEF Tick, histVars
<1>12. CASE UNCHANGED vars
  BY <1>12 DEF vars
<1> QED
  BY <1>1, <1>2, <1>3, <1>4, <1>5, <1>6, <1>7, <1>8, <1>9, <1>10, <1>11, <1>12 DEF Next, WorkerStep

\* No step takes a job off the table.
LEMMA OvertakenStep == HoldInv /\ [Next]_vars => OvertakenHasJob'
<1> SUFFICES ASSUME HoldInv, [Next]_vars
             PROVE  OvertakenHasJob'
  OBVIOUS
<1> USE DEF HoldInv, IngestInv, TypeOK, BusyHasSource, OvertakenHasJob, Holds
<1>1. ASSUME NEW c \in Clients,
             (\E s \in Sources : IngestCheck(c, s)) \/ IngestInsert(c) \/ Enqueue(c) \/ IngestDies(c)
      PROVE  OvertakenHasJob'
  BY <1>1 DEF IngestCheck, IngestInsert, Enqueue, IngestDies, jobVars, histVars
<1>2. ASSUME NEW w \in Workers,
             (\E s \in Sources : Claim(w, s)) \/ Extract(w) \/ Raise(w) \/ Die(w)
      PROVE  OvertakenHasJob'
  BY <1>2 DEF Claim, Extract, Raise, Die, jobVars, histVars
<1>3. ASSUME NEW w \in Workers, Ack(w) \/ Fail(w)
      PROVE  OvertakenHasJob'
  BY <1>3 DEF Ack, Fail, FailStatus, histVars
<1>4. ASSUME NEW w \in Workers, Start(w)
      PROVE  OvertakenHasJob'
  BY <1>4 DEF Start, Stale
<1>5. CASE Tick \/ UNCHANGED vars
  BY <1>5 DEF Tick, vars, histVars
<1> QED
  BY <1>1, <1>2, <1>3, <1>4, <1>5 DEF Next, WorkerStep

-----------------------------------------------------------------------------
(* The theorems. *)

\* HoldInv holds of every run, however long an attempt takes.
THEOREM HoldCorrect == Spec => []HoldInv
<1>1. Init => HoldInv
  BY HoldInvInit
<1>2. HoldInv /\ [Next]_vars => HoldInv'
  BY IngestInvStep, HolderStep, CommitsStep, OvertakenStep DEF HoldInv
<1> QED
  BY <1>1, <1>2, PTL DEF Spec

\* The values stay in their types.
THEOREM TypeCorrect == Spec => []TypeOK
<1>1. IngestInv => TypeOK
  BY DEF IngestInv
<1> QED
  BY <1>1, IngestCorrect, PTL

\* However many ingest calls race, a dedupe key has at most one sources row, and its
\* job names a source that has been committed and is enqueued by one call.
THEOREM IngestOnce == Spec => []IngestIsOnce
<1>1. IngestInv => IngestIsOnce
  BY DEF IngestInv, IngestIsOnce
<1> QED
  BY <1>1, IngestCorrect, PTL

\* No two workers hold one job, whatever is claimed, reclaimed, retried and killed in
\* whatever order, as long as no start has taken it from a live worker.
THEOREM MutualExclusion == Spec => []SoleHolder
<1>1. HoldInv => SoleHolder
  BY DEF HoldInv
<1> QED
  BY <1>1, HoldCorrect, PTL

\* The workers that have committed a job and not acknowledged it are one or none.
LEMMA UnackedCount ==
  ASSUME SoleHolder, NEW s \in Sources \ overtaken
  PROVE  Cardinality({w \in Workers : wpc[w] = "extracted" /\ wjob[w] = s})
           = IF Unacked(s) THEN 1 ELSE 0
<1> DEFINE U == {w \in Workers : wpc[w] = "extracted" /\ wjob[w] = s}
<1>1. CASE ~Unacked(s)
  <2>1. U = {}
    BY <1>1 DEF Unacked
  <2> QED
    BY <1>1, <2>1, FS_EmptySet
<1>2. CASE Unacked(s)
  <2>1. PICK w \in Workers : wpc[w] = "extracted" /\ wjob[w] = s
    BY <1>2 DEF Unacked
  <2>2. U = {w}
    BY <2>1 DEF SoleHolder, Holds
  <2> QED
    BY <1>2, <2>2, FS_Singleton
<1> QED
  BY <1>1, <1>2

\* Every committed extraction of a job that was not overtaken is acknowledged, about to
\* be, or lost with its worker.
THEOREM CommitsAreAccounted == Spec => []CommitsAccounted
<1>1. HoldInv => CommitsAccounted
  BY UnackedCount DEF HoldInv, CommitsOnce, CommitsAccounted
<1> QED
  BY <1>1, HoldCorrect, PTL

\* Nothing takes a job out of done or poison but a worker that was overtaken.
THEOREM SettledStays == Spec => SettledIsFinal
<1> DEFINE Settled == \A s \in Sources \ overtaken :
                         status[s] \in {"done", "poison"} => status'[s] = status[s]
<1>1. HoldInv /\ [Next]_vars => [Settled]_vars
  <2> SUFFICES ASSUME HoldInv, Next
               PROVE  Settled
    OBVIOUS
  <2> USE DEF HoldInv, IngestInv, TypeOK, BusyHasSource, SoleHolder, Holds
  <2>1. ASSUME NEW c \in Clients,
               (\E s \in Sources : IngestCheck(c, s)) \/ IngestInsert(c) \/ Enqueue(c) \/ IngestDies(c)
        PROVE  Settled
    BY <2>1 DEF IngestCheck, IngestInsert, Enqueue, IngestDies, jobVars
  <2>2. ASSUME NEW w \in Workers,
               (\E s \in Sources : Claim(w, s)) \/ Extract(w) \/ Raise(w) \/ Die(w)
        PROVE  Settled
    BY <2>2 DEF Claim, Runnable, Extract, Raise, Die, jobVars
  <2>3. ASSUME NEW w \in Workers, Ack(w) \/ Fail(w)
        PROVE  Settled
    BY <2>3 DEF Ack, Fail, Release
  <2>4. ASSUME NEW w \in Workers, Start(w)
        PROVE  Settled
    BY <2>4 DEF Start, Stale
  <2>5. CASE Tick
    BY <2>5 DEF Tick
  <2> QED
    BY <2>1, <2>2, <2>3, <2>4, <2>5 DEF Next, WorkerStep
<1> QED
  BY <1>1, HoldCorrect, PTL DEF Spec, SettledIsFinal

\* A worker loses its job to a start only after the stale timeout has passed since it
\* claimed it.
THEOREM OvertakenIsLate == Spec => OnlyLateIsOvertaken
<1> DEFINE Late == \A s \in overtaken' \ overtaken, w \in Workers :
                      Holds(w) /\ wjob[w] = s => elapsed[w] > StaleTimeout
<1>1. HoldInv /\ [Next]_vars => [Late]_vars
  <2> SUFFICES ASSUME HoldInv, Next
               PROVE  Late
    OBVIOUS
  <2>1. CASE \E v \in Workers : Start(v)
    <3> SUFFICES ASSUME NEW s \in overtaken' \ overtaken, NEW w \in Workers,
                        Holds(w), wjob[w] = s
                 PROVE  elapsed[w] > StaleTimeout
      OBVIOUS
    <3>1. s \in Sources /\ Stale(s)
      BY <2>1 DEF Start
    <3>2. age[s] <= elapsed[w]
      BY DEF HoldInv, InTime
    <3> QED
      BY <3>1, <3>2 DEF Stale, HoldInv, IngestInv, TypeOK
  <2>2. CASE ~\E v \in Workers : Start(v)
    <3>1. overtaken' = overtaken
      BY <2>2 DEF Next, WorkerStep, IngestCheck, IngestInsert, Enqueue, IngestDies, Claim, Extract,
                  Raise, Ack, Fail, Die, Tick, histVars
    <3> QED
      BY <3>1
  <2> QED
    BY <2>1, <2>2
<1> QED
  BY <1>1, HoldCorrect, PTL DEF Spec, OnlyLateIsOvertaken

-----------------------------------------------------------------------------
(* The refinement. *)

\* A step that changes the phase of one source, as WorkQueue writes it.
LEMMA OneMoves ==
  ASSUME NEW s \in Sources, \A t \in Sources : t # s => Phase(t)' = Phase(t)
  PROVE  [t \in Sources |-> Phase(t)]' = [[t \in Sources |-> Phase(t)] EXCEPT ![s] = Phase(s)']
OBVIOUS

\* A step that changes no phase.
LEMMA NoneMoves ==
  ASSUME \A t \in Sources : Phase(t)' = Phase(t)
  PROVE  [t \in Sources |-> Phase(t)]' = [t \in Sources |-> Phase(t)]
OBVIOUS

\* What the ingest calls do to phases: nothing but Store and Offer.
LEMMA IngestMaps ==
  ASSUME HoldInv, NEW c \in Clients,
         (\E s \in Sources : IngestCheck(c, s)) \/ IngestInsert(c) \/ Enqueue(c) \/ IngestDies(c)
  PROVE  [Queue!Next]_(Queue!vars)
<1> USE DEF HoldInv, IngestInv, TypeOK, BusyHasSource, JobHasSource, OvertakenHasJob,
           Holds, Held, Unacked
<1>1. CASE (\E s \in Sources : IngestCheck(c, s)) \/ IngestDies(c)
  <2>1. (\A t \in Sources : Phase(t)' = Phase(t)) /\ extracted' = extracted
    BY <1>1 DEF IngestCheck, IngestDies, Phase, jobVars, workVars, histVars
  <2> QED
    BY <2>1, NoneMoves DEF Queue!vars
<1>2. CASE IngestInsert(c)
  <2>1. PICK s \in Sources : s = isrc[c] /\ extracted' = extracted
    BY <1>2 DEF IngestInsert
  <2>2. \A t \in Sources : t # s => Phase(t)' = Phase(t)
    BY <1>2, <2>1 DEF IngestInsert, Phase, jobVars, workVars, histVars
  <2>3. CASE Refused(s)
    <3>1. Phase(s)' = Phase(s)
      BY <1>2, <2>1, <2>3 DEF IngestInsert, Phase, jobVars, workVars, histVars
    <3> QED
      BY <2>1, <2>2, <3>1, NoneMoves DEF Queue!vars
  <2>4. CASE ~Refused(s)
    <3>1. Phase(s) = "absent" /\ Phase(s)' = "stored"
      BY <1>2, <2>1, <2>4 DEF IngestInsert, Refused, Phase, jobVars, workVars, histVars
    <3>2. Queue!Store(s)
      BY <2>1, <2>2, <3>1, OneMoves DEF Queue!Store, Queue!Move
    <3> QED
      BY <2>1, <3>2 DEF Queue!Next
  <2> QED
    BY <2>3, <2>4
<1>3. CASE Enqueue(c)
  <2>1. PICK s \in Sources : s = isrc[c] /\ rows[s] = 1 /\ extracted' = extracted
    BY <1>3 DEF Enqueue, ReadyToEnqueue
  <2>2. \A t \in Sources : t # s => Phase(t)' = Phase(t)
    BY <1>3, <2>1 DEF Enqueue, Phase, workVars, histVars
  <2>3. CASE status[s] = "none"
    <3>1. Phase(s) = "stored" /\ Phase(s)' = "queued"
      BY <1>3, <2>1, <2>3 DEF Enqueue, Phase, workVars, histVars
    <3>2. Queue!Offer(s)
      BY <2>1, <2>2, <3>1, OneMoves DEF Queue!Offer, Queue!Move
    <3> QED
      BY <2>1, <3>2 DEF Queue!Next
  <2>4. CASE status[s] # "none"
    <3>1. Phase(s)' = Phase(s)
      BY <1>3, <2>1, <2>4 DEF Enqueue, Phase, workVars, histVars
    <3> QED
      BY <2>1, <2>2, <3>1, NoneMoves DEF Queue!vars
  <2> QED
    BY <2>3, <2>4
<1> QED
  BY <1>1, <1>2, <1>3

\* A step that neither takes a job over nor changes what the others see of theirs
\* leaves the phase of a job that was taken over as it is.
LEMMA ContendedStays ==
  ASSUME overtaken' = overtaken, NEW s \in overtaken
  PROVE  Phase(s) = "contended" /\ Phase(s)' = "contended"
BY DEF Phase

\* What a worker does with a job, from claiming it to settling it.
LEMMA WorkMaps ==
  ASSUME HoldInv, NEW w \in Workers,
         (\E s \in Sources : Claim(w, s)) \/ Extract(w) \/ Raise(w) \/ Ack(w) \/ Fail(w)
  PROVE  [Queue!Next]_(Queue!vars)
<1>0. overtaken' = overtaken
  BY DEF Claim, Extract, Raise, Ack, Fail, histVars
<1> USE DEF HoldInv, IngestInv, TypeOK, BusyHasSource, SoleHolder, Holds, Held, Unacked
<1>1. ASSUME NEW s \in Sources, Claim(w, s)
      PROVE  [Queue!Next]_(Queue!vars)
  <2>1. \A t \in Sources : t # s => Phase(t)' = Phase(t)
    BY <1>0, <1>1 DEF Claim, Phase, srcVars
  <2>2. CASE s \in overtaken
    <3>1. Phase(s)' = Phase(s) /\ extracted' = extracted
      BY <1>0, <1>1, <2>2, ContendedStays DEF Claim
    <3> QED
      BY <2>1, <3>1, NoneMoves DEF Queue!vars
  <2>3. CASE s \notin overtaken
    <3>1. Phase(s) = "queued" /\ Phase(s)' = "held" /\ extracted' = extracted
      BY <1>0, <1>1, <2>3 DEF Claim, Runnable, Phase, srcVars
    <3>2. Queue!Take(s)
      BY <2>1, <3>1, OneMoves DEF Queue!Take, Queue!Move
    <3> QED
      BY <3>2 DEF Queue!Next
  <2> QED
    BY <2>2, <2>3
<1>2. CASE Extract(w)
  <2>1. PICK s \in Sources : s = wjob[w]
    BY <1>2 DEF Extract
  <2>2. \A t \in Sources : t # s => Phase(t)' = Phase(t)
    BY <1>0, <1>2, <2>1 DEF Extract, Phase, srcVars, jobVars
  <2>3. CASE s \in overtaken
    <3>1. Phase(s) = "contended" /\ Phase(s)' = "contended"
      BY <1>0, <2>3, ContendedStays
    <3>2. Queue!CommitAgain(s)
      BY <1>2, <2>1, <2>2, <3>1, OneMoves DEF Extract, Queue!CommitAgain, Queue!Move
    <3> QED
      BY <2>1, <3>2 DEF Queue!Next
  <2>4. CASE s \notin overtaken
    <3>1. Phase(s) = "held" /\ Phase(s)' = "committed"
      BY <1>0, <1>2, <2>1, <2>4 DEF Extract, Phase, srcVars, jobVars
    <3>2. Queue!Commit(s)
      BY <1>2, <2>1, <2>2, <3>1, OneMoves DEF Extract, Queue!Commit, Queue!Move
    <3> QED
      BY <2>1, <3>2 DEF Queue!Next
  <2> QED
    BY <2>3, <2>4
<1>3. CASE Raise(w)
  <2>1. PICK s \in Sources : s = wjob[w] /\ extracted' = extracted
    BY <1>3 DEF Raise, MayRaise
  <2>2. \A t \in Sources : (Held(t)' <=> Held(t)) /\ (Unacked(t)' <=> Unacked(t))
    BY <1>3 DEF Raise, MayRaise
  <2>3. \A t \in Sources : Phase(t)' = Phase(t)
    BY <1>0, <1>3, <2>2 DEF Raise, Phase, srcVars, jobVars
  <2> QED
    BY <2>1, <2>3, NoneMoves DEF Queue!vars
<1>4. CASE Ack(w)
  <2>1. PICK s \in Sources : s = wjob[w] /\ extracted' = extracted
    BY <1>4 DEF Ack
  <2>2. \A t \in Sources : t # s => Phase(t)' = Phase(t)
    BY <1>0, <1>4, <2>1 DEF Ack, Release, Phase, srcVars
  <2>3. CASE s \in overtaken
    <3>1. Phase(s)' = Phase(s)
      BY <1>0, <2>3, ContendedStays
    <3> QED
      BY <2>1, <2>2, <3>1, NoneMoves DEF Queue!vars
  <2>4. CASE s \notin overtaken
    <3>1. Phase(s) = "committed" /\ Phase(s)' = "done"
      BY <1>0, <1>4, <2>1, <2>4 DEF Ack, Release, Phase, srcVars
    <3>2. Queue!Acknowledge(s)
      BY <2>1, <2>2, <3>1, OneMoves DEF Queue!Acknowledge, Queue!Move
    <3> QED
      BY <2>1, <3>2 DEF Queue!Next
  <2> QED
    BY <2>3, <2>4
<1>5. CASE Fail(w)
  <2>1. PICK s \in Sources : s = wjob[w] /\ extracted' = extracted
    BY <1>5 DEF Fail
  <2>2. \A t \in Sources : t # s => Phase(t)' = Phase(t)
    BY <1>0, <1>5, <2>1 DEF Fail, Release, Phase, srcVars
  <2>3. CASE s \in overtaken
    <3>1. Phase(s)' = Phase(s)
      BY <1>0, <2>3, ContendedStays
    <3> QED
      BY <2>1, <2>2, <3>1, NoneMoves DEF Queue!vars
  <2>4. CASE s \notin overtaken
    <3>1. status[s] = "running" /\ ~Unacked(s) /\ Held(s)
      BY <1>5, <2>1, <2>4 DEF Fail
    <3>2. status'[s] \in {"queued", "poison"}
      BY <1>5, <2>1 DEF Fail, FailStatus
    <3>3. Phase(s) = "held" /\ Phase(s)' \in {"queued", "poison"}
      BY <1>0, <2>4, <3>1, <3>2 DEF Phase
    <3>4. Queue!GiveBack(s)
      BY <2>1, <2>2, <3>3, OneMoves DEF Queue!GiveBack, Queue!Move
    <3> QED
      BY <2>1, <3>4 DEF Queue!Next
  <2> QED
    BY <2>3, <2>4
<1> QED
  BY <1>1, <1>2, <1>3, <1>4, <1>5

\* A death orphans the job its worker held, or leaves it contended; a start reclaims
\* orphans, and makes a job contended that it takes from a live worker.
LEMMA LifeMaps ==
  ASSUME HoldInv, NEW w \in Workers, Die(w) \/ Start(w)
  PROVE  [Queue!Next]_(Queue!vars)
<1> USE DEF HoldInv, IngestInv, TypeOK, BusyHasSource, SoleHolder, Holds, Held, Unacked
<1>1. CASE Die(w) /\ ~Holds(w)
  <2>1. \A t \in Sources : (Held(t)' <=> Held(t)) /\ (Unacked(t)' <=> Unacked(t))
    BY <1>1 DEF Die
  <2>2. (\A t \in Sources : Phase(t)' = Phase(t)) /\ extracted' = extracted
    BY <1>1, <2>1 DEF Die, Phase, srcVars, jobVars
  <2> QED
    BY <2>2, NoneMoves DEF Queue!vars
<1>2. CASE Die(w) /\ Holds(w)
  <2>1. PICK s \in Sources : s = wjob[w] /\ extracted' = extracted /\ overtaken' = overtaken
    BY <1>2 DEF Die
  <2>2. \A t \in Sources : t # s => Phase(t)' = Phase(t)
    BY <1>2, <2>1 DEF Die, Phase, srcVars, jobVars
  <2>3. CASE s \in overtaken
    <3>1. Phase(s)' = Phase(s)
      BY <2>1, <2>3, ContendedStays
    <3> QED
      BY <2>1, <2>2, <3>1, NoneMoves DEF Queue!vars
  <2>4. CASE s \notin overtaken
    <3>1. Phase(s) \in {"held", "committed"} /\ Phase(s)' = "orphaned"
      BY <1>2, <2>1, <2>4 DEF Die, Phase, srcVars, jobVars
    <3>2. Queue!Orphan(s)
      BY <2>1, <2>2, <3>1, OneMoves DEF Queue!Orphan, Queue!Move
    <3> QED
      BY <2>1, <3>2 DEF Queue!Next
  <2> QED
    BY <2>3, <2>4
<1>3. CASE Start(w)
  <2> DEFINE orphans == {s \in Sources \ overtaken : Stale(s) /\ ~Held(s)}
             late == {s \in Sources \ overtaken : Stale(s) /\ Held(s)}
  <2>1. \A t \in Sources : (Held(t)' <=> Held(t)) /\ (Unacked(t)' <=> Unacked(t))
    BY <1>3 DEF Start
  <2>2. overtaken' = overtaken \cup late
    BY <1>3 DEF Start
  <2>3. \A t \in orphans : ~Held(t) /\ ~Unacked(t) /\ status[t] = "running"
    BY DEF Stale
  <2>4. \A t \in orphans : Phase(t) = "orphaned" /\ Phase(t)' = "queued"
    BY <1>3, <2>2, <2>3 DEF Start, Phase
  <2>5. \A t \in late : Phase(t) \in {"held", "committed"} /\ Phase(t)' = "contended"
    BY <2>2 DEF Stale, Phase
  <2>6. ASSUME NEW t \in Sources, t \notin orphans, t \notin late
        PROVE  Phase(t)' = Phase(t)
    <3>1. CASE t \in overtaken
      BY <2>2, <3>1 DEF Phase
    <3>2. CASE t \notin overtaken
      <4>1. t \notin overtaken' /\ ~Stale(t)
        BY <2>2, <2>6, <3>2
      <4> QED
        BY <1>3, <2>1, <3>2, <4>1 DEF Start, Phase, srcVars
    <3> QED
      BY <3>1, <3>2
  <2>7. Queue!Reclaim(orphans, late)
    <3>1. orphans \cap late = {}
      OBVIOUS
    <3> HIDE DEF orphans, late
    <3>2. [t \in Sources |-> Phase(t)]'
            = [t \in Sources |-> IF t \in orphans THEN "queued" ELSE IF t \in late THEN "contended"
                                 ELSE [u \in Sources |-> Phase(u)][t]]
      BY <2>4, <2>5, <2>6, <3>1
    <3>3. (\A t \in orphans : t \in Sources) /\ (\A t \in late : t \in Sources)
      BY DEF orphans, late
    <3> QED
      BY <1>3, <2>4, <2>5, <3>2, <3>3 DEF Start, Queue!Reclaim
  <2> QED
    BY <2>7 DEF Queue!Next
<1> QED
  BY <1>1, <1>2, <1>3

\* The initial states of JobQueue are initial states of WorkQueue.
LEMMA QueueInit == Init => Queue!Init
BY DEF Init, Queue!Init, Phase

\* Every step of JobQueue is a step of WorkQueue or changes nothing it sees.
LEMMA QueueStep == HoldInv /\ [Next]_vars => [Queue!Next]_(Queue!vars)
<1> SUFFICES ASSUME HoldInv, [Next]_vars
             PROVE  [Queue!Next]_(Queue!vars)
  OBVIOUS
<1>1. CASE Tick
  <2>1. (\A t \in Sources : Phase(t)' = Phase(t)) /\ extracted' = extracted
    BY <1>1 DEF Tick, Phase, Held, Unacked, Holds, srcVars, histVars
  <2> QED
    BY <2>1, NoneMoves DEF Queue!vars
<1>2. CASE UNCHANGED vars
  <2>1. (\A t \in Sources : Phase(t)' = Phase(t)) /\ extracted' = extracted
    BY <1>2 DEF vars, Phase, Held, Unacked, Holds
  <2> QED
    BY <2>1, NoneMoves DEF Queue!vars
<1> QED
  BY <1>1, <1>2, IngestMaps, WorkMaps, LifeMaps DEF Next, WorkerStep

\* Ingestion, the queue and its workers implement WorkQueue, whatever is claimed,
\* retried, killed and reclaimed, and however long an attempt takes.
THEOREM QueueImplements == Spec => Implements
<1>1. Init => Queue!Init
  BY QueueInit
<1>2. HoldInv /\ [Next]_vars => [Queue!Next]_(Queue!vars)
  BY QueueStep
<1> QED
  BY <1>1, <1>2, HoldCorrect, PTL DEF Spec, Implements, Queue!Spec

-----------------------------------------------------------------------------
(***************************************************************************)
(* What is left when a start takes a job away from a worker that still     *)
(* runs it: two workers hold it, and a late ack or fail takes a settled    *)
(* job back.  The counts hold.                                             *)
(***************************************************************************)

\* A job that waits to be claimed has been paid for.
ClaimLeft ==
    \A s \in Sources : /\ status[s] = "none" => attempts[s] = 0
                       /\ status[s] = "queued" => \/ attempts[s] = 0
                                                  \/ attempts[s] + 1 < MaxAttempts + Starts

\* A worker that is about to acknowledge a job has committed it.
AckedIsMade == \A w \in Workers : wpc[w] = "extracted" => extracted[wjob[w]] >= 1

\* The worker processes that run are finitely many, as each was started.
AnyInv == IsFiniteSet(Up) /\ AtAnyTiming /\ ClaimLeft /\ AckedIsMade

LEMMA RunnersFinite ==
  ASSUME IsFiniteSet(Up), NEW s \in Sources
  PROVE  IsFiniteSet(Runners(s)) /\ Cardinality(Runners(s)) \in Nat /\ Cardinality(Up) \in Nat
<1>1. Runners(s) \subseteq Up
  BY DEF Runners, Up
<1>2. IsFiniteSet(Runners(s))
  BY <1>1, FS_Subset
<1> QED
  BY <1>2, FS_CardinalityType

\* In the initial state no process runs.
LEMMA AnyInvInit == Init => AnyInv
<1> SUFFICES ASSUME Init
             PROVE  AnyInv
  OBVIOUS
<1>1. Up = {} /\ \A s \in Sources : Runners(s) = {}
  BY DEF Init, Up, Runners
<1>2. IsFiniteSet({}) /\ Cardinality({}) = 0
  BY FS_EmptySet
<1>3. Starts = 0
  BY <1>1, <1>2 DEF Starts, Init
<1>4. AtAnyTiming
  BY <1>1, <1>2, <1>3 DEF Init, AtAnyTiming, SettledForCause, OneCommitPerClaim, ClaimsPaid
<1>5. ClaimLeft /\ AckedIsMade
  BY DEF Init, ClaimLeft, AckedIsMade
<1> QED
  BY <1>1, <1>2, <1>4, <1>5 DEF AnyInv

\* Starts only grow, and a start adds one.
LEMMA StartsStep ==
  ASSUME TypeOK, TypeOK', IsFiniteSet(Up), Next
  PROVE  /\ IsFiniteSet(Up') /\ Cardinality(Up) \in Nat /\ Cardinality(Up') \in Nat
         /\ Starts \in Nat /\ Starts' \in Nat /\ Starts <= Starts'
         /\ (\E w \in Workers : Start(w)) => Starts' = Starts + 1
<1> USE DEF TypeOK
<1>0. Cardinality(Up) \in Nat
  BY FS_CardinalityType
<1>1. CASE \E c \in Clients : (\E s \in Sources : IngestCheck(c, s)) \/ IngestInsert(c)
                              \/ Enqueue(c) \/ IngestDies(c)
  <2>1. wpc' = wpc /\ deaths' >= deaths
    BY <1>1 DEF IngestCheck, IngestInsert, Enqueue, IngestDies, workVars, histVars
  <2>2. Up' = Up
    BY <2>1 DEF Up
  <2>3. ~\E w \in Workers : Start(w)
    BY <2>1 DEF Start
  <2> QED
    BY <1>0, <2>1, <2>2, <2>3 DEF Starts
<1>2. CASE \E w \in Workers : (\E s \in Sources : Claim(w, s)) \/ Extract(w) \/ Raise(w)
                              \/ Ack(w) \/ Fail(w)
  <2>1. PICK w \in Workers : (\E s \in Sources : Claim(w, s)) \/ Extract(w) \/ Raise(w)
                              \/ Ack(w) \/ Fail(w)
    BY <1>2
  <2>2. /\ wpc[w] # "down" /\ wpc'[w] # "down" /\ deaths' = deaths
        /\ \A v \in Workers : v # w => wpc'[v] = wpc[v]
    BY <2>1 DEF Claim, Extract, Raise, MayRaise, Ack, Fail, Release, histVars
  <2>3. Up' = Up
    BY <2>2 DEF Up
  <2>4. ~\E v \in Workers : Start(v)
    BY <2>2 DEF Start
  <2> QED
    BY <1>0, <2>2, <2>3, <2>4 DEF Starts
<1>3. CASE \E w \in Workers : Start(w)
  <2>1. PICK w \in Workers : Start(w)
    BY <1>3
  <2>2. Up' = Up \cup {w} /\ w \notin Up /\ deaths' = deaths
    BY <2>1 DEF Up, Start, histVars
  <2>3. IsFiniteSet(Up') /\ Cardinality(Up') = Cardinality(Up) + 1
    BY <2>2, FS_AddElement
  <2> QED
    BY <1>0, <2>2, <2>3 DEF Starts
<1>4. CASE \E w \in Workers : Die(w)
  <2>1. PICK w \in Workers : Die(w)
    BY <1>4
  <2>2. Up' = Up \ {w} /\ w \in Up /\ deaths' = deaths + 1
    BY <2>1 DEF Up, Die
  <2>3. IsFiniteSet(Up') /\ Cardinality(Up') = Cardinality(Up) - 1
    BY <2>2, FS_RemoveElement
  <2>4. Cardinality(Up') \in Nat
    BY <2>3, FS_CardinalityType
  <2>5. ~\E v \in Workers : Start(v)
    BY <2>2 DEF Start, histVars
  <2> QED
    BY <1>0, <2>2, <2>3, <2>4, <2>5 DEF Starts
<1>5. CASE Tick
  <2>1. Up' = Up /\ deaths' = deaths
    BY <1>5 DEF Tick, Up, histVars
  <2>2. ~\E v \in Workers : Start(v)
    BY <1>5 DEF Start, Tick
  <2> QED
    BY <1>0, <2>1, <2>2 DEF Starts
<1> QED
  BY <1>1, <1>2, <1>3, <1>4, <1>5 DEF Next, WorkerStep

\* Whoever has committed or failed a job leaves its runners; a claim adds one.
LEMMA CommitStep ==
  ASSUME IngestInv, AnyInv, Next
  PROVE  OneCommitPerClaim'
<1> USE DEF IngestInv, TypeOK, BusyHasSource, Holds
<1>0. \A s \in Sources : /\ IsFiniteSet(Runners(s)) /\ Cardinality(Runners(s)) \in Nat
                         /\ extracted[s] + Cardinality(Runners(s)) <= attempts[s]
  BY RunnersFinite DEF AnyInv, AtAnyTiming, OneCommitPerClaim
<1>1. CASE \E w \in Workers, s \in Sources : Claim(w, s)
  <2>1. PICK w \in Workers, s \in Sources : Claim(w, s)
    BY <1>1
  <2>2. Runners(s)' = Runners(s) \cup {w} /\ w \notin Runners(s)
    BY <2>1 DEF Claim, Runners
  <2>3. Cardinality(Runners(s)') = Cardinality(Runners(s)) + 1
    BY <1>0, <2>2, FS_AddElement
  <2>4. \A t \in Sources : t # s => Runners(t)' = Runners(t)
    BY <2>1 DEF Claim, Runners
  <2>5. /\ attempts'[s] = attempts[s] + 1
        /\ \A t \in Sources : t # s => attempts'[t] = attempts[t]
        /\ extracted' = extracted
    BY <2>1 DEF Claim
  <2> QED
    BY <1>0, <2>3, <2>4, <2>5 DEF OneCommitPerClaim
<1>2. CASE \E w \in Workers : Extract(w)
  <2>1. PICK w \in Workers : Extract(w)
    BY <1>2
  <2>0. PICK s \in Sources : s = wjob[w]
    BY <2>1 DEF Extract
  <2>2. Runners(s)' = Runners(s) \ {w} /\ w \in Runners(s)
    BY <2>0, <2>1 DEF Extract, Runners
  <2>3. Cardinality(Runners(s)') = Cardinality(Runners(s)) - 1
    BY <1>0, <2>2, FS_RemoveElement
  <2>4. \A t \in Sources : t # s => Runners(t)' = Runners(t)
    BY <2>0, <2>1 DEF Extract, Runners
  <2>5. /\ extracted'[s] = extracted[s] + 1
        /\ \A t \in Sources : t # s => extracted'[t] = extracted[t]
        /\ attempts' = attempts
    BY <2>0, <2>1 DEF Extract, jobVars
  <2> QED
    <3>1. ASSUME NEW t \in Sources, t # s
          PROVE  extracted'[t] + Cardinality(Runners(t)') <= attempts'[t]
      BY <1>0, <2>4, <2>5, <3>1
    <3>2. extracted'[s] + Cardinality(Runners(s)') <= attempts'[s]
      <4>1. /\ extracted[s] \in Nat /\ attempts[s] \in Nat /\ Cardinality(Runners(s)) \in Nat
            /\ extracted[s] + Cardinality(Runners(s)) <= attempts[s]
        BY <1>0, <2>2
      <4> QED
        BY <2>3, <2>5, <4>1
    <3> QED
      BY <3>1, <3>2 DEF OneCommitPerClaim
<1>3. CASE \E w \in Workers : Raise(w) \/ Die(w) \/ Ack(w) \/ Fail(w) \/ Start(w)
  <2>1. PICK w \in Workers : Raise(w) \/ Die(w) \/ Ack(w) \/ Fail(w) \/ Start(w)
    BY <1>3
  <2>2. extracted' = extracted /\ attempts' = attempts
    BY <2>1 DEF Raise, Die, Ack, Fail, Start, jobVars
  <2>3. \A v \in Workers : /\ v # w => wpc'[v] = wpc[v] /\ wjob'[v] = wjob[v]
                           /\ wpc'[w] # "running"
    BY <2>1 DEF Raise, Die, Ack, Fail, Start, Release
  <2>4. ASSUME NEW s \in Sources
        PROVE  Cardinality(Runners(s)') <= Cardinality(Runners(s)) /\ Cardinality(Runners(s)') \in Nat
    <3>1. Runners(s)' \subseteq Runners(s)
      BY <2>3 DEF Runners
    <3> QED
      BY <1>0, <3>1, FS_Subset, FS_CardinalityType
  <2> QED
    BY <1>0, <2>2, <2>4 DEF OneCommitPerClaim
<1>4. CASE Tick \/ \E c \in Clients : (\E s \in Sources : IngestCheck(c, s)) \/ IngestInsert(c)
                                       \/ Enqueue(c) \/ IngestDies(c)
  <2>1. wpc' = wpc /\ wjob' = wjob /\ extracted' = extracted /\ attempts' = attempts
    BY <1>4 DEF Tick, IngestCheck, IngestInsert, Enqueue, IngestDies, jobVars, workVars
  <2>2. \A s \in Sources : Runners(s)' = Runners(s)
    BY <2>1 DEF Runners
  <2> QED
    BY <1>0, <2>1, <2>2 DEF OneCommitPerClaim
<1> QED
  BY <1>1, <1>2, <1>3, <1>4 DEF Next, WorkerStep

\* An acknowledgement follows a commit, a poisoning the last attempt.
LEMMA CauseStep ==
  ASSUME IngestInv, AnyInv, Next
  PROVE  SettledForCause' /\ AckedIsMade'
<1> USE DEF IngestInv, TypeOK, BusyHasSource, Holds, AnyInv, AtAnyTiming, SettledForCause, AckedIsMade
<1>1. ASSUME NEW c \in Clients,
             (\E s \in Sources : IngestCheck(c, s)) \/ IngestInsert(c) \/ IngestDies(c)
      PROVE  SettledForCause' /\ AckedIsMade'
  BY <1>1 DEF IngestCheck, IngestInsert, IngestDies, jobVars, workVars
<1>2. ASSUME NEW c \in Clients, Enqueue(c)
      PROVE  SettledForCause' /\ AckedIsMade'
  BY <1>2 DEF Enqueue, workVars
<1>3. ASSUME NEW w \in Workers, NEW s \in Sources, Claim(w, s)
      PROVE  SettledForCause' /\ AckedIsMade'
  BY <1>3 DEF Claim
<1>4. ASSUME NEW w \in Workers, Extract(w)
      PROVE  SettledForCause' /\ AckedIsMade'
  BY <1>4 DEF Extract, jobVars
<1>5. ASSUME NEW w \in Workers, Raise(w) \/ Die(w)
      PROVE  SettledForCause' /\ AckedIsMade'
  BY <1>5 DEF Raise, MayRaise, Die, jobVars
<1>6. ASSUME NEW w \in Workers, Ack(w)
      PROVE  SettledForCause' /\ AckedIsMade'
  BY <1>6 DEF Ack, Release
<1>7. ASSUME NEW w \in Workers, Fail(w)
      PROVE  SettledForCause' /\ AckedIsMade'
  BY <1>7 DEF Fail, FailStatus, Release
<1>8. ASSUME NEW w \in Workers, Start(w)
      PROVE  SettledForCause' /\ AckedIsMade'
  BY <1>8 DEF Start
<1>9. CASE Tick
  BY <1>9 DEF Tick
<1> QED
  BY <1>1, <1>2, <1>3, <1>4, <1>5, <1>6, <1>7, <1>8, <1>9 DEF Next, WorkerStep

\* An attempt is paid for by the budget or by the start that gave the job back.
LEMMA ClaimStep ==
  ASSUME IngestInv, AnyInv, Next, TypeOK'
  PROVE  ClaimsPaid' /\ ClaimLeft'
<1>0. /\ Starts \in Nat /\ Starts' \in Nat /\ Starts <= Starts'
      /\ (\E w \in Workers : Start(w)) => Starts' = Starts + 1
  BY StartsStep DEF IngestInv, AnyInv
<1>1. ASSUME NEW w \in Workers, wpc[w] # "down"
      PROVE  Starts >= 1
  <2>1. w \in Up
    BY <1>1 DEF Up
  <2>2. Cardinality(Up) \in Nat /\ Cardinality(Up) # 0
    BY <2>1, FS_CardinalityType, FS_EmptySet DEF AnyInv
  <2> QED
    <3>1. Cardinality(Up) >= 1 /\ deaths \in Nat
      BY <2>2 DEF IngestInv, TypeOK
    <3> QED
      BY <2>2, <3>1 DEF Starts
<1> USE DEF IngestInv, TypeOK, BusyHasSource, Holds, AnyInv, AtAnyTiming, ClaimsPaid, ClaimLeft
<1> HIDE DEF Starts
<1>2. CASE \E c \in Clients : (\E s \in Sources : IngestCheck(c, s)) \/ IngestInsert(c) \/ IngestDies(c)
  BY <1>0, <1>2 DEF IngestCheck, IngestInsert, IngestDies, jobVars
<1>3. CASE \E c \in Clients : Enqueue(c)
  BY <1>0, <1>3 DEF Enqueue
<1>4. ASSUME NEW w \in Workers, NEW s \in Sources, Claim(w, s)
      PROVE  ClaimsPaid' /\ ClaimLeft'
  <2>1. Starts >= 1
    BY <1>1, <1>4 DEF Claim
  <2>2. status[s] = "queued" /\ attempts[s] + 1 < MaxAttempts + Starts
    BY <1>0, <1>4, <2>1 DEF Claim, Runnable
  <2> QED
    BY <1>0, <1>4, <2>2 DEF Claim
<1>5. CASE \E w \in Workers : Extract(w) \/ Raise(w) \/ Die(w)
  BY <1>0, <1>5 DEF Extract, Raise, Die, jobVars
<1>6. ASSUME NEW w \in Workers, Ack(w)
      PROVE  ClaimsPaid' /\ ClaimLeft'
  BY <1>0, <1>6 DEF Ack
<1>7. ASSUME NEW w \in Workers, Fail(w)
      PROVE  ClaimsPaid' /\ ClaimLeft'
  <2>1. Starts >= 1
    BY <1>1, <1>7 DEF Fail
  <2> QED
    BY <1>0, <1>7, <2>1 DEF Fail, FailStatus
<1>8. ASSUME NEW w \in Workers, Start(w)
      PROVE  ClaimsPaid' /\ ClaimLeft'
  <2>1. Starts' = Starts + 1
    BY <1>0, <1>8
  <2>2. status' = [s \in Sources |-> IF Stale(s) THEN "queued" ELSE status[s]] /\ attempts' = attempts
    BY <1>8 DEF Start
  <2> QED
    BY <1>0, <2>1, <2>2 DEF Stale
<1>9. CASE Tick
  BY <1>0, <1>9 DEF Tick
<1> QED
  BY <1>2, <1>3, <1>4, <1>5, <1>6, <1>7, <1>8, <1>9 DEF Next, WorkerStep

\* The three together are inductive.
LEMMA AnyInvStep == IngestInv /\ IngestInv' /\ AnyInv /\ [Next]_vars => AnyInv'
<1> SUFFICES ASSUME IngestInv, IngestInv', AnyInv, [Next]_vars
             PROVE  AnyInv'
  OBVIOUS
<1>1. CASE Next
  <2>1. TypeOK /\ TypeOK'
    BY DEF IngestInv
  <2>2. IsFiniteSet(Up')
    BY <1>1, <2>1, StartsStep DEF AnyInv
  <2> QED
    BY <1>1, <2>1, <2>2, CommitStep, CauseStep, ClaimStep DEF AnyInv, AtAnyTiming
<1>2. CASE UNCHANGED vars
  BY <1>2 DEF vars, AnyInv, AtAnyTiming, SettledForCause, OneCommitPerClaim, ClaimsPaid, ClaimLeft,
              AckedIsMade, Starts, Up, Runners
<1> QED
  BY <1>1, <1>2

\* However long attempts take and whatever is reclaimed under a running worker: a job
\* is done only with a commit, poisoned only out of attempts, each claim commits once at
\* most, and claims are bounded by the attempts allowed and the processes started.
THEOREM WhateverTheTiming == Spec => []AtAnyTiming
<1>1. AnyInv => AtAnyTiming
  BY DEF AnyInv
<1>2. Init => AnyInv
  BY AnyInvInit
<1>3. IngestInv /\ IngestInv' /\ AnyInv /\ [Next]_vars => AnyInv'
  BY AnyInvStep
<1> QED
  BY <1>1, <1>2, <1>3, IngestCorrect, PTL DEF Spec
=============================================================================
