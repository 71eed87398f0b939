------------------------------ MODULE WorkQueue ------------------------------
(***************************************************************************)
(* What ingestion, the queue and its workers promise of a source, whatever *)
(* processes there are and however they fail (app/queue/base.py, the       *)
(* JobQueue protocol): a source is stored before it is offered, worked on  *)
(* by one worker at a time and acknowledged only with its objects          *)
(* committed, until it is taken from a worker that is not gone but slow:   *)
(* from then on it is contended, and no more is promised of it than that   *)
(* its commits are kept.  JobQueue is shown to implement it.               *)
(***************************************************************************)
EXTENDS Naturals

CONSTANT Sources

VARIABLES
    phase,      \* phase[s]: where a source is on its way
    commits     \* commits[s]: how often its objects have been committed

vars == <<phase, commits>>

Phases == {"absent", "stored", "queued", "held", "committed", "orphaned", "done", "poison",
           "contended"}

Init ==
    /\ phase = [s \in Sources |-> "absent"]
    /\ commits = [s \in Sources |-> 0]

Move(s, from, to) ==
    /\ phase[s] \in from
    /\ phase' = [phase EXCEPT ![s] = to]

Store(s) == Move(s, {"absent"}, "stored") /\ UNCHANGED commits
Offer(s) == Move(s, {"stored"}, "queued") /\ UNCHANGED commits
Take(s) == Move(s, {"queued"}, "held") /\ UNCHANGED commits

Commit(s) ==
    /\ Move(s, {"held"}, "committed")
    /\ commits' = [commits EXCEPT ![s] = @ + 1]

Acknowledge(s) == Move(s, {"committed"}, "done") /\ UNCHANGED commits

\* An attempt that failed is followed by another, or is the last.
GiveBack(s) ==
    /\ \/ Move(s, {"held"}, "queued")
       \/ Move(s, {"held"}, "poison")
    /\ UNCHANGED commits

\* The worker is gone, with or without having committed.
Orphan(s) == Move(s, {"held", "committed"}, "orphaned") /\ UNCHANGED commits

\* A worker that starts takes up jobs nobody holds, and may take one from a worker
\* that is still at it.
Reclaim(orphans, late) ==
    /\ \A s \in orphans : phase[s] = "orphaned"
    /\ \A s \in late : phase[s] \in {"held", "committed"}
    /\ phase' = [s \in Sources |-> IF s \in orphans THEN "queued"
                                   ELSE IF s \in late THEN "contended" ELSE phase[s]]
    /\ UNCHANGED commits

\* One of the workers that contend for a job commits it, perhaps once more.
CommitAgain(s) == Move(s, {"contended"}, "contended") /\ commits' = [commits EXCEPT ![s] = @ + 1]

Next ==
    \/ \E s \in Sources : \/ Store(s) \/ Offer(s) \/ Take(s)
                          \/ Commit(s) \/ Acknowledge(s)
                          \/ GiveBack(s) \/ Orphan(s) \/ CommitAgain(s)
    \/ \E orphans, late \in SUBSET Sources : Reclaim(orphans, late)

Spec == Init /\ [][Next]_vars
=============================================================================
