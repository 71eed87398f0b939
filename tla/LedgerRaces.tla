----------------------------- MODULE LedgerRaces -----------------------------
(***************************************************************************)
(* The ledger of module Ledger under overlapping transactions.  Workers    *)
(* and API requests each have a SQLAlchemy session of their own            *)
(* (app/core/db.py), at Postgres' READ COMMITTED, and take no lock when    *)
(* they read: a handler decides from what it has loaded, and its commit    *)
(* writes the columns it changed, by primary key, whatever has been        *)
(* committed in between.  A version is the one it read plus one.           *)
(*                                                                         *)
(* A transaction begins with a read and a decision (txn[a] is the set of   *)
(* writes) and ends with the Commit that applies them.  A job goes through *)
(* its items in one transaction: BeginProcess takes the first and          *)
(* ProcessNext each further one, decided on what is committed by then,     *)
(* while the decisions on the earlier ones stand.  What is read for one    *)
(* item in several statements is read here at one instant.                 *)
(***************************************************************************)
EXTENDS Ledger

CONSTANTS
    Workers,      \* worker processes
    Requests,     \* concurrent API requests
    MaxInFlight   \* how many transactions may overlap

ASSUME RacesAssumption ==
    /\ Workers \cap Requests = {}
    /\ MaxInFlight \in Nat

VARIABLES
    txn,          \* txn[a]: what a is about to commit, None when a is idle
    disturbed     \* history: transactions during which another one committed

raceVars == <<vars, txn, disturbed>>

Actors == Workers \cup Requests
InFlight == {a \in Actors : txn[a] # None}

Empty == [o \in {} |-> None]

\* A write set: column assignments by object, and rows.
NoWrites == [item |-> Empty, attrs |-> Empty, status |-> Empty, validTo |-> Empty,
             version |-> Empty, confirmed |-> {}, rows |-> {}, insert |-> {},
             close |-> {}, reviews |-> {}]

\* f with the assignments g, whose domain may be partial.
Assign(f, g) == [o \in DOMAIN f |-> IF o \in DOMAIN g THEN g[o] ELSE f[o]]

\* The unit of work writes a column whose value is not the one it loaded.
Dirty(old, new) == [o \in {p \in DOMAIN new : old[p] # new[p]} |-> new[o]]

\* Both assignments, g over f.
Over(f, g) == [o \in DOMAIN f \cup DOMAIN g |-> IF o \in DOMAIN g THEN g[o] ELSE f[o]]

\* What one transaction writes that has decided on v and then on w.
Together(v, w) ==
    [item |-> Over(v.item, w.item), attrs |-> Over(v.attrs, w.attrs),
     status |-> Over(v.status, w.status), validTo |-> Over(v.validTo, w.validTo),
     version |-> Over(v.version, w.version), confirmed |-> v.confirmed \cup w.confirmed,
     rows |-> v.rows \cup w.rows, insert |-> v.insert \cup w.insert,
     close |-> v.close \cup w.close, reviews |-> v.reviews \cup w.reviews]

RacesInit == Init /\ txn = [a \in Actors |-> None] /\ disturbed = {}

-----------------------------------------------------------------------------
Begin(a, writes) ==
    /\ txn[a] = None
    /\ Cardinality(InFlight) < MaxInFlight
    /\ txn' = [txn EXCEPT ![a] = writes]
    /\ UNCHANGED <<vars, disturbed>>

\* An id no transaction has taken yet (uuid4).
Fresh(n) == ~Exists(n) /\ \A a \in InFlight : n \notin DOMAIN txn[a].item

\* What process_extraction_job writes of item i, its similarities having given merged.
ProcessWrites(n, i, merged) ==
    LET conflict == ToConflict(i)
        replaced == ToSupersede(i)
        moved == conflict \cup replaced
        newStatus == IF conflict # {} THEN "conflicting" ELSE InitialStatus(i)
        St == [o \in moved |-> IF o \in conflict THEN "conflicting" ELSE "superseded"]
    IN
      [NoWrites EXCEPT
         !.item = [o \in {n} |-> i],
         !.attrs = [o \in {n} |-> i.attrs],
         !.status = [o \in moved \cup {n} |-> IF o = n THEN newStatus ELSE St[o]],
         !.version = [o \in moved \cup {n} |-> IF o = n THEN 1 ELSE version[o] + 1],
         !.validTo = Dirty(validTo, [o \in replaced |-> i.ts]),
         !.rows = {Row(n, 1, newStatus, "system")}
                    \cup {NextRow(o, St[o], "system") : o \in moved},
         !.insert = ConflictRels(n, conflict) \cup R3Rels(n, replaced)
                      \cup merged \cup LineageRels(n, i)]

\* The first item of a job.
BeginProcess(w, n, i) ==
    /\ Fresh(n)
    /\ \E merged \in Merges(n, i) : Begin(w, ProcessWrites(n, i, merged))

\* Bound: the items of one job are on different subjects, so that none is a sibling or
\* a line of another (items on one subject, one after the other, are Ledger's steps).
NewSubject(v, i) == \A m \in DOMAIN v.item : ~SameSubject(v.item[m], i)

\* The next item of the same job, in the same transaction.  From here on the rows that
\* the items before it changed are flushed, and another commit of theirs waits for this
\* one; here it may still come first, as it may before the flush.
ProcessNext(w, n, i) ==
    /\ txn[w] # None
    /\ Fresh(n)
    /\ NewSubject(txn[w], i)
    /\ \E merged \in Merges(n, i) :
         txn' = [txn EXCEPT ![w] = Together(@, ProcessWrites(n, i, merged))]
    /\ UNCHANGED <<vars, disturbed>>

\* review_context_object: a confirm, ignore or mark_stale assigns the status, an
\* edit assigns the attributes.
NewStatus == [confirm |-> "active", ignore |-> "ignored", mark_stale |-> "stale"]

\* Mutant: only a change of status is recorded in context_versions.
ReviewWritesUnrecorded(o, action, newStatus) ==
    [NoWrites EXCEPT
       !.version = [p \in {o} |-> version[o] + 1],
       !.rows = IF newStatus = status[o] THEN {} ELSE {NextRow(o, newStatus, "human")},
       !.reviews = {[target |-> o, action |-> action]}]

ReviewWrites(o, action, newStatus) ==
    [NoWrites EXCEPT
       !.version = [p \in {o} |-> version[o] + 1],
       !.rows = {NextRow(o, newStatus, "human")},
       !.reviews = {[target |-> o, action |-> action]}]

StatusWrites(o, action) ==
    [ReviewWrites(o, action, NewStatus[action]) EXCEPT
       !.status = Dirty(status, [p \in {o} |-> NewStatus[action]]),
       !.confirmed = IF action = "confirm" THEN {o} ELSE {}]

EditWrites(o, patch) ==
    [ReviewWrites(o, "edit", status[o]) EXCEPT
       !.attrs = Dirty(attrs, [p \in {o} |-> Assign(attrs[o], patch)])]

BeginReview(q, o, action) ==
    /\ Reviewable(o)
    /\ action \in DOMAIN NewStatus
    /\ Begin(q, StatusWrites(o, action))

BeginEdit(q, o, patch) ==
    /\ Reviewable(o)
    /\ Begin(q, EditWrites(o, patch))

\* What resolve_conflict writes.  _transition leaves an end alone that has its verdict
\* already; a loser's valid_to is the time of the call, and so always new.
ResolveWrites(r, keep) ==
    LET lose == {r.from, r.to} \ keep
        verdict == [o \in keep \cup lose |-> IF o \in keep THEN "active" ELSE "superseded"]
        moved == {o \in keep \cup lose : status[o] # verdict[o]}
    IN
      [NoWrites EXCEPT
         !.status = [o \in moved |-> verdict[o]],
         !.version = [o \in moved |-> version[o] + 1],
         !.validTo = [o \in lose |-> Now],
         !.rows = {NextRow(o, verdict[o], "system") : o \in moved},
         !.insert = WinnerRels(keep, lose),
         !.close = {r},
         !.reviews = {[target |-> r, action |-> "resolve_conflict"]}]

\* The guards are evaluated on the relation as it was read.
Resolvable(r) ==
    /\ r \in rels
    /\ r.kind \in {"contradicts", "duplicate_of"}
    /\ r.open
    /\ \A o \in {r.from, r.to} : version[o] < MaxVersion

BeginResolve(q, r, keep) == Resolvable(r) /\ Begin(q, ResolveWrites(r, keep))

Commit(a) ==
    /\ txn[a] # None
    /\ LET w == txn[a] IN
         /\ item' = Assign(item, w.item)
         /\ attrs' = Assign(attrs, w.attrs)
         /\ status' = Assign(status, w.status)
         /\ validTo' = Assign(validTo, w.validTo)
         /\ version' = Assign(version, w.version)
         /\ confirmed' = confirmed \cup w.confirmed
         /\ history' = history \cup w.rows
         /\ rels' = (rels \ w.close) \cup {[r EXCEPT !.open = FALSE] : r \in w.close}
                      \cup w.insert
         /\ reviews' = reviews \cup w.reviews
    /\ txn' = [txn EXCEPT ![a] = None]
    /\ disturbed' = (disturbed \cup InFlight) \ {a}

\* The session is closed without a commit (an exception, a lost connection).
Rollback(a) ==
    /\ txn[a] # None
    /\ txn' = [txn EXCEPT ![a] = None]
    /\ disturbed' = disturbed \ {a}
    /\ UNCHANGED vars

RacesNext ==
    \/ \E w \in Workers, n \in Objects, i \in Items : BeginProcess(w, n, i) \/ ProcessNext(w, n, i)
    \/ \E q \in Requests :
         \/ \E o \in Objects : \/ \E action \in DOMAIN NewStatus : BeginReview(q, o, action)
                               \/ \E patch \in Patches : BeginEdit(q, o, patch)
         \/ \E r \in rels : \E keep \in Verdicts(r) : BeginResolve(q, r, keep)
    \/ \E a \in Actors : Commit(a) \/ Rollback(a)

RacesSpec == RacesInit /\ [][RacesNext]_raceVars

-----------------------------------------------------------------------------
(***************************************************************************)
(* Properties.                                                             *)
(***************************************************************************)

Single(w) == \A m, n \in DOMAIN w.item : m = n

\* A transaction during which no other one committed, and which creates one object at
\* most, is a step of module Ledger: only what is committed between a handler's reads
\* and its commit, or what a job does between the two, can come between the modules,
\* and what Ledger's properties say of its steps holds of these too.
UndisturbedIsSerial ==
    [][(\E a \in InFlight \ disturbed : Single(txn[a]) /\ txn'[a] = None) => Next]_vars

\* Every link is one: its downstream end was made later, on the same subject, and in a
\* stage that follows, so a walk up the lineage goes back in time and comes to an end,
\* whatever a worker did not see of another's job.
LineageIsSound ==
    \A r \in rels : r.kind = "derived_from" => Descends(item[r.from], item[r.to])

\* o and p are linked exactly if one descends from the other.
LinkedExactly(it, rs, o, p) ==
    /\ Descends(it[o], it[p]) <=> Rel(o, p, "derived_from", "lineage", FALSE) \in rs
    /\ Descends(it[p], it[o]) <=> Rel(p, o, "derived_from", "lineage", FALSE) \in rs

\* An object that comes from a transaction nothing disturbed, a job of several items
\* included, is linked exactly, with the objects of disturbed transactions too: a
\* missing link is one of two objects of which the later was decided on before the
\* other was committed.
UndisturbedIsLinked ==
    [][(\E a \in InFlight \ disturbed : txn'[a] = None) =>
         \A n \in Created' \ Created, o \in Created' : LinkedExactly(item', rels', n, o)]_raceVars

\* Two conflicting decisions of humans, both accepted: a relation is resolved at
\* most once.  conflicts.py: "relation already resolved".
ResolvedOnce ==
    [][\A q \in Requests :
         txn[q] # None /\ txn'[q] = None /\ vars' # vars => txn[q].close \subseteq rels]_raceVars
=============================================================================
