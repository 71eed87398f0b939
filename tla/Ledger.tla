------------------------------- MODULE Ledger -------------------------------
(***************************************************************************)
(* The context ledger: what becomes of an extracted statement once it is   *)
(* persisted.  process_extraction_job (app/pipeline/process.py) creates a  *)
(* context object per accepted item, compares it with the active objects   *)
(* on the same subject (dedup.py, lifecycle.py), and links it to the other *)
(* stages' objects (lineage.py); reviewers confirm, ignore, retire and     *)
(* edit objects (api/context.py) and resolve conflicts (api/conflicts.py). *)
(*                                                                         *)
(* Each action is one whole handler, alone: transactions that overlap are  *)
(* the subject of LedgerRaces.  The items of one job are processed one     *)
(* after the other, so a job is a run of Process steps.                    *)
(*                                                                         *)
(* An item carries what the rules read: subject (entity and subject_key),  *)
(* type, stage, role, speculative, ts (the source's time), author (the     *)
(* people.id or None), corrects, conf (in percent), newcap (its capability *)
(* is outside the vocabulary) and attrs (its slots).                       *)
(***************************************************************************)
EXTENDS Slots, FiniteSets

CONSTANTS
    Objects,      \* ids of context objects
    Items,        \* the items an extraction may return
    Patches,      \* the attributes an edit may send: functions from slots to values
    Now,          \* the present, later than every source's time
    MaxVersion,   \* bound: versions of one object that human action may reach
    MaxReviews    \* bound: calls of review_context_object

CONTEXT_STATUSES == {"candidate", "active", "conflicting", "superseded", "stale", "ignored"}

ASSUME LedgerAssumption ==
    /\ None \notin Objects \cup CONTEXT_STATUSES \cup Nat
    /\ None \notin Items
    /\ IsFiniteSet(Objects)
    /\ MaxVersion \in Nat
    /\ MaxReviews \in Nat
    /\ Now \in Nat
    /\ \A i \in Items : i.ts \in Nat /\ i.ts < Now

VARIABLES
    item,       \* item[o]: the item o was extracted from, None when o does not exist
    attrs,      \* attrs[o]: its slots, which an edit changes
    status,
    validTo,
    version,
    confirmed,  \* the objects with confirmed_by set
    history,    \* rows of context_versions
    rels,       \* rows of context_relations
    reviews     \* rows of reviews

vars == <<item, attrs, status, validTo, version, confirmed, history, rels, reviews>>

Exists(o) == item[o] # None
Created == {o \in Objects : Exists(o)}

-----------------------------------------------------------------------------
(***************************************************************************)
(* What the pipeline computes from an item.                                *)
(***************************************************************************)

\* assign_authority
Authority(i) ==
    CASE i.role = "customer" -> 4
      [] i.role = "product" /\ i.type = "decision" -> 4
      [] i.role = "leadership" /\ i.type \in {"decision", "commitment"} -> 4
      [] OTHER ->
           IF i.speculative THEN 1
           ELSE CASE i.role = "sales" -> IF i.type = "commitment" THEN 3 ELSE 2
                  [] i.role \in {"product", "engineering", "leadership"} -> 3
                  [] i.role = "other" /\ i.stage # None -> 3
                  [] OTHER -> 0

\* Mutant: a status the table's CHECK constraint does not know.
InitialStatusReview(i) == IF i.conf < 60 \/ i.newcap THEN "needs_review" ELSE "active"

\* _determine_status
InitialStatus(i) == IF i.conf < 60 \/ i.newcap THEN "candidate" ELSE "active"

SameAuthor(i, j) == i.author # None /\ i.author = j.author

ExplicitCorrection(i) == i.corrects /\ i.conf >= 70

SameSubject(i, j) == i.subject = j.subject

\* find_subject_siblings: what a new object made from item i is compared with.
Siblings(i) ==
    {o \in Created : /\ status[o] = "active"
                     /\ SameSubject(item[o], i)
                     /\ item[o].type = i.type}

\* Mutant: only another stage's object is taken to contradict.
ClashingAcrossStages(i) ==
    {o \in Siblings(i) : i.stage # item[o].stage /\ ~SlotsCompatible(i.attrs, attrs[o])}

\* Siblings whose slots contradict the new object's.
Clashing(i) == {o \in Siblings(i) : ~SlotsCompatible(i.attrs, attrs[o])}

\* Mutant: a contradicting sibling is compared as a duplicate too.
AgreeingAll(i) == Siblings(i)

\* Siblings that go to dedup instead.
Agreeing(i) == Siblings(i) \ Clashing(i)

StageDisagreement(i, o) ==
    /\ i.stage # item[o].stage
    /\ StancesConflict(i.attrs.stance, attrs[o].stance)

\* apply_lifecycle_rules: R1 and R2 come before R3, R4 takes the rest.
Supersedes(i, o) ==
    /\ ~StageDisagreement(i, o)
    /\ Authority(i) >= Authority(item[o])
    /\ i.ts > item[o].ts
    /\ SameAuthor(i, item[o]) \/ ExplicitCorrection(i)

ToSupersede(i) == {o \in Clashing(i) : Supersedes(i, o)}
ToConflict(i) == Clashing(i) \ ToSupersede(i)

Rel(from, to, kind, by, open) ==
    [from |-> from, to |-> to, kind |-> kind, by |-> by, open |-> open]

\* Mutant: one relation stands for all the conflicts a new object causes.
ConflictRelsOne(n, os) ==
    IF os = {} THEN {} ELSE {Rel(n, CHOOSE o \in os : TRUE, "contradicts", "lifecycle", TRUE)}

ConflictRels(n, os) == {Rel(n, o, "contradicts", "lifecycle", TRUE) : o \in os}

\* Mutant: the relation points the wrong way.
R3RelsReversed(n, os) == {Rel(o, n, "supersedes", "R3", FALSE) : o \in os}

R3Rels(n, os) == {Rel(n, o, "supersedes", "R3", FALSE) : o \in os}

\* The winner of a resolution, if any, supersedes the loser.
WinnerRels(keep, lose) ==
    UNION {{Rel(w, o, "supersedes", "human", FALSE) : o \in lose} : w \in keep}

\* Mutant: the older statement is canonical.
NewIsCanonicalNever(i, o) == FALSE

NewIsCanonical(i, o) == Authority(i) >= Authority(item[o])

\* apply_dedup on one compatible sibling at cosine similarity class sim: "auto"
\* (>= 0.92), "review" (>= 0.80) or "low".  The canonical object's authority
\* becomes the maximum of the two, which it already has (LedgerProofs).
Canonical(n, i, o) == IF NewIsCanonical(i, o) THEN n ELSE o
Duplicate(n, i, o) == IF NewIsCanonical(i, o) THEN o ELSE n

DedupRels(n, i, o, sim) ==
    CASE sim = "auto" ->
           {Rel(Duplicate(n, i, o), Canonical(n, i, o), "duplicate_of", "dedup", FALSE),
            Rel(Canonical(n, i, o), Duplicate(n, i, o), "supported_by", "dedup", FALSE)}
      [] sim = "review" -> {Rel(n, o, "duplicate_of", "dedup", TRUE)}
      [] OTHER -> {}

\* What apply_dedup adds over all the siblings that agree, for each way their
\* similarities can fall.
Merges(n, i) ==
    {UNION {DedupRels(n, i, o, sim[o]) : o \in Agreeing(i)} :
       sim \in [Agreeing(i) -> {"auto", "review", "low"}]}

UPSTREAM_TO_DOWNSTREAM ==
    { <<"sales", "product">>, <<"product", "engineering">>, <<"sales", "customer_success">>,
      <<"engineering", "sales">>, <<"engineering", "customer_success">> }

\* The downstream statement d was made later than the upstream statement u.
Descends(d, u) ==
    /\ SameSubject(d, u)
    /\ <<u.stage, d.stage>> \in UPSTREAM_TO_DOWNSTREAM
    /\ u.ts < d.ts

\* Mutant: a new object is linked to what it descends from, and not the reverse.
LineageRelsUp(n, i) ==
    {Rel(n, u, "derived_from", "lineage", FALSE) : u \in {o \in Created : Descends(i, item[o])}}

\* create_lineage_links, both ways: the new object may be either end.
LineageRels(n, i) ==
    {Rel(n, u, "derived_from", "lineage", FALSE) : u \in {o \in Created : Descends(i, item[o])}}
    \cup
    {Rel(d, n, "derived_from", "lineage", FALSE) : d \in {o \in Created : Descends(item[o], i)}}

Row(o, ver, st, who) == [obj |-> o, version |-> ver, status |-> st, by |-> who]

\* Mutant: the row is written before the version is bumped.
NextRowEarly(o, st, who) == Row(o, version[o], st, who)

\* The row of an object's next version.
NextRow(o, st, who) == Row(o, version[o] + 1, st, who)

-----------------------------------------------------------------------------
Init ==
    /\ item = [o \in Objects |-> None]
    /\ attrs = [o \in Objects |-> None]
    /\ status = [o \in Objects |-> None]
    /\ validTo = [o \in Objects |-> None]
    /\ version = [o \in Objects |-> 0]
    /\ confirmed = {}
    /\ history = {}
    /\ rels = {}
    /\ reviews = {}

\* One iteration of process_extraction_job's loop: item i becomes object n.
Process(n, i) ==
    /\ ~Exists(n)
    /\ item' = [item EXCEPT ![n] = i]
    /\ attrs' = [attrs EXCEPT ![n] = i.attrs]
    /\ LET conflict == ToConflict(i)
           replaced == ToSupersede(i)
           newStatus == IF conflict # {} THEN "conflicting" ELSE InitialStatus(i)
       IN
         /\ status' = [o \in Objects |->
                         CASE o = n -> newStatus
                           [] o \in conflict -> "conflicting"
                           [] o \in replaced -> "superseded"
                           [] OTHER -> status[o]]
         /\ version' = [o \in Objects |->
                         CASE o = n -> 1
                           [] o \in conflict \cup replaced -> version[o] + 1
                           [] OTHER -> version[o]]
         /\ validTo' = [o \in Objects |-> IF o \in replaced THEN i.ts ELSE validTo[o]]
         /\ history' = history \cup {Row(n, 1, newStatus, "system")}
                         \cup {NextRow(o, "conflicting", "system") : o \in conflict}
                         \cup {NextRow(o, "superseded", "system") : o \in replaced}
         /\ \E merged \in Merges(n, i) :
              rels' = rels \cup ConflictRels(n, conflict) \cup R3Rels(n, replaced)
                           \cup merged \cup LineageRels(n, i)
    /\ UNCHANGED <<confirmed, reviews>>

\* The tail of review_context_object: the version is bumped whatever the action
\* was, with a context_versions row and a reviews row.
Reviewed(o, action, newStatus) ==
    /\ status' = [status EXCEPT ![o] = newStatus]
    /\ version' = [version EXCEPT ![o] = @ + 1]
    /\ history' = history \cup {NextRow(o, newStatus, "human")}
    /\ reviews' = reviews \cup {[target |-> o, action |-> action]}
    /\ UNCHANGED <<item, validTo, rels>>

Reviewable(o) ==
    /\ Exists(o)
    /\ version[o] < MaxVersion
    /\ Cardinality({r \in history : r.by = "human"}) < MaxReviews

Confirm(o) ==
    /\ Reviewable(o)
    /\ Reviewed(o, "confirm", "active")
    /\ confirmed' = confirmed \cup {o}
    /\ UNCHANGED attrs

Ignore(o) ==
    /\ Reviewable(o)
    /\ Reviewed(o, "ignore", "ignored")
    /\ UNCHANGED <<confirmed, attrs>>

MarkStale(o) ==
    /\ Reviewable(o)
    /\ Reviewed(o, "mark_stale", "stale")
    /\ UNCHANGED <<confirmed, attrs>>

Edit(o, patch) ==
    /\ Reviewable(o)
    /\ Reviewed(o, "edit", status[o])
    /\ attrs' = [attrs EXCEPT ![o] =
                   [k \in DOMAIN @ |-> IF k \in DOMAIN patch THEN patch[k] ELSE @[k]]]
    /\ UNCHANGED confirmed

\* resolve_conflict (R5).  keep is the set of the relation's ends that win: one
\* of them, or none (both_superseded).  _transition skips an object that already
\* has the status it is given.
Resolve(r, keep) ==
    /\ r \in rels
    /\ r.kind \in {"contradicts", "duplicate_of"}
    /\ r.open
    /\ \A o \in {r.from, r.to} : version[o] < MaxVersion
    /\ LET lose == {r.from, r.to} \ keep
           verdict == [o \in keep \cup lose |-> IF o \in keep THEN "active" ELSE "superseded"]
           moved == {o \in keep \cup lose : status[o] # verdict[o]}
       IN
         /\ status' = [o \in Objects |-> IF o \in moved THEN verdict[o] ELSE status[o]]
         /\ version' = [o \in Objects |-> IF o \in moved THEN version[o] + 1 ELSE version[o]]
         /\ history' = history \cup {NextRow(o, verdict[o], "system") : o \in moved}
         /\ validTo' = [o \in Objects |-> IF o \in lose THEN Now ELSE validTo[o]]
         /\ rels' = (rels \ {r}) \cup {[r EXCEPT !.open = FALSE]}
                      \cup WinnerRels(keep, lose)
    /\ reviews' = reviews \cup {[target |-> r, action |-> "resolve_conflict"]}
    /\ UNCHANGED <<item, attrs, confirmed>>

Verdicts(r) == {{r.from}, {r.to}, {}}

Pipeline == \E n \in Objects, i \in Items : Process(n, i)

Human ==
    \/ \E o \in Objects :
         \/ Confirm(o)
         \/ Ignore(o)
         \/ MarkStale(o)
         \/ \E patch \in Patches : Edit(o, patch)
    \/ \E r \in rels : \E keep \in Verdicts(r) : Resolve(r, keep)

Next == Pipeline \/ Human

Spec == Init /\ [][Next]_vars

\* The ledger as the workers alone leave it, before anyone reviews it.
PipelineSpec == Init /\ [][Pipeline]_vars

-----------------------------------------------------------------------------
(***************************************************************************)
(* Properties.                                                             *)
(***************************************************************************)

Kinds == {"contradicts", "duplicate_of", "supersedes", "supported_by", "derived_from"}

TypeOK ==
    /\ item \in [Objects -> Items \cup {None}]
    /\ DOMAIN attrs = Objects
    /\ status \in [Objects -> CONTEXT_STATUSES \cup {None}]
    /\ validTo \in [Objects -> Nat \cup {None}]
    /\ version \in [Objects -> Nat]
    /\ confirmed \subseteq Created
    /\ history \subseteq [obj : Created, version : Nat, status : CONTEXT_STATUSES,
                          by : {"system", "human"}]
    /\ rels \subseteq [from : Created, to : Created, kind : Kinds,
                       by : {"lifecycle", "R3", "dedup", "lineage", "human"}, open : BOOLEAN]
    /\ \A o \in Objects : Exists(o) <=> status[o] # None

\* Every conflicting object is an end of an unresolved contradicts relation, so
\* GET /conflicts lists it and a human can settle it: no order of statements,
\* reviews and resolutions strands an object in "conflicting", however many
\* conflicts it is party to.
ConflictIsListed ==
    \A o \in Objects : status[o] = "conflicting" =>
        \E r \in rels : r.kind = "contradicts" /\ r.open /\ o \in {r.from, r.to}

\* context_versions is the complete history: exactly one row for each version from
\* 1 to the present, the last with the status the object has, although the worker
\* changes a new object's status in place, its siblings' through _transition, and
\* the review endpoint and the resolution endpoint by code of their own.
HistoryIsFaithful ==
    \A o \in Created :
        /\ \A r \in history : r.obj = o => r.version \in 1..version[o]
        /\ \A v \in 1..version[o] : \E r \in history : r.obj = o /\ r.version = v
        /\ \A r, q \in history : r.obj = o /\ q.obj = o /\ r.version = q.version => r = q
        /\ \A r \in history : r.obj = o /\ r.version = version[o] => r.status = status[o]

\* Lineage does not depend on the order of processing: whichever of the two came
\* first, and whatever became of their status since, a downstream statement is
\* linked to exactly the upstream statements on its subject made before it.
LineageIsExact ==
    \A d, u \in Created :
        Descends(item[d], item[u]) <=> Rel(d, u, "derived_from", "lineage", FALSE) \in rels

\* A pair of objects is one question for a reviewer, not two: no pair is at once
\* an open conflict and an open duplicate, nor either of them twice.
OneOpenQuestion ==
    \A r, q \in rels : r.open /\ q.open /\ {r.from, r.to} = {q.from, q.to} => r = q

\* A superseded object says since when, and by what: a supersedes relation to it,
\* or a resolution of one of its relations that rejected both ends.
SupersededIsExplained ==
    \A o \in Created : status[o] = "superseded" =>
        /\ validTo[o] # None
        /\ \E r \in rels :
             \/ r.kind = "supersedes" /\ r.to = o
             \/ /\ o \in {r.from, r.to}
                /\ [target |-> [r EXCEPT !.open = TRUE], action |-> "resolve_conflict"] \in reviews

\* The canonical object of an automatic duplicate pair is the one of higher
\* authority, whichever was processed first.
SupportOutranked ==
    \A r \in rels : r.kind = "supported_by" =>
        /\ Authority(item[r.from]) >= Authority(item[r.to])
        /\ Rel(r.to, r.from, "duplicate_of", "dedup", FALSE) \in rels

\* Two active objects on one subject never contradict each other.
NoSilentContradiction ==
    \A o, p \in Created :
        /\ o # p
        /\ status[o] = "active" /\ status[p] = "active"
        /\ SameSubject(item[o], item[p]) /\ item[o].type = item[p].type
        => SlotsCompatible(attrs[o], attrs[p])

-----------------------------------------------------------------------------
(***************************************************************************)
(* What the documents say and the code does not do (violation runs).       *)
(***************************************************************************)

\* docs/SPEC.md 7.3, SCIM example: when three stages take incompatible stances on
\* one subject, each cross-stage conflict is flagged.
EveryStageDisagreementFlagged ==
    \A o, p \in Created :
        /\ SameSubject(item[o], item[p]) /\ item[o].type = item[p].type
        /\ item[o].stage # item[p].stage
        /\ StancesConflict(attrs[o].stance, attrs[p].stance)
        => \E r \in rels : r.kind = "contradicts" /\ {r.from, r.to} = {o, p}
=============================================================================
