-------------------------- MODULE LedgerRacesProofs --------------------------
(***************************************************************************)
(* Proofs about module LedgerRaces, for any number of workers, requests    *)
(* and overlapping transactions, any statements and histories of any       *)
(* length.                                                                 *)
(*                                                                         *)
(* The inductive invariant says, beside the types, what is known of a      *)
(* transaction's writes when they were decided and stays true of them      *)
(* whatever is committed before they are (Lawful), that the ids it takes   *)
(* are its own (Unclaimed), and that no transaction in flight is about to  *)
(* close a conflict without moving the objects it leaves conflicting       *)
(* (Settleable).                                                           *)
(***************************************************************************)
EXTENDS LedgerRaces, LedgerProofs

USE LedgerAssumption, RacesAssumption

-----------------------------------------------------------------------------
(* What a transaction writes. *)

\* A write set that a handler can decide upon in the present state: the body of a
\* Begin action.
Decided(w) ==
    \/ \E n \in Objects, i \in Items :
         ~Exists(n) /\ \E merged \in Merges(n, i) : w = ProcessWrites(n, i, merged)
    \/ \E o \in Objects :
         /\ Reviewable(o)
         /\ \/ \E action \in DOMAIN NewStatus : w = StatusWrites(o, action)
            \/ \E patch \in Patches : w = EditWrites(o, patch)
    \/ \E r \in rels : \E keep \in Verdicts(r) : Resolvable(r) /\ w = ResolveWrites(r, keep)

\* The objects that exist once w is written, S being those that did.
Ends(w, S) == S \cup DOMAIN w.item

Typed(w, S) ==
    /\ DOMAIN w.item \subseteq Objects
    /\ \A o \in DOMAIN w.item : w.item[o] \in Items
    /\ DOMAIN w.item \subseteq DOMAIN w.status
    /\ \A o \in DOMAIN w.status : w.status[o] \in CONTEXT_STATUSES /\ o \in Ends(w, S)
    /\ \A o \in DOMAIN w.version : w.version[o] \in Nat
    /\ \A o \in DOMAIN w.validTo : w.validTo[o] \in Nat
    /\ w.confirmed \subseteq Ends(w, S)
    /\ w.rows \subseteq RowType(Ends(w, S))
    /\ w.insert \subseteq RelType(Ends(w, S))
    /\ w.close \subseteq RelType(S)
    /\ \A r \in w.close : r.open /\ r.kind # "supported_by"

\* A change of status comes with the relation that is its reason.
Reasons(w) ==
    /\ \A o \in DOMAIN w.status : w.status[o] = "conflicting" =>
         \E r \in w.insert : /\ r.kind = "contradicts" /\ r.open /\ o \in {r.from, r.to}
                             /\ r.from \in DOMAIN w.item
    /\ \A o \in DOMAIN w.status : w.status[o] = "superseded" =>
         \/ \E r \in w.insert : r.kind = "supersedes" /\ r.to = o
         \/ \E r \in w.close : /\ o \in {r.from, r.to}
                               /\ [target |-> r, action |-> "resolve_conflict"] \in w.reviews

\* A superseded object is dated, by these writes if it was not before.
Dates(w, vt) ==
    \A o \in DOMAIN w.status : w.status[o] = "superseded" => o \in DOMAIN w.validTo \/ vt[o] # None

\* An open question is asked of the new object, and once.
Asks(w) ==
    \A x \in w.insert : x.open =>
      /\ x.from \in DOMAIN w.item
      /\ \A y \in w.insert : y.open /\ {x.from, x.to} = {y.from, y.to} => x = y

ItemOf(w, it, o) == IF o \in DOMAIN w.item THEN w.item[o] ELSE it[o]

\* A duplicate does not outrank what it is a duplicate of.
Ranks(w, it) ==
    \A q \in w.insert : q.kind = "supported_by" =>
      /\ Authority(ItemOf(w, it, q.from)) >= Authority(ItemOf(w, it, q.to))
      /\ Rel(q.to, q.from, "duplicate_of", "dedup", FALSE) \in w.insert

Lawful(w, S, it) == Typed(w, S) /\ Reasons(w) /\ Asks(w) /\ Ranks(w, it)

Moved(i) == ToConflict(i) \cup ToSupersede(i)

\* The fields of the writes of process_extraction_job.
ProcessFacts(w, n, i, merged) ==
    /\ w.item = [o \in {n} |-> i] /\ w.attrs = [o \in {n} |-> i.attrs]
    /\ DOMAIN w.status = Moved(i) \cup {n}
    /\ w.status[n] = IF ToConflict(i) # {} THEN "conflicting" ELSE InitialStatus(i)
    /\ \A o \in Moved(i) : w.status[o] = IF o \in ToConflict(i) THEN "conflicting"
                                                              ELSE "superseded"
    /\ DOMAIN w.version = Moved(i) \cup {n} /\ w.version[n] = 1
    /\ \A o \in Moved(i) : w.version[o] = version[o] + 1
    /\ w.validTo = Dirty(validTo, [o \in ToSupersede(i) |-> i.ts])
    /\ w.confirmed = {} /\ w.close = {} /\ w.reviews = {}
    /\ w.rows = {Row(n, 1, w.status[n], "system")}
                  \cup {NextRow(o, w.status[o], "system") : o \in Moved(i)}
    /\ w.insert = ConflictRels(n, ToConflict(i)) \cup R3Rels(n, ToSupersede(i))
                    \cup merged \cup LineageRels(n, i)

LEMMA ProcessFields ==
  ASSUME NEW n, NEW i, NEW merged, NEW w, w = ProcessWrites(n, i, merged), n \notin Moved(i)
  PROVE  ProcessFacts(w, n, i, merged)
<1> DEFINE first == IF ToConflict(i) # {} THEN "conflicting" ELSE InitialStatus(i)
           St == [o \in Moved(i) |-> IF o \in ToConflict(i) THEN "conflicting" ELSE "superseded"]
<1>1. /\ w.item = [o \in {n} |-> i] /\ w.attrs = [o \in {n} |-> i.attrs]
      /\ w.status = [o \in Moved(i) \cup {n} |-> IF o = n THEN first ELSE St[o]]
      /\ w.version = [o \in Moved(i) \cup {n} |-> IF o = n THEN 1 ELSE version[o] + 1]
      /\ w.validTo = Dirty(validTo, [o \in ToSupersede(i) |-> i.ts])
      /\ w.confirmed = {} /\ w.close = {} /\ w.reviews = {}
      /\ w.rows = {Row(n, 1, first, "system")} \cup {NextRow(o, St[o], "system") : o \in Moved(i)}
      /\ w.insert = ConflictRels(n, ToConflict(i)) \cup R3Rels(n, ToSupersede(i))
                      \cup merged \cup LineageRels(n, i)
  BY DEF ProcessWrites, NoWrites, Moved
<1>2. \A o \in Moved(i) : w.status[o] = St[o]
  BY <1>1
<1>3. {NextRow(o, w.status[o], "system") : o \in Moved(i)} = {NextRow(o, St[o], "system") : o \in Moved(i)}
  BY <1>2
<1>4. w.status[n] = first
  BY <1>1
<1>5. \A o \in Moved(i) : w.status[o] = IF o \in ToConflict(i) THEN "conflicting" ELSE "superseded"
  BY <1>2
<1>6. \A o \in Moved(i) : w.version[o] = version[o] + 1
  BY <1>1
<1> QED
  BY <1>1, <1>3, <1>4, <1>5, <1>6 DEF ProcessFacts

\* The relations that process_extraction_job inserts.
InsertKind(x, n, i, merged) ==
    \/ \E o \in ToConflict(i) : x = Rel(n, o, "contradicts", "lifecycle", TRUE)
    \/ \E o \in ToSupersede(i) : x = Rel(n, o, "supersedes", "R3", FALSE)
    \/ \E o \in Created :
         \/ x = Rel(n, o, "derived_from", "lineage", FALSE) /\ Descends(i, item[o])
         \/ x = Rel(o, n, "derived_from", "lineage", FALSE) /\ Descends(item[o], i)
    \/ \E o \in Agreeing(i) :
         \/ x = Rel(n, o, "duplicate_of", "dedup", TRUE)
         \/ x = Rel(Duplicate(n, i, o), Canonical(n, i, o), "duplicate_of", "dedup", FALSE)
         \/ /\ x = Rel(Canonical(n, i, o), Duplicate(n, i, o), "supported_by", "dedup", FALSE)
            /\ Rel(Duplicate(n, i, o), Canonical(n, i, o), "duplicate_of", "dedup", FALSE)
                 \in merged

LEMMA Inserted ==
  ASSUME NEW n, NEW i, NEW merged \in Merges(n, i), NEW w, ProcessFacts(w, n, i, merged),
         NEW x \in w.insert
  PROVE  InsertKind(x, n, i, merged)
<1> USE DEF InsertKind
<1>0. x \in ConflictRels(n, ToConflict(i)) \cup R3Rels(n, ToSupersede(i))
              \cup merged \cup LineageRels(n, i)
  BY DEF ProcessFacts
<1>1. CASE x \in merged
  <2>1. PICK sim \in [Agreeing(i) -> {"auto", "review", "low"}] :
           merged = UNION {DedupRels(n, i, o, sim[o]) : o \in Agreeing(i)}
    BY DEF Merges
  <2>2. PICK o \in Agreeing(i) : x \in DedupRels(n, i, o, sim[o])
    BY <1>1, <2>1
  <2>3. DedupRels(n, i, o, sim[o]) \subseteq merged
    BY <2>1
  <2>4. CASE sim[o] = "auto"
    <3>1. DedupRels(n, i, o, sim[o]) =
            {Rel(Duplicate(n, i, o), Canonical(n, i, o), "duplicate_of", "dedup", FALSE),
             Rel(Canonical(n, i, o), Duplicate(n, i, o), "supported_by", "dedup", FALSE)}
      BY <2>4 DEF DedupRels
    <3> QED
      BY <2>2, <2>3, <3>1
  <2>5. CASE sim[o] = "review"
    BY <2>2, <2>5 DEF DedupRels
  <2>6. CASE sim[o] = "low"
    BY <2>2, <2>6 DEF DedupRels
  <2> QED
    BY <2>4, <2>5, <2>6
<1>2. CASE x \in ConflictRels(n, ToConflict(i))
  BY <1>2 DEF ConflictRels
<1>3. CASE x \in R3Rels(n, ToSupersede(i))
  BY <1>3 DEF R3Rels
<1>4. CASE x \in LineageRels(n, i)
  BY <1>4 DEF LineageRels
<1> QED
  BY <1>0, <1>1, <1>2, <1>3, <1>4

\* A new object and its siblings are distinct, and it is written as decided.
LEMMA ProcessBasics ==
  ASSUME NEW n \in Objects, NEW i \in Items, ~Exists(n), NEW merged,
         NEW w, w = ProcessWrites(n, i, merged)
  PROVE  /\ ProcessFacts(w, n, i, merged)
         /\ Moved(i) \subseteq Siblings(i) /\ Agreeing(i) \subseteq Siblings(i)
         /\ Siblings(i) \subseteq Created /\ n \notin Created /\ Created \subseteq Objects
         /\ DOMAIN w.item = {n} /\ w.item[n] = i
<1>1. /\ Moved(i) \subseteq Siblings(i) /\ Agreeing(i) \subseteq Siblings(i)
      /\ Siblings(i) \subseteq Created /\ n \notin Created /\ Created \subseteq Objects
  BY SiblingsSplit DEF Moved, Created
<1>2. ProcessFacts(w, n, i, merged)
  BY <1>1, ProcessFields
<1>3. w.item = [o \in {n} |-> i]
  BY <1>2 DEF ProcessFacts
<1> QED
  BY <1>1, <1>2, <1>3

\* What a new object is about to be written with is well typed.
LEMMA ProcessTyped ==
  ASSUME TypeOK, NEW n \in Objects, NEW i \in Items, ~Exists(n), NEW merged \in Merges(n, i),
         NEW w, w = ProcessWrites(n, i, merged)
  PROVE  Typed(w, Created)
<1> DEFINE S == Created \cup {n}
<1>1. /\ ProcessFacts(w, n, i, merged)
      /\ Moved(i) \subseteq S /\ Agreeing(i) \subseteq S /\ n \in S /\ Created \subseteq S
      /\ n \notin Moved(i) /\ Moved(i) \subseteq Objects
      /\ ToConflict(i) \subseteq S /\ ToSupersede(i) \subseteq S
      /\ DOMAIN w.item = {n} /\ w.item[n] = i
  BY ProcessBasics DEF Moved
<1>2. Ends(w, Created) = S
  BY <1>1 DEF Ends
<1> HIDE DEF S
<1>3. \A o \in DOMAIN w.status : w.status[o] \in CONTEXT_STATUSES /\ o \in S
  BY <1>1 DEF ProcessFacts, InitialStatus, CONTEXT_STATUSES
<1>4. \A o \in DOMAIN w.version : w.version[o] \in Nat
  BY <1>1 DEF TypeOK, ProcessFacts
<1>5. w.rows \subseteq RowType(S)
  <2> SUFFICES ASSUME NEW r \in w.rows
               PROVE  r \in RowType(S)
    OBVIOUS
  <2>1. r = Row(n, 1, w.status[n], "system")
          \/ \E o \in Moved(i) : r = NextRow(o, w.status[o], "system")
    BY <1>1 DEF ProcessFacts
  <2>2. CASE r = Row(n, 1, w.status[n], "system")
    <3>1. n \in DOMAIN w.status
      BY <1>1 DEF ProcessFacts
    <3> QED
      BY <1>1, <1>3, <2>2, <3>1 DEF Row, RowType
  <2>3. ASSUME NEW o \in Moved(i), r = NextRow(o, w.status[o], "system")
        PROVE  r \in RowType(S)
    <3>1. version[o] + 1 \in Nat /\ o \in S /\ o \in DOMAIN w.status
      BY <1>1 DEF TypeOK, ProcessFacts
    <3> QED
      BY <1>3, <2>3, <3>1 DEF NextRow, Row, RowType
  <2> QED
    BY <2>1, <2>2, <2>3
<1>6. w.insert \subseteq RelType(S)
  <2> SUFFICES ASSUME NEW x \in w.insert
               PROVE  x \in RelType(S)
    OBVIOUS
  <2>1. InsertKind(x, n, i, merged)
    BY <1>1, Inserted
  <2>2. CASE \E o \in ToConflict(i) : x = Rel(n, o, "contradicts", "lifecycle", TRUE)
    BY <1>1, <2>2 DEF Rel, RelType, Kinds
  <2>3. CASE \E o \in ToSupersede(i) : x = Rel(n, o, "supersedes", "R3", FALSE)
    BY <1>1, <2>3 DEF Rel, RelType, Kinds
  <2>4. ASSUME NEW o \in Created, \/ x = Rel(n, o, "derived_from", "lineage", FALSE)
                                 \/ x = Rel(o, n, "derived_from", "lineage", FALSE)
        PROVE  x \in RelType(S)
    <3>1. o \in S /\ n \in S
      BY <1>1
    <3>2. /\ Rel(n, o, "derived_from", "lineage", FALSE) \in RelType(S)
          /\ Rel(o, n, "derived_from", "lineage", FALSE) \in RelType(S)
      BY <3>1 DEF Rel, RelType, Kinds
    <3> QED
      BY <2>4, <3>2
  <2>5. ASSUME NEW o \in Agreeing(i),
               \/ x = Rel(n, o, "duplicate_of", "dedup", TRUE)
               \/ x = Rel(Duplicate(n, i, o), Canonical(n, i, o), "duplicate_of", "dedup", FALSE)
               \/ x = Rel(Canonical(n, i, o), Duplicate(n, i, o), "supported_by", "dedup", FALSE)
        PROVE  x \in RelType(S)
    <3>1. o \in S /\ Duplicate(n, i, o) \in S /\ Canonical(n, i, o) \in S
      BY <1>1 DEF Duplicate, Canonical
    <3>2. \A a, b \in S : /\ Rel(a, b, "duplicate_of", "dedup", TRUE) \in RelType(S)
                          /\ Rel(a, b, "duplicate_of", "dedup", FALSE) \in RelType(S)
                          /\ Rel(a, b, "supported_by", "dedup", FALSE) \in RelType(S)
      BY DEF Rel, RelType, Kinds
    <3> QED
      BY <1>1, <2>5, <3>1, <3>2
  <2> QED
    BY <2>1, <2>2, <2>3, <2>4, <2>5 DEF InsertKind
<1>7. \A o \in DOMAIN w.validTo : w.validTo[o] \in Nat
  <2> DEFINE ts == [o \in ToSupersede(i) |-> i.ts]
  <2>1. w.validTo = Dirty(validTo, ts) /\ \A o \in DOMAIN ts : ts[o] \in Nat
    BY <1>1 DEF ProcessFacts
  <2> HIDE DEF ts
  <2> QED
    BY <2>1 DEF Dirty
<1>8. DOMAIN w.item \subseteq DOMAIN w.status /\ w.confirmed = {} /\ w.close = {}
  BY <1>1 DEF ProcessFacts
<1> QED
  BY <1>1, <1>2, <1>3, <1>4, <1>5, <1>6, <1>7, <1>8 DEF Typed

\* ... and every change of a status has its reason.
LEMMA ProcessReasons ==
  ASSUME NEW n \in Objects, NEW i \in Items, ~Exists(n), NEW merged \in Merges(n, i),
         NEW w, w = ProcessWrites(n, i, merged)
  PROVE  Reasons(w)
<1>1. ProcessFacts(w, n, i, merged) /\ n \notin Moved(i) /\ DOMAIN w.item = {n}
  BY ProcessBasics
<1>2. InitialStatus(i) \in {"active", "candidate"}
  BY DEF InitialStatus
<1>3. ASSUME NEW p \in ToConflict(i), NEW o \in {n, p}
      PROVE  \E r \in w.insert : /\ r.kind = "contradicts" /\ r.open /\ o \in {r.from, r.to}
                                 /\ r.from \in DOMAIN w.item
  <2>1. Rel(n, p, "contradicts", "lifecycle", TRUE) \in w.insert
    BY <1>1 DEF ProcessFacts, ConflictRels
  <2> QED
    BY <1>1, <1>3, <2>1 DEF Rel
<1>4. ASSUME NEW o \in DOMAIN w.status, w.status[o] = "conflicting"
      PROVE  \E r \in w.insert : /\ r.kind = "contradicts" /\ r.open /\ o \in {r.from, r.to}
                                 /\ r.from \in DOMAIN w.item
  <2>1. CASE o = n
    <3>1. ToConflict(i) # {}
      BY <1>1, <1>2, <1>4, <2>1 DEF ProcessFacts
    <3> QED
      BY <1>3, <2>1, <3>1
  <2>2. CASE o # n
    <3>1. o \in ToConflict(i)
      BY <1>1, <1>4, <2>2 DEF ProcessFacts
    <3> QED
      BY <1>3, <3>1
  <2> QED
    BY <2>1, <2>2
<1>5. ASSUME NEW o \in DOMAIN w.status, w.status[o] = "superseded"
      PROVE  \E r \in w.insert : r.kind = "supersedes" /\ r.to = o
  <2>1. o \in ToSupersede(i)
    BY <1>1, <1>2, <1>5 DEF ProcessFacts, Moved
  <2>2. Rel(n, o, "supersedes", "R3", FALSE) \in w.insert
    BY <1>1, <2>1 DEF ProcessFacts, R3Rels
  <2> QED
    BY <2>1, <2>2 DEF Rel
<1> QED
  BY <1>4, <1>5 DEF Reasons

\* ... no pair is two questions, and no canonical object is outranked.
LEMMA ProcessAsks ==
  ASSUME NEW n \in Objects, NEW i \in Items, ~Exists(n), NEW merged \in Merges(n, i),
         NEW w, w = ProcessWrites(n, i, merged)
  PROVE  Asks(w) /\ Ranks(w, item)
<1>1. /\ ProcessFacts(w, n, i, merged) /\ DOMAIN w.item = {n} /\ w.item[n] = i
      /\ n \notin Siblings(i) /\ Agreeing(i) \subseteq Siblings(i)
      /\ ToConflict(i) \subseteq Siblings(i)
  BY ProcessBasics DEF Moved
<1>2. ASSUME NEW x \in w.insert, x.open
      PROVE  \E o \in Siblings(i) :
               /\ x.from = n /\ x.to = o
               /\ \/ o \in ToConflict(i) /\ x = Rel(n, o, "contradicts", "lifecycle", TRUE)
                  \/ o \in Agreeing(i) /\ x = Rel(n, o, "duplicate_of", "dedup", TRUE)
  <2>1. InsertKind(x, n, i, merged)
    BY <1>1, Inserted
  <2>2. \A a, b, k, y : x # Rel(a, b, k, y, FALSE)
    BY <1>2 DEF Rel
  <2>3. \/ \E o \in ToConflict(i) : x = Rel(n, o, "contradicts", "lifecycle", TRUE)
        \/ \E o \in Agreeing(i) : x = Rel(n, o, "duplicate_of", "dedup", TRUE)
    BY <2>1, <2>2 DEF InsertKind
  <2>4. \A o, k, y : x = Rel(n, o, k, y, TRUE) => x.from = n /\ x.to = o
    BY DEF Rel
  <2> QED
    BY <1>1, <2>3, <2>4
<1>3. ASSUME NEW x \in w.insert, NEW y \in w.insert, x.open, y.open,
             {x.from, x.to} = {y.from, y.to}
      PROVE  x = y
  <2>1. PICK o \in Siblings(i) :
           /\ x.from = n /\ x.to = o
           /\ \/ o \in ToConflict(i) /\ x = Rel(n, o, "contradicts", "lifecycle", TRUE)
              \/ o \in Agreeing(i) /\ x = Rel(n, o, "duplicate_of", "dedup", TRUE)
    BY <1>2, <1>3
  <2>2. PICK p \in Siblings(i) :
           /\ y.from = n /\ y.to = p
           /\ \/ p \in ToConflict(i) /\ y = Rel(n, p, "contradicts", "lifecycle", TRUE)
              \/ p \in Agreeing(i) /\ y = Rel(n, p, "duplicate_of", "dedup", TRUE)
    BY <1>2, <1>3
  <2>3. o = p
    BY <1>1, <1>3, <2>1, <2>2
  <2> QED
    BY <2>1, <2>2, <2>3, SiblingsSplit
<1>4. Asks(w)
  BY <1>1, <1>2, <1>3 DEF Asks
<1>5. ASSUME NEW q \in w.insert, q.kind = "supported_by"
      PROVE  /\ Authority(ItemOf(w, item, q.from)) >= Authority(ItemOf(w, item, q.to))
             /\ Rel(q.to, q.from, "duplicate_of", "dedup", FALSE) \in w.insert
  <2>1. InsertKind(q, n, i, merged)
    BY <1>1, Inserted
  <2>2. /\ \A a, b, y : q # Rel(a, b, "contradicts", y, TRUE)
        /\ \A a, b, y : q # Rel(a, b, "supersedes", y, FALSE)
        /\ \A a, b, y : q # Rel(a, b, "derived_from", y, FALSE)
        /\ \A a, b, y : q # Rel(a, b, "duplicate_of", y, FALSE)
        /\ \A a, b, y : q # Rel(a, b, "duplicate_of", y, TRUE)
    BY <1>5 DEF Rel
  <2>3. PICK o \in Agreeing(i) :
           /\ q = Rel(Canonical(n, i, o), Duplicate(n, i, o), "supported_by", "dedup", FALSE)
           /\ Rel(Duplicate(n, i, o), Canonical(n, i, o), "duplicate_of", "dedup", FALSE) \in merged
    BY <2>1, <2>2 DEF InsertKind
  <2>4. q.from = Canonical(n, i, o) /\ q.to = Duplicate(n, i, o)
    BY <2>3 DEF Rel
  <2>5. o # n /\ ItemOf(w, item, n) = i /\ ItemOf(w, item, o) = item[o]
    BY <1>1 DEF ItemOf
  <2>6. Authority(ItemOf(w, item, q.from)) >= Authority(ItemOf(w, item, q.to))
    BY <2>4, <2>5, AuthorityType DEF Canonical, Duplicate, NewIsCanonical
  <2>7. merged \subseteq w.insert
    BY <1>1 DEF ProcessFacts
  <2> QED
    BY <2>3, <2>4, <2>6, <2>7
<1>6. Ranks(w, item)
  BY <1>5 DEF Ranks
<1> QED
  BY <1>4, <1>6

\* What a review writes, whatever its action: no relation, and a status of its own.
ReviewFacts(w, o) ==
    /\ w.item = Empty /\ w.validTo = Empty /\ w.insert = {} /\ w.close = {}
    /\ DOMAIN w.status \subseteq {o}
    /\ \A p \in DOMAIN w.status : w.status[p] \in {"active", "ignored", "stale"}
    /\ w.version = [p \in {o} |-> version[o] + 1]
    /\ w.confirmed \subseteq {o}
    /\ \E st \in {status[o], "active", "ignored", "stale"} : w.rows = {NextRow(o, st, "human")}

LEMMA ReviewFields ==
  ASSUME NEW o, NEW w, \/ \E action \in DOMAIN NewStatus : w = StatusWrites(o, action)
                       \/ \E patch \in Patches : w = EditWrites(o, patch)
  PROVE  ReviewFacts(w, o)
<1>1. ASSUME NEW action \in DOMAIN NewStatus, w = StatusWrites(o, action)
      PROVE  ReviewFacts(w, o)
  <2>1. NewStatus[action] \in {"active", "ignored", "stale"}
    BY DEF NewStatus
  <2>2. /\ w.item = Empty /\ w.validTo = Empty /\ w.insert = {} /\ w.close = {}
        /\ w.status = Dirty(status, [p \in {o} |-> NewStatus[action]])
        /\ w.version = [p \in {o} |-> version[o] + 1]
        /\ w.confirmed = IF action = "confirm" THEN {o} ELSE {}
        /\ w.rows = {NextRow(o, NewStatus[action], "human")}
    BY <1>1 DEF StatusWrites, ReviewWrites, NoWrites
  <2>3. /\ DOMAIN w.status \subseteq {o}
        /\ \A p \in DOMAIN w.status : w.status[p] = NewStatus[action]
    BY <2>2 DEF Dirty
  <2> QED
    BY <2>1, <2>2, <2>3 DEF ReviewFacts
<1>2. ASSUME NEW patch \in Patches, w = EditWrites(o, patch)
      PROVE  ReviewFacts(w, o)
  <2>1. /\ w.item = Empty /\ w.validTo = Empty /\ w.insert = {} /\ w.close = {}
        /\ w.status = Empty /\ w.confirmed = {}
        /\ w.version = [p \in {o} |-> version[o] + 1]
        /\ w.rows = {NextRow(o, status[o], "human")}
    BY <1>2 DEF EditWrites, ReviewWrites, NoWrites
  <2>2. DOMAIN Empty = {}
    BY DEF Empty
  <2> QED
    BY <2>1, <2>2 DEF ReviewFacts
<1> QED
  BY <1>1, <1>2

\* What a resolution writes: the ends that do not have their verdict yet.
ResolveFacts(w, r, keep) ==
    /\ w.item = Empty /\ w.confirmed = {}
    /\ DOMAIN w.status = {o \in {r.from, r.to} : status[o] # Verdict(r, keep, o)}
    /\ \A o \in DOMAIN w.status : w.status[o] = Verdict(r, keep, o)
    /\ w.version = [o \in DOMAIN w.status |-> version[o] + 1]
    /\ w.validTo = [o \in {r.from, r.to} \ keep |-> Now]
    /\ w.rows = {NextRow(o, Verdict(r, keep, o), "system") : o \in DOMAIN w.status}
    /\ w.insert = WinnerRels(keep, {r.from, r.to} \ keep)
    /\ w.close = {r}
    /\ w.reviews = {[target |-> r, action |-> "resolve_conflict"]}

LEMMA ResolveFields ==
  ASSUME NEW r, NEW keep \in Verdicts(r), NEW w, w = ResolveWrites(r, keep)
  PROVE  ResolveFacts(w, r, keep)
<1> DEFINE lose == {r.from, r.to} \ keep
           verdict == [o \in keep \cup lose |-> IF o \in keep THEN "active" ELSE "superseded"]
           moved == {o \in keep \cup lose : status[o] # verdict[o]}
<1>1. keep \subseteq {r.from, r.to} /\ keep \cup lose = {r.from, r.to}
  BY DEF Verdicts
<1>2. /\ w.item = Empty /\ w.confirmed = {}
      /\ w.status = [o \in moved |-> verdict[o]]
      /\ w.version = [o \in moved |-> version[o] + 1]
      /\ w.validTo = [o \in lose |-> Now]
      /\ w.rows = {NextRow(o, verdict[o], "system") : o \in moved}
      /\ w.insert = WinnerRels(keep, lose)
      /\ w.close = {r}
      /\ w.reviews = {[target |-> r, action |-> "resolve_conflict"]}
  BY DEF ResolveWrites, NoWrites
<1>3. \A o \in {r.from, r.to} : verdict[o] = Verdict(r, keep, o)
  BY <1>1 DEF Verdict
<1>4. moved = {o \in {r.from, r.to} : status[o] # Verdict(r, keep, o)}
  BY <1>1, <1>3
<1> HIDE DEF moved, verdict
<1>5. DOMAIN w.status = moved /\ \A o \in moved : w.status[o] = verdict[o]
  BY <1>2
<1>6. \A o \in moved : verdict[o] = Verdict(r, keep, o)
  BY <1>3, <1>4
<1>7. w.rows = {NextRow(o, Verdict(r, keep, o), "system") : o \in moved}
  BY <1>2, <1>6
<1> QED
  BY <1>2, <1>4, <1>5, <1>6, <1>7 DEF ResolveFacts

\* What a review is about to write is lawful.
LEMMA ReviewLawful ==
  ASSUME TypeOK, NEW o \in Objects, Reviewable(o), NEW w, ReviewFacts(w, o)
  PROVE  Lawful(w, Created, item)
<1>1. /\ o \in Created /\ status[o] \in CONTEXT_STATUSES /\ version[o] + 1 \in Nat
      /\ DOMAIN w.item = {} /\ DOMAIN w.validTo = {}
      /\ {"active", "ignored", "stale"} \subseteq CONTEXT_STATUSES
  BY DEF Reviewable, Exists, Created, TypeOK, ReviewFacts, Empty, CONTEXT_STATUSES
<1>2. Ends(w, Created) = Created
  BY <1>1 DEF Ends
<1>3. w.rows \subseteq RowType(Created)
  <2>1. PICK st \in {status[o], "active", "ignored", "stale"} : w.rows = {NextRow(o, st, "human")}
    BY DEF ReviewFacts
  <2> QED
    BY <1>1, <2>1 DEF NextRow, Row, RowType
<1>4. /\ \A p \in DOMAIN w.status : p = o /\ w.status[p] \in {"active", "ignored", "stale"}
      /\ \A p \in DOMAIN w.version : w.version[p] \in Nat
      /\ w.confirmed \subseteq Created /\ w.insert = {} /\ w.close = {}
  BY <1>1 DEF ReviewFacts
<1>5. Typed(w, Created)
  BY <1>1, <1>2, <1>3, <1>4 DEF Typed
<1> QED
  BY <1>4, <1>5 DEF Lawful, Reasons, Asks, Ranks

\* What a resolution is about to write is lawful.
LEMMA ResolveLawful ==
  ASSUME TypeOK, NEW r \in rels, NEW keep \in Verdicts(r), Resolvable(r),
         NEW w, ResolveFacts(w, r, keep)
  PROVE  Lawful(w, Created, item)
<1>1. /\ r \in RelType(Created) /\ r.open /\ r.kind # "supported_by"
      /\ r.from \in Created /\ r.to \in Created /\ keep \subseteq {r.from, r.to}
      /\ Created \subseteq Objects
  BY DEF TypeOK, RelType, Resolvable, Verdicts, Created
<1>2. DOMAIN w.item = {} /\ w.confirmed = {} /\ w.close = {r}
  BY DEF ResolveFacts, Empty
<1>3. Ends(w, Created) = Created
  BY <1>2 DEF Ends
<1>4. \A o \in {r.from, r.to} : Verdict(r, keep, o) \in {"active", "superseded"}
  BY DEF Verdict
<1>5. \A o \in DOMAIN w.status : /\ o \in Created
                                 /\ w.status[o] = Verdict(r, keep, o)
                                 /\ w.status[o] \in {"active", "superseded"}
  BY <1>1, <1>4 DEF ResolveFacts
<1>6. \A o \in DOMAIN w.version : w.version[o] \in Nat
  BY <1>1, <1>5 DEF ResolveFacts, TypeOK
<1>7. w.rows \subseteq RowType(Created)
  <2> SUFFICES ASSUME NEW h \in w.rows
               PROVE  h \in RowType(Created)
    OBVIOUS
  <2>1. PICK o \in DOMAIN w.status : h = NextRow(o, w.status[o], "system")
    BY <1>5 DEF ResolveFacts
  <2>2. version[o] + 1 \in Nat /\ o \in Created
    BY <1>1, <1>5 DEF TypeOK
  <2> QED
    BY <1>5, <2>1, <2>2 DEF NextRow, Row, RowType, CONTEXT_STATUSES
<1>8. \A x \in w.insert : \E k \in keep, o \in {r.from, r.to} \ keep :
                             x = Rel(k, o, "supersedes", "human", FALSE)
  <2> DEFINE lose == {r.from, r.to} \ keep
  <2>1. w.insert = WinnerRels(keep, lose)
    BY DEF ResolveFacts
  <2> HIDE DEF lose
  <2>2. \A x \in w.insert : \E k \in keep, o \in lose : x = Rel(k, o, "supersedes", "human", FALSE)
    <3> SUFFICES ASSUME NEW x \in WinnerRels(keep, lose)
                 PROVE  \E k \in keep, o \in lose : x = Rel(k, o, "supersedes", "human", FALSE)
      BY <2>1
    <3>1. PICK k \in keep : x \in {Rel(k, o, "supersedes", "human", FALSE) : o \in lose}
      BY DEF WinnerRels
    <3> QED
      BY <3>1
  <2> QED
    BY <2>2 DEF lose
<1>9. w.insert \subseteq RelType(Created)
  <2> SUFFICES ASSUME NEW x \in w.insert
               PROVE  x \in RelType(Created)
    OBVIOUS
  <2>1. PICK k \in keep, o \in {r.from, r.to} \ keep : x = Rel(k, o, "supersedes", "human", FALSE)
    BY <1>8
  <2>2. k \in Created /\ o \in Created
    BY <1>1
  <2> QED
    BY <2>1, <2>2 DEF Rel, RelType, Kinds
<1>10. \A o \in DOMAIN w.validTo : w.validTo[o] \in Nat
  BY DEF ResolveFacts
<1>11. Typed(w, Created)
  BY <1>1, <1>2, <1>3, <1>5, <1>6, <1>7, <1>9, <1>10 DEF Typed, CONTEXT_STATUSES
<1>12. Reasons(w)
  <2>1. ASSUME NEW o \in DOMAIN w.status, w.status[o] = "superseded"
        PROVE  /\ o \in {r.from, r.to} /\ r \in w.close
               /\ [target |-> r, action |-> "resolve_conflict"] \in w.reviews
    <3>1. o \in {r.from, r.to} /\ o \notin keep
      BY <1>5, <2>1 DEF ResolveFacts, Verdict
    <3> QED
      BY <3>1 DEF ResolveFacts
  <2> QED
    BY <1>5, <2>1 DEF Reasons
<1>13. Asks(w) /\ Ranks(w, item)
  BY <1>8 DEF Asks, Ranks, Rel
<1> QED
  BY <1>11, <1>12, <1>13 DEF Lawful

\* What a handler is about to supersede has a date, or gets one.
LEMMA DecidedDated ==
  ASSUME TypeOK, NEW w, Decided(w)
  PROVE  Dates(w, validTo)
<1>1. ASSUME NEW n \in Objects, NEW i \in Items, ~Exists(n), NEW merged \in Merges(n, i),
             w = ProcessWrites(n, i, merged)
      PROVE  Dates(w, validTo)
  <2>1. ProcessFacts(w, n, i, merged) /\ InitialStatus(i) \in {"active", "candidate"}
    BY <1>1, ProcessBasics DEF InitialStatus
  <2> SUFFICES ASSUME NEW o \in DOMAIN w.status, w.status[o] = "superseded"
               PROVE  o \in DOMAIN w.validTo \/ validTo[o] # None
    BY DEF Dates
  <2>2. o \in ToSupersede(i)
    BY <2>1 DEF ProcessFacts, Moved
  <2> DEFINE ts == [p \in ToSupersede(i) |-> i.ts]
  <2>3. w.validTo = Dirty(validTo, ts) /\ o \in DOMAIN ts /\ ts[o] # None
    BY <2>1, <2>2, LedgerAssumption DEF ProcessFacts
  <2> HIDE DEF ts
  <2> QED
    BY <2>3 DEF Dirty
<1>2. ASSUME NEW o \in Objects, Reviewable(o),
             \/ \E action \in DOMAIN NewStatus : w = StatusWrites(o, action)
             \/ \E patch \in Patches : w = EditWrites(o, patch)
      PROVE  Dates(w, validTo)
  <2>1. ReviewFacts(w, o)
    BY <1>2, ReviewFields
  <2> QED
    BY <2>1 DEF ReviewFacts, Dates
<1>3. ASSUME NEW r \in rels, NEW keep \in Verdicts(r), Resolvable(r), w = ResolveWrites(r, keep)
      PROVE  Dates(w, validTo)
  <2>1. ResolveFacts(w, r, keep)
    BY <1>3, ResolveFields
  <2>2. /\ DOMAIN w.status \subseteq {r.from, r.to}
        /\ \A o \in DOMAIN w.status : w.status[o] = IF o \in keep THEN "active" ELSE "superseded"
        /\ DOMAIN w.validTo = {r.from, r.to} \ keep
    BY <2>1 DEF ResolveFacts, Verdict
  <2> QED
    BY <2>2 DEF Dates
<1> QED
  BY <1>1, <1>2, <1>3 DEF Decided

\* Whatever a handler decides upon is lawful, and takes no id but one that is free.
LEMMA DecidedLawful ==
  ASSUME TypeOK, NEW w, Decided(w)
  PROVE  Lawful(w, Created, item) /\ DOMAIN w.item \cap Created = {}
<1>1. ASSUME NEW n \in Objects, NEW i \in Items, ~Exists(n), NEW merged \in Merges(n, i),
             w = ProcessWrites(n, i, merged)
      PROVE  Lawful(w, Created, item) /\ DOMAIN w.item \cap Created = {}
  <2>1. n \notin Created /\ DOMAIN w.item = {n}
    BY <1>1, ProcessBasics
  <2>2. Typed(w, Created) /\ Reasons(w) /\ Asks(w) /\ Ranks(w, item)
    BY <1>1, ProcessTyped, ProcessReasons, ProcessAsks
  <2> QED
    BY <2>1, <2>2 DEF Lawful
<1>2. ASSUME NEW o \in Objects, Reviewable(o),
             \/ \E action \in DOMAIN NewStatus : w = StatusWrites(o, action)
             \/ \E patch \in Patches : w = EditWrites(o, patch)
      PROVE  Lawful(w, Created, item) /\ DOMAIN w.item \cap Created = {}
  <2>1. ReviewFacts(w, o)
    BY <1>2, ReviewFields
  <2>2. DOMAIN w.item = {}
    BY <2>1 DEF ReviewFacts, Empty
  <2> QED
    BY <1>2, <2>1, <2>2, ReviewLawful
<1>3. ASSUME NEW r \in rels, NEW keep \in Verdicts(r), Resolvable(r), w = ResolveWrites(r, keep)
      PROVE  Lawful(w, Created, item) /\ DOMAIN w.item \cap Created = {}
  <2>1. ResolveFacts(w, r, keep)
    BY <1>3, ResolveFields
  <2>2. DOMAIN w.item = {}
    BY <2>1 DEF ResolveFacts, Empty
  <2> QED
    BY <1>3, <2>1, <2>2, ResolveLawful
<1> QED
  BY <1>1, <1>2, <1>3 DEF Decided

-----------------------------------------------------------------------------
(* What a job writes that has decided on one more item. *)

TogetherFacts(u, v, w) ==
    /\ u.item = Over(v.item, w.item) /\ u.attrs = Over(v.attrs, w.attrs)
    /\ u.status = Over(v.status, w.status) /\ u.validTo = Over(v.validTo, w.validTo)
    /\ u.version = Over(v.version, w.version) /\ u.confirmed = v.confirmed \cup w.confirmed
    /\ u.rows = v.rows \cup w.rows /\ u.insert = v.insert \cup w.insert
    /\ u.close = v.close \cup w.close /\ u.reviews = v.reviews \cup w.reviews

LEMMA TogetherFields ==
  ASSUME NEW u, NEW v, NEW w, u = Together(v, w)
  PROVE  TogetherFacts(u, v, w)
BY DEF Together, TogetherFacts

\* Two lawful sets of writes that take different ids are lawful together.
LEMMA TogetherLawful ==
  ASSUME NEW u, NEW v, NEW w, TogetherFacts(u, v, w), NEW S, NEW it,
         Lawful(v, S, it), Lawful(w, S, it),
         DOMAIN v.item \cap S = {}, DOMAIN w.item \cap S = {},
         DOMAIN v.item \cap DOMAIN w.item = {}
  PROVE  Lawful(u, S, it)
<1>1. /\ Typed(v, S) /\ Reasons(v) /\ Asks(v) /\ Ranks(v, it)
      /\ Typed(w, S) /\ Reasons(w) /\ Asks(w) /\ Ranks(w, it)
  BY DEF Lawful
<1>2. /\ DOMAIN u.item = DOMAIN v.item \cup DOMAIN w.item
      /\ \A o \in DOMAIN w.item : u.item[o] = w.item[o]
      /\ \A o \in DOMAIN v.item : u.item[o] = v.item[o]
  BY DEF TogetherFacts, Over
<1>3. /\ DOMAIN u.status = DOMAIN v.status \cup DOMAIN w.status
      /\ \A o \in DOMAIN u.status : \/ o \in DOMAIN v.status /\ u.status[o] = v.status[o]
                                    \/ o \in DOMAIN w.status /\ u.status[o] = w.status[o]
  BY DEF TogetherFacts, Over
<1>4. /\ \A o \in DOMAIN u.version : \/ o \in DOMAIN v.version /\ u.version[o] = v.version[o]
                                     \/ o \in DOMAIN w.version /\ u.version[o] = w.version[o]
      /\ \A o \in DOMAIN u.validTo : \/ o \in DOMAIN v.validTo /\ u.validTo[o] = v.validTo[o]
                                     \/ o \in DOMAIN w.validTo /\ u.validTo[o] = w.validTo[o]
  BY DEF TogetherFacts, Over
<1>5. /\ u.confirmed = v.confirmed \cup w.confirmed
      /\ u.rows = v.rows \cup w.rows /\ u.insert = v.insert \cup w.insert
      /\ u.close = v.close \cup w.close /\ u.reviews = v.reviews \cup w.reviews
  BY DEF TogetherFacts
<1>6. Ends(v, S) \subseteq Ends(u, S) /\ Ends(w, S) \subseteq Ends(u, S)
  BY <1>2 DEF Ends
<1>7. Typed(u, S)
  <2>1. /\ RelType(Ends(v, S)) \subseteq RelType(Ends(u, S))
        /\ RelType(Ends(w, S)) \subseteq RelType(Ends(u, S))
        /\ RowType(Ends(v, S)) \subseteq RowType(Ends(u, S))
        /\ RowType(Ends(w, S)) \subseteq RowType(Ends(u, S))
    BY <1>6, TypesGrow
  <2>2. \A o \in DOMAIN u.status : u.status[o] \in CONTEXT_STATUSES /\ o \in Ends(u, S)
    BY <1>1, <1>3, <1>6 DEF Typed
  <2>3. \A o \in DOMAIN u.item : u.item[o] \in Items
    BY <1>1, <1>2 DEF Typed
  <2>4. DOMAIN u.item \subseteq Objects /\ DOMAIN u.item \subseteq DOMAIN u.status
    BY <1>1, <1>2, <1>3 DEF Typed
  <2>5. /\ \A o \in DOMAIN u.version : u.version[o] \in Nat
        /\ \A o \in DOMAIN u.validTo : u.validTo[o] \in Nat
    BY <1>1, <1>4 DEF Typed
  <2> QED
    BY <1>1, <1>5, <1>6, <2>1, <2>2, <2>3, <2>4, <2>5 DEF Typed
<1>8. Reasons(u)
  <2>1. ASSUME NEW x \in {v, w}, NEW o \in DOMAIN x.status, Reasons(x), x.status[o] = "conflicting",
               DOMAIN x.item \subseteq DOMAIN u.item, x.insert \subseteq u.insert
        PROVE  \E r \in u.insert : /\ r.kind = "contradicts" /\ r.open /\ o \in {r.from, r.to}
                                   /\ r.from \in DOMAIN u.item
    BY <2>1 DEF Reasons
  <2>2. ASSUME NEW x \in {v, w}, NEW o \in DOMAIN x.status, Reasons(x), x.status[o] = "superseded",
               x.insert \subseteq u.insert, x.close \subseteq u.close, x.reviews \subseteq u.reviews
        PROVE  \/ \E r \in u.insert : r.kind = "supersedes" /\ r.to = o
               \/ \E r \in u.close : /\ o \in {r.from, r.to}
                                     /\ [target |-> r, action |-> "resolve_conflict"] \in u.reviews
    <3>1. \/ \E r \in x.insert : r.kind = "supersedes" /\ r.to = o
          \/ \E r \in x.close : /\ o \in {r.from, r.to}
                                /\ [target |-> r, action |-> "resolve_conflict"] \in x.reviews
      BY <2>2 DEF Reasons
    <3> QED
      BY <2>2, <3>1
  <2>3. \A x \in {v, w} : /\ DOMAIN x.item \subseteq DOMAIN u.item /\ x.insert \subseteq u.insert
                          /\ x.close \subseteq u.close /\ x.reviews \subseteq u.reviews
                          /\ Reasons(x)
    BY <1>1, <1>2, <1>5
  <2>4. \A o \in DOMAIN u.status : \E x \in {v, w} : o \in DOMAIN x.status /\ u.status[o] = x.status[o]
    BY <1>3
  <2>5. ASSUME NEW o \in DOMAIN u.status, u.status[o] = "conflicting"
        PROVE  \E r \in u.insert : /\ r.kind = "contradicts" /\ r.open /\ o \in {r.from, r.to}
                                   /\ r.from \in DOMAIN u.item
    BY <2>1, <2>3, <2>4, <2>5
  <2>6. ASSUME NEW o \in DOMAIN u.status, u.status[o] = "superseded"
        PROVE  \/ \E r \in u.insert : r.kind = "supersedes" /\ r.to = o
               \/ \E r \in u.close : /\ o \in {r.from, r.to}
                                     /\ [target |-> r, action |-> "resolve_conflict"] \in u.reviews
    BY <2>2, <2>3, <2>4, <2>6
  <2> QED
    BY <2>5, <2>6 DEF Reasons
<1>9. Asks(u)
  <2>1. ASSUME NEW x \in v.insert, x.open, NEW y \in w.insert, y.open
        PROVE  {x.from, x.to} # {y.from, y.to}
    <3>1. x.from \in DOMAIN v.item /\ y.from \in DOMAIN w.item
      BY <1>1, <2>1 DEF Asks
    <3>2. y.to \in Ends(w, S)
      BY <1>1, <2>1 DEF Typed, RelType
    <3> QED
      BY <3>1, <3>2 DEF Ends
  <2>2. ASSUME NEW x \in u.insert, x.open
        PROVE  x.from \in DOMAIN u.item
    BY <1>1, <1>2, <1>5, <2>2 DEF Asks
  <2>3. ASSUME NEW x \in u.insert, NEW y \in u.insert, x.open, y.open, {x.from, x.to} = {y.from, y.to}
        PROVE  x = y
    <3>1. \/ x \in v.insert /\ y \in v.insert
          \/ x \in w.insert /\ y \in w.insert
      BY <1>5, <2>1, <2>3
    <3> QED
      BY <1>1, <2>3, <3>1 DEF Asks
  <2> QED
    BY <2>2, <2>3 DEF Asks
<1>10. Ranks(u, it)
  <2>1. /\ \A o \in Ends(v, S) : ItemOf(u, it, o) = ItemOf(v, it, o)
        /\ \A o \in Ends(w, S) : ItemOf(u, it, o) = ItemOf(w, it, o)
    BY <1>2 DEF Ends, ItemOf
  <2> SUFFICES ASSUME NEW q \in u.insert, q.kind = "supported_by"
               PROVE  /\ Authority(ItemOf(u, it, q.from)) >= Authority(ItemOf(u, it, q.to))
                      /\ Rel(q.to, q.from, "duplicate_of", "dedup", FALSE) \in u.insert
    BY DEF Ranks
  <2>2. CASE q \in v.insert
    <3>1. q.from \in Ends(v, S) /\ q.to \in Ends(v, S)
      BY <1>1, <2>2 DEF Typed, RelType
    <3> QED
      BY <1>1, <1>5, <2>1, <2>2, <3>1 DEF Ranks
  <2>3. CASE q \in w.insert
    <3>1. q.from \in Ends(w, S) /\ q.to \in Ends(w, S)
      BY <1>1, <2>3 DEF Typed, RelType
    <3> QED
      BY <1>1, <1>5, <2>1, <2>3, <3>1 DEF Ranks
  <2> QED
    BY <1>5, <2>2, <2>3
<1> QED
  BY <1>7, <1>8, <1>9, <1>10 DEF Lawful

\* ... and what they supersede is dated.
LEMMA TogetherDated ==
  ASSUME NEW u, NEW v, NEW w, TogetherFacts(u, v, w), NEW vt, Dates(v, vt), Dates(w, vt)
  PROVE  Dates(u, vt)
<1>1. /\ \A o \in DOMAIN u.status : \/ o \in DOMAIN v.status /\ u.status[o] = v.status[o]
                                    \/ o \in DOMAIN w.status /\ u.status[o] = w.status[o]
      /\ DOMAIN u.validTo = DOMAIN v.validTo \cup DOMAIN w.validTo
  BY DEF TogetherFacts, Over
<1> QED
  BY <1>1 DEF Dates

-----------------------------------------------------------------------------
(* The invariant. *)

Txns == \A a \in InFlight : Lawful(txn[a], Created, item)

\* An id is taken by one transaction.
Unclaimed ==
    \A a \in InFlight :
      /\ DOMAIN txn[a].item \cap Created = {}
      /\ \A b \in InFlight : a # b => DOMAIN txn[a].item \cap DOMAIN txn[b].item = {}

\* A conflicting object has a contradicts relation that no transaction closes without
\* moving the object.
Settleable ==
    \A o \in Objects : status[o] = "conflicting" =>
      \E r \in rels : /\ r.kind = "contradicts" /\ r.open /\ o \in {r.from, r.to}
                      /\ \A a \in InFlight : r \in txn[a].close => o \in DOMAIN txn[a].status

\* What an undisturbed transaction is about to write, it would decide upon again, if it
\* has decided once.
Snapshot == \A a \in InFlight \ disturbed : Single(txn[a]) => Decided(txn[a])

\* What a transaction is about to supersede is dated.
Dated == \A a \in InFlight : Dates(txn[a], validTo)

\* A job has persisted an item.
Jobs == \A a \in Workers \cap InFlight : DOMAIN txn[a].item # {}

RacesTypeOK == TypeOK /\ attrs = [o \in Objects |-> attrs[o]] /\ DOMAIN txn = Actors

RacesInv ==
    /\ RacesTypeOK /\ Txns /\ Unclaimed /\ Settleable /\ Snapshot /\ Dated /\ Jobs
    /\ OneOpenQuestion /\ SupersededIsExplained /\ SupportOutranked

LEMMA RacesInvInit == RacesInit => RacesInv
<1> SUFFICES ASSUME RacesInit
             PROVE  RacesInv
  OBVIOUS
<1>1. TypeOK /\ DOMAIN txn = Actors /\ InFlight = {}
  BY TypeInit DEF RacesInit, InFlight
<1>2. /\ attrs = [o \in Objects |-> attrs[o]] /\ rels = {} /\ Created = {}
      /\ \A o \in Objects : status[o] # "conflicting"
  BY DEF RacesInit, Init, Created, Exists, CONTEXT_STATUSES
<1> QED
  BY <1>1, <1>2 DEF RacesInv, RacesTypeOK, Txns, Unclaimed, Settleable, Snapshot, Dated, Jobs,
                    OneOpenQuestion, SupersededIsExplained, SupportOutranked

\* What the commit of the writes w makes of the ledger, and of the other transactions.
LEMMA CommitFacts ==
  ASSUME RacesInv, NEW a \in Actors, Commit(a), NEW w, w = txn[a]
  PROVE  /\ Lawful(w, Created, item) /\ a \in InFlight /\ Created \subseteq Objects
         /\ DOMAIN w.item \cap Created = {} /\ DOMAIN w.item \subseteq Objects
         /\ Created' = Ends(w, Created)
         /\ \A o \in Objects : item'[o] = ItemOf(w, item, o)
         /\ \A o \in Objects : status'[o] = IF o \in DOMAIN w.status THEN w.status[o] ELSE status[o]
         /\ \A o \in Objects : validTo'[o] = IF o \in DOMAIN w.validTo THEN w.validTo[o]
                                                                     ELSE validTo[o]
         /\ rels' = (rels \ w.close) \cup {[r EXCEPT !.open = FALSE] : r \in w.close} \cup w.insert
         /\ reviews' = reviews \cup w.reviews
         /\ InFlight' = InFlight \ {a} /\ disturbed' = (disturbed \cup InFlight) \ {a}
         /\ \A b \in InFlight' : txn'[b] = txn[b]
<1>1. a \in InFlight
  BY DEF Commit, InFlight
<1>2. Lawful(w, Created, item) /\ DOMAIN w.item \cap Created = {}
  BY <1>1 DEF RacesInv, Txns, Unclaimed
<1>3. Created \subseteq Objects /\ DOMAIN w.item \subseteq Objects
  BY <1>2 DEF Created, Lawful, Typed
<1>4. /\ item' = Assign(item, w.item) /\ status' = Assign(status, w.status)
      /\ validTo' = Assign(validTo, w.validTo)
      /\ rels' = (rels \ w.close) \cup {[r EXCEPT !.open = FALSE] : r \in w.close} \cup w.insert
      /\ reviews' = reviews \cup w.reviews
      /\ txn' = [txn EXCEPT ![a] = None] /\ disturbed' = (disturbed \cup InFlight) \ {a}
  BY DEF Commit
<1>5. /\ DOMAIN item = Objects /\ DOMAIN status = Objects /\ DOMAIN validTo = Objects
      /\ DOMAIN txn = Actors
  BY DEF RacesInv, RacesTypeOK, TypeOK
<1>6. /\ \A o \in Objects : item'[o] = ItemOf(w, item, o)
      /\ \A o \in Objects : status'[o] = IF o \in DOMAIN w.status THEN w.status[o] ELSE status[o]
      /\ \A o \in Objects : validTo'[o] = IF o \in DOMAIN w.validTo THEN w.validTo[o] ELSE validTo[o]
  BY <1>4, <1>5 DEF Assign, ItemOf
<1>7. Created' = Ends(w, Created)
  <2>1. \A o \in DOMAIN w.item : w.item[o] # None
    BY <1>2 DEF Lawful, Typed
  <2>2. \A o \in Objects : item'[o] # None <=> o \in DOMAIN w.item \/ item[o] # None
    BY <1>6, <2>1 DEF ItemOf
  <2> QED
    BY <1>3, <2>2 DEF Created, Exists, Ends
<1>8. InFlight' = InFlight \ {a} /\ \A b \in InFlight' : txn'[b] = txn[b]
  BY <1>1, <1>4, <1>5 DEF InFlight
<1> QED
  BY <1>1, <1>2, <1>3, <1>4, <1>6, <1>7, <1>8

\* A commit keeps the types.
LEMMA CommitTypes ==
  ASSUME RacesInv, NEW a \in Actors, Commit(a)
  PROVE  RacesTypeOK'
<1> DEFINE w == txn[a]
           T == Created'
<1>1. /\ Typed(w, Created) /\ Created' = Ends(w, Created) /\ Created \subseteq T
      /\ DOMAIN w.item \subseteq T
  BY CommitFacts DEF Lawful, Ends
<1>2. /\ item' = Assign(item, w.item) /\ attrs' = Assign(attrs, w.attrs)
      /\ status' = Assign(status, w.status) /\ validTo' = Assign(validTo, w.validTo)
      /\ version' = Assign(version, w.version) /\ confirmed' = confirmed \cup w.confirmed
      /\ history' = history \cup w.rows
      /\ rels' = (rels \ w.close) \cup {[r EXCEPT !.open = FALSE] : r \in w.close} \cup w.insert
      /\ txn' = [txn EXCEPT ![a] = None]
  BY DEF Commit
<1>3. TypeOK /\ attrs = [o \in Objects |-> attrs[o]] /\ DOMAIN txn = Actors
  BY DEF RacesInv, RacesTypeOK
<1> HIDE DEF w, T
<1>4. item' \in [Objects -> Items \cup {None}]
  BY <1>1, <1>2, <1>3 DEF TypeOK, Typed, Assign
<1>5. status' \in [Objects -> CONTEXT_STATUSES \cup {None}]
  BY <1>1, <1>2, <1>3 DEF TypeOK, Typed, Assign
<1>6. validTo' \in [Objects -> Nat \cup {None}] /\ version' \in [Objects -> Nat]
  BY <1>1, <1>2, <1>3 DEF TypeOK, Typed, Assign
<1>7. confirmed' \subseteq T
  BY <1>1, <1>2, <1>3 DEF TypeOK, Typed, T
<1>8. history' \subseteq RowType(T)
  <2>1. RowType(Created) \subseteq RowType(T) /\ RowType(Ends(w, Created)) = RowType(T)
    BY <1>1, TypesGrow DEF T
  <2> QED
    BY <1>1, <1>2, <1>3, <2>1 DEF TypeOK, Typed, RowType
<1>9. rels' \subseteq RelType(T)
  <2>1. RelType(Created) \subseteq RelType(T) /\ RelType(Ends(w, Created)) = RelType(T)
    BY <1>1, TypesGrow DEF T
  <2>2. rels \subseteq RelType(T) /\ w.insert \subseteq RelType(T) /\ w.close \subseteq RelType(T)
    BY <1>1, <1>3, <2>1 DEF TypeOK, Typed, RelType
  <2>3. \A r \in RelType(T) : [r EXCEPT !.open = FALSE] \in RelType(T)
    BY DEF RelType
  <2> QED
    BY <1>2, <2>2, <2>3
<1>10. \A o \in Objects : Exists(o)' <=> status'[o] # None
  <2> SUFFICES ASSUME NEW o \in Objects
               PROVE  item'[o] # None <=> status'[o] # None
    BY DEF Exists
  <2>1. /\ item'[o] = IF o \in DOMAIN w.item THEN w.item[o] ELSE item[o]
        /\ status'[o] = IF o \in DOMAIN w.status THEN w.status[o] ELSE status[o]
    BY <1>2, <1>3 DEF Assign, TypeOK
  <2>2. /\ o \in DOMAIN w.item => w.item[o] # None /\ o \in DOMAIN w.status
        /\ o \in DOMAIN w.status => w.status[o] # None
        /\ o \in DOMAIN w.status /\ o \notin DOMAIN w.item => item[o] # None
    BY <1>1 DEF Typed, Ends, Created, Exists
  <2>3. item[o] # None <=> status[o] # None
    BY <1>3 DEF TypeOK, Exists
  <2> QED
    BY <2>1, <2>2, <2>3
<1>11. attrs' = [o \in Objects |-> attrs'[o]] /\ DOMAIN attrs' = Objects /\ DOMAIN txn' = Actors
  BY <1>2, <1>3 DEF Assign, TypeOK
<1> QED
  BY <1>4, <1>5, <1>6, <1>7, <1>8, <1>9, <1>10, <1>11 DEF RacesTypeOK, TypeOK, RowType, RelType, T

\* What is lawful stays so whatever is committed: objects are added, never changed.
LEMMA LawfulLasts ==
  ASSUME NEW w, NEW S, NEW T, S \subseteq T, NEW it, NEW jt, \A o \in S : jt[o] = it[o],
         Lawful(w, S, it)
  PROVE  Lawful(w, T, jt)
<1>1. Typed(w, S) /\ Reasons(w) /\ Asks(w) /\ Ranks(w, it)
  BY DEF Lawful
<1>2. Ends(w, S) \subseteq Ends(w, T)
  BY DEF Ends
<1>3. /\ RelType(Ends(w, S)) \subseteq RelType(Ends(w, T)) /\ RelType(S) \subseteq RelType(T)
      /\ RowType(Ends(w, S)) \subseteq RowType(Ends(w, T))
  BY <1>2, TypesGrow
<1>4. Typed(w, T)
  BY <1>1, <1>2, <1>3 DEF Typed
<1>5. Ranks(w, jt)
  <2> SUFFICES ASSUME NEW q \in w.insert, q.kind = "supported_by"
               PROVE  /\ Authority(ItemOf(w, jt, q.from)) >= Authority(ItemOf(w, jt, q.to))
                      /\ Rel(q.to, q.from, "duplicate_of", "dedup", FALSE) \in w.insert
    BY DEF Ranks
  <2>1. q.from \in Ends(w, S) /\ q.to \in Ends(w, S)
    BY <1>1 DEF Typed, RelType
  <2>2. ItemOf(w, jt, q.from) = ItemOf(w, it, q.from) /\ ItemOf(w, jt, q.to) = ItemOf(w, it, q.to)
    BY <2>1 DEF ItemOf, Ends
  <2> QED
    BY <1>1, <2>2 DEF Ranks
<1> QED
  BY <1>1, <1>4, <1>5 DEF Lawful

\* A commit leaves what the other transactions are about to write lawful, and their
\* ids theirs.
LEMMA CommitTxns ==
  ASSUME RacesInv, NEW a \in Actors, Commit(a)
  PROVE  Txns' /\ Unclaimed'
<1> DEFINE w == txn[a]
<1>1. /\ Created' = Created \cup DOMAIN w.item /\ Created \subseteq Objects
      /\ DOMAIN w.item \cap Created = {}
      /\ \A o \in Objects : item'[o] = ItemOf(w, item, o)
      /\ a \in InFlight /\ InFlight' = InFlight \ {a}
      /\ \A b \in InFlight' : txn'[b] = txn[b]
  BY CommitFacts DEF Ends
<1>2. \A o \in Created : item'[o] = item[o]
  BY <1>1 DEF ItemOf
<1>3. Txns /\ Unclaimed
  BY DEF RacesInv
<1>4. ASSUME NEW b \in InFlight'
      PROVE  Lawful(txn'[b], Created', item')
  <2>1. Lawful(txn[b], Created, item)
    BY <1>1, <1>3, <1>4 DEF Txns
  <2>2. Lawful(txn[b], Created', item')
    BY <1>1, <1>2, <2>1, LawfulLasts
  <2> QED
    BY <1>1, <2>2
<1>5. ASSUME NEW b \in InFlight'
      PROVE  /\ DOMAIN txn'[b].item \cap Created' = {}
             /\ \A c \in InFlight' : b # c => DOMAIN txn'[b].item \cap DOMAIN txn'[c].item = {}
  BY <1>1, <1>3, <1>5 DEF Unclaimed
<1> QED
  BY <1>4, <1>5 DEF Txns, Unclaimed

\* A commit leaves every conflict settleable: what it makes conflicting is asked about
\* in a relation nobody else has read, and what it does not touch keeps its witness.
LEMMA CommitSettleable ==
  ASSUME RacesInv, NEW a \in Actors, Commit(a)
  PROVE  Settleable'
<1> DEFINE w == txn[a]
<1>1. /\ Lawful(w, Created, item) /\ a \in InFlight /\ Created \subseteq Objects
      /\ DOMAIN w.item \cap Created = {}
      /\ \A o \in Objects : status'[o] = IF o \in DOMAIN w.status THEN w.status[o] ELSE status[o]
      /\ rels' = (rels \ w.close) \cup {[r EXCEPT !.open = FALSE] : r \in w.close} \cup w.insert
      /\ InFlight' = InFlight \ {a}
      /\ \A b \in InFlight' : txn'[b] = txn[b]
  BY CommitFacts
<1>2. Reasons(w)
  BY <1>1 DEF Lawful
<1>3. ASSUME NEW b \in InFlight'
      PROVE  txn[b].close \subseteq RelType(Created)
  BY <1>1, <1>3 DEF RacesInv, Txns, Lawful, Typed
<1> HIDE DEF w
<1> SUFFICES ASSUME NEW o \in Objects, status'[o] = "conflicting"
             PROVE  \E r \in rels' : /\ r.kind = "contradicts" /\ r.open /\ o \in {r.from, r.to}
                                     /\ \A b \in InFlight' : r \in txn'[b].close =>
                                                               o \in DOMAIN txn'[b].status
  BY DEF Settleable
<1>4. CASE o \in DOMAIN w.status
  <2>1. PICK r \in w.insert : /\ r.kind = "contradicts" /\ r.open /\ o \in {r.from, r.to}
                              /\ r.from \in DOMAIN w.item
    BY <1>1, <1>2, <1>4 DEF Reasons
  <2>2. \A q \in RelType(Created) : q.from \in Created
    BY DEF RelType
  <2>3. \A b \in InFlight' : r \notin txn'[b].close
    BY <1>1, <1>3, <2>1, <2>2
  <2> QED
    BY <1>1, <2>1, <2>3
<1>5. CASE o \notin DOMAIN w.status
  <2>1. Settleable /\ status[o] = "conflicting"
    BY <1>1, <1>5 DEF RacesInv
  <2>2. PICK r \in rels : /\ r.kind = "contradicts" /\ r.open /\ o \in {r.from, r.to}
                          /\ \A b \in InFlight : r \in txn[b].close => o \in DOMAIN txn[b].status
    BY <2>1 DEF Settleable
  <2>3. r \notin w.close
    BY <1>1, <1>5, <2>2 DEF w
  <2> QED
    BY <1>1, <2>2, <2>3
<1> QED
  BY <1>4, <1>5

\* A commit asks no question twice.
LEMMA CommitAsks ==
  ASSUME RacesInv, NEW a \in Actors, Commit(a)
  PROVE  OneOpenQuestion'
<1> DEFINE w == txn[a]
<1>1. /\ Lawful(w, Created, item) /\ DOMAIN w.item \cap Created = {}
      /\ rels' = (rels \ w.close) \cup {[r EXCEPT !.open = FALSE] : r \in w.close} \cup w.insert
      /\ OneOpenQuestion
  BY CommitFacts DEF RacesInv
<1>2. Asks(w) /\ rels \subseteq RelType(Created) /\ w.close \subseteq RelType(Created)
  BY <1>1 DEF Lawful, Typed, RacesInv, RacesTypeOK, TypeOK, RelType
<1> HIDE DEF w
<1>3. ASSUME NEW x \in rels', x.open
      PROVE  x \in rels \/ x \in w.insert
  <2>1. ASSUME NEW r \in w.close, x = [r EXCEPT !.open = FALSE]
        PROVE  FALSE
    BY <1>2, <1>3, <2>1 DEF RelType
  <2> QED
    BY <1>1, <2>1
<1>4. ASSUME NEW x \in rels, NEW y \in w.insert, y.open
      PROVE  {x.from, x.to} # {y.from, y.to}
  <2>1. x.from \in Created /\ x.to \in Created
    BY <1>2 DEF RelType
  <2>2. y.from \notin Created
    BY <1>1, <1>2, <1>4 DEF Asks
  <2> QED
    BY <2>1, <2>2
<1> SUFFICES ASSUME NEW x \in rels', NEW y \in rels', x.open, y.open,
                    {x.from, x.to} = {y.from, y.to}
             PROVE  x = y
  BY DEF OneOpenQuestion
<1>5. CASE x \in rels /\ y \in rels
  BY <1>1, <1>5 DEF OneOpenQuestion
<1>6. CASE x \in w.insert /\ y \in w.insert
  BY <1>2, <1>6 DEF Asks
<1> QED
  BY <1>3, <1>4, <1>5, <1>6

\* A commit explains what it supersedes, and leaves the explanations there are.
LEMMA CommitExplains ==
  ASSUME RacesInv, NEW a \in Actors, Commit(a)
  PROVE  SupersededIsExplained'
<1> DEFINE w == txn[a]
           closed(r) == [r EXCEPT !.open = FALSE]
<1>1. /\ Lawful(w, Created, item) /\ Created \subseteq Objects /\ DOMAIN w.item \subseteq Objects
      /\ Created' = Ends(w, Created)
      /\ \A o \in Objects : status'[o] = IF o \in DOMAIN w.status THEN w.status[o] ELSE status[o]
      /\ \A o \in Objects : validTo'[o] = IF o \in DOMAIN w.validTo THEN w.validTo[o] ELSE validTo[o]
      /\ rels' = (rels \ w.close) \cup {closed(r) : r \in w.close} \cup w.insert
      /\ reviews' = reviews \cup w.reviews
  BY CommitFacts
<1>2. /\ Reasons(w) /\ Typed(w, Created) /\ rels \subseteq RelType(Created)
      /\ SupersededIsExplained /\ None \notin Nat /\ Dates(w, validTo)
  BY <1>1, CommitFacts, LedgerAssumption DEF Lawful, RacesInv, RacesTypeOK, TypeOK, RelType, Dated
<1> HIDE DEF w
<1>3. \A r \in RelType(Created) : closed(r).from = r.from /\ closed(r).to = r.to
                                    /\ closed(r).kind = r.kind
                                    /\ [closed(r) EXCEPT !.open = TRUE] = [r EXCEPT !.open = TRUE]
  BY DEF RelType
<1>4. ASSUME NEW r \in w.close
      PROVE  r \in RelType(Created) /\ [r EXCEPT !.open = TRUE] = r
  BY <1>2 DEF Typed, RelType
<1>5. ASSUME NEW q \in rels, NEW o, Explains(q, o)
      PROVE  \E x \in rels' : Explains(x, o)'
  <2>1. CASE q \in w.close
    <3>1. closed(q) \in rels'
      BY <1>1, <2>1
    <3>2. ResolvedRecord(closed(q)) = ResolvedRecord(q)
      BY <1>2, <1>3 DEF ResolvedRecord
    <3>3. Explains(closed(q), o)'
      BY <1>1, <1>2, <1>3, <1>5, <3>2 DEF Explains, ResolvedRecord
    <3> QED
      BY <3>1, <3>3
  <2>2. CASE q \notin w.close
    BY <1>1, <1>5, <2>2 DEF Explains, ResolvedRecord
  <2> QED
    BY <2>1, <2>2
<1> SUFFICES ASSUME NEW o \in Created', status'[o] = "superseded"
             PROVE  validTo'[o] # None /\ \E x \in rels' : Explains(x, o)'
  BY DEF SupersededIsExplained, Explains, ResolvedRecord
<1>6. o \in Objects
  BY <1>1 DEF Ends
<1>7. CASE o \in DOMAIN w.status
  <2>1. /\ o \in DOMAIN w.validTo \/ validTo[o] # None
        /\ \/ \E r \in w.insert : r.kind = "supersedes" /\ r.to = o
           \/ \E r \in w.close : /\ o \in {r.from, r.to}
                                 /\ [target |-> r, action |-> "resolve_conflict"] \in w.reviews
    BY <1>1, <1>2, <1>6, <1>7 DEF Reasons, Dates
  <2>2. validTo'[o] # None
    BY <1>1, <1>2, <1>6, <2>1 DEF Typed
  <2>3. CASE \E r \in w.insert : r.kind = "supersedes" /\ r.to = o
    BY <1>1, <2>2, <2>3 DEF Explains
  <2>4. ASSUME NEW r \in w.close, o \in {r.from, r.to},
               [target |-> r, action |-> "resolve_conflict"] \in w.reviews
        PROVE  \E x \in rels' : Explains(x, o)'
    <3>1. closed(r) \in rels' /\ o \in {closed(r).from, closed(r).to}
      BY <1>1, <1>3, <1>4, <2>4
    <3>2. ResolvedRecord(closed(r)) \in reviews'
      BY <1>1, <1>3, <1>4, <2>4 DEF ResolvedRecord
    <3> QED
      BY <3>1, <3>2 DEF Explains, ResolvedRecord
  <2> QED
    BY <2>1, <2>2, <2>3, <2>4
<1>8. CASE o \notin DOMAIN w.status
  <2>1. o \in Created /\ status[o] = "superseded"
    BY <1>1, <1>2, <1>6, <1>8 DEF Typed, Ends
  <2>2. validTo[o] # None /\ \E q \in rels : Explains(q, o)
    BY <1>2, <2>1 DEF SupersededIsExplained, Explains, ResolvedRecord
  <2>3. validTo'[o] # None
    BY <1>1, <1>2, <1>6, <2>2 DEF Typed
  <2> QED
    BY <1>5, <2>2, <2>3
<1> QED
  BY <1>7, <1>8

\* A commit supports no object by one that it outranks.
LEMMA CommitRanks ==
  ASSUME RacesInv, NEW a \in Actors, Commit(a)
  PROVE  SupportOutranked'
<1> DEFINE w == txn[a]
           closed(r) == [r EXCEPT !.open = FALSE]
           paired(q) == Rel(q.to, q.from, "duplicate_of", "dedup", FALSE)
<1>1. /\ Lawful(w, Created, item) /\ DOMAIN w.item \subseteq Objects /\ Created \subseteq Objects
      /\ DOMAIN w.item \cap Created = {}
      /\ \A o \in Objects : item'[o] = ItemOf(w, item, o)
      /\ rels' = (rels \ w.close) \cup {closed(r) : r \in w.close} \cup w.insert
  BY CommitFacts
<1>2. /\ Ranks(w, item) /\ Typed(w, Created) /\ SupportOutranked /\ rels \subseteq RelType(Created)
  BY <1>1 DEF Lawful, RacesInv, RacesTypeOK, TypeOK, RelType
<1>3. \A r \in w.close : r.open /\ r.kind # "supported_by" /\ r \in RelType(Created)
  BY <1>2 DEF Typed
<1>4. w.insert \subseteq RelType(Ends(w, Created))
  BY <1>2 DEF Typed
<1> HIDE DEF w
<1> SUFFICES ASSUME NEW q \in rels', q.kind = "supported_by"
             PROVE  Authority(item'[q.from]) >= Authority(item'[q.to]) /\ paired(q) \in rels'
  BY DEF SupportOutranked
<1>5. ASSUME NEW r \in w.close
      PROVE  q # closed(r)
  BY <1>3, <1>5 DEF RelType
<1>6. CASE q \in rels
  <2>1. paired(q) \in rels /\ Authority(item[q.from]) >= Authority(item[q.to])
    BY <1>2, <1>6 DEF SupportOutranked
  <2>2. item'[q.from] = item[q.from] /\ item'[q.to] = item[q.to]
    BY <1>1, <1>2, <1>6 DEF RelType, ItemOf
  <2>3. ~paired(q).open
    BY DEF Rel
  <2> QED
    BY <1>1, <1>3, <2>1, <2>2, <2>3
<1>7. CASE q \in w.insert
  <2>1. /\ Authority(ItemOf(w, item, q.from)) >= Authority(ItemOf(w, item, q.to))
        /\ paired(q) \in w.insert
    BY <1>2, <1>7 DEF Ranks
  <2>2. q.from \in Objects /\ q.to \in Objects
    BY <1>1, <1>4, <1>7 DEF RelType, Ends
  <2> QED
    BY <1>1, <2>1, <2>2
<1> QED
  BY <1>1, <1>5, <1>6, <1>7

-----------------------------------------------------------------------------
(* Every step keeps the invariant. *)

\* What a Begin step starts: writes decided upon now, whose ids are free, and which
\* leave no end of a relation they close conflicting.
Starts(a, w) ==
    /\ a \in Actors /\ Begin(a, w) /\ Decided(w)
    /\ \A b \in InFlight : DOMAIN w.item \cap DOMAIN txn[b].item = {}
    /\ \A r \in w.close : \A o \in {r.from, r.to} : status[o] = "conflicting" =>
                                                      o \in DOMAIN w.status
    /\ a \in Workers => DOMAIN w.item # {}

\* What a ProcessNext step adds to a job's transaction: an item on a subject of its own,
\* decided upon now, whose id is free.
Extends(a, w) ==
    /\ a \in Workers \cap InFlight /\ Decided(w) /\ w.close = {}
    /\ txn' = [txn EXCEPT ![a] = Together(txn[a], w)] /\ UNCHANGED <<vars, disturbed>>
    /\ \A b \in InFlight : DOMAIN w.item \cap DOMAIN txn[b].item = {}
    /\ \E n \in Objects, i \in Items :
         /\ ~Exists(n) /\ NewSubject(txn[a], i) /\ \E merged \in Merges(n, i) :
                                                    w = ProcessWrites(n, i, merged)

\* A step begins, continues, ends or gives up a transaction.
LEMMA StepKinds ==
  ASSUME TypeOK, RacesNext
  PROVE  \/ \E a, w : Starts(a, w)
         \/ \E a, w : Extends(a, w)
         \/ \E a \in Actors : Commit(a) \/ Rollback(a)
<1>1. ASSUME NEW a \in Workers, NEW n \in Objects, NEW i \in Items, BeginProcess(a, n, i)
      PROVE  \E b, w : Starts(b, w)
  <2>1. PICK merged \in Merges(n, i) : Begin(a, ProcessWrites(n, i, merged))
    BY <1>1 DEF BeginProcess
  <2> DEFINE w == ProcessWrites(n, i, merged)
  <2>2. Fresh(n) /\ ~Exists(n) /\ a \in Actors
    BY <1>1 DEF BeginProcess, Fresh, Actors
  <2>3. ProcessFacts(w, n, i, merged) /\ DOMAIN w.item = {n}
    BY <2>2, ProcessBasics
  <2>4. w.close = {}
    BY <2>3 DEF ProcessFacts
  <2>5. Decided(w)
    BY <2>2 DEF Decided
  <2> HIDE DEF w
  <2>6. Starts(a, w)
    BY <2>1, <2>2, <2>3, <2>4, <2>5 DEF Starts, Fresh, w
  <2> QED
    BY <2>6
<1>0. ASSUME NEW a \in Workers, NEW n \in Objects, NEW i \in Items, ProcessNext(a, n, i)
      PROVE  \E b, w : Extends(b, w)
  <2>1. PICK merged \in Merges(n, i) :
           txn' = [txn EXCEPT ![a] = Together(txn[a], ProcessWrites(n, i, merged))]
    BY <1>0 DEF ProcessNext
  <2> DEFINE w == ProcessWrites(n, i, merged)
  <2>2. /\ Fresh(n) /\ ~Exists(n) /\ a \in InFlight /\ NewSubject(txn[a], i)
        /\ UNCHANGED <<vars, disturbed>>
    BY <1>0 DEF ProcessNext, Fresh, Actors, InFlight
  <2>3. ProcessFacts(w, n, i, merged) /\ DOMAIN w.item = {n}
    BY <2>2, ProcessBasics
  <2>4. w.close = {}
    BY <2>3 DEF ProcessFacts
  <2>5. Decided(w)
    BY <2>2 DEF Decided
  <2> HIDE DEF w
  <2>6. \A b \in InFlight : DOMAIN w.item \cap DOMAIN txn[b].item = {}
    BY <2>2, <2>3 DEF Fresh
  <2>7. Extends(a, w)
    BY <2>1, <2>2, <2>4, <2>5, <2>6 DEF Extends, w
  <2> QED
    BY <2>7
<1>2. ASSUME NEW a \in Requests, NEW o \in Objects, NEW w, Begin(a, w), Reviewable(o),
             \/ \E action \in DOMAIN NewStatus : w = StatusWrites(o, action)
             \/ \E patch \in Patches : w = EditWrites(o, patch)
      PROVE  Starts(a, w)
  <2>1. ReviewFacts(w, o)
    BY <1>2, ReviewFields
  <2>2. DOMAIN w.item = {} /\ w.close = {}
    BY <2>1 DEF ReviewFacts, Empty
  <2>3. Decided(w)
    BY <1>2 DEF Decided
  <2> QED
    BY <1>2, <2>2, <2>3, RacesAssumption DEF Starts, Actors
<1>3. ASSUME NEW a \in Requests, NEW r \in rels, NEW keep \in Verdicts(r), BeginResolve(a, r, keep)
      PROVE  Starts(a, ResolveWrites(r, keep))
  <2> DEFINE w == ResolveWrites(r, keep)
  <2>1. ResolveFacts(w, r, keep) /\ Resolvable(r) /\ Begin(a, w)
    BY <1>3, ResolveFields DEF BeginResolve
  <2>2. Decided(w)
    BY <2>1 DEF Decided
  <2> HIDE DEF w
  <2>3. DOMAIN w.item = {} /\ w.close = {r}
    BY <2>1 DEF ResolveFacts, Empty
  <2>4. \A o \in {r.from, r.to} : status[o] = "conflicting" => o \in DOMAIN w.status
    BY <2>1 DEF ResolveFacts, Verdict
  <2>5. Starts(a, w)
    BY <2>1, <2>2, <2>3, <2>4, RacesAssumption DEF Starts, Actors
  <2> QED
    BY <2>5 DEF w
<1>4. ASSUME NEW q \in Requests, NEW o \in Objects,
             \/ \E action \in DOMAIN NewStatus : BeginReview(q, o, action)
             \/ \E patch \in Patches : BeginEdit(q, o, patch)
      PROVE  \E a, w : Starts(a, w)
  <2>1. ASSUME NEW action \in DOMAIN NewStatus, BeginReview(q, o, action)
        PROVE  Starts(q, StatusWrites(o, action))
    BY <1>2, <2>1 DEF BeginReview
  <2>2. ASSUME NEW patch \in Patches, BeginEdit(q, o, patch)
        PROVE  Starts(q, EditWrites(o, patch))
    BY <1>2, <2>2 DEF BeginEdit
  <2> QED
    BY <1>4, <2>1, <2>2
<1> QED
  BY <1>0, <1>1, <1>3, <1>4 DEF RacesNext

\* What a handler decides depends on the ledger alone.
LEMMA DecidedStays == ASSUME UNCHANGED vars, NEW w, Decided(w) PROVE Decided(w)'
<1>1. /\ item' = item /\ attrs' = attrs /\ status' = status /\ version' = version
      /\ history' = history /\ rels' = rels /\ validTo' = validTo
  BY DEF vars
<1>2. Created' = Created /\ \A o : Exists(o)' <=> Exists(o)
  BY <1>1 DEF Created, Exists
<1>3. /\ \A i : Siblings(i)' = Siblings(i)
      /\ \A i, o : Supersedes(i, o)' <=> Supersedes(i, o)
      /\ \A n, i, o : Canonical(n, i, o)' = Canonical(n, i, o)
      /\ \A n, i, o : Duplicate(n, i, o)' = Duplicate(n, i, o)
      /\ \A n, i : LineageRels(n, i)' = LineageRels(n, i)
  BY <1>1, <1>2 DEF Siblings, Supersedes, StageDisagreement, Canonical, Duplicate, NewIsCanonical,
                    LineageRels
<1>4. \A i : Clashing(i)' = Clashing(i)
  BY <1>1, <1>3 DEF Clashing
<1>5. /\ \A i : Agreeing(i)' = Agreeing(i)
      /\ \A i : ToSupersede(i)' = ToSupersede(i)
  BY <1>3, <1>4 DEF Agreeing, ToSupersede
<1>6. \A i : ToConflict(i)' = ToConflict(i)
  BY <1>4, <1>5 DEF ToConflict
<1>7. \A n, i, o, sim : DedupRels(n, i, o, sim)' = DedupRels(n, i, o, sim)
  BY <1>3 DEF DedupRels
<1>8. \A n, i : Merges(n, i)' = Merges(n, i)
  BY <1>5, <1>7 DEF Merges
<1>9. \A o, st, who : NextRow(o, st, who)' = NextRow(o, st, who)
  BY <1>1 DEF NextRow
<1>10. \A n, i, merged : ProcessWrites(n, i, merged)' = ProcessWrites(n, i, merged)
  <2> DEFINE W(n, i, merged, conflict, replaced, lineage, ver, vt) ==
        LET moved == conflict \cup replaced
            first == IF conflict # {} THEN "conflicting" ELSE InitialStatus(i)
            St == [o \in moved |-> IF o \in conflict THEN "conflicting" ELSE "superseded"]
        IN [NoWrites EXCEPT
              !.item = [o \in {n} |-> i],
              !.attrs = [o \in {n} |-> i.attrs],
              !.status = [o \in moved \cup {n} |-> IF o = n THEN first ELSE St[o]],
              !.version = [o \in moved \cup {n} |-> IF o = n THEN 1 ELSE ver[o] + 1],
              !.validTo = Dirty(vt, [o \in replaced |-> i.ts]),
              !.rows = {Row(n, 1, first, "system")}
                         \cup {Row(o, ver[o] + 1, St[o], "system") : o \in moved},
              !.insert = ConflictRels(n, conflict) \cup R3Rels(n, replaced)
                           \cup merged \cup lineage]
  <2>1. /\ \A n, i, merged : ProcessWrites(n, i, merged) =
             W(n, i, merged, ToConflict(i), ToSupersede(i), LineageRels(n, i), version, validTo)
        /\ \A n, i, merged : ProcessWrites(n, i, merged)' =
             W(n, i, merged, ToConflict(i)', ToSupersede(i)', LineageRels(n, i)', version', validTo')
    BY DEF ProcessWrites, NextRow
  <2> HIDE DEF W
  <2> QED
    BY <1>1, <1>3, <1>5, <1>6, <2>1
<1>11. /\ \A o, action, st : ReviewWrites(o, action, st)' = ReviewWrites(o, action, st)
       /\ \A o : Reviewable(o)' <=> Reviewable(o)
  BY <1>1, <1>2, <1>9 DEF ReviewWrites, Reviewable
<1>12. /\ \A o, action : StatusWrites(o, action)' = StatusWrites(o, action)
       /\ \A o, patch : EditWrites(o, patch)' = EditWrites(o, patch)
  BY <1>1, <1>11 DEF StatusWrites, EditWrites
<1>13. /\ \A r, keep : ResolveWrites(r, keep)' = ResolveWrites(r, keep)
       /\ \A r : Resolvable(r)' <=> Resolvable(r)
  <2> DEFINE W(r, keep, st, ver) ==
        LET lose == {r.from, r.to} \ keep
            verdict == [o \in keep \cup lose |-> IF o \in keep THEN "active" ELSE "superseded"]
            moved == {o \in keep \cup lose : st[o] # verdict[o]}
        IN [NoWrites EXCEPT
              !.status = [o \in moved |-> verdict[o]],
              !.version = [o \in moved |-> ver[o] + 1],
              !.validTo = [o \in lose |-> Now],
              !.rows = {Row(o, ver[o] + 1, verdict[o], "system") : o \in moved},
              !.insert = WinnerRels(keep, lose),
              !.close = {r},
              !.reviews = {[target |-> r, action |-> "resolve_conflict"]}]
  <2>1. /\ \A r, keep : ResolveWrites(r, keep) = W(r, keep, status, version)
        /\ \A r, keep : ResolveWrites(r, keep)' = W(r, keep, status', version')
    BY DEF ResolveWrites, NextRow
  <2> HIDE DEF W
  <2>2. \A r, keep : ResolveWrites(r, keep)' = ResolveWrites(r, keep)
    BY <1>1, <2>1
  <2> QED
    BY <1>1, <2>2 DEF Resolvable
<1> QED
  BY <1>1, <1>2, <1>8, <1>10, <1>11, <1>12, <1>13 DEF Decided

\* Beginning a transaction keeps the invariant.
LEMMA BeginStep ==
  ASSUME RacesInv, NEW a, NEW w, Starts(a, w)
  PROVE  RacesInv'
<1>1. /\ a \in Actors /\ Decided(w) /\ a \notin InFlight
      /\ txn' = [txn EXCEPT ![a] = w] /\ DOMAIN txn = Actors
      /\ UNCHANGED <<vars, disturbed>>
  BY DEF Starts, Begin, InFlight, RacesInv, RacesTypeOK
<1>2. Lawful(w, Created, item) /\ DOMAIN w.item \cap Created = {}
  BY <1>1, DecidedLawful DEF RacesInv, RacesTypeOK
<1>3. /\ InFlight' \subseteq InFlight \cup {a} /\ txn'[a] = w
      /\ \A b \in InFlight : txn'[b] = txn[b]
  BY <1>1 DEF InFlight
<1>4. Created' = Created /\ item' = item /\ status' = status /\ rels' = rels
  BY <1>1 DEF vars, Created, Exists
<1>5. RacesTypeOK'
  <2>1. TypeOK' /\ attrs' = attrs /\ DOMAIN txn' = Actors
    BY <1>1, TypeStep DEF RacesInv, RacesTypeOK, vars
  <2> QED
    BY <2>1 DEF RacesInv, RacesTypeOK
<1>6. Txns'
  BY <1>1, <1>2, <1>3, <1>4 DEF RacesInv, Txns
<1>7. Unclaimed'
  <2>1. \A b \in InFlight : DOMAIN w.item \cap DOMAIN txn[b].item = {}
    BY DEF Starts
  <2>2. \A b \in InFlight' : b = a \/ b \in InFlight
    BY <1>3
  <2> QED
    BY <1>1, <1>2, <1>3, <1>4, <2>1, <2>2 DEF RacesInv, Unclaimed
<1>8. Settleable'
  <2>1. \A r \in w.close : \A o \in {r.from, r.to} : status[o] = "conflicting" => o \in DOMAIN w.status
    BY DEF Starts
  <2> SUFFICES ASSUME NEW o \in Objects, status[o] = "conflicting"
               PROVE  \E r \in rels : /\ r.kind = "contradicts" /\ r.open /\ o \in {r.from, r.to}
                                      /\ \A b \in InFlight' : r \in txn'[b].close =>
                                                                o \in DOMAIN txn'[b].status
    BY <1>4 DEF Settleable
  <2>2. PICK r \in rels : /\ r.kind = "contradicts" /\ r.open /\ o \in {r.from, r.to}
                          /\ \A b \in InFlight : r \in txn[b].close => o \in DOMAIN txn[b].status
    BY DEF RacesInv, Settleable
  <2>3. ASSUME NEW b \in InFlight', r \in txn'[b].close
        PROVE  o \in DOMAIN txn'[b].status
    BY <1>3, <2>1, <2>2, <2>3
  <2> QED
    BY <2>2, <2>3
<1>9. Snapshot'
  <2>1. \A x : Decided(x) => Decided(x)'
    BY <1>1, DecidedStays
  <2> QED
    BY <1>1, <1>3, <2>1 DEF RacesInv, Snapshot
<1>10. OneOpenQuestion' /\ SupersededIsExplained' /\ SupportOutranked'
  BY <1>1, <1>4 DEF RacesInv, vars, OneOpenQuestion, SupersededIsExplained, SupportOutranked
<1>11. Dated'
  <2>1. Dates(w, validTo) /\ validTo' = validTo
    BY <1>1, DecidedDated DEF RacesInv, RacesTypeOK, vars
  <2> QED
    BY <1>3, <2>1 DEF RacesInv, Dated
<1>12. Jobs'
  <2>1. a \in Workers => DOMAIN w.item # {}
    BY DEF Starts
  <2> QED
    BY <1>3, <2>1 DEF RacesInv, Jobs
<1> QED
  BY <1>5, <1>6, <1>7, <1>8, <1>9, <1>10, <1>11, <1>12 DEF RacesInv

\* So does going on to a job's next item.
LEMMA ExtendStep ==
  ASSUME RacesInv, NEW a, NEW w, Extends(a, w)
  PROVE  RacesInv'
<1>0. PICK u, v : v = txn[a] /\ u = Together(v, w)
  OBVIOUS
<1>1. /\ a \in Workers /\ a \in InFlight /\ Decided(w) /\ w.close = {}
      /\ txn' = [txn EXCEPT ![a] = u] /\ DOMAIN txn = Actors
      /\ UNCHANGED <<vars, disturbed>>
      /\ \A b \in InFlight : DOMAIN w.item \cap DOMAIN txn[b].item = {}
  BY <1>0 DEF Extends, RacesInv, RacesTypeOK
<1>2. TogetherFacts(u, v, w) /\ DOMAIN u.item = DOMAIN v.item \cup DOMAIN w.item
  <2>1. TogetherFacts(u, v, w)
    BY <1>0, TogetherFields
  <2>2. u.item = Over(v.item, w.item)
    BY <2>1 DEF TogetherFacts
  <2> QED
    BY <2>1, <2>2 DEF Over
<1>3. /\ InFlight' \subseteq InFlight /\ txn'[a] = u
      /\ \A b \in InFlight : b # a => txn'[b] = txn[b]
  BY <1>1 DEF InFlight
<1>4. /\ Created' = Created /\ item' = item /\ status' = status /\ rels' = rels
      /\ validTo' = validTo
  BY <1>1 DEF vars, Created, Exists
<1>5. RacesTypeOK'
  <2>1. TypeOK' /\ attrs' = attrs /\ DOMAIN txn' = Actors
    BY <1>1, TypeStep DEF RacesInv, RacesTypeOK, vars
  <2> QED
    BY <2>1 DEF RacesInv, RacesTypeOK
<1>6. Lawful(w, Created, item) /\ DOMAIN w.item \cap Created = {} /\ Dates(w, validTo)
  BY <1>1, DecidedLawful, DecidedDated DEF RacesInv, RacesTypeOK
<1>7. /\ Lawful(v, Created, item) /\ DOMAIN v.item \cap Created = {} /\ Dates(v, validTo)
      /\ DOMAIN v.item \cap DOMAIN w.item = {}
  BY <1>0, <1>1 DEF RacesInv, Txns, Unclaimed, Dated
<1>8. Lawful(u, Created, item) /\ Dates(u, validTo)
  BY <1>2, <1>6, <1>7, TogetherLawful, TogetherDated
<1>9. Txns' /\ Dated'
  BY <1>3, <1>4, <1>8 DEF RacesInv, Txns, Dated
<1>10. Unclaimed'
  <2>1. \A b \in InFlight : /\ DOMAIN txn[b].item \cap Created = {}
                            /\ a # b => DOMAIN v.item \cap DOMAIN txn[b].item = {}
    BY <1>0, <1>1 DEF RacesInv, Unclaimed
  <2>2. DOMAIN u.item \cap Created = {} /\ \A b \in InFlight : a # b => DOMAIN u.item \cap DOMAIN txn[b].item = {}
    BY <1>1, <1>2, <1>6, <1>7, <2>1
  <2> QED
    BY <1>3, <1>4, <2>2 DEF RacesInv, Unclaimed
<1>11. Settleable'
  <2>1. u.close = v.close /\ DOMAIN v.status \subseteq DOMAIN u.status
    BY <1>1, <1>2 DEF TogetherFacts, Over
  <2> SUFFICES ASSUME NEW o \in Objects, status[o] = "conflicting"
               PROVE  \E r \in rels : /\ r.kind = "contradicts" /\ r.open /\ o \in {r.from, r.to}
                                      /\ \A b \in InFlight' : r \in txn'[b].close =>
                                                                o \in DOMAIN txn'[b].status
    BY <1>4 DEF Settleable
  <2>2. PICK r \in rels : /\ r.kind = "contradicts" /\ r.open /\ o \in {r.from, r.to}
                          /\ \A b \in InFlight : r \in txn[b].close => o \in DOMAIN txn[b].status
    BY DEF RacesInv, Settleable
  <2>3. ASSUME NEW b \in InFlight', r \in txn'[b].close
        PROVE  o \in DOMAIN txn'[b].status
    BY <1>0, <1>1, <1>3, <2>1, <2>2, <2>3
  <2> QED
    BY <2>2, <2>3
<1>12. Snapshot'
  <2>1. \A x : Decided(x) => Decided(x)'
    BY <1>1, DecidedStays
  <2>2. ~Single(u)
    <3>1. DOMAIN v.item # {}
      BY <1>0, <1>1 DEF RacesInv, Jobs
    <3>2. DOMAIN w.item # {}
      <4>1. PICK n \in Objects, i \in Items :
               ~Exists(n) /\ \E merged \in Merges(n, i) : w = ProcessWrites(n, i, merged)
        BY DEF Extends
      <4> QED
        BY <4>1, ProcessBasics
    <3> QED
      BY <1>2, <1>7, <3>1, <3>2 DEF Single
  <2> QED
    BY <1>1, <1>3, <2>1, <2>2 DEF RacesInv, Snapshot
<1>13. Jobs'
  BY <1>0, <1>1, <1>2, <1>3 DEF RacesInv, Jobs
<1>14. OneOpenQuestion' /\ SupersededIsExplained' /\ SupportOutranked'
  BY <1>1, <1>4 DEF RacesInv, vars, OneOpenQuestion, SupersededIsExplained, SupportOutranked
<1> QED
  BY <1>5, <1>9, <1>10, <1>11, <1>12, <1>13, <1>14 DEF RacesInv

\* A commit keeps the invariant, and disturbs every transaction it overlaps.
LEMMA CommitStep ==
  ASSUME RacesInv, NEW a \in Actors, Commit(a)
  PROVE  RacesInv'
<1>1. Snapshot'
  <2>1. InFlight' \ disturbed' = {}
    BY CommitFacts
  <2> QED
    BY <2>1 DEF Snapshot
<1>2. Dated' /\ Jobs'
  <2>1. PICK w : w = txn[a]
    OBVIOUS
  <2>2. /\ Lawful(w, Created, item) /\ Created \subseteq Objects /\ DOMAIN w.item \subseteq Objects
        /\ \A o \in Objects : validTo'[o] = IF o \in DOMAIN w.validTo THEN w.validTo[o]
                                                                    ELSE validTo[o]
        /\ InFlight' = InFlight \ {a} /\ \A b \in InFlight' : txn'[b] = txn[b]
    BY <2>1, CommitFacts
  <2>3. ASSUME NEW o \in Objects, validTo[o] # None
        PROVE  validTo'[o] # None
    BY <2>2, <2>3, LedgerAssumption DEF Lawful, Typed
  <2>4. ASSUME NEW b \in InFlight'
        PROVE  Dates(txn'[b], validTo')
    <3>1. /\ Dates(txn[b], validTo) /\ txn'[b] = txn[b]
          /\ Typed(txn[b], Created)
      BY <2>2, <2>4 DEF RacesInv, Dated, Txns, Lawful
    <3>2. \A o \in DOMAIN txn[b].status : o \in Objects
      BY <2>2, <3>1 DEF Typed, Ends
    <3> QED
      BY <2>3, <3>1, <3>2 DEF Dates
  <2> QED
    BY <2>2, <2>4 DEF Dated, RacesInv, Jobs
<1> QED
  BY <1>1, <1>2, CommitTypes, CommitTxns, CommitSettleable, CommitAsks, CommitExplains, CommitRanks
     DEF RacesInv

\* Giving up a transaction, or a step of nobody, keeps the invariant.
LEMMA QuietStep ==
  ASSUME RacesInv, \/ UNCHANGED raceVars
                   \/ \E a \in Actors : Rollback(a)
  PROVE  RacesInv'
<1>1. UNCHANGED vars
  BY DEF raceVars, Rollback
<1>2. /\ DOMAIN txn' = Actors
      /\ InFlight' \subseteq InFlight /\ InFlight' \ disturbed' \subseteq InFlight \ disturbed
      /\ \A b \in InFlight' : txn'[b] = txn[b]
  <2>1. CASE UNCHANGED raceVars
    BY <2>1 DEF raceVars, InFlight, RacesInv, RacesTypeOK
  <2>2. ASSUME NEW a \in Actors, Rollback(a)
        PROVE  /\ DOMAIN txn' = Actors /\ disturbed' = disturbed \ {a}
               /\ InFlight' = InFlight \ {a} /\ \A b \in InFlight' : txn'[b] = txn[b]
    <3>1. /\ txn' = [txn EXCEPT ![a] = None] /\ disturbed' = disturbed \ {a}
          /\ DOMAIN txn = Actors
      BY <2>2 DEF Rollback, RacesInv, RacesTypeOK
    <3> QED
      BY <3>1 DEF InFlight
  <2> QED
    BY <2>1, <2>2
<1>3. Created' = Created /\ item' = item /\ status' = status /\ rels' = rels
  BY <1>1 DEF vars, Created, Exists
<1>4. RacesTypeOK'
  <2>1. TypeOK' /\ attrs' = attrs
    BY <1>1, TypeStep DEF RacesInv, RacesTypeOK, vars
  <2> QED
    BY <1>2, <2>1 DEF RacesInv, RacesTypeOK
<1>5. Txns' /\ Unclaimed'
  BY <1>2, <1>3 DEF RacesInv, Txns, Unclaimed
<1>6. Settleable'
  BY <1>2, <1>3 DEF RacesInv, Settleable
<1>7. Snapshot'
  <2>1. \A x : Decided(x) => Decided(x)'
    BY <1>1, DecidedStays
  <2> QED
    BY <1>2, <2>1 DEF RacesInv, Snapshot
<1>8. OneOpenQuestion' /\ SupersededIsExplained' /\ SupportOutranked'
  BY <1>1, <1>3 DEF RacesInv, vars, OneOpenQuestion, SupersededIsExplained, SupportOutranked
<1>9. Dated' /\ Jobs'
  <2>1. validTo' = validTo
    BY <1>1 DEF vars
  <2> QED
    BY <1>2, <2>1 DEF RacesInv, Dated, Jobs
<1> QED
  BY <1>4, <1>5, <1>6, <1>7, <1>8, <1>9 DEF RacesInv

\* Every step keeps the invariant.
LEMMA RacesInvStep == RacesInv /\ [RacesNext]_raceVars => RacesInv'
<1> SUFFICES ASSUME RacesInv, RacesNext
             PROVE  RacesInv'
  BY QuietStep
<1>1. \/ \E a, w : Starts(a, w)
      \/ \E a, w : Extends(a, w)
      \/ \E a \in Actors : Commit(a) \/ Rollback(a)
  BY StepKinds DEF RacesInv, RacesTypeOK
<1> QED
  BY <1>1, BeginStep, ExtendStep, CommitStep, QuietStep

\* The invariant holds in every run.
LEMMA RacesInvariant == RacesSpec => []RacesInv
<1> QED
  BY RacesInvInit, RacesInvStep, PTL DEF RacesSpec

-----------------------------------------------------------------------------
(* What overlapping transactions leave true. *)

\* The values keep their types, whatever overlaps: no relation, row or confirmation is
\* left of an object that does not exist.
THEOREM RacesTypes == RacesSpec => []TypeOK
<1>1. RacesInv => TypeOK
  BY DEF RacesInv, RacesTypeOK
<1> QED
  BY <1>1, RacesInvariant, PTL

\* Every conflicting object can be found in the list of conflicts and settled, whatever
\* overlaps: no two transactions strand it between them.
THEOREM RacesListed == RacesSpec => []ConflictIsListed
<1>1. RacesInv => ConflictIsListed
  BY DEF RacesInv, Settleable, ConflictIsListed
<1> QED
  BY <1>1, RacesInvariant, PTL

\* A pair of objects is one question, whatever overlaps.
THEOREM RacesOneQuestion == RacesSpec => []OneOpenQuestion
<1>1. RacesInv => OneOpenQuestion
  BY DEF RacesInv
<1> QED
  BY <1>1, RacesInvariant, PTL

\* A superseded object says since when and by what, whatever overlaps.
THEOREM RacesExplained == RacesSpec => []SupersededIsExplained
<1>1. RacesInv => SupersededIsExplained
  BY DEF RacesInv
<1> QED
  BY <1>1, RacesInvariant, PTL

\* No canonical object is outranked by its duplicate, whatever overlaps.
THEOREM RacesOutranked == RacesSpec => []SupportOutranked
<1>1. RacesInv => SupportOutranked
  BY DEF RacesInv
<1> QED
  BY <1>1, RacesInvariant, PTL

-----------------------------------------------------------------------------
(* An undisturbed transaction is a step of module Ledger. *)

\* The commit of a new object, decided upon in the present state, is a Process step.
LEMMA SerialProcess ==
  ASSUME RacesTypeOK, NEW a \in Actors, Commit(a), NEW n \in Objects, NEW i \in Items, ~Exists(n),
         NEW merged \in Merges(n, i), txn[a] = ProcessWrites(n, i, merged)
  PROVE  Process(n, i)
<1> DEFINE w == txn[a]
           first == IF ToConflict(i) # {} THEN "conflicting" ELSE InitialStatus(i)
<1>1. /\ ProcessFacts(w, n, i, merged) /\ n \notin Moved(i) /\ n \notin Created
      /\ Moved(i) \subseteq Objects /\ ToConflict(i) \cap ToSupersede(i) = {}
  BY ProcessBasics, SiblingsSplit
<1>2. /\ item' = Assign(item, w.item) /\ attrs' = Assign(attrs, w.attrs)
      /\ status' = Assign(status, w.status) /\ validTo' = Assign(validTo, w.validTo)
      /\ version' = Assign(version, w.version) /\ confirmed' = confirmed \cup w.confirmed
      /\ history' = history \cup w.rows
      /\ rels' = (rels \ w.close) \cup {[r EXCEPT !.open = FALSE] : r \in w.close} \cup w.insert
      /\ reviews' = reviews \cup w.reviews
  BY DEF Commit
<1>3. /\ DOMAIN item = Objects /\ item = [o \in Objects |-> item[o]]
      /\ DOMAIN attrs = Objects /\ attrs = [o \in Objects |-> attrs[o]]
      /\ DOMAIN status = Objects /\ DOMAIN validTo = Objects /\ DOMAIN version = Objects
  BY DEF RacesTypeOK, TypeOK
<1> HIDE DEF w
<1>4. item' = [item EXCEPT ![n] = i] /\ attrs' = [attrs EXCEPT ![n] = i.attrs]
  BY <1>1, <1>2, <1>3 DEF ProcessFacts, Assign
<1>5. status' = [o \in Objects |-> CASE o = n -> first
                                     [] o \in ToConflict(i) -> "conflicting"
                                     [] o \in ToSupersede(i) -> "superseded"
                                     [] OTHER -> status[o]]
  <2>1. \A o \in Objects : IF o \in DOMAIN w.status
                             THEN w.status[o] = IF o = n THEN first
                                                ELSE IF o \in ToConflict(i) THEN "conflicting"
                                                ELSE "superseded"
                             ELSE o # n /\ o \notin ToConflict(i) /\ o \notin ToSupersede(i)
    BY <1>1 DEF ProcessFacts, Moved
  <2>2. \A o \in Objects : o \in DOMAIN w.status /\ o # n /\ o \notin ToConflict(i) => o \in ToSupersede(i)
    BY <1>1 DEF ProcessFacts, Moved
  <2>3. status' = [o \in Objects |-> IF o \in DOMAIN w.status THEN w.status[o] ELSE status[o]]
    BY <1>2, <1>3 DEF Assign
  <2> HIDE DEF first
  <2>4. ASSUME NEW o \in Objects
        PROVE  (IF o \in DOMAIN w.status THEN w.status[o] ELSE status[o]) =
                 CASE o = n -> first
                   [] o \in ToConflict(i) -> "conflicting"
                   [] o \in ToSupersede(i) -> "superseded"
                   [] OTHER -> status[o]
    <3>1. n \notin ToConflict(i) /\ n \notin ToSupersede(i)
            /\ (o \in ToConflict(i) => o \notin ToSupersede(i))
      BY <1>1 DEF Moved
    <3> QED
      BY <2>1, <2>2, <3>1
  <2> QED
    BY <2>3, <2>4
<1>6. version' = [o \in Objects |-> CASE o = n -> 1
                                      [] o \in ToConflict(i) \cup ToSupersede(i) -> version[o] + 1
                                      [] OTHER -> version[o]]
  BY <1>1, <1>2, <1>3 DEF ProcessFacts, Moved, Assign
<1>7. validTo' = [o \in Objects |-> IF o \in ToSupersede(i) THEN i.ts ELSE validTo[o]]
  <2> DEFINE ts == [o \in ToSupersede(i) |-> i.ts]
  <2>1. validTo' = Assign(validTo, Dirty(validTo, ts))
    BY <1>1, <1>2 DEF ProcessFacts
  <2>2. validTo' = Assign(validTo, ts)
    <3> HIDE DEF ts
    <3> QED
      BY <2>1 DEF Dirty, Assign
  <2> QED
    BY <1>3, <2>2 DEF Assign
<1>8. history' = history \cup {Row(n, 1, first, "system")}
                   \cup {NextRow(o, "conflicting", "system") : o \in ToConflict(i)}
                   \cup {NextRow(o, "superseded", "system") : o \in ToSupersede(i)}
  <2>1. w.status[n] = first
    BY <1>1 DEF ProcessFacts
  <2>2. {NextRow(o, w.status[o], "system") : o \in Moved(i)}
          = {NextRow(o, "conflicting", "system") : o \in ToConflict(i)}
              \cup {NextRow(o, "superseded", "system") : o \in ToSupersede(i)}
    <3>1. /\ \A o \in ToConflict(i) : o \in Moved(i) /\ w.status[o] = "conflicting"
          /\ \A o \in ToSupersede(i) : o \in Moved(i) /\ w.status[o] = "superseded"
          /\ \A o \in Moved(i) : o \in ToConflict(i) \/ o \in ToSupersede(i)
      BY <1>1 DEF ProcessFacts, Moved
    <3> QED
      BY <3>1
  <2> QED
    BY <1>1, <1>2, <2>1, <2>2 DEF ProcessFacts
<1>9. rels' = rels \cup ConflictRels(n, ToConflict(i)) \cup R3Rels(n, ToSupersede(i))
                   \cup merged \cup LineageRels(n, i)
  <2>1. w.close = {} /\ w.insert = ConflictRels(n, ToConflict(i)) \cup R3Rels(n, ToSupersede(i))
                                     \cup merged \cup LineageRels(n, i)
    BY <1>1 DEF ProcessFacts
  <2> QED
    BY <1>2, <2>1
<1>10. UNCHANGED <<confirmed, reviews>>
  BY <1>1, <1>2 DEF ProcessFacts
<1> QED
  BY <1>4, <1>5, <1>6, <1>7, <1>8, <1>9, <1>10 DEF Process

\* The commit of a review decided upon in the present state is that review's step.
LEMMA SerialReview ==
  ASSUME RacesTypeOK, NEW a \in Actors, Commit(a), NEW o \in Objects, Reviewable(o)
  PROVE  /\ \A action \in DOMAIN NewStatus :
              txn[a] = StatusWrites(o, action) => Confirm(o) \/ Ignore(o) \/ MarkStale(o)
         /\ \A patch \in Patches : txn[a] = EditWrites(o, patch) => Edit(o, patch)
<1> DEFINE w == txn[a]
<1>1. /\ item' = Assign(item, w.item) /\ attrs' = Assign(attrs, w.attrs)
      /\ status' = Assign(status, w.status) /\ validTo' = Assign(validTo, w.validTo)
      /\ version' = Assign(version, w.version) /\ confirmed' = confirmed \cup w.confirmed
      /\ history' = history \cup w.rows
      /\ rels' = (rels \ w.close) \cup {[r EXCEPT !.open = FALSE] : r \in w.close} \cup w.insert
      /\ reviews' = reviews \cup w.reviews
  BY DEF Commit
<1>2. /\ item = [p \in Objects |-> item[p]] /\ attrs = [p \in Objects |-> attrs[p]]
      /\ status = [p \in Objects |-> status[p]] /\ validTo = [p \in Objects |-> validTo[p]]
      /\ version = [p \in Objects |-> version[p]]
  BY DEF RacesTypeOK, TypeOK
<1> HIDE DEF w
<1>3. ASSUME NEW action, NEW st,
             w.item = Empty, w.validTo = Empty, w.insert = {}, w.close = {},
             w.version = [p \in {o} |-> version[o] + 1],
             w.rows = {NextRow(o, st, "human")},
             w.reviews = {[target |-> o, action |-> action]},
             status' = [status EXCEPT ![o] = st]
      PROVE  Reviewed(o, action, st)
  <2>1. item' = item /\ validTo' = validTo
    BY <1>1, <1>2, <1>3 DEF Assign, Empty
  <2>2. version' = [version EXCEPT ![o] = @ + 1]
    BY <1>1, <1>2, <1>3 DEF Assign
  <2>3. rels' = rels
    BY <1>1, <1>3
  <2> QED
    BY <1>1, <1>3, <2>1, <2>2, <2>3 DEF Reviewed
<1>4. ASSUME NEW action \in DOMAIN NewStatus, w = StatusWrites(o, action)
      PROVE  Confirm(o) \/ Ignore(o) \/ MarkStale(o)
  <2>1. /\ w.item = Empty /\ w.attrs = Empty /\ w.validTo = Empty /\ w.insert = {} /\ w.close = {}
        /\ w.status = Dirty(status, [p \in {o} |-> NewStatus[action]])
        /\ w.version = [p \in {o} |-> version[o] + 1]
        /\ w.rows = {NextRow(o, NewStatus[action], "human")}
        /\ w.reviews = {[target |-> o, action |-> action]}
        /\ w.confirmed = IF action = "confirm" THEN {o} ELSE {}
    BY <1>4 DEF StatusWrites, ReviewWrites, NoWrites
  <2>2. attrs' = attrs
    BY <1>1, <1>2, <2>1 DEF Assign, Empty
  <2>3. status' = [status EXCEPT ![o] = NewStatus[action]]
    <3> DEFINE new == [p \in {o} |-> NewStatus[action]]
    <3>1. status' = Assign(status, Dirty(status, new))
      BY <1>1, <2>1
    <3>2. status' = Assign(status, new)
      <4> HIDE DEF new
      <4> QED
        BY <3>1 DEF Dirty, Assign
    <3> QED
      BY <1>2, <3>2 DEF Assign
  <2>4. Reviewed(o, action, NewStatus[action])
    BY <1>3, <2>1, <2>3
  <2>5. action \in {"confirm", "ignore", "mark_stale"}
    BY DEF NewStatus
  <2>6. NewStatus["confirm"] = "active" /\ NewStatus["ignore"] = "ignored" /\ NewStatus["mark_stale"] = "stale"
    BY DEF NewStatus
  <2>7. confirmed' = IF action = "confirm" THEN confirmed \cup {o} ELSE confirmed
    BY <1>1, <2>1
  <2> QED
    BY <2>2, <2>4, <2>5, <2>6, <2>7 DEF Confirm, Ignore, MarkStale
<1>5. ASSUME NEW patch \in Patches, w = EditWrites(o, patch)
      PROVE  Edit(o, patch)
  <2>1. /\ w.item = Empty /\ w.validTo = Empty /\ w.insert = {} /\ w.close = {} /\ w.status = Empty
        /\ w.attrs = Dirty(attrs, [p \in {o} |-> Assign(attrs[o], patch)])
        /\ w.version = [p \in {o} |-> version[o] + 1]
        /\ w.rows = {NextRow(o, status[o], "human")}
        /\ w.reviews = {[target |-> o, action |-> "edit"]}
        /\ w.confirmed = {}
    BY <1>5 DEF EditWrites, ReviewWrites, NoWrites
  <2>2. status' = [status EXCEPT ![o] = status[o]]
    BY <1>1, <1>2, <2>1 DEF Assign, Empty
  <2>3. Reviewed(o, "edit", status[o])
    BY <1>3, <2>1, <2>2
  <2>4. attrs' = [attrs EXCEPT ![o] = Assign(attrs[o], patch)]
    <3> DEFINE edited == Assign(attrs[o], patch)
               new == [p \in {o} |-> edited]
    <3>1. attrs' = Assign(attrs, Dirty(attrs, new))
      BY <1>1, <2>1
    <3> HIDE DEF edited
    <3>2. attrs' = Assign(attrs, new)
      <4> HIDE DEF new
      <4> QED
        BY <3>1 DEF Dirty, Assign
    <3>3. attrs' = [attrs EXCEPT ![o] = edited]
      BY <1>2, <3>2 DEF Assign
    <3> QED
      BY <3>3 DEF edited
  <2>5. confirmed' = confirmed
    BY <1>1, <2>1
  <2> QED
    BY <2>3, <2>4, <2>5 DEF Edit, Assign
<1> QED
  BY <1>4, <1>5 DEF w

\* The commit of a resolution decided upon in the present state is a Resolve step.
LEMMA SerialResolve ==
  ASSUME RacesTypeOK, NEW a \in Actors, Commit(a), NEW r \in rels, NEW keep \in Verdicts(r),
         Resolvable(r), txn[a] = ResolveWrites(r, keep)
  PROVE  Resolve(r, keep)
<1> DEFINE w == txn[a]
           lose == {r.from, r.to} \ keep
           verdict == [o \in keep \cup lose |-> IF o \in keep THEN "active" ELSE "superseded"]
           moved == {o \in keep \cup lose : status[o] # verdict[o]}
<1>1. /\ item' = Assign(item, w.item) /\ attrs' = Assign(attrs, w.attrs)
      /\ status' = Assign(status, w.status) /\ validTo' = Assign(validTo, w.validTo)
      /\ version' = Assign(version, w.version) /\ confirmed' = confirmed \cup w.confirmed
      /\ history' = history \cup w.rows
      /\ rels' = (rels \ w.close) \cup {[x EXCEPT !.open = FALSE] : x \in w.close} \cup w.insert
      /\ reviews' = reviews \cup w.reviews
  BY DEF Commit
<1>2. /\ item = [p \in Objects |-> item[p]] /\ attrs = [p \in Objects |-> attrs[p]]
      /\ DOMAIN status = Objects /\ DOMAIN validTo = Objects /\ DOMAIN version = Objects
  BY DEF RacesTypeOK, TypeOK
<1>3. /\ w.item = Empty /\ w.attrs = Empty /\ w.confirmed = {}
      /\ w.status = [o \in moved |-> verdict[o]]
      /\ w.version = [o \in moved |-> version[o] + 1]
      /\ w.validTo = [o \in lose |-> Now]
      /\ w.rows = {NextRow(o, verdict[o], "system") : o \in moved}
      /\ w.insert = WinnerRels(keep, lose)
      /\ w.close = {r}
      /\ w.reviews = {[target |-> r, action |-> "resolve_conflict"]}
  BY DEF ResolveWrites, NoWrites
<1> HIDE DEF w, moved, verdict, lose
<1>4. item' = item /\ attrs' = attrs /\ confirmed' = confirmed
  BY <1>1, <1>2, <1>3 DEF Assign, Empty
<1>5. /\ status' = [o \in Objects |-> IF o \in moved THEN verdict[o] ELSE status[o]]
      /\ version' = [o \in Objects |-> IF o \in moved THEN version[o] + 1 ELSE version[o]]
      /\ validTo' = [o \in Objects |-> IF o \in lose THEN Now ELSE validTo[o]]
  BY <1>1, <1>2, <1>3 DEF Assign
<1>6. /\ rels' = (rels \ {r}) \cup {[r EXCEPT !.open = FALSE]} \cup WinnerRels(keep, lose)
      /\ history' = history \cup {NextRow(o, verdict[o], "system") : o \in moved}
      /\ reviews' = reviews \cup {[target |-> r, action |-> "resolve_conflict"]}
  BY <1>1, <1>3
<1> QED
  BY <1>4, <1>5, <1>6 DEF Resolve, Resolvable, moved, verdict, lose

\* What a handler decided upon in the present state, it commits as a step of Ledger.
LEMMA SerialStep == ASSUME RacesTypeOK, NEW a \in Actors, Commit(a), Decided(txn[a]) PROVE Next
<1>1. ASSUME NEW n \in Objects, NEW i \in Items, ~Exists(n), NEW merged \in Merges(n, i),
             txn[a] = ProcessWrites(n, i, merged)
      PROVE  Next
  BY <1>1, SerialProcess DEF Next, Pipeline
<1>2. ASSUME NEW o \in Objects, Reviewable(o),
             \/ \E action \in DOMAIN NewStatus : txn[a] = StatusWrites(o, action)
             \/ \E patch \in Patches : txn[a] = EditWrites(o, patch)
      PROVE  Next
  BY <1>2, SerialReview DEF Next, Human
<1>3. ASSUME NEW r \in rels, NEW keep \in Verdicts(r), Resolvable(r), txn[a] = ResolveWrites(r, keep)
      PROVE  Next
  BY <1>3, SerialResolve DEF Next, Human
<1> QED
  BY <1>1, <1>2, <1>3 DEF Decided

\* A transaction during which no other one committed is a step of module Ledger, in
\* every run: what Ledger's steps keep, it keeps.
THEOREM Serial == RacesSpec => UndisturbedIsSerial
<1>1. ASSUME RacesInv, [RacesNext]_raceVars
      PROVE  [(\E a \in InFlight \ disturbed : Single(txn[a]) /\ txn'[a] = None) => Next]_vars
  <2> SUFFICES ASSUME vars' # vars, NEW a \in InFlight \ disturbed, Single(txn[a]), txn'[a] = None
               PROVE  Next
    OBVIOUS
  <2>1. PICK b \in Actors : Commit(b)
    BY <1>1, StepKinds DEF raceVars, RacesInv, RacesTypeOK, Starts, Begin, Rollback, Extends
  <2>2. txn' = [txn EXCEPT ![b] = None] /\ DOMAIN txn = Actors /\ a \in Actors /\ txn[a] # None
    BY <1>1, <2>1 DEF Commit, RacesInv, RacesTypeOK, InFlight
  <2>3. a = b
    BY <2>2
  <2>4. Decided(txn[a])
    BY <1>1 DEF RacesInv, Snapshot
  <2> QED
    BY <1>1, <2>1, <2>3, <2>4, SerialStep DEF RacesInv
<1> QED
  BY <1>1, RacesInvariant, PTL DEF RacesSpec, UndisturbedIsSerial

-----------------------------------------------------------------------------
(***************************************************************************)
(* The history under overlap.  A transaction writes a row for every        *)
(* version and every status it assigns, and the versions below the one it  *)
(* assigns were on record when it read them (Recorded); rows are never     *)
(* removed.                                                                *)
(***************************************************************************)

\* What overlapping commits leave of the history: two rows may claim one version, and a
\* late commit may take the version back, but none is without a row, and no object has
\* a status that nobody is on record for.
HistoryHasNoHole ==
    \A o \in Created :
        /\ \A v \in 1..version[o] : \E r \in history : r.obj = o /\ r.version = v
        /\ \E r \in history : r.obj = o /\ r.status = status[o]

OnRecord(h, o, v) == \A n \in 1..v : \E r \in h : r.obj = o /\ r.version = n

Recorded(w, h) ==
    /\ DOMAIN w.item \subseteq DOMAIN w.version \cap DOMAIN w.status
    /\ \A o \in DOMAIN w.version : OnRecord(h \cup w.rows, o, w.version[o])
    /\ \A o \in DOMAIN w.status : \E r \in w.rows : r.obj = o /\ r.status = w.status[o]

AuditInv == HistoryHasNoHole /\ \A a \in InFlight : Recorded(txn[a], history)

\* The next row of an object puts its next version on record.
LEMMA NextOnRecord ==
  ASSUME TypeOK, HistoryHasNoHole, NEW o \in Created, NEW st, NEW who,
         NEW h, NextRow(o, st, who) \in h
  PROVE  OnRecord(history \cup h, o, version[o] + 1)
<1> SUFFICES ASSUME NEW n \in 1..(version[o] + 1)
             PROVE  \E r \in history \cup h : r.obj = o /\ r.version = n
  BY DEF OnRecord
<1>1. version[o] \in Nat
  BY DEF TypeOK, Created
<1>2. CASE n = version[o] + 1
  BY <1>2 DEF NextRow, Row
<1>3. CASE n \in 1..version[o]
  BY <1>3 DEF HistoryHasNoHole
<1> QED
  BY <1>1, <1>2, <1>3

\* What a handler decides upon is recorded.
LEMMA DecidedRecorded ==
  ASSUME TypeOK, HistoryHasNoHole, NEW w, Decided(w)
  PROVE  Recorded(w, history)
<1>1. ASSUME NEW n \in Objects, NEW i \in Items, ~Exists(n), NEW merged \in Merges(n, i),
             w = ProcessWrites(n, i, merged)
      PROVE  Recorded(w, history)
  <2>1. ProcessFacts(w, n, i, merged) /\ Moved(i) \subseteq Created /\ n \notin Created /\ DOMAIN w.item = {n}
    BY <1>1, ProcessBasics
  <2>2. /\ DOMAIN w.status = Moved(i) \cup {n}
        /\ DOMAIN w.version = Moved(i) \cup {n} /\ w.version[n] = 1
        /\ \A o \in Moved(i) : w.version[o] = version[o] + 1
        /\ Row(n, 1, w.status[n], "system") \in w.rows
        /\ \A o \in Moved(i) : NextRow(o, w.status[o], "system") \in w.rows
    BY <2>1 DEF ProcessFacts
  <2>3. OnRecord(history \cup w.rows, n, w.version[n])
    BY <2>2 DEF OnRecord, Row
  <2>4. \A o \in Moved(i) : OnRecord(history \cup w.rows, o, w.version[o])
    BY <2>1, <2>2, NextOnRecord
  <2>5. \A o \in DOMAIN w.status : \E r \in w.rows : r.obj = o /\ r.status = w.status[o]
    BY <2>2 DEF NextRow, Row
  <2> QED
    BY <2>1, <2>2, <2>3, <2>4, <2>5 DEF Recorded
<1>2. ASSUME NEW o \in Objects, Reviewable(o),
             \/ \E action \in DOMAIN NewStatus : w = StatusWrites(o, action)
             \/ \E patch \in Patches : w = EditWrites(o, patch)
      PROVE  Recorded(w, history)
  <2>1. ReviewFacts(w, o) /\ o \in Created
    BY <1>2, ReviewFields DEF Reviewable, Created
  <2>2. DOMAIN w.item = {} /\ w.version = [p \in {o} |-> version[o] + 1]
    BY <2>1 DEF ReviewFacts, Empty
  <2>3. PICK st : w.rows = {NextRow(o, st, "human")}
    BY <2>1 DEF ReviewFacts
  <2>4. OnRecord(history \cup w.rows, o, version[o] + 1)
    BY <2>1, <2>3, NextOnRecord
  <2>5. \A p \in DOMAIN w.status : \E r \in w.rows : r.obj = p /\ r.status = w.status[p]
    <3>1. ASSUME NEW action \in DOMAIN NewStatus, w = StatusWrites(o, action)
          PROVE  /\ w.status = Dirty(status, [p \in {o} |-> NewStatus[action]])
                 /\ w.rows = {NextRow(o, NewStatus[action], "human")}
      BY <3>1 DEF StatusWrites, ReviewWrites, NoWrites
    <3>2. ASSUME NEW patch \in Patches, w = EditWrites(o, patch)
          PROVE  DOMAIN w.status = {}
      BY <3>2 DEF EditWrites, ReviewWrites, NoWrites, Empty
    <3>3. ASSUME NEW action \in DOMAIN NewStatus, w = StatusWrites(o, action), NEW p \in DOMAIN w.status
          PROVE  \E r \in w.rows : r.obj = p /\ r.status = w.status[p]
      <4> DEFINE st1 == NewStatus[action]
      <4>1. w.status = Dirty(status, [q \in {o} |-> st1]) /\ w.rows = {NextRow(o, st1, "human")}
        BY <3>1, <3>3
      <4> HIDE DEF st1
      <4>2. p = o /\ w.status[p] = st1
        BY <3>3, <4>1 DEF Dirty
      <4> QED
        BY <4>1, <4>2 DEF NextRow, Row
    <3> QED
      BY <1>2, <3>2, <3>3
  <2> QED
    BY <2>2, <2>4, <2>5 DEF Recorded
<1>3. ASSUME NEW r \in rels, NEW keep \in Verdicts(r), Resolvable(r), w = ResolveWrites(r, keep)
      PROVE  Recorded(w, history)
  <2>1. ResolveFacts(w, r, keep) /\ r.from \in Created /\ r.to \in Created
    BY <1>3, ResolveFields DEF TypeOK
  <2>2. /\ DOMAIN w.item = {} /\ DOMAIN w.status \subseteq Created
        /\ w.version = [o \in DOMAIN w.status |-> version[o] + 1]
        /\ \A o \in DOMAIN w.status : NextRow(o, w.status[o], "system") \in w.rows
    <3>1. \A o \in DOMAIN w.status : w.status[o] = Verdict(r, keep, o)
      BY <2>1 DEF ResolveFacts
    <3>2. \A o \in DOMAIN w.status : NextRow(o, Verdict(r, keep, o), "system") \in w.rows
      BY <2>1 DEF ResolveFacts
    <3>3. DOMAIN w.item = {} /\ DOMAIN w.status \subseteq {r.from, r.to}
      BY <2>1 DEF ResolveFacts, Empty
    <3>4. w.version = [o \in DOMAIN w.status |-> version[o] + 1]
      BY <2>1 DEF ResolveFacts
    <3> QED
      BY <2>1, <3>1, <3>2, <3>3, <3>4
  <2>3. ASSUME NEW o \in DOMAIN w.status
        PROVE  OnRecord(history \cup w.rows, o, w.version[o])
    <3>1. w.version[o] = version[o] + 1 /\ o \in Created /\ NextRow(o, w.status[o], "system") \in w.rows
      BY <2>2
    <3>2. OnRecord(history \cup w.rows, o, version[o] + 1)
      BY <3>1, NextOnRecord
    <3> QED
      BY <3>1, <3>2
  <2>4. \A o \in DOMAIN w.status : \E q \in w.rows : q.obj = o /\ q.status = w.status[o]
    BY <2>2 DEF NextRow, Row
  <2> QED
    BY <2>2, <2>3, <2>4 DEF Recorded
<1> QED
  BY <1>1, <1>2, <1>3 DEF Decided

\* What is on record stays on record.
LEMMA RecordGrows ==
  ASSUME NEW h, NEW k, h \subseteq k
  PROVE  /\ \A o, v : OnRecord(h, o, v) => OnRecord(k, o, v)
         /\ \A w : Recorded(w, h) => Recorded(w, k)
<1>1. \A o, v : OnRecord(h, o, v) => OnRecord(k, o, v)
  BY DEF OnRecord
<1>2. \A w, o, v : OnRecord(h \cup w.rows, o, v) => OnRecord(k \cup w.rows, o, v)
  BY DEF OnRecord
<1> QED
  BY <1>1, <1>2 DEF Recorded

\* ... also of what is written together.
LEMMA TogetherRecorded ==
  ASSUME NEW u, NEW v, NEW w, TogetherFacts(u, v, w), NEW h, Recorded(v, h), Recorded(w, h)
  PROVE  Recorded(u, h)
<1>1. /\ DOMAIN u.item = DOMAIN v.item \cup DOMAIN w.item
      /\ DOMAIN u.version = DOMAIN v.version \cup DOMAIN w.version
      /\ DOMAIN u.status = DOMAIN v.status \cup DOMAIN w.status
      /\ u.rows = v.rows \cup w.rows
      /\ \A o \in DOMAIN u.version : \/ o \in DOMAIN v.version /\ u.version[o] = v.version[o]
                                     \/ o \in DOMAIN w.version /\ u.version[o] = w.version[o]
      /\ \A o \in DOMAIN u.status : \/ o \in DOMAIN v.status /\ u.status[o] = v.status[o]
                                    \/ o \in DOMAIN w.status /\ u.status[o] = w.status[o]
  BY DEF TogetherFacts, Over
<1>2. /\ \A o, n : OnRecord(h \cup v.rows, o, n) => OnRecord(h \cup u.rows, o, n)
      /\ \A o, n : OnRecord(h \cup w.rows, o, n) => OnRecord(h \cup u.rows, o, n)
  BY <1>1 DEF OnRecord
<1>3. DOMAIN u.item \subseteq DOMAIN u.version \cap DOMAIN u.status
  BY <1>1 DEF Recorded
<1>4. ASSUME NEW o \in DOMAIN u.version
      PROVE  OnRecord(h \cup u.rows, o, u.version[o])
  <2>1. CASE o \in DOMAIN v.version /\ u.version[o] = v.version[o]
    BY <1>2, <2>1 DEF Recorded
  <2>2. CASE o \in DOMAIN w.version /\ u.version[o] = w.version[o]
    BY <1>2, <2>2 DEF Recorded
  <2> QED
    BY <1>1, <2>1, <2>2
<1>5. ASSUME NEW o \in DOMAIN u.status
      PROVE  \E r \in u.rows : r.obj = o /\ r.status = u.status[o]
  <2>1. CASE o \in DOMAIN v.status /\ u.status[o] = v.status[o]
    BY <1>1, <2>1 DEF Recorded
  <2>2. CASE o \in DOMAIN w.status /\ u.status[o] = w.status[o]
    BY <1>1, <2>2 DEF Recorded
  <2> QED
    BY <1>1, <2>1, <2>2
<1> QED
  BY <1>3, <1>4, <1>5 DEF Recorded

LEMMA AuditInit == RacesInit => AuditInv
<1> SUFFICES ASSUME RacesInit
             PROVE  AuditInv
  OBVIOUS
<1>1. InFlight = {} /\ Created = {}
  BY DEF RacesInit, Init, InFlight, Created, Exists
<1> QED
  BY <1>1 DEF AuditInv, HistoryHasNoHole

\* A commit leaves no hole: what it writes over was on record, and it adds its own rows.
LEMMA CommitAudit ==
  ASSUME RacesInv, AuditInv, NEW a \in Actors, Commit(a)
  PROVE  AuditInv'
<1> DEFINE w == txn[a]
<1>1. /\ a \in InFlight /\ Created \subseteq Objects /\ Created' = Ends(w, Created)
      /\ DOMAIN w.item \subseteq Objects
      /\ \A o \in Objects : status'[o] = IF o \in DOMAIN w.status THEN w.status[o] ELSE status[o]
      /\ InFlight' = InFlight \ {a} /\ \A b \in InFlight' : txn'[b] = txn[b]
  BY CommitFacts
<1>2. Recorded(w, history)
  BY <1>1 DEF AuditInv
<1>3. history' = history \cup w.rows /\ version' = Assign(version, w.version)
  BY DEF Commit
<1>4. DOMAIN version = Objects
  BY DEF RacesInv, RacesTypeOK, TypeOK
<1> HIDE DEF w
<1>5. \A o \in Objects : version'[o] = IF o \in DOMAIN w.version THEN w.version[o] ELSE version[o]
  BY <1>3, <1>4 DEF Assign
<1>6. ASSUME NEW o \in Created'
      PROVE  /\ OnRecord(history', o, version'[o])
             /\ \E r \in history' : r.obj = o /\ r.status = status'[o]
  <2>1. o \in Objects /\ (o \in Created \/ o \in DOMAIN w.item)
    BY <1>1, <1>6 DEF Ends
  <2>2. o \in Created => /\ OnRecord(history, o, version[o])
                         /\ \E r \in history : r.obj = o /\ r.status = status[o]
    BY DEF AuditInv, HistoryHasNoHole, OnRecord
  <2>3. OnRecord(history', o, version'[o])
    <3>1. CASE o \in DOMAIN w.version
      BY <1>2, <1>3, <1>5, <2>1, <3>1 DEF Recorded
    <3>2. CASE o \notin DOMAIN w.version
      <4>1. o \in Created /\ version'[o] = version[o]
        BY <1>2, <1>5, <2>1, <3>2 DEF Recorded
      <4>2. history \subseteq history'
        BY <1>3
      <4> QED
        BY <2>2, <4>1, <4>2, RecordGrows
    <3> QED
      BY <3>1, <3>2
  <2>4. \E r \in history' : r.obj = o /\ r.status = status'[o]
    <3>1. CASE o \in DOMAIN w.status
      BY <1>1, <1>2, <1>3, <2>1, <3>1 DEF Recorded
    <3>2. CASE o \notin DOMAIN w.status
      BY <1>1, <1>2, <1>3, <2>1, <2>2, <3>2 DEF Recorded
    <3> QED
      BY <3>1, <3>2
  <2> QED
    BY <2>3, <2>4
<1>7. HistoryHasNoHole'
  BY <1>6 DEF HistoryHasNoHole, OnRecord
<1>8. ASSUME NEW b \in InFlight'
      PROVE  Recorded(txn[b], history')
  <2>1. Recorded(txn[b], history)
    BY <1>1, <1>8 DEF AuditInv
  <2> QED
    BY <1>3, <2>1, RecordGrows
<1> QED
  BY <1>1, <1>7, <1>8 DEF AuditInv

LEMMA AuditStep == RacesInv /\ AuditInv /\ [RacesNext]_raceVars => AuditInv'
<1> SUFFICES ASSUME RacesInv, AuditInv, [RacesNext]_raceVars
             PROVE  AuditInv'
  OBVIOUS
<1>1. TypeOK /\ DOMAIN txn = Actors
  BY DEF RacesInv, RacesTypeOK
<1>2. ASSUME UNCHANGED vars
      PROVE  HistoryHasNoHole' /\ history' = history
  <2>1. /\ item' = item /\ status' = status /\ version' = version /\ history' = history
    BY <1>2 DEF vars
  <2> QED
    BY <2>1 DEF AuditInv, HistoryHasNoHole, Created, Exists
<1>3. ASSUME NEW a, NEW w, Starts(a, w)
      PROVE  AuditInv'
  <2>1. Decided(w) /\ txn' = [txn EXCEPT ![a] = w] /\ UNCHANGED vars /\ a \in Actors
    BY <1>3 DEF Starts, Begin
  <2>2. Recorded(w, history)
    BY <1>1, <2>1, DecidedRecorded DEF AuditInv
  <2>3. \A b \in InFlight' : txn'[b] = w \/ (b \in InFlight /\ txn'[b] = txn[b])
    BY <1>1, <2>1 DEF InFlight
  <2> QED
    BY <1>2, <2>1, <2>2, <2>3 DEF AuditInv
<1>6. ASSUME NEW a, NEW w, Extends(a, w)
      PROVE  AuditInv'
  <2>0. PICK u, v : v = txn[a] /\ u = Together(v, w)
    OBVIOUS
  <2>1. Decided(w) /\ txn' = [txn EXCEPT ![a] = u] /\ UNCHANGED vars /\ a \in InFlight
    BY <1>6, <2>0 DEF Extends
  <2>2. Recorded(w, history) /\ Recorded(v, history)
    BY <1>1, <2>0, <2>1, DecidedRecorded DEF AuditInv
  <2>3. Recorded(u, history)
    BY <2>0, <2>2, TogetherFields, TogetherRecorded
  <2>4. \A b \in InFlight' : b \in InFlight /\ (txn'[b] = u \/ txn'[b] = txn[b])
    BY <1>1, <2>1 DEF InFlight
  <2> QED
    BY <1>2, <2>1, <2>3, <2>4 DEF AuditInv
<1>4. ASSUME NEW a \in Actors, Rollback(a)
      PROVE  AuditInv'
  <2>1. txn' = [txn EXCEPT ![a] = None] /\ UNCHANGED vars
    BY <1>4 DEF Rollback
  <2>2. \A b \in InFlight' : b \in InFlight /\ txn'[b] = txn[b]
    BY <1>1, <2>1 DEF InFlight
  <2> QED
    BY <1>2, <2>1, <2>2 DEF AuditInv
<1>5. CASE UNCHANGED raceVars
  BY <1>2, <1>5 DEF raceVars, AuditInv, InFlight
<1> QED
  BY <1>1, <1>3, <1>4, <1>5, <1>6, StepKinds, CommitAudit

\* Overlapping commits may give one version two rows and take a version back, but no
\* version is without a row, and no status without one that put it on record.
THEOREM RacesRecorded == RacesSpec => []HistoryHasNoHole
<1>1. AuditInv => HistoryHasNoHole
  BY DEF AuditInv
<1> QED
  BY <1>1, AuditInit, AuditStep, RacesInvariant, PTL DEF RacesSpec

-----------------------------------------------------------------------------
(***************************************************************************)
(* The lineage under overlap.  Two workers that process an upstream and a  *)
(* downstream statement at once do not see each other's object, and link   *)
(* neither to the other.  What remains is one half of LineageIsExact for   *)
(* every history, and both halves for an object whose transaction nothing  *)
(* disturbed.                                                              *)
(***************************************************************************)

Descended(w, it) ==
    /\ \A q \in w.insert :
         q.kind = "derived_from" => Descends(ItemOf(w, it, q.from), ItemOf(w, it, q.to))
    /\ \A q \in w.close : q.kind # "derived_from"

\* What a transaction is about to create it links to all there is, and its own objects
\* have subjects of their own.
Linked(w) ==
    /\ \A n \in DOMAIN w.item : LineageRels(n, w.item[n]) \subseteq w.insert
    /\ \A m, n \in DOMAIN w.item : m # n => ~SameSubject(w.item[m], w.item[n])

LineInv ==
    /\ LineageIsSound
    /\ \A a \in InFlight : Descended(txn[a], item)
    /\ \A a \in InFlight \ disturbed : Linked(txn[a])

\* What process_extraction_job links, it has compared.
LEMMA DecidedDescended ==
  ASSUME TypeOK, NEW w, Decided(w)
  PROVE  Descended(w, item)
<1>1. ASSUME NEW n \in Objects, NEW i \in Items, ~Exists(n), NEW merged \in Merges(n, i),
             w = ProcessWrites(n, i, merged)
      PROVE  Descended(w, item)
  <2>1. ProcessFacts(w, n, i, merged) /\ n \notin Created /\ DOMAIN w.item = {n}
    BY <1>1, ProcessBasics
  <2>2. w.close = {} /\ w.item[n] = i
    BY <2>1 DEF ProcessFacts
  <2>3. ASSUME NEW q \in w.insert, q.kind = "derived_from"
        PROVE  Descends(ItemOf(w, item, q.from), ItemOf(w, item, q.to))
    <3>1. InsertKind(q, n, i, merged)
      BY <2>1, Inserted
    <3>2. PICK o \in Created :
             \/ q.from = n /\ q.to = o /\ Descends(i, item[o])
             \/ q.from = o /\ q.to = n /\ Descends(item[o], i)
      <4>1. \A f, t, k, b, v : q = Rel(f, t, k, b, v) => k = "derived_from"
        BY <2>3 DEF Rel
      <4>2. \A o : /\ q # Rel(n, o, "contradicts", "lifecycle", TRUE)
                   /\ q # Rel(n, o, "supersedes", "R3", FALSE)
                   /\ q # Rel(n, o, "duplicate_of", "dedup", TRUE)
        BY <4>1
      <4>3. \A o, p : /\ q # Rel(o, p, "duplicate_of", "dedup", FALSE)
                      /\ q # Rel(o, p, "supported_by", "dedup", FALSE)
        BY <4>1
      <4>4. PICK o \in Created :
               \/ q = Rel(n, o, "derived_from", "lineage", FALSE) /\ Descends(i, item[o])
               \/ q = Rel(o, n, "derived_from", "lineage", FALSE) /\ Descends(item[o], i)
        BY <3>1, <4>2, <4>3, Zenon DEF InsertKind
      <4> QED
        BY <4>4 DEF Rel
    <3>3. ItemOf(w, item, n) = i /\ ItemOf(w, item, o) = item[o]
      BY <2>1, <2>2, <3>2 DEF ItemOf
    <3> QED
      BY <3>2, <3>3
  <2> QED
    BY <2>2, <2>3 DEF Descended
<1>2. ASSUME NEW o \in Objects, Reviewable(o),
             \/ \E action \in DOMAIN NewStatus : w = StatusWrites(o, action)
             \/ \E patch \in Patches : w = EditWrites(o, patch)
      PROVE  Descended(w, item)
  <2>1. w.insert = {} /\ w.close = {}
    BY <1>2, ReviewFields DEF ReviewFacts
  <2> QED
    BY <2>1 DEF Descended
<1>3. ASSUME NEW r \in rels, NEW keep \in Verdicts(r), Resolvable(r), w = ResolveWrites(r, keep)
      PROVE  Descended(w, item)
  <2>1. w.close = {r} /\ \A q \in w.insert : q.kind = "supersedes"
    BY <1>3 DEF ResolveWrites, WinnerRels, NoWrites, Rel
  <2> QED
    BY <1>3, <2>1 DEF Descended, Resolvable
<1> QED
  BY <1>1, <1>2, <1>3 DEF Decided

\* ... and all of it.
LEMMA DecidedLinked ==
  ASSUME TypeOK, NEW w, Decided(w)
  PROVE  Linked(w)
<1>1. ASSUME NEW n \in Objects, NEW i \in Items, ~Exists(n), NEW merged \in Merges(n, i),
             w = ProcessWrites(n, i, merged)
      PROVE  Linked(w)
  <2>1. ProcessFacts(w, n, i, merged) /\ DOMAIN w.item = {n} /\ w.item[n] = i
    BY <1>1, ProcessBasics
  <2>2. LineageRels(n, i) \subseteq w.insert
    BY <2>1 DEF ProcessFacts
  <2> QED
    BY <2>1, <2>2 DEF Linked
<1>2. ASSUME NEW o \in Objects, Reviewable(o),
             \/ \E action \in DOMAIN NewStatus : w = StatusWrites(o, action)
             \/ \E patch \in Patches : w = EditWrites(o, patch)
      PROVE  Linked(w)
  <2>1. ReviewFacts(w, o)
    BY <1>2, ReviewFields
  <2>2. DOMAIN w.item = {}
    BY <2>1 DEF ReviewFacts, Empty
  <2> QED
    BY <2>2 DEF Linked
<1>3. ASSUME NEW r \in rels, NEW keep \in Verdicts(r), Resolvable(r), w = ResolveWrites(r, keep)
      PROVE  Linked(w)
  <2>1. ResolveFacts(w, r, keep)
    BY <1>3, ResolveFields
  <2>2. DOMAIN w.item = {}
    BY <2>1 DEF ResolveFacts, Empty
  <2> QED
    BY <2>2 DEF Linked
<1> QED
  BY <1>1, <1>2, <1>3 DEF Decided

\* What is decided on for one more item of a job leaves the job's links sound and complete.
LEMMA TogetherLines ==
  ASSUME RacesInv, LineInv, NEW a, NEW w, Extends(a, w), NEW u, u = Together(txn[a], w)
  PROVE  Descended(u, item) /\ (a \notin disturbed => Linked(u))
<1>0. PICK v : v = txn[a]
  OBVIOUS
<1>1. /\ a \in InFlight /\ Decided(w) /\ TypeOK
      /\ DOMAIN w.item \cap DOMAIN v.item = {} /\ TogetherFacts(u, v, w)
  BY <1>0, TogetherFields DEF Extends, RacesInv, RacesTypeOK
<1>2. /\ DOMAIN u.item = DOMAIN v.item \cup DOMAIN w.item
      /\ \A o \in DOMAIN w.item : u.item[o] = w.item[o]
      /\ \A o \in DOMAIN v.item : u.item[o] = v.item[o]
      /\ u.insert = v.insert \cup w.insert /\ u.close = v.close \cup w.close
  BY <1>1 DEF TogetherFacts, Over
<1>3. /\ Lawful(v, Created, item) /\ DOMAIN v.item \cap Created = {}
      /\ Lawful(w, Created, item) /\ DOMAIN w.item \cap Created = {}
      /\ Descended(v, item) /\ (a \notin disturbed => Linked(v))
      /\ Descended(w, item) /\ Linked(w)
  BY <1>0, <1>1, DecidedLawful, DecidedDescended, DecidedLinked
     DEF RacesInv, Txns, Unclaimed, LineInv
<1>4. /\ \A o \in Ends(v, Created) : ItemOf(u, item, o) = ItemOf(v, item, o)
      /\ \A o \in Ends(w, Created) : ItemOf(u, item, o) = ItemOf(w, item, o)
  BY <1>1, <1>2, <1>3 DEF Ends, ItemOf
<1>5. /\ \A q \in v.insert : q.from \in Ends(v, Created) /\ q.to \in Ends(v, Created)
      /\ \A q \in w.insert : q.from \in Ends(w, Created) /\ q.to \in Ends(w, Created)
  BY <1>3 DEF Lawful, Typed, RelType
<1>6. Descended(u, item)
  BY <1>2, <1>3, <1>4, <1>5 DEF Descended
<1>7. PICK n \in Objects, i \in Items :
         /\ ~Exists(n) /\ NewSubject(v, i)
         /\ \E merged \in Merges(n, i) : w = ProcessWrites(n, i, merged)
  BY <1>0 DEF Extends
<1>8. DOMAIN w.item = {n} /\ w.item[n] = i
  BY <1>7, ProcessBasics
<1>9. ASSUME a \notin disturbed
      PROVE  Linked(u)
  <2>1. \A o \in DOMAIN u.item : LineageRels(o, u.item[o]) \subseteq u.insert
    BY <1>2, <1>3, <1>9 DEF Linked
  <2>2. \A o \in DOMAIN v.item : ~SameSubject(v.item[o], w.item[n]) /\ ~SameSubject(w.item[n], v.item[o])
    BY <1>7, <1>8 DEF NewSubject, SameSubject
  <2>3. \A m, o \in DOMAIN u.item : m # o => ~SameSubject(u.item[m], u.item[o])
    BY <1>2, <1>3, <1>8, <1>9, <2>2 DEF Linked
  <2> QED
    BY <2>1, <2>3 DEF Linked
<1> QED
  BY <1>6, <1>9

\* A commit keeps the links sound, its own and those the others are about to insert: an
\* object's item never changes once it exists.
LEMMA CommitLines ==
  ASSUME RacesInv, LineInv, NEW a \in Actors, Commit(a)
  PROVE  LineInv'
<1> DEFINE closed(r) == [r EXCEPT !.open = FALSE]
<1>0. PICK w : w = txn[a]
  OBVIOUS
<1>1. /\ Lawful(w, Created, item) /\ DOMAIN w.item \subseteq Objects /\ Created \subseteq Objects
      /\ a \in InFlight /\ DOMAIN w.item \cap Created = {}
      /\ \A o \in Objects : item'[o] = ItemOf(w, item, o)
      /\ rels' = (rels \ w.close) \cup {closed(r) : r \in w.close} \cup w.insert
      /\ InFlight' = InFlight \ {a} /\ \A b \in InFlight' : txn'[b] = txn[b]
  BY <1>0, CommitFacts
<1>2. /\ Descended(w, item) /\ Typed(w, Created) /\ rels \subseteq RelType(Created)
      /\ LineageIsSound
  BY <1>0, <1>1 DEF LineInv, Lawful, RacesInv, RacesTypeOK, TypeOK, RelType
<1>3. \A o \in Created : item'[o] = item[o]
  BY <1>1 DEF ItemOf
<1>4. ASSUME NEW q \in rels', q.kind = "derived_from"
      PROVE  Descends(item'[q.from], item'[q.to])
  <2>1. ASSUME NEW r \in w.close
        PROVE  q # closed(r)
    <3>1. r \in RelType(Created) /\ r.kind # "derived_from"
      BY <1>2, <2>1 DEF Typed, Descended
    <3> QED
      BY <1>4, <3>1 DEF RelType
  <2>2. CASE q \in rels
    <3>1. item'[q.from] = item[q.from] /\ item'[q.to] = item[q.to]
      BY <1>2, <1>3, <2>2 DEF RelType
    <3> QED
      BY <1>2, <1>4, <2>2, <3>1 DEF LineageIsSound
  <2>3. CASE q \in w.insert
    <3>1. q.from \in Objects /\ q.to \in Objects
      BY <1>1, <1>2, <2>3 DEF Typed, RelType, Ends
    <3> QED
      BY <1>1, <1>2, <1>4, <2>3, <3>1 DEF Descended
  <2> QED
    BY <1>1, <1>4, <2>1, <2>2, <2>3
<1>5. ASSUME NEW b \in InFlight'
      PROVE  Descended(txn'[b], item')
  <2>1. PICK v : v = txn[b] /\ txn'[b] = v
    BY <1>1, <1>5
  <2>2. Descended(v, item) /\ Typed(v, Created)
    BY <1>1, <1>5, <2>1 DEF LineInv, RacesInv, Txns, Lawful
  <2>3. ASSUME NEW q \in v.insert
        PROVE  /\ ItemOf(v, item', q.from) = ItemOf(v, item, q.from)
               /\ ItemOf(v, item', q.to) = ItemOf(v, item, q.to)
    <3>1. q.from \in Ends(v, Created) /\ q.to \in Ends(v, Created)
      BY <2>2, <2>3 DEF Typed, RelType
    <3> QED
      BY <1>3, <3>1 DEF ItemOf, Ends
  <2> QED
    BY <2>1, <2>2, <2>3 DEF Descended
<1>6. InFlight' \ disturbed' = {}
  BY <1>0, CommitFacts
<1> QED
  BY <1>4, <1>5, <1>6 DEF LineInv, LineageIsSound

LEMMA LineStep == RacesInv /\ LineInv /\ [RacesNext]_raceVars => LineInv'
<1> SUFFICES ASSUME RacesInv, LineInv, [RacesNext]_raceVars
             PROVE  LineInv'
  OBVIOUS
<1>1. TypeOK /\ DOMAIN txn = Actors
  BY DEF RacesInv, RacesTypeOK
<1>2. ASSUME UNCHANGED vars
      PROVE  LineageIsSound' /\ item' = item /\ \A w : Linked(w) => Linked(w)'
  <2>1. item' = item /\ rels' = rels /\ Created' = Created
    BY <1>2 DEF vars, Created, Exists
  <2>2. \A n, i : LineageRels(n, i)' = LineageRels(n, i)
    BY <2>1 DEF LineageRels
  <2> QED
    BY <2>1, <2>2 DEF LineInv, LineageIsSound, Linked
<1>3. ASSUME NEW a, NEW w, Starts(a, w)
      PROVE  LineInv'
  <2>1. Decided(w) /\ txn' = [txn EXCEPT ![a] = w] /\ UNCHANGED vars /\ a \in Actors
    BY <1>3 DEF Starts, Begin
  <2>2. Descended(w, item) /\ Linked(w) /\ disturbed' = disturbed
    BY <1>1, <1>3, <2>1, DecidedDescended, DecidedLinked DEF Starts, Begin
  <2>3. \A b \in InFlight' : txn'[b] = w \/ (b \in InFlight /\ txn'[b] = txn[b])
    BY <1>1, <2>1 DEF InFlight
  <2> QED
    BY <1>2, <2>1, <2>2, <2>3 DEF LineInv
<1>6. ASSUME NEW a, NEW w, Extends(a, w)
      PROVE  LineInv'
  <2>1. PICK u : u = Together(txn[a], w)
    OBVIOUS
  <2>2. txn' = [txn EXCEPT ![a] = u] /\ UNCHANGED vars /\ disturbed' = disturbed /\ a \in InFlight
    BY <1>6, <2>1 DEF Extends
  <2>3. Descended(u, item) /\ (a \notin disturbed => Linked(u))
    BY <1>6, <2>1, TogetherLines
  <2>4. \A b \in InFlight' : b \in InFlight /\ txn'[b] = IF b = a THEN u ELSE txn[b]
    BY <1>1, <2>2 DEF InFlight
  <2> QED
    BY <1>2, <2>2, <2>3, <2>4 DEF LineInv
<1>4. ASSUME NEW a \in Actors, Rollback(a)
      PROVE  LineInv'
  <2>1. txn' = [txn EXCEPT ![a] = None] /\ UNCHANGED vars /\ disturbed' = disturbed \ {a}
    BY <1>4 DEF Rollback
  <2>2. \A b \in InFlight' : b \in InFlight /\ b # a /\ txn'[b] = txn[b]
    BY <1>1, <2>1 DEF InFlight
  <2> QED
    BY <1>2, <2>1, <2>2 DEF LineInv
<1>5. CASE UNCHANGED raceVars
  BY <1>2, <1>5 DEF raceVars, LineInv, InFlight
<1> QED
  BY <1>1, <1>3, <1>4, <1>5, <1>6, StepKinds, CommitLines

LEMMA LineInvariant == RacesSpec => []LineInv
<1>1. RacesInit => LineInv
  BY DEF RacesInit, Init, LineInv, LineageIsSound, InFlight
<1> QED
  BY <1>1, LineStep, RacesInvariant, PTL DEF RacesSpec

\* However transactions overlap, a link of create_lineage_links joins two statements of
\* which the one descends from the other.
THEOREM RacesLineage == RacesSpec => []LineageIsSound
<1>1. LineInv => LineageIsSound
  BY DEF LineInv
<1> QED
  BY <1>1, LineInvariant, PTL

\* The commit of writes that link all that they create links it exactly.
LEMMA CommitLinks ==
  ASSUME RacesInv, LineInv, NEW a \in Actors, Commit(a), Linked(txn[a]),
         NEW n \in Created', n \notin Created, NEW o \in Created'
  PROVE  LinkedExactly(item', rels', n, o)
<1>0. PICK w : w = txn[a]
  OBVIOUS
<1>1. /\ Created' = Ends(w, Created) /\ Created \subseteq Objects /\ DOMAIN w.item \subseteq Objects
      /\ DOMAIN w.item \cap Created = {}
      /\ \A p \in Objects : item'[p] = ItemOf(w, item, p)
      /\ w.insert \subseteq rels'
  BY <1>0, CommitFacts
<1>2. LineageIsSound' /\ Linked(w)
  BY <1>0, CommitLines DEF LineInv
<1>3. n \in DOMAIN w.item
  BY <1>1 DEF Ends
<1>4. PICK i : i = w.item[n]
  OBVIOUS
<1>5. item'[n] = i /\ LineageRels(n, i) \subseteq rels'
  BY <1>1, <1>2, <1>3, <1>4 DEF ItemOf, Linked
<1>6. \A f, t : Rel(f, t, "derived_from", "lineage", FALSE) \in rels' => Descends(item'[f], item'[t])
  <2> SUFFICES ASSUME NEW f, NEW t, NEW q \in rels', q = Rel(f, t, "derived_from", "lineage", FALSE)
               PROVE  Descends(item'[f], item'[t])
    OBVIOUS
  <2>1. q.from = f /\ q.to = t /\ q.kind = "derived_from"
    BY DEF Rel
  <2> QED
    BY <1>2, <2>1 DEF LineageIsSound
<1>7. CASE o \in Created
  <2>1. item'[o] = item[o]
    BY <1>1, <1>7 DEF ItemOf
  <2> QED
    BY <1>5, <1>6, <1>7, <2>1 DEF LineageRels, LinkedExactly
<1>9. \A j : ~Descends(j, j)
  BY DEF Descends, UPSTREAM_TO_DOWNSTREAM
<1>8. CASE o \notin Created
  <2>1. o \in DOMAIN w.item /\ item'[o] = w.item[o]
    BY <1>1, <1>8 DEF Ends, ItemOf
  <2>2. ~Descends(item'[n], item'[o]) /\ ~Descends(item'[o], item'[n])
    <3>1. CASE o = n
      BY <1>4, <2>1, <3>1, <1>9 DEF Descends
    <3>2. CASE o # n
      BY <1>2, <1>3, <1>4, <1>5, <2>1, <3>2 DEF Linked, Descends
    <3> QED
      BY <3>1, <3>2
  <2> QED
    BY <1>6, <2>2 DEF LinkedExactly
<1> QED
  BY <1>7, <1>8

\* A link can only be missing between two objects whose transactions overlapped.
THEOREM UndisturbedLinks == RacesSpec => UndisturbedIsLinked
<1>1. ASSUME RacesInv, LineInv, [RacesNext]_raceVars,
             NEW a \in InFlight \ disturbed, txn'[a] = None,
             NEW n \in Created' \ Created, NEW o \in Created'
      PROVE  LinkedExactly(item', rels', n, o)
  <2>1. TypeOK /\ DOMAIN txn = Actors /\ a \in Actors /\ txn[a] # None
    BY <1>1 DEF RacesInv, RacesTypeOK, InFlight
  <2>2. ~UNCHANGED vars
    BY <1>1 DEF vars, Created, Exists
  <2>3. ASSUME NEW b, NEW w, Starts(b, w) \/ Extends(b, w)
        PROVE  FALSE
    BY <2>2, <2>3 DEF Starts, Begin, Extends
  <2>4. PICK b \in Actors : Commit(b)
    BY <1>1, <2>1, <2>2, <2>3, StepKinds DEF Rollback, raceVars
  <2>5. a = b
    BY <1>1, <2>1, <2>4 DEF Commit
  <2>6. Linked(txn[a])
    BY <1>1 DEF LineInv
  <2> QED
    BY <1>1, <2>1, <2>4, <2>5, <2>6, CommitLinks
<1>2. RacesInv /\ LineInv /\ [RacesNext]_raceVars =>
        [(\E a \in InFlight \ disturbed : txn'[a] = None) =>
           \A n \in Created' \ Created, o \in Created' : LinkedExactly(item', rels', n, o)]_raceVars
  BY <1>1
<1> QED
  BY <1>2, LineInvariant, RacesInvariant, PTL DEF RacesSpec, UndisturbedIsLinked

-----------------------------------------------------------------------------
(* Refinement: runs without a disturbed commit. *)

\* The runs in which no transaction commits that another commit has disturbed, or that
\* has created several objects.
SerialSpec ==
    /\ RacesInit
    /\ [][RacesNext /\ \A a \in Actors : Commit(a) => a \notin disturbed /\ Single(txn[a])]_raceVars

\* Such a run is a run of module Ledger, whatever else its transactions overlap: the
\* commits are its steps, the reads and rollbacks stutter, and every theorem about
\* Ledger holds of it.
THEOREM SerialRunsAreLedgers == SerialSpec => Spec
<1>1. RacesInit => Init
  BY DEF RacesInit
<1>2. ASSUME RacesInv, [RacesNext /\ \A a \in Actors : Commit(a) => a \notin disturbed /\ Single(txn[a])]_raceVars
      PROVE  [Next]_vars
  <2>1. CASE UNCHANGED raceVars
    BY <2>1 DEF raceVars
  <2>2. ASSUME NEW a, NEW w, Starts(a, w) \/ Extends(a, w)
        PROVE  UNCHANGED vars
    BY <2>2 DEF Starts, Begin, Extends
  <2>3. ASSUME NEW a \in Actors, Rollback(a)
        PROVE  UNCHANGED vars
    BY <2>3 DEF Rollback
  <2>4. ASSUME NEW a \in Actors, Commit(a), a \notin disturbed, Single(txn[a])
        PROVE  Next
    <3>1. a \in InFlight \ disturbed
      BY <2>4 DEF Commit, InFlight
    <3>2. Decided(txn[a]) /\ RacesTypeOK
      BY <1>2, <2>4, <3>1 DEF RacesInv, Snapshot
    <3> QED
      BY <2>4, <3>2, SerialStep
  <2> QED
    BY <1>2, <2>1, <2>2, <2>3, <2>4, StepKinds DEF RacesInv, RacesTypeOK
<1>3. SerialSpec => RacesSpec
  <2>1. [RacesNext /\ \A a \in Actors : Commit(a) => a \notin disturbed /\ Single(txn[a])]_raceVars => [RacesNext]_raceVars
    OBVIOUS
  <2> QED
    BY <2>1, PTL DEF SerialSpec, RacesSpec
<1> QED
  BY <1>1, <1>2, <1>3, RacesInvariant, PTL DEF SerialSpec, Spec
=============================================================================
