---------------------------- MODULE LedgerProofs ----------------------------
(***************************************************************************)
(* Proofs about module Ledger, for any objects, items and patches and for  *)
(* histories of any length.                                                *)
(***************************************************************************)
EXTENDS Ledger, TLAPS

-----------------------------------------------------------------------------
(* Lemmas about the operators the pipeline is built from. *)

\* The authority of an item is a number.
LEMMA AuthorityType == ASSUME NEW i PROVE Authority(i) \in Nat
  BY DEF Authority

\* apply_dedup assigns the canonical object the maximum of the two authorities,
\* which leaves it as it is: the canonical object already has it.
LEMMA CanonicalHasMax ==
  ASSUME NEW n, NEW i, NEW o, n # o
  PROVE  LET authority(p) == IF p = n THEN Authority(i) ELSE Authority(item[o])
         IN authority(Canonical(n, i, o)) >= authority(Duplicate(n, i, o))
  BY AuthorityType DEF Canonical, Duplicate, NewIsCanonical

\* The siblings of an item are active objects, and those that contradict it are
\* either superseded or conflicting, never both.
LEMMA SiblingsSplit ==
  ASSUME NEW i
  PROVE  /\ \A o \in Siblings(i) : o \in Objects /\ Exists(o) /\ status[o] = "active"
         /\ ToSupersede(i) \subseteq Siblings(i)
         /\ ToConflict(i) \subseteq Siblings(i)
         /\ Agreeing(i) \subseteq Siblings(i)
         /\ ToSupersede(i) \cap ToConflict(i) = {}
         /\ Agreeing(i) \cap (ToSupersede(i) \cup ToConflict(i)) = {}
  BY DEF Siblings, Created, ToSupersede, ToConflict, Agreeing, Clashing

\* What apply_dedup may add for a new object n made from item i.
DedupAdds(n, i) ==
    UNION {{Rel(n, o, "duplicate_of", "dedup", TRUE),
            Rel(Duplicate(n, i, o), Canonical(n, i, o), "duplicate_of", "dedup", FALSE),
            Rel(Canonical(n, i, o), Duplicate(n, i, o), "supported_by", "dedup", FALSE)} :
             o \in Agreeing(i)}

\* The relations a Process step adds, whatever the similarities were.
LEMMA ProcessRels ==
  ASSUME NEW n \in Objects, NEW i \in Items, Process(n, i)
  PROVE  /\ rels \cup ConflictRels(n, ToConflict(i)) \cup R3Rels(n, ToSupersede(i))
                 \cup LineageRels(n, i) \subseteq rels'
         /\ rels' \subseteq rels \cup ConflictRels(n, ToConflict(i)) \cup R3Rels(n, ToSupersede(i))
                                 \cup LineageRels(n, i) \cup DedupAdds(n, i)
<1>1. PICK merged \in Merges(n, i) :
         rels' = rels \cup ConflictRels(n, ToConflict(i)) \cup R3Rels(n, ToSupersede(i))
                      \cup merged \cup LineageRels(n, i)
  BY DEF Process
<1>2. merged \subseteq DedupAdds(n, i)
  <2> SUFFICES ASSUME NEW r \in merged
               PROVE  r \in DedupAdds(n, i)
    OBVIOUS
  <2>1. PICK o \in Agreeing(i), x \in {"auto", "review", "low"} : r \in DedupRels(n, i, o, x)
    BY <1>1 DEF Merges
  <2>2. r \in {Rel(n, o, "duplicate_of", "dedup", TRUE),
               Rel(Duplicate(n, i, o), Canonical(n, i, o), "duplicate_of", "dedup", FALSE),
               Rel(Canonical(n, i, o), Duplicate(n, i, o), "supported_by", "dedup", FALSE)}
    BY <2>1 DEF DedupRels
  <2> QED
    BY <2>1, <2>2 DEF DedupAdds
<1> QED
  BY <1>1, <1>2

-----------------------------------------------------------------------------
(* Types. *)

RelType(ends) == [from : ends, to : ends, kind : Kinds,
                  by : {"lifecycle", "R3", "dedup", "lineage", "human"}, open : BOOLEAN]

RowType(objs) == [obj : objs, version : Nat, status : CONTEXT_STATUSES, by : {"system", "human"}]

\* A relation or a row over some objects is one over more objects.
LEMMA TypesGrow ==
  ASSUME NEW S, NEW T, S \subseteq T
  PROVE  RelType(S) \subseteq RelType(T) /\ RowType(S) \subseteq RowType(T)
  BY DEF RelType, RowType

\* What Rel builds.
LEMMA RelHasType ==
  ASSUME NEW S, NEW a \in S, NEW b \in S, NEW k \in Kinds,
         NEW y \in {"lifecycle", "R3", "dedup", "lineage", "human"}, NEW p \in BOOLEAN
  PROVE  Rel(a, b, k, y, p) \in RelType(S)
  BY DEF Rel, RelType

\* The relations of a Process step have existing ends: the new object and others.
LEMMA NewRelsType ==
  ASSUME TypeOK, NEW n \in Objects, NEW i \in Items, Process(n, i)
  PROVE  rels' \subseteq RelType(Created')
<1>1. Created' = Created \cup {n} /\ n \notin Created
  BY LedgerAssumption DEF Process, Exists, Created, TypeOK
<1>2. Created \subseteq Created' /\ n \in Created'
  BY <1>1
<1>3. \A o \in Siblings(i) : o \in Created'
  BY <1>2, SiblingsSplit DEF Created
<1> SUFFICES ASSUME NEW r \in rels'
             PROVE  r \in RelType(Created')
  OBVIOUS
<1>4. CASE r \in rels
  BY <1>4, <1>2, TypesGrow DEF TypeOK, RelType
<1>5. CASE r \in ConflictRels(n, ToConflict(i))
  <2>1. PICK o \in ToConflict(i) : r = Rel(n, o, "contradicts", "lifecycle", TRUE)
    BY <1>5 DEF ConflictRels
  <2> QED
    BY <2>1, <1>2, <1>3, SiblingsSplit, RelHasType DEF Kinds
<1>6. CASE r \in R3Rels(n, ToSupersede(i))
  <2>1. PICK o \in ToSupersede(i) : r = Rel(n, o, "supersedes", "R3", FALSE)
    BY <1>6 DEF R3Rels
  <2> QED
    BY <2>1, <1>2, <1>3, SiblingsSplit, RelHasType DEF Kinds
<1>7. CASE r \in LineageRels(n, i)
  <2>1. PICK o \in Created : \/ r = Rel(n, o, "derived_from", "lineage", FALSE)
                             \/ r = Rel(o, n, "derived_from", "lineage", FALSE)
    BY <1>7 DEF LineageRels
  <2> QED
    BY <2>1, <1>2, RelHasType DEF Kinds
<1>8. CASE r \in DedupAdds(n, i)
  <2>1. PICK o \in Agreeing(i) :
           r \in {Rel(n, o, "duplicate_of", "dedup", TRUE),
                  Rel(Duplicate(n, i, o), Canonical(n, i, o), "duplicate_of", "dedup", FALSE),
                  Rel(Canonical(n, i, o), Duplicate(n, i, o), "supported_by", "dedup", FALSE)}
    BY <1>8 DEF DedupAdds
  <2>2. o \in Created'
    BY <1>3, SiblingsSplit
  <2>3. Duplicate(n, i, o) \in {n, o} /\ Canonical(n, i, o) \in {n, o}
    BY DEF Duplicate, Canonical
  <2>4. PICK a \in {n, o}, b \in {n, o}, k \in Kinds, p \in BOOLEAN : r = Rel(a, b, k, "dedup", p)
    BY <2>1, <2>3 DEF Kinds
  <2> QED
    BY <2>2, <2>4, <1>2, RelHasType
<1> QED
  BY <1>4, <1>5, <1>6, <1>7, <1>8, ProcessRels

\* The rows of a Process step are those of the new object and of what it moved.
LEMMA NewRowsType ==
  ASSUME TypeOK, NEW n \in Objects, NEW i \in Items, Process(n, i)
  PROVE  history' \subseteq RowType(Created')
<1>1. Created \subseteq Created' /\ n \in Created'
  BY LedgerAssumption DEF Process, Exists, Created, TypeOK
<1>2. InitialStatus(i) \in CONTEXT_STATUSES
  BY DEF InitialStatus, CONTEXT_STATUSES
<1> SUFFICES ASSUME NEW r \in history'
             PROVE  r \in RowType(Created')
  OBVIOUS
<1>3. CASE r \in history
  BY <1>3, <1>1, TypesGrow DEF TypeOK, RowType
<1>4. CASE r \notin history
  <2>1. \/ r = Row(n, 1, IF ToConflict(i) # {} THEN "conflicting" ELSE InitialStatus(i), "system")
        \/ \E o \in ToConflict(i) : r = NextRow(o, "conflicting", "system")
        \/ \E o \in ToSupersede(i) : r = NextRow(o, "superseded", "system")
    BY <1>4 DEF Process
  <2> QED
    BY <2>1, <1>1, <1>2, SiblingsSplit DEF NextRow, Row, RowType, CONTEXT_STATUSES, Created, TypeOK
<1> QED
  BY <1>3, <1>4

Review(o) == Confirm(o) \/ Ignore(o) \/ MarkStale(o) \/ \E patch \in Patches : Edit(o, patch)

\* A review of whatever kind gives an existing object a status and records it.
LEMMA ReviewRecords ==
  ASSUME TypeOK, NEW o \in Objects, Review(o)
  PROVE  /\ o \in Created
         /\ \E newStatus \in CONTEXT_STATUSES :
              /\ newStatus \in {status[o], "active", "ignored", "stale"}
              /\ status' = [status EXCEPT ![o] = newStatus]
              /\ version' = [version EXCEPT ![o] = @ + 1]
              /\ history' = history \cup {NextRow(o, newStatus, "human")}
         /\ \E x : reviews' = reviews \cup {x}
         /\ confirmed' \subseteq confirmed \cup {o}
         /\ UNCHANGED <<item, validTo, rels>>
<1>1. o \in Created /\ status[o] \in CONTEXT_STATUSES
  BY DEF Review, Confirm, Ignore, MarkStale, Edit, Reviewable, Created, Exists, TypeOK
<1>2. {"active", "ignored", "stale"} \subseteq CONTEXT_STATUSES
  BY DEF CONTEXT_STATUSES
<1>3. \E action, newStatus : /\ newStatus \in {status[o], "active", "ignored", "stale"}
                             /\ Reviewed(o, action, newStatus)
  <2>1. CASE Confirm(o)
    BY <2>1 DEF Confirm
  <2>2. CASE Ignore(o)
    BY <2>2 DEF Ignore
  <2>3. CASE MarkStale(o)
    BY <2>3 DEF MarkStale
  <2>4. CASE \E patch \in Patches : Edit(o, patch)
    BY <2>4 DEF Edit
  <2> QED
    BY <2>1, <2>2, <2>3, <2>4 DEF Review
<1>4. confirmed' \subseteq confirmed \cup {o}
  BY DEF Review, Confirm, Ignore, MarkStale, Edit
<1> QED
  BY <1>1, <1>2, <1>3, <1>4 DEF Reviewed

\* What a resolution makes of an object: the ends of the relation get their verdict.
Verdict(r, keep, o) ==
    IF o \in keep THEN "active" ELSE IF o \in {r.from, r.to} THEN "superseded" ELSE status[o]

\* A resolution moves the ends that do not have their verdict yet, and no others.
LEMMA ResolveMoves ==
  ASSUME TypeOK, NEW r \in rels, NEW keep \in Verdicts(r), Resolve(r, keep)
  PROVE  /\ r.from \in Created /\ r.to \in Created /\ keep \subseteq {r.from, r.to}
         /\ status' = [o \in Objects |-> Verdict(r, keep, o)]
         /\ version' = [o \in Objects |-> IF Verdict(r, keep, o) # status[o]
                                            THEN version[o] + 1 ELSE version[o]]
         /\ \A h : h \in history' <=>
              h \in history \/ \E o \in {r.from, r.to} :
                                  /\ Verdict(r, keep, o) # status[o]
                                  /\ h = NextRow(o, Verdict(r, keep, o), "system")
<1>1. r.from \in Created /\ r.to \in Created /\ keep \subseteq {r.from, r.to}
  BY DEF TypeOK, Verdicts
<1> DEFINE lose == {r.from, r.to} \ keep
           moved == {o \in {r.from, r.to} : status[o] # Verdict(r, keep, o)}
<1>2. /\ status' = [o \in Objects |-> IF o \in moved THEN Verdict(r, keep, o) ELSE status[o]]
      /\ version' = [o \in Objects |-> IF o \in moved THEN version[o] + 1 ELSE version[o]]
      /\ history' = history \cup {NextRow(o, Verdict(r, keep, o), "system") : o \in moved}
  BY <1>1 DEF Resolve, Verdict
<1> QED
  BY <1>1, <1>2 DEF Verdict

\* Every step keeps the types.
LEMMA TypeStep == TypeOK /\ [Next]_vars => TypeOK'
<1> SUFFICES ASSUME TypeOK, [Next]_vars
             PROVE  TypeOK'
  OBVIOUS
<1>1. ASSUME NEW n \in Objects, NEW i \in Items, Process(n, i)
      PROVE  TypeOK'
  <2>1. InitialStatus(i) \in CONTEXT_STATUSES
    BY DEF InitialStatus, CONTEXT_STATUSES
  <2>2. item' \in [Objects -> Items \cup {None}] /\ Created' = Created \cup {n}
    BY <1>1, LedgerAssumption DEF Process, TypeOK, Created, Exists
  <2>3. status' \in [Objects -> CONTEXT_STATUSES \cup {None}]
    BY <1>1, <2>1 DEF Process, TypeOK, CONTEXT_STATUSES
  <2>4. validTo' \in [Objects -> Nat \cup {None}] /\ version' \in [Objects -> Nat]
    BY <1>1, LedgerAssumption DEF Process, TypeOK
  <2>5. confirmed' \subseteq Created'
    BY <1>1, <2>2 DEF Process, TypeOK
  <2>6. \A o \in Objects : Exists(o)' <=> status'[o] # None
    <3> TAKE o \in Objects
    <3>1. Exists(o)' <=> Exists(o) \/ o = n
      BY <1>1, LedgerAssumption DEF Process, TypeOK, Exists
    <3>2. status'[o] # None <=> status[o] # None \/ o = n
      BY <1>1, <2>1, SiblingsSplit, LedgerAssumption DEF Process, TypeOK, Exists, CONTEXT_STATUSES
    <3> QED
      BY <3>1, <3>2 DEF TypeOK
  <2>7. DOMAIN attrs' = Objects
    BY <1>1 DEF Process, TypeOK
  <2> QED
    BY <1>1, <2>2, <2>3, <2>4, <2>5, <2>6, <2>7, NewRelsType, NewRowsType DEF TypeOK, RelType, RowType
<1>2. ASSUME NEW o \in Objects, Review(o)
      PROVE  TypeOK'
  <2>1. PICK newStatus \in CONTEXT_STATUSES :
           /\ status' = [status EXCEPT ![o] = newStatus]
           /\ version' = [version EXCEPT ![o] = @ + 1]
           /\ history' = history \cup {NextRow(o, newStatus, "human")}
    BY <1>2, ReviewRecords
  <2>2. o \in Created /\ confirmed' \subseteq confirmed \cup {o} /\ UNCHANGED <<item, validTo, rels>>
    BY <1>2, ReviewRecords
  <2>3. Created' = Created
    BY <2>2 DEF Created, Exists
  <2>4. history' \subseteq RowType(Created')
    BY <2>1, <2>2, <2>3 DEF NextRow, Row, RowType, TypeOK
  <2>5. \A p \in Objects : Exists(p)' <=> status'[p] # None
    BY <2>1, <2>2, LedgerAssumption DEF TypeOK, Created, Exists
  <2>6. DOMAIN attrs' = Objects
    BY <1>2 DEF Review, Confirm, Ignore, MarkStale, Edit, TypeOK
  <2> QED
    BY <2>1, <2>2, <2>3, <2>4, <2>5, <2>6 DEF TypeOK, RowType
<1>3. ASSUME NEW r \in rels, NEW keep \in Verdicts(r), Resolve(r, keep)
      PROVE  TypeOK'
  <2>1. Created' = Created /\ UNCHANGED <<item, confirmed>>
    BY <1>3 DEF Resolve, Created, Exists
  <2>2. \A o \in Objects : o \in Created => Verdict(r, keep, o) \in CONTEXT_STATUSES
    BY DEF Verdict, TypeOK, Created, CONTEXT_STATUSES
  <2>3. status' \in [Objects -> CONTEXT_STATUSES \cup {None}] /\ version' \in [Objects -> Nat]
    BY <1>3, <2>2, ResolveMoves DEF Verdict, TypeOK, CONTEXT_STATUSES
  <2>4. validTo' \in [Objects -> Nat \cup {None}]
    BY <1>3, LedgerAssumption DEF Resolve, TypeOK
  <2>5. history' \subseteq RowType(Created')
    <3> SUFFICES ASSUME NEW h \in history'
                 PROVE  h \in RowType(Created)
      BY <2>1
    <3>1. h \in history \/ \E o \in {r.from, r.to} : h = NextRow(o, Verdict(r, keep, o), "system")
      BY <1>3, ResolveMoves
    <3> QED
      BY <1>3, <3>1, <2>2, ResolveMoves DEF NextRow, Row, RowType, TypeOK, Created
  <2>6. rels' \subseteq RelType(Created')
    <3> SUFFICES ASSUME NEW q \in rels'
                 PROVE  q \in RelType(Created)
      BY <2>1
    <3> DEFINE won == WinnerRels(keep, {r.from, r.to} \ keep)
    <3>0. rels' = (rels \ {r}) \cup {[r EXCEPT !.open = FALSE]} \cup won
      BY <1>3 DEF Resolve
    <3>1. q \in rels \/ q = [r EXCEPT !.open = FALSE] \/ q \in won
      BY <3>0
    <3>2. r \in RelType(Created)
      BY DEF TypeOK, RelType
    <3>3. CASE q = [r EXCEPT !.open = FALSE]
      BY <3>2, <3>3 DEF RelType
    <3>4. CASE q \in won
      <4>1. PICK w \in keep, o \in {r.from, r.to} : q = Rel(w, o, "supersedes", "human", FALSE)
        BY <3>4 DEF WinnerRels
      <4>2. w \in Created /\ o \in Created
        BY <1>3, ResolveMoves
      <4> QED
        BY <4>1, <4>2, RelHasType DEF Kinds
    <3> QED
      BY <3>1, <3>3, <3>4 DEF TypeOK, RelType
  <2>7. \A o \in Objects : Exists(o)' <=> status'[o] # None
    BY <1>3, <2>1, <2>2, ResolveMoves, LedgerAssumption DEF Verdict, TypeOK, Created, Exists, CONTEXT_STATUSES
  <2> QED
    BY <2>1, <2>3, <2>4, <2>5, <2>6, <2>7, <1>3 DEF Resolve, TypeOK, RowType, RelType
<1>4. CASE UNCHANGED vars
  BY <1>4 DEF vars, TypeOK, Created, Exists
<1> QED
  BY <1>1, <1>2, <1>3, <1>4 DEF Next, Pipeline, Human, Review

\* The empty ledger is well typed.
LEMMA TypeInit == Init => TypeOK
  BY DEF Init, TypeOK, Created, Exists

\* The values stay in their types.
THEOREM TypeCorrect == Spec => []TypeOK
<1>1. Init => TypeOK
  BY TypeInit
<1>2. TypeOK /\ [Next]_vars => TypeOK'
  BY TypeStep
<1> QED
  BY <1>1, <1>2, PTL DEF Spec

-----------------------------------------------------------------------------
(* What the handlers do, in the form the invariants need. *)

\* A new object gets a status, and siblings that contradict it get theirs.
LEMMA ProcessMoves ==
  ASSUME TypeOK, NEW n \in Objects, NEW i \in Items, Process(n, i)
  PROVE  /\ n \notin Created /\ Created' = Created \cup {n}
         /\ item'[n] = i /\ \A o \in Created : item'[o] = item[o]
         /\ \A o \in Objects \ {n} : status'[o] = IF o \in ToConflict(i) THEN "conflicting"
                                                 ELSE IF o \in ToSupersede(i) THEN "superseded"
                                                 ELSE status[o]
         /\ status'[n] = IF ToConflict(i) # {} THEN "conflicting" ELSE InitialStatus(i)
         /\ InitialStatus(i) \in {"candidate", "active"}
<1>1. n \notin Created /\ Created' = Created \cup {n}
  BY LedgerAssumption DEF Process, TypeOK, Created, Exists
<1>2. item'[n] = i /\ \A o \in Created : item'[o] = item[o]
  BY LedgerAssumption DEF Process, TypeOK, Created, Exists
<1>3. /\ \A o \in Objects \ {n} : status'[o] = IF o \in ToConflict(i) THEN "conflicting"
                                              ELSE IF o \in ToSupersede(i) THEN "superseded"
                                              ELSE status[o]
      /\ status'[n] = IF ToConflict(i) # {} THEN "conflicting" ELSE InitialStatus(i)
  BY <1>1, SiblingsSplit DEF Process, Created
<1>4. InitialStatus(i) \in {"candidate", "active"}
  BY DEF InitialStatus
<1> QED
  BY <1>1, <1>2, <1>3, <1>4

\* A relation that is resolved is closed, and the winner supersedes the loser.
LEMMA ResolveRels ==
  ASSUME NEW r \in rels, NEW keep \in Verdicts(r), Resolve(r, keep)
  PROVE  /\ r.open /\ r.kind \in {"contradicts", "duplicate_of"}
         /\ \A q : q \in rels' <=> \/ q \in rels /\ q # r
                                   \/ q = [r EXCEPT !.open = FALSE]
                                   \/ \E w \in keep, o \in {r.from, r.to} \ keep :
                                        q = Rel(w, o, "supersedes", "human", FALSE)
<1> DEFINE lose == {r.from, r.to} \ keep
<1>1. rels' = (rels \ {r}) \cup {[r EXCEPT !.open = FALSE]} \cup WinnerRels(keep, lose)
  BY DEF Resolve
<1>2. ASSUME NEW q
      PROVE  q \in WinnerRels(keep, lose) <=>
               \E w \in keep, o \in lose : q = Rel(w, o, "supersedes", "human", FALSE)
  <2>1. ASSUME NEW w \in keep, NEW o \in lose, q = Rel(w, o, "supersedes", "human", FALSE)
        PROVE  q \in WinnerRels(keep, lose)
    <3>1. q \in {Rel(w, p, "supersedes", "human", FALSE) : p \in lose}
      BY <2>1
    <3> QED
      BY <3>1 DEF WinnerRels
  <2>2. ASSUME q \in WinnerRels(keep, lose)
        PROVE  \E w \in keep, o \in lose : q = Rel(w, o, "supersedes", "human", FALSE)
    BY <2>2 DEF WinnerRels
  <2> QED
    BY <2>1, <2>2
<1> QED
  BY <1>1, <1>2 DEF Resolve

-----------------------------------------------------------------------------
(* Conflicts. *)

\* No step leaves a conflicting object without an unresolved contradicts relation.
LEMMA ConflictStep == TypeOK /\ ConflictIsListed /\ [Next]_vars => ConflictIsListed'
<1> SUFFICES ASSUME TypeOK, ConflictIsListed, [Next]_vars
             PROVE  ConflictIsListed'
  OBVIOUS
<1>1. ASSUME NEW n \in Objects, NEW i \in Items, Process(n, i)
      PROVE  ConflictIsListed'
  <2> SUFFICES ASSUME NEW o \in Objects, status'[o] = "conflicting"
               PROVE  \E r \in rels' : r.kind = "contradicts" /\ r.open /\ o \in {r.from, r.to}
    BY DEF ConflictIsListed
  <2>1. o \in Created \/ o = n
    BY <1>1, ProcessMoves, SiblingsSplit, LedgerAssumption DEF TypeOK, Created, Exists, CONTEXT_STATUSES
  <2>2. CASE o \in Created /\ o \notin ToConflict(i)
    <3>1. status[o] = "conflicting"
      BY <1>1, <2>2, ProcessMoves
    <3>2. PICK r \in rels : r.kind = "contradicts" /\ r.open /\ o \in {r.from, r.to}
      BY <3>1 DEF ConflictIsListed
    <3> QED
      BY <1>1, <3>2, ProcessRels
  <2>3. ASSUME NEW p \in ToConflict(i), o \in {n, p}
        PROVE  \E r \in rels' : r.kind = "contradicts" /\ r.open /\ o \in {r.from, r.to}
    <3>1. Rel(n, p, "contradicts", "lifecycle", TRUE) \in rels'
      BY <1>1, ProcessRels DEF ConflictRels
    <3> QED
      BY <2>3, <3>1 DEF Rel
  <2>4. CASE o = n
    BY <1>1, <2>3, <2>4, ProcessMoves
  <2> QED
    BY <2>1, <2>2, <2>3, <2>4
<1>2. ASSUME NEW o \in Objects, Review(o)
      PROVE  ConflictIsListed'
  BY <1>2, ReviewRecords DEF ConflictIsListed, TypeOK
<1>3. ASSUME NEW r \in rels, NEW keep \in Verdicts(r), Resolve(r, keep)
      PROVE  ConflictIsListed'
  <2> SUFFICES ASSUME NEW o \in Objects, status'[o] = "conflicting"
               PROVE  \E q \in rels' : q.kind = "contradicts" /\ q.open /\ o \in {q.from, q.to}
    BY DEF ConflictIsListed
  <2>1. o \notin {r.from, r.to} /\ status[o] = "conflicting"
    BY <1>3, ResolveMoves DEF Verdict
  <2>2. PICK q \in rels : q.kind = "contradicts" /\ q.open /\ o \in {q.from, q.to}
    BY <2>1 DEF ConflictIsListed
  <2> QED
    BY <1>3, <2>1, <2>2, ResolveRels
<1>4. CASE UNCHANGED vars
  BY <1>4 DEF vars, ConflictIsListed
<1> QED
  BY <1>1, <1>2, <1>3, <1>4 DEF Next, Pipeline, Human, Review

\* Every conflicting object is listed by GET /conflicts, in every run.
THEOREM ConflictsListed == Spec => []ConflictIsListed
<1>1. Init => TypeOK /\ ConflictIsListed
  <2> SUFFICES ASSUME Init
               PROVE  TypeOK /\ ConflictIsListed
    OBVIOUS
  <2>1. TypeOK
    BY TypeInit
  <2>2. ConflictIsListed
    BY LedgerAssumption DEF Init, ConflictIsListed, CONTEXT_STATUSES
  <2> QED
    BY <2>1, <2>2
<1>2. TypeOK /\ ConflictIsListed /\ [Next]_vars => (TypeOK /\ ConflictIsListed)'
  BY TypeStep, ConflictStep
<1> QED
  BY <1>1, <1>2, PTL DEF Spec

-----------------------------------------------------------------------------
(* Lineage. *)

Derived(d, u) == Rel(d, u, "derived_from", "lineage", FALSE)

\* A derived_from relation is the closed one that create_lineage_links writes.
LEMMA DerivedFields ==
  ASSUME NEW d, NEW u
  PROVE  /\ Derived(d, u).from = d
         /\ Derived(d, u).to = u
         /\ Derived(d, u).kind = "derived_from"
  BY DEF Derived, Rel

\* The only derived_from relations of a Process step are those of create_lineage_links.
LEMMA NewLineage ==
  ASSUME TypeOK, NEW n \in Objects, NEW i \in Items, Process(n, i), NEW d, NEW u
  PROVE  Derived(d, u) \in rels' <=> \/ Derived(d, u) \in rels
                                     \/ d = n /\ u \in Created /\ Descends(i, item[u])
                                     \/ u = n /\ d \in Created /\ Descends(item[d], i)
<1>1. PICK D : D = Derived(d, u) /\ D.from = d /\ D.to = u /\ D.kind = "derived_from"
  BY DerivedFields
<1>3. ASSUME NEW os
      PROVE  D \notin ConflictRels(n, os) /\ D \notin R3Rels(n, os)
  BY <1>1 DEF ConflictRels, R3Rels, Rel
<1>4. D \notin DedupAdds(n, i)
  <2> SUFFICES ASSUME NEW o \in Agreeing(i),
                      D \in {Rel(n, o, "duplicate_of", "dedup", TRUE),
                             Rel(Duplicate(n, i, o), Canonical(n, i, o), "duplicate_of", "dedup", FALSE),
                             Rel(Canonical(n, i, o), Duplicate(n, i, o), "supported_by", "dedup", FALSE)}
               PROVE  FALSE
    BY DEF DedupAdds
  <2> QED
    BY <1>1 DEF Rel
<1>5. D \in LineageRels(n, i) <=> \/ d = n /\ u \in Created /\ Descends(i, item[u])
                                  \/ u = n /\ d \in Created /\ Descends(item[d], i)
  <2>1. \A o : D = Rel(n, o, "derived_from", "lineage", FALSE) <=> d = n /\ u = o
    BY <1>1 DEF Derived, Rel
  <2>2. \A o : D = Rel(o, n, "derived_from", "lineage", FALSE) <=> d = o /\ u = n
    BY <1>1 DEF Derived, Rel
  <2> QED
    BY <2>1, <2>2 DEF LineageRels
<1> QED
  BY <1>1, <1>3, <1>4, <1>5, ProcessRels

\* Every step keeps the lineage exact.
LEMMA LineageStep == TypeOK /\ LineageIsExact /\ [Next]_vars => LineageIsExact'
<1> SUFFICES ASSUME TypeOK, LineageIsExact, [Next]_vars
             PROVE  LineageIsExact'
  OBVIOUS
<1>1. ASSUME NEW n \in Objects, NEW i \in Items, Process(n, i)
      PROVE  LineageIsExact'
  <2> SUFFICES ASSUME NEW d \in Created', NEW u \in Created'
               PROVE  Descends(item'[d], item'[u]) <=> Derived(d, u) \in rels'
    BY DEF LineageIsExact, Derived
  <2>1. \A a, b : Derived(a, b) \in rels => a \in Created /\ b \in Created
    BY DerivedFields DEF TypeOK
  <2>2. \A a : Derived(a, n) \notin rels /\ Derived(n, a) \notin rels
    <3>1. n \notin Created
      BY <1>1, ProcessMoves
    <3> QED
      BY <2>1, <3>1
  <2>3. CASE d \in Created /\ u \in Created
    <3>1. Descends(item[d], item[u]) <=> Derived(d, u) \in rels
      BY <2>3 DEF LineageIsExact, Derived
    <3>2. d # n /\ u # n /\ item'[d] = item[d] /\ item'[u] = item[u]
      BY <1>1, <2>3, ProcessMoves
    <3>3. Derived(d, u) \in rels' <=> Derived(d, u) \in rels
      BY <1>1, <3>2, NewLineage
    <3> QED
      BY <3>1, <3>2, <3>3
  <2>4. CASE d = n /\ u \in Created
    BY <1>1, <2>2, <2>4, ProcessMoves, NewLineage
  <2>5. CASE d \in Created /\ u = n
    BY <1>1, <2>2, <2>5, ProcessMoves, NewLineage
  <2>6. CASE d = n /\ u = n
    <3>1. ~Descends(i, i)
      BY LedgerAssumption DEF Descends
    <3> QED
      BY <1>1, <2>2, <2>6, <3>1, ProcessMoves, NewLineage
  <2> QED
    BY <1>1, <2>3, <2>4, <2>5, <2>6, ProcessMoves
<1>2. ASSUME NEW o \in Objects, Review(o)
      PROVE  LineageIsExact'
  BY <1>2, ReviewRecords DEF LineageIsExact, Created, Exists
<1>3. ASSUME NEW r \in rels, NEW keep \in Verdicts(r), Resolve(r, keep)
      PROVE  LineageIsExact'
  <2>1. \A d, u : Derived(d, u) \in rels' <=> Derived(d, u) \in rels
    <3> TAKE d, u
    <3>1. PICK D : D = Derived(d, u) /\ D.kind = "derived_from"
      BY DerivedFields
    <3>2. D # r /\ D # [r EXCEPT !.open = FALSE]
      BY <1>3, <3>1, ResolveRels DEF TypeOK
    <3>3. D \in rels' <=> (D \in rels /\ D # r) \/ D = [r EXCEPT !.open = FALSE]
      BY <1>3, <3>1, ResolveRels DEF Rel
    <3> QED
      BY <3>1, <3>2, <3>3
  <2> QED
    BY <1>3, <2>1 DEF Resolve, LineageIsExact, Derived, Created, Exists
<1>4. CASE UNCHANGED vars
  BY <1>4 DEF vars, LineageIsExact, Created, Exists
<1> QED
  BY <1>1, <1>2, <1>3, <1>4 DEF Next, Pipeline, Human, Review

\* Lineage is exact in every run, whatever the order of processing.
THEOREM LineageExact == Spec => []LineageIsExact
<1>1. Init => TypeOK /\ LineageIsExact
  BY TypeInit DEF Init, Created, Exists, LineageIsExact
<1>2. TypeOK /\ LineageIsExact /\ [Next]_vars => (TypeOK /\ LineageIsExact)'
  BY TypeStep, LineageStep
<1> QED
  BY <1>1, <1>2, PTL DEF Spec

-----------------------------------------------------------------------------
(* Open questions. *)

\* The open relations a Process step adds: a conflict, or a duplicate to look at,
\* between the new object and a sibling.
LEMMA NewOpenRels ==
  ASSUME NEW n \in Objects, NEW i \in Items, Process(n, i), NEW q \in rels', q \notin rels, q.open
  PROVE  \/ \E o \in ToConflict(i) : q = Rel(n, o, "contradicts", "lifecycle", TRUE)
         \/ \E o \in Agreeing(i) : q = Rel(n, o, "duplicate_of", "dedup", TRUE)
<1>1. CASE q \in ConflictRels(n, ToConflict(i))
  BY <1>1 DEF ConflictRels
<1>2. CASE q \in R3Rels(n, ToSupersede(i)) \cup LineageRels(n, i)
  BY <1>2 DEF R3Rels, LineageRels, Rel
<1>3. CASE q \in DedupAdds(n, i)
  <2>1. PICK o \in Agreeing(i) :
           q \in {Rel(n, o, "duplicate_of", "dedup", TRUE),
                  Rel(Duplicate(n, i, o), Canonical(n, i, o), "duplicate_of", "dedup", FALSE),
                  Rel(Canonical(n, i, o), Duplicate(n, i, o), "supported_by", "dedup", FALSE)}
    BY <1>3 DEF DedupAdds
  <2>2. q = Rel(n, o, "duplicate_of", "dedup", TRUE)
    BY <2>1 DEF Rel
  <2> QED
    BY <2>2
<1> QED
  BY <1>1, <1>2, <1>3, ProcessRels

\* No step makes two open questions of one pair.
LEMMA QuestionStep == TypeOK /\ OneOpenQuestion /\ [Next]_vars => OneOpenQuestion'
<1> SUFFICES ASSUME TypeOK, OneOpenQuestion, [Next]_vars
             PROVE  OneOpenQuestion'
  OBVIOUS
<1>1. ASSUME NEW n \in Objects, NEW i \in Items, Process(n, i)
      PROVE  OneOpenQuestion'
  <2> SUFFICES ASSUME NEW r \in rels', NEW q \in rels', r.open, q.open,
                      {r.from, r.to} = {q.from, q.to}
               PROVE  r = q
    BY DEF OneOpenQuestion
  <2>1. n \notin Created /\ \A o \in Siblings(i) : o # n
    BY <1>1, ProcessMoves, SiblingsSplit DEF Created
  <2>2. \A x \in rels : n \notin {x.from, x.to}
    BY <2>1 DEF TypeOK
  <2>3. ASSUME NEW x \in rels', x \notin rels, x.open
        PROVE  \E o \in Siblings(i) :
                  /\ {x.from, x.to} = {n, o}
                  /\ \/ o \in ToConflict(i) /\ x = Rel(n, o, "contradicts", "lifecycle", TRUE)
                     \/ o \in Agreeing(i) /\ x = Rel(n, o, "duplicate_of", "dedup", TRUE)
    <3>1. CASE \E o \in ToConflict(i) : x = Rel(n, o, "contradicts", "lifecycle", TRUE)
      <4>1. PICK o \in ToConflict(i) : x = Rel(n, o, "contradicts", "lifecycle", TRUE)
        BY <3>1
      <4>2. x.from = n /\ x.to = o
        BY <4>1 DEF Rel
      <4> QED
        BY <4>1, <4>2, SiblingsSplit
    <3>2. CASE \E o \in Agreeing(i) : x = Rel(n, o, "duplicate_of", "dedup", TRUE)
      <4>1. PICK o \in Agreeing(i) : x = Rel(n, o, "duplicate_of", "dedup", TRUE)
        BY <3>2
      <4>2. x.from = n /\ x.to = o
        BY <4>1 DEF Rel
      <4> QED
        BY <4>1, <4>2, SiblingsSplit
    <3> QED
      BY <1>1, <2>3, <3>1, <3>2, NewOpenRels
  <2>4. CASE r \in rels /\ q \in rels
    BY <2>4 DEF OneOpenQuestion
  <2>5. CASE r \in rels /\ q \notin rels
    BY <2>2, <2>3, <2>5
  <2>6. CASE r \notin rels /\ q \in rels
    BY <2>2, <2>3, <2>6
  <2>7. CASE r \notin rels /\ q \notin rels
    <3>1. PICK o \in Siblings(i) :
             /\ {r.from, r.to} = {n, o}
             /\ \/ o \in ToConflict(i) /\ r = Rel(n, o, "contradicts", "lifecycle", TRUE)
                \/ o \in Agreeing(i) /\ r = Rel(n, o, "duplicate_of", "dedup", TRUE)
      BY <2>3, <2>7
    <3>2. PICK p \in Siblings(i) :
             /\ {q.from, q.to} = {n, p}
             /\ \/ p \in ToConflict(i) /\ q = Rel(n, p, "contradicts", "lifecycle", TRUE)
                \/ p \in Agreeing(i) /\ q = Rel(n, p, "duplicate_of", "dedup", TRUE)
      BY <2>3, <2>7
    <3>3. o = p
      BY <2>1, <3>1, <3>2
    <3> QED
      BY <3>1, <3>2, <3>3, SiblingsSplit
  <2> QED
    BY <2>4, <2>5, <2>6, <2>7
<1>2. ASSUME NEW o \in Objects, Review(o)
      PROVE  OneOpenQuestion'
  BY <1>2, ReviewRecords DEF OneOpenQuestion
<1>3. ASSUME NEW r \in rels, NEW keep \in Verdicts(r), Resolve(r, keep)
      PROVE  OneOpenQuestion'
  <2>1. ASSUME NEW q \in rels', q.open
        PROVE  q \in rels
    <3>1. q # [r EXCEPT !.open = FALSE]
      BY <2>1 DEF TypeOK
    <3> QED
      BY <1>3, <2>1, <3>1, ResolveRels DEF Rel
  <2> QED
    BY <2>1 DEF OneOpenQuestion
<1>4. CASE UNCHANGED vars
  BY <1>4 DEF vars, OneOpenQuestion
<1> QED
  BY <1>1, <1>2, <1>3, <1>4 DEF Next, Pipeline, Human, Review

\* A pair of objects is one open question at most, in every run.
THEOREM OneQuestion == Spec => []OneOpenQuestion
<1>1. Init => TypeOK /\ OneOpenQuestion
  BY TypeInit DEF Init, Created, Exists, OneOpenQuestion
<1>2. TypeOK /\ OneOpenQuestion /\ [Next]_vars => (TypeOK /\ OneOpenQuestion)'
  BY TypeStep, QuestionStep
<1> QED
  BY <1>1, <1>2, PTL DEF Spec

-----------------------------------------------------------------------------
(* Duplicates. *)

\* A supported_by relation of a Process step comes with its duplicate_of.
LEMMA NewSupport ==
  ASSUME NEW n \in Objects, NEW i \in Items, Process(n, i), NEW q \in rels', q \notin rels,
         q.kind = "supported_by"
  PROVE  \E o \in Agreeing(i) :
            /\ q.from = Canonical(n, i, o) /\ q.to = Duplicate(n, i, o)
            /\ Rel(q.to, q.from, "duplicate_of", "dedup", FALSE) \in rels'
<1>1. PICK merged \in Merges(n, i) :
         rels' = rels \cup ConflictRels(n, ToConflict(i)) \cup R3Rels(n, ToSupersede(i))
                      \cup merged \cup LineageRels(n, i)
  BY DEF Process
<1>2. q \notin ConflictRels(n, ToConflict(i)) /\ q \notin R3Rels(n, ToSupersede(i))
  BY DEF ConflictRels, R3Rels, Rel
<1>3. q \notin LineageRels(n, i)
  BY DEF LineageRels, Rel
<1>4. q \in merged
  BY <1>1, <1>2, <1>3
<1>5. PICK sim \in [Agreeing(i) -> {"auto", "review", "low"}] :
         merged = UNION {DedupRels(n, i, o, sim[o]) : o \in Agreeing(i)}
  BY <1>1 DEF Merges
<1>6. PICK o \in Agreeing(i) : q \in DedupRels(n, i, o, sim[o])
  BY <1>4, <1>5
<1>7. sim[o] = "auto" /\ q = Rel(Canonical(n, i, o), Duplicate(n, i, o), "supported_by", "dedup", FALSE)
  BY <1>5, <1>6 DEF DedupRels, Rel
<1>8. Rel(Duplicate(n, i, o), Canonical(n, i, o), "duplicate_of", "dedup", FALSE)
        \in DedupRels(n, i, o, sim[o])
  BY <1>7 DEF DedupRels
<1>9. DedupRels(n, i, o, sim[o]) \subseteq rels'
  BY <1>1, <1>5
<1>10. q.from = Canonical(n, i, o) /\ q.to = Duplicate(n, i, o)
  BY <1>7 DEF Rel
<1> QED
  BY <1>8, <1>9, <1>10

\* No step makes an object the canonical one of a duplicate that outranks it.
LEMMA SupportStep == TypeOK /\ SupportOutranked /\ [Next]_vars => SupportOutranked'
<1> SUFFICES ASSUME TypeOK, SupportOutranked, [Next]_vars
             PROVE  SupportOutranked'
  OBVIOUS
<1>1. ASSUME NEW n \in Objects, NEW i \in Items, Process(n, i)
      PROVE  SupportOutranked'
  <2> SUFFICES ASSUME NEW q \in rels', q.kind = "supported_by"
               PROVE  /\ Authority(item'[q.from]) >= Authority(item'[q.to])
                      /\ Rel(q.to, q.from, "duplicate_of", "dedup", FALSE) \in rels'
    BY DEF SupportOutranked
  <2>1. CASE q \in rels
    <3>1. /\ Authority(item[q.from]) >= Authority(item[q.to])
          /\ Rel(q.to, q.from, "duplicate_of", "dedup", FALSE) \in rels
      BY <2>1 DEF SupportOutranked
    <3>2. item'[q.from] = item[q.from] /\ item'[q.to] = item[q.to]
      BY <1>1, <2>1, ProcessMoves DEF TypeOK
    <3> QED
      BY <1>1, <3>1, <3>2, ProcessRels
  <2>2. CASE q \notin rels
    <3>1. PICK o \in Agreeing(i) :
             /\ q.from = Canonical(n, i, o) /\ q.to = Duplicate(n, i, o)
             /\ Rel(q.to, q.from, "duplicate_of", "dedup", FALSE) \in rels'
      BY <1>1, <2>2, NewSupport
    <3>2. o # n /\ item'[o] = item[o] /\ item'[n] = i
      BY <1>1, ProcessMoves, SiblingsSplit DEF Created
    <3>3. Authority(item'[q.from]) >= Authority(item'[q.to])
      BY <3>1, <3>2, AuthorityType DEF Canonical, Duplicate, NewIsCanonical
    <3> QED
      BY <3>1, <3>3
  <2> QED
    BY <2>1, <2>2
<1>2. ASSUME NEW o \in Objects, Review(o)
      PROVE  SupportOutranked'
  BY <1>2, ReviewRecords DEF SupportOutranked
<1>3. ASSUME NEW r \in rels, NEW keep \in Verdicts(r), Resolve(r, keep)
      PROVE  SupportOutranked'
  <2>1. ASSUME NEW q \in rels', q.kind = "supported_by"
        PROVE  q \in rels
    BY <1>3, <2>1, ResolveRels DEF Rel, TypeOK
  <2>2. ASSUME NEW a, NEW b, Rel(a, b, "duplicate_of", "dedup", FALSE) \in rels
        PROVE  Rel(a, b, "duplicate_of", "dedup", FALSE) \in rels'
    <3>1. r.open
      BY <1>3, ResolveRels
    <3>2. PICK x : x = Rel(a, b, "duplicate_of", "dedup", FALSE)
      OBVIOUS
    <3>3. x # r
      BY <3>1, <3>2 DEF Rel
    <3>4. \A y \in rels : y # r => y \in rels'
      BY <1>3, ResolveRels
    <3>5. x \in rels
      BY <2>2, <3>2
    <3> QED
      BY <3>2, <3>3, <3>4, <3>5
  <2> QED
    BY <1>3, <2>1, <2>2 DEF SupportOutranked, Resolve
<1>4. CASE UNCHANGED vars
  BY <1>4 DEF vars, SupportOutranked
<1> QED
  BY <1>1, <1>2, <1>3, <1>4 DEF Next, Pipeline, Human, Review

\* The canonical object of a duplicate pair is never outranked, in every run.
THEOREM Outranked == Spec => []SupportOutranked
<1>1. Init => TypeOK /\ SupportOutranked
  BY TypeInit DEF Init, SupportOutranked
<1>2. TypeOK /\ SupportOutranked /\ [Next]_vars => (TypeOK /\ SupportOutranked)'
  BY TypeStep, SupportStep
<1> QED
  BY <1>1, <1>2, PTL DEF Spec

-----------------------------------------------------------------------------
(* History. *)

\* One step's effect on the history of an existing object: none, or one version
\* more with one row that has the new status.
Kept(o) ==
    /\ version'[o] = version[o]
    /\ status'[o] = status[o]
    /\ \A h \in history' : h.obj = o => h \in history

Bumped(o) ==
    /\ version'[o] = version[o] + 1
    /\ \E row \in history' :
         /\ row.obj = o /\ row.version = version[o] + 1 /\ row.status = status'[o]
         /\ \A h \in history' : h.obj = o => h \in history \/ h = row

HistoryOf(o) ==
    /\ \A r \in history : r.obj = o => r.version \in 1..version[o]
    /\ \A v \in 1..version[o] : \E r \in history : r.obj = o /\ r.version = v
    /\ \A r, q \in history : r.obj = o /\ q.obj = o /\ r.version = q.version => r = q
    /\ \A r \in history : r.obj = o /\ r.version = version[o] => r.status = status[o]

\* A step of either kind keeps an object's history faithful.
LEMMA HistoryKept ==
  ASSUME NEW o, version[o] \in Nat, HistoryOf(o), history \subseteq history', Kept(o) \/ Bumped(o)
  PROVE  HistoryOf(o)'
<1>1. CASE Kept(o)
  BY <1>1 DEF Kept, HistoryOf
<1>2. CASE Bumped(o)
  <2>1. PICK row \in history' :
           /\ row.obj = o /\ row.version = version[o] + 1 /\ row.status = status'[o]
           /\ \A h \in history' : h.obj = o => h \in history \/ h = row
    BY <1>2 DEF Bumped
  <2>2. version'[o] = version[o] + 1
    BY <1>2 DEF Bumped
  <2>3. \A h \in history : h.obj = o => h.version \in 1..version[o]
    BY DEF HistoryOf
  <2>4. \A r \in history' : r.obj = o => r.version \in 1..version'[o]
    BY <2>1, <2>2, <2>3
  <2>5. \A v \in 1..version'[o] : \E r \in history' : r.obj = o /\ r.version = v
    BY <2>1, <2>2 DEF HistoryOf
  <2>6. \A r, q \in history' : r.obj = o /\ q.obj = o /\ r.version = q.version => r = q
    BY <2>1, <2>3 DEF HistoryOf
  <2>7. \A r \in history' : r.obj = o /\ r.version = version'[o] => r.status = status'[o]
    BY <2>1, <2>2, <2>3
  <2> QED
    BY <2>4, <2>5, <2>6, <2>7 DEF HistoryOf
<1> QED
  BY <1>1, <1>2

\* Every step keeps every object's history faithful.
LEMMA HistoryStep == TypeOK /\ HistoryIsFaithful /\ [Next]_vars => HistoryIsFaithful'
<1> SUFFICES ASSUME TypeOK, HistoryIsFaithful, [Next]_vars
             PROVE  HistoryIsFaithful'
  OBVIOUS
<1>0. ASSUME NEW o \in Created
      PROVE  HistoryOf(o) /\ version[o] \in Nat /\ o \in Objects
  BY <1>0 DEF HistoryIsFaithful, HistoryOf, TypeOK, Created
<1>1. ASSUME NEW n \in Objects, NEW i \in Items, Process(n, i)
      PROVE  HistoryIsFaithful'
  <2> DEFINE conflict == ToConflict(i)
             replaced == ToSupersede(i)
             newRow == Row(n, 1, IF conflict # {} THEN "conflicting" ELSE InitialStatus(i), "system")
  <2>1. /\ n \notin Created /\ Created' = Created \cup {n}
        /\ n \notin conflict \cup replaced /\ conflict \cap replaced = {}
    BY <1>1, ProcessMoves, SiblingsSplit DEF Created
  <2>2. \A h : h \in history' <=> \/ h \in history
                                  \/ h = newRow
                                  \/ \E o \in conflict : h = NextRow(o, "conflicting", "system")
                                  \/ \E o \in replaced : h = NextRow(o, "superseded", "system")
    BY <1>1 DEF Process
  <2>3. /\ version' = [o \in Objects |-> CASE o = n -> 1
                                          [] o \in conflict \cup replaced -> version[o] + 1
                                          [] OTHER -> version[o]]
        /\ status'[n] = IF conflict # {} THEN "conflicting" ELSE InitialStatus(i)
        /\ \A o \in Objects \ {n} : status'[o] = IF o \in conflict THEN "conflicting"
                                                ELSE IF o \in replaced THEN "superseded"
                                                ELSE status[o]
    BY <1>1, ProcessMoves DEF Process
  <2> HIDE DEF conflict, replaced
  <2>4. ASSUME NEW o \in Created
        PROVE  HistoryOf(o)'
    <3>1. o # n /\ o \in Objects
      BY <2>1, <1>0
    <3>2. CASE o \in conflict \cup replaced
      <4> DEFINE row == NextRow(o, IF o \in conflict THEN "conflicting" ELSE "superseded", "system")
      <4>1. row \in history'
        BY <2>2, <3>2
      <4>2. \A h \in history' : h.obj = o => h \in history \/ h = row
        BY <2>1, <2>2, <3>1 DEF NextRow, Row
      <4>3. row.obj = o /\ row.version = version[o] + 1 /\ row.status = status'[o]
        BY <2>1, <2>3, <3>1, <3>2 DEF NextRow, Row
      <4>4. version'[o] = version[o] + 1
        BY <2>1, <2>3, <3>1, <3>2
      <4>5. Bumped(o)
        BY <4>1, <4>2, <4>3, <4>4 DEF Bumped
      <4> QED
        BY <4>5, <1>0, <2>2, HistoryKept
    <3>3. CASE o \notin conflict \cup replaced
      <4>1. \A h \in history' : h.obj = o => h \in history
        BY <2>1, <2>2, <3>1, <3>3 DEF NextRow, Row
      <4>2. Kept(o)
        BY <2>3, <3>1, <3>3, <4>1 DEF Kept
      <4> QED
        BY <4>2, <1>0, <2>2, HistoryKept
    <3> QED
      BY <3>2, <3>3
  <2>5. HistoryOf(n)'
    <3>1. \A h \in history' : h.obj = n => h = newRow
      BY <2>1, <2>2 DEF NextRow, Row, TypeOK
    <3>2. newRow \in history' /\ newRow.obj = n /\ newRow.version = 1 /\ newRow.status = status'[n]
      BY <2>2, <2>3 DEF Row
    <3>3. version'[n] = 1
      BY <2>1, <2>3
    <3> QED
      BY <3>1, <3>2, <3>3 DEF HistoryOf
  <2> QED
    BY <2>1, <2>4, <2>5 DEF HistoryIsFaithful, HistoryOf
<1>2. ASSUME NEW p \in Objects, Review(p)
      PROVE  HistoryIsFaithful'
  <2>1. PICK st \in CONTEXT_STATUSES :
           /\ status' = [status EXCEPT ![p] = st]
           /\ version' = [version EXCEPT ![p] = @ + 1]
           /\ history' = history \cup {NextRow(p, st, "human")}
    BY <1>2, ReviewRecords
  <2>2. Created' = Created
    BY <1>2, ReviewRecords DEF Created, Exists
  <2>3. ASSUME NEW o \in Created
        PROVE  Kept(o) \/ Bumped(o)
    <3>1. CASE o = p
      <4>1. NextRow(p, st, "human").obj = p /\ NextRow(p, st, "human").version = version[p] + 1
              /\ NextRow(p, st, "human").status = st
        BY DEF NextRow, Row
      <4> QED
        BY <2>1, <3>1, <4>1, <1>0 DEF Bumped, TypeOK
    <3>2. CASE o # p
      BY <2>1, <3>2, <1>0 DEF Kept, NextRow, Row, TypeOK
    <3> QED
      BY <3>1, <3>2
  <2> QED
    BY <1>0, <2>1, <2>2, <2>3, HistoryKept DEF HistoryIsFaithful, HistoryOf
<1>3. ASSUME NEW r \in rels, NEW keep \in Verdicts(r), Resolve(r, keep)
      PROVE  HistoryIsFaithful'
  <2>1. Created' = Created
    BY <1>3 DEF Resolve, Created, Exists
  <2>2. ASSUME NEW o \in Created
        PROVE  Kept(o) \/ Bumped(o)
    <3> DEFINE row == NextRow(o, Verdict(r, keep, o), "system")
    <3>1. row.obj = o /\ row.version = version[o] + 1 /\ row.status = Verdict(r, keep, o)
      BY DEF NextRow, Row
    <3>2. \A h \in history' : h.obj = o =>
             h \in history \/ (Verdict(r, keep, o) # status[o] /\ h = row)
      BY <1>3, ResolveMoves DEF NextRow, Row
    <3>3. CASE Verdict(r, keep, o) # status[o]
      <4>1. row \in history'
        BY <1>3, <3>3, ResolveMoves DEF Verdict
      <4> QED
        BY <1>0, <1>3, <3>1, <3>2, <3>3, <4>1, ResolveMoves DEF Bumped
    <3>4. CASE Verdict(r, keep, o) = status[o]
      BY <1>0, <1>3, <3>2, <3>4, ResolveMoves DEF Kept
    <3> QED
      BY <3>3, <3>4
  <2>3. history \subseteq history'
    BY <1>3, ResolveMoves
  <2> QED
    BY <1>0, <2>1, <2>2, <2>3, HistoryKept DEF HistoryIsFaithful, HistoryOf
<1>4. CASE UNCHANGED vars
  BY <1>4 DEF vars, HistoryIsFaithful, Created, Exists
<1> QED
  BY <1>1, <1>2, <1>3, <1>4 DEF Next, Pipeline, Human, Review

\* context_versions is the complete history of every object, in every run.
THEOREM HistoryFaithful == Spec => []HistoryIsFaithful
<1>1. Init => TypeOK /\ HistoryIsFaithful
  BY TypeInit DEF Init, Created, Exists, HistoryIsFaithful
<1>2. TypeOK /\ HistoryIsFaithful /\ [Next]_vars => (TypeOK /\ HistoryIsFaithful)'
  BY TypeStep, HistoryStep
<1> QED
  BY <1>1, <1>2, PTL DEF Spec

-----------------------------------------------------------------------------
(* Supersession. *)

ResolvedRecord(r) == [target |-> [r EXCEPT !.open = TRUE], action |-> "resolve_conflict"]

\* What explains that o is superseded: its successor, or a resolution against it.
Explains(r, o) ==
    \/ r.kind = "supersedes" /\ r.to = o
    \/ o \in {r.from, r.to} /\ ResolvedRecord(r) \in reviews

\* A closed relation has the ends it had, and opening it again gives it back.
LEMMA ClosedRel ==
  ASSUME TypeOK, NEW r \in rels, r.open
  PROVE  LET closed == [r EXCEPT !.open = FALSE]
         IN closed.from = r.from /\ closed.to = r.to /\ [closed EXCEPT !.open = TRUE] = r
<1>1. r \in RelType(Created)
  BY DEF TypeOK, RelType
<1>2. r.open = TRUE
  BY <1>1 DEF RelType
<1>3. r = [from |-> r.from, to |-> r.to, kind |-> r.kind, by |-> r.by, open |-> TRUE]
  BY <1>1, <1>2 DEF RelType
<1> QED
  BY <1>3

\* A resolution leaves every explanation standing.
LEMMA ExplanationsLast ==
  ASSUME TypeOK, NEW r \in rels, NEW keep \in Verdicts(r), Resolve(r, keep),
         NEW q \in rels, NEW o, Explains(q, o)
  PROVE  \E x \in rels' : Explains(x, o)'
<1>1. reviews \subseteq reviews'
  BY DEF Resolve
<1>2. CASE q # r
  <2>1. q \in rels'
    BY <1>2, ResolveRels
  <2> QED
    BY <1>1, <2>1 DEF Explains, ResolvedRecord
<1>3. CASE q = r
  <2> DEFINE closed == [r EXCEPT !.open = FALSE]
  <2>1. closed \in rels'
    BY ResolveRels
  <2>2. o \in {r.from, r.to}
    BY <1>3 DEF Explains
  <2>3. closed.from = r.from /\ closed.to = r.to /\ [closed EXCEPT !.open = TRUE] = r
    BY ResolveRels, ClosedRel
  <2>4. [target |-> r, action |-> "resolve_conflict"] \in reviews'
    BY DEF Resolve
  <2>5. ResolvedRecord(closed) \in reviews'
    BY <2>3, <2>4 DEF ResolvedRecord
  <2> QED
    BY <2>1, <2>2, <2>3, <2>5 DEF Explains, ResolvedRecord
<1> QED
  BY <1>2, <1>3

\* No step supersedes an object without saying since when and why.
LEMMA ExplainedStep == TypeOK /\ SupersededIsExplained /\ [Next]_vars => SupersededIsExplained'
<1> SUFFICES ASSUME TypeOK, SupersededIsExplained, [Next]_vars
             PROVE  SupersededIsExplained'
  OBVIOUS
<1>0. ASSUME NEW o \in Created, status[o] = "superseded"
      PROVE  validTo[o] # None /\ \E q \in rels : Explains(q, o)
  BY <1>0 DEF SupersededIsExplained, Explains, ResolvedRecord
<1>1. ASSUME NEW n \in Objects, NEW i \in Items, Process(n, i)
      PROVE  SupersededIsExplained'
  <2> SUFFICES ASSUME NEW o \in Created', status'[o] = "superseded"
               PROVE  validTo'[o] # None /\ \E q \in rels' : Explains(q, o)'
    BY DEF SupersededIsExplained, Explains, ResolvedRecord
  <2>1. o \in Created /\ o \in Objects
    BY <1>1, ProcessMoves DEF Created
  <2>2. validTo' = [p \in Objects |-> IF p \in ToSupersede(i) THEN i.ts ELSE validTo[p]]
          /\ UNCHANGED reviews
    BY <1>1 DEF Process
  <2>3. CASE o \in ToSupersede(i)
    <3>1. i.ts # None
      BY LedgerAssumption
    <3>2. Rel(n, o, "supersedes", "R3", FALSE) \in rels'
      BY <1>1, <2>3, ProcessRels DEF R3Rels
    <3>3. PICK q \in rels' : q.kind = "supersedes" /\ q.to = o
      BY <3>2 DEF Rel
    <3> QED
      BY <2>1, <2>2, <2>3, <3>1, <3>3 DEF Explains
  <2>4. CASE o \notin ToSupersede(i)
    <3>1. status[o] = "superseded"
      BY <1>1, <2>1, <2>4, ProcessMoves
    <3>2. validTo[o] # None /\ \E q \in rels : Explains(q, o)
      BY <1>0, <2>1, <3>1
    <3>3. rels \subseteq rels'
      BY <1>1, ProcessRels
    <3> QED
      BY <2>1, <2>2, <2>4, <3>2, <3>3 DEF Explains, ResolvedRecord
  <2> QED
    BY <2>3, <2>4
<1>2. ASSUME NEW p \in Objects, Review(p)
      PROVE  SupersededIsExplained'
  <2> SUFFICES ASSUME NEW o \in Created', status'[o] = "superseded"
               PROVE  validTo'[o] # None /\ \E q \in rels' : Explains(q, o)'
    BY DEF SupersededIsExplained, Explains, ResolvedRecord
  <2>1. o \in Created /\ status[o] = "superseded"
    BY <1>2, ReviewRecords DEF Created, Exists, TypeOK
  <2>2. reviews \subseteq reviews' /\ UNCHANGED <<validTo, rels>>
    BY <1>2, ReviewRecords
  <2> QED
    BY <1>0, <2>1, <2>2 DEF Explains, ResolvedRecord
<1>3. ASSUME NEW r \in rels, NEW keep \in Verdicts(r), Resolve(r, keep)
      PROVE  SupersededIsExplained'
  <2> SUFFICES ASSUME NEW o \in Created', status'[o] = "superseded"
               PROVE  validTo'[o] # None /\ \E q \in rels' : Explains(q, o)'
    BY DEF SupersededIsExplained, Explains, ResolvedRecord
  <2>1. o \in Created /\ o \in Objects
    BY <1>3 DEF Resolve, Created, Exists
  <2>2. validTo'[o] = IF o \in {r.from, r.to} \ keep THEN Now ELSE validTo[o]
    BY <1>3, <2>1 DEF Resolve
  <2>3. CASE o \in {r.from, r.to}
    <3>1. o \notin keep
      BY <1>3, <2>1, ResolveMoves DEF Verdict
    <3>2. validTo'[o] # None
      BY <2>2, <2>3, <3>1, LedgerAssumption
    <3> DEFINE closed == [r EXCEPT !.open = FALSE]
    <3>3. closed \in rels'
      BY <1>3, ResolveRels
    <3>4. closed.from = r.from /\ closed.to = r.to /\ [closed EXCEPT !.open = TRUE] = r
      BY <1>3, ResolveRels, ClosedRel
    <3>5. [target |-> r, action |-> "resolve_conflict"] \in reviews'
      BY <1>3 DEF Resolve
    <3>6. ResolvedRecord(closed) \in reviews'
      BY <3>4, <3>5 DEF ResolvedRecord
    <3> QED
      BY <2>3, <3>2, <3>3, <3>4, <3>6 DEF Explains, ResolvedRecord
  <2>4. CASE o \notin {r.from, r.to}
    <3>1. status[o] = "superseded"
      BY <1>3, <2>1, <2>4, ResolveMoves DEF Verdict
    <3>2. PICK q \in rels : Explains(q, o)
      BY <1>0, <2>1, <3>1
    <3>3. \E x \in rels' : Explains(x, o)'
      BY <1>3, <3>2, ExplanationsLast
    <3> QED
      BY <1>0, <2>1, <2>2, <2>4, <3>1, <3>3
  <2> QED
    BY <2>3, <2>4
<1>4. CASE UNCHANGED vars
  BY <1>4 DEF vars, SupersededIsExplained, Created, Exists
<1> QED
  BY <1>1, <1>2, <1>3, <1>4 DEF Next, Pipeline, Human, Review

\* Every superseded object is explained, in every run.
THEOREM Explained == Spec => []SupersededIsExplained
<1>1. Init => TypeOK /\ SupersededIsExplained
  BY TypeInit DEF Init, Created, Exists, SupersededIsExplained
<1>2. TypeOK /\ SupersededIsExplained /\ [Next]_vars => (TypeOK /\ SupersededIsExplained)'
  BY TypeStep, ExplainedStep
<1> QED
  BY <1>1, <1>2, PTL DEF Spec

-----------------------------------------------------------------------------
(* The pipeline alone. *)

\* Whether two statements contradict each other does not depend on their order.
LEMMA SlotsSymmetric == ASSUME NEW a, NEW b PROVE SlotsCompatible(a, b) <=> SlotsCompatible(b, a)
  BY DEF SlotsCompatible, InBoth, DueDatesCompatible, UnitsCompatible

\* A Process step leaves no two active objects that contradict each other.
LEMMA ProcessSilences ==
  ASSUME TypeOK, NoSilentContradiction, NEW n \in Objects, NEW i \in Items, Process(n, i)
  PROVE  NoSilentContradiction'
<1>1. n \notin Created /\ Created' = Created \cup {n} /\ Created \subseteq Objects
  BY ProcessMoves DEF Created
<1>2. attrs'[n] = i.attrs /\ \A o \in Created : attrs'[o] = attrs[o]
  <2>1. attrs' = [attrs EXCEPT ![n] = i.attrs]
    BY DEF Process
  <2> QED
    BY <1>1, <2>1 DEF TypeOK
<1>3. ASSUME NEW o \in Created, status'[o] = "active"
      PROVE  status[o] = "active" /\ o \notin ToConflict(i) \cup ToSupersede(i)
  BY <1>1, <1>3, ProcessMoves
<1>4. ASSUME NEW o \in Created, status'[o] = "active", status'[n] = "active",
             SameSubject(item'[o], item'[n]), item'[o].type = item'[n].type
      PROVE  SlotsCompatible(attrs'[n], attrs'[o])
  <2>1. o \in Siblings(i)
    BY <1>3, <1>4, ProcessMoves DEF Siblings, SameSubject
  <2>2. o \notin Clashing(i)
    BY <1>3, <1>4 DEF ToConflict
  <2> QED
    BY <1>2, <2>1, <2>2 DEF Clashing
<1> SUFFICES ASSUME NEW o \in Created', NEW p \in Created', o # p,
                    status'[o] = "active", status'[p] = "active",
                    SameSubject(item'[o], item'[p]), item'[o].type = item'[p].type
             PROVE  SlotsCompatible(attrs'[o], attrs'[p])
  BY DEF NoSilentContradiction
<1>5. CASE o \in Created /\ p \in Created
  BY <1>2, <1>3, <1>5, ProcessMoves DEF NoSilentContradiction
<1>6. CASE o \in Created /\ p = n
  BY <1>4, <1>6, SlotsSymmetric
<1>7. CASE o = n /\ p \in Created
  BY <1>4, <1>7 DEF SameSubject
<1> QED
  BY <1>1, <1>5, <1>6, <1>7

\* As the workers leave it, the ledger has no two active objects on one subject that
\* contradict each other.
THEOREM NoSilence == PipelineSpec => []NoSilentContradiction
<1>1. Init => TypeOK /\ NoSilentContradiction
  BY TypeInit DEF Init, Created, Exists, NoSilentContradiction
<1>2. TypeOK /\ NoSilentContradiction /\ [Pipeline]_vars => (TypeOK /\ NoSilentContradiction)'
  <2> SUFFICES ASSUME TypeOK, NoSilentContradiction, [Pipeline]_vars
               PROVE  NoSilentContradiction'
    BY TypeStep DEF Next
  <2>1. CASE UNCHANGED vars
    BY <2>1 DEF vars, NoSilentContradiction, Created, Exists
  <2> QED
    BY <2>1, ProcessSilences DEF Pipeline
<1> QED
  BY <1>1, <1>2, PTL DEF PipelineSpec
=============================================================================
