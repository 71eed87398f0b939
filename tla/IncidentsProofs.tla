--------------------------- MODULE IncidentsProofs ---------------------------
(***************************************************************************)
(* Proofs about module Incidents, for any objects, incidents, callers and  *)
(* windows.                                                                *)
(*                                                                         *)
(* The inductive invariant says what a declaration knows at each of its    *)
(* steps that nobody can take back meanwhile: once its row is inserted the *)
(* incident is its own (OneDeclares), no row of links is there before the  *)
(* incident is (LinksFollow), and what has carried the id all along is     *)
(* among what its query found (EvidenceSeen).                              *)
(***************************************************************************)
EXTENDS Incidents, TLAPS

\* An incident that exists was declared once, and one that does not never.
CountMatches == \A i \in Ids : declared[i] = IF incident[i] = None THEN 0 ELSE 1

\* A declaration whose row is inserted is the only one, and still uncommitted.
Inserted(q) == call[q] # None /\ call[q].step \in {"inserted", "confirmed"}
OneDeclares ==
    \A p \in Callers :
      Inserted(p) => /\ incident[call[p].inc] = None
                     /\ \A q \in Callers : Inserted(q) /\ call[q].inc = call[p].inc => q = p

\* Only an incident that exists is resolved.
ResolvesKnown ==
    \A q \in Callers :
      call[q] # None => (call[q].step = "resolve" => incident[call[q].inc] # None)

\* What a query found, a bare subject key is of or a row is about exists.
ObjectsExist ==
    /\ bare \subseteq Created
    /\ \A r \in links : r.obj \in Created
    /\ \A q \in Callers : call[q] # None => call[q].confirmed \subseteq Created

\* A row belongs to an incident that exists.
LinksFollow == \A r \in links : incident[r.inc] # None

\* Why a row is there: the object carried the id, a human put it there, or it is
\* about a customer of the incident or about none.
RowsExplained ==
    \A r \in links :
      \/ <<r.inc, r.obj>> \in carried
      \/ \E s \in ruled : s.inc = r.inc /\ s.obj = r.obj
      \/ object[r.obj].entity \in incident[r.inc].entities \cup {Unknown}

\* What has carried the id since a call began carries it, or was found by the query.
EvidenceSeen ==
    \A q \in Callers :
      call[q] # None =>
        /\ call[q].step \in {"checked", "inserted"} => steady[q] \subseteq Carrying(call[q].inc)
        /\ call[q].step = "confirmed" => steady[q] \subseteq call[q].confirmed

Inv ==
    /\ TypeOK
    /\ CountMatches /\ OneDeclares /\ ResolvesKnown
    /\ ObjectsExist /\ LinksFollow /\ LinksAreEarned /\ RowsExplained
    /\ EvidenceSeen

USE IncidentsAssumption

-----------------------------------------------------------------------------
\* The initial state satisfies the invariant.
LEMMA InvInit == Init => Inv
  BY DEF Init, Inv, TypeOK, CountMatches, OneDeclares, Inserted, ResolvesKnown, ObjectsExist,
         Created, Exists, LinksFollow, LinksAreEarned, OneRowPerPair, LinkedMeansTied,
         RulingStands, RowsExplained, EvidenceSeen, Callers, Statement, Incident, Call, LinkRows

\* A call that moves on, a statement that is edited and an incident that is resolved
\* stay calls, statements and incidents.
LEMMA RecordTypes ==
    /\ \A c \in Call, os \in SUBSET Objects :
         /\ [c EXCEPT !.step = "confirmed", !.confirmed = os] \in Call
         /\ [c EXCEPT !.step = "resolve", !.confirmed = os] \in Call
    /\ \A r \in Incident, t \in Nat :
         [r EXCEPT !.status = "resolved", !.resolvedAt = t] \in Incident
  BY DEF Call, Incident

\* The rows a declaration leaves: those that were there, the confirmed and the
\* suggested ones.
LEMMA CommitLinks ==
  ASSUME NEW q \in Callers, DeclareCommit(q), NEW r \in links'
  PROVE  \/ r \in links
         \/ \E o \in call[q].confirmed : r = [inc |-> call[q].inc, obj |-> o, linked |-> TRUE]
         \/ \E o \in Candidates(call[q]) : r = [inc |-> call[q].inc, obj |-> o, linked |-> FALSE]
<1>1. CASE r \in links
  BY <1>1
<1>2. CASE r \in {Link(call[q].inc, o, TRUE) : o \in call[q].confirmed}
  BY <1>2 DEF Link
<1>3. CASE r \in {Suggest(call[q].inc, o) : o \in Candidates(call[q])}
  BY <1>3 DEF Suggest, Link
<1> QED
  BY <1>1, <1>2, <1>3 DEF DeclareCommit

\* Every step keeps the types.
LEMMA TypeStep == TypeOK /\ ResolvesKnown /\ [Next]_vars => TypeOK'
<1> SUFFICES ASSUME TypeOK, ResolvesKnown, [Next]_vars
             PROVE  TypeOK'
  OBVIOUS
<1> USE DEF TypeOK, rowVars, objVars, histVars
<1>1. ASSUME NEW o \in Objects, NEW s \in Statements, Persist(o, s)
      PROVE  TypeOK'
  BY <1>1 DEF Persist
<1>2. ASSUME NEW o \in Objects, NEW i \in Ids \cup {None}, EditTag(o, i)
      PROVE  TypeOK'
  <2>1. object[o] \in Statement
    BY <1>2 DEF EditTag, Exists
  <2>2. object' \in [Objects -> Statement \cup {None}]
    BY <1>2, <2>1 DEF EditTag, Statement
  <2> QED
    BY <1>2, <2>2 DEF EditTag
<1>3. CASE Tick
  BY <1>3 DEF Tick
<1>4. ASSUME NEW q \in Callers, NEW i \in Ids, NEW es \in Affected[i],
             NEW at \in Anchors \cup {now}, DeclareCheck(q, i, es, at)
      PROVE  TypeOK'
  <2>1. es \in SUBSET Entities /\ at \in Nat
    OBVIOUS
  <2>2. call' \in [Callers -> Call \cup {None}]
    BY <1>4, <2>1 DEF DeclareCheck, Call
  <2>3. steady' \in [Callers -> SUBSET Objects]
    BY <1>4 DEF DeclareCheck, Carrying, Created
  <2> QED
    BY <1>4, <2>2, <2>3 DEF DeclareCheck
<1>5. ASSUME NEW q \in Callers, DeclareInsert(q)
      PROVE  TypeOK'
  BY <1>5 DEF DeclareInsert, Call
<1>6. ASSUME NEW q \in Callers, DeclareConfirm(q)
      PROVE  TypeOK'
  <2>1. Confirmed(call[q].inc) \in SUBSET Objects
    BY DEF Confirmed, Carrying, Created
  <2>2. call[q] \in Call
    BY <1>6 DEF DeclareConfirm
  <2> DEFINE c == [call[q] EXCEPT !.step = "confirmed", !.confirmed = Confirmed(call[q].inc)]
  <2>3. c \in Call
    BY <2>1, <2>2, RecordTypes
  <2>4. call' = [call EXCEPT ![q] = c]
    BY <1>6 DEF DeclareConfirm
  <2> HIDE DEF c
  <2>5. call' \in [Callers -> Call \cup {None}]
    BY <2>3, <2>4
  <2> QED
    BY <1>6, <2>5 DEF DeclareConfirm
<1>7. ASSUME NEW q \in Callers, DeclareCommit(q)
      PROVE  TypeOK'
  <2> DEFINE c == call[q]
  <2>1. c \in Call
    BY <1>7 DEF DeclareCommit
  <2>2. incident' \in [Ids -> Incident \cup {None}]
    BY <1>7, <2>1 DEF DeclareCommit, Call, Incident
  <2>3. Candidates(c) \subseteq Objects
    BY DEF Candidates
  <2>4. links' \subseteq LinkRows
    <3> SUFFICES ASSUME NEW r \in links'
                 PROVE  r \in LinkRows
      OBVIOUS
    <3>1. c.inc \in Ids /\ c.confirmed \subseteq Objects
      BY <2>1 DEF Call
    <3>2. \A o \in Objects : /\ [inc |-> c.inc, obj |-> o, linked |-> TRUE] \in LinkRows
                            /\ [inc |-> c.inc, obj |-> o, linked |-> FALSE] \in LinkRows
      BY <3>1 DEF LinkRows
    <3>3. CASE r \in links
      BY <3>3
    <3>4. ASSUME NEW o \in c.confirmed, r = [inc |-> c.inc, obj |-> o, linked |-> TRUE]
          PROVE  r \in LinkRows
      BY <3>1, <3>2, <3>4
    <3>5. ASSUME NEW o \in Candidates(c), r = [inc |-> c.inc, obj |-> o, linked |-> FALSE]
          PROVE  r \in LinkRows
      BY <2>3, <3>2, <3>5
    <3> QED
      BY <1>7, <3>3, <3>4, <3>5, CommitLinks
  <2>5. AfterDeclare(q) \in Call \cup {None}
    BY <2>1, RecordTypes DEF AfterDeclare
  <2>6. carried' \subseteq Ids \X Objects /\ declared' \in [Ids -> Nat]
    BY <1>7, <2>1 DEF DeclareCommit, Call
  <2>7. call' \in [Callers -> Call \cup {None}] /\ steady' \in [Callers -> SUBSET Objects]
    BY <1>7, <2>5 DEF DeclareCommit
  <2> QED
    BY <1>7, <2>2, <2>4, <2>6, <2>7 DEF DeclareCommit
<1>8. ASSUME NEW q \in Callers, DeclareLost(q)
      PROVE  TypeOK'
  BY <1>8 DEF DeclareLost
<1>9. ASSUME NEW i \in Ids, NEW o \in Objects, NEW linked \in BOOLEAN, LinkObject(i, o, linked)
      PROVE  TypeOK'
  BY <1>9 DEF LinkObject, LinkRowsAfter, OtherRows, Link, LinkRows
<1>10. ASSUME NEW i \in Ids, Resolve(i)
       PROVE  TypeOK'
  <2>1. incident[i] \in Incident
    BY <1>10 DEF Resolve
  <2>2. incident' = [incident EXCEPT ![i] = [incident[i] EXCEPT !.status = "resolved",
                                                               !.resolvedAt = now]]
    BY <1>10 DEF Resolve, SetResolved
  <2> QED
    BY <1>10, <2>1, <2>2, RecordTypes DEF Resolve
<1>11. CASE ScriptResolve
  BY <1>11 DEF ScriptResolve, SetResolved, Incident, ResolvesKnown, Call, Callers
<1>12. CASE UNCHANGED vars
  BY <1>12 DEF vars
<1> HIDE DEF TypeOK
<1>13. ASSUME NEW i \in Ids, \/ Resolve(i)
                             \/ \E o \in Objects, linked \in BOOLEAN : LinkObject(i, o, linked)
       PROVE  TypeOK'
  BY <1>9, <1>10, <1>13
<1> QED
  BY <1>1, <1>2, <1>3, <1>4, <1>5, <1>6, <1>7, <1>8, <1>11, <1>12, <1>13 DEF Next

\* No incident is undeclared.
IncidentsStay == \A i \in Ids : incident[i] # None => incident'[i] # None

\* Every step keeps what declarations rely on.
LEMMA DeclareStep ==
  Inv /\ [Next]_vars => CountMatches' /\ OneDeclares' /\ ResolvesKnown' /\ IncidentsStay
<1> SUFFICES ASSUME Inv, [Next]_vars
             PROVE  CountMatches' /\ OneDeclares' /\ ResolvesKnown' /\ IncidentsStay
  OBVIOUS
<1> USE DEF Inv, TypeOK, CountMatches, OneDeclares, Inserted, ResolvesKnown, rowVars, objVars,
            histVars, IncidentsStay
<1> DEFINE Goal == CountMatches' /\ OneDeclares' /\ ResolvesKnown' /\ IncidentsStay
<1>1. ASSUME NEW o \in Objects, NEW s \in Statements, Persist(o, s)
      PROVE  Goal
  BY <1>1 DEF Persist
<1>2. ASSUME NEW o \in Objects, NEW i \in Ids \cup {None}, EditTag(o, i)
      PROVE  Goal
  BY <1>2 DEF EditTag
<1>3. CASE Tick
  BY <1>3 DEF Tick
<1>4. ASSUME NEW q \in Callers, NEW i \in Ids, NEW es \in Affected[i],
             NEW at \in Anchors \cup {now}, DeclareCheck(q, i, es, at)
      PROVE  Goal
  BY <1>4 DEF DeclareCheck
<1>5. ASSUME NEW q \in Callers, DeclareInsert(q)
      PROVE  Goal
  BY <1>5 DEF DeclareInsert, Refused, Call
<1>6. ASSUME NEW q \in Callers, DeclareConfirm(q)
      PROVE  Goal
  BY <1>6 DEF DeclareConfirm, Call
<1>7. ASSUME NEW q \in Callers, DeclareCommit(q)
      PROVE  Goal
  <2> DEFINE i == call[q].inc
             row == [entities |-> call[q].entities, declaredAt |-> call[q].at,
                     status |-> "open", resolvedAt |-> None]
  <2>1. call[q] \in Call /\ Inserted(q) /\ i \in Ids
    BY <1>7 DEF DeclareCommit, Call
  <2>2. row \in Incident
    BY <2>1 DEF Call, Incident
  <2>3. row # None
    BY <2>2
  <2>4. incident' = [incident EXCEPT ![i] = row] /\ declared' = [declared EXCEPT ![i] = @ + 1]
    BY <1>7 DEF DeclareCommit
  <2> HIDE DEF row
  <2>5. CountMatches'
    BY <2>1, <2>3, <2>4
  <2>6. \A p \in Callers : p # q => call'[p] = call[p]
    BY <1>7 DEF DeclareCommit
  <2>7. call'[q] = None \/ (call'[q].step = "resolve" /\ call'[q].inc = i)
    BY <1>7, <2>1 DEF DeclareCommit, AfterDeclare, Call
  <2>8. OneDeclares'
    BY <2>1, <2>4, <2>6, <2>7 DEF Call
  <2>9. ResolvesKnown'
    BY <2>1, <2>3, <2>4, <2>6, <2>7 DEF Call
  <2>10. IncidentsStay
    BY <2>1, <2>3, <2>4
  <2> QED
    BY <1>7, <2>5, <2>8, <2>9, <2>10 DEF DeclareCommit
<1>8. ASSUME NEW q \in Callers, DeclareLost(q)
      PROVE  Goal
  BY <1>8 DEF DeclareLost
<1>9. ASSUME NEW i \in Ids, NEW o \in Objects, NEW linked \in BOOLEAN, LinkObject(i, o, linked)
      PROVE  Goal
  BY <1>9 DEF LinkObject
<1>10. ASSUME NEW i \in Ids, Resolve(i)
       PROVE  Goal
  <2> DEFINE row == [incident[i] EXCEPT !.status = "resolved", !.resolvedAt = now]
  <2>1. row # None
    <3>1. incident[i] \in Incident
      BY <1>10 DEF Resolve
    <3>2. row \in Incident
      BY <3>1, RecordTypes
    <3> QED
      BY <3>2
  <2>2. incident' = [incident EXCEPT ![i] = row]
    BY <1>10 DEF Resolve, SetResolved
  <2> HIDE DEF row
  <2> QED
    BY <1>10, <2>1, <2>2 DEF Resolve
<1>11. CASE ScriptResolve
  BY <1>11 DEF ScriptResolve, SetResolved, Incident, Call, Callers
<1>12. CASE UNCHANGED vars
  BY <1>12 DEF vars
<1> QED
  BY <1>1, <1>2, <1>3, <1>4, <1>5, <1>6, <1>7, <1>8, <1>9, <1>10, <1>11, <1>12 DEF Next

\* Every step keeps rows of incidents that exist, one for a pair, as evidence and
\* rulings have them.
LEMMA LinksStep == Inv /\ [Next]_vars => LinksFollow' /\ LinksAreEarned'
<1> SUFFICES ASSUME Inv, [Next]_vars
             PROVE  LinksFollow' /\ LinksAreEarned'
  OBVIOUS
<1>0. CountMatches' /\ IncidentsStay
  BY DeclareStep
<1> USE DEF Inv, TypeOK, LinksFollow, LinksAreEarned, OneRowPerPair, LinkedMeansTied, RulingStands,
            LinkRows
<1>1. ASSUME NEW q \in Callers, DeclareCommit(q)
      PROVE  LinksFollow' /\ LinksAreEarned'
  <2> DEFINE c == call[q]
  <2>1. c \in Call /\ Inserted(q)
    BY <1>1 DEF DeclareCommit, Inserted
  <2>2. incident[c.inc] = None /\ c.inc \in Ids
    BY <2>1 DEF OneDeclares, Call
  <2>3. incident'[c.inc] # None
    BY <1>0, <1>1, <2>2 DEF CountMatches, DeclareCommit
  <2>4. \A i \in Ids : i # c.inc => incident'[i] = incident[i]
    BY <1>1 DEF DeclareCommit
  <2>5. \A r \in links : r.inc # c.inc
    BY <2>2
  <2>6. ASSUME NEW r \in links'
        PROVE  \/ r \in links
               \/ r.inc = c.inc /\ r.linked = TRUE /\ r.obj \in c.confirmed
               \/ r.inc = c.inc /\ r.linked = FALSE /\ r.obj \notin c.confirmed
    <3>1. ASSUME NEW o \in c.confirmed, r = [inc |-> c.inc, obj |-> o, linked |-> TRUE]
          PROVE  r.inc = c.inc /\ r.linked = TRUE /\ r.obj \in c.confirmed
      BY <3>1
    <3>2. ASSUME NEW o \in Candidates(c), r = [inc |-> c.inc, obj |-> o, linked |-> FALSE]
          PROVE  r.inc = c.inc /\ r.linked = FALSE /\ r.obj \notin c.confirmed
      BY <3>2 DEF Candidates
    <3> QED
      BY <1>1, <3>1, <3>2, CommitLinks
  <2>7. \A r \in links' : r \in LinkRows
    BY TypeStep
  <2>8. LinksFollow'
    BY <2>3, <2>4, <2>6
  <2>9. ASSUME NEW r \in links', NEW s \in links', r.inc = s.inc, r.obj = s.obj
        PROVE  r = s
    <3>1. CASE r \in links /\ s \in links
      BY <2>9, <3>1
    <3>2. CASE r \notin links /\ s \notin links
      <4>1. r.linked = s.linked
        BY <2>6, <2>9, <3>2
      <4> QED
        BY <2>7, <2>9, <4>1
    <3> QED
      BY <2>5, <2>6, <2>9, <3>1, <3>2
  <2>10. LinkedMeansTied'
    BY <1>1, <2>5, <2>6, <2>7 DEF DeclareCommit
  <2>11. RulingStands'
    BY <1>1 DEF DeclareCommit
  <2> QED
    BY <2>8, <2>9, <2>10, <2>11
<1>2. ASSUME NEW i \in Ids, NEW o \in Objects, NEW linked \in BOOLEAN, LinkObject(i, o, linked)
      PROVE  LinksFollow' /\ LinksAreEarned'
  BY <1>2 DEF LinkObject, LinkRowsAfter, OtherRows, Link
<1>3. CASE links' = links /\ ruled' = ruled /\ carried' = carried
  BY <1>0, <1>3 DEF IncidentsStay
<1> HIDE DEF Inv, TypeOK, LinksFollow, LinksAreEarned
<1>4. ASSUME NEW o \in Objects, NEW s \in Statements, Persist(o, s)
      PROVE  LinksFollow' /\ LinksAreEarned'
  BY <1>3, <1>4 DEF Persist, rowVars, histVars
<1>5. ASSUME NEW o \in Objects, NEW i \in Ids \cup {None}, EditTag(o, i)
      PROVE  LinksFollow' /\ LinksAreEarned'
  BY <1>3, <1>5 DEF EditTag, rowVars, histVars
<1>6. ASSUME NEW q \in Callers,
             \/ DeclareInsert(q) \/ DeclareConfirm(q) \/ DeclareLost(q)
             \/ \E i \in Ids : \E es \in Affected[i], at \in Anchors \cup {now} :
                  DeclareCheck(q, i, es, at)
      PROVE  LinksFollow' /\ LinksAreEarned'
  BY <1>3, <1>6 DEF DeclareInsert, DeclareConfirm, DeclareLost, DeclareCheck, rowVars, histVars
<1>7. ASSUME NEW i \in Ids, Resolve(i)
      PROVE  LinksFollow' /\ LinksAreEarned'
  BY <1>3, <1>7 DEF Resolve, histVars
<1>8. CASE Tick \/ ScriptResolve \/ UNCHANGED vars
  BY <1>3, <1>8 DEF Tick, ScriptResolve, vars, rowVars, histVars
<1> QED
  BY <1>1, <1>2, <1>4, <1>5, <1>6, <1>7, <1>8 DEF Next

\* Objects stay, and the customer each is about.
ObjectsStay ==
    \A o \in Objects : Exists(o) => object'[o] # None /\ object'[o].entity = object[o].entity

\* Every step keeps the objects that declarations and rows are about.
LEMMA ObjectsStep == Inv /\ [Next]_vars => ObjectsStay /\ ObjectsExist'
<1> SUFFICES ASSUME Inv, [Next]_vars
             PROVE  ObjectsStay /\ ObjectsExist'
  OBVIOUS
<1> USE DEF ObjectsStay, Exists
<1>1. ObjectsStay
  <2>1. ASSUME NEW o \in Objects, NEW i \in Ids \cup {None}, EditTag(o, i)
        PROVE  ObjectsStay
    <3> DEFINE s == [object[o] EXCEPT !.tag = i]
    <3>1. object[o] \in Statement
      BY <2>1 DEF EditTag, Inv, TypeOK
    <3>2. s \in Statement /\ s.entity = object[o].entity
      BY <3>1 DEF Statement
    <3>3. s # None
      BY <3>2
    <3>4. object' = [object EXCEPT ![o] = s]
      BY <2>1 DEF EditTag
    <3> HIDE DEF s
    <3> QED
      BY <3>2, <3>3, <3>4 DEF Inv, TypeOK
  <2>2. ASSUME NEW o \in Objects, NEW s \in Statements, Persist(o, s)
        PROVE  ObjectsStay
    BY <2>2 DEF Persist, Inv, TypeOK
  <2>3. CASE object' = object
    BY <2>3
  <2>4. ASSUME NEW q \in Callers,
               \/ DeclareInsert(q) \/ DeclareConfirm(q) \/ DeclareCommit(q) \/ DeclareLost(q)
               \/ \E i \in Ids : \E es \in Affected[i], at \in Anchors \cup {now} :
                    DeclareCheck(q, i, es, at)
        PROVE  object' = object
    BY <2>4 DEF DeclareInsert, DeclareConfirm, DeclareCommit, DeclareLost, DeclareCheck, objVars
  <2>5. ASSUME NEW i \in Ids,
               Resolve(i) \/ \E o \in Objects, linked \in BOOLEAN : LinkObject(i, o, linked)
        PROVE  object' = object
    BY <2>5 DEF Resolve, LinkObject, objVars
  <2>6. CASE Tick \/ ScriptResolve \/ UNCHANGED vars
    BY <2>6 DEF Tick, ScriptResolve, vars, objVars
  <2> QED
    BY <2>1, <2>2, <2>3, <2>4, <2>5, <2>6 DEF Next
<1>2. Created \subseteq Created'
  BY <1>1 DEF Created
<1> USE DEF ObjectsExist, Inv
<1>3. ASSUME NEW o \in Objects, NEW s \in Statements, Persist(o, s)
      PROVE  ObjectsExist'
  <2>1. o \in Created'
    BY <1>3 DEF Persist, Created, TypeOK
  <2> QED
    BY <1>2, <1>3, <2>1 DEF Persist, rowVars
<1>4. ASSUME NEW o \in Objects, NEW i \in Ids \cup {None}, EditTag(o, i)
      PROVE  ObjectsExist'
  BY <1>2, <1>4 DEF EditTag, rowVars
<1>5. ASSUME NEW q \in Callers, NEW i \in Ids, NEW es \in Affected[i],
             NEW at \in Anchors \cup {now}, DeclareCheck(q, i, es, at)
      PROVE  ObjectsExist'
  BY <1>2, <1>5 DEF DeclareCheck, TypeOK, objVars, rowVars
<1>6. ASSUME NEW q \in Callers, DeclareInsert(q)
      PROVE  ObjectsExist'
  BY <1>2, <1>6 DEF DeclareInsert, TypeOK, Call, objVars, rowVars
<1>7. ASSUME NEW q \in Callers, DeclareConfirm(q)
      PROVE  ObjectsExist'
  <2>1. Confirmed(call[q].inc) \subseteq Created'
    BY <1>2 DEF Confirmed, Carrying
  <2> QED
    BY <1>2, <1>7, <2>1 DEF DeclareConfirm, TypeOK, Call, objVars, rowVars
<1>8. ASSUME NEW q \in Callers, DeclareCommit(q)
      PROVE  ObjectsExist'
  <2>1. call[q].confirmed \subseteq Created /\ Candidates(call[q]) \subseteq Created
    BY <1>8 DEF DeclareCommit, Candidates
  <2>2. \A r \in links' : r.obj \in Created
    BY <1>8, <2>1, CommitLinks
  <2>3. AfterDeclare(q) # None => AfterDeclare(q).confirmed = {}
    BY <1>8 DEF AfterDeclare, DeclareCommit, TypeOK, Call
  <2>4. call' = [call EXCEPT ![q] = AfterDeclare(q)] /\ bare' = bare
    BY <1>8 DEF DeclareCommit, objVars
  <2> QED
    BY <1>2, <2>2, <2>3, <2>4 DEF TypeOK
<1>9. ASSUME NEW q \in Callers, DeclareLost(q)
      PROVE  ObjectsExist'
  BY <1>2, <1>9 DEF DeclareLost, TypeOK, objVars, rowVars
<1>10. ASSUME NEW i \in Ids, NEW o \in Objects, NEW linked \in BOOLEAN, LinkObject(i, o, linked)
       PROVE  ObjectsExist'
  <2>1. o \in Created
    BY <1>10 DEF LinkObject, Created
  <2>2. \A r \in links' : r \in links \/ r.obj = o
    BY <1>10 DEF LinkObject, LinkRowsAfter, OtherRows, Link
  <2> QED
    BY <1>2, <1>10, <2>1, <2>2 DEF LinkObject, objVars
<1>11. ASSUME NEW i \in Ids, Resolve(i)
       PROVE  ObjectsExist'
  BY <1>2, <1>11 DEF Resolve, objVars
<1>12. CASE Tick \/ ScriptResolve \/ UNCHANGED vars
  BY <1>2, <1>12 DEF Tick, ScriptResolve, vars, objVars, rowVars, TypeOK
<1> HIDE DEF ObjectsExist, Inv, ObjectsStay
<1> QED
  BY <1>1, <1>3, <1>4, <1>5, <1>6, <1>7, <1>8, <1>9, <1>10, <1>11, <1>12 DEF Next

\* Every step keeps the reason of each row: an incident's customers and a statement's
\* never change.
LEMMA ReasonStep == Inv /\ [Next]_vars => RowsExplained'
<1> SUFFICES ASSUME Inv, [Next]_vars
             PROVE  RowsExplained'
  OBVIOUS
<1> USE DEF Inv, TypeOK, LinkRows
<1>1. ASSUME NEW q \in Callers, DeclareCommit(q), NEW r \in links'
      PROVE  \/ <<r.inc, r.obj>> \in carried'
             \/ \E s \in ruled' : s.inc = r.inc /\ s.obj = r.obj
             \/ object'[r.obj].entity \in incident'[r.inc].entities \cup {Unknown}
  <2> DEFINE c == call[q]
  <2>1. c \in Call /\ Inserted(q)
    BY <1>1 DEF DeclareCommit, Inserted
  <2>2. incident[c.inc] = None /\ c.inc \in Ids
    BY <2>1 DEF OneDeclares, Call
  <2>3. incident'[c.inc].entities = c.entities
    BY <1>1, <2>2 DEF DeclareCommit
  <2>4. object' = object /\ ruled' = ruled /\ carried \subseteq carried'
    BY <1>1 DEF DeclareCommit, objVars
  <2>5. CASE r \in links
    <3>1. r.inc # c.inc /\ r.inc \in Ids
      BY <2>2, <2>5 DEF LinksFollow
    <3>2. incident'[r.inc] = incident[r.inc]
      BY <1>1, <3>1 DEF DeclareCommit
    <3> QED
      BY <2>4, <2>5, <3>2 DEF RowsExplained
  <2>6. ASSUME NEW o \in c.confirmed, r = [inc |-> c.inc, obj |-> o, linked |-> TRUE]
        PROVE  <<r.inc, r.obj>> \in carried'
    BY <1>1, <2>6 DEF DeclareCommit
  <2>7. ASSUME NEW o \in Candidates(c), r = [inc |-> c.inc, obj |-> o, linked |-> FALSE]
        PROVE  object'[r.obj].entity \in incident'[r.inc].entities \cup {Unknown}
    BY <2>3, <2>4, <2>7 DEF Candidates
  <2> QED
    BY <1>1, <2>5, <2>6, <2>7, CommitLinks
<1>2. ASSUME NEW i \in Ids, NEW o \in Objects, NEW linked \in BOOLEAN, LinkObject(i, o, linked),
             NEW r \in links'
      PROVE  \/ <<r.inc, r.obj>> \in carried'
             \/ \E s \in ruled' : s.inc = r.inc /\ s.obj = r.obj
             \/ object'[r.obj].entity \in incident'[r.inc].entities \cup {Unknown}
  <2>1. CASE r.inc = i /\ r.obj = o
    <3> DEFINE s == [inc |-> i, obj |-> o, linked |-> linked]
    <3>1. s \in ruled'
      BY <1>2 DEF LinkObject, Link
    <3> QED
      BY <2>1, <3>1
  <2>2. CASE r.inc # i \/ r.obj # o
    <3>1. r \in links
      BY <1>2, <2>2 DEF LinkObject, LinkRowsAfter, OtherRows, Link
    <3>2. \A s \in ruled : s.inc = r.inc /\ s.obj = r.obj => s \in ruled'
      BY <1>2, <2>2 DEF LinkObject, OtherRows
    <3> QED
      BY <1>2, <3>1, <3>2 DEF LinkObject, RowsExplained, objVars
  <2> QED
    BY <2>1, <2>2
<1>3. ASSUME links' = links, ruled' = ruled, carried' = carried,
             \A r \in links : incident'[r.inc].entities = incident[r.inc].entities
      PROVE  RowsExplained'
  <2>1. \A r \in links : object'[r.obj].entity = object[r.obj].entity
    BY ObjectsStep DEF ObjectsStay, ObjectsExist, Created
  <2> SUFFICES ASSUME NEW r \in links
               PROVE  \/ <<r.inc, r.obj>> \in carried
                      \/ \E s \in ruled : s.inc = r.inc /\ s.obj = r.obj
                      \/ object[r.obj].entity \in incident[r.inc].entities \cup {Unknown}
    BY <1>3, <2>1 DEF RowsExplained
  <2> QED
    BY DEF RowsExplained
<1>4. ASSUME NEW i \in Ids, incident[i] # None, SetResolved(i)
      PROVE  \A r \in links : incident'[r.inc].entities = incident[r.inc].entities
  <2> DEFINE row == [incident[i] EXCEPT !.status = "resolved", !.resolvedAt = now]
  <2>1. row.entities = incident[i].entities
    BY <1>4 DEF Incident
  <2>2. incident' = [incident EXCEPT ![i] = row]
    BY <1>4 DEF SetResolved
  <2> HIDE DEF row
  <2> QED
    BY <2>1, <2>2
<1> HIDE DEF Inv, TypeOK
<1>5. ASSUME NEW i \in Ids, Resolve(i)
      PROVE  RowsExplained'
  BY <1>3, <1>4, <1>5 DEF Resolve, histVars
<1>6. CASE ScriptResolve
  <2>1. call[Script].inc \in Ids /\ incident[call[Script].inc] # None
    BY <1>6 DEF ScriptResolve, Inv, TypeOK, ResolvesKnown, Call, Callers
  <2> QED
    BY <1>3, <1>4, <1>6, <2>1 DEF ScriptResolve, histVars
<1>7. ASSUME NEW o \in Objects, (\E s \in Statements : Persist(o, s))
                                  \/ (\E i \in Ids \cup {None} : EditTag(o, i))
      PROVE  RowsExplained'
  BY <1>3, <1>7 DEF Persist, EditTag, rowVars, histVars
<1>8. ASSUME NEW q \in Callers,
             \/ DeclareInsert(q) \/ DeclareConfirm(q) \/ DeclareLost(q)
             \/ \E i \in Ids : \E es \in Affected[i], at \in Anchors \cup {now} :
                  DeclareCheck(q, i, es, at)
      PROVE  RowsExplained'
  BY <1>3, <1>8 DEF DeclareInsert, DeclareConfirm, DeclareLost, DeclareCheck, rowVars, histVars
<1>9. CASE Tick \/ UNCHANGED vars
  BY <1>3, <1>9 DEF Tick, vars, rowVars, histVars
<1>10. ASSUME NEW q \in Callers, DeclareCommit(q)
       PROVE  RowsExplained'
  BY <1>1, <1>10 DEF RowsExplained
<1>11. ASSUME NEW i \in Ids, NEW o \in Objects, NEW linked \in BOOLEAN, LinkObject(i, o, linked)
       PROVE  RowsExplained'
  <2> SUFFICES ASSUME NEW r \in links'
               PROVE  \/ <<r.inc, r.obj>> \in carried'
                      \/ \E s \in ruled' : s.inc = r.inc /\ s.obj = r.obj
                      \/ object'[r.obj].entity \in incident'[r.inc].entities \cup {Unknown}
    BY DEF RowsExplained
  <2> QED
    BY <1>2, <1>11
<1>12. ASSUME NEW i \in Ids, \/ Resolve(i)
                             \/ \E o \in Objects, linked \in BOOLEAN : LinkObject(i, o, linked)
       PROVE  RowsExplained'
  BY <1>5, <1>11, <1>12
<1> QED
  BY <1>6, <1>7, <1>8, <1>9, <1>10, <1>12 DEF Next

\* Every step keeps what carries the id in sight of the declaration.
LEMMA EvidenceStep == Inv /\ [Next]_vars => EvidenceSeen'
<1> SUFFICES ASSUME Inv, [Next]_vars
             PROVE  EvidenceSeen'
  OBVIOUS
<1> USE DEF Inv, EvidenceSeen, Carrying, Created, Exists
<1>1. ASSUME NEW o \in Objects, NEW s \in Statements, Persist(o, s)
      PROVE  EvidenceSeen'
  <2>1. \A p \in Objects : object[p] # None => object'[p] = object[p]
    BY <1>1 DEF Persist, TypeOK
  <2> QED
    BY <1>1, <2>1 DEF Persist
<1>2. ASSUME NEW o \in Objects, NEW i \in Ids \cup {None}, EditTag(o, i)
      PROVE  EvidenceSeen'
  <2>1. \A p \in Objects : p # o => object'[p] = object[p]
    BY <1>2 DEF EditTag, TypeOK
  <2>2. call' = call /\ \A q \in Callers : steady'[q] = steady[q] \ {o}
    BY <1>2 DEF EditTag
  <2> QED
    BY <2>1, <2>2
<1>3. ASSUME NEW q \in Callers, NEW i \in Ids, NEW es \in Affected[i],
             NEW at \in Anchors \cup {now}, DeclareCheck(q, i, es, at)
      PROVE  EvidenceSeen'
  BY <1>3 DEF DeclareCheck, objVars, TypeOK
<1>4. ASSUME NEW q \in Callers, DeclareInsert(q)
      PROVE  EvidenceSeen'
  BY <1>4 DEF DeclareInsert, objVars, TypeOK, Call
<1>5. ASSUME NEW q \in Callers, DeclareConfirm(q)
      PROVE  EvidenceSeen'
  BY <1>5 DEF DeclareConfirm, Confirmed, objVars, TypeOK, Call
<1>6. ASSUME NEW q \in Callers, DeclareCommit(q)
      PROVE  EvidenceSeen'
  BY <1>6 DEF DeclareCommit, objVars, TypeOK
<1>7. ASSUME NEW q \in Callers, DeclareLost(q)
      PROVE  EvidenceSeen'
  BY <1>7 DEF DeclareLost, objVars, TypeOK
<1>8. ASSUME NEW i \in Ids, \/ Resolve(i)
                            \/ \E o \in Objects, linked \in BOOLEAN : LinkObject(i, o, linked)
      PROVE  EvidenceSeen'
  BY <1>8 DEF Resolve, LinkObject, objVars
<1>9. CASE Tick \/ ScriptResolve \/ UNCHANGED vars
  BY <1>9 DEF Tick, ScriptResolve, vars, objVars, TypeOK
<1> HIDE DEF Inv, EvidenceSeen
<1> QED
  BY <1>1, <1>2, <1>3, <1>4, <1>5, <1>6, <1>7, <1>8, <1>9 DEF Next

\* The invariant is inductive, and holds of every behaviour.
THEOREM Correct == Spec => []Inv
<1>1. Inv /\ [Next]_vars => Inv'
  <2> SUFFICES ASSUME Inv, [Next]_vars
               PROVE  Inv'
    OBVIOUS
  <2>1. TypeOK'
    BY TypeStep DEF Inv
  <2> QED
    BY <2>1, DeclareStep, ObjectsStep, LinksStep, ReasonStep, EvidenceStep DEF Inv
<1> QED
  BY <1>1, InvInit, PTL DEF Spec

-----------------------------------------------------------------------------
\* Every variable keeps its type, for any objects, incidents and callers.
THEOREM TypeCorrect == Spec => []TypeOK
<1>1. Inv => TypeOK
  BY DEF Inv
<1> QED
  BY <1>1, Correct, PTL

\* However many declarations of one id overlap, one succeeds.
THEOREM DeclarationsAreOne == Spec => []DeclaredOnce
<1>1. Inv => DeclaredOnce
  BY DEF Inv, CountMatches, DeclaredOnce
<1> QED
  BY <1>1, Correct, PTL

\* A pair has one row, which is confirmed on evidence or by a human and says what the
\* human said last.
THEOREM LinksEarned == Spec => []LinksAreEarned
<1>1. Inv => LinksAreEarned
  BY DEF Inv
<1> QED
  BY <1>1, Correct, PTL

\* Whatever the windows, incidents of different customers share a statement about a
\* customer only on evidence or by a human's ruling.
THEOREM TimelinesApart == Spec => []NoCrossTalk
<1>1. Inv => NoCrossTalk
  <2> SUFFICES ASSUME Inv, NEW i \in Ids, NEW j \in Ids, incident[i] # None, incident[j] # None,
                      incident[i].entities \cap incident[j].entities = {},
                      NEW o \in Timeline(i) \cap Timeline(j),
                      object[o].entity # Unknown,
                      \A k \in {i, j} : <<k, o>> \notin carried /\ OtherRows(ruled, k, o) = ruled
               PROVE  FALSE
    BY DEF NoCrossTalk
  <2>1. \A k \in {i, j} : \E r \in links : r.inc = k /\ r.obj = o
    BY DEF Timeline
  <2>2. \A k \in {i, j} : \A s \in ruled : ~(s.inc = k /\ s.obj = o)
    BY DEF OtherRows
  <2>3. \A k \in {i, j} : object[o].entity \in incident[k].entities
    BY <2>1, <2>2 DEF Inv, RowsExplained
  <2> QED
    BY <2>3
<1> QED
  BY <1>1, Correct, PTL

\* A declaration links whatever has carried its id since the call began, in whatever
\* way statements are persisted and edited meanwhile.
THEOREM EvidenceKept == Spec => EvidenceIsKept
<1>1. ASSUME Inv, [Next]_vars, NEW q \in Callers, call[q] # None,
             declared'[call[q].inc] # declared[call[q].inc], call[q].step = "confirmed",
             NEW o \in steady[q]
      PROVE  Link(call[q].inc, o, TRUE) \in links'
  <2>1. \E p \in Callers : DeclareCommit(p) /\ call[p].inc = call[q].inc
    <3>1. ASSUME NEW p \in Callers, DeclareCommit(p)
          PROVE  call[p].inc = call[q].inc
      BY <1>1, <3>1 DEF DeclareCommit, Inv, TypeOK
    <3>2. ASSUME declared' = declared
          PROVE  FALSE
      BY <1>1, <3>2
    <3>3. ASSUME NEW x \in Objects, (\E s \in Statements : Persist(x, s))
                                      \/ (\E i \in Ids \cup {None} : EditTag(x, i))
          PROVE  FALSE
      BY <3>2, <3>3 DEF Persist, EditTag, histVars
    <3>4. ASSUME NEW p \in Callers,
                 \/ DeclareInsert(p) \/ DeclareConfirm(p) \/ DeclareLost(p)
                 \/ \E i \in Ids : \E es \in Affected[i], at \in Anchors \cup {now} :
                      DeclareCheck(p, i, es, at)
          PROVE  FALSE
      BY <3>2, <3>4 DEF DeclareInsert, DeclareConfirm, DeclareLost, DeclareCheck, histVars
    <3>5. ASSUME NEW i \in Ids,
                 Resolve(i) \/ \E x \in Objects, linked \in BOOLEAN : LinkObject(i, x, linked)
          PROVE  FALSE
      BY <3>2, <3>5 DEF Resolve, LinkObject, histVars
    <3>6. CASE Tick \/ ScriptResolve \/ UNCHANGED vars
      BY <3>2, <3>6 DEF Tick, ScriptResolve, vars, histVars
    <3> QED
      BY <1>1, <3>1, <3>3, <3>4, <3>5, <3>6 DEF Next
  <2>2. PICK p \in Callers : DeclareCommit(p) /\ call[p].inc = call[q].inc
    BY <2>1
  <2>3. p = q
    BY <1>1, <2>2 DEF Inv, OneDeclares, Inserted, DeclareCommit
  <2>4. o \in call[q].confirmed
    BY <1>1 DEF Inv, EvidenceSeen
  <2> QED
    BY <2>2, <2>3, <2>4 DEF DeclareCommit
<1>2. Inv /\ [Next]_vars =>
        [\A q \in Callers :
           call[q] # None =>
             (declared'[call[q].inc] # declared[call[q].inc] /\ call[q].step = "confirmed"
                => \A o \in steady[q] : Link(call[q].inc, o, TRUE) \in links')]_vars
  BY <1>1
<1> QED
  BY <1>2, Correct, PTL DEF Spec, EvidenceIsKept
=============================================================================
