------------------------------ MODULE Incidents ------------------------------
(***************************************************************************)
(* The incident endpoints of app/api/incidents.py: declaring an incident,  *)
(* which links the objects that carry its id and suggests those close to   *)
(* it in time, linking by hand, and resolving.                             *)
(*                                                                         *)
(* declare_incident is one transaction of several statements, and at READ  *)
(* COMMITTED each sees what has been committed before it: other requests,  *)
(* workers that persist objects and reviewers who edit them may run        *)
(* between two of its steps.  link_object and resolve_incident read and    *)
(* write one row each and are one step; of two link_object calls that both *)
(* insert the same row the primary key refuses the second, which changes   *)
(* nothing.                                                                *)
(*                                                                         *)
(* A statement carries what the endpoints read: entity, capability, ts     *)
(* (its source's time) and tag, the incident id in attributes.extra.       *)
(***************************************************************************)
EXTENDS Integers, FiniteSets

CONSTANTS
    Objects,      \* ids of context objects
    Ids,          \* incident ids, as in "INC-2311"
    Entities,     \* customers
    Unknown,      \* the entity named "Unknown", for statements that name no customer
    None,
    Statements,   \* what an extraction may persist
    Requests,     \* concurrent callers of the API
    Script,       \* scripts/declare_seed_incidents.py, a caller that also resolves
    Anchors,      \* the anchor_at a caller may send
    Affected,     \* Affected[i]: the sets of customers that declarations of i may name
    Window,       \* _UNCONFIRMED_WINDOW
    MaxTime,      \* bound: the clock
    MaxEdits,     \* bound: edits of attributes.extra.incident_id
    MaxRulings    \* bound: pairs of an incident and an object that humans rule on

Statement == [entity : Entities, capability : {"incident", "other"}, ts : Nat,
              tag : Ids \cup {None}]
Incident == [entities : SUBSET Entities, declaredAt : Nat, status : {"open", "resolved"},
             resolvedAt : Nat \cup {None}]
Call == [step : {"checked", "inserted", "confirmed", "resolve"}, inc : Ids,
         entities : SUBSET Entities, at : Nat, confirmed : SUBSET Objects]

ASSUME IncidentsAssumption ==
    /\ Unknown \in Entities
    /\ None \notin Objects \cup Ids \cup Entities \cup Nat \cup Statement \cup Incident \cup Call
    /\ Script \notin Requests
    /\ Anchors \subseteq Nat
    /\ Window \in Nat
    /\ MaxTime \in Nat
    /\ MaxEdits \in Nat
    /\ MaxRulings \in Nat
    /\ Affected \in [Ids -> SUBSET SUBSET Entities]
    /\ Statements \subseteq Statement

VARIABLES
    object,     \* object[o]: its statement as it now reads, None when o does not exist
    edits,      \* how many edits there have been
    bare,       \* the objects whose subject_key ends in ":incident", with no id
    incident,   \* incident[i]: the row of incidents, None when i is not declared
    links,      \* rows of incident_context_objects
    now,
    call,       \* call[q]: the declaration q is in the middle of, None otherwise
    declared,   \* history: how often i was declared
    ruled,      \* history: the last ruling of a human on an incident and an object
    carried,    \* history: pairs where the object carried the id when it was linked
    steady      \* history: steady[q], what has carried the id since q began

rowVars == <<incident, links>>
objVars == <<object, edits, bare>>
histVars == <<declared, ruled, carried>>
vars == <<object, edits, bare, incident, links, now, call, declared, ruled, carried, steady>>

Callers == Requests \cup {Script}
Exists(o) == object[o] # None
Created == {o \in Objects : Exists(o)}

Link(i, o, linked) == [inc |-> i, obj |-> o, linked |-> linked]
LinkRows == [inc : Ids, obj : Objects, linked : BOOLEAN]

TypeOK ==
    /\ object \in [Objects -> Statement \cup {None}]
    /\ edits \in Nat
    /\ bare \subseteq Objects
    /\ incident \in [Ids -> Incident \cup {None}]
    /\ links \subseteq LinkRows
    /\ now \in Nat
    /\ call \in [Callers -> Call \cup {None}]
    /\ declared \in [Ids -> Nat]
    /\ ruled \subseteq LinkRows
    /\ carried \subseteq Ids \X Objects
    /\ steady \in [Callers -> SUBSET Objects]

Init ==
    /\ object = [o \in Objects |-> None]
    /\ edits = 0
    /\ bare = {}
    /\ incident = [i \in Ids |-> None]
    /\ links = {}
    /\ now = 0
    /\ call = [q \in Callers |-> None]
    /\ declared = [i \in Ids |-> 0]
    /\ ruled = {}
    /\ carried = {}
    /\ steady = [q \in Callers |-> {}]

-----------------------------------------------------------------------------
(***************************************************************************)
(* What happens to objects meanwhile.                                      *)
(***************************************************************************)

\* process_extraction_job commits an object.  _build_subject_key puts the incident
\* id, if there is one, into the subject key of an incident statement.
Persist(o, s) ==
    /\ ~Exists(o)
    /\ object' = [object EXCEPT ![o] = s]
    /\ bare' = IF s.capability = "incident" /\ s.tag = None THEN bare \cup {o} ELSE bare
    /\ UNCHANGED <<edits, rowVars, now, call, histVars, steady>>

\* An edit merges into the attributes and leaves subject_key as it is.
EditTag(o, i) ==
    /\ Exists(o)
    /\ object[o].tag # i
    /\ edits < MaxEdits
    /\ edits' = edits + 1
    /\ object' = [object EXCEPT ![o].tag = i]
    /\ steady' = [q \in Callers |-> steady[q] \ {o}]
    /\ UNCHANGED <<bare, rowVars, now, call, histVars>>

Tick ==
    /\ now < MaxTime
    /\ now' = now + 1
    /\ UNCHANGED <<objVars, rowVars, call, histVars, steady>>

-----------------------------------------------------------------------------
(***************************************************************************)
(* declare_incident.                                                       *)
(***************************************************************************)
Carrying(i) == {o \in Created : object[o].tag = i}

\* What a call does once the declaration has ended: the script posts the resolve
\* of an incident it lists as over, whether it declared it or got a 409.
AfterDeclare(q) ==
    IF q = Script THEN [call[q] EXCEPT !.step = "resolve", !.confirmed = {}] ELSE None

\* The SELECT for an existing row, which ends in a 409, and the look-up of every
\* entity.  at is anchor_at, or the clock.
DeclareCheck(q, i, entities, at) ==
    /\ call[q] = None
    /\ \/ incident[i] = None
       \/ q = Script
    /\ call' = [call EXCEPT ![q] =
                  [step |-> IF incident[i] = None THEN "checked" ELSE "resolve",
                   inc |-> i, entities |-> entities, at |-> at, confirmed |-> {}]]
    /\ steady' = [steady EXCEPT ![q] = IF incident[i] = None THEN Carrying(i) ELSE {}]
    /\ UNCHANGED <<objVars, rowVars, now, histVars>>

\* Mutant: the table has no unique constraint.
NotRefused(i) == FALSE

\* uq_incidents_tenant_incident_id.
Refused(i) == incident[i] # None

\* The flush of the new row.  Another transaction's uncommitted row of that id
\* makes it wait; a committed one fails it, and the request with it.
DeclareInsert(q) ==
    /\ call[q] # None
    /\ call[q].step = "checked"
    /\ \A p \in Callers \ {q} :
         call[p] # None /\ call[p].step \in {"inserted", "confirmed"}
           => call[p].inc # call[q].inc
    /\ IF Refused(call[q].inc)
         THEN /\ call' = [call EXCEPT ![q] = None]
              /\ steady' = [steady EXCEPT ![q] = {}]
         ELSE /\ call' = [call EXCEPT ![q].step = "inserted"]
              /\ UNCHANGED steady
    /\ UNCHANGED <<objVars, rowVars, now, histVars>>

\* Mutant: only objects on a bare subject key are looked up.
ConfirmedBare(i) == Carrying(i) \cap bare

Confirmed(i) == Carrying(i)

\* The query for the objects that carry the id.
DeclareConfirm(q) ==
    /\ call[q] # None
    /\ call[q].step = "inserted"
    /\ call' = [call EXCEPT ![q].step = "confirmed", ![q].confirmed = Confirmed(call[q].inc)]
    /\ UNCHANGED <<objVars, rowVars, now, histVars, steady>>

\* The window: around the confirmed objects, else around the declaration.
Near(t, times, at) ==
    IF times = {} THEN at - Window <= t /\ t <= at + Window
    ELSE \E a, b \in times : a - Window <= t /\ t <= b + Window

Times(os) == {object[o].ts : o \in os}

\* Mutants: whatever customer the object is about; confirmed objects again.
CandidatesOfAnyone(c) ==
    {o \in bare \ c.confirmed : Near(object[o].ts, Times(c.confirmed), c.at)}
CandidatesAgain(c) ==
    {o \in bare : /\ object[o].entity \in c.entities \cup {Unknown}
                  /\ Near(object[o].ts, Times(c.confirmed), c.at)}

\* What is suggested: incident statements in the window, about a customer of the
\* incident or about none.
Candidates(c) ==
    {o \in bare \ c.confirmed : /\ object[o].entity \in c.entities \cup {Unknown}
                                /\ Near(object[o].ts, Times(c.confirmed), c.at)}

\* Mutants: a suggestion is linked (the column's default); it has no value at all.
SuggestLinked(i, o) == Link(i, o, TRUE)
SuggestUnset(i, o) == Link(i, o, None)

Suggest(i, o) == Link(i, o, FALSE)

\* The query for candidates, and the commit.
DeclareCommit(q) ==
    /\ call[q] # None
    /\ call[q].step = "confirmed"
    /\ LET c == call[q] IN
         /\ incident' = [incident EXCEPT ![c.inc] =
                           [entities |-> c.entities, declaredAt |-> c.at,
                            status |-> "open", resolvedAt |-> None]]
         /\ links' = links \cup {Link(c.inc, o, TRUE) : o \in c.confirmed}
                           \cup {Suggest(c.inc, o) : o \in Candidates(c)}
         /\ declared' = [declared EXCEPT ![c.inc] = @ + 1]
         /\ carried' = carried \cup {<<c.inc, o>> : o \in c.confirmed}
    /\ call' = [call EXCEPT ![q] = AfterDeclare(q)]
    /\ steady' = [steady EXCEPT ![q] = {}]
    /\ UNCHANGED <<objVars, now, ruled>>

\* The connection or the process is lost before the commit.
DeclareLost(q) ==
    /\ call[q] # None
    /\ call' = [call EXCEPT ![q] = None]
    /\ steady' = [steady EXCEPT ![q] = {}]
    /\ UNCHANGED <<objVars, rowVars, now, histVars>>

-----------------------------------------------------------------------------
(***************************************************************************)
(* link_object and resolve_incident.                                       *)
(***************************************************************************)
OtherRows(rows, i, o) == {r \in rows : r.inc # i \/ r.obj # o}

\* Mutant: an object that has a row keeps it.
LinkRowsKeep(i, o, linked) ==
    IF OtherRows(links, i, o) = links THEN links \cup {Link(i, o, linked)} ELSE links

\* The row of an object that has one is updated, else a row is inserted.
LinkRowsAfter(i, o, linked) == OtherRows(links, i, o) \cup {Link(i, o, linked)}

LinkObject(i, o, linked) ==
    /\ incident[i] # None
    /\ Exists(o)
    /\ Cardinality(OtherRows(ruled, i, o)) < MaxRulings
    /\ links' = LinkRowsAfter(i, o, linked)
    /\ ruled' = OtherRows(ruled, i, o) \cup {Link(i, o, linked)}
    /\ UNCHANGED <<objVars, incident, now, call, declared, carried, steady>>

\* Neither looks at the status: a second resolution moves resolved_at.
SetResolved(i) ==
    incident' = [incident EXCEPT ![i].status = "resolved", ![i].resolvedAt = now]

Resolve(i) ==
    /\ incident[i] # None
    /\ SetResolved(i)
    /\ UNCHANGED <<objVars, links, now, call, histVars, steady>>

ScriptResolve ==
    /\ call[Script] # None
    /\ call[Script].step = "resolve"
    /\ SetResolved(call[Script].inc)
    /\ call' = [call EXCEPT ![Script] = None]
    /\ UNCHANGED <<objVars, links, now, histVars, steady>>

-----------------------------------------------------------------------------
Next ==
    \/ \E o \in Objects : \/ \E s \in Statements : Persist(o, s)
                          \/ \E i \in Ids \cup {None} : EditTag(o, i)
    \/ Tick
    \/ \E q \in Callers :
         \/ \E i \in Ids : \E es \in Affected[i], at \in Anchors \cup {now} :
              DeclareCheck(q, i, es, at)
         \/ DeclareInsert(q)
         \/ DeclareConfirm(q)
         \/ DeclareCommit(q)
         \/ DeclareLost(q)
    \/ \E i \in Ids : \/ \E o \in Objects, linked \in BOOLEAN : LinkObject(i, o, linked)
                      \/ Resolve(i)
    \/ ScriptResolve

Spec == Init /\ [][Next]_vars

-----------------------------------------------------------------------------
(***************************************************************************)
(* Properties.                                                             *)
(***************************************************************************)

\* However two declarations of one incident id interleave, one of them succeeds:
\* declare_incident's own SELECT does not ensure it, the unique constraint does.
DeclaredOnce == \A i \in Ids : declared[i] <= 1

\* An incident and an object have one row, though one query of declare_incident
\* finds the object by its id and the other by its subject key, and an edit may
\* make both find it.
OneRowPerPair ==
    \A r, s \in links : r.inc = s.inc /\ r.obj = s.obj => r = s

\* linked = True is a confirmed tie: the object carried the incident's id when the
\* incident was declared, or a human linked it.  The heuristic never confirms.
LinkedMeansTied ==
    \A r \in links : r.linked => <<r.inc, r.obj>> \in carried \/ r \in ruled

\* What a human ruled on an incident and an object stands, whatever declarations
\* and retries of declarations follow.
RulingStands == ruled \subseteq links

\* What an incident's timeline says of an object is one row, confirmed only on
\* evidence or by a human, and the last word of a human is that row.
LinksAreEarned == OneRowPerPair /\ LinkedMeansTied /\ RulingStands

\* A declaration loses no evidence: what carries the incident's id from the call's
\* beginning to its commit is linked, whatever is persisted and edited meanwhile.
EvidenceIsKept ==
    [][\A q \in Callers :
         call[q] # None =>
           (declared'[call[q].inc] # declared[call[q].inc] /\ call[q].step = "confirmed"
              => \A o \in steady[q] : Link(call[q].inc, o, TRUE) \in links')]_vars

Timeline(i) == {r.obj : r \in {s \in links : s.inc = i}}

\* Two incidents that affect different customers do not share a statement about a
\* customer, unless it carried the id of one or a human put it there: their windows
\* may overlap.
NoCrossTalk ==
    \A i, j \in Ids :
      incident[i] # None /\ incident[j] # None =>
        \/ incident[i].entities \cap incident[j].entities # {}
        \/ i = j
        \/ \A o \in Timeline(i) \cap Timeline(j) :
             \/ object[o].entity = Unknown
             \/ \E k \in {i, j} : \/ <<k, o>> \in carried
                                  \/ OtherRows(ruled, k, o) # ruled
=============================================================================
