------------------------------ MODULE Handoff ------------------------------
(***************************************************************************)
(* The handoff validator over the context ledger:                          *)
(* app/pipeline/handoff.py, with the endpoints that run it                 *)
(* (app/api/handoffs.py) and review what it reports (app/api/gaps.py).     *)
(*                                                                         *)
(* A validation compares the statements of a contract's from_stage with    *)
(* those of its to_stage, subject by subject and slot by slot, and writes  *)
(* one gap for each loss.  POST /handoffs/validate-all is a run of         *)
(* Validate steps, each its own transaction, which other steps interleave. *)
(*                                                                         *)
(* An item's subject is a record of its entity and its capability.  Where  *)
(* the code takes the first of several equally good rows of an unordered   *)
(* query, any of them may be taken.                                        *)
(***************************************************************************)
EXTENDS Ledger, FiniteSetsExt, SequencesExt

CONSTANTS
    Contracts,       \* context_contracts: [id, from, to, fields]
    Spelling,        \* how wordings normalise: a function from some of them
    Synonyms,        \* SLOT_EQUIVALENTS: groups of protocol wordings that mean the same
    MaxRuns,         \* bound: validations
    MaxGapReviews    \* bound: gaps that have been reviewed

\* A contract is found by its id, a wording has one group of synonyms, and only words
\* are normalised.
ASSUME HandoffAssumption ==
    /\ \A c, k \in Contracts : c.id = k.id => c = k
    /\ \A g, h \in Synonyms : g # h => g \cap h = {}
    /\ None \notin DOMAIN Spelling

VARIABLES
    validations,  \* rows of handoff_validations, in the order of created_at
    gaps,         \* rows of context_gaps; run is the position of their validation
    current       \* history: the validations that no ledger change has followed

handoffVars == <<vars, validations, gaps, current>>

-----------------------------------------------------------------------------
(***************************************************************************)
(* Comparing one slot.                                                     *)
(***************************************************************************)

CapabilityGeneralizes == {<<"sso", "saml">>, <<"sso", "oidc">>}

RegionHierarchy ==
    {"eu"} \X {"eu-west-1", "eu-central-1", "eu-north-1", "eu-west-2"}
    \cup {"us"} \X {"us-east-1", "us-east-2", "us-west-1", "us-west-2"}

\* normalize_value, of the slots that hold words.
Normal(slot, v) ==
    IF slot \in {"protocol", "region", "value", "extra"} /\ v \in DOMAIN Spelling
      THEN Spelling[v] ELSE v

\* is_equivalent, of normalised values.
Equivalent(slot, u, d) == slot = "protocol" /\ \E group \in Synonyms : {u, d} \subseteq group

\* The key of a nested incident slot that counts (_DICT_SLOT_KEY).
SameInTheKey(slot, u, d) == slot = "impact" /\ u.key = d.key

PrecisionOrder(prec) == CASE prec = "quarter" -> 2 [] prec = "month" -> 1 [] OTHER -> 0

\* d states the slot more broadly than the upstream statement u (for due_date,
\* _classify_due_date).
Generalizes(slot, u, d) ==
    LET capability == item[d].subject.capability
        uval == Normal(slot, attrs[u][slot])
        dval == Normal(slot, attrs[d][slot])
    IN  CASE slot = "protocol" ->
               \/ dval = None /\ <<capability, uval>> \in CapabilityGeneralizes
               \/ dval = capability
          [] slot = "due" ->
               IF dval = None THEN attrs[d].prec # None
               ELSE PrecisionOrder(attrs[d].prec) > PrecisionOrder(attrs[u].prec)
          [] slot = "region" -> dval # None /\ <<dval, uval>> \in RegionHierarchy
          [] OTHER -> FALSE

\* _find_stale_reference: d still has what a superseded sibling of u said.
StaleReference(slot, u, d) ==
    \E c \in Created \ {u} :
        /\ status[c] = "superseded"
        /\ SameSubject(item[c], item[u])
        /\ item[c].stage = item[u].stage
        /\ item[c].type = item[u].type
        /\ attrs[c][slot] # None
        /\ Normal(slot, attrs[c][slot]) = Normal(slot, attrs[d][slot])

\* classify_slot, for a slot that u has.
Outcome(slot, u, d) ==
    LET uval == Normal(slot, attrs[u][slot])
        dval == Normal(slot, attrs[d][slot])
    IN  IF dval = None
          THEN IF Generalizes(slot, u, d) THEN "generalized" ELSE "missing"
        ELSE IF uval = dval THEN "preserved"
        ELSE IF Equivalent(slot, uval, dval) THEN "equivalent"
        ELSE IF StaleReference(slot, u, d) THEN "stale_reference"
        ELSE IF SameInTheKey(slot, uval, dval) THEN "equivalent"
        ELSE IF Generalizes(slot, u, d) THEN "generalized"
        ELSE "contradicted"

\* severity, in hundredths, and its band.
Severity(importance, authority, outcome) ==
    [critical |-> 3, high |-> 2, normal |-> 1][importance]
    * (CASE authority = 4 -> 10 [] authority = 3 -> 8 [] authority = 2 -> 6
         [] authority = 1 -> 3 [] OTHER -> 1)
    * [object_missing |-> 10, contradicted |-> 10, stale_reference |-> 9, missing |-> 9,
       generalized |-> 6][outcome]

Band(sev) == IF sev >= 200 THEN "high" ELSE IF sev >= 100 THEN "medium" ELSE "low"

-----------------------------------------------------------------------------
(***************************************************************************)
(* Which objects are compared.                                             *)
(***************************************************************************)

Stated(e, stage, types, statuses) ==
    {o \in Created : /\ item[o].subject.entity = e
                     /\ item[o].stage = stage
                     /\ item[o].type \in types
                     /\ status[o] \in statuses}

On(os, s) == {o \in os : item[o].subject = s}

\* The first of os by (authority, valid_from), descending: each that may come first.
Foremost(os) ==
    {o \in os : \A p \in os :
        \/ Authority(item[p]) < Authority(item[o])
        \/ Authority(item[p]) = Authority(item[o]) /\ item[p].ts <= item[o].ts}

\* _upstream_groups, before they are grouped by subject.
Upstream(e, c, f) ==
    {o \in Stated(e, c.from, f.types, {"active", "conflicting"}) :
       Authority(item[o]) >= f.minAuthority}

\* _downstream_counterpart
Downstream(e, c, f) == Stated(e, c.to, f.types, {"active"})

ParentsOf(os) == {r.to : r \in {q \in rels : q.kind = "derived_from" /\ q.from \in os}}

\* upstream_chain: what u descends from, by distance.
UpstreamChain(u) ==
    LET chain[depth \in 0..20] ==
          IF depth = 0 THEN ParentsOf({u}) ELSE ParentsOf(chain[depth - 1])
    IN  chain

Having(os, slot) == {a \in os : attrs[a][slot] # None}

\* Mutant: a slot the upstream reference has lost is passed over.
EffectiveOwn(u, slot) == Having({u}, slot)

\* _effective_upstream_value: u itself, or the nearest ancestors that have the slot.
Effective(u, slot) ==
    IF attrs[u][slot] # None THEN {u}
    ELSE LET chain == UpstreamChain(u)
             depths == {n \in DOMAIN chain : Having(chain[n], slot) # {}}
         IN  IF depths = {} THEN {} ELSE Having(chain[Min(depths)], slot)

-----------------------------------------------------------------------------
(***************************************************************************)
(* What a validation reports.                                              *)
(***************************************************************************)

Gap(f, slot, outcome, authority, up, down, inherited, conflict) ==
    LET sev == Severity(f.importance, authority, outcome) IN
    [field |-> f.name, slot |-> slot, outcome |-> outcome, severity |-> sev,
     band |-> Band(sev), up |-> up, down |-> down, inherited |-> inherited,
     conflict |-> conflict]

\* Mutant: a slot stated more broadly counts as kept.
SlotGapLenient(f, u, d, slot, src, conflict) ==
    LET outcome == Outcome(slot, src, d) IN
    IF outcome \in {"preserved", "equivalent", "generalized"} THEN {}
    ELSE {Gap(f, slot, outcome, Authority(item[src]), src, d, src # u, conflict)}

\* The gap of one slot, if there is one, when its value is taken from src.
SlotGap(f, u, d, slot, src, conflict) ==
    LET outcome == Outcome(slot, src, d) IN
    IF outcome \in {"preserved", "equivalent"} THEN {}
    ELSE {Gap(f, slot, outcome, Authority(item[src]), src, d, src # u, conflict)}

\* Every union of one member of each family.
Unions(families) == {UNION choice : choice \in Choices(families)}

\* All that may be reported of slot: one possibility for each source of its value.
SlotReports(f, u, d, slot, conflict) ==
    LET sources == Effective(u, slot) IN
    IF sources = {} THEN {{}} ELSE {SlotGap(f, u, d, slot, src, conflict) : src \in sources}

\* _validate_propagate_field on the upstream objects of one subject.
GroupReports(e, c, f, group, s) ==
    LET conflict == \E o \in group : status[o] = "conflicting"
        counterparts == Foremost(On(Downstream(e, c, f), s))
    IN  IF counterparts = {}
          THEN {{Gap(f, None, "object_missing", Authority(item[u]), u, None, FALSE, conflict)} :
                  u \in Foremost(group)}
          ELSE UNION {Unions({SlotReports(f, ud[1], ud[2], slot, conflict) : slot \in f.slots}) :
                        ud \in Foremost(group) \X counterparts}

PropagateReports(e, c, f) ==
    LET upstream == Upstream(e, c, f) IN
    Unions({GroupReports(e, c, f, On(upstream, s), s) : s \in {item[o].subject : o \in upstream}})

\* _validate_present_field: what obj lacks.
Lacks(e, c, f, obj) ==
    CASE f.rule = "has_derived_from" -> IF ParentsOf({obj}) = {} THEN {None} ELSE {}
      [] f.rule = "has_customer_contact" ->
           IF \E o \in Stated(e, c.to, {"dependency"}, CONTEXT_STATUSES) : item[o].role = "customer"
             THEN {} ELSE {None}
      [] OTHER -> {slot \in f.slots : attrs[obj][slot] = None}

PresentReport(e, c, f) ==
    UNION {{Gap(f, slot, "missing", Authority(item[obj]), None, obj, FALSE, FALSE) :
              slot \in Lacks(e, c, f, obj)} : obj \in Downstream(e, c, f)}

Reports(e, c) ==
    Unions({IF f.check = "propagate" THEN PropagateReports(e, c, f) ELSE {PresentReport(e, c, f)} :
              f \in c.fields})

Types == {i.type : i \in Items}

InputHash(e, c) ==
    {<<o, version[o]>> :
       o \in Stated(e, c.from, Types, CONTEXT_STATUSES) \cup Stated(e, c.to, Types, CONTEXT_STATUSES)}

-----------------------------------------------------------------------------
HandoffInit ==
    /\ Init
    /\ validations = <<>>
    /\ gaps = {}
    /\ current = {}

\* The ledger changes under the validator.
Evolve == Next /\ current' = {} /\ UNCHANGED <<validations, gaps>>

\* validate_handoff: a new validation, whatever earlier ones reported.
Validate(e, c) ==
    /\ Len(validations) < MaxRuns
    /\ \E report \in Reports(e, c) :
         LET run == Len(validations) + 1 IN
         /\ validations' = Append(validations,
              [entity |-> e, contract |-> c.id, hash |-> InputHash(e, c),
               total |-> Cardinality(report),
               inherited |-> Cardinality({g \in report : g.inherited})])
         /\ gaps' = gaps \cup {[run |-> run, gap |-> g, status |-> "open"] : g \in report}
         /\ current' = current \cup {run}
    /\ UNCHANGED vars

\* Mutant: the request's action is stored as the status.
ReviewedStatusRaw(action) == action

ReviewedStatus(action) == IF action = "confirm" THEN "resolved" ELSE "ignored"

\* review_gap; action is "confirm" or "ignore".  A gap that is not open may be
\* reviewed again.
ReviewGap(g, action) ==
    /\ g \in gaps
    /\ g.status # "open" \/ Cardinality({h \in gaps : h.status # "open"}) < MaxGapReviews
    /\ gaps' = (gaps \ {g}) \cup
         {[g EXCEPT !.status = ReviewedStatus(action)]}
    /\ reviews' = reviews \cup {[target |-> [run |-> g.run, gap |-> g.gap], action |-> action]}
    /\ UNCHANGED <<item, attrs, status, validTo, version, confirmed, history, rels,
                   validations, current>>

Entities == {i.subject.entity : i \in Items}

HandoffNext ==
    \/ Evolve
    \/ \E e \in Entities, c \in Contracts : Validate(e, c)
    \/ \E g \in gaps, action \in {"confirm", "ignore"} : ReviewGap(g, action)

HandoffSpec == HandoffInit /\ [][HandoffNext]_handoffVars

-----------------------------------------------------------------------------
(***************************************************************************)
(* Properties.                                                             *)
(***************************************************************************)

GAP_STATUSES == {"open", "ignored", "resolved"}
GAP_OUTCOMES == {"generalized", "missing", "contradicted", "object_missing", "stale_reference"}

\* The tables' types: every gap belongs to a validation, names objects that exist,
\* at least one of them, and carries a status and an outcome the CHECKs admit.
HandoffTypeOK ==
    /\ current \subseteq 1..Len(validations)
    /\ \A g \in gaps :
         /\ g.run \in 1..Len(validations)
         /\ g.status \in GAP_STATUSES
         /\ g.gap.outcome \in GAP_OUTCOMES
         /\ {g.gap.up, g.gap.down} \subseteq Created \cup {None}
         /\ {g.gap.up, g.gap.down} # {None}

\* The contract, the field and the entity that validation v checks.
Checks(v, c, f) == validations[v].contract = c.id /\ f \in c.fields /\ f.check = "propagate"

Reference(v, c, f, s) == Foremost(On(Upstream(validations[v].entity, c, f), s))
Counterpart(v, c, f, s) == Foremost(On(Downstream(validations[v].entity, c, f), s))

\* d says of the slot what u says.
Survives(slot, u, d) ==
    LET uval == Normal(slot, attrs[u][slot])
        dval == Normal(slot, attrs[d][slot])
    IN  /\ dval # None
        /\ uval = dval \/ Equivalent(slot, uval, dval) \/ SameInTheKey(slot, uval, dval)

\* No loss slips through two handoffs.  When both handoffs of a chain A -> B -> C
\* have been validated on the ledger as it is, and what the one reference in A says
\* of a slot has not survived in the one counterpart in C, one of the validations
\* says so, unless B itself is divided: whether B has nothing, has a statement that
\* lost the slot, or never had it, the two checks have no blind spot between them.
NoSilentLoss ==
    \A v, w \in current, c1, c2 \in Contracts :
      c1.to = c2.from /\ validations[v].entity = validations[w].entity =>
        \A f1 \in c1.fields, f2 \in c2.fields :
          Checks(v, c1, f1) /\ Checks(w, c2, f2) /\ f1.types = f2.types /\ f2.minAuthority = 0 =>
            \A u, d \in Created, slot \in f1.slots \cap f2.slots :
              LET s == item[u].subject
                  between == On(Upstream(validations[w].entity, c2, f2), s)
              IN  /\ Reference(v, c1, f1, s) = {u}
                  /\ Counterpart(w, c2, f2, s) = {d}
                  /\ attrs[u][slot] # None
                  /\ ~Survives(slot, u, d)
                  /\ \A o \in between : status[o] = "active"
                  /\ Cardinality(Foremost(between)) <= 1
                  => \E g \in gaps :
                       /\ g.run \in {v, w}
                       /\ g.gap.slot \in {slot, None}
                       /\ g.gap.up # None
                       /\ item[g.gap.up].subject = s

\* A loss keeps surfacing at the handoffs after the one that caused it: a slot that
\* neither the reference nor its counterpart has, but that an earlier statement of
\* a stage before them had, is reported as inherited, in whatever order the three
\* statements were processed.
LossKeepsSurfacing ==
    \A v \in current, c \in Contracts : \A f \in {x \in c.fields : Checks(v, c, x)} :
      \A u, d, a \in Created, slot \in f.slots :
         /\ Reference(v, c, f, item[u].subject) = {u}
         /\ Counterpart(v, c, f, item[u].subject) = {d}
         /\ attrs[u][slot] = None
         /\ attrs[d][slot] = None
         /\ Descends(item[u], item[a])
         /\ attrs[a][slot] # None
         => \E g \in gaps : /\ g.run = v
                            /\ g.gap.slot = slot
                            /\ g.gap.down = d
                            /\ g.gap.inherited

\* A gap tagged upstream_conflict can be followed up: GET /conflicts lists an
\* unresolved contradiction on its subject, with an end in the upstream stage.
TaggedIsListed ==
    \A g \in gaps, c \in Contracts :
      g.run \in current /\ g.gap.conflict /\ validations[g.run].contract = c.id =>
        \E r \in rels : /\ r.kind = "contradicts" /\ r.open
                        /\ item[r.from].subject = item[g.gap.up].subject
                        /\ c.from \in {item[r.from].stage, item[r.to].stage}
=============================================================================
