---------------------------- MODULE HandoffProofs ----------------------------
(***************************************************************************)
(* Proofs about module Handoff, for any contracts, statements and          *)
(* wordings, any number of validations and histories of any length.        *)
(*                                                                         *)
(* The inductive invariant says that the gaps of a validation that no      *)
(* change of the ledger has followed are a report of its contract on the   *)
(* ledger as it is, beside what module Ledger keeps: its types, the        *)
(* lineage, and that a conflict is listed.  The properties then follow     *)
(* from what a report says of one field, subject and slot.                 *)
(***************************************************************************)
EXTENDS Handoff, LedgerProofs, FiniteSetTheorems, WellFoundedInduction

USE LedgerAssumption, HandoffAssumption

-----------------------------------------------------------------------------
(* Operators that mention no state. *)

\* A set of numbers that is not empty has a least element.
LEMMA NatMin ==
  ASSUME NEW T, T \subseteq Nat, T # {}
  PROVE  \E x \in T : \A y \in T : x <= y
<1> DEFINE R == {ss \in Nat \X Nat : ss[1] < ss[2]}
<1>1. IsWellFoundedOn(R, Nat)
  BY NatLessThanWellFounded DEF OpToRel
<1> HIDE DEF R
<1>2. PICK x \in T : \A y \in T : ~ (<<y, x>> \in R)
  BY <1>1, WFMin, Zenon
<1>3. \A y \in T : <<y, x>> \notin R => ~ (y < x)
  BY DEF R
<1>4. \A y \in T : x <= y
  <2> SUFFICES ASSUME NEW y \in T
               PROVE  x <= y
    OBVIOUS
  <2>1. x \in Nat /\ y \in Nat /\ ~ (y < x)
    BY <1>2, <1>3
  <2> QED
    BY <2>1
<1> QED
  BY <1>4

\* A union of one member of each family has a member of each in it, and nothing else.
LEMMA UnionsMembers ==
  ASSUME NEW families, NEW report \in Unions(families)
  PROVE  /\ \A family \in families : \E x \in family : x \subseteq report
         /\ \A g \in report : \E family \in families : \E x \in family : g \in x
<1>1. PICK f \in [families -> UNION families] :
        (\A family \in families : f[family] \in family) /\ report = UNION Range(f)
  BY DEF Unions, Choices
<1>2. Range(f) = {f[family] : family \in families}
  BY DEF Range
<1> QED
  BY <1>1, <1>2

\* f is what is found within n steps up the lineage of u.
Levels(u, f, n) ==
    f = [d \in 0..n |-> IF d = 0 THEN ParentsOf({u}) ELSE ParentsOf(f[d - 1])]

\* One more step can be taken.
LEMMA LevelsNext ==
  ASSUME NEW u, NEW n \in Nat, n # 0, NEW g, Levels(u, g, n - 1)
  PROVE  \E f : Levels(u, f, n)
<1> DEFINE f == [d \in 0..n |-> IF d = n THEN ParentsOf(g[n - 1]) ELSE g[d]]
<1>1. \A d \in 0..(n - 1) : g[d] = IF d = 0 THEN ParentsOf({u}) ELSE ParentsOf(g[d - 1])
  BY DEF Levels
<1>2. \A d \in 0..(n - 1) : f[d] = g[d]
  OBVIOUS
<1>3. f[n] = ParentsOf(g[n - 1])
  OBVIOUS
<1>4. f = [d \in 0..n |-> f[d]]
  OBVIOUS
<1> HIDE DEF f
<1>5. ASSUME NEW d \in 0..n
      PROVE  f[d] = IF d = 0 THEN ParentsOf({u}) ELSE ParentsOf(f[d - 1])
  <2>1. CASE d = n
    <3>1. n - 1 \in 0..(n - 1)
      OBVIOUS
    <3>2. f[n - 1] = g[n - 1]
      BY <1>2, <3>1
    <3> QED
      BY <1>3, <2>1, <3>2
  <2>2. CASE d = 0
    <3>1. 0 \in 0..(n - 1)
      OBVIOUS
    <3> QED
      BY <1>1, <1>2, <2>2, <3>1
  <2>3. CASE d # n /\ d # 0
    <3>1. d \in 0..(n - 1) /\ d - 1 \in 0..(n - 1)
      BY <2>3
    <3>2. f[d] = g[d] /\ f[d - 1] = g[d - 1] /\ g[d] = ParentsOf(g[d - 1])
      BY <1>1, <1>2, <2>3, <3>1
    <3> QED
      BY <2>3, <3>2
  <2> QED
    BY <2>1, <2>2, <2>3
<1>6. Levels(u, f, n)
  BY <1>4, <1>5 DEF Levels
<1> QED
  BY <1>6

\* The function that upstream_chain walks along exists, however far it goes.
LEMMA LevelsExist == ASSUME NEW u PROVE \A n \in Nat : \E f : Levels(u, f, n)
<1> DEFINE Bad == {n \in Nat : ~ \E f : Levels(u, f, n)}
<1> SUFFICES ASSUME Bad # {}
             PROVE  FALSE
  OBVIOUS
<1>1. PICK n \in Bad : \A m \in Bad : n <= m
  BY NatMin
<1>2. n \in Nat /\ ~ \E f : Levels(u, f, n)
  OBVIOUS
<1>3. CASE n = 0
  <2> DEFINE f == [d \in 0..0 |-> ParentsOf({u})]
  <2>1. f = [d \in 0..0 |-> IF d = 0 THEN ParentsOf({u}) ELSE ParentsOf(f[d - 1])]
    OBVIOUS
  <2>2. Levels(u, f, 0)
    BY <2>1 DEF Levels
  <2> QED
    BY <1>2, <1>3, <2>2
<1>4. CASE n # 0
  <2>1. n - 1 \in Nat /\ ~ (n <= n - 1)
    BY <1>2, <1>4
  <2>2. n - 1 \notin Bad
    <3> HIDE DEF Bad
    <3> QED
      BY <1>1, <2>1
  <2>3. PICK g : Levels(u, g, n - 1)
    BY <2>1, <2>2
  <2> QED
    BY <1>2, <1>4, <2>3, LevelsNext
<1> QED
  BY <1>3, <1>4

\* What is at each distance.
LEMMA ChainLevels ==
  ASSUME NEW u
  PROVE  /\ DOMAIN UpstreamChain(u) = 0..20
         /\ UpstreamChain(u)[0] = ParentsOf({u})
         /\ \A d \in 1..20 : UpstreamChain(u)[d] = ParentsOf(UpstreamChain(u)[d - 1])
<1> DEFINE chain == CHOOSE f : Levels(u, f, 20)
<1>1. \E f : Levels(u, f, 20)
  <2>1. 20 \in Nat
    OBVIOUS
  <2> QED
    BY <2>1, LevelsExist
<1>2. UpstreamChain(u) = chain
  BY DEF UpstreamChain, Levels
<1>3. Levels(u, chain, 20)
  BY <1>1
<1> HIDE DEF chain
<1>4. /\ DOMAIN chain = 0..20 /\ chain[0] = ParentsOf({u})
      /\ \A d \in 1..20 : chain[d] = ParentsOf(chain[d - 1])
  BY <1>3 DEF Levels
<1> QED
  BY <1>2, <1>4

\* The least of a set of numbers.
LEMMA MinIsIn ==
  ASSUME NEW T, T \subseteq Nat, T # {}
  PROVE  Min(T) \in T /\ \A y \in T : Min(T) <= y
<1>1. \E x \in T : \A y \in T : x <= y
  BY NatMin
<1> QED
  BY <1>1 DEF Min

-----------------------------------------------------------------------------
(* What is taken of an upstream statement. *)

\* Lineage is what create_lineage_links made, and neither it nor a conflict leaves the
\* subject.
Lines ==
    \A r \in rels :
      /\ r.kind = "derived_from" => r = Rel(r.from, r.to, "derived_from", "lineage", FALSE)
      /\ r.kind \in {"derived_from", "contradicts"} => SameSubject(item[r.from], item[r.to])

\* A parent is on its child's subject.
LEMMA ParentsAlike ==
  ASSUME TypeOK, Lines, NEW os, NEW p \in ParentsOf(os)
  PROVE  p \in Created /\ \E o \in os \cap Created : item[o].subject = item[p].subject
<1>1. PICK r \in rels : r.kind = "derived_from" /\ r.from \in os /\ p = r.to
  BY DEF ParentsOf
<1>2. r.from \in Created /\ r.to \in Created
  BY DEF TypeOK
<1> QED
  BY <1>1, <1>2 DEF Lines, SameSubject

\* So is every ancestor.
LEMMA AncestorsAlike ==
  ASSUME TypeOK, Lines, NEW u \in Created, NEW d \in 0..20, NEW p \in UpstreamChain(u)[d]
  PROVE  p \in Created /\ item[p].subject = item[u].subject
<1> DEFINE Alike(q) == q \in Created /\ item[q].subject = item[u].subject
           Bad == {n \in 0..20 : \E q \in UpstreamChain(u)[n] : ~ Alike(q)}
<1>1. ASSUME Bad # {}
      PROVE  FALSE
  <2>1. PICK n \in Bad : \A m \in Bad : n <= m
    <3>1. Bad \subseteq Nat
      OBVIOUS
    <3> HIDE DEF Bad
    <3> QED
      BY <1>1, <3>1, NatMin
  <2>2. PICK q \in UpstreamChain(u)[n] : ~ Alike(q)
    OBVIOUS
  <2>3. n \in 0..20
    OBVIOUS
  <2>4. CASE n = 0
    <3>1. q \in ParentsOf({u})
      BY <2>2, <2>4, ChainLevels
    <3> QED
      BY <2>2, <3>1, ParentsAlike
  <2>5. CASE n # 0
    <3>1. n \in 1..20 /\ n - 1 \in 0..20 /\ ~ (n <= n - 1)
      BY <2>3, <2>5
    <3>2. n - 1 \notin Bad
      <4> HIDE DEF Bad
      <4> QED
        BY <2>1, <3>1
    <3>3. \A o \in UpstreamChain(u)[n - 1] : Alike(o)
      BY <3>1, <3>2
    <3>4. q \in ParentsOf(UpstreamChain(u)[n - 1])
      BY <2>2, <3>1, ChainLevels
    <3>5. q \in Created /\ \E o \in UpstreamChain(u)[n - 1] : item[o].subject = item[q].subject
      BY <3>4, ParentsAlike
    <3> QED
      BY <2>2, <3>3, <3>5
  <2> QED
    BY <2>4, <2>5
<1> QED
  BY <1>1

\* The value of a slot is taken from a statement on the subject that has it.
LEMMA EffectiveAlike ==
  ASSUME TypeOK, Lines, NEW u \in Created, NEW slot, NEW src \in Effective(u, slot)
  PROVE  src \in Created /\ item[src].subject = item[u].subject /\ attrs[src][slot] # None
<1>1. CASE attrs[u][slot] # None
  BY <1>1 DEF Effective
<1>2. CASE attrs[u][slot] = None
  <2> DEFINE depths == {n \in DOMAIN UpstreamChain(u) : Having(UpstreamChain(u)[n], slot) # {}}
  <2>1. depths # {} /\ src \in Having(UpstreamChain(u)[Min(depths)], slot)
    BY <1>2 DEF Effective
  <2>2. depths \subseteq 0..20
    BY ChainLevels
  <2> HIDE DEF depths
  <2>3. Min(depths) \in 0..20
    <3>1. depths \subseteq Nat
      BY <2>2
    <3> QED
      BY <2>1, <2>2, <3>1, MinIsIn
  <2> QED
    BY <2>1, <2>3, AncestorsAlike DEF Having
<1> QED
  BY <1>1, <1>2

\* A parent that has the slot is near enough to give it.
LEMMA EffectiveParent ==
  ASSUME NEW u, NEW slot, attrs[u][slot] = None, NEW p \in ParentsOf({u}), attrs[p][slot] # None
  PROVE  Effective(u, slot) # {} /\ Effective(u, slot) \subseteq ParentsOf({u})
<1> DEFINE depths == {n \in DOMAIN UpstreamChain(u) : Having(UpstreamChain(u)[n], slot) # {}}
<1>1. Having(UpstreamChain(u)[0], slot) # {} /\ 0 \in DOMAIN UpstreamChain(u)
  BY ChainLevels DEF Having
<1>2. 0 \in depths /\ depths \subseteq 0..20
  BY <1>1, ChainLevels
<1>3. Effective(u, slot) = IF depths = {} THEN {} ELSE Having(UpstreamChain(u)[Min(depths)], slot)
  BY DEF Effective
<1> HIDE DEF depths
<1>4. Min(depths) = 0
  <2>1. depths \subseteq Nat /\ depths # {}
    BY <1>2
  <2>2. Min(depths) \in depths /\ Min(depths) <= 0
    BY <1>2, <2>1, MinIsIn
  <2>3. Min(depths) \in 0..20
    BY <1>2, <2>2
  <2> QED
    BY <2>2, <2>3
<1> QED
  BY <1>1, <1>2, <1>3, <1>4, ChainLevels DEF Having

-----------------------------------------------------------------------------
(* What a report says. *)

LOSSES == {"generalized", "missing", "stale_reference", "contradicted"}

\* How a slot that is compared can come out.
LEMMA OutcomeType ==
  ASSUME NEW slot, NEW u, NEW d
  PROVE  Outcome(slot, u, d) \in LOSSES \cup {"preserved", "equivalent"}
  BY DEF Outcome, LOSSES

\* The gap of a slot, if there is one.
LEMMA SlotGapSays ==
  ASSUME NEW f, NEW u, NEW d, NEW slot, NEW src, NEW conflict,
         NEW g \in SlotGap(f, u, d, slot, src, conflict)
  PROVE  /\ g.slot = slot /\ g.up = src /\ g.down = d /\ g.inherited = (src # u)
         /\ g.conflict = conflict /\ g.outcome \in LOSSES
<1>1. /\ g = Gap(f, slot, Outcome(slot, src, d), Authority(item[src]), src, d, src # u, conflict)
      /\ Outcome(slot, src, d) \notin {"preserved", "equivalent"}
  BY DEF SlotGap
<1>2. Outcome(slot, src, d) \in LOSSES
  BY <1>1, OutcomeType
<1> QED
  BY <1>1, <1>2 DEF Gap

\* A gap is of statements there are, and a conflict it is tagged with is one: of the
\* upstream stage, on the gap's subject.
Grounded(c, g) ==
    /\ g.outcome \in GAP_OUTCOMES
    /\ {g.up, g.down} \subseteq Created \cup {None}
    /\ {g.up, g.down} # {None}
    /\ g.conflict => /\ g.up \in Created
                     /\ \E o \in Created : /\ status[o] = "conflicting"
                                           /\ item[o].stage = c.from
                                           /\ item[o].subject = item[g.up].subject

\* What the upstream statements on one subject are reported for is grounded.
LEMMA GroupGrounded ==
  ASSUME TypeOK, Lines, NEW e, NEW c, NEW f, NEW s,
         NEW report \in GroupReports(e, c, f, On(Upstream(e, c, f), s), s), NEW g \in report
  PROVE  Grounded(c, g)
<1> DEFINE group == On(Upstream(e, c, f), s)
           conflict == \E o \in group : status[o] = "conflicting"
           counterparts == Foremost(On(Downstream(e, c, f), s))
<1>1. \A o \in group : o \in Created /\ item[o].stage = c.from /\ item[o].subject = s
  BY DEF On, Upstream, Stated
<1>2. counterparts \subseteq Created /\ Foremost(group) \subseteq group
  BY DEF Foremost, On, Downstream, Stated
<1>3. conflict \in BOOLEAN /\ None \notin Created
  BY DEF Created
<1>4. report \in IF counterparts = {}
        THEN {{Gap(f, None, "object_missing", Authority(item[u]), u, None, FALSE, conflict)} :
                u \in Foremost(group)}
        ELSE UNION {Unions({SlotReports(f, ud[1], ud[2], slot, conflict) : slot \in f.slots}) :
                      ud \in Foremost(group) \X counterparts}
  BY DEF GroupReports
<1> HIDE DEF group, conflict, counterparts
<1>5. ASSUME NEW u \in Created, item[u].subject = s, g.up = u, g.conflict = conflict, conflict
      PROVE  \E o \in Created : /\ status[o] = "conflicting" /\ item[o].stage = c.from
                                /\ item[o].subject = item[g.up].subject
  BY <1>1, <1>5 DEF conflict
<1>6. CASE counterparts = {}
  <2> DEFINE G(u) == Gap(f, None, "object_missing", Authority(item[u]), u, None, FALSE, conflict)
  <2>0. report \in {{G(u)} : u \in Foremost(group)}
    BY <1>4, <1>6
  <2> HIDE DEF G
  <2>1. PICK u \in Foremost(group) : g = G(u)
    BY <2>0
  <2>2. g.outcome = "object_missing" /\ g.up = u /\ g.down = None /\ g.conflict = conflict
    BY <2>1 DEF Gap, G
  <2>3. u \in Created /\ item[u].subject = s
    BY <1>1, <1>2
  <2> QED
    BY <1>3, <1>5, <2>2, <2>3 DEF Grounded, GAP_OUTCOMES
<1>7. CASE counterparts # {}
  <2> DEFINE U(ud) == Unions({SlotReports(f, ud[1], ud[2], slot, conflict) : slot \in f.slots})
  <2>0. report \in UNION {U(ud) : ud \in Foremost(group) \X counterparts}
    BY <1>4, <1>7
  <2> HIDE DEF U
  <2>1. PICK ud \in Foremost(group) \X counterparts : report \in U(ud)
    BY <2>0
  <2> DEFINE u == ud[1]
             d == ud[2]
  <2>2. u \in Created /\ item[u].subject = s /\ d \in Created
    BY <1>1, <1>2
  <2> HIDE DEF u, d
  <2>3. PICK slot \in f.slots : \E x \in SlotReports(f, u, d, slot, conflict) : g \in x
    BY <2>1, UnionsMembers DEF u, d, U
  <2>4. PICK src \in Effective(u, slot) : g \in SlotGap(f, u, d, slot, src, conflict)
    BY <2>3 DEF SlotReports
  <2>5. g.up = src /\ g.down = d /\ g.conflict = conflict /\ g.outcome \in LOSSES
    BY <2>4, SlotGapSays
  <2>6. src \in Created /\ item[src].subject = s
    BY <2>2, EffectiveAlike
  <2> QED
    BY <1>3, <1>5, <2>2, <2>5, <2>6 DEF Grounded, GAP_OUTCOMES, LOSSES
<1> QED
  BY <1>6, <1>7

\* What a validation reports is grounded.
LEMMA ReportGrounded ==
  ASSUME TypeOK, Lines, NEW e, NEW c, NEW report \in Reports(e, c), NEW g \in report
  PROVE  Grounded(c, g)
<1>1. PICK f \in c.fields : \E x \in IF f.check = "propagate" THEN PropagateReports(e, c, f)
                                                            ELSE {PresentReport(e, c, f)} : g \in x
  BY UnionsMembers DEF Reports
<1>2. CASE f.check = "propagate"
  <2>1. PICK x \in PropagateReports(e, c, f) : g \in x
    BY <1>1, <1>2
  <2>2. PICK s : \E y \in GroupReports(e, c, f, On(Upstream(e, c, f), s), s) : g \in y
    BY <2>1, UnionsMembers DEF PropagateReports
  <2> QED
    BY <2>2, GroupGrounded
<1>3. CASE f.check # "propagate"
  <2>1. g \in PresentReport(e, c, f)
    BY <1>1, <1>3
  <2> DEFINE G(obj, slot) == Gap(f, slot, "missing", Authority(item[obj]), None, obj, FALSE, FALSE)
  <2>2. g \in UNION {{G(obj, slot) : slot \in Lacks(e, c, f, obj)} : obj \in Downstream(e, c, f)}
    BY <2>1 DEF PresentReport
  <2> HIDE DEF G
  <2>4. PICK obj \in Downstream(e, c, f) : \E slot : g = G(obj, slot)
    BY <2>2
  <2>5. g.outcome = "missing" /\ g.up = None /\ g.down = obj /\ g.conflict = FALSE
    BY <2>4 DEF Gap, G
  <2>3. obj \in Created /\ None \notin Created
    BY DEF Downstream, Stated, Created
  <2> QED
    BY <2>3, <2>5 DEF Grounded, GAP_OUTCOMES
<1> QED
  BY <1>2, <1>3

\* The one reference, or counterpart, that there is.
Sole(os, o) == os = {o}

\* A report has the gap of the one reference there is on a subject that nobody answers,
\* and of each slot of it that the one counterpart there is does not keep.
LEMMA ReportHas ==
  ASSUME NEW e, NEW c, NEW f \in c.fields, f.check = "propagate", NEW s, NEW u,
         Sole(Foremost(On(Upstream(e, c, f), s)), u), NEW report \in Reports(e, c)
  PROVE  /\ Foremost(On(Downstream(e, c, f), s)) = {} => \E g \in report : g.slot = None /\ g.up = u
         /\ \A d : Sole(Foremost(On(Downstream(e, c, f), s)), d) =>
              \A slot \in f.slots : Effective(u, slot) # {} =>
                \E src \in Effective(u, slot), conflict \in BOOLEAN :
                  SlotGap(f, u, d, slot, src, conflict) \subseteq report
<1> DEFINE upstream == Upstream(e, c, f)
           group == On(upstream, s)
           conflict == \E o \in group : status[o] = "conflicting"
           counterparts == Foremost(On(Downstream(e, c, f), s))
           G(v) == Gap(f, None, "object_missing", Authority(item[v]), v, None, FALSE, conflict)
           U(ud) == Unions({SlotReports(f, ud[1], ud[2], slot, conflict) : slot \in f.slots})
<1>1. PICK x \in PropagateReports(e, c, f) : x \subseteq report
  BY UnionsMembers DEF Reports
<1>2. s \in {item[o].subject : o \in upstream} /\ Foremost(group) = {u}
  BY DEF On, Foremost, Sole
<1>3. PICK y \in GroupReports(e, c, f, group, s) : y \subseteq x
  BY <1>1, <1>2, UnionsMembers DEF PropagateReports
<1>4. y \in IF counterparts = {} THEN {{G(v)} : v \in Foremost(group)}
            ELSE UNION {U(ud) : ud \in Foremost(group) \X counterparts}
  BY <1>3 DEF GroupReports
<1>5. conflict \in BOOLEAN
  OBVIOUS
<1> HIDE DEF G, U, counterparts, group, conflict
<1>6. ASSUME counterparts = {}
      PROVE  \E g \in report : g.slot = None /\ g.up = u
  <2>1. G(u) \in report
    BY <1>1, <1>2, <1>3, <1>4, <1>6
  <2> QED
    BY <2>1 DEF G, Gap
<1>7. ASSUME NEW d, NEW slot \in f.slots, counterparts = {d}, Effective(u, slot) # {}
      PROVE  \E src \in Effective(u, slot) : SlotGap(f, u, d, slot, src, conflict) \subseteq report
  <2>1. PICK ud \in Foremost(group) \X counterparts : y \in U(ud)
    BY <1>4, <1>7
  <2>2. ud[1] = u /\ ud[2] = d
    BY <1>2, <1>7
  <2>3. y \in Unions({SlotReports(f, u, d, k, conflict) : k \in f.slots})
    BY <2>1, <2>2 DEF U
  <2>4. PICK z \in SlotReports(f, u, d, slot, conflict) : z \subseteq y
    BY <2>3, UnionsMembers
  <2>5. z \in {SlotGap(f, u, d, slot, src, conflict) : src \in Effective(u, slot)}
    BY <1>7, <2>4 DEF SlotReports
  <2> QED
    BY <1>1, <1>3, <2>4, <2>5
<1> QED
  BY <1>5, <1>6, <1>7 DEF counterparts, Sole

\* A slot that is lost has its gap.
LEMMA LossIsGap ==
  ASSUME NEW f, NEW u, NEW d, NEW slot, NEW src, NEW conflict, NEW report,
         SlotGap(f, u, d, slot, src, conflict) \subseteq report
  PROVE  \/ Outcome(slot, src, d) \in {"preserved", "equivalent"}
         \/ \E g \in report : /\ g.slot = slot /\ g.up = src /\ g.down = d
                              /\ g.inherited = (src # u)
  BY DEF SlotGap, Gap

\* A slot that is not lost says what it said.
LEMMA KeptSurvives ==
  ASSUME NEW slot, NEW u, NEW d, Outcome(slot, u, d) \in {"preserved", "equivalent"}
  PROVE  Survives(slot, u, d) /\ attrs[d][slot] # None
<1>1. Survives(slot, u, d)
  BY DEF Outcome, Survives, Generalizes
<1>2. Normal(slot, None) = None
  BY DEF Normal
<1> QED
  BY <1>1, <1>2 DEF Survives

\* What survives twice has survived.
LEMMA SurvivalComposes ==
  ASSUME NEW slot, NEW u, NEW b, NEW d, Survives(slot, u, b), Survives(slot, b, d)
  PROVE  Survives(slot, u, d)
<1> DEFINE x == Normal(slot, attrs[u][slot])
           y == Normal(slot, attrs[b][slot])
           z == Normal(slot, attrs[d][slot])
<1>1. z # None
  BY DEF Survives
<1>2. x = y \/ Equivalent(slot, x, y) \/ SameInTheKey(slot, x, y)
  BY DEF Survives
<1>3. y = z \/ Equivalent(slot, y, z) \/ SameInTheKey(slot, y, z)
  BY DEF Survives
<1> HIDE DEF x, y, z
<1>4. Equivalent(slot, x, y) /\ Equivalent(slot, y, z) => Equivalent(slot, x, z)
  BY DEF Equivalent
<1>5. SameInTheKey(slot, x, y) /\ SameInTheKey(slot, y, z) => SameInTheKey(slot, x, z)
  BY DEF SameInTheKey
<1>6. ~ (Equivalent(slot, x, y) /\ SameInTheKey(slot, y, z))
        /\ ~ (SameInTheKey(slot, x, y) /\ Equivalent(slot, y, z))
  BY DEF Equivalent, SameInTheKey
<1>7. x = z \/ Equivalent(slot, x, z) \/ SameInTheKey(slot, x, z)
  BY <1>2, <1>3, <1>4, <1>5, <1>6
<1> QED
  BY <1>1, <1>7 DEF Survives, x, z

-----------------------------------------------------------------------------
(* The invariant, and what it says of the gaps there are. *)

\* What validation v reported.
Reported(v) == {g.gap : g \in {h \in gaps : h.run = v}}

\* On the ledger as it is, each validation's contract says what it reported.
CurrentIsFaithful ==
    \A v \in current :
      \E c \in Contracts : /\ c.id = validations[v].contract
                           /\ Reported(v) \in Reports(validations[v].entity, c)

HandoffInv ==
    /\ TypeOK /\ ConflictIsListed /\ LineageIsExact /\ Lines
    /\ HandoffTypeOK /\ (\E S : validations \in Seq(S))
    /\ \A g \in gaps : DOMAIN g = {"run", "gap", "status"}
    /\ CurrentIsFaithful

\* A validation's contract is the one with its contract's id.
LEMMA ReportedByContract ==
  ASSUME CurrentIsFaithful, NEW v \in current, NEW c \in Contracts, validations[v].contract = c.id
  PROVE  Reported(v) \in Reports(validations[v].entity, c)
  BY DEF CurrentIsFaithful

\* The two checks of a chain of handoffs have no blind spot between them.
LEMMA NoBlindSpot == ASSUME HandoffInv PROVE NoSilentLoss
<1> SUFFICES ASSUME NEW v \in current, NEW w \in current, NEW c1 \in Contracts, NEW c2 \in Contracts,
                    c1.to = c2.from, validations[v].entity = validations[w].entity,
                    NEW f1 \in c1.fields, NEW f2 \in c2.fields,
                    Checks(v, c1, f1), Checks(w, c2, f2), f1.types = f2.types, f2.minAuthority = 0,
                    NEW u \in Created, NEW d \in Created, NEW slot \in f1.slots \cap f2.slots,
                    NEW s, s = item[u].subject,
                    NEW between, between = On(Upstream(validations[w].entity, c2, f2), s),
                    Reference(v, c1, f1, s) = {u}, Counterpart(w, c2, f2, s) = {d},
                    attrs[u][slot] # None, ~ Survives(slot, u, d),
                    \A o \in between : status[o] = "active",
                    Cardinality(Foremost(between)) <= 1
             PROVE  \E g \in gaps : /\ g.run \in {v, w} /\ g.gap.slot \in {slot, None}
                                    /\ g.gap.up # None /\ item[g.gap.up].subject = s
  BY DEF NoSilentLoss
<1> DEFINE e == validations[w].entity
<1>1. Reported(v) \in Reports(e, c1) /\ Reported(w) \in Reports(e, c2)
  BY ReportedByContract DEF HandoffInv, Checks
<1>2. f1.check = "propagate" /\ f2.check = "propagate"
  BY DEF Checks
<1>3. Sole(Foremost(On(Upstream(e, c1, f1), s)), u) /\ Sole(Foremost(On(Downstream(e, c2, f2), s)), d)
  BY DEF Reference, Counterpart, Sole
<1>4. On(Downstream(e, c1, f1), s) = between
  <2>1. \A o \in Created : o \in between <=> /\ item[o].subject.entity = e /\ item[o].stage = c2.from
                                            /\ item[o].type \in f2.types
                                            /\ status[o] \in {"active", "conflicting"}
                                            /\ item[o].subject = s
    <3>1. \A o \in Created : Authority(item[o]) >= f2.minAuthority
      BY AuthorityType
    <3> QED
      BY <3>1 DEF On, Upstream, Stated
  <2>2. between \subseteq Created
    BY DEF On, Upstream, Stated
  <2>3. \A o \in Created : o \in On(Downstream(e, c1, f1), s) <=>
                             o \in between /\ status[o] = "active"
    BY <2>1 DEF On, Downstream, Stated
  <2>4. On(Downstream(e, c1, f1), s) \subseteq Created
    BY DEF On, Downstream, Stated
  <2>5. \A o : o \in On(Downstream(e, c1, f1), s) <=> o \in between
    BY <2>2, <2>3, <2>4
  <2> QED
    BY <2>5
<1>5. \A b, g : b \in {v, w} /\ g \in Reported(b) => \E h \in gaps : h.run = b /\ h.gap = g
  BY DEF Reported
<1>6. \A o \in between : o \in Created /\ item[o].subject = s /\ o # None
  BY DEF On, Upstream, Stated, Created
<1>7. Foremost(between) \subseteq between /\ u # None
  BY DEF Foremost, Created
<1> HIDE DEF e
<1>8. CASE Foremost(between) = {}
  <2>0. Foremost(On(Downstream(e, c1, f1), s)) = {}
    BY <1>4, <1>8
  <2>1. PICK g \in Reported(v) : g.slot = None /\ g.up = u
    BY <1>1, <1>2, <1>3, <2>0, ReportHas
  <2> QED
    BY <1>5, <1>7, <2>1
<1>9. CASE Foremost(between) # {}
  <2>1. PICK b \in between : Foremost(between) = {b}
    <3>1. PICK b \in Foremost(between) : TRUE
      BY <1>9
    <3>2. IsFiniteSet(Foremost(between))
      <4>1. Foremost(between) \subseteq Objects
        BY <1>6, <1>7 DEF Created
      <4> QED
        BY <4>1, FS_Subset
    <3>3. Cardinality(Foremost(between)) = 1
      BY <1>9, <3>2, FS_CardinalityType, FS_EmptySet
    <3>4. \E x : Foremost(between) = {x}
      BY <3>2, <3>3, FS_Singleton
    <3> QED
      BY <1>7, <3>1, <3>4
  <2>2. Effective(u, slot) = {u}
    BY DEF Effective
  <2>3. PICK conflict \in BOOLEAN : SlotGap(f1, u, b, slot, u, conflict) \subseteq Reported(v)
    <3>1. Sole(Foremost(On(Downstream(e, c1, f1), s)), b)
      BY <1>4, <2>1 DEF Sole
    <3>2. \E src \in Effective(u, slot), conflict \in BOOLEAN :
            SlotGap(f1, u, b, slot, src, conflict) \subseteq Reported(v)
      BY <1>1, <1>2, <1>3, <2>2, <3>1, ReportHas
    <3> QED
      BY <2>2, <3>2
  <2>4. CASE Outcome(slot, u, b) \notin {"preserved", "equivalent"}
    <3>1. PICK g \in Reported(v) : g.slot = slot /\ g.up = u
      BY <2>3, <2>4, LossIsGap
    <3> QED
      BY <1>5, <1>7, <3>1
  <2>5. CASE Outcome(slot, u, b) \in {"preserved", "equivalent"}
    <3>1. Survives(slot, u, b) /\ attrs[b][slot] # None
      BY <2>5, KeptSurvives
    <3>2. Effective(b, slot) = {b}
      BY <3>1 DEF Effective
    <3>3. PICK k \in BOOLEAN : SlotGap(f2, b, d, slot, b, k) \subseteq Reported(w)
      <4>1. Sole(Foremost(On(Upstream(e, c2, f2), s)), b)
        BY <2>1 DEF e, Sole
      <4>2. \E src \in Effective(b, slot), k \in BOOLEAN :
              SlotGap(f2, b, d, slot, src, k) \subseteq Reported(w)
        BY <1>1, <1>2, <1>3, <3>2, <4>1, ReportHas
      <4> QED
        BY <3>2, <4>2
    <3>4. Outcome(slot, b, d) \notin {"preserved", "equivalent"}
      BY <3>1, KeptSurvives, SurvivalComposes
    <3>5. PICK g \in Reported(w) : g.slot = slot /\ g.up = b
      BY <3>3, <3>4, LossIsGap
    <3> QED
      BY <1>5, <1>6, <3>5
  <2> QED
    BY <2>4, <2>5
<1> QED
  BY <1>8, <1>9

\* A slot that was lost earlier is reported as inherited.
LEMMA LossResurfaces == ASSUME HandoffInv PROVE LossKeepsSurfacing
<1> SUFFICES ASSUME NEW v \in current, NEW c \in Contracts, NEW f \in c.fields, Checks(v, c, f),
                    NEW u \in Created, NEW d \in Created, NEW a \in Created, NEW slot \in f.slots,
                    Reference(v, c, f, item[u].subject) = {u},
                    Counterpart(v, c, f, item[u].subject) = {d},
                    attrs[u][slot] = None, attrs[d][slot] = None,
                    Descends(item[u], item[a]), attrs[a][slot] # None
             PROVE  \E g \in gaps : g.run = v /\ g.gap.slot = slot /\ g.gap.down = d /\ g.gap.inherited
  BY DEF LossKeepsSurfacing
<1> DEFINE e == validations[v].entity
           s == item[u].subject
<1>1. Reported(v) \in Reports(e, c) /\ f.check = "propagate"
  BY ReportedByContract DEF HandoffInv, Checks
<1>2. Sole(Foremost(On(Upstream(e, c, f), s)), u) /\ Sole(Foremost(On(Downstream(e, c, f), s)), d)
  BY DEF Reference, Counterpart, Sole
<1>3. a \in ParentsOf({u})
  <2>1. Rel(u, a, "derived_from", "lineage", FALSE) \in rels
    BY DEF HandoffInv, LineageIsExact
  <2> QED
    BY <2>1 DEF ParentsOf, Rel
<1>4. u \notin ParentsOf({u})
  <2> SUFFICES ASSUME NEW r \in rels, r.kind = "derived_from", r.from = u, r.to = u
               PROVE  FALSE
    BY DEF ParentsOf
  <2>1. Rel(u, u, "derived_from", "lineage", FALSE) \in rels
    BY DEF HandoffInv, Lines
  <2>2. Descends(item[u], item[u])
    BY <2>1 DEF HandoffInv, LineageIsExact
  <2>3. item[u].ts \in Nat
    BY DEF HandoffInv, TypeOK, Created, Exists
  <2> QED
    BY <2>2, <2>3 DEF Descends
<1>5. Effective(u, slot) # {} /\ Effective(u, slot) \subseteq ParentsOf({u})
  BY <1>3, EffectiveParent
<1> HIDE DEF e, s
<1>6. PICK src \in Effective(u, slot), conflict \in BOOLEAN :
         SlotGap(f, u, d, slot, src, conflict) \subseteq Reported(v)
  BY <1>1, <1>2, <1>5, ReportHas
<1>7. Outcome(slot, src, d) \in {"generalized", "missing"}
  BY DEF Outcome, Normal
<1>8. PICK g \in Reported(v) : g.slot = slot /\ g.down = d /\ g.inherited = (src # u)
  BY <1>6, <1>7, LossIsGap
<1>9. src # u
  BY <1>4, <1>5
<1> QED
  BY <1>8, <1>9 DEF Reported

\* A gap tagged with a conflict is on the subject of one that is listed.
LEMMA TaggedIsOpen == ASSUME HandoffInv PROVE TaggedIsListed
<1> SUFFICES ASSUME NEW g \in gaps, NEW c \in Contracts, g.run \in current, g.gap.conflict,
                    validations[g.run].contract = c.id
             PROVE  \E r \in rels : /\ r.kind = "contradicts" /\ r.open
                                    /\ item[r.from].subject = item[g.gap.up].subject
                                    /\ c.from \in {item[r.from].stage, item[r.to].stage}
  BY DEF TaggedIsListed
<1>1. Reported(g.run) \in Reports(validations[g.run].entity, c) /\ g.gap \in Reported(g.run)
  BY ReportedByContract DEF HandoffInv, Reported
<1>2. Grounded(c, g.gap)
  BY <1>1, ReportGrounded DEF HandoffInv
<1>3. PICK o \in Created : /\ status[o] = "conflicting" /\ item[o].stage = c.from
                           /\ item[o].subject = item[g.gap.up].subject
  BY <1>2 DEF Grounded
<1>4. PICK r \in rels : r.kind = "contradicts" /\ r.open /\ o \in {r.from, r.to}
  BY <1>3 DEF HandoffInv, ConflictIsListed, Created
<1>5. item[r.from].subject = item[r.to].subject
  BY <1>4 DEF HandoffInv, Lines, SameSubject
<1> QED
  BY <1>3, <1>4, <1>5

-----------------------------------------------------------------------------
(***************************************************************************)
(* No gap without a loss: the converse of NoSilentLoss.                    *)
(***************************************************************************)

\* object_missing: the reference, which no statement of the to_stage answers.
NobodyAnswers(e, c, f, g) ==
    /\ f.check = "propagate" /\ g.slot = None /\ g.outcome = "object_missing"
    /\ ~g.inherited /\ g.down = None
    /\ g.up \in Foremost(On(Upstream(e, c, f), item[g.up].subject))
    /\ On(Downstream(e, c, f), item[g.up].subject) = {}

\* The counterpart does not say of the slot what the reference says; or, of an inherited
\* gap, what an earlier statement says whose slot the reference had lost already.
Lost(e, c, f, g) ==
    /\ f.check = "propagate" /\ g.slot \in f.slots /\ g.outcome \in LOSSES
    /\ {g.up, g.down} \subseteq Created /\ SameSubject(item[g.up], item[g.down])
    /\ g.down \in Foremost(On(Downstream(e, c, f), item[g.down].subject))
    /\ attrs[g.up][g.slot] # None
    /\ Survives(g.slot, g.up, g.down) => g.outcome = "stale_reference"
    /\ \E u \in Foremost(On(Upstream(e, c, f), item[g.down].subject)) :
         IF g.inherited THEN attrs[u][g.slot] = None /\ item[g.up].ts < item[u].ts ELSE u = g.up

\* A field that asks for presence, and a statement that has it not.
NotThere(e, c, f, g) ==
    /\ f.check # "propagate" /\ g.up = None /\ g.outcome = "missing"
    /\ g.down \in Downstream(e, c, f) /\ g.slot \in Lacks(e, c, f, g.down)

Founded(e, c, g) ==
    \E f \in c.fields : /\ f.name = g.field
                        /\ \/ NobodyAnswers(e, c, f, g)
                           \/ Lost(e, c, f, g)
                           \/ NotThere(e, c, f, g)

\* As long as the ledger stays as it was, each gap of a validation is a loss there is, and
\* is blamed on a statement that has what was lost: the reference of the handoff at which
\* it was lost, or an earlier one if the reference has it not.  So a slot that is absent
\* after one handoff is no new loss of the next, which would count it twice.
GapsAreFounded ==
    \A g \in gaps, c \in Contracts :
      g.run \in current /\ c.id = validations[g.run].contract =>
        Founded(validations[g.run].entity, c, g.gap)

\* Of some statements, one is foremost: a reference is always found.
LEMMA ForemostExists ==
  ASSUME TypeOK, NEW T, T \subseteq Created, T # {}
  PROVE  Foremost(T) # {}
<1> DEFINE Bad == {S \in SUBSET T : S # {} /\ Foremost(S) = {}}
           Sizes == {Cardinality(S) : S \in Bad}
<1> SUFFICES ASSUME Foremost(T) = {}
             PROVE  FALSE
  OBVIOUS
<1>1. \A S \in SUBSET T : IsFiniteSet(S) /\ Cardinality(S) \in Nat
  <2> SUFFICES ASSUME NEW S \in SUBSET T
               PROVE  IsFiniteSet(S) /\ Cardinality(S) \in Nat
    OBVIOUS
  <2>1. S \subseteq Objects
    BY DEF Created
  <2>2. IsFiniteSet(S)
    BY <2>1, FS_Subset
  <2> QED
    BY <2>2, FS_CardinalityType
<1>2. T \in Bad
  OBVIOUS
<1>3. PICK n \in Sizes : \A m \in Sizes : n <= m
  <2>1. Sizes \subseteq Nat /\ Sizes # {}
    BY <1>1, <1>2
  <2> HIDE DEF Sizes
  <2> QED
    BY <2>1, NatMin
<1>4. PICK S \in Bad : n = Cardinality(S)
  OBVIOUS
<1>5. PICK x \in S : TRUE
  OBVIOUS
<1> DEFINE R == S \ {x}
<1>6. Cardinality(R) = Cardinality(S) - 1 /\ Cardinality(S) \in Nat /\ R \in SUBSET T
  BY <1>1, <1>4, <1>5, FS_RemoveElement
<1>7. R \notin Bad
  <2> SUFFICES ASSUME R \in Bad
               PROVE  FALSE
    OBVIOUS
  <2> HIDE DEF R, Bad
  <2>1. Cardinality(R) \in Sizes
    OBVIOUS
  <2>2. ~ (n <= Cardinality(R))
    BY <1>4, <1>6
  <2> HIDE DEF Sizes
  <2> QED
    BY <1>3, <2>1, <2>2
<1>8. \A o \in S : Authority(item[o]) \in Nat /\ item[o].ts \in Nat
  <2> SUFFICES ASSUME NEW o \in S
               PROVE  Authority(item[o]) \in Nat /\ item[o].ts \in Nat
    OBVIOUS
  <2>1. o \in Created
    BY <1>4
  <2> QED
    BY <2>1, AuthorityType DEF TypeOK, Created, Exists
<1>9. CASE R = {}
  <2>1. S = {x}
    BY <1>5, <1>9
  <2>2. x \in Foremost(S)
    BY <1>8, <2>1 DEF Foremost
  <2> QED
    BY <1>4, <2>2
<1>10. CASE R # {}
  <2>1. PICK y \in Foremost(R) : TRUE
    BY <1>6, <1>7, <1>10
  <2>2. y \in S /\ \A p \in R : \/ Authority(item[p]) < Authority(item[y])
                                \/ Authority(item[p]) = Authority(item[y]) /\ item[p].ts <= item[y].ts
    BY <2>1 DEF Foremost
  <2>3. \A p \in S : p = x \/ p \in R
    OBVIOUS
  <2>4. x \in Foremost(S) \/ y \in Foremost(S)
    <3> HIDE DEF R
    <3> QED
      BY <1>5, <1>8, <2>2, <2>3 DEF Foremost
  <2> QED
    BY <1>4, <2>4
<1> QED
  BY <1>9, <1>10

\* What a statement descends from was made before it.
LEMMA ParentsEarlier ==
  ASSUME TypeOK, Lines, LineageIsExact, NEW os, NEW p \in ParentsOf(os)
  PROVE  p \in Created /\ \E o \in os \cap Created : item[p].ts < item[o].ts
<1>1. PICK r \in rels : r.kind = "derived_from" /\ r.from \in os /\ p = r.to
  BY DEF ParentsOf
<1>2. r.from \in Created /\ r.to \in Created
  BY DEF TypeOK
<1>3. Rel(r.from, r.to, "derived_from", "lineage", FALSE) \in rels
  BY <1>1 DEF Lines
<1>4. Descends(item[r.from], item[r.to])
  BY <1>2, <1>3 DEF LineageIsExact
<1> QED
  BY <1>1, <1>2, <1>4 DEF Descends

\* So was every ancestor.
LEMMA AncestorsEarlier ==
  ASSUME TypeOK, Lines, LineageIsExact, NEW u \in Created, NEW d \in 0..20,
         NEW p \in UpstreamChain(u)[d]
  PROVE  p \in Created /\ item[p].ts < item[u].ts
<1> DEFINE Earlier(q) == q \in Created /\ item[q].ts < item[u].ts
           Bad == {n \in 0..20 : \E q \in UpstreamChain(u)[n] : ~ Earlier(q)}
<1>1. \A o \in Created : item[o].ts \in Nat
  BY DEF TypeOK, Created, Exists
<1>2. ASSUME Bad # {}
      PROVE  FALSE
  <2>1. PICK n \in Bad : \A m \in Bad : n <= m
    <3>1. Bad \subseteq Nat
      OBVIOUS
    <3> HIDE DEF Bad
    <3> QED
      BY <1>2, <3>1, NatMin
  <2>2. PICK q \in UpstreamChain(u)[n] : ~ Earlier(q)
    OBVIOUS
  <2>3. n \in 0..20
    OBVIOUS
  <2>4. CASE n = 0
    <3>1. q \in ParentsOf({u})
      BY <2>2, <2>4, ChainLevels
    <3> QED
      BY <2>2, <3>1, ParentsEarlier
  <2>5. CASE n # 0
    <3>1. n \in 1..20 /\ n - 1 \in 0..20 /\ ~ (n <= n - 1)
      BY <2>3, <2>5
    <3>2. n - 1 \notin Bad
      <4> HIDE DEF Bad
      <4> QED
        BY <2>1, <3>1
    <3>3. \A o \in UpstreamChain(u)[n - 1] : Earlier(o)
      BY <3>1, <3>2
    <3>4. q \in ParentsOf(UpstreamChain(u)[n - 1])
      BY <2>2, <3>1, ChainLevels
    <3>5. q \in Created /\ \E o \in UpstreamChain(u)[n - 1] : o \in Created /\ item[q].ts < item[o].ts
      BY <3>4, ParentsEarlier
    <3> QED
      BY <1>1, <2>2, <3>3, <3>5
  <2> QED
    BY <2>4, <2>5
<1> QED
  BY <1>2

\* Where a value is taken from: the statement itself if it has one, else an earlier one.
LEMMA EffectiveEarlier ==
  ASSUME TypeOK, Lines, LineageIsExact, NEW u \in Created, NEW slot, NEW src \in Effective(u, slot)
  PROVE  IF src = u THEN attrs[u][slot] # None
                    ELSE attrs[u][slot] = None /\ item[src].ts < item[u].ts
<1>0. item[u].ts \in Nat
  BY DEF TypeOK, Created, Exists
<1>1. CASE attrs[u][slot] # None
  BY <1>1 DEF Effective
<1>2. CASE attrs[u][slot] = None
  <2> DEFINE depths == {n \in DOMAIN UpstreamChain(u) : Having(UpstreamChain(u)[n], slot) # {}}
  <2>1. depths # {} /\ src \in Having(UpstreamChain(u)[Min(depths)], slot)
    BY <1>2 DEF Effective
  <2>2. depths \subseteq 0..20
    BY ChainLevels
  <2> HIDE DEF depths
  <2>3. Min(depths) \in 0..20
    <3>1. depths \subseteq Nat
      BY <2>2
    <3> QED
      BY <2>1, <2>2, <3>1, MinIsIn
  <2>4. src \in UpstreamChain(u)[Min(depths)]
    BY <2>1 DEF Having
  <2>5. item[src].ts < item[u].ts
    BY <2>3, <2>4, AncestorsEarlier
  <2>6. src # u
    BY <1>0, <2>5
  <2> QED
    BY <1>2, <2>5, <2>6
<1> QED
  BY <1>1, <1>2

\* What is reported on one subject is founded.
LEMMA GroupFounded ==
  ASSUME TypeOK, Lines, LineageIsExact, NEW e, NEW c, NEW f \in c.fields, f.check = "propagate", NEW s,
         NEW report \in GroupReports(e, c, f, On(Upstream(e, c, f), s), s), NEW g \in report
  PROVE  Founded(e, c, g)
<1> DEFINE group == On(Upstream(e, c, f), s)
           conflict == \E o \in group : status[o] = "conflicting"
           answers == On(Downstream(e, c, f), s)
           counterparts == Foremost(answers)
<1>1. \A o \in group : o \in Created /\ item[o].subject = s
  BY DEF On, Upstream, Stated
<1>2. /\ \A o \in answers : o \in Created /\ item[o].subject = s
      /\ counterparts \subseteq answers /\ Foremost(group) \subseteq group
  BY DEF Foremost, On, Downstream, Stated
<1>3. report \in IF counterparts = {}
        THEN {{Gap(f, None, "object_missing", Authority(item[u]), u, None, FALSE, conflict)} :
                u \in Foremost(group)}
        ELSE UNION {Unions({SlotReports(f, ud[1], ud[2], slot, conflict) : slot \in f.slots}) :
                      ud \in Foremost(group) \X counterparts}
  BY DEF GroupReports
<1> HIDE DEF conflict
<1>4. CASE counterparts = {}
  <2> DEFINE G(u) == Gap(f, None, "object_missing", Authority(item[u]), u, None, FALSE, conflict)
  <2>0. report \in {{G(u)} : u \in Foremost(group)}
    BY <1>3, <1>4
  <2>1. answers = {}
    <3>1. answers \subseteq Created
      BY <1>2
    <3> HIDE DEF answers
    <3> QED
      BY <1>4, <3>1, ForemostExists
  <2> HIDE DEF G, group, answers, counterparts
  <2>2. PICK u \in Foremost(group) : g = G(u)
    BY <2>0
  <2>3. /\ g.outcome = "object_missing" /\ g.up = u /\ g.down = None /\ g.slot = None
        /\ g.inherited = FALSE /\ g.field = f.name
    BY <2>2 DEF Gap, G
  <2>4. item[u].subject = s
    BY <1>1, <1>2, <2>2
  <2>5. NobodyAnswers(e, c, f, g)
    BY <2>1, <2>2, <2>3, <2>4 DEF NobodyAnswers, group, answers
  <2> QED
    BY <2>3, <2>5 DEF Founded
<1>5. CASE counterparts # {}
  <2> DEFINE U(ud) == Unions({SlotReports(f, ud[1], ud[2], slot, conflict) : slot \in f.slots})
  <2>0. report \in UNION {U(ud) : ud \in Foremost(group) \X counterparts}
    BY <1>3, <1>5
  <2> HIDE DEF U, group, answers, counterparts
  <2>1. PICK ud \in Foremost(group) \X counterparts : report \in U(ud)
    BY <2>0
  <2>2. PICK u \in Foremost(group), d \in counterparts : ud[1] = u /\ ud[2] = d
    BY <2>1
  <2>3. u \in Created /\ item[u].subject = s /\ d \in Created /\ item[d].subject = s
    BY <1>1, <1>2, <2>2
  <2>4. report \in Unions({SlotReports(f, u, d, slot, conflict) : slot \in f.slots})
    BY <2>1, <2>2 DEF U
  <2>5. PICK slot \in f.slots : \E x \in SlotReports(f, u, d, slot, conflict) : g \in x
    BY <2>4, UnionsMembers
  <2>6. PICK src \in Effective(u, slot) : g \in SlotGap(f, u, d, slot, src, conflict)
    BY <2>5 DEF SlotReports
  <2>7. /\ g.slot = slot /\ g.up = src /\ g.down = d /\ g.inherited = (src # u)
        /\ g.outcome \in LOSSES
    BY <2>6, SlotGapSays
  <2>8. g.field = f.name /\ g.outcome = Outcome(slot, src, d)
        /\ Outcome(slot, src, d) \notin {"preserved", "equivalent"}
    BY <2>6 DEF SlotGap, Gap
  <2>9. src \in Created /\ item[src].subject = s /\ attrs[src][slot] # None
    BY <2>3, EffectiveAlike
  <2>10. Survives(slot, src, d) => Outcome(slot, src, d) = "stale_reference"
    BY <2>8 DEF Survives, Outcome
  <2>11. IF g.inherited THEN attrs[u][g.slot] = None /\ item[g.up].ts < item[u].ts ELSE u = g.up
    BY <2>3, <2>7, EffectiveEarlier
  <2>12. d \in Foremost(On(Downstream(e, c, f), item[d].subject))
    BY <2>2, <2>3 DEF counterparts, answers
  <2>13. u \in Foremost(On(Upstream(e, c, f), item[d].subject))
    BY <2>2, <2>3 DEF group
  <2>14. Lost(e, c, f, g)
    BY <2>3, <2>7, <2>8, <2>9, <2>10, <2>11, <2>12, <2>13 DEF Lost, SameSubject
  <2> QED
    BY <2>8, <2>14 DEF Founded
<1> QED
  BY <1>4, <1>5

\* What a validation reports is founded.
LEMMA ReportFounded ==
  ASSUME TypeOK, Lines, LineageIsExact, NEW e, NEW c, NEW report \in Reports(e, c), NEW g \in report
  PROVE  Founded(e, c, g)
<1>1. PICK f \in c.fields : \E x \in IF f.check = "propagate" THEN PropagateReports(e, c, f)
                                                            ELSE {PresentReport(e, c, f)} : g \in x
  BY UnionsMembers DEF Reports
<1>2. CASE f.check = "propagate"
  <2>1. PICK x \in PropagateReports(e, c, f) : g \in x
    BY <1>1, <1>2
  <2>2. PICK s : \E y \in GroupReports(e, c, f, On(Upstream(e, c, f), s), s) : g \in y
    BY <2>1, UnionsMembers DEF PropagateReports
  <2> QED
    BY <1>2, <2>2, GroupFounded
<1>3. CASE f.check # "propagate"
  <2>1. g \in PresentReport(e, c, f)
    BY <1>1, <1>3
  <2> DEFINE G(obj, slot) == Gap(f, slot, "missing", Authority(item[obj]), None, obj, FALSE, FALSE)
  <2>2. g \in UNION {{G(obj, slot) : slot \in Lacks(e, c, f, obj)} : obj \in Downstream(e, c, f)}
    BY <2>1 DEF PresentReport
  <2> HIDE DEF G
  <2>3. PICK obj \in Downstream(e, c, f) : g \in {G(obj, slot) : slot \in Lacks(e, c, f, obj)}
    BY <2>2
  <2>4. PICK slot \in Lacks(e, c, f, obj) : g = G(obj, slot)
    BY <2>3
  <2>5. /\ g.outcome = "missing" /\ g.up = None /\ g.down = obj /\ g.slot = slot
        /\ g.field = f.name
    BY <2>4 DEF Gap, G
  <2>6. NotThere(e, c, f, g)
    BY <1>3, <2>3, <2>4, <2>5 DEF NotThere
  <2> QED
    BY <2>5, <2>6 DEF Founded
<1> QED
  BY <1>2, <1>3

\* The gaps of the validations on the ledger as it is are founded.
LEMMA GapsFounded == ASSUME HandoffInv PROVE GapsAreFounded
<1> SUFFICES ASSUME NEW g \in gaps, NEW c \in Contracts, g.run \in current,
                    c.id = validations[g.run].contract
             PROVE  Founded(validations[g.run].entity, c, g.gap)
  BY DEF GapsAreFounded
<1>1. Reported(g.run) \in Reports(validations[g.run].entity, c) /\ g.gap \in Reported(g.run)
  BY ReportedByContract DEF HandoffInv, Reported
<1> QED
  BY <1>1, ReportFounded DEF HandoffInv

-----------------------------------------------------------------------------
(* A report depends on the statements and their relations alone. *)

\* As long as these stay, whatever else happens, so do all reports.
LEMMA ReportsStay ==
  ASSUME UNCHANGED <<item, attrs, status, rels>>
  PROVE  \A e, c : Reports(e, c)' = Reports(e, c)
<1>1. item' = item /\ attrs' = attrs /\ status' = status /\ rels' = rels
  OBVIOUS
<1>2. Created' = Created
  BY <1>1 DEF Created, Exists
<1>3. /\ \A e, st, ty, ss : Stated(e, st, ty, ss)' = Stated(e, st, ty, ss)
      /\ \A os, s : On(os, s)' = On(os, s)
      /\ \A os : Foremost(os)' = Foremost(os)
      /\ \A os : ParentsOf(os)' = ParentsOf(os)
      /\ \A os, slot : Having(os, slot)' = Having(os, slot)
  BY <1>1, <1>2 DEF Stated, On, Foremost, ParentsOf, Having
<1>4. /\ \A e, c, f : Upstream(e, c, f)' = Upstream(e, c, f)
      /\ \A e, c, f : Downstream(e, c, f)' = Downstream(e, c, f)
  BY <1>1, <1>3 DEF Upstream, Downstream
<1>5. \A u : UpstreamChain(u)' = UpstreamChain(u)
  <2> DEFINE P(R, os) == {r.to : r \in {q \in R : q.kind = "derived_from" /\ q.from \in os}}
             W(R, u) == LET chain[depth \in 0..20] ==
                              IF depth = 0 THEN P(R, {u}) ELSE P(R, chain[depth - 1])
                        IN  chain
  <2>1. /\ \A u : UpstreamChain(u) = W(rels, u)
        /\ \A u : UpstreamChain(u)' = W(rels', u)
    BY DEF UpstreamChain, ParentsOf
  <2> HIDE DEF W
  <2> QED
    BY <1>1, <2>1
<1>6. \A u, slot : Effective(u, slot)' = Effective(u, slot)
  BY <1>1, <1>3, <1>5 DEF Effective
<1>7. /\ \A slot, u, d : Generalizes(slot, u, d)' <=> Generalizes(slot, u, d)
      /\ \A slot, u, d : StaleReference(slot, u, d)' <=> StaleReference(slot, u, d)
  BY <1>1, <1>2 DEF Generalizes, StaleReference
<1>8. \A slot, u, d : Outcome(slot, u, d)' = Outcome(slot, u, d)
  BY <1>1, <1>7 DEF Outcome
<1>9. \A f, u, d, slot, src, k : SlotGap(f, u, d, slot, src, k)' = SlotGap(f, u, d, slot, src, k)
  <2> TAKE f, u, d, slot, src, k
  <2>1. Outcome(slot, src, d)' = Outcome(slot, src, d) /\ Authority(item[src])' = Authority(item[src])
    BY <1>1, <1>8
  <2> QED
    BY <2>1, Zenon DEF SlotGap
<1>10. \A f, u, d, slot, k : SlotReports(f, u, d, slot, k)' = SlotReports(f, u, d, slot, k)
  <2> TAKE f, u, d, slot, k
  <2>1. Effective(u, slot)' = Effective(u, slot)
    BY <1>6
  <2>2. ASSUME NEW x
        PROVE  x \in {SlotGap(f, u, d, slot, src, k) : src \in Effective(u, slot)}'
                 <=> x \in {SlotGap(f, u, d, slot, src, k) : src \in Effective(u, slot)}
    <3>1. x \in {SlotGap(f, u, d, slot, src, k) : src \in Effective(u, slot)}'
            <=> \E src \in Effective(u, slot)' : x = SlotGap(f, u, d, slot, src, k)'
      OBVIOUS
    <3>2. x \in {SlotGap(f, u, d, slot, src, k) : src \in Effective(u, slot)}
            <=> \E src \in Effective(u, slot) : x = SlotGap(f, u, d, slot, src, k)
      OBVIOUS
    <3>3. \A src : SlotGap(f, u, d, slot, src, k)' = SlotGap(f, u, d, slot, src, k)
      BY <1>9
    <3> QED
      BY <2>1, <3>1, <3>2, <3>3
  <2>3. {SlotGap(f, u, d, slot, src, k) : src \in Effective(u, slot)}'
          = {SlotGap(f, u, d, slot, src, k) : src \in Effective(u, slot)}
    BY <2>2, Zenon
  <2> QED
    BY <2>1, <2>3, Zenon DEF SlotReports
<1>11. \A e, c, f, group, s : GroupReports(e, c, f, group, s)' = GroupReports(e, c, f, group, s)
  <2> TAKE e, c, f, group, s
  <2> DEFINE conflict == \E o \in group : status[o] = "conflicting"
             counterparts == Foremost(On(Downstream(e, c, f), s))
  <2>1. conflict' = conflict /\ counterparts' = counterparts /\ Foremost(group)' = Foremost(group)
    BY <1>1, <1>3, <1>4
  <2>2. ASSUME NEW u, NEW d, NEW k
        PROVE  {SlotReports(f, u, d, slot, k) : slot \in f.slots}'
                 = {SlotReports(f, u, d, slot, k) : slot \in f.slots}
    <3>1. ASSUME NEW x
          PROVE  x \in {SlotReports(f, u, d, slot, k) : slot \in f.slots}'
                   <=> x \in {SlotReports(f, u, d, slot, k) : slot \in f.slots}
      <4>1. x \in {SlotReports(f, u, d, slot, k) : slot \in f.slots}'
              <=> \E slot \in f.slots : x = SlotReports(f, u, d, slot, k)'
        OBVIOUS
      <4>2. x \in {SlotReports(f, u, d, slot, k) : slot \in f.slots}
              <=> \E slot \in f.slots : x = SlotReports(f, u, d, slot, k)
        OBVIOUS
      <4>3. \A slot : SlotReports(f, u, d, slot, k)' = SlotReports(f, u, d, slot, k)
        BY <1>10
      <4> QED
        BY <4>1, <4>2, <4>3
    <3> QED
      BY <3>1, Zenon
  <2> HIDE DEF conflict, counterparts
  <2>3. ASSUME NEW ud
        PROVE  Unions({SlotReports(f, ud[1], ud[2], slot, conflict) : slot \in f.slots})'
                 = Unions({SlotReports(f, ud[1], ud[2], slot, conflict) : slot \in f.slots})
    <3>1. {SlotReports(f, ud[1], ud[2], slot, conflict) : slot \in f.slots}'
            = {SlotReports(f, ud[1], ud[2], slot, conflict) : slot \in f.slots}
      <4>1. ASSUME NEW x
            PROVE  x \in {SlotReports(f, ud[1], ud[2], slot, conflict) : slot \in f.slots}'
                     <=> x \in {SlotReports(f, ud[1], ud[2], slot, conflict) : slot \in f.slots}
        <5>1. x \in {SlotReports(f, ud[1], ud[2], slot, conflict) : slot \in f.slots}'
                <=> \E slot \in f.slots : x = SlotReports(f, ud[1], ud[2], slot, conflict)'
          OBVIOUS
        <5>2. x \in {SlotReports(f, ud[1], ud[2], slot, conflict) : slot \in f.slots}
                <=> \E slot \in f.slots : x = SlotReports(f, ud[1], ud[2], slot, conflict)
          OBVIOUS
        <5>3. \A slot : SlotReports(f, ud[1], ud[2], slot, conflict)'
                         = SlotReports(f, ud[1], ud[2], slot, conflict)
          BY <1>10, <2>1
        <5> QED
          BY <5>1, <5>2, <5>3
      <4> QED
        BY <4>1, Zenon
    <3> QED
      BY <3>1, Zenon
  <2> DEFINE families(ud) == {SlotReports(f, ud[1], ud[2], slot, conflict) : slot \in f.slots}
             compared == {Unions(families(ud)) : ud \in Foremost(group) \X counterparts}
             alone(u) == {Gap(f, None, "object_missing", Authority(item[u]), u, None, FALSE, conflict)}
             missing == {alone(u) : u \in Foremost(group)}
  <2>4. GroupReports(e, c, f, group, s) = IF counterparts = {} THEN missing ELSE UNION compared
    BY Zenon DEF GroupReports, conflict, counterparts
  <2>5. GroupReports(e, c, f, group, s)' = IF counterparts' = {} THEN missing' ELSE UNION compared'
    BY Zenon DEF GroupReports, conflict, counterparts
  <2>6. \A u : alone(u)' = alone(u)
    BY <1>1, <2>1
  <2>7. \A ud : Unions(families(ud))' = Unions(families(ud))
    BY <2>3
  <2> HIDE DEF families, alone
  <2>8. compared' = compared
    <3>1. \A x : x \in compared' <=> \E ud \in (Foremost(group) \X counterparts)' :
                                       x = Unions(families(ud))'
      OBVIOUS
    <3>2. \A x : x \in compared <=> \E ud \in Foremost(group) \X counterparts :
                                      x = Unions(families(ud))
      OBVIOUS
    <3>3. (Foremost(group) \X counterparts)' = Foremost(group) \X counterparts
      BY <2>1, Zenon
    <3>4. \A x : x \in compared' <=> x \in compared
      BY <2>7, <3>1, <3>2, <3>3
    <3> HIDE DEF compared
    <3> QED
      BY <3>4, Zenon
  <2>9. missing' = missing
    <3>1. \A x : x \in missing' <=> \E u \in Foremost(group)' : x = alone(u)'
      OBVIOUS
    <3>2. \A x : x \in missing <=> \E u \in Foremost(group) : x = alone(u)
      OBVIOUS
    <3>3. \A x : x \in missing' <=> x \in missing
      BY <2>1, <2>6, <3>1, <3>2
    <3> HIDE DEF missing
    <3> QED
      BY <3>3, Zenon
  <2> HIDE DEF compared, missing
  <2> QED
    BY <2>1, <2>4, <2>5, <2>8, <2>9, Zenon
<1>12. \A e, c, f : PropagateReports(e, c, f)' = PropagateReports(e, c, f)
  <2> TAKE e, c, f
  <2> DEFINE upstream == Upstream(e, c, f)
             subjects == {item[o].subject : o \in upstream}
             groups == {GroupReports(e, c, f, On(upstream, s), s) : s \in subjects}
  <2>1. upstream' = upstream
    BY <1>4
  <2> HIDE DEF upstream
  <2>2. subjects' = subjects
    <3>1. \A x : x \in subjects' <=> \E o \in upstream' : x = item'[o].subject
      OBVIOUS
    <3>2. \A x : x \in subjects <=> \E o \in upstream : x = item[o].subject
      OBVIOUS
    <3>3. \A x : x \in subjects' <=> x \in subjects
      BY <1>1, <2>1, <3>1, <3>2
    <3> HIDE DEF subjects
    <3> QED
      BY <3>3, Zenon
  <2> HIDE DEF subjects
  <2>3. groups' = groups
    <3>1. \A x : x \in groups' <=> \E s \in subjects' : x = GroupReports(e, c, f, On(upstream, s), s)'
      OBVIOUS
    <3>2. \A x : x \in groups <=> \E s \in subjects : x = GroupReports(e, c, f, On(upstream, s), s)
      OBVIOUS
    <3>3. \A s : GroupReports(e, c, f, On(upstream, s), s)' = GroupReports(e, c, f, On(upstream, s), s)
      <4> TAKE s
      <4>1. On(upstream, s)' = On(upstream, s)
        BY <1>3, <2>1
      <4> QED
        BY <1>11, <4>1
    <3>4. \A x : x \in groups' <=> x \in groups
      BY <2>2, <3>1, <3>2, <3>3
    <3> HIDE DEF groups
    <3> QED
      BY <3>4, Zenon
  <2>4. PropagateReports(e, c, f) = Unions(groups) /\ PropagateReports(e, c, f)' = Unions(groups')
    BY Zenon DEF PropagateReports, upstream, subjects
  <2> QED
    BY <2>3, <2>4, Zenon
<1>13. \A e, c, f, obj : Lacks(e, c, f, obj)' = Lacks(e, c, f, obj)
  <2> TAKE e, c, f, obj
  <2>1. /\ ParentsOf({obj})' = ParentsOf({obj})
        /\ Stated(e, c.to, {"dependency"}, CONTEXT_STATUSES)'
             = Stated(e, c.to, {"dependency"}, CONTEXT_STATUSES)
    BY <1>3
  <2> QED
    BY <1>1, <2>1, Zenon DEF Lacks
<1>14. \A e, c, f : PresentReport(e, c, f)' = PresentReport(e, c, f)
  <2> TAKE e, c, f
  <2> DEFINE lost(obj) == {Gap(f, slot, "missing", Authority(item[obj]), None, obj, FALSE, FALSE) :
                             slot \in Lacks(e, c, f, obj)}
  <2>1. \A obj : lost(obj)' = lost(obj)
    <3> TAKE obj
    <3>1. ASSUME NEW x
          PROVE  x \in lost(obj)' <=> x \in lost(obj)
      <4>1. x \in lost(obj)'
              <=> \E slot \in Lacks(e, c, f, obj)' :
                    x = Gap(f, slot, "missing", Authority(item[obj])', None, obj, FALSE, FALSE)
        OBVIOUS
      <4>2. x \in lost(obj)
              <=> \E slot \in Lacks(e, c, f, obj) :
                    x = Gap(f, slot, "missing", Authority(item[obj]), None, obj, FALSE, FALSE)
        OBVIOUS
      <4>3. Authority(item[obj])' = Authority(item[obj]) /\ Lacks(e, c, f, obj)' = Lacks(e, c, f, obj)
        BY <1>1, <1>13
      <4> QED
        BY <4>1, <4>2, <4>3
    <3> HIDE DEF lost
    <3> QED
      BY <3>1, Zenon
  <2>2. Downstream(e, c, f)' = Downstream(e, c, f)
    BY <1>4
  <2> DEFINE all == {lost(obj) : obj \in Downstream(e, c, f)}
  <2>3. PresentReport(e, c, f) = UNION all /\ PresentReport(e, c, f)' = UNION all'
    BY Zenon DEF PresentReport
  <2> HIDE DEF lost
  <2>4. all' = all
    <3>1. \A x : x \in all' <=> \E obj \in Downstream(e, c, f)' : x = lost(obj)'
      OBVIOUS
    <3>2. \A x : x \in all <=> \E obj \in Downstream(e, c, f) : x = lost(obj)
      OBVIOUS
    <3>3. \A x : x \in all' <=> x \in all
      BY <2>1, <2>2, <3>1, <3>2
    <3> HIDE DEF all
    <3> QED
      BY <3>3, Zenon
  <2> HIDE DEF all
  <2> QED
    BY <2>3, <2>4, Zenon
<1> TAKE e, c
<1> DEFINE families == {IF f.check = "propagate" THEN PropagateReports(e, c, f)
                                                 ELSE {PresentReport(e, c, f)} : f \in c.fields}
<1>15. families' = families
  <2>1. \A x : x \in families'
               <=> \E f \in c.fields : x = IF f.check = "propagate" THEN PropagateReports(e, c, f)'
                                                                    ELSE {PresentReport(e, c, f)'}
    OBVIOUS
  <2>2. \A x : x \in families
               <=> \E f \in c.fields : x = IF f.check = "propagate" THEN PropagateReports(e, c, f)
                                                                    ELSE {PresentReport(e, c, f)}
    OBVIOUS
  <2>3. \A x : x \in families' <=> x \in families
    BY <1>12, <1>14, <2>1, <2>2
  <2> HIDE DEF families
  <2> QED
    BY <2>3, Zenon
<1>16. Reports(e, c) = Unions(families) /\ Reports(e, c)' = Unions(families')
  BY Zenon DEF Reports
<1> QED
  BY <1>15, <1>16, Zenon

-----------------------------------------------------------------------------
(* Every step keeps the invariant. *)

\* A relation that a Process step adds and that is lineage or a conflict joins the new
\* object with one on its subject.
LEMMA NewLines ==
  ASSUME NEW n \in Objects, NEW i \in Items, Process(n, i),
         NEW r \in rels', r \notin rels, r.kind \in {"derived_from", "contradicts"}
  PROVE  \E o \in Created :
           /\ SameSubject(item[o], i)
           /\ \/ r = Rel(n, o, "contradicts", "lifecycle", TRUE)
              \/ r = Rel(n, o, "derived_from", "lineage", FALSE)
              \/ r = Rel(o, n, "derived_from", "lineage", FALSE)
<1>1. r \notin R3Rels(n, ToSupersede(i)) /\ r \notin DedupAdds(n, i)
  BY DEF R3Rels, DedupAdds, Rel
<1>2. r \in ConflictRels(n, ToConflict(i)) \/ r \in LineageRels(n, i)
  BY <1>1, ProcessRels
<1>3. CASE r \in ConflictRels(n, ToConflict(i))
  <2>1. PICK o \in ToConflict(i) : r = Rel(n, o, "contradicts", "lifecycle", TRUE)
    BY <1>3 DEF ConflictRels
  <2>2. o \in Created /\ SameSubject(item[o], i)
    BY SiblingsSplit DEF Siblings
  <2> QED
    BY <2>1, <2>2
<1>4. CASE r \in LineageRels(n, i)
  BY <1>4 DEF LineageRels, Descends, SameSubject
<1> QED
  BY <1>2, <1>3, <1>4

\* Every step of the ledger keeps its lines on one subject, and the objects there are.
LEMMA LinesStep == TypeOK /\ Lines /\ [Next]_vars => Lines' /\ Created \subseteq Created'
<1> SUFFICES ASSUME TypeOK, Lines, [Next]_vars
             PROVE  Lines' /\ Created \subseteq Created'
  OBVIOUS
<1>0. \A r \in rels : r.from \in Created /\ r.to \in Created
  BY DEF TypeOK
<1>1. ASSUME NEW n \in Objects, NEW i \in Items, Process(n, i)
      PROVE  Lines' /\ Created \subseteq Created'
  <2>0. Created \subseteq Created'
    BY <1>1, ProcessMoves
  <2> SUFFICES ASSUME NEW r \in rels', r.kind \in {"derived_from", "contradicts"}
               PROVE  /\ r.kind = "derived_from" => r = Rel(r.from, r.to, "derived_from", "lineage", FALSE)
                      /\ SameSubject(item'[r.from], item'[r.to])
    BY <2>0 DEF Lines
  <2>1. CASE r \in rels
    <3>1. item'[r.from] = item[r.from] /\ item'[r.to] = item[r.to]
      BY <1>0, <1>1, <2>1, ProcessMoves
    <3> QED
      BY <2>1, <3>1 DEF Lines
  <2>2. CASE r \notin rels
    <3>1. PICK o \in Created :
             /\ SameSubject(item[o], i)
             /\ \/ r = Rel(n, o, "contradicts", "lifecycle", TRUE)
                \/ r = Rel(n, o, "derived_from", "lineage", FALSE)
                \/ r = Rel(o, n, "derived_from", "lineage", FALSE)
      BY <1>1, <2>2, NewLines
    <3>2. item'[o] = item[o] /\ item'[n] = i
      BY <1>1, ProcessMoves
    <3> QED
      BY <3>1, <3>2 DEF Rel, SameSubject
  <2> QED
    BY <2>1, <2>2
<1>2. ASSUME NEW o \in Objects, Review(o)
      PROVE  Lines' /\ Created \subseteq Created'
  BY <1>2, ReviewRecords DEF Lines, Created, Exists
<1>3. ASSUME NEW r \in rels, NEW keep \in Verdicts(r), Resolve(r, keep)
      PROVE  Lines' /\ Created \subseteq Created'
  <2>1. item' = item
    BY <1>3 DEF Resolve
  <2> SUFFICES ASSUME NEW q \in rels', q.kind \in {"derived_from", "contradicts"}
               PROVE  /\ q.kind = "derived_from" => q = Rel(q.from, q.to, "derived_from", "lineage", FALSE)
                      /\ SameSubject(item[q.from], item[q.to])
    BY <2>1 DEF Lines, Created, Exists
  <2>2. q \in rels \/ q = [r EXCEPT !.open = FALSE]
    BY <1>3, ResolveRels DEF Rel
  <2>3. CASE q \in rels
    BY <2>3 DEF Lines
  <2>4. CASE q = [r EXCEPT !.open = FALSE]
    <3>1. r.kind \in {"contradicts", "duplicate_of"}
      BY <1>3, ResolveRels
    <3>2. q.from = r.from /\ q.to = r.to /\ q.kind = r.kind
      BY <2>4 DEF TypeOK
    <3> QED
      BY <3>1, <3>2 DEF Lines
  <2> QED
    BY <2>2, <2>3, <2>4
<1>4. CASE UNCHANGED vars
  BY <1>4 DEF vars, Lines, Created, Exists
<1> QED
  BY <1>1, <1>2, <1>3, <1>4 DEF Next, Pipeline, Human, Review

\* No validation has been run at first.
LEMMA HandoffStarts == HandoffInit => HandoffInv
<1> SUFFICES ASSUME HandoffInit
             PROVE  HandoffInv
  OBVIOUS
<1>1. TypeOK
  BY TypeInit DEF HandoffInit
<1>2. ConflictIsListed /\ LineageIsExact /\ Lines
  <2>1. Created = {} /\ rels = {} /\ \A o \in Objects : status[o] # "conflicting"
    BY DEF HandoffInit, Init, Created, Exists, CONTEXT_STATUSES
  <2> QED
    BY <2>1 DEF ConflictIsListed, LineageIsExact, Lines
<1>3. HandoffTypeOK /\ CurrentIsFaithful
  BY DEF HandoffInit, HandoffTypeOK, CurrentIsFaithful
<1>4. \E S : validations \in Seq(S)
  <2>1. validations \in Seq({})
    BY DEF HandoffInit
  <2> QED
    BY <2>1
<1>5. \A g \in gaps : DOMAIN g = {"run", "gap", "status"}
  BY DEF HandoffInit
<1> QED
  BY <1>1, <1>2, <1>3, <1>4, <1>5 DEF HandoffInv

\* A validation reports on the ledger as it is, and leaves what earlier ones reported.
LEMMA ValidateKeeps ==
  ASSUME HandoffInv, NEW e, NEW c \in Contracts, Validate(e, c)
  PROVE  HandoffInv'
<1>1. item' = item /\ attrs' = attrs /\ status' = status /\ rels' = rels
  BY DEF Validate, vars
<1>2. TypeOK' /\ ConflictIsListed' /\ LineageIsExact' /\ Lines' /\ Created' = Created
  <2>1. [Next]_vars
    BY DEF Validate
  <2> QED
    BY <1>1, <2>1, TypeStep, ConflictStep, LineageStep, LinesStep DEF HandoffInv, Created, Exists
<1>3. \A x, k : Reports(x, k)' = Reports(x, k)
  BY <1>1, ReportsStay
<1>14. PICK run : run = Len(validations) + 1
  OBVIOUS
<1> DEFINE New(g) == [run |-> Len(validations) + 1, gap |-> g, status |-> "open"]
<1>4. PICK S : validations \in Seq(S)
  BY DEF HandoffInv
<1> DEFINE Record(report) == [entity |-> e, contract |-> c.id, hash |-> InputHash(e, c),
                              total |-> Cardinality(report),
                              inherited |-> Cardinality({g \in report : g.inherited})]
<1>5. PICK report \in Reports(e, c) :
         /\ validations' = Append(validations, Record(report))
         /\ gaps' = gaps \cup {New(g) : g \in report}
         /\ current' = current \cup {run}
  <2>1. PICK report \in Reports(e, c) :
           /\ validations' = Append(validations, Record(report))
           /\ gaps' = gaps \cup {New(g) : g \in report}
           /\ current' = current \cup {Len(validations) + 1}
    BY Zenon DEF Validate
  <2> HIDE DEF New, Record
  <2> QED
    BY <1>14, <2>1
<1>6. PICK row : /\ row.entity = e /\ row.contract = c.id
                 /\ validations' = Append(validations, row)
                 /\ gaps' = gaps \cup {New(g) : g \in report}
                 /\ current' = current \cup {run}
  BY <1>5
<1> HIDE DEF Record
<1>7. /\ validations' \in Seq(S \cup {row})
      /\ Len(validations') = run /\ validations'[run] = row
      /\ \A v \in 1..Len(validations) : validations'[v] = validations[v]
      /\ Len(validations) \in Nat
  <2>1. validations \in Seq(S \cup {row})
    BY <1>4
  <2> QED
    BY <1>6, <1>14, <2>1
<1>8. \A h : h \in gaps' <=> h \in gaps \/ \E g \in report : h = New(g)
  BY <1>6
<1>9. /\ current \subseteq 1..Len(validations)
      /\ \A h \in gaps : h.run \in 1..Len(validations)
      /\ run \in 1..run /\ run \notin 1..Len(validations) /\ 1..Len(validations) \subseteq 1..run
      /\ \A g : /\ New(g).run = run /\ New(g).gap = g /\ New(g).status = "open"
              /\ DOMAIN New(g) = {"run", "gap", "status"}
  BY <1>7, <1>14 DEF HandoffInv, HandoffTypeOK
<1> HIDE DEF New
<1>10. HandoffTypeOK'
  <2>1. current' \subseteq 1..Len(validations')
    BY <1>6, <1>7, <1>9
  <2> DEFINE Fine(h) == /\ h.run \in 1..Len(validations')
                        /\ h.status \in GAP_STATUSES
                        /\ h.gap.outcome \in GAP_OUTCOMES
                        /\ {h.gap.up, h.gap.down} \subseteq Created \cup {None}
                        /\ {h.gap.up, h.gap.down} # {None}
  <2>2. \A h \in gaps : Fine(h)
    BY <1>7, <1>9 DEF HandoffInv, HandoffTypeOK
  <2>3. \A g \in report : Fine(New(g))
    <3> TAKE g \in report
    <3>1. Grounded(c, g)
      BY ReportGrounded DEF HandoffInv
    <3> QED
      BY <1>7, <1>9, <3>1 DEF Grounded, GAP_STATUSES
  <2>4. (\A h \in gaps' : Fine(h)) => HandoffTypeOK'
    BY <1>2, <2>1 DEF HandoffTypeOK
  <2> HIDE DEF Fine
  <2> QED
    BY <1>8, <2>2, <2>3, <2>4
<1>11. \A v \in current : Reported(v)' = Reported(v)
  <2> SUFFICES ASSUME NEW v \in current
               PROVE  Reported(v)' = Reported(v)
    OBVIOUS
  <2>1. v # run
    BY <1>7, <1>9
  <2>2. \A h : h \in gaps' /\ h.run = v <=> h \in gaps /\ h.run = v
    BY <1>8, <1>9, <2>1
  <2>3. {h \in gaps : h.run = v}' = {h \in gaps : h.run = v}
    BY <2>2
  <2> QED
    BY <2>3, Zenon DEF Reported
<1>12. Reported(run)' = report
  <2>1. \A x : x \in Reported(run)' <=> \E h \in gaps' : h.run = run /\ x = h.gap
    BY DEF Reported
  <2>2. \A h : h \in gaps' /\ h.run = run <=> \E g \in report : h = New(g)
    BY <1>8, <1>9
  <2>3. \A x : x \in Reported(run)' <=> x \in report
    BY <1>9, <2>1, <2>2
  <2>4. Reported(run)' = {x \in Reported(run)' : TRUE}
    BY Zenon
  <2> QED
    BY <2>3
<1>15. \A h \in gaps' : DOMAIN h = {"run", "gap", "status"}
  BY <1>8, <1>9 DEF HandoffInv
<1>13. CurrentIsFaithful'
  <2> SUFFICES ASSUME NEW v \in current'
               PROVE  \E k \in Contracts : /\ k.id = validations'[v].contract
                                           /\ Reported(v)' \in Reports(validations[v].entity, k)'
    BY DEF CurrentIsFaithful
  <2>1. PICK x : x = validations'[v].entity
    OBVIOUS
  <2>2. \A k : Reports(validations[v].entity, k)' = Reports(x, k)
    BY <1>3, <2>1
  <2>3. CASE v = run
    <3>1. x = e /\ validations'[v].contract = c.id /\ Reported(v)' = report
      BY <1>6, <1>7, <1>12, <2>1, <2>3
    <3>2. Reports(validations[v].entity, c)' = Reports(e, c)
      BY <2>2, <3>1
    <3>3. Reported(v)' \in Reports(validations[v].entity, c)'
      BY <3>1, <3>2
    <3> QED
      BY <3>1, <3>3
  <2>4. CASE v # run
    <3>1. v \in current /\ v \in 1..Len(validations)
      BY <1>6, <1>9, <2>4
    <3>2. validations'[v] = validations[v] /\ Reported(v)' = Reported(v)
      BY <1>7, <1>11, <3>1
    <3>3. \E k \in Contracts : k.id = validations[v].contract /\ Reported(v) \in Reports(validations[v].entity, k)
      BY <3>1 DEF HandoffInv, CurrentIsFaithful
    <3> QED
      BY <2>1, <2>2, <3>2, <3>3
  <2> QED
    BY <2>3, <2>4
<1> QED
  BY <1>2, <1>7, <1>10, <1>13, <1>15 DEF HandoffInv

\* What a validation reported stays right while its ledger stays.
LEMMA FaithLasts ==
  ASSUME CurrentIsFaithful, UNCHANGED <<item, attrs, status, rels, validations, current>>,
         \A v : Reported(v)' = Reported(v)
  PROVE  CurrentIsFaithful'
<1>1. \A x, k : Reports(x, k)' = Reports(x, k)
  BY ReportsStay
<1> SUFFICES ASSUME NEW v \in current
             PROVE  \E k \in Contracts : /\ k.id = validations[v].contract
                                         /\ Reported(v)' \in Reports(validations[v].entity, k)'
  BY DEF CurrentIsFaithful
<1>2. PICK x : x = validations[v].entity
  OBVIOUS
<1>3. \A k : Reports(validations[v].entity, k)' = Reports(x, k)
  BY <1>1, <1>2
<1>4. PICK k \in Contracts : k.id = validations[v].contract /\ Reported(v) \in Reports(x, k)
  BY <1>2 DEF CurrentIsFaithful
<1> QED
  BY <1>3, <1>4

\* A review closes a gap, and changes nothing a validation reported.
LEMMA ReviewKeeps ==
  ASSUME HandoffInv, NEW g \in gaps, NEW action \in {"confirm", "ignore"}, ReviewGap(g, action)
  PROVE  HandoffInv'
<1>1. /\ item' = item /\ attrs' = attrs /\ status' = status /\ rels' = rels
      /\ validTo' = validTo /\ version' = version /\ confirmed' = confirmed /\ history' = history
      /\ validations' = validations /\ current' = current
  BY DEF ReviewGap
<1>2. Created' = Created
  BY <1>1 DEF Created, Exists
<1>3. TypeOK'
  BY <1>1, <1>2 DEF HandoffInv, TypeOK, Exists
<1>4. ConflictIsListed' /\ LineageIsExact' /\ Lines'
  BY <1>1, <1>2 DEF HandoffInv, ConflictIsListed, LineageIsExact, Lines
<1>5. PICK h : /\ h = [g EXCEPT !.status = ReviewedStatus(action)]
               /\ gaps' = (gaps \ {g}) \cup {h}
  BY DEF ReviewGap
<1>6. /\ h.run = g.run /\ h.gap = g.gap /\ h.status \in GAP_STATUSES
      /\ DOMAIN h = {"run", "gap", "status"}
  BY <1>5 DEF HandoffInv, ReviewedStatus, GAP_STATUSES
<1>7. HandoffTypeOK'
  <2> DEFINE Fine(k) == /\ k.run \in 1..Len(validations)
                        /\ k.status \in GAP_STATUSES
                        /\ k.gap.outcome \in GAP_OUTCOMES
                        /\ {k.gap.up, k.gap.down} \subseteq Created \cup {None}
                        /\ {k.gap.up, k.gap.down} # {None}
  <2>1. current \subseteq 1..Len(validations) /\ \A k \in gaps : Fine(k)
    BY DEF HandoffInv, HandoffTypeOK
  <2>2. Fine(h)
    <3>1. Fine(g)
      BY <2>1
    <3>2. /\ h.run \in 1..Len(validations) /\ h.gap.outcome \in GAP_OUTCOMES
          /\ {h.gap.up, h.gap.down} \subseteq Created \cup {None}
          /\ {h.gap.up, h.gap.down} # {None}
      BY <1>6, <3>1, Zenon
    <3> QED
      BY <1>6, <3>2, Zenon
  <2>3. (\A k \in gaps' : Fine(k)) => HandoffTypeOK'
    BY <1>1, <1>2, <2>1 DEF HandoffTypeOK
  <2> HIDE DEF Fine
  <2> QED
    BY <1>5, <2>1, <2>2, <2>3
<1>10. \A k : k \in gaps' <=> (k \in gaps /\ k # g) \/ k = h
  BY <1>5
<1>8. \A v : Reported(v)' = Reported(v)
  <2> TAKE v
  <2>1. \A x : x \in Reported(v)' <=> \E k \in gaps' : k.run = v /\ x = k.gap
    BY DEF Reported
  <2>2. \A x : x \in Reported(v) <=> \E k \in gaps : k.run = v /\ x = k.gap
    BY DEF Reported
  <2>3. \A x : x \in Reported(v)' <=> x \in Reported(v)
    BY <1>6, <1>10, <2>1, <2>2
  <2> QED
    BY <2>3, Zenon DEF Reported
<1>9. CurrentIsFaithful'
  BY <1>1, <1>8, FaithLasts DEF HandoffInv
<1>11. \A k \in gaps' : DOMAIN k = {"run", "gap", "status"}
  BY <1>6, <1>10 DEF HandoffInv
<1> QED
  BY <1>1, <1>3, <1>4, <1>7, <1>9, <1>11 DEF HandoffInv

\* A change of the ledger leaves no validation current.
LEMMA EvolveKeeps ==
  ASSUME HandoffInv, Next, current' = {}, UNCHANGED <<validations, gaps>>
  PROVE  HandoffInv'
<1>1. TypeOK' /\ ConflictIsListed' /\ LineageIsExact' /\ Lines' /\ Created \subseteq Created'
  BY TypeStep, ConflictStep, LineageStep, LinesStep DEF HandoffInv
<1>2. HandoffTypeOK'
  <2>1. \A g \in gaps : /\ g.run \in 1..Len(validations)
                        /\ g.status \in GAP_STATUSES
                        /\ g.gap.outcome \in GAP_OUTCOMES
                        /\ {g.gap.up, g.gap.down} \subseteq Created' \cup {None}
                        /\ {g.gap.up, g.gap.down} # {None}
    <3> TAKE g \in gaps
    <3>1. /\ g.run \in 1..Len(validations)
          /\ g.status \in GAP_STATUSES
          /\ g.gap.outcome \in GAP_OUTCOMES
          /\ {g.gap.up, g.gap.down} \subseteq Created \cup {None}
          /\ {g.gap.up, g.gap.down} # {None}
      BY DEF HandoffInv, HandoffTypeOK
    <3>2. {g.gap.up, g.gap.down} \subseteq Created' \cup {None}
      BY <1>1, <3>1
    <3> QED
      BY <3>1, <3>2
  <2> QED
    BY <2>1 DEF HandoffTypeOK
<1>3. CurrentIsFaithful' /\ (\E S : validations \in Seq(S))' /\ \A g \in gaps' : DOMAIN g = {"run", "gap", "status"}
  BY DEF HandoffInv, CurrentIsFaithful
<1> QED
  BY <1>1, <1>2, <1>3 DEF HandoffInv

\* The invariant holds in every run.
LEMMA HandoffInvariant == HandoffSpec => []HandoffInv
<1>1. HandoffInv /\ [HandoffNext]_handoffVars => HandoffInv'
  <2> SUFFICES ASSUME HandoffInv, [HandoffNext]_handoffVars
               PROVE  HandoffInv'
    OBVIOUS
  <2>1. CASE Evolve
    BY <2>1, EvolveKeeps DEF Evolve
  <2>2. ASSUME NEW e \in Entities, NEW c \in Contracts, Validate(e, c)
        PROVE  HandoffInv'
    BY <2>2, ValidateKeeps
  <2>3. ASSUME NEW g \in gaps, NEW action \in {"confirm", "ignore"}, ReviewGap(g, action)
        PROVE  HandoffInv'
    BY <2>3, ReviewKeeps
  <2>4. CASE UNCHANGED handoffVars
    <3>1. [Next]_vars /\ UNCHANGED <<item, attrs, status, rels, validations, gaps, current>>
      BY <2>4 DEF handoffVars, vars
    <3>2. TypeOK' /\ ConflictIsListed' /\ LineageIsExact' /\ Lines' /\ Created' = Created
      BY <3>1, TypeStep, ConflictStep, LineageStep, LinesStep DEF HandoffInv, Created, Exists
    <3>3. HandoffTypeOK'
      BY <3>1, <3>2 DEF HandoffInv, HandoffTypeOK
    <3>4. \A v : Reported(v)' = Reported(v)
      BY <3>1 DEF Reported
    <3>5. CurrentIsFaithful'
      BY <3>1, <3>4, FaithLasts DEF HandoffInv
    <3> QED
      BY <3>1, <3>2, <3>3, <3>5 DEF HandoffInv
  <2> QED
    BY <2>1, <2>2, <2>3, <2>4 DEF HandoffNext
<1> QED
  BY <1>1, HandoffStarts, PTL DEF HandoffSpec

-----------------------------------------------------------------------------
(* The theorems: the properties of the run, in every run. *)

\* Every gap belongs to a validation and names objects that exist.
THEOREM HandoffTypes == HandoffSpec => []HandoffTypeOK
<1>1. HandoffInv => HandoffTypeOK
  BY DEF HandoffInv
<1> QED
  BY <1>1, HandoffInvariant, PTL

\* No loss slips through the two checks of a chain of handoffs.
THEOREM NoLossUnseen == HandoffSpec => []NoSilentLoss
  BY NoBlindSpot, HandoffInvariant, PTL

\* A loss keeps surfacing at the handoffs after the one that caused it.
THEOREM LossSurfaces == HandoffSpec => []LossKeepsSurfacing
  BY LossResurfaces, HandoffInvariant, PTL

\* A gap tagged with a conflict leads to a conflict that GET /conflicts lists.
THEOREM TaggedListed == HandoffSpec => []TaggedIsListed
  BY TaggedIsOpen, HandoffInvariant, PTL

\* No gap without a loss, and each is blamed on a statement that has what was lost.
THEOREM GapsAreLosses == HandoffSpec => []GapsAreFounded
  BY GapsFounded, HandoffInvariant, PTL

\* A validation made on the ledger as it is would say the same again: reviewing its gaps
\* and validating other entities and contracts take nothing from it and add nothing.
THEOREM ReportsStand == HandoffSpec => []CurrentIsFaithful
<1>1. HandoffInv => CurrentIsFaithful
  BY DEF HandoffInv
<1> QED
  BY <1>1, HandoffInvariant, PTL
=============================================================================
