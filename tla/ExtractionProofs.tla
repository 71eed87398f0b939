-------------------------- MODULE ExtractionProofs ---------------------------
(***************************************************************************)
(* Proofs about module Extraction, for any sources, workers, answers and   *)
(* similarity.                                                             *)
(*                                                                         *)
(* What makes the entities sound is that a job's rows and the committed    *)
(* ones are unique together (WorkOk) and no two jobs' rows clash (Apart):  *)
(* the flush ensures both, never the look-up.  An object is grounded in a  *)
(* confirmed alias of its name, which stays.                               *)
(***************************************************************************)
EXTENDS ExtractionHistory, SequenceTheorems, FiniteSetTheorems, TLAPS

\* One entity of a slug, one confirmed row of an alias.
UniqueIn(es, as) ==
    /\ \A d, e \in es : d.slug = e.slug => d = e
    /\ \A a, b \in as :
         a.alias = b.alias /\ a.status = "confirmed" /\ b.status = "confirmed" => a = b

\* A confirmed alias row says that the name is the entity's.
Grounded(name, e, as) ==
    \E r \in as : r.status = "confirmed" /\ r.alias = Alias[name] /\ r.entity = e

\* What holds of a job in progress, with the committed entities and aliases.
WorkOk(r, es, as) ==
    /\ r.step \notin {"extract", "asked"} => r.told = r.hint /\ r.from # None
    /\ \A o \in r.out : o.told = o.hint /\ Grounded(o.name, o.entity, as \cup r.own.aliases)
    /\ r.step \in {"flushEntity", "capability", "flushVocab"} =>
         r.items # <<>> /\ r.entity # None
    /\ r.step = "flushEntity" => Grounded(Head(r.items).name, r.entity, r.pending.aliases)
    /\ r.step \in {"capability", "flushVocab"} =>
         Grounded(Head(r.items).name, r.entity, as \cup r.own.aliases)
    /\ \A e \in r.own.entities : \/ \E o \in r.out : o.entity = e
                                 \/ r.step \in {"capability", "flushVocab"} /\ e = r.entity
    /\ \A e \in r.pending.entities : r.step = "flushEntity" /\ e = r.entity
    /\ r.step # "flushEntity" => r.pending.aliases = {}
    /\ UniqueIn(es \cup r.own.entities, as \cup r.own.aliases)
    /\ UniqueIn(r.pending.entities, r.pending.aliases)

Works == \A w \in Workers : work[w] # None => WorkOk(work[w], entities, aliases)

Apart ==
    \A v, w \in Workers :
      work[v] # None /\ work[w] # None /\ v # w => ~SameKey(work[v].own, work[w].own)

\* A cached answer is to the question its key asks.
CacheOk == \A e \in cache : e.told = e.key.hint

Stays ==
    /\ UniqueIn(entities, aliases)
    /\ \A o \in objects : o.told = o.hint /\ Grounded(o.name, o.entity, aliases)
    /\ \A e \in entities : e.by # None => \E o \in objects : o.entity = e

\* What holds of a load in progress.
LoadOk(l, es, as) ==
    /\ \A e \in l.own.entities \cup l.pending.entities : e.by = None
    /\ UniqueIn(es \cup l.own.entities, as \cup l.own.aliases)
    /\ UniqueIn(l.pending.entities, l.pending.aliases)
    /\ l.step # "flushEntity" => l.pending.entities = {}
    /\ l.step = "commit" => l.names = {}
    /\ l.names # {} => l.entity # None

Loaded ==
    load # None =>
      /\ LoadOk(load, entities, aliases)
      /\ \A w \in Workers : work[w] # None => ~SameKey(load.own, work[w].own)

Inv == TypeOK /\ CacheOk /\ Works /\ Apart /\ Stays /\ Loaded

USE ExtractionAssumption DEF Txn

-----------------------------------------------------------------------------
\* The initial state satisfies the invariant.
LEMMA InvInit == Init => Inv
<1> SUFFICES ASSUME Init
             PROVE  Inv
  OBVIOUS
<1>1. {VocabRow(c, "confirmed", {}) : c \in Vocabulary}
        \in SUBSET [slug : Caps, status : {"confirmed", "candidate"}, synonyms : SUBSET Caps]
  BY DEF VocabRow
<1>2. TypeOK
  BY <1>1 DEF Init, TypeOK, Rows
<1> QED
  BY <1>2 DEF Init, Inv, CacheOk, Works, Apart, Stays, UniqueIn, Loaded

\* The rows that are there, and the ones a job has, are rows.
LEMMA TableTypes ==
  ASSUME TypeOK
  PROVE  /\ entities \subseteq Entity
         /\ aliases \subseteq [alias : STRING, entity : Entity, status : {"confirmed", "candidate"}]
         /\ vocab \subseteq [slug : Caps, status : {"confirmed", "candidate"}, synonyms : SUBSET Caps]
  BY DEF TypeOK, Rows

LEMMA WorkTypes ==
  ASSUME NEW r \in Work
  PROVE  /\ r.source \in Sources /\ r.hint \in Hint /\ r.items \in Seq(Item)
         /\ r.told \in Hint /\ r.from \in Sources \cup {None} /\ r.entity \in Entity \cup {None}
         /\ r.pending \in Rows /\ r.own \in Rows /\ r.out \subseteq Object
         /\ r.own.entities \subseteq Entity
         /\ r.own.aliases \subseteq
              [alias : STRING, entity : Entity, status : {"confirmed", "candidate"}]
         /\ r.own.vocab \subseteq
              [slug : Caps, status : {"confirmed", "candidate"}, synonyms : SUBSET Caps]
  BY DEF Work, Rows

\* A row more is a row; no rows are rows.
LEMMA RowsTypes ==
    /\ NoRows \in Rows
    /\ \A as \in SUBSET [alias : STRING, entity : Entity, status : {"confirmed", "candidate"}] :
         [NoRows EXCEPT !.aliases = as] \in Rows
    /\ \A as \in SUBSET [alias : STRING, entity : Entity, status : {"confirmed", "candidate"}] :
         \A es \in SUBSET Entity : [NoRows EXCEPT !.entities = es, !.aliases = as] \in Rows
    /\ \A vs \in SUBSET [slug : Caps, status : {"confirmed", "candidate"}, synonyms : SUBSET Caps] :
         [NoRows EXCEPT !.vocab = vs] \in Rows
  BY DEF NoRows, Rows

\* The updates of a job in progress.
LEMMA UpdateTypes ==
  ASSUME NEW r \in Work
  PROVE  /\ [r EXCEPT !.step = "asked"] \in Work
         /\ \A its \in Seq(Item) : [r EXCEPT !.items = its] \in Work
         /\ \A its \in Seq(Item), h \in Hint, s \in Sources :
              [r EXCEPT !.items = its, !.told = h, !.from = s, !.step = "entity"] \in Work
         /\ \A e \in Entity : [r EXCEPT !.entity = e, !.step = "capability"] \in Work
         /\ \A e \in Entity, p \in Rows :
              [r EXCEPT !.entity = e, !.pending = p, !.step = "flushEntity"] \in Work
         /\ \A p \in Rows : [r EXCEPT !.step = "flushVocab", !.pending = p] \in Work
         /\ \A o \in Rows : [r EXCEPT !.own = o, !.pending = NoRows, !.step = "capability"] \in Work
         /\ \A x \in Object, its \in Seq(Item), o \in Rows :
              [r EXCEPT !.out = @ \cup {x}, !.items = its, !.entity = None, !.step = "entity",
                        !.pending = NoRows, !.own = o] \in Work
<1> USE RowsTypes DEF Work
<1>1. [r EXCEPT !.step = "asked"] \in Work
  OBVIOUS
<1>2. \A its \in Seq(Item) : [r EXCEPT !.items = its] \in Work
  OBVIOUS
<1>3. \A its \in Seq(Item), h \in Hint, s \in Sources :
        [r EXCEPT !.items = its, !.told = h, !.from = s, !.step = "entity"] \in Work
  OBVIOUS
<1>4. \A e \in Entity : [r EXCEPT !.entity = e, !.step = "capability"] \in Work
  OBVIOUS
<1>5. \A e \in Entity, p \in Rows :
        [r EXCEPT !.entity = e, !.pending = p, !.step = "flushEntity"] \in Work
  OBVIOUS
<1>6. \A p \in Rows : [r EXCEPT !.step = "flushVocab", !.pending = p] \in Work
  OBVIOUS
<1>7. \A o \in Rows : [r EXCEPT !.own = o, !.pending = NoRows, !.step = "capability"] \in Work
  OBVIOUS
<1>8. \A x \in Object, its \in Seq(Item), o \in Rows :
        [r EXCEPT !.out = @ \cup {x}, !.items = its, !.entity = None, !.step = "entity",
                  !.pending = NoRows, !.own = o] \in Work
  OBVIOUS
<1> HIDE DEF Work
<1> QED
  BY <1>1, <1>2, <1>3, <1>4, <1>5, <1>6, <1>7, <1>8

\* The first item and the rest.
LEMMA ItemTypes ==
  ASSUME NEW its \in Seq(Item), its # <<>>
  PROVE  /\ Head(its) \in Item /\ Tail(its) \in Seq(Item)
         /\ Head(its).name \in Names /\ Head(its).cap \in Caps /\ Head(its).inc \in Incs \cup {None}
<1>1. Head(its) \in Item /\ Tail(its) \in Seq(Item)
  BY HeadTailProperties
<1> QED
  BY <1>1 DEF Item

\* What a sibling has established is a subject.
LEMMA SiblingTypes == TypeOK => \A s \in Sources : SiblingSubjects(s) \subseteq Subject
  BY DEF TypeOK, SiblingSubjects, Object

\* Uniqueness of fewer rows, and of two sets of rows that do not clash.
LEMMA UniqueFewer ==
  ASSUME NEW es, NEW as, NEW es2, NEW as2, UniqueIn(es2, as2), es \subseteq es2, as \subseteq as2
  PROVE  UniqueIn(es, as)
  BY DEF UniqueIn

LEMMA UniqueWith ==
  ASSUME NEW es, NEW as, NEW x, UniqueIn(es, as), UniqueIn(x.entities, x.aliases),
         ~SameKey(x, [entities |-> es, aliases |-> as, vocab |-> {}])
  PROVE  UniqueIn(es \cup x.entities, as \cup x.aliases)
  BY DEF UniqueIn, SameKey

LEMMA UniqueThree ==
  ASSUME NEW es, NEW as, NEW x, NEW y,
         UniqueIn(es \cup x.entities, as \cup x.aliases),
         UniqueIn(es \cup y.entities, as \cup y.aliases), ~SameKey(x, y)
  PROVE  UniqueIn((es \cup x.entities) \cup y.entities, (as \cup x.aliases) \cup y.aliases)
  BY DEF UniqueIn, SameKey

LEMMA KeysSymmetric == \A x, y : SameKey(x, y) <=> SameKey(y, x)
  BY DEF SameKey

-----------------------------------------------------------------------------
\* A step of one worker that commits nothing.
LEMMA OneWork ==
  ASSUME Inv, NEW w \in Workers, NEW r, work' = [work EXCEPT ![w] = r],
         UNCHANGED <<entities, aliases, vocab, objects, load>>,
         \/ r = None
         \/ /\ r \in Work /\ WorkOk(r, entities, aliases)
            /\ \A v \in Workers : work[v] # None /\ v # w => ~SameKey(r.own, work[v].own)
            /\ load # None => ~SameKey(load.own, r.own)
  PROVE  work' \in [Workers -> Work \cup {None}] /\ Works' /\ Apart' /\ Stays' /\ Loaded'
<1>1. TypeOK /\ Works /\ Apart /\ Stays
  BY DEF Inv
<1>2. work' \in [Workers -> Work \cup {None}]
  BY <1>1 DEF TypeOK
<1>3. \A v \in Workers : work'[v] = IF v = w THEN r ELSE work[v]
  BY <1>1 DEF TypeOK
<1>4. Works'
  BY <1>1, <1>3 DEF Works
<1>5. Apart'
  BY <1>1, <1>3, KeysSymmetric DEF Apart
<1>6. Stays'
  BY <1>1 DEF Stays
<1>7. Loaded'
  BY <1>3 DEF Inv, Loaded
<1> QED
  BY <1>2, <1>4, <1>5, <1>6, <1>7

\* The same when the step leaves the job's rows alone.
LEMMA OneWorkSameRows ==
  ASSUME Inv, NEW w \in Workers, work[w] # None, NEW r, work' = [work EXCEPT ![w] = r],
         UNCHANGED <<entities, aliases, vocab, objects, load>>,
         r \in Work, WorkOk(r, entities, aliases), r.own = work[w].own
  PROVE  work' \in [Workers -> Work \cup {None}] /\ Works' /\ Apart' /\ Stays' /\ Loaded'
<1>1. \A v \in Workers : work[v] # None /\ v # w => ~SameKey(r.own, work[v].own)
  BY DEF Inv, Apart
<1>2. load # None => ~SameKey(load.own, r.own)
  BY DEF Inv, Loaded
<1> QED
  BY <1>1, <1>2, OneWork

\* A busy worker's job.
LEMMA TheWork ==
  ASSUME Inv, NEW w \in Workers, work[w] # None
  PROVE  work[w] \in Work /\ WorkOk(work[w], entities, aliases)
  BY DEF Inv, TypeOK, Works

\* A step that changes the work only keeps the types.
LEMMA TypesIfWork ==
  ASSUME TypeOK, work' \in [Workers -> Work \cup {None}],
         UNCHANGED <<cache, tables, queue, warm, faults, warms, loading>>
  PROVE  TypeOK' /\ (CacheOk => CacheOk')
  BY DEF TypeOK, tables, queue, loading, CacheOk

-----------------------------------------------------------------------------
(***************************************************************************)
(* The steps, in the order of the module.                                  *)
(***************************************************************************)
LEMMA StartStep ==
  ASSUME Inv, NEW w \in Workers, NEW s \in Sources, NEW hint \in SiblingSubjects(s) \cup {None},
         Start(w, s, hint)
  PROVE  Inv'
<1> DEFINE r == [source |-> s, hint |-> hint, step |-> "extract", items |-> <<>>,
                 told |-> None, from |-> None, entity |-> None, pending |-> NoRows,
                 own |-> NoRows, out |-> {}]
<1>1. TypeOK /\ CacheOk /\ Stays
  BY DEF Inv
<1>2. hint \in Hint /\ <<>> \in Seq(Item)
  BY <1>1, SiblingTypes DEF Hint
<1>3. r \in Work
  BY <1>2, RowsTypes DEF Work, Hint
<1>4. WorkOk(r, entities, aliases)
  BY <1>1 DEF WorkOk, Stays, NoRows, UniqueIn
<1>5. \A x : ~SameKey(r.own, x) /\ ~SameKey(x, r.own)
  BY DEF SameKey, NoRows
<1>6. work' = [work EXCEPT ![w] = r] /\ UNCHANGED <<entities, aliases, vocab, objects, load>>
  BY DEF Start, tables, loading
<1> HIDE DEF r
<1>7. work' \in [Workers -> Work \cup {None}] /\ Works' /\ Apart' /\ Stays' /\ Loaded'
  BY <1>3, <1>4, <1>5, <1>6, OneWork
<1>8. tries' \in [Sources -> Nat] /\ job' \in [Sources -> {"queued", "running", "done", "poison"}]
  BY <1>1 DEF Start, TypeOK
<1>9. TypeOK' /\ CacheOk'
  BY <1>1, <1>7, <1>8 DEF Start, TypeOK, CacheOk, tables, loading
<1> QED
  BY <1>7, <1>9 DEF Inv

\* An answer to the job's question lets it go on to the items.
LEMMA WithAnswerOk ==
  ASSUME Inv, NEW w \in Workers, work[w] # None, work[w].step \in {"extract", "asked"},
         NEW e, e.items \in Seq(Item), e.told = work[w].hint, e.from \in Sources
  PROVE  /\ WithAnswer(w, e) \in Work /\ WorkOk(WithAnswer(w, e), entities, aliases)
         /\ WithAnswer(w, e).own = work[w].own
<1> DEFINE r == WithAnswer(w, e)
<1>1. work[w] \in Work /\ WorkOk(work[w], entities, aliases) /\ work[w].hint \in Hint
  BY TheWork, WorkTypes
<1>2. r \in Work
  BY <1>1, UpdateTypes DEF WithAnswer
<1>3. /\ r.step = "entity" /\ r.told = e.told /\ r.hint = work[w].hint /\ r.from = e.from
      /\ r.out = work[w].out /\ r.own = work[w].own /\ r.pending = work[w].pending
  BY <1>1 DEF WithAnswer, Work
<1> HIDE DEF r
<1>4. WorkOk(r, entities, aliases)
  BY <1>1, <1>3 DEF WorkOk
<1> QED
  BY <1>2, <1>3, <1>4 DEF r

LEMMA HitStep ==
  ASSUME Inv, NEW w \in Workers, Hit(w)
  PROVE  Inv'
<1>1. PICK e \in Cached(work[w].source, work[w].hint) :
        work' = [work EXCEPT ![w] = WithAnswer(w, e)]
  BY DEF Hit
<1>2. work[w] # None /\ work[w].step = "extract"
  BY DEF Hit
<1>3. e \in cache /\ e.key = Key(work[w].source, work[w].hint)
  BY DEF Cached
<1>4. e.items \in Seq(Item) /\ e.from \in Sources /\ e.told = work[w].hint
  BY <1>3 DEF Inv, TypeOK, Entry, CacheOk, Key
<1>5. /\ WithAnswer(w, e) \in Work /\ WorkOk(WithAnswer(w, e), entities, aliases)
      /\ WithAnswer(w, e).own = work[w].own
  BY <1>2, <1>4, WithAnswerOk
<1>6. work' \in [Workers -> Work \cup {None}] /\ Works' /\ Apart' /\ Stays' /\ Loaded'
  BY <1>1, <1>2, <1>5, OneWorkSameRows DEF Hit, tables, loading
<1> QED
  BY <1>6, TypesIfWork DEF Hit, Inv

LEMMA MissStep ==
  ASSUME Inv, NEW w \in Workers, Miss(w)
  PROVE  Inv'
<1> DEFINE r == [work[w] EXCEPT !.step = "asked"]
<1>1. work[w] # None /\ work[w].step = "extract" /\ work' = [work EXCEPT ![w] = r]
  BY DEF Miss
<1>2. work[w] \in Work /\ WorkOk(work[w], entities, aliases)
  BY <1>1, TheWork
<1>3. r \in Work
  BY <1>2, UpdateTypes
<1>4. /\ r.step = "asked" /\ r.out = work[w].out /\ r.own = work[w].own
      /\ r.pending = work[w].pending
  BY <1>2 DEF Work
<1> HIDE DEF r
<1>5. WorkOk(r, entities, aliases)
  BY <1>1, <1>2, <1>4 DEF WorkOk
<1>6. work' \in [Workers -> Work \cup {None}] /\ Works' /\ Apart' /\ Stays' /\ Loaded'
  BY <1>1, <1>3, <1>4, <1>5, OneWorkSameRows DEF Miss, tables, loading
<1> QED
  BY <1>6, TypesIfWork DEF Miss, Inv

\* What is stored is an answer to its key's question.
LEMMA StoredOk ==
  ASSUME TypeOK, CacheOk, NEW s \in Sources, NEW hint \in Hint, NEW items \in Answers[s]
  PROVE  /\ items \in Seq(Item)
         /\ Stored(s, hint, items) \subseteq Entry
         /\ \A e \in Stored(s, hint, items) : e.told = e.key.hint
<1>1. items \in Seq(Item)
  OBVIOUS
<1>2. Key(s, hint) \in [content : {Content[x] : x \in Sources}, hint : Hint] /\ Key(s, hint).hint = hint
  BY DEF Key
<1> HIDE DEF Key
<1>3. [key |-> Key(s, hint), items |-> items, from |-> s, told |-> hint] \in Entry
  BY <1>1, <1>2 DEF Entry
<1> QED
  BY <1>1, <1>2, <1>3 DEF Stored, TypeOK, CacheOk

LEMMA AnswerStep ==
  ASSUME Inv, NEW w \in Workers, Answer(w)
  PROVE  Inv'
<1>1. work[w] # None /\ work[w].step = "asked"
  BY DEF Answer
<1>2. work[w] \in Work /\ work[w].source \in Sources /\ work[w].hint \in Hint
  BY <1>1, TheWork, WorkTypes
<1>3. PICK items \in Answers[work[w].source] :
        /\ cache' = Stored(work[w].source, work[w].hint, items)
        /\ work' = [work EXCEPT ![w] =
                      WithAnswer(w, [items |-> items, from |-> work[w].source,
                                     told |-> work[w].hint])]
  BY DEF Answer
<1>4. /\ items \in Seq(Item) /\ cache' \subseteq Entry
      /\ \A e \in cache' : e.told = e.key.hint
  BY <1>2, <1>3, StoredOk DEF Inv
<1> DEFINE e == [items |-> items, from |-> work[w].source, told |-> work[w].hint]
<1>5. e.items \in Seq(Item) /\ e.told = work[w].hint /\ e.from \in Sources
  BY <1>2, <1>4
<1>6. work' = [work EXCEPT ![w] = WithAnswer(w, e)]
  BY <1>3
<1> HIDE DEF e
<1>7. /\ WithAnswer(w, e) \in Work /\ WorkOk(WithAnswer(w, e), entities, aliases)
      /\ WithAnswer(w, e).own = work[w].own
  BY <1>1, <1>5, WithAnswerOk
<1>8. work' \in [Workers -> Work \cup {None}] /\ Works' /\ Apart' /\ Stays' /\ Loaded'
  BY <1>1, <1>6, <1>7, OneWorkSameRows DEF Answer, tables, loading
<1>9. TypeOK'
  BY <1>4, <1>8 DEF Answer, Inv, TypeOK, tables, queue, loading
<1> QED
  BY <1>4, <1>8, <1>9 DEF Inv, CacheOk

LEMMA WarmStep ==
  ASSUME Inv, NEW s \in Sources, WarmAsk(s) \/ WarmAnswer(s)
  PROVE  Inv'
<1>1. /\ UNCHANGED <<tables, queue, work, faults, loading>>
      /\ warm' \subseteq Sources /\ warms' \in Nat
  BY DEF WarmAsk, WarmAnswer, Inv, TypeOK
<1>2. cache' \subseteq Entry /\ CacheOk'
  <2>1. CASE UNCHANGED cache
    BY <2>1 DEF Inv, TypeOK, CacheOk
  <2>2. CASE \E items \in Answers[s] : cache' = Stored(s, None, items)
    BY <2>2, StoredOk DEF Inv, CacheOk, Hint
  <2> QED
    BY <2>1, <2>2 DEF WarmAsk, WarmAnswer
<1>3. TypeOK'
  BY <1>1, <1>2 DEF Inv, TypeOK, tables, queue, loading
<1>4. Works' /\ Apart' /\ Stays' /\ Loaded'
  BY <1>1 DEF Inv, Works, Apart, Stays, Loaded, tables, loading
<1> QED
  BY <1>2, <1>3, <1>4 DEF Inv

LEMMA RejectStep ==
  ASSUME Inv, NEW w \in Workers, Reject(w)
  PROVE  Inv'
<1> DEFINE r == [work[w] EXCEPT !.items = Tail(@)]
<1>1. /\ work[w] # None /\ work[w].step = "entity" /\ work[w].items # <<>>
      /\ work' = [work EXCEPT ![w] = r]
  BY DEF Reject, At
<1>2. work[w] \in Work /\ WorkOk(work[w], entities, aliases) /\ work[w].items \in Seq(Item)
  BY <1>1, TheWork, WorkTypes
<1>3. r \in Work
  BY <1>1, <1>2, UpdateTypes, ItemTypes
<1>4. /\ r.step = "entity" /\ r.out = work[w].out /\ r.own = work[w].own
      /\ r.pending = work[w].pending /\ r.told = work[w].told /\ r.hint = work[w].hint
      /\ r.from = work[w].from
  BY <1>1, <1>2 DEF Work
<1> HIDE DEF r
<1>5. WorkOk(r, entities, aliases)
  BY <1>1, <1>2, <1>4 DEF WorkOk
<1>6. work' \in [Workers -> Work \cup {None}] /\ Works' /\ Apart' /\ Stays' /\ Loaded'
  BY <1>1, <1>3, <1>4, <1>5, OneWorkSameRows DEF Reject, tables, loading
<1> QED
  BY <1>6, TypesIfWork DEF Reject, Inv

-----------------------------------------------------------------------------
(***************************************************************************)
(* Looking up and flushing.                                                *)
(***************************************************************************)
\* The rows a worker sees.
LEMMA SeenTypes ==
  ASSUME Inv, NEW w \in Workers, work[w] # None
  PROVE  /\ Seen(w).entities = entities \cup work[w].own.entities
         /\ Seen(w).aliases = aliases \cup work[w].own.aliases
         /\ Seen(w).aliases \subseteq
              [alias : STRING, entity : Entity, status : {"confirmed", "candidate"}]
         /\ Seen(w).vocab \subseteq
              [slug : Caps, status : {"confirmed", "candidate"}, synonyms : SUBSET Caps]
<1>1. work[w] \in Work /\ TypeOK
  BY TheWork DEF Inv
<1> QED
  BY <1>1, WorkTypes, TableTypes DEF Seen

\* What a new name makes: rows that are unique, and an alias that grounds it.
LEMMA NewRowsOk ==
  ASSUME Inv, NEW w \in Workers, work[w] # None, NEW name \in Names, NEW n \in NewRows(w, name)
  PROVE  /\ n.entity \in Entity /\ n.rows \in Rows
         /\ Grounded(name, n.entity, n.rows.aliases)
         /\ \A e \in n.rows.entities : e = n.entity
         /\ UniqueIn(n.rows.entities, n.rows.aliases)
<1> DEFINE a == Alias[name]
           e == [slug |-> Slug[name], by |-> work[w].source]
           own == AliasRow(a, e, "confirmed")
           T == [alias : STRING, entity : Entity, status : {"confirmed", "candidate"}]
<1>1. a \in STRING /\ e \in Entity
  <2>1. work[w].source \in Sources
    BY TheWork, WorkTypes
  <2> QED
    BY <2>1 DEF Entity
<1>2. \A x \in Entity, st \in {"confirmed", "candidate"} :
        /\ AliasRow(a, x, st) \in T
        /\ AliasRow(a, x, st).alias = a /\ AliasRow(a, x, st).entity = x
        /\ AliasRow(a, x, st).status = st
  BY <1>1 DEF AliasRow
<1>3. \A pairs : \A r \in Matching(w, a, pairs) : r.entity \in Entity
  BY SeenTypes DEF Matching
<1>4. CASE \E r \in Matching(w, a, Alike) :
             n = [entity |-> r.entity, rows |-> [NoRows EXCEPT !.aliases =
                                                 {AliasRow(a, r.entity, "confirmed")}]]
  <2>1. PICK r \in Matching(w, a, Alike) :
             n = [entity |-> r.entity, rows |-> [NoRows EXCEPT !.aliases =
                                                 {AliasRow(a, r.entity, "confirmed")}]]
    BY <1>4
  <2> DEFINE row == AliasRow(a, r.entity, "confirmed")
  <2>2. r.entity \in Entity /\ row \in T /\ row.alias = a /\ row.entity = r.entity
        /\ row.status = "confirmed"
    BY <1>2, <1>3
  <2>3. n.entity = r.entity /\ n.rows = [NoRows EXCEPT !.aliases = {row}]
    BY <2>1
  <2> HIDE DEF row
  <2>a. {row} \in SUBSET T
    BY <2>2
  <2>b. n.rows \in Rows
    BY <2>3, <2>a, RowsTypes
  <2>4. n.rows \in Rows /\ n.rows.entities = {} /\ n.rows.aliases = {row}
    BY <2>3, <2>b DEF NoRows
  <2> QED
    BY <2>2, <2>3, <2>4 DEF Grounded, UniqueIn
<1>5. ASSUME n.entity = e, NEW as \in SUBSET T, n.rows = [NoRows EXCEPT !.entities = {e}, !.aliases = as],
             own \in as, \A x \in as : x = own \/ x.status = "candidate"
      PROVE  /\ n.entity \in Entity /\ n.rows \in Rows
             /\ Grounded(name, n.entity, n.rows.aliases)
             /\ \A x \in n.rows.entities : x = n.entity
             /\ UniqueIn(n.rows.entities, n.rows.aliases)
  <2>1. own.alias = a /\ own.entity = e /\ own.status = "confirmed"
    BY <1>1, <1>2
  <2>a. {e} \in SUBSET Entity
    BY <1>1
  <2> HIDE DEF e, own
  <2>b. \A es \in SUBSET Entity : [NoRows EXCEPT !.entities = es, !.aliases = as] \in Rows
    BY <1>5, RowsTypes
  <2>2. n.rows \in Rows
    BY <1>5, <2>a, <2>b
  <2>3. n.rows.entities = {e} /\ n.rows.aliases = as
    BY <1>5 DEF NoRows
  <2>4. Grounded(name, n.entity, n.rows.aliases)
    BY <1>5, <2>1, <2>3 DEF Grounded
  <2>5. UniqueIn(n.rows.entities, n.rows.aliases)
    BY <1>5, <2>3 DEF UniqueIn
  <2> QED
    BY <1>1, <1>5, <2>2, <2>3, <2>4, <2>5
<1>6. CASE \E r \in Matching(w, a, Near) :
             n = [entity |-> e, rows |-> [NoRows EXCEPT !.entities = {e}, !.aliases =
                                            {own, AliasRow(a, r.entity, "candidate")}]]
  <2>1. PICK r \in Matching(w, a, Near) :
             n = [entity |-> e, rows |-> [NoRows EXCEPT !.entities = {e}, !.aliases =
                                            {own, AliasRow(a, r.entity, "candidate")}]]
    BY <1>6
  <2> DEFINE cand == AliasRow(a, r.entity, "candidate")
  <2>2. own \in T /\ cand \in T /\ cand.status = "candidate"
    BY <1>1, <1>2, <1>3
  <2>3. n.entity = e /\ n.rows = [NoRows EXCEPT !.entities = {e}, !.aliases = {own, cand}]
    BY <2>1
  <2> DEFINE as == {own, cand}
  <2> HIDE DEF cand, own, e
  <2>4. as \in SUBSET T /\ own \in as /\ \A x \in as : x = own \/ x.status = "candidate"
    BY <2>2
  <2>5. n.rows = [NoRows EXCEPT !.entities = {e}, !.aliases = as]
    BY <2>3
  <2> HIDE DEF as, T
  <2> QED
    BY <1>5, <2>3, <2>4, <2>5
<1>7. CASE n = [entity |-> e, rows |-> [NoRows EXCEPT !.entities = {e}, !.aliases = {own}]]
  <2>1. own \in T
    BY <1>1, <1>2
  <2>2. n.entity = e /\ n.rows = [NoRows EXCEPT !.entities = {e}, !.aliases = {own}]
    BY <1>7
  <2> DEFINE as == {own}
  <2> HIDE DEF own, e
  <2>4. as \in SUBSET T /\ own \in as /\ \A x \in as : x = own \/ x.status = "candidate"
    BY <2>1
  <2>5. n.rows = [NoRows EXCEPT !.entities = {e}, !.aliases = as]
    BY <2>2
  <2> HIDE DEF as, T
  <2> QED
    BY <1>5, <2>2, <2>4, <2>5
<1> QED
  BY <1>4, <1>6, <1>7 DEF NewRows

LEMMA LookEntityStep ==
  ASSUME Inv, NEW w \in Workers, LookEntity(w)
  PROVE  Inv'
<1> DEFINE name == Head(work[w].items).name
<1>1. work[w] # None /\ work[w].step = "entity" /\ work[w].items # <<>>
  BY DEF LookEntity, At
<1>2. work[w] \in Work /\ WorkOk(work[w], entities, aliases) /\ work[w].items \in Seq(Item)
  BY <1>1, TheWork, WorkTypes
<1>3. name \in Names
  BY <1>1, <1>2, ItemTypes
<1>4. CASE \E r \in Exact(w, Alias[name]) :
             work' = [work EXCEPT ![w].entity = r.entity, ![w].step = "capability"]
  <2>1. PICK row \in Exact(w, Alias[name]) :
             work' = [work EXCEPT ![w].entity = row.entity, ![w].step = "capability"]
    BY <1>4
  <2> DEFINE r == [work[w] EXCEPT !.entity = row.entity, !.step = "capability"]
  <2>2. /\ row \in aliases \cup work[w].own.aliases /\ row.entity \in Entity
        /\ row.status = "confirmed" /\ row.alias = Alias[name]
    BY <1>1, SeenTypes DEF Exact
  <2>3. r \in Work
    BY <1>2, <2>2, UpdateTypes
  <2>4. work' = [work EXCEPT ![w] = r]
    BY <2>1
  <2>5. /\ r.step = "capability" /\ r.out = work[w].out /\ r.own = work[w].own
        /\ r.pending = work[w].pending /\ r.told = work[w].told /\ r.hint = work[w].hint
        /\ r.from = work[w].from /\ r.items = work[w].items /\ r.entity = row.entity
    BY <1>2 DEF Work
  <2> HIDE DEF r
  <2>6. Grounded(Head(r.items).name, r.entity, aliases \cup r.own.aliases)
    BY <2>2, <2>5 DEF Grounded
  <2>7. WorkOk(r, entities, aliases)
    BY <1>1, <1>2, <2>2, <2>5, <2>6 DEF WorkOk
  <2>8. work' \in [Workers -> Work \cup {None}] /\ Works' /\ Apart' /\ Stays' /\ Loaded'
    BY <1>1, <2>3, <2>4, <2>5, <2>7, OneWorkSameRows DEF LookEntity, tables, loading
  <2> QED
    BY <2>8, TypesIfWork DEF LookEntity, Inv
<1>5. CASE \E n \in NewRows(w, name) :
             work' = [work EXCEPT ![w].entity = n.entity, ![w].pending = n.rows,
                                  ![w].step = "flushEntity"]
  <2>1. PICK n \in NewRows(w, name) :
             work' = [work EXCEPT ![w].entity = n.entity, ![w].pending = n.rows,
                                  ![w].step = "flushEntity"]
    BY <1>5
  <2> DEFINE r == [work[w] EXCEPT !.entity = n.entity, !.pending = n.rows, !.step = "flushEntity"]
  <2>2. /\ n.entity \in Entity /\ n.rows \in Rows
        /\ Grounded(name, n.entity, n.rows.aliases)
        /\ \A e \in n.rows.entities : e = n.entity
        /\ UniqueIn(n.rows.entities, n.rows.aliases)
    BY <1>1, <1>3, NewRowsOk
  <2>3. r \in Work
    BY <1>2, <2>2, UpdateTypes
  <2>4. work' = [work EXCEPT ![w] = r]
    BY <2>1
  <2>5. /\ r.step = "flushEntity" /\ r.out = work[w].out /\ r.own = work[w].own
        /\ r.pending = n.rows /\ r.told = work[w].told /\ r.hint = work[w].hint
        /\ r.from = work[w].from /\ r.items = work[w].items /\ r.entity = n.entity
    BY <1>2 DEF Work
  <2> HIDE DEF r
  <2>6. WorkOk(r, entities, aliases)
    BY <1>1, <1>2, <2>2, <2>5 DEF WorkOk
  <2>7. work' \in [Workers -> Work \cup {None}] /\ Works' /\ Apart' /\ Stays' /\ Loaded'
    BY <1>1, <2>3, <2>4, <2>5, <2>6, OneWorkSameRows DEF LookEntity, tables, loading
  <2> QED
    BY <2>7, TypesIfWork DEF LookEntity, Inv
<1> QED
  BY <1>4, <1>5 DEF LookEntity

\* An item that is done leaves an object grounded in its name.
LEMMA NextItemStep ==
  ASSUME Inv, NEW w \in Workers, At(w, "capability") \/ At(w, "flushVocab"),
         NEW slug \in Caps, NEW isNew \in BOOLEAN, NEW rows \in Rows,
         rows.entities = work[w].own.entities, rows.aliases = work[w].own.aliases,
         NextItem(w, slug, isNew, rows), UNCHANGED <<cache, tables, queue, warm, faults, warms, loading>>
  PROVE  Inv'
<1> DEFINE acc == Accepted(w, slug, isNew)
           r == [work[w] EXCEPT !.out = @ \cup {acc},
                                !.items = Tail(@), !.entity = None, !.step = "entity",
                                !.pending = NoRows, !.own = rows]
<1>1. work[w] # None /\ work[w].step \in {"capability", "flushVocab"} /\ work[w].items # <<>>
  BY DEF At
<1>2. /\ work[w] \in Work /\ WorkOk(work[w], entities, aliases) /\ work[w].items \in Seq(Item)
      /\ work[w].source \in Sources /\ work[w].hint \in Hint /\ work[w].told \in Hint
      /\ work[w].entity \in Entity \cup {None} /\ work[w].from \in Sources \cup {None}
  BY <1>1, TheWork, WorkTypes
<1>3. /\ work[w].entity \in Entity /\ work[w].from \in Sources /\ work[w].told = work[w].hint
      /\ Grounded(Head(work[w].items).name, work[w].entity, aliases \cup work[w].own.aliases)
  BY <1>1, <1>2 DEF WorkOk
<1>4. /\ Tail(work[w].items) \in Seq(Item)
      /\ Head(work[w].items).name \in Names /\ Head(work[w].items).cap \in Caps
      /\ Head(work[w].items).inc \in Incs \cup {None}
  BY <1>1, <1>2, ItemTypes
<1>5. /\ acc \in Object /\ acc.told = acc.hint /\ acc.entity = work[w].entity
      /\ acc.name = Head(work[w].items).name
  <2>1. work[w].entity.slug \in STRING
    BY <1>3 DEF Entity
  <2>2. [slug |-> work[w].entity.slug, cap |-> slug,
         inc |-> IF slug = Incident THEN Head(work[w].items).inc ELSE None] \in Subject
    BY <1>4, <2>1 DEF Subject
  <2> QED
    BY <1>2, <1>3, <1>4, <2>2 DEF Accepted, Object
<1> HIDE DEF acc
<1>6. r \in Work
  BY <1>2, <1>4, <1>5, UpdateTypes
<1>7. work' = [work EXCEPT ![w] = r]
  BY DEF NextItem, acc
<1>8. /\ r.step = "entity" /\ r.out = work[w].out \cup {acc} /\ r.own = rows
      /\ r.pending = NoRows /\ r.told = work[w].told /\ r.hint = work[w].hint
      /\ r.from = work[w].from
  BY <1>2 DEF Work
<1> HIDE DEF r
<1>9. \A o \in r.out : o.told = o.hint /\ Grounded(o.name, o.entity, aliases \cup r.own.aliases)
  BY <1>2, <1>3, <1>5, <1>8 DEF WorkOk
<1>10. \A e \in r.own.entities : \E o \in r.out : o.entity = e
  BY <1>2, <1>5, <1>8 DEF WorkOk
<1>11. NoRows.entities = {} /\ NoRows.aliases = {}
  BY DEF NoRows
<1>12. UniqueIn({}, {})
  BY DEF UniqueIn
<1>13. UniqueIn(entities \cup r.own.entities, aliases \cup r.own.aliases)
  BY <1>2, <1>8 DEF WorkOk
<1>14. WorkOk(r, entities, aliases)
  BY <1>2, <1>3, <1>8, <1>9, <1>10, <1>11, <1>12, <1>13 DEF WorkOk
<1>15. \A v \in Workers : work[v] # None /\ v # w => ~SameKey(r.own, work[v].own)
  BY <1>1, <1>8 DEF Inv, Apart, SameKey
<1>a. load # None => ~SameKey(load.own, r.own)
  BY <1>1, <1>8 DEF Inv, Loaded, SameKey
<1>16. work' \in [Workers -> Work \cup {None}] /\ Works' /\ Apart' /\ Stays' /\ Loaded'
  BY <1>6, <1>7, <1>14, <1>15, <1>a, OneWork DEF tables, loading
<1> QED
  BY <1>16, TypesIfWork DEF Inv

\* A flush of the vocabulary is looked up.
LEMMA PendVocabStep ==
  ASSUME Inv, NEW w \in Workers, At(w, "capability"), NEW row,
         row \in [slug : Caps, status : {"confirmed", "candidate"}, synonyms : SUBSET Caps],
         work' = [work EXCEPT ![w].step = "flushVocab", ![w].pending = [NoRows EXCEPT !.vocab = {row}]],
         UNCHANGED <<cache, tables, queue, warm, faults, warms, loading>>
  PROVE  Inv'
<1> DEFINE pend == [NoRows EXCEPT !.vocab = {row}]
           r == [work[w] EXCEPT !.step = "flushVocab", !.pending = pend]
<1>1. work[w] # None /\ work[w].step = "capability" /\ work[w].items # <<>>
  BY DEF At
<1>2. work[w] \in Work /\ WorkOk(work[w], entities, aliases)
  BY <1>1, TheWork
<1>3. pend \in Rows /\ pend.entities = {} /\ pend.aliases = {}
  BY RowsTypes DEF NoRows
<1>4. work' = [work EXCEPT ![w] = r]
  OBVIOUS
<1> HIDE DEF pend
<1>5. r \in Work
  BY <1>2, <1>3, UpdateTypes
<1>6. /\ r.step = "flushVocab" /\ r.out = work[w].out /\ r.own = work[w].own /\ r.pending = pend
      /\ r.told = work[w].told /\ r.hint = work[w].hint /\ r.from = work[w].from
      /\ r.items = work[w].items /\ r.entity = work[w].entity
  BY <1>2 DEF Work
<1> HIDE DEF r
<1>7. UniqueIn({}, {})
  BY DEF UniqueIn
<1>8. WorkOk(r, entities, aliases)
  BY <1>1, <1>2, <1>3, <1>6, <1>7 DEF WorkOk
<1>9. work' \in [Workers -> Work \cup {None}] /\ Works' /\ Apart' /\ Stays' /\ Loaded'
  BY <1>1, <1>4, <1>5, <1>6, <1>8, OneWorkSameRows DEF tables, loading
<1> QED
  BY <1>9, TypesIfWork DEF Inv

LEMMA LookCapabilityStep ==
  ASSUME Inv, NEW w \in Workers, LookCapability(w)
  PROVE  Inv'
<1> DEFINE c == Head(work[w].items).cap
           T == [slug : Caps, status : {"confirmed", "candidate"}, synonyms : SUBSET Caps]
<1>1. /\ At(w, "capability") /\ work[w] # None /\ work[w].items # <<>>
      /\ UNCHANGED <<cache, tables, queue, warm, faults, warms, loading>>
  BY DEF LookCapability, At
<1>2. work[w] \in Work /\ work[w].items \in Seq(Item) /\ work[w].own \in Rows
  BY <1>1, TheWork, WorkTypes
<1>3. c \in Caps
  BY <1>1, <1>2, ItemTypes
<1>4. Confirmed(w) \subseteq T
  BY <1>1, SeenTypes DEF Confirmed
<1>5. CASE \E v \in Confirmed(w) : NextItem(w, v.slug, FALSE, work[w].own)
  BY <1>1, <1>2, <1>4, <1>5, NextItemStep
<1>6. CASE NextItem(w, c, TRUE, work[w].own)
  BY <1>1, <1>2, <1>3, <1>6, NextItemStep
<1>7. CASE \E v \in Confirmed(w) :
             work' = [work EXCEPT ![w].step = "flushVocab", ![w].pending =
                        [NoRows EXCEPT !.vocab =
                           {VocabRow(v.slug, "confirmed", v.synonyms \cup {c})}]]
  <2>1. PICK v \in Confirmed(w) :
             work' = [work EXCEPT ![w].step = "flushVocab", ![w].pending =
                        [NoRows EXCEPT !.vocab =
                           {VocabRow(v.slug, "confirmed", v.synonyms \cup {c})}]]
    BY <1>7
  <2>2. VocabRow(v.slug, "confirmed", v.synonyms \cup {c}) \in T
    BY <1>3, <1>4 DEF VocabRow
  <2> QED
    BY <1>1, <2>1, <2>2, PendVocabStep
<1>8. CASE work' = [work EXCEPT ![w].step = "flushVocab", ![w].pending =
                      [NoRows EXCEPT !.vocab = {VocabRow(c, "candidate", {})}]]
  <2>1. VocabRow(c, "candidate", {}) \in T
    BY <1>3 DEF VocabRow
  <2> QED
    BY <1>1, <1>8, <2>1, PendVocabStep
<1> QED
  BY <1>5, <1>6, <1>7, <1>8 DEF LookCapability

\* What a flush makes of the job's rows.
LEMMA FlushedTypes ==
  ASSUME Inv, NEW w \in Workers, work[w] # None
  PROVE  /\ Flushed(w) \in Rows
         /\ Flushed(w).entities = work[w].own.entities \cup work[w].pending.entities
         /\ Flushed(w).aliases = work[w].own.aliases \cup work[w].pending.aliases
<1>1. work[w].own \in Rows /\ work[w].pending \in Rows
  BY TheWork, WorkTypes
<1> QED
  BY <1>1 DEF Flushed, Rows

LEMMA FlushEntityStep ==
  ASSUME Inv, NEW w \in Workers, FlushEntity(w)
  PROVE  Inv'
<1> DEFINE r == [work[w] EXCEPT !.own = Flushed(w), !.pending = NoRows, !.step = "capability"]
           pend == work[w].pending
           own == work[w].own
<1>1. /\ work[w] # None /\ work[w].step = "flushEntity" /\ work[w].items # <<>>
      /\ WaitsFor(w) = {} /\ ~Duplicate(w) /\ work' = [work EXCEPT ![w] = r]
  BY DEF FlushEntity, At
<1>2. work[w] \in Work /\ WorkOk(work[w], entities, aliases)
  BY <1>1, TheWork
<1>3. /\ Flushed(w) \in Rows /\ Flushed(w).entities = own.entities \cup pend.entities
      /\ Flushed(w).aliases = own.aliases \cup pend.aliases
  BY <1>1, FlushedTypes
<1>4. r \in Work
  BY <1>2, <1>3, UpdateTypes
<1>5. /\ r.step = "capability" /\ r.out = work[w].out /\ r.own = Flushed(w)
      /\ r.pending = NoRows /\ r.told = work[w].told /\ r.hint = work[w].hint
      /\ r.from = work[w].from /\ r.items = work[w].items /\ r.entity = work[w].entity
  BY <1>2 DEF Work
<1>6. NoRows.entities = {} /\ NoRows.aliases = {} /\ UniqueIn({}, {})
  BY DEF NoRows, UniqueIn
<1>7. UniqueIn(entities \cup r.own.entities, aliases \cup r.own.aliases)
  <2>1. ~SameKey(pend, Seen(w))
    BY <1>1 DEF Duplicate
  <2>2. ~SameKey(pend, [entities |-> entities \cup own.entities,
                        aliases |-> aliases \cup own.aliases, vocab |-> {}])
    BY <1>1, <2>1, SeenTypes DEF SameKey
  <2>3. /\ UniqueIn(entities \cup own.entities, aliases \cup own.aliases)
        /\ UniqueIn(pend.entities, pend.aliases)
    BY <1>2 DEF WorkOk
  <2> HIDE DEF pend, own
  <2>4. UniqueIn((entities \cup own.entities) \cup pend.entities,
                 (aliases \cup own.aliases) \cup pend.aliases)
    BY <2>2, <2>3, UniqueWith
  <2>5. /\ entities \cup (own.entities \cup pend.entities) = (entities \cup own.entities) \cup pend.entities
        /\ aliases \cup (own.aliases \cup pend.aliases) = (aliases \cup own.aliases) \cup pend.aliases
    OBVIOUS
  <2> HIDE DEF r
  <2> QED
    BY <1>3, <1>5, <2>4, <2>5
<1> HIDE DEF r
<1>8. \A o \in r.out : o.told = o.hint /\ Grounded(o.name, o.entity, aliases \cup r.own.aliases)
  BY <1>2, <1>3, <1>5 DEF WorkOk, Grounded
<1>9. Grounded(Head(r.items).name, r.entity, aliases \cup r.own.aliases) /\ r.entity # None
  BY <1>1, <1>2, <1>3, <1>5 DEF WorkOk, Grounded
<1>10. \A e \in r.own.entities : (\E o \in r.out : o.entity = e) \/ e = r.entity
  BY <1>1, <1>2, <1>3, <1>5 DEF WorkOk
<1>11. WorkOk(r, entities, aliases)
  BY <1>1, <1>2, <1>5, <1>6, <1>7, <1>8, <1>9, <1>10 DEF WorkOk
<1>12. \A v \in Workers : work[v] # None /\ v # w => ~SameKey(r.own, work[v].own)
  <2> SUFFICES ASSUME NEW v \in Workers, work[v] # None, v # w
               PROVE  ~SameKey(r.own, work[v].own)
    OBVIOUS
  <2>1. ~SameKey(own, work[v].own)
    BY <1>1 DEF Inv, Apart
  <2>2. ~SameKey(pend, work[v].own)
    BY <1>1 DEF WaitsFor, Open
  <2> QED
    BY <1>3, <1>5, <2>1, <2>2 DEF SameKey
<1>a. ASSUME load # None
      PROVE  ~SameKey(load.own, r.own)
  <2>1. ~SameKey(load.own, own)
    BY <1>1, <1>a DEF Inv, Loaded
  <2>2. ~SameKey(pend, load.own)
    BY <1>1, <1>a DEF WaitsFor, Open
  <2> QED
    BY <1>3, <1>5, <2>1, <2>2 DEF SameKey
<1>13. work' \in [Workers -> Work \cup {None}] /\ Works' /\ Apart' /\ Stays' /\ Loaded'
  BY <1>1, <1>4, <1>11, <1>12, <1>a, OneWork DEF FlushEntity, tables, loading
<1> QED
  BY <1>13, TypesIfWork DEF FlushEntity, Inv

LEMMA FlushVocabStep ==
  ASSUME Inv, NEW w \in Workers, FlushVocab(w)
  PROVE  Inv'
<1>1. /\ At(w, "flushVocab") /\ work[w] # None /\ work[w].step = "flushVocab"
      /\ UNCHANGED <<cache, tables, queue, warm, faults, warms, loading>>
  BY DEF FlushVocab, At
<1>2. PICK v \in work[w].pending.vocab :
        NextItem(w, v.slug, v.status = "candidate", Flushed(w))
  BY DEF FlushVocab
<1>3. WorkOk(work[w], entities, aliases) /\ work[w].pending \in Rows
  BY <1>1, TheWork, WorkTypes
<1>4. v.slug \in Caps
  BY <1>3 DEF Rows
<1>5. work[w].pending.entities = {} /\ work[w].pending.aliases = {}
  BY <1>1, <1>3 DEF WorkOk
<1>6. /\ Flushed(w) \in Rows /\ Flushed(w).entities = work[w].own.entities
      /\ Flushed(w).aliases = work[w].own.aliases
  <2>1. /\ Flushed(w) \in Rows
        /\ Flushed(w).entities = work[w].own.entities \cup work[w].pending.entities
        /\ Flushed(w).aliases = work[w].own.aliases \cup work[w].pending.aliases
    BY <1>1, FlushedTypes
  <2>2. \A x : x \cup {} = x
    OBVIOUS
  <2> QED
    BY <1>5, <2>1, <2>2
<1> QED
  BY <1>1, <1>2, <1>4, <1>6, NextItemStep

-----------------------------------------------------------------------------
(***************************************************************************)
(* The end of a job, and the directory.                                    *)
(***************************************************************************)
\* A job in progress stays in order when rows are committed that are unique with its own.
LEMMA WorkOkLater ==
  ASSUME NEW r, NEW es, NEW as, NEW es2, NEW as2, WorkOk(r, es, as), as \subseteq as2,
         UniqueIn(es2 \cup r.own.entities, as2 \cup r.own.aliases)
  PROVE  WorkOk(r, es2, as2)
<1>1. \A name, e : Grounded(name, e, as \cup r.own.aliases)
                     => Grounded(name, e, as2 \cup r.own.aliases)
  BY DEF Grounded
<1> QED
  BY <1>1 DEF WorkOk

LEMMA CommitStep ==
  ASSUME Inv, NEW w \in Workers, Commit(w)
  PROVE  Inv'
<1> DEFINE own == work[w].own
           T == [slug : Caps, status : {"confirmed", "candidate"}, synonyms : SUBSET Caps]
<1>1. /\ work[w] # None /\ work[w].step = "entity" /\ entities' = entities \cup own.entities
      /\ aliases' = aliases \cup own.aliases /\ objects' = objects \cup work[w].out
      /\ vocab' = {v \in vocab : \A u \in own.vocab : u.slug # v.slug} \cup own.vocab
      /\ job' = [job EXCEPT ![work[w].source] = "done"] /\ work' = [work EXCEPT ![w] = None]
      /\ UNCHANGED <<cache, tries, warm, faults, warms, load, loads>>
  BY DEF Commit, loading
<1>2. /\ WorkOk(work[w], entities, aliases) /\ work[w].source \in Sources
      /\ own.entities \subseteq Entity /\ own.vocab \subseteq T /\ work[w].out \subseteq Object
      /\ own.aliases \subseteq
           [alias : STRING, entity : Entity, status : {"confirmed", "candidate"}]
  BY <1>1, TheWork, WorkTypes
<1>3. TypeOK /\ CacheOk /\ Works /\ Apart /\ Stays /\ Loaded
  BY DEF Inv
<1> HIDE DEF own
<1>4. \A v \in Workers : work'[v] = IF v = w THEN None ELSE work[v]
  BY <1>1, <1>3 DEF TypeOK
<1>5. TypeOK'
  <2>1. /\ entities' \subseteq Entity /\ vocab' \subseteq T
        /\ aliases' \subseteq
             [alias : STRING, entity : Entity, status : {"confirmed", "candidate"}]
    BY <1>1, <1>2, <1>3, TableTypes
  <2>2. [entities |-> entities', aliases |-> aliases', vocab |-> vocab'] \in Rows
    BY <2>1 DEF Rows
  <2> QED
    BY <1>1, <1>2, <1>3, <2>2 DEF TypeOK
<1>6. Works'
  <2> SUFFICES ASSUME NEW v \in Workers, v # w, work[v] # None
               PROVE  WorkOk(work[v], entities', aliases')
    BY <1>4 DEF Works
  <2>1. WorkOk(work[v], entities, aliases) /\ ~SameKey(own, work[v].own)
    BY <1>1, <1>3 DEF Works, Apart, own
  <2>2. /\ UniqueIn(entities \cup own.entities, aliases \cup own.aliases)
        /\ UniqueIn(entities \cup work[v].own.entities, aliases \cup work[v].own.aliases)
    BY <1>2, <2>1 DEF WorkOk, own
  <2>3. UniqueIn(entities' \cup work[v].own.entities, aliases' \cup work[v].own.aliases)
    BY <1>1, <2>1, <2>2, UniqueThree
  <2> QED
    BY <1>1, <2>1, <2>3, WorkOkLater
<1>7. Apart'
  BY <1>3, <1>4 DEF Apart
<1>8. Stays'
  <2>1. UniqueIn(entities', aliases')
    BY <1>1, <1>2 DEF WorkOk, own
  <2>2. \A o \in objects' : o.told = o.hint /\ Grounded(o.name, o.entity, aliases')
    BY <1>1, <1>2, <1>3 DEF Stays, WorkOk, Grounded, own
  <2>3. \A e \in entities' : e.by # None => \E o \in objects' : o.entity = e
    BY <1>1, <1>2, <1>3 DEF Stays, WorkOk, own
  <2> QED
    BY <2>1, <2>2, <2>3 DEF Stays
<1>9. Loaded'
  <2> SUFFICES ASSUME load # None
               PROVE  /\ LoadOk(load, entities', aliases')
                      /\ \A v \in Workers : work'[v] # None => ~SameKey(load.own, work'[v].own)
    BY <1>1 DEF Loaded
  <2>1. LoadOk(load, entities, aliases) /\ ~SameKey(own, load.own)
    BY <1>1, <1>3, KeysSymmetric DEF Loaded, own
  <2>2. /\ UniqueIn(entities \cup own.entities, aliases \cup own.aliases)
        /\ UniqueIn(entities \cup load.own.entities, aliases \cup load.own.aliases)
    BY <1>2, <2>1 DEF WorkOk, LoadOk, own
  <2>3. UniqueIn(entities' \cup load.own.entities, aliases' \cup load.own.aliases)
    BY <1>1, <2>1, <2>2, UniqueThree
  <2>4. LoadOk(load, entities', aliases')
    BY <2>1, <2>3 DEF LoadOk
  <2> QED
    BY <1>3, <1>4, <2>4 DEF Loaded
<1> QED
  BY <1>1, <1>3, <1>5, <1>6, <1>7, <1>8, <1>9 DEF Inv, CacheOk

\* A rollback leaves nothing of the job.
LEMMA FailsStep ==
  ASSUME Inv, NEW w \in Workers, work[w] # None, Fails(w), faults' \in Nat
  PROVE  Inv'
<1>1. /\ UNCHANGED <<cache, entities, aliases, vocab, objects, tries, warm, warms, load, loads>>
      /\ job' = [job EXCEPT ![work[w].source] = StatusAfter(work[w].source)]
      /\ work' = [work EXCEPT ![w] = None]
  BY DEF Fails, Kept, loading
<1>2. work' \in [Workers -> Work \cup {None}] /\ Works' /\ Apart' /\ Stays' /\ Loaded'
  BY <1>1, OneWork
<1>3. job' \in [Sources -> {"queued", "running", "done", "poison"}]
  BY <1>1 DEF Inv, TypeOK, StatusAfter
<1>4. TypeOK'
  BY <1>1, <1>2, <1>3 DEF Inv, TypeOK
<1> QED
  BY <1>1, <1>2, <1>4 DEF Inv, CacheOk

LEMMA FailStep ==
  ASSUME Inv, NEW w \in Workers, FailDuplicate(w) \/ FailDeadlock(w) \/ FailFault(w)
  PROVE  Inv'
<1>1. work[w] # None /\ Fails(w)
  BY DEF FailDuplicate, FailDeadlock, FailFault, Flushing
<1>2. faults' \in Nat
  BY DEF FailDuplicate, FailDeadlock, FailFault, Inv, TypeOK
<1> QED
  BY <1>1, <1>2, FailsStep

\* A step of the load that commits nothing.
LEMMA OneLoad ==
  ASSUME Inv, UNCHANGED <<cache, tables, queue, work, warm, faults, warms>>, loads' \in Nat,
         \/ load' = None
         \/ /\ load' \in Load /\ LoadOk(load', entities, aliases)
            /\ \A w \in Workers : work[w] # None => ~SameKey(load'.own, work[w].own)
  PROVE  Inv'
<1>1. TypeOK' /\ CacheOk'
  BY DEF Inv, TypeOK, CacheOk, tables, queue
<1>2. Works' /\ Apart' /\ Stays'
  BY DEF Inv, Works, Apart, Stays, tables
<1>3. Loaded'
  BY DEF Loaded, tables
<1> QED
  BY <1>1, <1>2, <1>3 DEF Inv

\* The load in progress, and its rows.
LEMMA TheLoad ==
  ASSUME Inv, load # None
  PROVE  /\ load \in Load /\ LoadOk(load, entities, aliases)
         /\ load.own \in Rows /\ load.pending \in Rows /\ load.todo \subseteq Directory
         /\ load.entity \in Entity \cup {None} /\ loads \in Nat
         /\ \A w \in Workers : work[w] # None => ~SameKey(load.own, work[w].own)
  BY DEF Inv, TypeOK, Loaded, Load

\* What the loader sees, and its rows after a flush.
LEMMA LoaderRows ==
  ASSUME Inv, load # None
  PROVE  /\ Seen(Loader).entities = entities \cup load.own.entities
         /\ Seen(Loader).aliases = aliases \cup load.own.aliases
         /\ Flushed(Loader) \in Rows
         /\ Flushed(Loader).entities = load.own.entities \cup load.pending.entities
         /\ Flushed(Loader).aliases = load.own.aliases \cup load.pending.aliases
<1>1. load.own \in Rows /\ load.pending \in Rows
  BY TheLoad
<1> QED
  BY <1>1 DEF Seen, Flushed, Rows

LEMMA LoadBeginStep ==
  ASSUME Inv, LoadBegin
  PROVE  Inv'
<1> DEFINE l == [todo |-> Directory, names |-> {}, entity |-> None, step |-> "look",
                 pending |-> NoRows, own |-> NoRows]
<1>1. load' = l /\ loads' = loads + 1 /\ UNCHANGED <<cache, tables, queue, work, warm, faults, warms>>
  BY DEF LoadBegin
<1>2. l \in Load
  BY RowsTypes DEF Load
<1>3. /\ l.own.entities = {} /\ l.own.aliases = {} /\ l.pending.entities = {}
      /\ l.pending.aliases = {} /\ l.step = "look" /\ l.names = {}
  BY DEF NoRows
<1> HIDE DEF l
<1>4. UniqueIn(entities, aliases)
  BY DEF Inv, Stays
<1>5. LoadOk(l, entities, aliases)
  BY <1>3, <1>4 DEF LoadOk, UniqueIn
<1>6. \A x : ~SameKey(l.own, x)
  BY <1>3 DEF SameKey
<1>7. loads' \in Nat
  BY <1>1 DEF Inv, TypeOK
<1> QED
  BY <1>1, <1>2, <1>5, <1>6, <1>7, OneLoad

LEMMA LoadEntityStep ==
  ASSUME Inv, NEW d \in Directory, LoadEntity(d)
  PROVE  Inv'
<1> DEFINE there == {e \in Seen(Loader).entities : e.slug = d.slug}
           new == [slug |-> d.slug, by |-> None]
           next == [load EXCEPT !.todo = @ \ {d}, !.names = d.aliases]
<1>1. /\ load # None /\ load.step = "look" /\ load.names = {}
      /\ UNCHANGED <<cache, tables, queue, work, warm, faults, warms, loads>>
  BY DEF LoadEntity
<1>2. /\ load \in Load /\ LoadOk(load, entities, aliases)
      /\ load.own \in Rows /\ load.pending \in Rows /\ loads \in Nat
      /\ \A w \in Workers : work[w] # None => ~SameKey(load.own, work[w].own)
  BY <1>1, TheLoad
<1>3. /\ next \in Load /\ next.own = load.own /\ next.pending = load.pending
      /\ next.step = "look" /\ next.names = d.aliases
  BY <1>1, <1>2 DEF Load
<1>4. new \in Entity /\ new.by = None /\ new.slug = d.slug
  BY DEF Entity
<1>5. load.pending.entities = {} /\ load.pending.aliases \subseteq
        [alias : STRING, entity : Entity, status : {"confirmed", "candidate"}]
  BY <1>1, <1>2 DEF LoadOk, Rows
<1> HIDE DEF next, new
<1>6. ASSUME NEW e \in there, load' = [next EXCEPT !.entity = e]
      PROVE  Inv'
  <2>1. e \in Entity
    BY <1>1, <1>2, LoaderRows, TableTypes DEF Inv, Rows
  <2>2. /\ load' \in Load /\ load'.own = load.own /\ load'.pending = load.pending
        /\ load'.step = "look" /\ load'.entity = e
    BY <1>3, <1>6, <2>1 DEF Load
  <2>3. e # None
    BY <2>1
  <2>4. LoadOk(load', entities, aliases)
    BY <1>1, <1>2, <2>2, <2>3 DEF LoadOk
  <2> QED
    BY <1>1, <1>2, <2>2, <2>4, OneLoad
<1>7. ASSUME load' = [next EXCEPT !.entity = new, !.step = "flushEntity",
                                  !.pending.entities = {new}]
      PROVE  Inv'
  <2> DEFINE pend == [load.pending EXCEPT !.entities = {new}]
  <2>1. pend \in Rows /\ pend.entities = {new} /\ pend.aliases = load.pending.aliases
    BY <1>2, <1>4 DEF Rows
  <2>2. load' = [next EXCEPT !.entity = new, !.step = "flushEntity", !.pending = pend]
    BY <1>3, <1>7
  <2> HIDE DEF pend
  <2>3. /\ load' \in Load /\ load'.own = load.own /\ load'.pending = pend
        /\ load'.step = "flushEntity" /\ load'.entity = new
    BY <1>3, <1>4, <2>1, <2>2 DEF Load
  <2>4. new # None
    BY <1>4
  <2>5. UniqueIn(pend.entities, pend.aliases)
    BY <1>2, <2>1 DEF LoadOk, UniqueIn
  <2>6. LoadOk(load', entities, aliases)
    BY <1>2, <1>4, <2>1, <2>3, <2>4, <2>5 DEF LoadOk
  <2> QED
    BY <1>1, <1>2, <2>3, <2>6, OneLoad
<1> QED
  BY <1>6, <1>7 DEF LoadEntity, next, new

\* A flush that finds no row of its keys, waiting or committed, leaves the rows unique.
LEMMA LoaderFlushes ==
  ASSUME Inv, load # None, WaitsFor(Loader) = {}, ~Duplicate(Loader)
  PROVE  /\ UniqueIn(entities \cup Flushed(Loader).entities, aliases \cup Flushed(Loader).aliases)
         /\ \A w \in Workers : work[w] # None => ~SameKey(Flushed(Loader), work[w].own)
<1> DEFINE own == load.own
           pend == load.pending
<1>1. /\ LoadOk(load, entities, aliases)
      /\ \A w \in Workers : work[w] # None => ~SameKey(own, work[w].own)
  BY TheLoad
<1>2. /\ Flushed(Loader).entities = own.entities \cup pend.entities
      /\ Flushed(Loader).aliases = own.aliases \cup pend.aliases
  BY LoaderRows
<1>3. \A w \in Workers : work[w] # None => ~SameKey(pend, work[w].own)
  BY DEF WaitsFor, Open
<1>4. ~SameKey(pend, [entities |-> entities \cup own.entities,
                      aliases |-> aliases \cup own.aliases, vocab |-> {}])
  <2>1. ~SameKey(pend, Seen(Loader))
    BY DEF Duplicate
  <2> QED
    BY <2>1, LoaderRows DEF SameKey
<1>5. /\ UniqueIn(entities \cup own.entities, aliases \cup own.aliases)
      /\ UniqueIn(pend.entities, pend.aliases)
  BY <1>1 DEF LoadOk
<1> HIDE DEF own, pend
<1>6. UniqueIn((entities \cup own.entities) \cup pend.entities,
               (aliases \cup own.aliases) \cup pend.aliases)
  BY <1>4, <1>5, UniqueWith
<1>7. /\ entities \cup (own.entities \cup pend.entities) = (entities \cup own.entities) \cup pend.entities
      /\ aliases \cup (own.aliases \cup pend.aliases) = (aliases \cup own.aliases) \cup pend.aliases
  OBVIOUS
<1>8. \A w \in Workers : work[w] # None => ~SameKey(Flushed(Loader), work[w].own)
  BY <1>1, <1>2, <1>3 DEF SameKey
<1> QED
  BY <1>2, <1>6, <1>7, <1>8

LEMMA LoadFlushStep ==
  ASSUME Inv, LoadFlush
  PROVE  Inv'
<1>1. /\ load # None /\ load.step = "flushEntity" /\ WaitsFor(Loader) = {} /\ ~Duplicate(Loader)
      /\ load' = [load EXCEPT !.own = Flushed(Loader), !.pending = NoRows, !.step = "look"]
      /\ UNCHANGED <<cache, tables, queue, work, warm, faults, warms, loads>>
  BY DEF LoadFlush
<1>2. load \in Load /\ LoadOk(load, entities, aliases) /\ loads \in Nat
  BY <1>1, TheLoad
<1>3. /\ Flushed(Loader) \in Rows
      /\ Flushed(Loader).entities = load.own.entities \cup load.pending.entities
      /\ Flushed(Loader).aliases = load.own.aliases \cup load.pending.aliases
  BY <1>1, LoaderRows
<1>4. /\ load' \in Load /\ load'.own = Flushed(Loader) /\ load'.pending = NoRows
      /\ load'.step = "look" /\ load'.names = load.names /\ load'.entity = load.entity
  BY <1>1, <1>2, <1>3, RowsTypes DEF Load
<1>5. NoRows.entities = {} /\ NoRows.aliases = {} /\ UniqueIn({}, {})
  BY DEF NoRows, UniqueIn
<1>6. /\ UniqueIn(entities \cup load'.own.entities, aliases \cup load'.own.aliases)
      /\ \A w \in Workers : work[w] # None => ~SameKey(load'.own, work[w].own)
  BY <1>1, <1>4, LoaderFlushes
<1>7. LoadOk(load', entities, aliases)
  BY <1>2, <1>3, <1>4, <1>5, <1>6 DEF LoadOk
<1> QED
  BY <1>1, <1>2, <1>4, <1>6, <1>7, OneLoad

LEMMA LoadAliasStep ==
  ASSUME Inv, NEW d \in Directory, NEW a \in d.aliases, LoadAlias(a)
  PROVE  Inv'
<1> DEFINE rows == Seen(Loader).aliases \cup load.pending.aliases
           row == AliasRow(a, load.entity, "confirmed")
           after == IF \E r \in rows : r.alias = a THEN load.pending.aliases
                                                   ELSE load.pending.aliases \cup {row}
           pend == [load.pending EXCEPT !.aliases = after]
           T == [alias : STRING, entity : Entity, status : {"confirmed", "candidate"}]
<1>1. /\ load # None /\ load.step = "look" /\ a \in load.names
      /\ load' = [load EXCEPT !.names = @ \ {a}, !.pending.aliases =
                    IF \E r \in rows : r.alias = a THEN @ ELSE @ \cup {row}]
      /\ UNCHANGED <<cache, tables, queue, work, warm, faults, warms, loads>>
  BY DEF LoadAlias
<1>2. /\ load \in Load /\ LoadOk(load, entities, aliases) /\ load.pending \in Rows
      /\ load.entity \in Entity \cup {None} /\ loads \in Nat
      /\ \A w \in Workers : work[w] # None => ~SameKey(load.own, work[w].own)
  BY <1>1, TheLoad
<1>3. load.entity \in Entity /\ load.pending.entities = {} /\ load.pending.aliases \subseteq T
  BY <1>1, <1>2 DEF LoadOk, Rows
<1>4. row \in T /\ row.alias = a /\ row.status = "confirmed"
  BY <1>3 DEF AliasRow
<1>5. load' = [load EXCEPT !.names = @ \ {a}, !.pending = pend]
  BY <1>1, <1>2 DEF Load, Rows
<1> HIDE DEF row
<1>6. after \subseteq T /\ UniqueIn({}, after)
  <2>1. UniqueIn({}, load.pending.aliases)
    BY <1>2, <1>3 DEF LoadOk
  <2> QED
    BY <1>3, <1>4, <2>1 DEF UniqueIn
<1> HIDE DEF after
<1>7. pend \in Rows /\ pend.entities = {} /\ pend.aliases = after
  BY <1>2, <1>3, <1>6 DEF Rows
<1> HIDE DEF pend
<1>8. /\ load' \in Load /\ load'.own = load.own /\ load'.pending = pend
      /\ load'.step = "look" /\ load'.entity = load.entity
  BY <1>1, <1>2, <1>5, <1>7 DEF Load
<1>9. LoadOk(load', entities, aliases)
  <2>1. load.entity # None
    BY <1>3
  <2> QED
    BY <1>1, <1>2, <1>6, <1>7, <1>8, <2>1 DEF LoadOk
<1> QED
  BY <1>1, <1>2, <1>8, <1>9, OneLoad

LEMMA LoadEndStep ==
  ASSUME Inv, LoadEnd
  PROVE  Inv'
<1>1. /\ load # None /\ load.step = "look" /\ load.names = {}
      /\ load' = [load EXCEPT !.step = "commit"]
      /\ UNCHANGED <<cache, tables, queue, work, warm, faults, warms, loads>>
  BY DEF LoadEnd
<1>2. /\ load \in Load /\ LoadOk(load, entities, aliases) /\ loads \in Nat
      /\ \A w \in Workers : work[w] # None => ~SameKey(load.own, work[w].own)
  BY <1>1, TheLoad
<1>3. /\ load' \in Load /\ load'.own = load.own /\ load'.pending = load.pending
      /\ load'.step = "commit" /\ load'.names = {} /\ load'.entity = load.entity
  BY <1>1, <1>2 DEF Load
<1>4. LoadOk(load', entities, aliases)
  BY <1>1, <1>2, <1>3 DEF LoadOk
<1> QED
  BY <1>1, <1>2, <1>3, <1>4, OneLoad

\* The directory's rows are unique with the ones that are there.
LEMMA LoadCommitStep ==
  ASSUME Inv, LoadCommit
  PROVE  Inv'
<1> DEFINE own == Flushed(Loader)
<1>1. TypeOK /\ CacheOk /\ Works /\ Apart /\ Stays
  BY DEF Inv
<1>2. /\ load # None /\ load.step = "commit" /\ WaitsFor(Loader) = {} /\ ~Duplicate(Loader)
      /\ entities' = entities \cup own.entities /\ aliases' = aliases \cup own.aliases
      /\ load' = None
      /\ UNCHANGED <<cache, vocab, objects, queue, work, warm, faults, warms, loads>>
  BY DEF LoadCommit
<1>3. /\ own \in Rows /\ own.entities = load.own.entities \cup load.pending.entities
      /\ UniqueIn(entities \cup own.entities, aliases \cup own.aliases)
      /\ \A w \in Workers : work[w] # None => ~SameKey(own, work[w].own)
  BY <1>2, LoaderRows, LoaderFlushes
<1>4. \A e \in own.entities : e.by = None
  BY <1>2, <1>3, TheLoad DEF LoadOk
<1> HIDE DEF own
<1>5. TypeOK'
  <2>1. /\ entities' \subseteq Entity
        /\ vocab' \subseteq [slug : Caps, status : {"confirmed", "candidate"}, synonyms : SUBSET Caps]
        /\ aliases' \subseteq
             [alias : STRING, entity : Entity, status : {"confirmed", "candidate"}]
    BY <1>1, <1>2, <1>3, TableTypes DEF Rows
  <2>2. [entities |-> entities', aliases |-> aliases', vocab |-> vocab'] \in Rows
    BY <2>1 DEF Rows
  <2> QED
    BY <1>1, <1>2, <2>2 DEF TypeOK, queue
<1>6. Works'
  <2> SUFFICES ASSUME NEW w \in Workers, work[w] # None
               PROVE  WorkOk(work[w], entities', aliases')
    BY <1>2 DEF Works
  <2>1. WorkOk(work[w], entities, aliases) /\ ~SameKey(own, work[w].own)
    BY <1>1, <1>3 DEF Works
  <2>2. UniqueIn(entities \cup work[w].own.entities, aliases \cup work[w].own.aliases)
    BY <2>1 DEF WorkOk
  <2>3. UniqueIn(entities' \cup work[w].own.entities, aliases' \cup work[w].own.aliases)
    BY <1>2, <1>3, <2>1, <2>2, UniqueThree
  <2> QED
    BY <1>2, <2>1, <2>3, WorkOkLater
<1>7. Stays'
  BY <1>1, <1>2, <1>3, <1>4 DEF Stays, Grounded
<1>8. Loaded'
  BY <1>2 DEF Loaded
<1> QED
  BY <1>1, <1>2, <1>5, <1>6, <1>7, <1>8 DEF Inv, CacheOk, Apart

LEMMA LoadStepStep ==
  ASSUME Inv, LoadStep
  PROVE  Inv'
<1>1. ASSUME LoadFails
      PROVE  Inv'
  <2>1. /\ load # None /\ load' = None
        /\ UNCHANGED <<cache, tables, queue, work, warm, faults, warms, loads>>
    BY <1>1 DEF LoadFails, Flushing
  <2> QED
    BY <2>1, TheLoad, OneLoad
<1> QED
  BY <1>1, LoadEntityStep, LoadAliasStep, LoadFlushStep, LoadEndStep, LoadCommitStep DEF LoadStep

-----------------------------------------------------------------------------
LEMMA StepKeepsInv ==
  ASSUME Inv, Next
  PROVE  Inv'
<1>1. ASSUME NEW w \in Workers, StartSome(w)
      PROVE  Inv'
  BY <1>1, StartStep DEF StartSome
<1>2. ASSUME NEW w \in Workers, Step(w)
      PROVE  Inv'
  BY <1>2, HitStep, MissStep, AnswerStep, RejectStep, LookEntityStep, FlushEntityStep,
     LookCapabilityStep, FlushVocabStep, CommitStep, FailStep DEF Step
<1> QED
  BY <1>1, <1>2, FailStep, WarmStep, LoadBeginStep, LoadStepStep DEF Next

LEMMA StutterKeepsInv ==
  ASSUME Inv, UNCHANGED vars
  PROVE  Inv'
<1>1. TypeOK' /\ CacheOk'
  BY DEF vars, Inv, TypeOK, CacheOk
<1>2. Works' /\ Apart' /\ Stays' /\ Loaded'
  BY DEF vars, Inv, Works, Apart, Stays, Loaded
<1> QED
  BY <1>1, <1>2 DEF Inv

\* The invariant holds in every state.
THEOREM Correct == Spec => []Inv
<1>1. Inv /\ [Next]_vars => Inv'
  BY StepKeepsInv, StutterKeepsInv
<1> QED
  BY <1>1, InvInit, PTL DEF Spec

\* What the tables, the cache and the workers hold is of its type in every state.
THEOREM TypeCorrect == Spec => []TypeOK
  BY Correct, PTL DEF Inv

\* One entity for each name and none that nothing is about, for any number of workers,
\* whatever the model answers and whatever is similar to what.
THEOREM EntitiesSound == Spec => []EntitiesAreSound
<1>1. Inv => EntitiesAreSound
  <2> SUFFICES ASSUME Inv
               PROVE  UniqueNames /\ SameNameSameEntity /\ NoOrphanEntity
    BY DEF EntitiesAreSound
  <2>1. UniqueNames /\ NoOrphanEntity
    BY DEF Inv, Stays, UniqueIn, UniqueNames, NoOrphanEntity
  <2>2. SameNameSameEntity
    BY DEF Inv, Stays, UniqueIn, Grounded, SameNameSameEntity
  <2> QED
    BY <2>1, <2>2
<1> QED
  BY <1>1, Correct, PTL

\* An object comes from a prompt that named the subject its job was bound to.
THEOREM BindingHonoured == Spec => []BindingIsHonoured
<1>1. Inv => BindingIsHonoured
  BY DEF Inv, Stays, BindingIsHonoured
<1> QED
  BY <1>1, Correct, PTL

-----------------------------------------------------------------------------
(***************************************************************************)
(* One job of a source at a time, and all of it or nothing.                *)
(***************************************************************************)

\* A running job is one worker's, and a queued one has attempts left.
JobInv ==
    /\ \A w \in Workers : work[w] # None => job[work[w].source] = "running"
    /\ \A v, w \in Workers :
         work[v] # None /\ work[w] # None /\ work[v].source = work[w].source => v = w
    /\ \A s \in Sources : job[s] = "running" => \E w \in Workers : work[w] # None /\ work[w].source = s
    /\ \A s \in Sources : job[s] = "queued" => tries[s] < MaxAttempts
    /\ \A s \in Sources : job[s] = "poison" => tries[s] = MaxAttempts
    /\ \A s \in Sources : tries[s] <= MaxAttempts
    /\ \A w \in Workers : work[w] # None => \A o \in work[w].out : o.source = work[w].source
    /\ \A o \in objects : job[o.source] = "done"

LEMMA JobInvInit == Init => JobInv
  BY DEF Init, JobInv

\* The item as it will be persisted is an object of the job's source.
LEMMA AcceptedOk ==
  ASSUME Inv, NEW w \in Workers, At(w, "capability") \/ At(w, "flushVocab"),
         NEW slug \in Caps, NEW isNew \in BOOLEAN
  PROVE  Accepted(w, slug, isNew) \in Object /\ Accepted(w, slug, isNew).source = work[w].source
<1>1. work[w] # None /\ work[w].step \in {"capability", "flushVocab"} /\ work[w].items # <<>>
  BY DEF At
<1>2. /\ work[w] \in Work /\ WorkOk(work[w], entities, aliases) /\ work[w].items \in Seq(Item)
      /\ work[w].source \in Sources /\ work[w].hint \in Hint /\ work[w].told \in Hint
      /\ work[w].entity \in Entity \cup {None} /\ work[w].from \in Sources \cup {None}
  BY <1>1, TheWork, WorkTypes
<1>3. work[w].entity \in Entity /\ work[w].from \in Sources
  BY <1>1, <1>2 DEF WorkOk
<1>4. /\ Head(work[w].items).name \in Names /\ Head(work[w].items).cap \in Caps
      /\ Head(work[w].items).inc \in Incs \cup {None}
  BY <1>1, <1>2, ItemTypes
<1>5. work[w].entity.slug \in STRING
  BY <1>3 DEF Entity
<1>6. [slug |-> work[w].entity.slug, cap |-> slug,
         inc |-> IF slug = Incident THEN Head(work[w].items).inc ELSE None] \in Subject
  BY <1>4, <1>5 DEF Subject
<1> QED
  BY <1>2, <1>3, <1>4, <1>6 DEF Accepted, Object

\* A job goes on with its source, and all that it adds to its objects is of that source.
GoesOn(w) ==
    \E r \in Work : /\ work' = [work EXCEPT ![w] = r]
                    /\ r.source = work[w].source
                    /\ \A o \in r.out : o \in work[w].out \/ o.source = work[w].source

LEMMA NextItemGoesOn ==
  ASSUME Inv, NEW w \in Workers, At(w, "capability") \/ At(w, "flushVocab"),
         NEW slug \in Caps, NEW isNew \in BOOLEAN, NEW rows \in Rows, NextItem(w, slug, isNew, rows)
  PROVE  GoesOn(w)
<1> DEFINE acc == Accepted(w, slug, isNew)
           r == [work[w] EXCEPT !.out = @ \cup {acc},
                                !.items = Tail(@), !.entity = None, !.step = "entity",
                                !.pending = NoRows, !.own = rows]
<1>1. work[w] # None /\ work[w].items # <<>>
  BY DEF At
<1>2. work[w] \in Work /\ work[w].items \in Seq(Item)
  BY <1>1, TheWork, WorkTypes
<1>3. Tail(work[w].items) \in Seq(Item)
  BY <1>1, <1>2, ItemTypes
<1>4. acc \in Object /\ acc.source = work[w].source
  BY AcceptedOk
<1>5. work' = [work EXCEPT ![w] = r]
  BY DEF NextItem
<1> HIDE DEF acc
<1>6. r \in Work
  BY <1>2, <1>3, <1>4, UpdateTypes
<1>7. r.source = work[w].source /\ r.out = work[w].out \cup {acc}
  BY <1>2 DEF Work
<1> HIDE DEF r
<1> QED
  BY <1>4, <1>5, <1>6, <1>7 DEF GoesOn

LEMMA PendVocabGoesOn ==
  ASSUME Inv, NEW w \in Workers, At(w, "capability"), NEW row,
         row \in [slug : Caps, status : {"confirmed", "candidate"}, synonyms : SUBSET Caps],
         work' = [work EXCEPT ![w].step = "flushVocab", ![w].pending = [NoRows EXCEPT !.vocab = {row}]]
  PROVE  GoesOn(w)
<1> DEFINE pend == [NoRows EXCEPT !.vocab = {row}]
           r == [work[w] EXCEPT !.step = "flushVocab", !.pending = pend]
<1>1. work[w] \in Work
  BY TheWork DEF At
<1>2. pend \in Rows
  BY RowsTypes
<1>3. work' = [work EXCEPT ![w] = r]
  OBVIOUS
<1> HIDE DEF pend
<1>4. r \in Work
  BY <1>1, <1>2, UpdateTypes
<1>5. r.source = work[w].source /\ r.out = work[w].out
  BY <1>1 DEF Work
<1> HIDE DEF r
<1> QED
  BY <1>3, <1>4, <1>5 DEF GoesOn

LEMMA AnswerGoesOn ==
  ASSUME Inv, NEW w \in Workers, Hit(w) \/ Miss(w) \/ Answer(w)
  PROVE  GoesOn(w)
<1>1. work[w] # None /\ work[w].step \in {"extract", "asked"}
  BY DEF Hit, Miss, Answer
<1>2. work[w] \in Work /\ work[w].source \in Sources /\ work[w].hint \in Hint
  BY <1>1, TheWork, WorkTypes
<1>3. ASSUME NEW e, e.items \in Seq(Item), e.told = work[w].hint, e.from \in Sources,
             work' = [work EXCEPT ![w] = WithAnswer(w, e)]
      PROVE  GoesOn(w)
  <2>1. WithAnswer(w, e) \in Work
    BY <1>1, <1>3, WithAnswerOk
  <2>2. WithAnswer(w, e).source = work[w].source /\ WithAnswer(w, e).out = work[w].out
    BY <1>2 DEF WithAnswer, Work
  <2> QED
    BY <1>3, <2>1, <2>2 DEF GoesOn
<1>4. CASE Hit(w)
  <2>1. PICK e \in Cached(work[w].source, work[w].hint) :
          work' = [work EXCEPT ![w] = WithAnswer(w, e)]
    BY <1>4 DEF Hit
  <2>2. e \in cache /\ e.key = Key(work[w].source, work[w].hint)
    BY DEF Cached
  <2>3. e.items \in Seq(Item) /\ e.from \in Sources /\ e.told = work[w].hint
    BY <2>2 DEF Inv, TypeOK, Entry, CacheOk, Key
  <2> QED
    BY <1>3, <2>1, <2>3
<1>5. CASE Answer(w)
  <2>1. PICK items \in Answers[work[w].source] :
          work' = [work EXCEPT ![w] =
                     WithAnswer(w, [items |-> items, from |-> work[w].source,
                                    told |-> work[w].hint])]
    BY <1>5 DEF Answer
  <2> DEFINE e == [items |-> items, from |-> work[w].source, told |-> work[w].hint]
  <2>2. items \in Seq(Item)
    BY <1>2
  <2>3. e.items \in Seq(Item) /\ e.told = work[w].hint /\ e.from \in Sources
    BY <1>2, <2>2
  <2>4. work' = [work EXCEPT ![w] = WithAnswer(w, e)]
    BY <2>1
  <2> HIDE DEF e
  <2> QED
    BY <1>3, <2>3, <2>4
<1>6. CASE Miss(w)
  <2> DEFINE r == [work[w] EXCEPT !.step = "asked"]
  <2>1. work' = [work EXCEPT ![w] = r]
    BY <1>6 DEF Miss
  <2>2. r \in Work
    BY <1>2, UpdateTypes
  <2>3. r.source = work[w].source /\ r.out = work[w].out
    BY <1>2 DEF Work
  <2> HIDE DEF r
  <2> QED
    BY <2>1, <2>2, <2>3 DEF GoesOn
<1> QED
  BY <1>4, <1>5, <1>6

LEMMA EntityGoesOn ==
  ASSUME Inv, NEW w \in Workers, Reject(w) \/ LookEntity(w) \/ FlushEntity(w)
  PROVE  GoesOn(w)
<1>1. work[w] # None /\ work[w].items # <<>>
  BY DEF Reject, LookEntity, FlushEntity, At
<1>2. work[w] \in Work /\ work[w].items \in Seq(Item)
  BY <1>1, TheWork, WorkTypes
<1>3. Tail(work[w].items) \in Seq(Item) /\ Head(work[w].items).name \in Names
  BY <1>1, <1>2, ItemTypes
<1>4. ASSUME NEW r \in Work, work' = [work EXCEPT ![w] = r],
             r.source = work[w].source, r.out = work[w].out
      PROVE  GoesOn(w)
  BY <1>4 DEF GoesOn
<1>5. CASE Reject(w)
  <2> DEFINE r == [work[w] EXCEPT !.items = Tail(@)]
  <2>1. work' = [work EXCEPT ![w] = r]
    BY <1>5 DEF Reject
  <2>2. r \in Work
    BY <1>2, <1>3, UpdateTypes
  <2>3. r.source = work[w].source /\ r.out = work[w].out
    BY <1>2 DEF Work
  <2> HIDE DEF r
  <2> QED
    BY <1>4, <2>1, <2>2, <2>3
<1>6. CASE FlushEntity(w)
  <2> DEFINE r == [work[w] EXCEPT !.own = Flushed(w), !.pending = NoRows, !.step = "capability"]
  <2>1. work' = [work EXCEPT ![w] = r]
    BY <1>6 DEF FlushEntity
  <2>2. Flushed(w) \in Rows
    BY <1>1, FlushedTypes
  <2>3. r \in Work
    BY <1>2, <2>2, UpdateTypes
  <2>4. r.source = work[w].source /\ r.out = work[w].out
    BY <1>2 DEF Work
  <2> HIDE DEF r
  <2> QED
    BY <1>4, <2>1, <2>3, <2>4
<1> DEFINE name == Head(work[w].items).name
<1>7. ASSUME NEW row \in Exact(w, Alias[name]),
             work' = [work EXCEPT ![w].entity = row.entity, ![w].step = "capability"]
      PROVE  GoesOn(w)
  <2> DEFINE r == [work[w] EXCEPT !.entity = row.entity, !.step = "capability"]
  <2>1. row.entity \in Entity
    BY <1>1, SeenTypes DEF Exact
  <2>2. r \in Work
    BY <1>2, <2>1, UpdateTypes
  <2>3. r.source = work[w].source /\ r.out = work[w].out
    BY <1>2 DEF Work
  <2>4. work' = [work EXCEPT ![w] = r]
    BY <1>7
  <2> HIDE DEF r
  <2> QED
    BY <1>4, <2>2, <2>3, <2>4
<1>8. ASSUME NEW n \in NewRows(w, name),
             work' = [work EXCEPT ![w].entity = n.entity, ![w].pending = n.rows,
                                  ![w].step = "flushEntity"]
      PROVE  GoesOn(w)
  <2> DEFINE r == [work[w] EXCEPT !.entity = n.entity, !.pending = n.rows, !.step = "flushEntity"]
  <2>1. n.entity \in Entity /\ n.rows \in Rows
    BY <1>1, <1>3, NewRowsOk
  <2>2. r \in Work
    BY <1>2, <2>1, UpdateTypes
  <2>3. r.source = work[w].source /\ r.out = work[w].out
    BY <1>2 DEF Work
  <2>4. work' = [work EXCEPT ![w] = r]
    BY <1>8
  <2> HIDE DEF r
  <2> QED
    BY <1>4, <2>2, <2>3, <2>4
<1>9. CASE LookEntity(w)
  BY <1>7, <1>8, <1>9 DEF LookEntity
<1> QED
  BY <1>5, <1>6, <1>9

LEMMA CapabilityGoesOn ==
  ASSUME Inv, NEW w \in Workers, LookCapability(w) \/ FlushVocab(w)
  PROVE  GoesOn(w)
<1> DEFINE c == Head(work[w].items).cap
           T == [slug : Caps, status : {"confirmed", "candidate"}, synonyms : SUBSET Caps]
<1>1. work[w] # None /\ work[w].items # <<>> /\ (At(w, "capability") \/ At(w, "flushVocab"))
  BY DEF LookCapability, FlushVocab, At
<1>2. /\ work[w] \in Work /\ work[w].items \in Seq(Item) /\ work[w].own \in Rows
      /\ work[w].pending \in Rows
  BY <1>1, TheWork, WorkTypes
<1>3. c \in Caps
  BY <1>1, <1>2, ItemTypes
<1>4. CASE FlushVocab(w)
  <2>1. PICK v \in work[w].pending.vocab :
          NextItem(w, v.slug, v.status = "candidate", Flushed(w))
    BY <1>4 DEF FlushVocab
  <2>2. v.slug \in Caps
    BY <1>2 DEF Rows
  <2>3. Flushed(w) \in Rows
    BY <1>1, FlushedTypes
  <2>4. (v.status = "candidate") \in BOOLEAN
    OBVIOUS
  <2> QED
    BY <1>1, <2>1, <2>2, <2>3, <2>4, NextItemGoesOn
<1>5. CASE LookCapability(w)
  <2>0. At(w, "capability")
    BY <1>5 DEF LookCapability
  <2>1. Confirmed(w) \subseteq T
    BY <1>1, SeenTypes DEF Confirmed
  <2>2. ASSUME NEW v \in Confirmed(w), NextItem(w, v.slug, FALSE, work[w].own)
        PROVE  GoesOn(w)
    BY <1>1, <1>2, <2>1, <2>2, NextItemGoesOn
  <2>3. CASE NextItem(w, c, TRUE, work[w].own)
    BY <1>1, <1>2, <1>3, <2>3, NextItemGoesOn
  <2>4. ASSUME NEW v \in Confirmed(w),
               work' = [work EXCEPT ![w].step = "flushVocab", ![w].pending =
                          [NoRows EXCEPT !.vocab =
                             {VocabRow(v.slug, "confirmed", v.synonyms \cup {c})}]]
        PROVE  GoesOn(w)
    <3>1. VocabRow(v.slug, "confirmed", v.synonyms \cup {c}) \in T
      BY <1>3, <2>1 DEF VocabRow
    <3> QED
      BY <2>0, <2>4, <3>1, PendVocabGoesOn
  <2>5. CASE work' = [work EXCEPT ![w].step = "flushVocab", ![w].pending =
                        [NoRows EXCEPT !.vocab = {VocabRow(c, "candidate", {})}]]
    <3>1. VocabRow(c, "candidate", {}) \in T
      BY <1>3 DEF VocabRow
    <3> QED
      BY <2>0, <2>5, <3>1, PendVocabGoesOn
  <2> QED
    BY <1>5, <2>2, <2>3, <2>4, <2>5 DEF LookCapability
<1> QED
  BY <1>4, <1>5

LEMMA StepGoesOn ==
  ASSUME Inv, NEW w \in Workers, GoOn(w)
  PROVE  work[w] # None /\ GoesOn(w) /\ UNCHANGED <<tables, queue>>
<1>1. GoesOn(w)
  BY AnswerGoesOn, EntityGoesOn, CapabilityGoesOn DEF GoOn
<1>2. work[w] # None /\ UNCHANGED <<tables, queue>>
  BY DEF GoOn, Hit, Miss, Answer, Reject, LookEntity, FlushEntity, LookCapability, FlushVocab, At
<1> QED
  BY <1>1, <1>2

-----------------------------------------------------------------------------
LEMMA JobInvStep ==
  ASSUME Inv, JobInv, Next
  PROVE  JobInv'
<1>0. TypeOK
  BY DEF Inv
<1>1. /\ work \in [Workers -> Work \cup {None}] /\ tries \in [Sources -> Nat]
      /\ job \in [Sources -> {"queued", "running", "done", "poison"}] /\ objects \subseteq Object
  BY DEF Inv, TypeOK
<1>2. \A w \in Workers : work[w] # None => work[w] \in Work /\ work[w].source \in Sources
  BY TheWork, WorkTypes
<1>3. \A o \in objects : o.source \in Sources
  BY <1>1 DEF Object
<1>4. ASSUME NEW w \in Workers, NEW s \in Sources,
             NEW hint \in SiblingSubjects(s) \cup {None}, Start(w, s, hint)
      PROVE  JobInv'
  <2> DEFINE r == [source |-> s, hint |-> hint, step |-> "extract", items |-> <<>>,
                   told |-> None, from |-> None, entity |-> None, pending |-> NoRows,
                   own |-> NoRows, out |-> {}]
  <2>1. hint \in Hint /\ <<>> \in Seq(Item)
    BY <1>0, <1>4, SiblingTypes DEF Hint
  <2>2. r \in Work
    BY <2>1, RowsTypes DEF Work, Hint
  <2>3. r.source = s /\ r.out = {}
    OBVIOUS
  <2>4. /\ work' = [work EXCEPT ![w] = r] /\ job' = [job EXCEPT ![s] = "running"]
        /\ tries' = [tries EXCEPT ![s] = @ + 1] /\ objects' = objects
        /\ work[w] = None /\ job[s] = "queued"
    BY <1>4 DEF Start, tables
  <2> HIDE DEF r
  <2>5. r # None
    BY <2>2
  <2>6. \A v \in Workers : work'[v] = IF v = w THEN r ELSE work[v]
    BY <1>1, <2>4
  <2>7. \A x \in Sources : /\ job'[x] = IF x = s THEN "running" ELSE job[x]
                           /\ tries'[x] = IF x = s THEN tries[s] + 1 ELSE tries[x]
    BY <1>1, <2>4
  <2>8. tries[s] + 1 <= MaxAttempts
    BY <1>1, <2>4 DEF JobInv
  <2> QED
    BY <1>1, <1>2, <1>3, <2>3, <2>4, <2>5, <2>6, <2>7, <2>8 DEF JobInv
<1>5. ASSUME NEW w \in Workers, GoOn(w)
      PROVE  JobInv'
  <2>1. work[w] # None /\ GoesOn(w) /\ UNCHANGED <<job, tries, objects>>
    BY <1>5, StepGoesOn DEF tables, queue
  <2>2. PICK r \in Work : /\ work' = [work EXCEPT ![w] = r]
                          /\ r.source = work[w].source
                          /\ \A o \in r.out : o \in work[w].out \/ o.source = work[w].source
    BY <2>1 DEF GoesOn
  <2>3. \A v \in Workers : work'[v] = IF v = w THEN r ELSE work[v]
    BY <1>1, <2>2
  <2>4. r # None
    OBVIOUS
  <2> QED
    BY <1>2, <2>1, <2>2, <2>3, <2>4 DEF JobInv
<1>6. ASSUME NEW w \in Workers, Commit(w)
      PROVE  JobInv'
  <2>1. /\ work[w] # None /\ objects' = objects \cup work[w].out /\ tries' = tries
        /\ job' = [job EXCEPT ![work[w].source] = "done"] /\ work' = [work EXCEPT ![w] = None]
    BY <1>6 DEF Commit
  <2>2. \A v \in Workers : work'[v] = IF v = w THEN None ELSE work[v]
    BY <1>1, <2>1
  <2>3. \A x \in Sources : job'[x] = IF x = work[w].source THEN "done" ELSE job[x]
    BY <1>1, <2>1
  <2> QED
    BY <1>1, <1>2, <1>3, <2>1, <2>2, <2>3 DEF JobInv
<1>7. ASSUME NEW w \in Workers, work[w] # None, Fails(w)
      PROVE  JobInv'
  <2> DEFINE st == StatusAfter(work[w].source)
  <2>1. /\ objects' = objects /\ tries' = tries
        /\ job' = [job EXCEPT ![work[w].source] = st]
        /\ work' = [work EXCEPT ![w] = None]
    BY <1>7 DEF Fails
  <2>2. \A v \in Workers : work'[v] = IF v = w THEN None ELSE work[v]
    BY <1>1, <2>1
  <2>3. /\ \/ st = "poison" /\ tries[work[w].source] >= MaxAttempts
           \/ st = "queued" /\ tries[work[w].source] < MaxAttempts
        /\ tries[work[w].source] \in Nat
    <3>1. tries[work[w].source] \in Nat
      BY <1>1, <1>2, <1>7
    <3> QED
      BY <3>1 DEF StatusAfter
  <2> HIDE DEF st
  <2>4. \A x \in Sources : job'[x] = IF x = work[w].source THEN st ELSE job[x]
    BY <1>1, <2>1
  <2>5. \A o \in objects : o.source # work[w].source
    BY <1>7 DEF JobInv
  <2> QED
    BY <1>1, <1>2, <1>3, <1>7, <2>1, <2>2, <2>3, <2>4, <2>5 DEF JobInv
<1>8. CASE UNCHANGED <<job, tries, work, objects>>
  BY <1>8 DEF JobInv
<1>9. ASSUME NEW w \in Workers, FailDuplicate(w) \/ FailDeadlock(w) \/ FailFault(w)
      PROVE  JobInv'
  BY <1>7, <1>9 DEF FailDuplicate, FailDeadlock, FailFault, Flushing
<1>10. ASSUME NEW w \in Workers, Step(w)
       PROVE  JobInv'
  BY <1>5, <1>6, <1>9, <1>10 DEF Step, GoOn
<1>11. ASSUME NEW w \in Workers, StartSome(w)
       PROVE  JobInv'
  BY <1>4, <1>11 DEF StartSome
<1>12. ASSUME NEW s \in Sources, WarmAsk(s) \/ WarmAnswer(s)
       PROVE  UNCHANGED <<job, tries, work, objects>>
  BY <1>12 DEF WarmAsk, WarmAnswer, tables, queue
<1>13. LoadBegin \/ LoadStep => UNCHANGED <<job, tries, work, objects>>
  BY DEF LoadBegin, LoadStep, LoadEntity, LoadAlias, LoadFlush, LoadEnd, LoadCommit, LoadFails,
         tables, queue
<1> QED
  BY <1>8, <1>9, <1>10, <1>11, <1>12, <1>13 DEF Next

\* A job is all or nothing and is tried a bounded number of times: while a source is
\* queued, running or poisoned nothing that came out of it is committed, at most one
\* worker is on it, and it is poisoned at MAX_ATTEMPTS, never before and never after.
JobsAreAtomic ==
    /\ \A o \in objects : job[o.source] = "done"
    /\ \A v, w \in Busy : work[v].source = work[w].source => v = w
    /\ \A w \in Busy : job[work[w].source] = "running"
    /\ \A s \in Sources : /\ tries[s] <= MaxAttempts
                          /\ job[s] = "queued" => tries[s] < MaxAttempts
                          /\ job[s] = "poison" => tries[s] = MaxAttempts

\* The two invariants together are inductive.
THEOREM JobsCorrect == Spec => []JobInv
<1>1. Inv /\ JobInv /\ [Next]_vars => JobInv'
  BY JobInvStep DEF vars, JobInv
<1> QED
  BY <1>1, JobInvInit, Correct, PTL DEF Spec

\* The jobs of a source one at a time, each of them whole or gone.
THEOREM JobsAtomic == Spec => []JobsAreAtomic
<1>1. JobInv => JobsAreAtomic
  BY DEF JobInv, JobsAreAtomic, Busy
<1> QED
  BY <1>1, JobsCorrect, PTL

-----------------------------------------------------------------------------
(***************************************************************************)
(* Losing a race, and not losing it again.  A name is told by aliases if a *)
(* look-up of it finds one; rows are known if they tell every name that    *)
(* would make one of their entities, unless its slug is blunt.             *)
(***************************************************************************)
Tells(as, a) == \E x \in as : x.status = "confirmed" /\ (x.alias = a \/ <<x.alias, a>> \in Alike)

Known(es, as) ==
    /\ \A e \in es, n \in Names : Slug[n] = e.slug /\ Telling(e.slug) => Tells(as, Alias[n])
    /\ \A r \in as : \E x \in as : x.status = "confirmed" /\ x.alias = r.alias

Sure(k) == ~Blunt(k)

WorkKnown(r) ==
    /\ Known(r.own.entities, r.own.aliases)
    /\ Known(r.pending.entities, r.pending.aliases)
    /\ \A k \in Keys(r.pending) :
         /\ k \in KeysOf(r.source)
         /\ Sure(k) => k \notin KeysThere(r.own.entities, r.own.aliases, r.own.vocab)
    /\ IsFiniteSet(Keys(r.pending))
    /\ \A i \in DOMAIN r.items : r.items[i] \in Hints(r.source)

\* A load has the aliases of each of its entities, or they are there, or still to do.
LoadKnown(l, as) ==
    /\ \A e \in l.own.entities \cup l.pending.entities :
         \E d \in Directory :
           /\ d.slug = e.slug
           /\ \A b \in d.aliases :
                \/ b \in l.names
                \/ \E x \in as \cup (l.own.aliases \cup l.pending.aliases) : x.alias = b
    /\ \A x \in l.own.aliases \cup l.pending.aliases : x.status = "confirmed"

KnownInv ==
    /\ Known(entities, aliases)
    /\ load # None => LoadKnown(load, aliases)
    /\ \A w \in Workers : work[w] # None => WorkKnown(work[w])
    /\ \A e \in cache : \A s \in Sources :
         Content[s] = e.key.content => \A i \in DOMAIN e.items : e.items[i] \in Hints(s)

\* A key that the look-up has not found.
New(w, k) ==
    \/ \E a : k = <<"alias", a>> /\ \A x \in Seen(w).aliases : x.status = "confirmed" => x.alias # a
    \/ \E c : k = <<"capability", c>> /\ \A v \in Seen(w).vocab : v.slug # c
    \/ \E n \in Names : k = <<"entity", Slug[n]>> /\ ~Tells(Seen(w).aliases, Alias[n])

\* What an attempt that goes on does to its rows: nothing, it drops or keeps what was
\* pending, or it is about to flush what its look-up has not found.
LooksUp(w, p) ==
    /\ Known(p.entities, p.aliases)
    /\ \A k \in Keys(p) : k \in KeysOf(work[w].source) /\ New(w, k)
    /\ IsFiniteSet(Keys(p))

RowsGoOn(w, r) ==
    \/ r.pending = work[w].pending /\ r.own = work[w].own
    \/ r.pending = NoRows /\ (r.own = work[w].own \/ r.own = Flushed(w))
    \/ r.own = work[w].own /\ LooksUp(w, r.pending)

Effect(w, r) ==
    /\ work' = [work EXCEPT ![w] = r]
    /\ r.source = work[w].source
    /\ \A i \in DOMAIN r.items : r.items[i] \in Hints(r.source)
    /\ RowsGoOn(w, r)

LEMMA KnownUnion ==
  ASSUME NEW es, NEW as, NEW es2, NEW as2, Known(es, as), Known(es2, as2)
  PROVE  Known(es \cup es2, as \cup as2)
  BY DEF Known, Tells

LEMMA FinitePair == \A x, y : IsFiniteSet({x, y})
<1> SUFFICES ASSUME NEW x, NEW y
             PROVE  IsFiniteSet({x, y})
  OBVIOUS
<1>1. {x, y} = {x} \cup {y}
  OBVIOUS
<1>2. IsFiniteSet({x})
  BY FS_Singleton
<1>3. IsFiniteSet({x} \cup {y})
  BY <1>2, FS_AddElement
<1> QED
  BY <1>1, <1>3

LEMMA KnownNone == Known({}, {})
  BY DEF Known

LEMMA NoKeys == Keys(NoRows) = {} /\ IsFiniteSet(Keys(NoRows))
<1>1. Keys(NoRows) = {}
  BY DEF Keys, NoRows
<1> QED
  BY <1>1, FS_EmptySet

LEMMA KeysIn ==
  ASSUME NEW p, NEW k
  PROVE  k \in Keys(p) <=> \/ \E e \in p.entities : k = <<"entity", e.slug>>
                           \/ \E x \in p.aliases : x.status = "confirmed" /\ k = <<"alias", x.alias>>
                           \/ \E v \in p.vocab : v.status = "candidate" /\ k = <<"capability", v.slug>>
  BY DEF Keys, SlugKey, AliasKey, CapKey

LEMMA KeysThereIn ==
  ASSUME NEW es, NEW as, NEW vs, NEW k
  PROVE  k \in KeysThere(es, as, vs)
           <=> \/ \E e \in es : k = <<"entity", e.slug>>
               \/ \E x \in as : x.status = "confirmed" /\ k = <<"alias", x.alias>>
               \/ \E v \in vs : k = <<"capability", v.slug>>
  BY DEF KeysThere, SlugKey, AliasKey, CapKey

\* The first item and the rest are hints of the source.
LEMMA HintItems ==
  ASSUME NEW its \in Seq(Item), its # <<>>, NEW S, \A i \in DOMAIN its : its[i] \in S
  PROVE  Head(its) \in S /\ \A i \in DOMAIN Tail(its) : Tail(its)[i] \in S
<1>1. Head(its) = its[1] /\ 1 \in DOMAIN its
  OBVIOUS
<1>2. \A i \in DOMAIN Tail(its) : i + 1 \in DOMAIN its /\ Tail(its)[i] = its[i + 1]
  OBVIOUS
<1> QED
  BY <1>1, <1>2

LEMMA AnswerHints ==
  ASSUME NEW s \in Sources, NEW items \in Answers[s], NEW t \in Sources, Content[t] = Content[s]
  PROVE  \A i \in DOMAIN items : items[i] \in Hints(t)
  BY DEF Hints

LEMMA HintKeys ==
  ASSUME NEW s, NEW i \in Hints(s)
  PROVE  /\ <<"entity", Slug[i.name]>> \in KeysOf(s)
         /\ <<"alias", Alias[i.name]>> \in KeysOf(s)
         /\ <<"capability", i.cap>> \in KeysOf(s)
  BY DEF KeysOf

\* A key that is new is none of the job's own rows', nor one that is committed.
LEMMA NewIsNotOwn ==
  ASSUME Inv, KnownInv, NEW w \in Workers, work[w] # None, NEW k, New(w, k), Sure(k)
  PROVE  k \notin KeysThere(work[w].own.entities, work[w].own.aliases, work[w].own.vocab)
<1> DEFINE own == work[w].own
<1>1. /\ \A x \in own.aliases : x \in Seen(w).aliases
      /\ \A v \in own.vocab : v \in Seen(w).vocab
  BY DEF Seen
<1>2. Known(own.entities, own.aliases)
  BY DEF KnownInv, WorkKnown
<1> HIDE DEF own
<1>3. SUFFICES ASSUME k \in KeysThere(own.entities, own.aliases, own.vocab)
               PROVE  FALSE
  BY DEF own
<1>4. CASE \E a : k = <<"alias", a>> /\ \A x \in Seen(w).aliases : x.status = "confirmed" => x.alias # a
  BY <1>1, <1>3, <1>4, KeysThereIn
<1>5. CASE \E c : k = <<"capability", c>> /\ \A v \in Seen(w).vocab : v.slug # c
  BY <1>1, <1>3, <1>5, KeysThereIn
<1>6. CASE \E n \in Names : k = <<"entity", Slug[n]>> /\ ~Tells(Seen(w).aliases, Alias[n])
  <2>1. PICK n \in Names : k = <<"entity", Slug[n]>> /\ ~Tells(Seen(w).aliases, Alias[n])
    BY <1>6
  <2>2. Telling(Slug[n])
    BY <2>1 DEF Sure, Blunt
  <2>3. \E e \in own.entities : k = <<"entity", e.slug>>
    BY <1>3, <2>1, KeysThereIn
  <2>4. Tells(own.aliases, Alias[n])
    BY <1>2, <2>1, <2>2, <2>3 DEF Known
  <2> QED
    BY <1>1, <2>1, <2>4 DEF Tells
<1> QED
  BY <1>4, <1>5, <1>6 DEF New

\* What a new name makes is known, named by the hint, and new.
LEMMA NewRowsLookUp ==
  ASSUME Inv, NEW w \in Workers, work[w] # None, work[w].items # <<>>,
         \A i \in DOMAIN work[w].items : work[w].items[i] \in Hints(work[w].source),
         Exact(w, Alias[Head(work[w].items).name]) = {},
         NEW n \in NewRows(w, Head(work[w].items).name)
  PROVE  LooksUp(w, n.rows)
<1> DEFINE i == Head(work[w].items)
           a == Alias[i.name]
           e == [slug |-> Slug[i.name], by |-> work[w].source]
<1>1. work[w].items \in Seq(Item)
  BY TheWork, WorkTypes
<1>2. i \in Hints(work[w].source)
  BY <1>1, HintItems
<1>3. i.name \in Names
  BY <1>1, ItemTypes
<1> DEFINE Shape == /\ n.rows.vocab = {}
                    /\ \A x \in n.rows.aliases : x.alias = a
                    /\ \A x \in n.rows.entities : x.slug = Slug[i.name]
                    /\ n.rows.entities # {} => Matching(w, a, Alike) = {}
<1>4. Shape
  <2>1. \A x, st : AliasRow(a, x, st).alias = a
    BY DEF AliasRow
  <2>2. e.slug = Slug[i.name]
    OBVIOUS
  <2> HIDE DEF e
  <2>3. ASSUME NEW row, row.alias = a, n.rows = [NoRows EXCEPT !.aliases = {row}]
        PROVE  Shape
    BY <2>3 DEF NoRows
  <2>4. ASSUME NEW r1, NEW r2, r1.alias = a, r2.alias = a, Matching(w, a, Alike) = {},
               n.rows = [NoRows EXCEPT !.entities = {e}, !.aliases = {r1, r2}]
        PROVE  Shape
    BY <2>2, <2>4 DEF NoRows
  <2>5. CASE \E r \in Matching(w, a, Alike) :
               n = [entity |-> r.entity, rows |-> [NoRows EXCEPT !.aliases =
                                                   {AliasRow(a, r.entity, "confirmed")}]]
    <3>1. PICK r \in Matching(w, a, Alike) :
               n = [entity |-> r.entity, rows |-> [NoRows EXCEPT !.aliases =
                                                   {AliasRow(a, r.entity, "confirmed")}]]
      BY <2>5
    <3>2. n.rows = [NoRows EXCEPT !.aliases = {AliasRow(a, r.entity, "confirmed")}]
      BY <3>1
    <3> HIDE DEF Shape
    <3> QED
      BY <2>1, <2>3, <3>2
  <2>6. CASE /\ Matching(w, a, Alike) = {}
             /\ \E r \in Matching(w, a, Near) :
                  n = [entity |-> e, rows |-> [NoRows EXCEPT !.entities = {e}, !.aliases =
                         {AliasRow(a, e, "confirmed"), AliasRow(a, r.entity, "candidate")}]]
    <3>1. PICK r \in Matching(w, a, Near) :
                  n = [entity |-> e, rows |-> [NoRows EXCEPT !.entities = {e}, !.aliases =
                         {AliasRow(a, e, "confirmed"), AliasRow(a, r.entity, "candidate")}]]
      BY <2>6
    <3>2. n.rows = [NoRows EXCEPT !.entities = {e}, !.aliases =
                      {AliasRow(a, e, "confirmed"), AliasRow(a, r.entity, "candidate")}]
      BY <3>1
    <3> DEFINE r1 == AliasRow(a, e, "confirmed")
               r2 == AliasRow(a, r.entity, "candidate")
    <3>3. r1.alias = a /\ r2.alias = a /\ n.rows = [NoRows EXCEPT !.entities = {e}, !.aliases = {r1, r2}]
      BY <2>1, <3>2
    <3> HIDE DEF Shape, r1, r2, a
    <3> QED
      BY <2>4, <2>6, <3>3
  <2>7. CASE /\ Matching(w, a, Alike) = {}
             /\ n = [entity |-> e, rows |-> [NoRows EXCEPT !.entities = {e},
                                               !.aliases = {AliasRow(a, e, "confirmed")}]]
    <3>1. n.rows = [NoRows EXCEPT !.entities = {e},
                      !.aliases = {AliasRow(a, e, "confirmed"), AliasRow(a, e, "confirmed")}]
      BY <2>7
    <3> DEFINE r1 == AliasRow(a, e, "confirmed")
    <3>2. r1.alias = a /\ n.rows = [NoRows EXCEPT !.entities = {e}, !.aliases = {r1, r1}]
      BY <2>1, <3>1
    <3> HIDE DEF Shape, r1, a
    <3> QED
      BY <2>4, <2>7, <3>2
  <2> HIDE DEF Shape, a
  <2> QED
    BY <2>5, <2>6, <2>7 DEF NewRows, e, a
<1>5. \E x \in n.rows.aliases : x.status = "confirmed" /\ x.alias = a
  <2>1. Grounded(i.name, n.entity, n.rows.aliases)
    BY <1>3, NewRowsOk
  <2> QED
    BY <2>1 DEF Grounded
<1>6. Shape /\ i.name \in Names /\ Exact(w, a) = {}
  BY <1>3, <1>4
<1> HIDE DEF i, e
<1>7. Known(n.rows.entities, n.rows.aliases)
  <2>1. ASSUME NEW x \in n.rows.entities, NEW m \in Names, Slug[m] = x.slug, Telling(x.slug)
        PROVE  Tells(n.rows.aliases, Alias[m])
    <3>1. Slug[i.name] = Slug[m]
      BY <1>6, <2>1
    <3>2. a = Alias[m] \/ <<a, Alias[m]>> \in Alike
      BY <1>6, <2>1, <3>1 DEF Telling
    <3> QED
      BY <1>5, <3>2 DEF Tells
  <2>2. \A r \in n.rows.aliases : \E x \in n.rows.aliases : x.status = "confirmed" /\ x.alias = r.alias
    BY <1>5, <1>6
  <2> QED
    BY <2>1, <2>2 DEF Known
<1>8. ASSUME NEW k \in Keys(n.rows)
      PROVE  /\ k \in KeysOf(work[w].source) /\ New(w, k)
             /\ k = <<"entity", Slug[i.name]>> \/ k = <<"alias", a>>
  <2>1. CASE \E x \in n.rows.entities : k = <<"entity", x.slug>>
    <3>1. k = <<"entity", Slug[i.name]>> /\ Matching(w, a, Alike) = {}
      BY <1>6, <2>1
    <3>2. k \in KeysOf(work[w].source)
      BY <1>2, <3>1, HintKeys DEF i
    <3>3. ~Tells(Seen(w).aliases, a)
      BY <1>6, <3>1 DEF Tells, Exact, Matching
    <3> QED
      BY <1>6, <3>1, <3>2, <3>3 DEF New
  <2>2. CASE \E x \in n.rows.aliases : x.status = "confirmed" /\ k = <<"alias", x.alias>>
    <3>1. k = <<"alias", a>>
      BY <1>6, <2>2
    <3>2. k \in KeysOf(work[w].source)
      BY <1>2, <3>1, HintKeys DEF i
    <3>3. \A x \in Seen(w).aliases : x.status = "confirmed" => x.alias # a
      BY <1>6 DEF Exact
    <3> QED
      BY <3>1, <3>2, <3>3 DEF New
  <2>3. n.rows.vocab = {}
    BY <1>6
  <2> QED
    BY <2>1, <2>2, <2>3, KeysIn
<1>9. IsFiniteSet(Keys(n.rows))
  <2>1. Keys(n.rows) \subseteq {<<"entity", Slug[i.name]>>, <<"alias", a>>}
    BY <1>8
  <2> QED
    BY <2>1, FinitePair, FS_Subset
<1> QED
  BY <1>7, <1>8, <1>9 DEF LooksUp

-----------------------------------------------------------------------------
\* The attempt that goes on, action by action.
LEMMA AnswerEffect ==
  ASSUME Inv, KnownInv, NEW w \in Workers, Hit(w) \/ Miss(w) \/ Answer(w)
  PROVE  \E r \in Work : Effect(w, r)
<1>1. work[w] # None /\ work[w].step \in {"extract", "asked"}
  BY DEF Hit, Miss, Answer
<1>2. work[w] \in Work /\ work[w].source \in Sources /\ work[w].hint \in Hint
  BY <1>1, TheWork, WorkTypes
<1>a. WorkKnown(work[w])
  BY <1>1 DEF KnownInv
<1>3. ASSUME NEW e, e.items \in Seq(Item), e.told = work[w].hint, e.from \in Sources,
             work' = [work EXCEPT ![w] = WithAnswer(w, e)],
             \A i \in DOMAIN e.items : e.items[i] \in Hints(work[w].source)
      PROVE  \E r \in Work : Effect(w, r)
  <2>1. WithAnswer(w, e) \in Work
    BY <1>1, <1>3, WithAnswerOk
  <2>2. /\ WithAnswer(w, e).source = work[w].source /\ WithAnswer(w, e).items = e.items
        /\ WithAnswer(w, e).own = work[w].own /\ WithAnswer(w, e).pending = work[w].pending
    BY <1>2 DEF WithAnswer, Work
  <2> QED
    BY <1>3, <2>1, <2>2 DEF Effect, RowsGoOn
<1>4. CASE Hit(w)
  <2>1. PICK e \in Cached(work[w].source, work[w].hint) :
          work' = [work EXCEPT ![w] = WithAnswer(w, e)]
    BY <1>4 DEF Hit
  <2>2. e \in cache /\ e.key = Key(work[w].source, work[w].hint)
    BY DEF Cached
  <2>3. e.items \in Seq(Item) /\ e.from \in Sources /\ e.told = work[w].hint
    BY <2>2 DEF Inv, TypeOK, Entry, CacheOk, Key
  <2>4. e.key.content = Content[work[w].source]
    BY <2>2 DEF Key
  <2>5. \A i \in DOMAIN e.items : e.items[i] \in Hints(work[w].source)
    BY <1>2, <2>2, <2>4 DEF KnownInv
  <2> QED
    BY <1>3, <2>1, <2>3, <2>5
<1>5. CASE Answer(w)
  <2>1. PICK items \in Answers[work[w].source] :
          work' = [work EXCEPT ![w] =
                     WithAnswer(w, [items |-> items, from |-> work[w].source,
                                    told |-> work[w].hint])]
    BY <1>5 DEF Answer
  <2> DEFINE e == [items |-> items, from |-> work[w].source, told |-> work[w].hint]
  <2>2. items \in Seq(Item) /\ \A i \in DOMAIN items : items[i] \in Hints(work[w].source)
    BY <1>2, AnswerHints
  <2>3. /\ e.items \in Seq(Item) /\ e.told = work[w].hint /\ e.from \in Sources
        /\ \A i \in DOMAIN e.items : e.items[i] \in Hints(work[w].source)
    BY <1>2, <2>2
  <2>4. work' = [work EXCEPT ![w] = WithAnswer(w, e)]
    BY <2>1
  <2> HIDE DEF e
  <2> QED
    BY <1>3, <2>3, <2>4
<1>6. CASE Miss(w)
  <2> DEFINE r == [work[w] EXCEPT !.step = "asked"]
  <2>1. work' = [work EXCEPT ![w] = r]
    BY <1>6 DEF Miss
  <2>2. r \in Work
    BY <1>2, UpdateTypes
  <2>3. /\ r.source = work[w].source /\ r.items = work[w].items
        /\ r.own = work[w].own /\ r.pending = work[w].pending
    BY <1>2 DEF Work
  <2> HIDE DEF r
  <2> QED
    BY <1>a, <2>1, <2>2, <2>3 DEF Effect, RowsGoOn, WorkKnown
<1> QED
  BY <1>4, <1>5, <1>6

LEMMA EntityEffect ==
  ASSUME Inv, KnownInv, NEW w \in Workers, Reject(w) \/ LookEntity(w) \/ FlushEntity(w)
  PROVE  \E r \in Work : Effect(w, r)
<1>1. work[w] # None /\ work[w].items # <<>>
  BY DEF Reject, LookEntity, FlushEntity, At
<1>2. work[w] \in Work /\ work[w].items \in Seq(Item)
  BY <1>1, TheWork, WorkTypes
<1>3. Tail(work[w].items) \in Seq(Item) /\ Head(work[w].items).name \in Names
  BY <1>1, <1>2, ItemTypes
<1>a. \A i \in DOMAIN work[w].items : work[w].items[i] \in Hints(work[w].source)
  BY <1>1 DEF KnownInv, WorkKnown
<1>b. \A i \in DOMAIN Tail(work[w].items) : Tail(work[w].items)[i] \in Hints(work[w].source)
  BY <1>1, <1>2, <1>a, HintItems
<1>5. CASE Reject(w)
  <2> DEFINE r == [work[w] EXCEPT !.items = Tail(@)]
  <2>1. work' = [work EXCEPT ![w] = r]
    BY <1>5 DEF Reject
  <2>2. r \in Work
    BY <1>2, <1>3, UpdateTypes
  <2>3. /\ r.source = work[w].source /\ r.items = Tail(work[w].items)
        /\ r.own = work[w].own /\ r.pending = work[w].pending
    BY <1>2 DEF Work
  <2> HIDE DEF r
  <2> QED
    BY <1>b, <2>1, <2>2, <2>3 DEF Effect, RowsGoOn
<1>6. CASE FlushEntity(w)
  <2> DEFINE r == [work[w] EXCEPT !.own = Flushed(w), !.pending = NoRows, !.step = "capability"]
  <2>1. work' = [work EXCEPT ![w] = r]
    BY <1>6 DEF FlushEntity
  <2>2. Flushed(w) \in Rows
    BY <1>1, FlushedTypes
  <2>3. r \in Work
    BY <1>2, <2>2, UpdateTypes
  <2>4. /\ r.source = work[w].source /\ r.items = work[w].items
        /\ r.own = Flushed(w) /\ r.pending = NoRows
    BY <1>2 DEF Work
  <2> HIDE DEF r
  <2> QED
    BY <1>a, <2>1, <2>3, <2>4 DEF Effect, RowsGoOn
<1> DEFINE name == Head(work[w].items).name
<1>7. ASSUME NEW row \in Exact(w, Alias[name]),
             work' = [work EXCEPT ![w].entity = row.entity, ![w].step = "capability"]
      PROVE  \E r \in Work : Effect(w, r)
  <2> DEFINE r == [work[w] EXCEPT !.entity = row.entity, !.step = "capability"]
  <2>1. row.entity \in Entity
    BY <1>1, SeenTypes DEF Exact
  <2>2. r \in Work
    BY <1>2, <2>1, UpdateTypes
  <2>3. /\ r.source = work[w].source /\ r.items = work[w].items
        /\ r.own = work[w].own /\ r.pending = work[w].pending
    BY <1>2 DEF Work
  <2>4. work' = [work EXCEPT ![w] = r]
    BY <1>7
  <2> HIDE DEF r
  <2> QED
    BY <1>a, <2>2, <2>3, <2>4 DEF Effect, RowsGoOn
<1>8. ASSUME NEW n \in NewRows(w, name), Exact(w, Alias[name]) = {},
             work' = [work EXCEPT ![w].entity = n.entity, ![w].pending = n.rows,
                                  ![w].step = "flushEntity"]
      PROVE  \E r \in Work : Effect(w, r)
  <2> DEFINE r == [work[w] EXCEPT !.entity = n.entity, !.pending = n.rows, !.step = "flushEntity"]
  <2>1. n.entity \in Entity /\ n.rows \in Rows
    BY <1>1, <1>3, NewRowsOk
  <2>2. r \in Work
    BY <1>2, <2>1, UpdateTypes
  <2>3. /\ r.source = work[w].source /\ r.items = work[w].items
        /\ r.own = work[w].own /\ r.pending = n.rows
    BY <1>2 DEF Work
  <2>4. work' = [work EXCEPT ![w] = r]
    BY <1>8
  <2>5. LooksUp(w, n.rows)
    BY <1>1, <1>a, <1>8, NewRowsLookUp
  <2> HIDE DEF r
  <2> QED
    BY <1>a, <2>2, <2>3, <2>4, <2>5 DEF Effect, RowsGoOn
<1>9. CASE LookEntity(w)
  BY <1>7, <1>8, <1>9 DEF LookEntity
<1> QED
  BY <1>5, <1>6, <1>9

LEMMA NextItemEffect ==
  ASSUME Inv, KnownInv, NEW w \in Workers, At(w, "capability") \/ At(w, "flushVocab"),
         NEW slug \in Caps, NEW isNew \in BOOLEAN, NEW rows \in Rows, NextItem(w, slug, isNew, rows),
         rows = work[w].own \/ rows = Flushed(w)
  PROVE  \E r \in Work : Effect(w, r)
<1> DEFINE acc == Accepted(w, slug, isNew)
           r == [work[w] EXCEPT !.out = @ \cup {acc},
                                !.items = Tail(@), !.entity = None, !.step = "entity",
                                !.pending = NoRows, !.own = rows]
<1>1. work[w] # None /\ work[w].items # <<>>
  BY DEF At
<1>2. work[w] \in Work /\ work[w].items \in Seq(Item)
  BY <1>1, TheWork, WorkTypes
<1>3. Tail(work[w].items) \in Seq(Item)
  BY <1>1, <1>2, ItemTypes
<1>4. acc \in Object
  BY AcceptedOk
<1>a. \A i \in DOMAIN work[w].items : work[w].items[i] \in Hints(work[w].source)
  BY <1>1 DEF KnownInv, WorkKnown
<1>b. \A i \in DOMAIN Tail(work[w].items) : Tail(work[w].items)[i] \in Hints(work[w].source)
  BY <1>1, <1>2, <1>a, HintItems
<1>5. work' = [work EXCEPT ![w] = r]
  BY DEF NextItem
<1> HIDE DEF acc
<1>6. r \in Work
  BY <1>2, <1>3, <1>4, UpdateTypes
<1>7. /\ r.source = work[w].source /\ r.items = Tail(work[w].items)
      /\ r.own = rows /\ r.pending = NoRows
  BY <1>2 DEF Work
<1> HIDE DEF r
<1> QED
  BY <1>b, <1>5, <1>6, <1>7 DEF Effect, RowsGoOn

LEMMA PendVocabEffect ==
  ASSUME Inv, KnownInv, NEW w \in Workers, At(w, "capability"), NEW row,
         row \in [slug : Caps, status : {"confirmed", "candidate"}, synonyms : SUBSET Caps],
         work' = [work EXCEPT ![w].step = "flushVocab", ![w].pending = [NoRows EXCEPT !.vocab = {row}]],
         row.status = "candidate" => /\ row.slug = Head(work[w].items).cap
                                     /\ \A v \in Seen(w).vocab : v.slug # row.slug
  PROVE  \E r \in Work : Effect(w, r)
<1> DEFINE pend == [NoRows EXCEPT !.vocab = {row}]
           r == [work[w] EXCEPT !.step = "flushVocab", !.pending = pend]
<1>1. work[w] \in Work /\ work[w].items \in Seq(Item) /\ work[w].items # <<>> /\ work[w] # None
  BY TheWork, WorkTypes DEF At
<1>2. pend \in Rows /\ pend.entities = {} /\ pend.aliases = {} /\ pend.vocab = {row}
  BY RowsTypes DEF NoRows
<1>3. work' = [work EXCEPT ![w] = r]
  OBVIOUS
<1> HIDE DEF pend
<1>4. r \in Work
  BY <1>1, <1>2, UpdateTypes
<1>5. /\ r.source = work[w].source /\ r.items = work[w].items
      /\ r.own = work[w].own /\ r.pending = pend
  BY <1>1 DEF Work
<1> HIDE DEF r
<1>a. \A i \in DOMAIN work[w].items : work[w].items[i] \in Hints(work[w].source)
  BY <1>1 DEF KnownInv, WorkKnown
<1>6. Head(work[w].items) \in Hints(work[w].source)
  BY <1>1, <1>a, HintItems
<1>7. LooksUp(w, pend)
  <2>1. Known(pend.entities, pend.aliases)
    BY <1>2, KnownNone
  <2>2. ASSUME NEW k \in Keys(pend)
        PROVE  k \in KeysOf(work[w].source) /\ New(w, k) /\ k = <<"capability", row.slug>>
    <3>1. row.status = "candidate" /\ k = <<"capability", row.slug>>
      BY <1>2, KeysIn
    <3>2. k \in KeysOf(work[w].source)
      BY <1>6, <3>1, HintKeys
    <3> QED
      BY <3>1, <3>2 DEF New
  <2>3. IsFiniteSet(Keys(pend))
    <3>1. Keys(pend) \subseteq {<<"capability", row.slug>>, <<"capability", row.slug>>}
      BY <2>2
    <3> QED
      BY <3>1, FinitePair, FS_Subset
  <2> QED
    BY <2>1, <2>2, <2>3 DEF LooksUp
<1> QED
  BY <1>a, <1>3, <1>4, <1>5, <1>7 DEF Effect, RowsGoOn

LEMMA CapabilityEffect ==
  ASSUME Inv, KnownInv, NEW w \in Workers, LookCapability(w) \/ FlushVocab(w)
  PROVE  \E r \in Work : Effect(w, r)
<1> DEFINE c == Head(work[w].items).cap
           T == [slug : Caps, status : {"confirmed", "candidate"}, synonyms : SUBSET Caps]
<1>1. work[w] # None /\ work[w].items # <<>> /\ (At(w, "capability") \/ At(w, "flushVocab"))
  BY DEF LookCapability, FlushVocab, At
<1>2. /\ work[w] \in Work /\ work[w].items \in Seq(Item) /\ work[w].own \in Rows
      /\ work[w].pending \in Rows
  BY <1>1, TheWork, WorkTypes
<1>3. c \in Caps
  BY <1>1, <1>2, ItemTypes
<1>4. CASE FlushVocab(w)
  <2>1. PICK v \in work[w].pending.vocab :
          NextItem(w, v.slug, v.status = "candidate", Flushed(w))
    BY <1>4 DEF FlushVocab
  <2>2. v.slug \in Caps
    BY <1>2 DEF Rows
  <2>3. Flushed(w) \in Rows
    BY <1>1, FlushedTypes
  <2>4. (v.status = "candidate") \in BOOLEAN
    OBVIOUS
  <2> QED
    BY <1>1, <2>1, <2>2, <2>3, <2>4, NextItemEffect
<1>5. CASE LookCapability(w)
  <2>0. At(w, "capability")
    BY <1>5 DEF LookCapability
  <2>1. Confirmed(w) \subseteq T
    BY <1>1, SeenTypes DEF Confirmed
  <2>2. ASSUME NEW v \in Confirmed(w), NextItem(w, v.slug, FALSE, work[w].own)
        PROVE  \E r \in Work : Effect(w, r)
    BY <1>1, <1>2, <2>1, <2>2, NextItemEffect
  <2>3. CASE NextItem(w, c, TRUE, work[w].own)
    BY <1>1, <1>2, <1>3, <2>3, NextItemEffect
  <2>4. ASSUME NEW v \in Confirmed(w),
               work' = [work EXCEPT ![w].step = "flushVocab", ![w].pending =
                          [NoRows EXCEPT !.vocab =
                             {VocabRow(v.slug, "confirmed", v.synonyms \cup {c})}]]
        PROVE  \E r \in Work : Effect(w, r)
    <3>1. /\ VocabRow(v.slug, "confirmed", v.synonyms \cup {c}) \in T
          /\ VocabRow(v.slug, "confirmed", v.synonyms \cup {c}).status # "candidate"
      BY <1>3, <2>1 DEF VocabRow
    <3> QED
      BY <2>0, <2>4, <3>1, PendVocabEffect
  <2>5. CASE /\ \A v \in Seen(w).vocab : v.slug # c
             /\ work' = [work EXCEPT ![w].step = "flushVocab", ![w].pending =
                           [NoRows EXCEPT !.vocab = {VocabRow(c, "candidate", {})}]]
    <3>1. VocabRow(c, "candidate", {}) \in T /\ VocabRow(c, "candidate", {}).slug = c
      BY <1>3 DEF VocabRow
    <3> QED
      BY <2>0, <2>5, <3>1, PendVocabEffect
  <2> QED
    BY <1>5, <2>2, <2>3, <2>4, <2>5 DEF LookCapability
<1> QED
  BY <1>4, <1>5

LEMMA GoOnEffect ==
  ASSUME Inv, KnownInv, NEW w \in Workers, GoOn(w)
  PROVE  \E r \in Work : Effect(w, r)
  BY AnswerEffect, EntityEffect, CapabilityEffect DEF GoOn

-----------------------------------------------------------------------------
(***************************************************************************)
(* The rows that are there stay known, and no job clashes with itself.     *)
(***************************************************************************)
LEMMA EffectKnown ==
  ASSUME Inv, KnownInv, NEW w \in Workers, work[w] # None, NEW r \in Work, Effect(w, r)
  PROVE  WorkKnown(r)
<1>1. /\ RowsGoOn(w, r) /\ r.source = work[w].source
      /\ \A i \in DOMAIN r.items : r.items[i] \in Hints(r.source)
  BY DEF Effect
<1>2. WorkKnown(work[w])
  BY DEF KnownInv
<1>3. CASE r.pending = work[w].pending /\ r.own = work[w].own
  BY <1>1, <1>2, <1>3 DEF WorkKnown
<1>4. CASE r.pending = NoRows /\ (r.own = work[w].own \/ r.own = Flushed(w))
  <2>1. /\ Flushed(w).entities = work[w].own.entities \cup work[w].pending.entities
        /\ Flushed(w).aliases = work[w].own.aliases \cup work[w].pending.aliases
    BY FlushedTypes
  <2>2. Known(Flushed(w).entities, Flushed(w).aliases)
    BY <1>2, <2>1, KnownUnion DEF WorkKnown
  <2>3. Known(r.own.entities, r.own.aliases)
    BY <1>2, <1>4, <2>2 DEF WorkKnown
  <2>4. Known(r.pending.entities, r.pending.aliases)
    BY <1>4, KnownNone DEF NoRows
  <2> QED
    BY <1>1, <1>4, <2>3, <2>4, NoKeys DEF WorkKnown
<1>5. CASE r.own = work[w].own /\ LooksUp(w, r.pending)
  <2>1. \A k \in Keys(r.pending) :
          Sure(k) => k \notin KeysThere(r.own.entities, r.own.aliases, r.own.vocab)
    BY <1>5, NewIsNotOwn DEF LooksUp
  <2> QED
    BY <1>1, <1>2, <1>5, <2>1 DEF WorkKnown, LooksUp
<1> QED
  BY <1>1, <1>3, <1>4, <1>5 DEF RowsGoOn

\* What is cached is hints of every source with the key's text.
CacheHints ==
    \A e \in cache : \A s \in Sources :
      Content[s] = e.key.content => \A i \in DOMAIN e.items : e.items[i] \in Hints(s)

LEMMA StoredHints ==
  ASSUME CacheHints, NEW s \in Sources, NEW hint, NEW items \in Answers[s],
         cache' = Stored(s, hint, items)
  PROVE  CacheHints'
<1> DEFINE n == [key |-> Key(s, hint), items |-> items, from |-> s, told |-> hint]
<1>1. \A e \in cache' : e \in cache \/ e = n
  BY DEF Stored
<1>2. n.key.content = Content[s] /\ n.items = items
  BY DEF Key
<1>3. \A t \in Sources : Content[t] = Content[s] => \A i \in DOMAIN items : items[i] \in Hints(t)
  BY AnswerHints
<1> HIDE DEF n
<1> QED
  BY <1>1, <1>2, <1>3 DEF CacheHints

LEMMA CacheHintsStep ==
  ASSUME Inv, CacheHints, Next
  PROVE  CacheHints'
<1>1. CASE UNCHANGED cache
  BY <1>1 DEF CacheHints
<1>2. ASSUME NEW w \in Workers, Answer(w)
      PROVE  CacheHints'
  <2>1. work[w].source \in Sources
    BY <1>2, TheWork, WorkTypes DEF Answer
  <2>2. PICK items \in Answers[work[w].source] :
          cache' = Stored(work[w].source, work[w].hint, items)
    BY <1>2 DEF Answer
  <2> QED
    BY <2>1, <2>2, StoredHints
<1>3. ASSUME NEW s \in Sources, WarmAnswer(s)
      PROVE  CacheHints'
  BY <1>1, <1>3, StoredHints DEF WarmAnswer
<1>4. ASSUME NEW w \in Workers, Step(w), ~Answer(w)
      PROVE  UNCHANGED cache
  BY <1>4 DEF Step, Hit, Miss, Reject, LookEntity, FlushEntity, LookCapability, FlushVocab,
              Commit, FailDuplicate, FailDeadlock, Fails
<1>5. ASSUME NEW w \in Workers, StartSome(w) \/ FailFault(w)
      PROVE  UNCHANGED cache
  BY <1>5 DEF StartSome, Start, FailFault, Fails
<1>6. ASSUME NEW s \in Sources, WarmAsk(s)
      PROVE  UNCHANGED cache
  BY <1>6 DEF WarmAsk
<1>7. LoadBegin \/ LoadStep => UNCHANGED cache
  BY DEF LoadBegin, LoadStep, LoadEntity, LoadAlias, LoadFlush, LoadEnd, LoadCommit, LoadFails
<1> QED
  BY <1>1, <1>2, <1>3, <1>4, <1>5, <1>6, <1>7 DEF Next

\* More aliases committed leave what a load has to do as it was.
LEMMA LoadKnownStays ==
  ASSUME NEW l, NEW as, NEW as2, LoadKnown(l, as), as \subseteq as2
  PROVE  LoadKnown(l, as2)
<1> DEFINE mine == l.own.aliases \cup l.pending.aliases
<1>1. ASSUME NEW e \in l.own.entities \cup l.pending.entities
      PROVE  \E d \in Directory :
               /\ d.slug = e.slug
               /\ \A b \in d.aliases : b \in l.names \/ \E x \in as2 \cup mine : x.alias = b
  <2>1. PICK d \in Directory :
          /\ d.slug = e.slug
          /\ \A b \in d.aliases : b \in l.names \/ \E x \in as \cup mine : x.alias = b
    BY DEF LoadKnown
  <2> HIDE DEF mine
  <2>2. \A b \in d.aliases : b \in l.names \/ \E x \in as2 \cup mine : x.alias = b
    BY <2>1
  <2> QED
    BY <2>1, <2>2
<1> QED
  BY <1>1 DEF LoadKnown

\* Each step of a load, up to its commit.
LEMMA LoadKnownStep ==
  ASSUME Inv, KnownInv, LoadBegin \/ LoadStep, load' # None
  PROVE  LoadKnown(load', aliases')
<1>1. CASE LoadBegin
  BY <1>1 DEF LoadBegin, LoadKnown, NoRows
<1> DEFINE l == load
<1>2. ASSUME LoadStep
      PROVE  l # None /\ LoadKnown(l, aliases) /\ l \in Load
  BY <1>2, TheLoad DEF KnownInv, LoadStep, LoadEntity, LoadAlias, LoadFlush, LoadEnd, LoadCommit,
                       LoadFails, Flushing
<1>3. ASSUME NEW d \in Directory, LoadEntity(d)
      PROVE  LoadKnown(load', aliases')
  <2>1. l # None /\ l.names = {} /\ UNCHANGED aliases
    BY <1>3 DEF LoadEntity, tables
  <2>2. LoadKnown(l, aliases) /\ l \in Load
    BY <1>2, <1>3 DEF LoadStep
  <2>3. /\ load'.own = l.own /\ load'.names = d.aliases /\ load'.pending.aliases = l.pending.aliases
        /\ \/ load'.pending.entities = l.pending.entities
           \/ load'.pending.entities = {[slug |-> d.slug, by |-> None]}
    <3> DEFINE there == {e \in Seen(Loader).entities : e.slug = d.slug}
               new == [slug |-> d.slug, by |-> None]
               next == [load EXCEPT !.todo = @ \ {d}, !.names = d.aliases]
    <3>1. CASE \E e \in there : load' = [next EXCEPT !.entity = e]
      BY <2>2, <3>1 DEF Load
    <3>2. CASE load' = [next EXCEPT !.entity = new, !.step = "flushEntity",
                                    !.pending.entities = {new}]
      BY <2>2, <3>2 DEF Load, Rows
    <3> QED
      BY <1>3, <3>1, <3>2 DEF LoadEntity
  <2> HIDE DEF l
  <2> QED
    BY <2>1, <2>2, <2>3 DEF LoadKnown
<1>4. ASSUME NEW a \in l.names, LoadAlias(a)
      PROVE  LoadKnown(load', aliases')
  <2>1. l # None /\ UNCHANGED aliases
    BY <1>4 DEF LoadAlias, tables
  <2>2. LoadKnown(l, aliases) /\ l \in Load
    BY <2>1, TheLoad DEF KnownInv
  <2> DEFINE rows == (aliases \cup l.own.aliases) \cup l.pending.aliases
             row == AliasRow(a, l.entity, "confirmed")
  <2>3. /\ load'.own = l.own /\ load'.names = l.names \ {a}
        /\ load'.pending.entities = l.pending.entities
        /\ \/ load'.pending.aliases = l.pending.aliases /\ \E x \in rows : x.alias = a
           \/ load'.pending.aliases = l.pending.aliases \cup {row}
    <3>1. Seen(Loader).aliases = aliases \cup l.own.aliases
      BY DEF Seen
    <3>2. load' = [l EXCEPT !.names = @ \ {a}, !.pending.aliases =
                     IF \E x \in rows : x.alias = a THEN @ ELSE @ \cup {row}]
      BY <1>4, <3>1 DEF LoadAlias
    <3> HIDE DEF rows, row
    <3> QED
      BY <2>2, <3>2 DEF Load, Rows
  <2>4. row.alias = a /\ row.status = "confirmed"
    BY DEF AliasRow
  <2> HIDE DEF l, row
  <2> QED
    BY <2>1, <2>2, <2>3, <2>4 DEF LoadKnown
<1>5. CASE LoadFlush
  <2>1. LoadKnown(l, aliases) /\ l \in Load /\ UNCHANGED aliases
    BY <1>2, <1>5 DEF LoadStep, LoadFlush, tables
  <2>2. /\ load'.own.entities = l.own.entities \cup l.pending.entities
        /\ load'.own.aliases = l.own.aliases \cup l.pending.aliases
        /\ load'.names = l.names /\ load'.pending = NoRows
    BY <1>5, <2>1 DEF LoadFlush, Flushed, Load
  <2>3. load'.pending.entities = {} /\ load'.pending.aliases = {}
    BY <2>2 DEF NoRows
  <2> HIDE DEF l
  <2> QED
    BY <2>1, <2>2, <2>3 DEF LoadKnown
<1>6. CASE LoadEnd
  <2>1. LoadKnown(l, aliases) /\ l \in Load /\ UNCHANGED aliases
    BY <1>2, <1>6 DEF LoadStep, LoadEnd, tables
  <2>2. load'.own = l.own /\ load'.names = l.names /\ load'.pending = l.pending
    BY <1>6, <2>1 DEF LoadEnd, Load
  <2> HIDE DEF l
  <2> QED
    BY <2>1, <2>2 DEF LoadKnown
<1>7. LoadCommit \/ LoadFails => load' = None
  BY DEF LoadCommit, LoadFails
<1>8. \A a : LoadAlias(a) => a \in l.names
  BY DEF LoadAlias
<1> QED
  BY <1>1, <1>3, <1>4, <1>5, <1>6, <1>7, <1>8 DEF LoadStep

\* The directory, once it is committed, tells its own names.
LEMMA DirectoryKnown ==
  ASSUME Inv, KnownInv, LoadBegin \/ LoadStep
  PROVE  Known(entities', aliases')
<1>1. Known(entities, aliases)
  BY DEF KnownInv
<1>2. CASE ~LoadCommit
  BY <1>1, <1>2 DEF LoadBegin, LoadStep, LoadEntity, LoadAlias, LoadFlush, LoadEnd, LoadFails, tables
<1>3. CASE LoadCommit
  <2> DEFINE es == load.own.entities \cup load.pending.entities
             as == load.own.aliases \cup load.pending.aliases
  <2>1. load # None /\ load.step = "commit" /\ entities' = entities \cup es /\ aliases' = aliases \cup as
    BY <1>3 DEF LoadCommit, Flushed
  <2>2. LoadKnown(load, aliases) /\ load.names = {}
    BY <2>1 DEF KnownInv, Inv, Loaded, LoadOk
  <2>3. /\ \A e \in es : \E d \in Directory :
             d.slug = e.slug /\ \A b \in d.aliases : \E x \in aliases' : x.alias = b
        /\ \A x \in as : x.status = "confirmed"
    BY <2>1, <2>2 DEF LoadKnown
  <2> HIDE DEF es, as
  <2>4. \A x \in aliases' : \E y \in aliases' : y.status = "confirmed" /\ y.alias = x.alias
    BY <1>1, <2>1, <2>3 DEF Known
  <2>5. ASSUME NEW e \in entities', NEW n \in Names, Slug[n] = e.slug, Telling(e.slug)
        PROVE  Tells(aliases', Alias[n])
    <3>1. CASE e \in entities
      BY <1>1, <2>1, <2>5, <3>1 DEF Known, Tells
    <3>2. CASE e \in es
      <4>1. PICK d \in Directory :
              d.slug = e.slug /\ \A b \in d.aliases : \E x \in aliases' : x.alias = b
        BY <2>3, <3>2
      <4>2. PICK b \in d.aliases : b = Alias[n] \/ <<b, Alias[n]>> \in Alike
        BY <2>5, <4>1 DEF Telling
      <4>3. PICK x \in aliases' : x.status = "confirmed" /\ x.alias = b
        BY <2>4, <4>1
      <4> QED
        BY <4>2, <4>3 DEF Tells
    <3> QED
      BY <2>1, <3>1, <3>2
  <2> QED
    BY <2>4, <2>5 DEF Known
<1> QED
  BY <1>2, <1>3

LEMMA KnownInvInit == Init => KnownInv
  BY KnownNone DEF Init, KnownInv

LEMMA KnownInvStep ==
  ASSUME Inv, KnownInv, Next
  PROVE  KnownInv'
<1>0. TypeOK /\ work \in [Workers -> Work \cup {None}]
  BY DEF Inv, TypeOK
<1>1. CacheHints'
  BY CacheHintsStep DEF KnownInv, CacheHints
<1>2. Known(entities, aliases) /\ (load # None => LoadKnown(load, aliases))
  BY DEF KnownInv
<1>3. \A w \in Workers : work[w] # None => WorkKnown(work[w])
  BY DEF KnownInv
<1>4. ASSUME NEW w \in Workers, NEW r, work' = [work EXCEPT ![w] = r], r # None => WorkKnown(r)
      PROVE  \A v \in Workers : work'[v] # None => WorkKnown(work'[v])
  BY <1>0, <1>3, <1>4
<1>5. Known(entities', aliases') /\ (load' # None => LoadKnown(load', aliases'))
        /\ (\A w \in Workers : work'[w] # None => WorkKnown(work'[w])) => KnownInv'
  BY <1>1 DEF KnownInv, CacheHints, WorkKnown
<1>6. ASSUME NEW w \in Workers, StartSome(w)
      PROVE  KnownInv'
  <2>1. PICK s \in Sources : \E hint \in SiblingSubjects(s) \cup {None} : Start(w, s, hint)
    BY <1>6 DEF StartSome
  <2>a. PICK hint \in SiblingSubjects(s) \cup {None} : Start(w, s, hint)
    BY <2>1
  <2> DEFINE r == [source |-> s, hint |-> hint, step |-> "extract", items |-> <<>>,
                   told |-> None, from |-> None, entity |-> None, pending |-> NoRows,
                   own |-> NoRows, out |-> {}]
  <2>2. work' = [work EXCEPT ![w] = r] /\ UNCHANGED <<entities, aliases, load>>
    BY <2>a DEF Start, tables, loading
  <2>3. r.own = NoRows /\ r.pending = NoRows /\ r.items = <<>>
    OBVIOUS
  <2> HIDE DEF r
  <2>4. Known(NoRows.entities, NoRows.aliases)
    BY KnownNone DEF NoRows
  <2>5. \A i \in DOMAIN r.items : r.items[i] \in Hints(r.source)
    BY <2>3
  <2>6. WorkKnown(r)
    BY <2>3, <2>4, <2>5, NoKeys DEF WorkKnown
  <2> QED
    BY <1>2, <1>4, <1>5, <2>2, <2>6
<1>7. ASSUME NEW w \in Workers, GoOn(w)
      PROVE  KnownInv'
  <2>1. PICK r \in Work : Effect(w, r)
    BY <1>7, GoOnEffect
  <2>2. work[w] # None /\ UNCHANGED <<entities, aliases, load>>
    BY <1>7, StepGoesOn DEF tables, GoOn, Hit, Miss, Answer, Reject, LookEntity, FlushEntity,
                            LookCapability, FlushVocab, loading
  <2>3. work' = [work EXCEPT ![w] = r] /\ WorkKnown(r)
    BY <2>1, <2>2, EffectKnown DEF Effect
  <2> QED
    BY <1>2, <1>4, <1>5, <2>2, <2>3
<1>8. ASSUME NEW w \in Workers, Commit(w)
      PROVE  KnownInv'
  <2>1. /\ work[w] # None /\ work' = [work EXCEPT ![w] = None]
        /\ entities' = entities \cup work[w].own.entities
        /\ aliases' = aliases \cup work[w].own.aliases /\ load' = load
    BY <1>8 DEF Commit, loading
  <2>2. Known(entities', aliases')
    BY <1>2, <1>3, <2>1, KnownUnion DEF WorkKnown
  <2>3. load' # None => LoadKnown(load', aliases')
    BY <1>2, <2>1, LoadKnownStays
  <2> QED
    BY <1>4, <1>5, <2>1, <2>2, <2>3
<1>9. ASSUME NEW w \in Workers, Fails(w)
      PROVE  KnownInv'
  <2>1. work' = [work EXCEPT ![w] = None] /\ UNCHANGED <<entities, aliases, load>>
    BY <1>9 DEF Fails, Kept, loading
  <2> QED
    BY <1>2, <1>4, <1>5, <2>1
<1>10. CASE UNCHANGED <<entities, aliases, work, load>>
  BY <1>2, <1>3, <1>5, <1>10
<1>11. ASSUME NEW s \in Sources, WarmAsk(s) \/ WarmAnswer(s)
       PROVE  UNCHANGED <<entities, aliases, work, load>>
  BY <1>11 DEF WarmAsk, WarmAnswer, tables, loading
<1>12. CASE LoadBegin \/ LoadStep
  <2>1. UNCHANGED work
    BY <1>12 DEF LoadBegin, LoadStep, LoadEntity, LoadAlias, LoadFlush, LoadEnd, LoadCommit, LoadFails
  <2> QED
    BY <1>3, <1>5, <1>12, <2>1, DirectoryKnown, LoadKnownStep
<1>13. ASSUME NEW w \in Workers, Step(w) \/ FailFault(w)
       PROVE  KnownInv'
  BY <1>7, <1>8, <1>9, <1>13 DEF Step, GoOn, FailDuplicate, FailDeadlock, FailFault
<1> QED
  BY <1>6, <1>10, <1>11, <1>12, <1>13 DEF Next

\* What is known stays known, in every state.
THEOREM KnownCorrect == Spec => []KnownInv
<1>1. Inv /\ KnownInv /\ UNCHANGED vars => KnownInv'
  BY DEF vars, KnownInv, WorkKnown
<1>2. Inv /\ KnownInv /\ [Next]_vars => KnownInv'
  BY <1>1, KnownInvStep
<1> QED
  BY <1>2, KnownInvInit, Correct, PTL DEF Spec

\* What a job is about to insert clashes with what it has inserted itself only over a slug
\* that two names share though neither is found by the other's alias.
THEOREM NoSelfDuplicates == Spec => []ClashesAreBlunt
<1>1. KnownInv => ClashesAreBlunt
  BY DEF KnownInv, WorkKnown, Sure, ClashesAreBlunt, Busy, Own
<1> QED
  BY <1>1, KnownCorrect, PTL

-----------------------------------------------------------------------------
(***************************************************************************)
(* What an attempt has lost over is settled: the next one finds it.        *)
(***************************************************************************)
Settled(k) ==
    /\ \A a : k = <<"alias", a>> => \E x \in aliases : x.status = "confirmed" /\ x.alias = a
    /\ \A c : k = <<"capability", c>> => \E v \in vocab : v.slug = c
    /\ \A n \in Names : k = <<"entity", Slug[n]>> => Tells(aliases, Alias[n])

LostTypes ==
    /\ lost \in [Sources -> SUBSET UNION {KeysOf(s) : s \in Sources}]
    /\ cut \in [Sources -> Nat]
    /\ \A s \in Sources : lost[s] \subseteq KeysOf(s) /\ IsFiniteSet(lost[s])

LostSettled == \A s \in Sources : \A k \in lost[s] : Sure(k) => Settled(k)

PendingNew ==
    \A w \in Workers : work[w] # None =>
      \A k \in Keys(work[w].pending) : Sure(k) => k \notin lost[work[w].source]

\* Every attempt but the one under way, or the one that did it, has lost or was cut.
Ended(s) == IF job[s] \in {"queued", "poison"} THEN tries[s] ELSE tries[s] - 1
AttemptsCounted ==
    \A s \in Sources : \/ Ended(s) <= Cardinality(lost[s]) + cut[s]
                       \/ \E k \in lost[s] : Blunt(k)

LostInv == LostTypes /\ LostSettled /\ PendingNew /\ AttemptsCounted

AllInv == Inv /\ JobInv /\ KnownInv

LEMMA HistoryRefines == (InitH => Init) /\ (NextH => Next) /\ (UNCHANGED varsH => UNCHANGED vars)
<1>1. InitH => Init
  BY DEF InitH
<1>2. NextH => Next
  BY DEF NextH, OtherH, LoseH, CutH, GoOn, Next, Step
<1>3. UNCHANGED varsH => UNCHANGED vars
  BY DEF varsH
<1> QED
  BY <1>1, <1>2, <1>3

LEMMA NewIsNotSettled ==
  ASSUME NEW w \in Workers, NEW k, New(w, k), Settled(k)
  PROVE  FALSE
<1>1. /\ \A x \in aliases : x \in Seen(w).aliases
      /\ \A v \in vocab : \E u \in Seen(w).vocab : u.slug = v.slug
  BY DEF Seen
<1>2. CASE \E a : k = <<"alias", a>> /\ \A x \in Seen(w).aliases : x.status = "confirmed" => x.alias # a
  BY <1>1, <1>2 DEF Settled
<1>3. CASE \E c : k = <<"capability", c>> /\ \A v \in Seen(w).vocab : v.slug # c
  BY <1>1, <1>3 DEF Settled
<1>4. CASE \E n \in Names : k = <<"entity", Slug[n]>> /\ ~Tells(Seen(w).aliases, Alias[n])
  BY <1>1, <1>4 DEF Settled, Tells
<1> QED
  BY <1>2, <1>3, <1>4 DEF New

\* Only more is committed.
LEMMA SettledStays ==
  ASSUME NEW k, Settled(k), aliases \subseteq aliases',
         \A v \in vocab : \E u \in vocab' : u.slug = v.slug
  PROVE  Settled(k)'
  BY DEF Settled, Tells

LEMMA MoreCommitted ==
  ASSUME Next
  PROVE  aliases \subseteq aliases' /\ \A v \in vocab : \E u \in vocab' : u.slug = v.slug
<1>1. ASSUME NEW w \in Workers, Commit(w)
      PROVE  aliases \subseteq aliases' /\ \A v \in vocab : \E u \in vocab' : u.slug = v.slug
  BY <1>1 DEF Commit
<1>2. LoadBegin \/ LoadStep => aliases \subseteq aliases' /\ vocab' = vocab
  BY DEF LoadBegin, LoadStep, LoadEntity, LoadAlias, LoadFlush, LoadEnd, LoadCommit, LoadFails, tables
<1>3. ASSUME NEW w \in Workers, StartSome(w) \/ Step(w) \/ FailFault(w), ~Commit(w)
      PROVE  UNCHANGED <<aliases, vocab>>
  BY <1>3 DEF StartSome, Start, Step, Hit, Miss, Answer, Reject, LookEntity, FlushEntity,
              LookCapability, FlushVocab, FailDuplicate, FailDeadlock, FailFault, Fails, tables
<1>4. ASSUME NEW s \in Sources, WarmAsk(s) \/ WarmAnswer(s)
      PROVE  UNCHANGED <<aliases, vocab>>
  BY <1>4 DEF WarmAsk, WarmAnswer, tables
<1> QED
  BY <1>1, <1>2, <1>3, <1>4 DEF Next

\* A flush that fails has lost a key, and what it has lost is committed.
LEMMA DuplicateContests ==
  ASSUME NEW w \in Workers, Duplicate(w)
  PROVE  Contested(w) # {}
<1> DEFINE own == work[w].own
           pend == work[w].pending
<1>1. /\ Seen(w).entities = entities \cup own.entities
      /\ Seen(w).aliases = aliases \cup own.aliases
  BY DEF Seen
<1>2. SUFFICES \E k \in Keys(pend) : k \in Committed \/ k \in Own(w)
  BY DEF Contested
<1>3. /\ \A k : k \in Committed <=> k \in KeysThere(entities, aliases, vocab)
      /\ \A k : k \in Own(w) <=> k \in KeysThere(own.entities, own.aliases, own.vocab)
  BY DEF Committed, Own
<1>4. /\ SameKey(pend, Seen(w))
         \/ \E u \in pend.vocab, v \in vocab \cup own.vocab : u.status = "candidate" /\ u.slug = v.slug
  BY DEF Duplicate
<1> HIDE DEF own, pend
<1>5. ASSUME NEW d \in pend.entities, NEW e \in entities \cup own.entities, d.slug = e.slug
      PROVE  \E k \in Keys(pend) : k \in Committed \/ k \in Own(w)
  <2>1. <<"entity", d.slug>> \in Keys(pend)
    BY KeysIn
  <2>2. \/ <<"entity", d.slug>> \in KeysThere(entities, aliases, vocab)
        \/ <<"entity", d.slug>> \in KeysThere(own.entities, own.aliases, own.vocab)
    BY <1>5, KeysThereIn
  <2> QED
    BY <1>3, <2>1, <2>2
<1>6. ASSUME NEW a \in pend.aliases, NEW b \in aliases \cup own.aliases, a.alias = b.alias,
             a.status = "confirmed", b.status = "confirmed"
      PROVE  \E k \in Keys(pend) : k \in Committed \/ k \in Own(w)
  <2>1. <<"alias", a.alias>> \in Keys(pend)
    BY <1>6, KeysIn
  <2>2. \/ <<"alias", a.alias>> \in KeysThere(entities, aliases, vocab)
        \/ <<"alias", a.alias>> \in KeysThere(own.entities, own.aliases, own.vocab)
    BY <1>6, KeysThereIn
  <2> QED
    BY <1>3, <2>1, <2>2
<1>7. ASSUME NEW u \in pend.vocab, NEW v \in vocab \cup own.vocab,
             u.status = "candidate", u.slug = v.slug
      PROVE  \E k \in Keys(pend) : k \in Committed \/ k \in Own(w)
  <2>1. <<"capability", u.slug>> \in Keys(pend)
    BY <1>7, KeysIn
  <2>2. \/ <<"capability", u.slug>> \in KeysThere(entities, aliases, vocab)
        \/ <<"capability", u.slug>> \in KeysThere(own.entities, own.aliases, own.vocab)
    BY <1>7, KeysThereIn
  <2> QED
    BY <1>3, <2>1, <2>2
<1> QED
  BY <1>1, <1>4, <1>5, <1>6, <1>7 DEF SameKey

LEMMA ContestedSettled ==
  ASSUME KnownInv, NEW w \in Workers, work[w] # None, NEW k \in Contested(w), Sure(k)
  PROVE  Settled(k)
<1>1. k \in Keys(work[w].pending) /\ k \in Committed \cup Own(w)
  BY DEF Contested
<1>2. k \notin Own(w)
  BY <1>1 DEF KnownInv, WorkKnown, Own
<1>3. k \in KeysThere(entities, aliases, vocab)
  BY <1>1, <1>2 DEF Committed
<1>4. CASE \E e \in entities : k = <<"entity", e.slug>>
  <2>1. PICK e \in entities : k = <<"entity", e.slug>>
    BY <1>4
  <2>2. Telling(e.slug) /\ Known(entities, aliases)
    BY <2>1 DEF Sure, Blunt, KnownInv
  <2> QED
    BY <2>1, <2>2 DEF Known, Settled
<1>5. CASE \E x \in aliases : x.status = "confirmed" /\ k = <<"alias", x.alias>>
  BY <1>5 DEF Settled
<1>6. CASE \E v \in vocab : k = <<"capability", v.slug>>
  BY <1>6 DEF Settled
<1> QED
  BY <1>3, <1>4, <1>5, <1>6, KeysThereIn

-----------------------------------------------------------------------------
LEMMA LostInvInit == InitH => LostInv
<1> SUFFICES ASSUME InitH
             PROVE  LostInv
  OBVIOUS
<1>1. LostTypes
  BY FS_EmptySet DEF InitH, LostTypes
<1>2. LostSettled /\ PendingNew
  BY DEF InitH, Init, LostSettled, PendingNew
<1>3. \A s \in Sources : Ended(s) = 0 /\ Cardinality(lost[s]) = 0 /\ cut[s] = 0
  BY FS_EmptySet DEF InitH, Init, Ended
<1> QED
  BY <1>1, <1>2, <1>3 DEF LostInv, AttemptsCounted

\* A step after which what has been lost, and what each job is about to insert, is the
\* same or is looked up.
LEMMA LostStays ==
  ASSUME AllInv, LostInv, Next, UNCHANGED <<lost, cut>>,
         PendingNew', \A s \in Sources : Ended(s)' <= Ended(s)
  PROVE  LostInv'
<1>1. LostTypes'
  BY DEF LostInv, LostTypes
<1>2. LostSettled'
  BY MoreCommitted, SettledStays DEF LostInv, LostSettled
<1>3. AttemptsCounted'
  <2> SUFFICES ASSUME NEW s \in Sources, \A k \in lost[s] : ~Blunt(k)
               PROVE  Ended(s)' <= Cardinality(lost[s]) + cut[s]
    BY DEF AttemptsCounted
  <2>1. Ended(s)' <= Ended(s) /\ Ended(s) <= Cardinality(lost[s]) + cut[s]
    BY DEF LostInv, AttemptsCounted
  <2>2. Ended(s)' \in Int /\ Ended(s) \in Int
    <3>1. tries \in [Sources -> Nat] /\ tries' \in [Sources -> Nat]
      <4>1. Inv'
        BY StepKeepsInv DEF AllInv
      <4> QED
        BY <4>1 DEF AllInv, Inv, TypeOK
    <3> QED
      BY <3>1 DEF Ended
  <2>3. Cardinality(lost[s]) \in Nat /\ cut[s] \in Nat
    BY FS_CardinalityType DEF LostInv, LostTypes
  <2> QED
    BY <2>1, <2>2, <2>3
<1> QED
  BY <1>1, <1>2, <1>3 DEF LostInv

\* One worker's job changes, and what it is about to insert has not been lost.
LEMMA PendingStays ==
  ASSUME Inv, PendingNew, NEW w \in Workers, NEW r, work' = [work EXCEPT ![w] = r], UNCHANGED lost,
         r # None => \A k \in Keys(r.pending) : Sure(k) => k \notin lost[r.source]
  PROVE  PendingNew'
<1>1. \A v \in Workers : work'[v] = IF v = w THEN r ELSE work[v]
  BY DEF Inv, TypeOK
<1> QED
  BY <1>1 DEF PendingNew

LEMMA EffectNew ==
  ASSUME AllInv, LostInv, NEW w \in Workers, work[w] # None, NEW r \in Work, Effect(w, r)
  PROVE  \A k \in Keys(r.pending) : Sure(k) => k \notin lost[r.source]
<1>1. RowsGoOn(w, r) /\ r.source = work[w].source /\ work[w].source \in Sources
  BY TheWork, WorkTypes DEF Effect, AllInv
<1>2. CASE r.pending = work[w].pending
  BY <1>1, <1>2 DEF LostInv, PendingNew
<1>3. CASE r.pending = NoRows
  BY <1>3, NoKeys
<1>4. CASE LooksUp(w, r.pending)
  <2> SUFFICES ASSUME NEW k \in Keys(r.pending), Sure(k), k \in lost[r.source]
               PROVE  FALSE
    OBVIOUS
  <2>1. New(w, k)
    BY <1>4 DEF LooksUp
  <2>2. Settled(k)
    BY <1>1 DEF LostInv, LostSettled
  <2> QED
    BY <2>1, <2>2, NewIsNotSettled
<1> QED
  BY <1>1, <1>2, <1>3, <1>4 DEF RowsGoOn

LEMMA OtherStep ==
  ASSUME AllInv, LostInv, OtherH
  PROVE  LostInv'
<1>0. /\ work \in [Workers -> Work \cup {None}] /\ tries \in [Sources -> Nat]
      /\ job \in [Sources -> {"queued", "running", "done", "poison"}]
  BY DEF AllInv, Inv, TypeOK
<1>1. Next /\ UNCHANGED <<lost, cut>>
  BY HistoryRefines DEF OtherH, NextH
<1>2. ASSUME NEW w \in Workers, StartSome(w)
      PROVE  LostInv'
  <2>1. PICK s \in Sources : \E hint \in SiblingSubjects(s) \cup {None} : Start(w, s, hint)
    BY <1>2 DEF StartSome
  <2>a. PICK hint \in SiblingSubjects(s) \cup {None} : Start(w, s, hint)
    BY <2>1
  <2> DEFINE r == [source |-> s, hint |-> hint, step |-> "extract", items |-> <<>>,
                   told |-> None, from |-> None, entity |-> None, pending |-> NoRows,
                   own |-> NoRows, out |-> {}]
  <2>2. /\ work' = [work EXCEPT ![w] = r] /\ job[s] = "queued"
        /\ job' = [job EXCEPT ![s] = "running"] /\ tries' = [tries EXCEPT ![s] = @ + 1]
    BY <2>a DEF Start
  <2>3. r.pending = NoRows
    OBVIOUS
  <2> HIDE DEF r
  <2>4. PendingNew'
    BY <1>1, <2>2, <2>3, NoKeys, PendingStays DEF AllInv, LostInv
  <2>5. \A x \in Sources : Ended(x)' <= Ended(x)
    <3>1. \A x \in Sources : /\ job'[x] = IF x = s THEN "running" ELSE job[x]
                             /\ tries'[x] = IF x = s THEN tries[s] + 1 ELSE tries[x]
      BY <1>0, <2>2
    <3> QED
      BY <1>0, <2>2, <3>1 DEF Ended
  <2> QED
    BY <1>1, <2>4, <2>5, LostStays
<1>3. ASSUME NEW w \in Workers, GoOn(w)
      PROVE  LostInv'
  <2>1. work[w] # None /\ UNCHANGED <<job, tries>>
    BY <1>3, StepGoesOn DEF queue, AllInv
  <2>2. PICK r \in Work : Effect(w, r)
    BY <1>3, GoOnEffect DEF AllInv
  <2>3. work' = [work EXCEPT ![w] = r]
    BY <2>2 DEF Effect
  <2>4. PendingNew'
    BY <1>1, <2>1, <2>2, <2>3, EffectNew, PendingStays DEF AllInv, LostInv
  <2>5. \A x \in Sources : Ended(x)' <= Ended(x)
    BY <1>0, <2>1 DEF Ended
  <2> QED
    BY <1>1, <2>4, <2>5, LostStays
<1>4. ASSUME NEW w \in Workers, Commit(w)
      PROVE  LostInv'
  <2>1. /\ work[w] # None /\ work' = [work EXCEPT ![w] = None] /\ tries' = tries
        /\ job' = [job EXCEPT ![work[w].source] = "done"]
    BY <1>4 DEF Commit
  <2>2. PendingNew'
    BY <1>1, <2>1, PendingStays DEF AllInv, LostInv
  <2>3. job[work[w].source] = "running"
    BY <2>1 DEF AllInv, JobInv
  <2>4. \A x \in Sources : Ended(x)' <= Ended(x)
    BY <1>0, <2>1, <2>3 DEF Ended
  <2> QED
    BY <1>1, <2>2, <2>4, LostStays
<1>5. ASSUME UNCHANGED <<work, job, tries>>
      PROVE  LostInv'
  <2>1. PendingNew'
    BY <1>1, <1>5 DEF LostInv, PendingNew
  <2>2. \A x \in Sources : Ended(x)' <= Ended(x)
    BY <1>0, <1>5 DEF Ended
  <2> QED
    BY <1>1, <2>1, <2>2, LostStays
<1>6. ASSUME NEW s \in Sources, WarmAsk(s) \/ WarmAnswer(s)
      PROVE  UNCHANGED <<work, job, tries>>
  BY <1>6 DEF WarmAsk, WarmAnswer, queue
<1>7. LoadBegin \/ LoadStep => UNCHANGED <<work, job, tries>>
  BY DEF LoadBegin, LoadStep, LoadEntity, LoadAlias, LoadFlush, LoadEnd, LoadCommit, LoadFails, queue
<1> QED
  BY <1>2, <1>3, <1>4, <1>5, <1>6, <1>7 DEF OtherH

\* An attempt that ends without its job being done.
LEMMA FailsEnds ==
  ASSUME AllInv, NEW w \in Workers, work[w] # None, Fails(w)
  PROVE  /\ work[w].source \in Sources
         /\ \A x \in Sources : Ended(x)' = IF x = work[w].source THEN Ended(x) + 1 ELSE Ended(x)
         /\ \A x \in Sources : Ended(x) \in Int
<1>1. /\ work[w].source \in Sources /\ tries \in [Sources -> Nat]
      /\ job \in [Sources -> {"queued", "running", "done", "poison"}]
  BY TheWork, WorkTypes DEF AllInv, Inv, TypeOK
<1>2. job[work[w].source] = "running"
  BY DEF AllInv, JobInv
<1>3. tries' = tries /\ job' = [job EXCEPT ![work[w].source] = StatusAfter(work[w].source)]
  BY DEF Fails
<1>4. StatusAfter(work[w].source) \in {"queued", "poison"}
  BY DEF StatusAfter
<1>5. \A x \in Sources :
        job'[x] = IF x = work[w].source THEN StatusAfter(work[w].source) ELSE job[x]
  BY <1>1, <1>3
<1> HIDE DEF StatusAfter
<1>6. \A x \in Sources : Ended(x)' = IF x = work[w].source THEN Ended(x) + 1 ELSE Ended(x)
  BY <1>1, <1>2, <1>3, <1>4, <1>5 DEF Ended
<1>7. \A x \in Sources : Ended(x) \in Int
  BY <1>1 DEF Ended
<1> QED
  BY <1>1, <1>6, <1>7

LEMMA LoseStep ==
  ASSUME AllInv, LostInv, NEW w \in Workers, LoseH(w)
  PROVE  LostInv'
<1> DEFINE s == work[w].source
<1>1. /\ work[w] # None /\ Fails(w) /\ Duplicate(w) /\ Next
      /\ lost' = [lost EXCEPT ![s] = @ \cup Contested(w)] /\ cut' = cut
      /\ work' = [work EXCEPT ![w] = None]
  BY HistoryRefines DEF LoseH, FailDuplicate, Flushing, Fails, NextH
<1>2. /\ s \in Sources /\ work \in [Workers -> Work \cup {None}]
      /\ \A x \in Sources : Ended(x)' = IF x = s THEN Ended(x) + 1 ELSE Ended(x)
      /\ \A x \in Sources : Ended(x) \in Int
  BY <1>1, FailsEnds DEF AllInv, Inv, TypeOK
<1>3. WorkKnown(work[w])
  BY <1>1 DEF AllInv, KnownInv
<1>4. /\ Contested(w) \subseteq Keys(work[w].pending) /\ Contested(w) # {}
      /\ Contested(w) \subseteq KeysOf(s) /\ IsFiniteSet(Contested(w))
  <2>1. Contested(w) \subseteq Keys(work[w].pending)
    BY DEF Contested
  <2>2. IsFiniteSet(Contested(w))
    BY <1>3, <2>1, FS_Subset DEF WorkKnown
  <2>3. Contested(w) \subseteq KeysOf(s)
    BY <1>3, <2>1 DEF WorkKnown
  <2> QED
    BY <1>1, <2>1, <2>2, <2>3, DuplicateContests
<1>5. \A k \in Contested(w) : Sure(k) => Settled(k) /\ k \notin lost[s]
  BY <1>1, <1>4, ContestedSettled DEF AllInv, LostInv, PendingNew
<1>6. LostTypes
  BY DEF LostInv
<1>7. \A v \in Workers : work'[v] = IF v = w THEN None ELSE work[v]
  BY <1>1, <1>2
<1>8. \A v \in Workers : work[v] # None /\ v # w => work[v].source # s
  BY <1>1 DEF AllInv, JobInv
<1> HIDE DEF s
<1>9. \A x \in Sources : lost'[x] = IF x = s THEN lost[s] \cup Contested(w) ELSE lost[x]
  BY <1>1, <1>6 DEF LostTypes
<1>10. LostTypes'
  <2>1. IsFiniteSet(lost[s] \cup Contested(w)) /\ lost[s] \cup Contested(w) \subseteq KeysOf(s)
    BY <1>2, <1>4, <1>6, FS_Union DEF LostTypes
  <2>2. lost[s] \cup Contested(w) \in SUBSET UNION {KeysOf(x) : x \in Sources}
    BY <1>2, <2>1
  <2>3. lost' \in [Sources -> SUBSET UNION {KeysOf(x) : x \in Sources}]
    BY <1>1, <1>6, <2>2 DEF LostTypes
  <2> QED
    BY <1>1, <1>6, <1>9, <2>1, <2>3 DEF LostTypes
<1>11. LostSettled'
  <2> SUFFICES ASSUME NEW x \in Sources, NEW k \in lost'[x], Sure(k)
               PROVE  Settled(k)'
    BY DEF LostSettled
  <2>1. Settled(k)
    BY <1>5, <1>9 DEF LostInv, LostSettled
  <2> QED
    BY <1>1, <2>1, MoreCommitted, SettledStays
<1>12. PendingNew'
  <2> SUFFICES ASSUME NEW v \in Workers, v # w, work[v] # None,
                      NEW k \in Keys(work[v].pending), Sure(k)
               PROVE  k \notin lost'[work[v].source]
    BY <1>7 DEF PendingNew
  <2>1. work[v].source \in Sources /\ work[v].source # s
    BY <1>8, TheWork, WorkTypes DEF AllInv
  <2> QED
    BY <1>9, <2>1 DEF LostInv, PendingNew
<1>13. AttemptsCounted'
  <2> SUFFICES ASSUME NEW x \in Sources, \A k \in lost'[x] : ~Blunt(k)
               PROVE  Ended(x)' <= Cardinality(lost'[x]) + cut[x]
    BY <1>1 DEF AttemptsCounted
  <2>1. Ended(x) <= Cardinality(lost[x]) + cut[x]
    BY <1>9 DEF LostInv, AttemptsCounted
  <2>2. CASE x # s
    BY <1>2, <1>9, <2>1, <2>2
  <2>3. CASE x = s
    <3>1. PICK k \in Contested(w) : k \notin lost[s]
      BY <1>4, <1>5, <1>9, <2>3 DEF Sure
    <3>2. lost[s] \cup {k} \subseteq lost'[s]
      BY <1>2, <1>9, <3>1
    <3>3. IsFiniteSet(lost[s]) /\ IsFiniteSet(lost'[s])
      BY <1>2, <1>6, <1>10 DEF LostTypes
    <3>4. Cardinality(lost[s] \cup {k}) = Cardinality(lost[s]) + 1
      BY <3>1, <3>3, FS_AddElement
    <3>5. Cardinality(lost[s] \cup {k}) <= Cardinality(lost'[s])
      BY <3>2, <3>3, FS_Subset
    <3>6. Cardinality(lost[s]) \in Nat /\ Cardinality(lost'[s]) \in Nat /\ cut[s] \in Nat
      BY <1>2, <1>6, <3>3, FS_CardinalityType DEF LostTypes
    <3> QED
      BY <1>2, <2>1, <2>3, <3>4, <3>5, <3>6
  <2> QED
    BY <2>2, <2>3
<1> QED
  BY <1>10, <1>11, <1>12, <1>13 DEF LostInv

LEMMA CutStep ==
  ASSUME AllInv, LostInv, NEW w \in Workers, CutH(w)
  PROVE  LostInv'
<1> DEFINE s == work[w].source
<1>1. /\ work[w] # None /\ Fails(w) /\ Next /\ lost' = lost /\ cut' = [cut EXCEPT ![s] = @ + 1]
      /\ work' = [work EXCEPT ![w] = None]
  BY HistoryRefines DEF CutH, FailDeadlock, FailFault, Flushing, Fails, NextH
<1>2. /\ s \in Sources
      /\ \A x \in Sources : Ended(x)' = IF x = s THEN Ended(x) + 1 ELSE Ended(x)
      /\ \A x \in Sources : Ended(x) \in Int
  BY <1>1, FailsEnds
<1>3. LostTypes /\ LostSettled /\ PendingNew
  BY DEF LostInv
<1> HIDE DEF s
<1>4. LostTypes'
  BY <1>1, <1>2, <1>3 DEF LostTypes
<1>5. LostSettled'
  BY <1>1, <1>3, MoreCommitted, SettledStays DEF LostSettled
<1>6. PendingNew'
  BY <1>1, <1>3, PendingStays DEF AllInv
<1>7. AttemptsCounted'
  <2> SUFFICES ASSUME NEW x \in Sources, \A k \in lost[x] : ~Blunt(k)
               PROVE  Ended(x)' <= Cardinality(lost[x]) + cut'[x]
    BY <1>1 DEF AttemptsCounted
  <2>1. Ended(x) <= Cardinality(lost[x]) + cut[x]
    BY DEF LostInv, AttemptsCounted
  <2>2. Cardinality(lost[x]) \in Nat /\ cut[x] \in Nat
    BY <1>3, FS_CardinalityType DEF LostTypes
  <2>3. cut'[x] = IF x = s THEN cut[x] + 1 ELSE cut[x]
    BY <1>1, <1>3 DEF LostTypes
  <2> QED
    BY <1>2, <2>1, <2>2, <2>3
<1> QED
  BY <1>4, <1>5, <1>6, <1>7 DEF LostInv

\* What was lost is settled and what is pending is not, in every state.
THEOREM LostCorrect == SpecH => [](AllInv /\ LostInv)
<1>1. InitH => AllInv /\ LostInv
  BY HistoryRefines, InvInit, JobInvInit, KnownInvInit, LostInvInit DEF AllInv
<1>2. AllInv /\ LostInv /\ [NextH]_varsH => (AllInv /\ LostInv)'
  <2>1. ASSUME AllInv, LostInv, NextH
        PROVE  (AllInv /\ LostInv)'
    <3>1. Next
      BY <2>1, HistoryRefines
    <3>2. AllInv'
      BY <2>1, <3>1, StepKeepsInv, JobInvStep, KnownInvStep DEF AllInv
    <3>3. LostInv'
      BY <2>1, OtherStep, LoseStep, CutStep DEF NextH
    <3> QED
      BY <3>2, <3>3
  <2>2. ASSUME AllInv, LostInv, UNCHANGED varsH
        PROVE  (AllInv /\ LostInv)'
    <3>1. UNCHANGED vars /\ UNCHANGED <<lost, cut>>
      BY <2>2 DEF varsH
    <3>2. Inv' /\ JobInv' /\ KnownInv'
      BY <2>2, <3>1, StutterKeepsInv DEF AllInv, vars, JobInv, KnownInv, WorkKnown
    <3>3. LostTypes' /\ LostSettled' /\ PendingNew' /\ AttemptsCounted'
      BY <2>2, <3>1 DEF vars, LostInv, LostTypes, LostSettled, PendingNew, AttemptsCounted,
                        Settled, Ended
    <3> QED
      BY <3>2, <3>3 DEF AllInv, LostInv
  <2> QED
    BY <2>1, <2>2
<1> QED
  BY <1>1, <1>2, PTL DEF SpecH

\* No attempt tries again to insert a row over whose key an earlier attempt of its source
\* failed, whatever the names and their slugs, except an entity of a blunt slug.
THEOREM NothingLostTwice == SpecH => []NeverLosesTwice
<1>1. LostInv => NeverLosesTwice
  BY DEF LostInv, PendingNew, Sure, NeverLosesTwice, Busy
<1> QED
  BY <1>1, LostCorrect, PTL

\* A poisoned job has lost a race over a blunt slug, or used MAX_ATTEMPTS up by deadlocks,
\* faults, and races lost over keys of its own, each over a different one: with more
\* attempts than keys it takes one of the three to poison it, however many workers race.
THEOREM PoisonAccounted == SpecH => []PoisonIsAccounted
<1>1. AllInv /\ LostInv => PoisonIsAccounted
  <2> SUFFICES ASSUME AllInv, LostInv, NEW s \in Sources
               PROVE  /\ lost[s] \subseteq KeysOf(s)
                      /\ job[s] = "poison" => \/ MaxAttempts <= Cardinality(lost[s]) + cut[s]
                                              \/ \E k \in lost[s] : Blunt(k)
    BY DEF PoisonIsAccounted
  <2>1. lost[s] \subseteq KeysOf(s)
    BY DEF LostInv, LostTypes
  <2>2. job[s] = "poison" => Ended(s) = MaxAttempts
    BY DEF AllInv, JobInv, Ended
  <2> QED
    BY <2>1, <2>2 DEF LostInv, AttemptsCounted
<1> QED
  BY <1>1, LostCorrect, PTL
=============================================================================
