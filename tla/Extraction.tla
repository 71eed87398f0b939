------------------------------ MODULE Extraction ------------------------------
(***************************************************************************)
(* How one job turns a source into accepted items: the extraction and its  *)
(* cache (process.py, extraction_cache.py, prewarm.py, llm/), the evidence *)
(* check (evidence.py), and the resolution of entity names and capability  *)
(* proposals against tables that other workers write at the same time      *)
(* (entity_resolution.py, capability_resolution.py).  What the ledger does *)
(* with an accepted item is module Ledger.                                 *)
(*                                                                         *)
(* A job is one transaction, and so is a load of the directory.  A         *)
(* transaction sees what others have committed and what it has itself      *)
(* flushed; a flush of a row whose unique key another open transaction has *)
(* inserted, or of a row it has updated, waits for that transaction's end, *)
(* and a committed row with the key fails it.  The rows of one flush are   *)
(* inserted together.                                                      *)
(*                                                                         *)
(* pg_trgm similarity is two relations: Alike (at least 0.85) and Near (at *)
(* least 0.6).  Which of several matches in a class is best is left open.  *)
(***************************************************************************)
EXTENDS Integers, FiniteSets, Sequences

CONSTANTS
    Sources, Workers, None,
    Loader,       \* the session that loads the directory
    Names,        \* entity hints
    Caps,         \* capabilities, normalized
    Incident,     \* the capability whose subjects are instances
    Incs,         \* incident ids
    Content,      \* Content[s]: the source's content_hash
    Document,     \* Document[s]: the drive document it is a section of, or None
    Answers,      \* Answers[s]: what the model may return for s
    Alias,        \* Alias[name]: normalize_alias
    Slug,         \* Slug[name]: _slugify
    Alike, Near,  \* pairs of aliases, or of capabilities
    Vocabulary,   \* the capabilities migration 0005 confirms
    Directory,    \* entities of directory.json: [slug, aliases]
    MaxAttempts,
    MaxFaults,    \* bound: calls that fail for no fault of the ledger's
    MaxWarms,     \* bound: prewarm calls
    MaxLoads      \* bound: loads of the directory, one at a time

(***************************************************************************)
(* The types.  A subject is what a hint names: the sibling's subject key.  *)
(***************************************************************************)
\* quoted: the item's quote is found in the source's text.
\* sure: its confidence is 0.6 or more.
Item == [name : Names, cap : Caps, inc : Incs \cup {None}, quoted : BOOLEAN, sure : BOOLEAN]
Entity == [slug : STRING, by : Sources \cup {None}]
AliasRow(a, e, st) == [alias |-> a, entity |-> e, status |-> st]
VocabRow(c, st, syns) == [slug |-> c, status |-> st, synonyms |-> syns]
Rows == [entities : SUBSET Entity,
         aliases : SUBSET [alias : STRING, entity : Entity, status : {"confirmed", "candidate"}],
         vocab : SUBSET [slug : Caps, status : {"confirmed", "candidate"}, synonyms : SUBSET Caps]]
NoRows == [entities |-> {}, aliases |-> {}, vocab |-> {}]

Subject == [slug : STRING, cap : Caps, inc : Incs \cup {None}]
Hint == Subject \cup {None}
Object == [source : Sources, name : Names, cap : Caps, entity : Entity, subject : Subject,
           status : {"active", "candidate"}, hint : Hint, told : Hint, from : Sources]
Work == [source : Sources, hint : Hint,
         step : {"extract", "asked", "entity", "flushEntity", "capability", "flushVocab"},
         items : Seq(Item), told : Hint, from : Sources \cup {None},
         entity : Entity \cup {None}, pending : Rows, own : Rows, out : SUBSET Object]
\* A load: the directory's entities to do, the aliases of the present one to do.
Load == [todo : SUBSET Directory, names : SUBSET STRING, entity : Entity \cup {None},
         step : {"look", "flushEntity", "commit"}, pending : Rows, own : Rows]
Entry == [key : [content : {Content[s] : s \in Sources}, hint : Hint], items : Seq(Item),
          from : Sources, told : Hint]

ASSUME ExtractionAssumption ==
    /\ None \notin Sources \cup Entity \cup Subject \cup Work \cup Load
    /\ Loader \notin Workers
    /\ Answers \in [Sources -> SUBSET Seq(Item)]
    /\ Alias \in [Names -> STRING]
    /\ Slug \in [Names -> STRING]
    /\ Vocabulary \subseteq Caps
    /\ Directory \subseteq [slug : STRING, aliases : SUBSET STRING]
    /\ MaxAttempts \in Nat \ {0}
    /\ MaxFaults \in Nat
    /\ MaxWarms \in Nat
    /\ MaxLoads \in Nat

VARIABLES
    cache,       \* Redis: [key, items], and from and told, the prompt's source and hint
    entities,    \* [slug, by]: by is the source whose job made it, None for the directory
    aliases,     \* [alias, entity, status]
    vocab,       \* [slug, status, synonyms]
    objects,     \* what the jobs have committed
    job, tries,  \* the processing_jobs row of a source
    work,        \* work[w]: the job worker w is on, None when idle
    warm,        \* the sources prewarm is asking about
    faults, warms,
    load, loads  \* the load of the directory under way, or None; how many were begun

tables == <<entities, aliases, vocab, objects>>
queue == <<job, tries>>
loading == <<load, loads>>
vars == <<cache, entities, aliases, vocab, objects, job, tries, work, warm, faults, warms, load,
          loads>>

Busy == {w \in Workers : work[w] # None}

TypeOK ==
    /\ cache \subseteq Entry
    /\ [entities |-> entities, aliases |-> aliases, vocab |-> vocab] \in Rows
    /\ objects \subseteq Object
    /\ job \in [Sources -> {"queued", "running", "done", "poison"}]
    /\ tries \in [Sources -> Nat]
    /\ work \in [Workers -> Work \cup {None}]
    /\ warm \subseteq Sources
    /\ faults \in Nat
    /\ warms \in Nat
    /\ load \in Load \cup {None}
    /\ loads \in Nat

Init ==
    /\ cache = {}
    /\ entities = {}
    /\ aliases = {}
    /\ vocab = {VocabRow(c, "confirmed", {}) : c \in Vocabulary}
    /\ objects = {}
    /\ job = [s \in Sources |-> "queued"]
    /\ tries = [s \in Sources |-> 0]
    /\ work = [w \in Workers |-> None]
    /\ warm = {}
    /\ faults = 0
    /\ warms = 0
    /\ load = None
    /\ loads = 0

-----------------------------------------------------------------------------
(***************************************************************************)
(* The cache.                                                              *)
(***************************************************************************)

\* Mutant: the key leaves out what the prompt was told about the document.
KeyWithoutContext(s, hint) == [content |-> Content[s], hint |-> None]

\* extraction_cache_key: nothing of the prompt but the sibling's subject enters it.
Key(s, hint) == [content |-> Content[s], hint |-> hint]

Cached(s, hint) == {e \in cache : e.key = Key(s, hint)}

\* set_cached_extraction: the last answer for a key stays.
Stored(s, hint, items) ==
    (cache \ Cached(s, hint))
      \cup {[key |-> Key(s, hint), items |-> items, from |-> s, told |-> hint]}

\* _sibling_subject_key: an instance subject that another section of the document has.
SiblingSubjects(s) ==
    {o.subject : o \in {p \in objects : /\ Document[s] # None
                                        /\ p.source # s
                                        /\ Document[p.source] = Document[s]
                                        /\ p.subject.inc # None}}

-----------------------------------------------------------------------------
(***************************************************************************)
(* Rows that cannot both be.                                               *)
(***************************************************************************)

\* Mutant: neither constraint is there.
SameKeyNever(x, y) == FALSE

\* uq_entities_tenant_slug, the partial index on confirmed aliases, and the primary
\* key of capability_vocab.
SameKey(x, y) ==
    \/ \E d \in x.entities, e \in y.entities : d.slug = e.slug
    \/ \E a \in x.aliases, b \in y.aliases :
         a.alias = b.alias /\ a.status = "confirmed" /\ b.status = "confirmed"

SameVocabRow(x, y) == \E u \in x.vocab, v \in y.vocab : u.slug = v.slug

\* The sessions with a transaction, and what it is doing.
Txn(x) == IF x = Loader THEN load ELSE work[x]
Open == {x \in Workers \cup {Loader} : Txn(x) # None}

\* The open transactions that x's flush waits for.
WaitsFor(x) ==
    {y \in Open \ {x} : SameKey(Txn(x).pending, Txn(y).own)
                           \/ SameVocabRow(Txn(x).pending, Txn(y).own)}

Flushing(x) == Txn(x) # None /\ Txn(x).step \in {"flushEntity", "flushVocab", "commit"}

-----------------------------------------------------------------------------
(***************************************************************************)
(* A job up to its answer.                                                 *)
(***************************************************************************)
\* A retry comes after a backoff of two seconds or more (queue/postgres.py): a
\* transaction whose flush waited for the failed one has flushed by then.
BackedOff(s) ==
    tries[s] > 0 => \A x \in Open : Flushing(x) => WaitsFor(x) # {}

\* The worker claims the job, loads the source and looks for a sibling.
Start(w, s, hint) ==
    /\ work[w] = None
    /\ job[s] = "queued"
    /\ BackedOff(s)
    /\ IF SiblingSubjects(s) = {} THEN hint = None ELSE hint \in SiblingSubjects(s)
    /\ job' = [job EXCEPT ![s] = "running"]
    /\ tries' = [tries EXCEPT ![s] = @ + 1]
    /\ work' = [work EXCEPT ![w] =
                  [source |-> s, hint |-> hint, step |-> "extract", items |-> <<>>,
                   told |-> None, from |-> None, entity |-> None, pending |-> NoRows,
                   own |-> NoRows, out |-> {}]]
    /\ UNCHANGED <<cache, tables, warm, faults, warms, loading>>

\* The job goes on with an answer, its own or a cached one.
WithAnswer(w, e) ==
    [work[w] EXCEPT !.items = e.items, !.told = e.told, !.from = e.from,
                    !.step = "entity"]

Hit(w) ==
    /\ work[w] # None
    /\ work[w].step = "extract"
    /\ \E e \in Cached(work[w].source, work[w].hint) :
         work' = [work EXCEPT ![w] = WithAnswer(w, e)]
    /\ UNCHANGED <<cache, tables, queue, warm, faults, warms, loading>>

Miss(w) ==
    /\ work[w] # None
    /\ work[w].step = "extract"
    /\ Cached(work[w].source, work[w].hint) = {}
    /\ work' = [work EXCEPT ![w].step = "asked"]
    /\ UNCHANGED <<cache, tables, queue, warm, faults, warms, loading>>

\* The model answers, at the first request or at the one that repeats it with the
\* validation error, and the answer is cached.
Answer(w) ==
    /\ work[w] # None
    /\ work[w].step = "asked"
    /\ \E items \in Answers[work[w].source] :
         /\ cache' = Stored(work[w].source, work[w].hint, items)
         /\ work' = [work EXCEPT ![w] =
                       WithAnswer(w, [items |-> items, from |-> work[w].source,
                                      told |-> work[w].hint])]
    /\ UNCHANGED <<tables, queue, warm, faults, warms, loading>>

\* prewarm_extractions asks without a hint and keeps the answer, if there is one.
WarmAsk(s) ==
    /\ s \notin warm
    /\ warms < MaxWarms
    /\ Cached(s, None) = {}
    /\ warms' = warms + 1
    /\ warm' = warm \cup {s}
    /\ UNCHANGED <<cache, tables, queue, work, faults, loading>>

WarmAnswer(s) ==
    /\ s \in warm
    /\ warm' = warm \ {s}
    /\ \/ \E items \in Answers[s] : cache' = Stored(s, None, items)
       \/ UNCHANGED cache
    /\ UNCHANGED <<tables, queue, work, faults, warms, loading>>

-----------------------------------------------------------------------------
(***************************************************************************)
(* Resolving the first remaining item.                                     *)
(***************************************************************************)
Seen(x) ==
    [entities |-> entities \cup Txn(x).own.entities,
     aliases |-> aliases \cup Txn(x).own.aliases,
     vocab |-> {v \in vocab : \A u \in Txn(x).own.vocab : u.slug # v.slug}
                 \cup Txn(x).own.vocab]

At(w, step) == work[w] # None /\ work[w].step = step /\ work[w].items # <<>>

\* The confirmed rows that a hint matches, by class.
Exact(w, a) == {r \in Seen(w).aliases : r.status = "confirmed" /\ r.alias = a}
Matching(w, a, pairs) ==
    {r \in Seen(w).aliases : r.status = "confirmed" /\ <<r.alias, a>> \in pairs}

\* What a hint that is no confirmed alias makes: another alias of a match, else an
\* entity of its own, with a candidate alias for a near match.
NewRows(w, name) ==
    LET a == Alias[name]
        e == [slug |-> Slug[name], by |-> work[w].source]
        own == AliasRow(a, e, "confirmed")
    IN IF Matching(w, a, Alike) # {}
         THEN {[entity |-> r.entity, rows |-> [NoRows EXCEPT !.aliases =
                                                 {AliasRow(a, r.entity, "confirmed")}]] :
                 r \in Matching(w, a, Alike)}
       ELSE IF Matching(w, a, Near) # {}
         THEN {[entity |-> e, rows |-> [NoRows EXCEPT !.entities = {e}, !.aliases =
                                          {own, AliasRow(a, r.entity, "candidate")}]] :
                 r \in Matching(w, a, Near)}
       ELSE {[entity |-> e, rows |-> [NoRows EXCEPT !.entities = {e}, !.aliases = {own}]]}

\* The evidence check rejects an item whose quote is not found in the source.
Reject(w) ==
    /\ At(w, "entity")
    /\ ~Head(work[w].items).quoted
    /\ work' = [work EXCEPT ![w].items = Tail(@)]
    /\ UNCHANGED <<cache, tables, queue, warm, faults, warms, loading>>

\* resolve_entity up to its flush.
LookEntity(w) ==
    /\ At(w, "entity")
    /\ Head(work[w].items).quoted
    /\ LET name == Head(work[w].items).name
           exact == Exact(w, Alias[name])
       IN IF exact # {}
            THEN \E r \in exact :
                   work' = [work EXCEPT ![w].entity = r.entity, ![w].step = "capability"]
            ELSE \E n \in NewRows(w, name) :
                   work' = [work EXCEPT ![w].entity = n.entity, ![w].pending = n.rows,
                                        ![w].step = "flushEntity"]
    /\ UNCHANGED <<cache, tables, queue, warm, faults, warms, loading>>

Confirmed(w) == {v \in Seen(w).vocab : v.status = "confirmed"}
Spellings(v) == {v.slug} \cup v.synonyms

\* The item as it will be persisted: an incident's subject is the incident, and what is
\* not sure, or of a new capability, is for review.
Accepted(w, slug, isNew) ==
    LET i == Head(work[w].items) IN
      [source |-> work[w].source, name |-> i.name, cap |-> i.cap, entity |-> work[w].entity,
       subject |-> [slug |-> work[w].entity.slug, cap |-> slug,
                   inc |-> IF slug = Incident THEN i.inc ELSE None],
       status |-> IF ~i.sure \/ isNew THEN "candidate" ELSE "active",
       hint |-> work[w].hint, told |-> work[w].told, from |-> work[w].from]

\* The item is done, and the job goes on to the next one.
NextItem(w, slug, isNew, rows) ==
    work' = [work EXCEPT ![w].out = @ \cup {Accepted(w, slug, isNew)},
                         ![w].items = Tail(@), ![w].entity = None, ![w].step = "entity",
                         ![w].pending = NoRows, ![w].own = rows]

\* resolve_capability up to its flush: a confirmed spelling, a match whose row gets a
\* synonym, or a candidate row.  A proposal that no confirmed row matches is new,
\* however often it is made.
LookCapability(w) ==
    /\ At(w, "capability")
    /\ LET c == Head(work[w].items).cap
           exact == {v \in Confirmed(w) : c \in Spellings(v)}
           match == {v \in Confirmed(w) : \E x \in Spellings(v) : <<x, c>> \in Alike}
       IN IF exact # {}
            THEN \E v \in exact : NextItem(w, v.slug, FALSE, work[w].own)
          ELSE IF match # {}
            THEN \E v \in match :
                   work' = [work EXCEPT ![w].step = "flushVocab", ![w].pending =
                              [NoRows EXCEPT !.vocab =
                                 {VocabRow(v.slug, "confirmed", v.synonyms \cup {c})}]]
          ELSE IF \E v \in Seen(w).vocab : v.slug = c
            THEN NextItem(w, c, TRUE, work[w].own)
          ELSE work' = [work EXCEPT ![w].step = "flushVocab", ![w].pending =
                          [NoRows EXCEPT !.vocab = {VocabRow(c, "candidate", {})}]]
    /\ UNCHANGED <<cache, tables, queue, warm, faults, warms, loading>>

-----------------------------------------------------------------------------
(***************************************************************************)
(* The flushes.                                                            *)
(***************************************************************************)

\* A committed row, or one of the transaction's own, has the key: IntegrityError.  An
\* update of a confirmed vocabulary row has no such key.
Duplicate(x) ==
    \/ SameKey(Txn(x).pending, Seen(x))
    \/ \E u \in Txn(x).pending.vocab, v \in vocab \cup Txn(x).own.vocab :
         u.status = "candidate" /\ u.slug = v.slug

\* The transaction's own rows with the pending ones; an update of a row replaces it.
Flushed(x) ==
    LET own == Txn(x).own
        new == Txn(x).pending
    IN [entities |-> own.entities \cup new.entities,
        aliases |-> own.aliases \cup new.aliases,
        vocab |-> {v \in own.vocab : \A u \in new.vocab : u.slug # v.slug} \cup new.vocab]

FlushEntity(w) ==
    /\ At(w, "flushEntity")
    /\ WaitsFor(w) = {}
    /\ ~Duplicate(w)
    /\ work' = [work EXCEPT ![w].own = Flushed(w), ![w].pending = NoRows,
                            ![w].step = "capability"]
    /\ UNCHANGED <<cache, tables, queue, warm, faults, warms, loading>>

FlushVocab(w) ==
    /\ At(w, "flushVocab")
    /\ WaitsFor(w) = {}
    /\ ~Duplicate(w)
    /\ \E v \in work[w].pending.vocab :
         NextItem(w, v.slug, v.status = "candidate", Flushed(w))
    /\ UNCHANGED <<cache, tables, queue, warm, faults, warms, loading>>

-----------------------------------------------------------------------------
(***************************************************************************)
(* The end of a job.                                                       *)
(***************************************************************************)
\* The context objects are inserted and the transaction commits.  An UPDATE of
\* synonyms writes the whole array that was read.
Commit(w) ==
    /\ work[w] # None
    /\ work[w].step = "entity"
    /\ work[w].items = <<>>
    /\ LET own == work[w].own IN
         /\ entities' = entities \cup own.entities
         /\ aliases' = aliases \cup own.aliases
         /\ vocab' = {v \in vocab : \A u \in own.vocab : u.slug # v.slug} \cup own.vocab
         /\ objects' = objects \cup work[w].out
    /\ job' = [job EXCEPT ![work[w].source] = "done"]
    /\ work' = [work EXCEPT ![w] = None]
    /\ UNCHANGED <<cache, tries, warm, faults, warms, loading>>

\* Mutant: what was flushed before the error stays.
KeptFlushed(w) == entities \cup work[w].own.entities

\* The session is rolled back.
Kept(w) == entities

\* Mutants: one attempt too few; an update that never happens; a status of its own.
StatusAfterEarly(s) == IF tries[s] + 1 >= MaxAttempts THEN "poison" ELSE "queued"
StatusAfterNone(s) == "running"
StatusAfterFailed(s) == IF tries[s] >= MaxAttempts THEN "failed" ELSE "queued"

StatusAfter(s) == IF tries[s] >= MaxAttempts THEN "poison" ELSE "queued"

\* The job fails and is retried, or poisoned at MAX_ATTEMPTS.
Fails(w) ==
    /\ entities' = Kept(w)
    /\ job' = [job EXCEPT ![work[w].source] = StatusAfter(work[w].source)]
    /\ work' = [work EXCEPT ![w] = None]
    /\ UNCHANGED <<cache, aliases, vocab, objects, tries, warm, warms, loading>>

\* A flush meets a row that was committed since the job looked.
FailDuplicate(w) ==
    /\ Flushing(w)
    /\ WaitsFor(w) = {}
    /\ Duplicate(w)
    /\ Fails(w)
    /\ UNCHANGED faults

\* A ring of sessions, each waiting for the others directly or through others: Postgres
\* ends one of them.  One that only waits for a session of the ring goes on waiting.
InDeadlock(x) ==
    \E ring \in SUBSET Open :
      /\ x \in ring /\ ring # {x}
      /\ \A y \in ring : Flushing(y)
      /\ \A part \in SUBSET ring \ {{}, ring} : \E y \in part : WaitsFor(y) \cap (ring \ part) # {}

FailDeadlock(w) ==
    /\ Flushing(w)
    /\ InDeadlock(w)
    /\ Fails(w)
    /\ UNCHANGED faults

\* A rate limit, an answer that is invalid twice, a timeout, a lost connection.
FailFault(w) ==
    /\ work[w] # None
    /\ faults < MaxFaults
    /\ faults' = faults + 1
    /\ Fails(w)

-----------------------------------------------------------------------------
(***************************************************************************)
(* load_directory, in one transaction: an entity per slug, flushed when it *)
(* is new, and an alias per spelling that no row, confirmed or candidate,  *)
(* has.  The aliases wait for the next entity's flush or for the commit's. *)
(***************************************************************************)
LoadBegin ==
    /\ load = None
    /\ loads < MaxLoads
    /\ loads' = loads + 1
    /\ load' = [todo |-> Directory, names |-> {}, entity |-> None, step |-> "look",
                pending |-> NoRows, own |-> NoRows]
    /\ UNCHANGED <<cache, tables, queue, work, warm, faults, warms>>

\* The aliases of one entity are done: the next one is looked up by its slug.
LoadEntity(d) ==
    /\ load # None
    /\ load.step = "look" /\ load.names = {} /\ d \in load.todo
    /\ LET there == {e \in Seen(Loader).entities : e.slug = d.slug}
           new == [slug |-> d.slug, by |-> None]
           next == [load EXCEPT !.todo = @ \ {d}, !.names = d.aliases]
       IN IF there # {}
            THEN \E e \in there : load' = [next EXCEPT !.entity = e]
            ELSE load' = [next EXCEPT !.entity = new, !.step = "flushEntity",
                                      !.pending.entities = {new}]
    /\ UNCHANGED <<cache, tables, queue, work, warm, faults, warms, loads>>

LoadFlush ==
    /\ load # None
    /\ load.step = "flushEntity"
    /\ WaitsFor(Loader) = {}
    /\ ~Duplicate(Loader)
    /\ load' = [load EXCEPT !.own = Flushed(Loader), !.pending = NoRows, !.step = "look"]
    /\ UNCHANGED <<cache, tables, queue, work, warm, faults, warms, loads>>

LoadAlias(a) ==
    /\ load # None
    /\ load.step = "look" /\ a \in load.names
    /\ LET rows == Seen(Loader).aliases \cup load.pending.aliases
           new == {AliasRow(a, load.entity, "confirmed")}
       IN load' = [load EXCEPT !.names = @ \ {a}, !.pending.aliases =
                     IF \E r \in rows : r.alias = a THEN @ ELSE @ \cup new]
    /\ UNCHANGED <<cache, tables, queue, work, warm, faults, warms, loads>>

LoadEnd ==
    /\ load # None
    /\ load.step = "look" /\ load.names = {} /\ load.todo = {}
    /\ load' = [load EXCEPT !.step = "commit"]
    /\ UNCHANGED <<cache, tables, queue, work, warm, faults, warms, loads>>

LoadCommit ==
    /\ load # None
    /\ load.step = "commit"
    /\ WaitsFor(Loader) = {}
    /\ ~Duplicate(Loader)
    /\ entities' = entities \cup Flushed(Loader).entities
    /\ aliases' = aliases \cup Flushed(Loader).aliases
    /\ load' = None
    /\ UNCHANGED <<cache, vocab, objects, queue, work, warm, faults, warms, loads>>

\* The load ends with an error, and nothing of it stays.
LoadFails ==
    /\ Flushing(Loader)
    /\ (WaitsFor(Loader) = {} /\ Duplicate(Loader)) \/ InDeadlock(Loader)
    /\ load' = None
    /\ UNCHANGED <<cache, tables, queue, work, warm, faults, warms, loads>>

LoadStep ==
    \/ \E d \in Directory : LoadEntity(d)
    \/ \E d \in Directory : \E a \in d.aliases : LoadAlias(a)
    \/ LoadFlush
    \/ LoadEnd
    \/ LoadCommit
    \/ LoadFails

-----------------------------------------------------------------------------
Step(w) ==
    \/ Hit(w)
    \/ Miss(w)
    \/ Answer(w)
    \/ Reject(w)
    \/ LookEntity(w)
    \/ FlushEntity(w)
    \/ LookCapability(w)
    \/ FlushVocab(w)
    \/ Commit(w)
    \/ FailDuplicate(w)
    \/ FailDeadlock(w)

StartSome(w) == \E s \in Sources : \E hint \in SiblingSubjects(s) \cup {None} : Start(w, s, hint)

Next ==
    \/ \E w \in Workers : StartSome(w) \/ Step(w) \/ FailFault(w)
    \/ \E s \in Sources : WarmAsk(s) \/ WarmAnswer(s)
    \/ LoadBegin \/ LoadStep

Spec == Init /\ [][Next]_vars

\* A live worker claims what is queued and goes on with what it has claimed; a load
\* that was begun goes on.
FairSpec ==
    /\ Spec
    /\ \A w \in Workers : WF_vars(StartSome(w)) /\ WF_vars(Step(w))
    /\ WF_vars(LoadStep)

-----------------------------------------------------------------------------
(***************************************************************************)
(* Properties.                                                             *)
(***************************************************************************)

\* However workers race on a name that is new, there is one entity of its slug and
\* one confirmed owner of its alias: the look-ups do not ensure it, the constraints
\* and the failed flush do.
UniqueNames ==
    /\ \A d, e \in entities : d.slug = e.slug => d = e
    /\ \A a, b \in aliases :
         a.alias = b.alias /\ a.status = "confirmed" /\ b.status = "confirmed" => a = b

\* A hint means the same entity for ever: two objects whose hints normalize alike are
\* about one entity, whichever worker resolved them, before or after the directory
\* was loaded, by an exact match, a similar one or a new entity.
SameNameSameEntity ==
    \A o, p \in objects : Alias[o.name] = Alias[p.name] => o.entity = p.entity

\* A job leaves all of its rows or none: an entity no directory names has an object.
\* A failed attempt's flushes are gone, so a retry does not find half of them.
NoOrphanEntity ==
    \A e \in entities : e.by # None => \E o \in objects : o.entity = e

\* Entities after any number of jobs that raced on new names, lost, and were rolled
\* back and retried: one for each name, and none that nothing is about.
EntitiesAreSound == UniqueNames /\ SameNameSameEntity /\ NoOrphanEntity

\* An object of a section whose sibling had established a subject comes from a prompt
\* that named that subject, and no other does: neither prewarm nor a worker that
\* asked earlier can serve it an answer to another question.
BindingIsHonoured == \A o \in objects : o.told = o.hint

\* The race of two jobs does not poison either: the loser is retried against what the
\* winner has committed, and MAX_ATTEMPTS is enough for a deadlock and a duplicate.
\* (A directory loaded meanwhile is a third party, to which a job may lose as well.)
LosersConverge ==
    \A s \in Sources : job[s] = "poison" => faults > 0 \/ loads > 0

\* Every job ends, though a transaction may wait for another at each of its flushes
\* and two jobs may name the same things in opposite orders.
EveryJobEnds == \A s \in Sources : <>(job[s] \in {"done", "poison"})
=============================================================================
