-------------------------- MODULE ExtractionHistory ---------------------------
(***************************************************************************)
(* Module Extraction with a memory of why attempts failed.  The program    *)
(* keeps none: a failed attempt is rolled back, and the next one looks     *)
(* again.  The two variables only watch; every behaviour of Extraction is  *)
(* one of this module with some values of theirs.                          *)
(***************************************************************************)
EXTENDS Extraction

VARIABLES
    lost,  \* lost[s]: the unique keys over which flushes of attempts at s failed
    cut    \* cut[s]: the attempts at s that ended by a deadlock or a fault

varsH == <<vars, lost, cut>>

\* What the two constraints and the vocabulary's primary key compare.
SlugKey(e) == <<"entity", e.slug>>
AliasKey(r) == <<"alias", r.alias>>
CapKey(v) == <<"capability", v.slug>>

\* The keys that a flush of these rows inserts.
Keys(rows) ==
    {SlugKey(e) : e \in rows.entities}
      \cup {AliasKey(r) : r \in {x \in rows.aliases : x.status = "confirmed"}}
      \cup {CapKey(v) : v \in {x \in rows.vocab : x.status = "candidate"}}

\* The keys that rows already there have.
KeysThere(es, as, vs) ==
    {SlugKey(e) : e \in es}
      \cup {AliasKey(r) : r \in {x \in as : x.status = "confirmed"}}
      \cup {CapKey(v) : v \in vs}

Committed == KeysThere(entities, aliases, vocab)
Own(w) == KeysThere(work[w].own.entities, work[w].own.aliases, work[w].own.vocab)

\* What a flush that fails has lost.
Contested(w) == Keys(work[w].pending) \cap (Committed \cup Own(w))

\* The items that a prompt with the text of s may be answered with, and their keys.
Hints(s) ==
    UNION {UNION {{items[i] : i \in DOMAIN items} : items \in Answers[t]} :
             t \in {x \in Sources : Content[x] = Content[s]}}
KeysOf(s) ==
    {<<"entity", Slug[i.name]>> : i \in Hints(s)}
      \cup {<<"alias", Alias[i.name]>> : i \in Hints(s)}
      \cup {<<"capability", i.cap>> : i \in Hints(s)}

-----------------------------------------------------------------------------
InitH ==
    /\ Init
    /\ lost = [s \in Sources |-> {}]
    /\ cut = [s \in Sources |-> 0]

\* A step with which the attempt goes on.
GoOn(w) ==
    \/ Hit(w)
    \/ Miss(w)
    \/ Answer(w)
    \/ Reject(w)
    \/ LookEntity(w)
    \/ FlushEntity(w)
    \/ LookCapability(w)
    \/ FlushVocab(w)

LoseH(w) ==
    /\ FailDuplicate(w)
    /\ lost' = [lost EXCEPT ![work[w].source] = @ \cup Contested(w)]
    /\ UNCHANGED cut

CutH(w) ==
    /\ FailDeadlock(w) \/ FailFault(w)
    /\ cut' = [cut EXCEPT ![work[w].source] = @ + 1]
    /\ UNCHANGED lost

OtherH ==
    /\ \/ \E w \in Workers : StartSome(w) \/ GoOn(w) \/ Commit(w)
       \/ \E s \in Sources : WarmAsk(s) \/ WarmAnswer(s)
       \/ LoadBegin \/ LoadStep
    /\ UNCHANGED <<lost, cut>>

NextH == OtherH \/ \E w \in Workers : LoseH(w) \/ CutH(w)

SpecH == InitH /\ [][NextH]_varsH

-----------------------------------------------------------------------------
(***************************************************************************)
(* _slugify turns punctuation into a dash where normalize_alias drops it,  *)
(* so "Acme-Labs" and "Acme Labs" have one slug and two aliases that need  *)
(* not be alike.  A slug is telling if the names that have it, and an      *)
(* entity of the directory with it, are found under each other's aliases.  *)
(***************************************************************************)
Telling(slug) ==
    /\ \A n, m \in Names : Slug[n] = slug /\ Slug[m] = slug =>
         Alias[n] = Alias[m] \/ <<Alias[n], Alias[m]>> \in Alike
    /\ \A d \in Directory, n \in Names : d.slug = slug /\ Slug[n] = slug =>
         \E b \in d.aliases : b = Alias[n] \/ <<b, Alias[n]>> \in Alike

\* The key of a slug that two names share though a look-up of one does not find the other.
Blunt(k) == k[1] = "entity" /\ ~Telling(k[2])

\* What a job is about to insert clashes with what it has inserted itself only over a
\* blunt slug: the flush without a commit is there so that the next look-up sees the
\* row, and it does, unless the two names that make one slug are unlike.
ClashesAreBlunt ==
    \A w \in Busy : \A k \in Keys(work[w].pending) \cap Own(w) : Blunt(k)

\* A retry sees what the attempt before it lost to: over a key that an earlier attempt of
\* its source failed over, an attempt tries an insert again only if the slug is blunt.
NeverLosesTwice ==
    \A w \in Busy : \A k \in Keys(work[w].pending) \cap lost[work[w].source] : Blunt(k)

\* So a job's attempts run out by deadlocks and faults, and by one lost race for each of
\* the keys that its text's answers name; if there are more attempts than that, the job
\* was poisoned over a blunt slug, which is among what it has lost.
PoisonIsAccounted ==
    \A s \in Sources :
      /\ lost[s] \subseteq KeysOf(s)
      /\ job[s] = "poison" => \/ MaxAttempts <= Cardinality(lost[s]) + cut[s]
                              \/ \E k \in lost[s] : Blunt(k)
=============================================================================
