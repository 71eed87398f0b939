----------------------------- MODULE SlackCapture -----------------------------
(***************************************************************************)
(* What Slack sends and what becomes a source of it: app/api/slack.py up   *)
(* to ingest_source.                                                       *)
(*                                                                         *)
(* Slack delivers an event until a delivery is answered in time, at most   *)
(* MaxTries times; a click of the message shortcut is delivered once.  The *)
(* handlers are coroutines that call the database and Slack without        *)
(* awaiting, so an API process serves one delivery at a time; several      *)
(* processes share the sources table.  A step of a handler is one action:  *)
(* a call of Slack, a SELECT, an INSERT with its commit, the enqueue in a  *)
(* session of its own.                                                     *)
(*                                                                         *)
(* The words of a post are a version, raised by every edit; an event       *)
(* carries the words as first posted.  Signatures, stages, access lists    *)
(* and provenance are left out, and so is the text of a reply.             *)
(***************************************************************************)
EXTENDS Integers, FiniteSets

CONSTANTS
    Posts,       \* messages written in Slack
    Parent,      \* Parent[p]: the post that starts the thread of p, None outside one
    Organic,     \* posts of people, with text, that do not begin with the bot's name
    Mentions,    \* posts that name the bot
    Marks,       \* of these, the ones whose words begin with "mark"
    Saved,       \* posts whose shortcut may be clicked
    Servers,     \* API processes
    None,
    MaxTries,    \* deliveries of one event: Slack's first and its retries
    MaxFaults,   \* bound: errors, deaths and timeouts
    MaxEdits,    \* bound: edits of posts
    MaxClicks    \* bound: clicks of one post's shortcut

\* The event ids: one for every post, a second one for a mention, and the id that
\* a shortcut is given.
Event == (Posts \X {"message"}) \cup (Mentions \X {"mention"}) \cup (Saved \X {"shortcut"})
Retried == {e \in Event : e[2] # "shortcut"}

Version == 0..MaxEdits

\* A source: the event, the version of the post's words and of its parent's.
Source == [id : Event, own : Version \cup {None}, parent : Version \cup {None}]

Delivery == [event : Event, src : Source \cup {None}, late : BOOLEAN,
             step : {"compose", "select", "insert", "enqueue", "reply", "answer"}]

ASSUME SlackAssumption ==
    /\ Marks \subseteq Mentions /\ Mentions \subseteq Posts /\ Organic \subseteq Posts
    /\ Saved \subseteq Posts
    /\ Parent \in [Posts -> Posts \cup {None}]
    /\ \A p \in Posts : Parent[p] # p
    /\ None \notin Posts \cup Nat \cup Source \cup Delivery
    /\ MaxTries \in Nat \ {0}
    /\ MaxFaults \in Nat /\ MaxEdits \in Nat /\ MaxClicks \in Nat

VARIABLES
    bare,      \* marks with no text of their own: any of them, and for good
    text,      \* text[p]: the version of a post's words, None before it is posted
    tries,     \* tries[e]: deliveries of an event so far
    acked,     \* events answered in time
    at,        \* at[v]: the delivery process v is serving, None when idle
    sources,   \* rows of sources: the records below are their dedupe keys
    jobs,      \* sources with a processing job
    announced, \* sources a reply called marked or saved, "extraction is queued"
    stranded,  \* history: sources whose handler failed between commit and enqueue
    refused,   \* history: marks whose parent's words Slack once declined to give
    faults, edits

storeVars == <<sources, jobs, announced, stranded>>
vars == <<bare, text, tries, acked, at, sources, jobs, announced, stranded, refused, faults, edits>>

TypeOK ==
    /\ bare \subseteq Marks \ Organic
    /\ text \in [Posts -> Version \cup {None}]
    /\ tries \in [Event -> 0..(MaxTries + MaxClicks)]
    /\ acked \subseteq Event
    /\ at \in [Servers -> Delivery \cup {None}]
    /\ sources \subseteq Source
    /\ jobs \subseteq Source
    /\ announced \subseteq Source
    /\ stranded \subseteq Source
    /\ refused \subseteq Event
    /\ faults \in 0..MaxFaults
    /\ edits \in 0..MaxEdits

Init ==
    /\ bare \in SUBSET (Marks \ Organic)
    /\ text = [p \in Posts |-> None]
    /\ tries = [e \in Event |-> 0]
    /\ acked = {}
    /\ at = [v \in Servers |-> None]
    /\ sources = {} /\ jobs = {} /\ announced = {} /\ stranded = {}
    /\ refused = {}
    /\ faults = 0 /\ edits = 0

-----------------------------------------------------------------------------
(***************************************************************************)
(* Slack.                                                                  *)
(***************************************************************************)
Posted(p) == text[p] # None

Post(p) ==
    /\ ~Posted(p)
    /\ Parent[p] # None => Posted(Parent[p])
    /\ text' = [text EXCEPT ![p] = 0]
    /\ UNCHANGED <<bare, tries, acked, at, storeVars, refused, faults, edits>>

\* An edit's own event has a subtype and is passed over.
Edit(p) ==
    /\ Posted(p)
    /\ edits < MaxEdits
    /\ edits' = edits + 1
    /\ text' = [text EXCEPT ![p] = @ + 1]
    /\ UNCHANGED <<bare, tries, acked, at, storeVars, refused, faults>>

Serving(e) == {v \in Servers : at[v] # None /\ at[v].event = e}

Arrives(v, e) ==
    /\ at[v] = None
    /\ tries' = [tries EXCEPT ![e] = @ + 1]
    /\ UNCHANGED <<bare, text, acked, storeVars, refused, edits>>

Fresh(e) == [event |-> e, src |-> None, step |-> "compose", late |-> FALSE]

\* The first delivery, or one after a delivery that ended with an error.
Deliver(v, e) ==
    /\ e \in Retried /\ Posted(e[1])
    /\ e \notin acked /\ tries[e] < MaxTries
    /\ \A u \in Serving(e) : at[u].late
    /\ Arrives(v, e)
    /\ at' = [at EXCEPT ![v] = Fresh(e)]
    /\ UNCHANGED faults

\* No answer in time: the delivery goes on, and its answer no longer counts.
TimeOut(v) ==
    /\ at[v] # None /\ ~at[v].late
    /\ faults < MaxFaults
    /\ faults' = faults + 1
    /\ at' = [at EXCEPT ![v].late = TRUE]
    /\ UNCHANGED <<bare, text, tries, acked, storeVars, refused, edits>>

Click(v, p) ==
    /\ Posted(p)
    /\ tries[<<p, "shortcut">>] < MaxClicks
    /\ Arrives(v, <<p, "shortcut">>)
    /\ at' = [at EXCEPT ![v] = [Fresh(<<p, "shortcut">>) EXCEPT
                                  !.step = "select",
                                  !.src = [id |-> <<p, "shortcut">>, own |-> text[p],
                                           parent |-> None]]]
    /\ UNCHANGED faults

-----------------------------------------------------------------------------
(***************************************************************************)
(* The handlers.                                                           *)
(***************************************************************************)
\* Process v goes on with its delivery at the given step.
Goes(v, step) == at' = [at EXCEPT ![v].step = step]

IsMark(e) == e[2] = "mention" /\ e[1] \in Marks
IsBare(e) == IsMark(e) /\ e[1] \in bare
InThread(e) == IsMark(e) /\ Parent[e[1]] # None

\* Mutant: a message's words are asked of Slack like a parent's.
OwnWordsLive(e) == IF IsBare(e) THEN None ELSE text[e[1]]

\* The words an event carries.
OwnWords(e) == IF IsBare(e) THEN None ELSE 0

\* Mutant: the parent's name instead of its words.
ParentWordsName(e) == {IF IsMark(e) THEN Parent[e[1]] ELSE None}

\* fetch_message, asked by a mark in a thread: the words the parent has now, or None.
\* An answer of Slack's that is no message ({"ok": false}, an empty list) is no error.
ParentWords(e) == IF InThread(e) THEN {text[Parent[e[1]]], None} ELSE {None}

Combined(e, words) == [id |-> e, own |-> OwnWords(e), parent |-> words]

Captures(e) == IsMark(e) \/ (e[2] = "message" /\ e[1] \in Organic)

\* Mutant: a capture needs words of its own and a parent's.
EmptyEither(src) == src.own = None \/ src.parent = None

Empty(src) == src.own = None /\ src.parent = None
HasWords(e) == ~(IsBare(e) /\ Parent[e[1]] = None)

\* slack_events: a capture is composed; a mark of nothing, also one whose parent Slack
\* did not give ("Nothing to mark"), and a question are answered in the thread; any
\* other event is passed over.
Compose(v) ==
    /\ at[v] # None /\ at[v].step = "compose"
    /\ LET e == at[v].event IN
         \E words \in ParentWords(e) :
           /\ at' = [at EXCEPT ![v] =
                IF Captures(e) /\ ~Empty(Combined(e, words))
                  THEN [@ EXCEPT !.step = "select", !.src = Combined(e, words)]
                  ELSE [@ EXCEPT !.step = IF e[2] = "mention" THEN "reply" ELSE "answer"]]
           /\ refused' = IF InThread(e) /\ words = None THEN refused \cup {e} ELSE refused
    /\ UNCHANGED <<bare, text, tries, acked, storeVars, faults, edits>>

\* A message is captured without a word.
AfterIngest(e) == IF e[2] = "message" THEN "answer" ELSE "reply"

Known(v) == at[v].src \in sources

\* ingest_source: an existing row ends it, with no job.
Select(v) ==
    /\ at[v] # None /\ at[v].step = "select"
    /\ Goes(v, IF Known(v) THEN AfterIngest(at[v].event) ELSE "insert")
    /\ UNCHANGED <<bare, text, tries, acked, storeVars, refused, faults, edits>>

\* Mutant: nothing is enqueued.
NextAfterInsertNone(v) == AfterIngest(at[v].event)

NextAfterInsert(v) == "enqueue"

\* INSERT and commit; uq_source_dedupe refuses a row that another process has
\* committed since the SELECT, and the request ends with an error.
Insert(v) ==
    /\ at[v] # None /\ at[v].step = "insert"
    /\ IF at[v].src \in sources
         THEN /\ at' = [at EXCEPT ![v] = None]
              /\ UNCHANGED sources
         ELSE /\ sources' = sources \cup {at[v].src}
              /\ Goes(v, NextAfterInsert(v))
    /\ UNCHANGED <<bare, text, tries, acked, jobs, announced, stranded, refused, faults, edits>>

Enqueue(v) ==
    /\ at[v] # None /\ at[v].step = "enqueue"
    /\ jobs' = jobs \cup {at[v].src}
    /\ Goes(v, AfterIngest(at[v].event))
    /\ UNCHANGED <<bare, text, tries, acked, sources, announced, stranded, refused, faults, edits>>

\* post_message or post_ephemeral.
Reply(v) ==
    /\ at[v] # None /\ at[v].step = "reply"
    /\ announced' = announced \cup ({at[v].src} \ {None})
    /\ Goes(v, "answer")
    /\ UNCHANGED <<bare, text, tries, acked, sources, jobs, stranded, refused, faults, edits>>

\* Mutant: the answer is given before the work is done.
AnswersEarly(v) == at[v].step \in {"insert", "answer"}

Answers(v) == at[v].step = "answer"

\* {"ok": True}
Answer(v) ==
    /\ at[v] # None /\ Answers(v)
    /\ acked' = IF at[v].late THEN acked ELSE acked \cup {at[v].event}
    /\ at' = [at EXCEPT ![v] = None]
    /\ UNCHANGED <<bare, text, tries, storeVars, refused, faults, edits>>

\* An error of the database or of Slack, or the death of the process.
Fault(v) ==
    /\ at[v] # None
    /\ faults < MaxFaults
    /\ faults' = faults + 1
    /\ stranded' = IF at[v].step = "enqueue" THEN stranded \cup {at[v].src} ELSE stranded
    /\ at' = [at EXCEPT ![v] = None]
    /\ UNCHANGED <<bare, text, tries, acked, sources, jobs, announced, refused, edits>>

Next ==
    \/ \E p \in Posts : Post(p) \/ Edit(p)
    \/ \E v \in Servers :
         \/ \E e \in Event : Deliver(v, e)
         \/ \E p \in Saved : Click(v, p)
         \/ TimeOut(v)
         \/ Compose(v) \/ Select(v) \/ Insert(v) \/ Enqueue(v) \/ Reply(v) \/ Answer(v)
         \/ Fault(v)

Spec == Init /\ [][Next]_vars

(***************************************************************************)
(* A handler that is not interrupted runs to its end, and Slack delivers   *)
(* an event again until it is answered.  Nobody has to post, edit or click *)
(* and nothing has to fail.                                                *)
(***************************************************************************)
Step(v) == Compose(v) \/ Select(v) \/ Insert(v) \/ Enqueue(v) \/ Reply(v) \/ Answer(v)

Fairness ==
    /\ \A v \in Servers : WF_vars(Step(v))
    /\ \A e \in Retried : WF_vars(\E v \in Servers : Deliver(v, e))

FairSpec == Spec /\ Fairness

-----------------------------------------------------------------------------
(***************************************************************************)
(* Properties.                                                             *)
(***************************************************************************)
SourcesOf(e) == {s \in sources : s.id = e}
AboutToEnqueue(s) == \E v \in Servers : at[v] # None /\ at[v].step = "enqueue" /\ at[v].src = s

\* A mark was captured without its parent's words, for want of them.
Curtailed(e) == e \in refused /\ ~IsBare(e)

\* The ways in which what a mark captures can change between two deliveries: the parent
\* is edited, or Slack gives its words to one and declines them to another.
Changes(e) == edits + (IF Curtailed(e) THEN 1 ELSE 0)

\* slack.py, test_slack_endpoints.py: a redelivery of an event makes no second source.
\* It holds of a message, however often, late or on whichever process it is
\* delivered.  A mark asks for its parent's words at each delivery, so its
\* redelivery makes another source when they have changed in between, or were
\* declined: never more of them than faults that made Slack deliver again, or changes.
OneSourcePerEvent ==
    \A e \in Retried :
       Cardinality(SourcesOf(e)) <=
         1 + (IF ~IsMark(e) THEN 0 ELSE IF faults < Changes(e) THEN faults ELSE Changes(e))

\* A source has its job, or a handler is about to enqueue it, or that handler failed
\* after its commit, in which case no redelivery makes up for it (the row exists, so
\* nothing is enqueued).
Queued(s) == s \in jobs \/ AboutToEnqueue(s) \/ s \in stranded

\* "Extraction is queued", says the reply, also to a redelivery that found the row
\* another handler has only just committed.
RepliedIsQueued == \A s \in announced : s \in sources /\ Queued(s)

\* A mark of nothing but its parent's words, which Slack declined to give: it is
\* answered "Nothing to mark" and acknowledged, and lost.
Dismissed(e) == e \in refused /\ IsBare(e)

\* An event Slack will not send again has left its source behind, with its job:
\* nothing is acknowledged that could still be lost, but a dismissed mark.
AckedIsStored ==
    \A e \in acked :
       /\ Captures(e) /\ HasWords(e) => SourcesOf(e) # {} \/ Dismissed(e)
       /\ \A s \in SourcesOf(e) : Queued(s)

\* What the user and Slack have been told of a message is true of the database,
\* through redeliveries, races of handlers, time-outs and faults.
AnswersAreTrue == RepliedIsQueued /\ AckedIsStored

\* As long as Slack retries more often than things fail, what was said is captured, or
\* dismissed for want of the parent's words.
PostedIsCaptured ==
    \A e \in Retried :
       Captures(e) /\ HasWords(e) /\ Posted(e[1]) ~> SourcesOf(e) # {} \/ Dismissed(e)
=============================================================================
