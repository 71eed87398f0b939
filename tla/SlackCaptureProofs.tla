------------------------- MODULE SlackCaptureProofs --------------------------
(***************************************************************************)
(* Proofs about module SlackCapture, for any posts, processes and bounds.  *)
(*                                                                         *)
(* The inductive invariant has, beside the types, what a delivery at each  *)
(* of its steps knows (Knows), what a source is made of (Made), that every *)
(* source is queued, about to be, or stranded, and that an answered        *)
(* capture left a source or was dismissed.  A second invariant (Counted) counts: the        *)
(* sources of an event and the deliveries that may still make one are      *)
(* never more than the faults there were, and the one that no fault had to *)
(* pay for.                                                                *)
(***************************************************************************)
EXTENDS SlackCapture, FiniteSetTheorems, TLAPS

\* HasWords, IsBare and OwnWords of the marks without text of their own that b names.
Bares(e, b) == IsMark(e) /\ e[1] \in b
Worded(e, b) == ~(Bares(e, b) /\ Parent[e[1]] = None)
Own(e, b) == IF Bares(e, b) THEN None ELSE 0

\* What a capture makes of an event that Slack delivers.
Made(s, b) ==
    s.id \in Retried => /\ s.own = Own(s.id, b)
                        /\ ~IsMark(s.id) => Captures(s.id) /\ s.parent = None

\* An event that leaves nothing: no capture, a mark of nothing, or a dismissed one.
Spared(e, rf, b) ==
    Captures(e) /\ Worded(e, b) => Bares(e, b) /\ e \in rf

\* What holds of a delivery, with the words, sources, refusals and bare marks there are.
Knows(d, txt, srcs, rf, b) ==
    /\ txt[d.event[1]] # None
    /\ d.src # None => d.src.id = d.event /\ Made(d.src, b)
    /\ d.step = "compose" => d.src = None /\ d.event \in Retried
    /\ d.step \in {"select", "insert", "enqueue"} => d.src # None
    /\ d.step \in {"enqueue", "reply", "answer"} /\ d.src # None => d.src \in srcs
    /\ d.step \in {"reply", "answer"} /\ d.src = None => Spared(d.event, rf, b)

Deliveries == \A v \in Servers : at[v] # None => Knows(at[v], text, sources, refused, bare)

\* Versions count the edits, and a thread follows its first post.
Words ==
    /\ \A p \in Posts : text[p] # None => text[p] <= edits
    /\ \A p \in Posts : text[p] # None /\ Parent[p] # None => text[Parent[p]] # None

AllQueued == \A s \in sources : Queued(s)
AllMade == \A s \in sources : Made(s, bare)
Told ==
    /\ announced \subseteq sources
    /\ \A e \in acked : Spared(e, refused, bare) \/ \E s \in sources : s.id = e

Inv == TypeOK /\ Deliveries /\ Words /\ AllQueued /\ AllMade /\ Told

USE SlackAssumption

-----------------------------------------------------------------------------
\* The initial state satisfies the invariant.
LEMMA InvInit == Init => Inv
  BY DEF Init, Inv, TypeOK, Deliveries, Words, AllQueued, AllMade, Told, Version

\* Nothing is unrefused, and a mark that has words of its own keeps them.
LEMMA Rigid == [Next]_vars => bare' = bare /\ refused \subseteq refused'
  BY DEF Next, vars, Post, Edit, Deliver, Click, Arrives, TimeOut, Compose, Select, Insert,
         Enqueue, Reply, Answer, Fault

\* An event names a post that exists.
LEMMA EventPost == \A e \in Event : e[1] \in Posts /\ e \in (Posts \X {"message", "mention", "shortcut"})
  BY DEF Event

\* The delivery that a handler's step leaves.
LEMMA DeliveryTypes ==
  ASSUME NEW d \in Delivery
  PROVE  /\ d.event \in Event /\ d.src \in Source \cup {None}
         /\ [d EXCEPT !.late = TRUE] \in Delivery
         /\ \A st \in {"compose", "select", "insert", "enqueue", "reply", "answer"} :
              /\ [d EXCEPT !.step = st] \in Delivery
              /\ \A s \in Source : [d EXCEPT !.step = st, !.src = s] \in Delivery
  BY DEF Delivery

\* A first delivery is one.
LEMMA FreshType == \A e \in Event : Fresh(e) \in Delivery
  BY DEF Fresh, Delivery

\* What a capture composes is a source.
LEMMA CombinedType ==
  ASSUME TypeOK, NEW e \in Event, NEW words \in ParentWords(e)
  PROVE  Combined(e, words) \in Source
<1>1. OwnWords(e) \in Version \cup {None}
  BY DEF OwnWords, Version
<1>2. words \in Version \cup {None}
  BY EventPost DEF ParentWords, InThread, TypeOK
<1> QED
  BY <1>1, <1>2 DEF Combined, Source

\* The delivery that composing leaves, with these words of the parent.
After(v, words) ==
    IF Captures(at[v].event) /\ ~Empty(Combined(at[v].event, words))
      THEN [at[v] EXCEPT !.step = "select", !.src = Combined(at[v].event, words)]
      ELSE [at[v] EXCEPT !.step = IF at[v].event[2] = "mention" THEN "reply" ELSE "answer"]

Composed(v, words) ==
    /\ at[v] # None /\ at[v].step = "compose"
    /\ at' = [at EXCEPT ![v] = After(v, words)]
    /\ refused' = IF InThread(at[v].event) /\ words = None THEN refused \cup {at[v].event}
                  ELSE refused
    /\ UNCHANGED <<bare, text, tries, acked, storeVars, faults, edits>>

LEMMA Composing ==
  ASSUME NEW v, Compose(v)
  PROVE  \E words \in ParentWords(at[v].event) : Composed(v, words)
  BY DEF Compose, Composed, After

\* Every step keeps the types.
LEMMA TypeStep == Inv /\ [Next]_vars => TypeOK'
<1> SUFFICES ASSUME Inv, [Next]_vars
             PROVE  TypeOK'
  OBVIOUS
<1> USE DEF TypeOK, storeVars
<1>1. TypeOK /\ Words
  BY DEF Inv
<1>2. ASSUME NEW p \in Posts, Post(p)
      PROVE  TypeOK'
  BY <1>1, <1>2 DEF Post, Version
<1>3. ASSUME NEW p \in Posts, Edit(p)
      PROVE  TypeOK'
  <2>1. text[p] \in Nat /\ text[p] <= edits /\ edits \in Nat /\ edits < MaxEdits
    BY <1>1, <1>3 DEF Edit, Posted, Version, Words
  <2>2. text[p] + 1 \in Version /\ edits + 1 \in 0..MaxEdits
    BY <2>1 DEF Version
  <2> QED
    BY <1>1, <1>3, <2>2 DEF Edit
<1>4. ASSUME NEW v \in Servers, NEW e \in Event, tries[e] < MaxTries + MaxClicks, Arrives(v, e),
             NEW d \in Delivery, at' = [at EXCEPT ![v] = d], faults' = faults
      PROVE  TypeOK'
  <2>1. tries[e] + 1 \in 0..(MaxTries + MaxClicks)
    BY <1>1, <1>4
  <2> QED
    BY <1>1, <1>4, <2>1 DEF Arrives
<1>5. ASSUME NEW v \in Servers, NEW e \in Event, Deliver(v, e)
      PROVE  TypeOK'
  <2>1. tries[e] < MaxTries + MaxClicks
    BY <1>1, <1>5 DEF Deliver
  <2> QED
    BY <1>4, <1>5, <2>1, FreshType DEF Deliver
<1>6. ASSUME NEW v \in Servers, NEW p \in Saved, Click(v, p)
      PROVE  TypeOK'
  <2> DEFINE e == <<p, "shortcut">>
             s == [id |-> e, own |-> text[p], parent |-> None]
  <2>1. e \in Event /\ p \in Posts
    BY DEF Event
  <2>2. s \in Source
    BY <1>1, <2>1 DEF Source
  <2>3. [Fresh(e) EXCEPT !.step = "select", !.src = s] \in Delivery
    BY <2>1, <2>2, FreshType, DeliveryTypes
  <2>4. /\ Arrives(v, e) /\ faults' = faults /\ tries[e] < MaxClicks
        /\ at' = [at EXCEPT ![v] = [Fresh(e) EXCEPT !.step = "select", !.src = s]]
    BY <1>6 DEF Click
  <2>5. tries[e] < MaxTries + MaxClicks
    BY <1>1, <2>1, <2>4
  <2> HIDE DEF e, s
  <2> QED
    BY <1>4, <2>1, <2>3, <2>4, <2>5
<1>7. ASSUME NEW v \in Servers, NEW d \in Delivery \cup {None}, at' = [at EXCEPT ![v] = d],
             UNCHANGED <<bare, text, tries, edits>>, refused' \subseteq Event,
             acked' \subseteq Event, sources' \subseteq Source,
             jobs' \subseteq Source, announced' \subseteq Source, stranded' \subseteq Source,
             faults' \in 0..MaxFaults
      PROVE  TypeOK'
  BY <1>1, <1>7
<1>8. ASSUME NEW v \in Servers, at[v] # None
      PROVE  /\ at[v] \in Delivery /\ at[v].event \in Event /\ at[v].src \in Source \cup {None}
             /\ at[v].step \in {"select", "insert", "enqueue"} => at[v].src \in Source
  <2>1. at[v] \in Delivery
    BY <1>1, <1>8
  <2> QED
    BY <1>8, <2>1, DeliveryTypes DEF Inv, Deliveries, Knows
<1>9. ASSUME NEW v \in Servers, TimeOut(v)
      PROVE  TypeOK'
  <2>1. [at[v] EXCEPT !.late = TRUE] \in Delivery
    BY <1>8, <1>9, DeliveryTypes DEF TimeOut
  <2>2. faults' \in 0..MaxFaults
    BY <1>1, <1>9 DEF TimeOut
  <2>3. at' = [at EXCEPT ![v] = [at[v] EXCEPT !.late = TRUE]]
    BY <1>9 DEF TimeOut
  <2>4. UNCHANGED <<bare, text, tries, acked, storeVars, refused, edits>>
    BY <1>9 DEF TimeOut
  <2> QED
    BY <1>1, <2>1, <2>2, <2>3, <2>4
<1>10. ASSUME NEW v \in Servers, at[v] # None,
              NEW st \in {"compose", "select", "insert", "enqueue", "reply", "answer"},
              Goes(v, st)
       PROVE  at' \in [Servers -> Delivery \cup {None}]
  <2>1. [at[v] EXCEPT !.step = st] \in Delivery
    BY <1>8, <1>10, DeliveryTypes
  <2>2. at' = [at EXCEPT ![v] = [at[v] EXCEPT !.step = st]]
    BY <1>10 DEF Goes
  <2> QED
    BY <1>1, <2>1, <2>2
<1>11. ASSUME NEW v \in Servers, Compose(v)
       PROVE  TypeOK'
  <2>1. PICK words \in ParentWords(at[v].event) : Composed(v, words)
    BY <1>11, Composing
  <2> DEFINE e == at[v].event
  <2>2. at[v] \in Delivery /\ e \in Event /\ Combined(e, words) \in Source
    BY <1>1, <1>8, <1>11, <2>1, CombinedType DEF Compose
  <2>3. After(v, words) \in Delivery
    BY <2>2, DeliveryTypes DEF After
  <2>4. /\ at' = [at EXCEPT ![v] = After(v, words)] /\ refused' \subseteq Event
        /\ UNCHANGED <<bare, text, tries, acked, storeVars, faults, edits>>
    BY <1>1, <2>1, <2>2 DEF Composed
  <2> QED
    BY <1>1, <2>3, <2>4
<1>12. ASSUME NEW v \in Servers, Select(v)
       PROVE  TypeOK'
  BY <1>1, <1>10, <1>12 DEF Select, AfterIngest
<1>13. ASSUME NEW v \in Servers, Insert(v)
       PROVE  TypeOK'
  <2>1. at[v] # None /\ at[v].src \in Source
    BY <1>8, <1>13 DEF Insert
  <2>2. at' \in [Servers -> Delivery \cup {None}]
    BY <1>1, <1>10, <1>13 DEF Insert, NextAfterInsert
  <2>3. sources' \subseteq Source
    BY <1>1, <1>13, <2>1 DEF Insert
  <2> QED
    BY <1>1, <1>13, <2>2, <2>3 DEF Insert
<1>14. ASSUME NEW v \in Servers, Enqueue(v)
       PROVE  TypeOK'
  <2>1. at[v] # None /\ at[v].src \in Source
    BY <1>8, <1>14 DEF Enqueue
  <2>2. at' \in [Servers -> Delivery \cup {None}]
    BY <1>10, <1>14 DEF Enqueue, AfterIngest
  <2> QED
    BY <1>1, <1>14, <2>1, <2>2 DEF Enqueue
<1>15. ASSUME NEW v \in Servers, Reply(v)
       PROVE  TypeOK'
  <2>1. at[v] # None /\ at[v].src \in Source \cup {None}
    BY <1>8, <1>15 DEF Reply
  <2>2. at' \in [Servers -> Delivery \cup {None}]
    BY <1>10, <1>15 DEF Reply
  <2> QED
    BY <1>1, <1>15, <2>1, <2>2 DEF Reply
<1>16. ASSUME NEW v \in Servers, Answer(v)
       PROVE  TypeOK'
  <2>1. at[v].event \in Event
    BY <1>8, <1>16 DEF Answer
  <2> QED
    BY <1>1, <1>16, <2>1 DEF Answer
<1>17. ASSUME NEW v \in Servers, Fault(v)
       PROVE  TypeOK'
  <2>1. stranded' \subseteq Source
    BY <1>1, <1>8, <1>17 DEF Fault
  <2> QED
    BY <1>1, <1>17, <2>1 DEF Fault
<1>18. CASE UNCHANGED vars
  BY <1>1, <1>18 DEF vars
<1> HIDE DEF TypeOK, storeVars
<1> QED
  BY <1>2, <1>3, <1>5, <1>6, <1>9, <1>11, <1>12, <1>13, <1>14, <1>15, <1>16, <1>17, <1>18
     DEF Next

-----------------------------------------------------------------------------
\* A mark of something composes something, or Slack has declined its parent's words.
LEMMA ComposesWords ==
  ASSUME TypeOK, Words, NEW e \in Event, text[e[1]] # None, Captures(e), Worded(e, bare),
         NEW words \in ParentWords(e), Empty(Combined(e, words))
  PROVE  Bares(e, bare) /\ InThread(e) /\ words = None
<1>1. e[1] \in Posts /\ 0 # None
  BY EventPost
<1>2. OwnWords(e) = None /\ words = None
  BY DEF Combined, Empty
<1>3. Bares(e, bare) /\ Parent[e[1]] # None
  BY <1>1, <1>2 DEF OwnWords, IsBare, Bares, Worded
<1> QED
  BY <1>2, <1>3 DEF InThread, Bares

\* What is composed is made of the event as delivered, and of nothing live but a
\* mark's parent.
LEMMA ComposedMade ==
  ASSUME NEW e \in Event, Captures(e), NEW words \in ParentWords(e)
  PROVE  Made(Combined(e, words), bare)
  BY DEF Made, Combined, Captures, ParentWords, InThread, OwnWords, Own, IsBare, Bares

\* A later state knows what an earlier one did.
LEMMA KnowsMore ==
  ASSUME NEW d \in Delivery, NEW txt, NEW srcs, NEW rf, NEW txt2, NEW srcs2, NEW rf2, NEW b,
         Knows(d, txt, srcs, rf, b), srcs \subseteq srcs2, rf \subseteq rf2,
         \A p \in Posts : txt[p] # None => txt2[p] # None
  PROVE  Knows(d, txt2, srcs2, rf2, b)
<1>1. d.event[1] \in Posts
  BY EventPost, DeliveryTypes
<1> QED
  BY <1>1 DEF Knows, Spared

\* Every step keeps what the deliveries know, the sources made and the order of posts.
LEMMA FactsStep == Inv /\ [Next]_vars => (Deliveries /\ Words /\ AllMade /\ Told)'
<1> SUFFICES ASSUME Inv, [Next]_vars
             PROVE  (Deliveries /\ Words /\ AllMade /\ Told)'
  OBVIOUS
<1> USE DEF storeVars
<1>0. bare' = bare /\ refused \subseteq refused'
  BY Rigid
<1>1. /\ TypeOK /\ Words /\ AllMade /\ Told
      /\ \A v \in Servers :
           at[v] # None =>
             /\ at[v] \in Delivery /\ at[v].event \in Event /\ at[v].src \in Source \cup {None}
             /\ Knows(at[v], text, sources, refused, bare)
  <2>1. \A v \in Servers : at[v] # None => at[v] \in Delivery
    BY DEF Inv, TypeOK
  <2> QED
    BY <2>1, DeliveryTypes DEF Inv, Deliveries
\* The step that moves one delivery only, which is most of them.
<1>2. ASSUME NEW v \in Servers, NEW d, at' = [at EXCEPT ![v] = d], text' = text, edits' = edits,
             sources \subseteq sources', d # None => Knows(d, text, sources', refused', bare),
             \A s \in sources' : s \in sources \/ Made(s, bare),
             announced' \subseteq announced \cup sources',
             \A e \in acked' : \/ e \in acked \/ Spared(e, refused, bare)
                               \/ \E s \in sources' : s.id = e
      PROVE  (Deliveries /\ Words /\ AllMade /\ Told)'
  <2>1. \A u \in Servers : at'[u] = IF u = v THEN d ELSE at[u]
    BY <1>1, <1>2 DEF TypeOK
  <2>2. Deliveries'
    BY <1>0, <1>1, <1>2, <2>1, KnowsMore DEF Deliveries
  <2>3. Words' /\ AllMade'
    BY <1>0, <1>1, <1>2 DEF Words, AllMade
  <2>4. \A e \in acked' : Spared(e, refused', bare) \/ \E s \in sources' : s.id = e
    BY <1>0, <1>1, <1>2 DEF Told, Spared
  <2>5. Told'
    BY <1>0, <1>1, <1>2, <2>4 DEF Told
  <2> QED
    BY <2>2, <2>3, <2>5
<1>3. ASSUME text' # text => \E p \in Posts : Post(p) \/ Edit(p),
             \A p \in Posts : text[p] # None => text'[p] # None, at' = at, Words',
             UNCHANGED <<sources, announced, acked>>
      PROVE  (Deliveries /\ Words /\ AllMade /\ Told)'
  <2>1. Deliveries'
    BY <1>0, <1>1, <1>3, KnowsMore DEF Deliveries
  <2>2. \A e \in acked : Spared(e, refused', bare) \/ \E s \in sources : s.id = e
    BY <1>0, <1>1 DEF Told, Spared
  <2> QED
    BY <1>0, <1>1, <1>3, <2>1, <2>2 DEF AllMade, Told
<1>4. ASSUME NEW p \in Posts, Post(p)
      PROVE  (Deliveries /\ Words /\ AllMade /\ Told)'
  <2>1. \A o \in Posts : text'[o] = IF o = p THEN 0 ELSE text[o]
    BY <1>1, <1>4 DEF Post, TypeOK
  <2>2. edits' = edits /\ edits >= 0 /\ 0 # None
    BY <1>1, <1>4 DEF Post, TypeOK
  <2>3. Words'
    BY <1>1, <1>4, <2>1, <2>2 DEF Words, Post, Posted
  <2> QED
    BY <1>3, <1>4, <2>1, <2>2, <2>3 DEF Post
<1>5. ASSUME NEW p \in Posts, Edit(p)
      PROVE  (Deliveries /\ Words /\ AllMade /\ Told)'
  <2>1. \A o \in Posts : text'[o] = IF o = p THEN text[p] + 1 ELSE text[o]
    BY <1>1, <1>5 DEF Edit, TypeOK
  <2>2. text[p] \in Nat /\ text[p] + 1 # None /\ edits \in Nat /\ edits' = edits + 1
    BY <1>1, <1>5 DEF Edit, Posted, TypeOK, Version
  <2>3. \A o \in Posts : text[o] # None => text[o] \in Nat
    BY <1>1 DEF TypeOK, Version
  <2>4. Words'
    BY <1>1, <2>1, <2>2, <2>3 DEF Words
  <2> QED
    BY <1>3, <1>5, <2>1, <2>2, <2>4 DEF Edit
<1>6. ASSUME NEW v \in Servers, NEW e \in Event, Deliver(v, e)
      PROVE  (Deliveries /\ Words /\ AllMade /\ Told)'
  <2>1. Knows(Fresh(e), text, sources, refused, bare)
    BY <1>6 DEF Deliver, Posted, Fresh, Knows
  <2> QED
    BY <1>2, <1>6, <2>1 DEF Deliver, Arrives
<1>7. ASSUME NEW v \in Servers, NEW p \in Saved, Click(v, p)
      PROVE  (Deliveries /\ Words /\ AllMade /\ Told)'
  <2> DEFINE e == <<p, "shortcut">>
             s == [id |-> e, own |-> text[p], parent |-> None]
             d == [Fresh(e) EXCEPT !.step = "select", !.src = s]
  <2>1. e \in Event /\ e \notin Retried /\ s.id = e /\ s \in Source /\ s # None
    BY <1>1 DEF Event, Retried, Source, TypeOK
  <2>2. d.event = e /\ d.step = "select" /\ d.src = s
    BY DEF Fresh
  <2>3. /\ at' = [at EXCEPT ![v] = d] /\ text[p] # None
        /\ UNCHANGED <<text, edits, sources, announced, acked, refused>>
    BY <1>7 DEF Click, Arrives, Posted
  <2>4. e[1] = p
    OBVIOUS
  <2> HIDE DEF d, s, e
  <2>5. Knows(d, text, sources, refused, bare)
    BY <2>1, <2>2, <2>3, <2>4 DEF Knows, Made
  <2> QED
    BY <1>2, <2>3, <2>5
<1>8. ASSUME NEW v \in Servers, TimeOut(v)
      PROVE  (Deliveries /\ Words /\ AllMade /\ Told)'
  <2> DEFINE d == [at[v] EXCEPT !.late = TRUE]
  <2>1. at' = [at EXCEPT ![v] = d] /\ UNCHANGED <<text, edits, sources, announced, acked, refused>>
    BY <1>8 DEF TimeOut
  <2>2. Knows(d, text, sources, refused, bare)
    BY <1>1, <1>8 DEF TimeOut, Knows, Delivery
  <2> HIDE DEF d
  <2> QED
    BY <1>2, <2>1, <2>2
<1>9. ASSUME NEW v \in Servers, Compose(v)
      PROVE  (Deliveries /\ Words /\ AllMade /\ Told)'
  <2>1. PICK words \in ParentWords(at[v].event) : Composed(v, words)
    BY <1>9, Composing
  <2> DEFINE e == at[v].event
             c == Combined(e, words)
             d == After(v, words)
  <2>2. /\ at[v] \in Delivery /\ e \in Event /\ c \in Source /\ c # None /\ text[e[1]] # None
        /\ at[v].src = None
    BY <1>1, <2>1, CombinedType DEF Composed, Knows
  <2>3. at' = [at EXCEPT ![v] = d] /\ UNCHANGED <<text, edits, sources, announced, acked>>
    BY <2>1 DEF Composed
  <2>4. CASE Captures(e) /\ ~Empty(c)
    <3>1. Made(c, bare) /\ c.id = e
      BY <2>2, <2>4, ComposedMade DEF Combined
    <3> HIDE DEF c
    <3>2. d.event = e /\ d.step = "select" /\ d.src = c
      BY <2>2, <2>4 DEF Delivery, After, c
    <3> HIDE DEF d, e
    <3>3. Knows(d, text, sources, refused', bare)
      BY <2>2, <3>1, <3>2 DEF Knows
    <3> QED
      BY <1>2, <2>3, <3>3
  <2>5. CASE ~(Captures(e) /\ ~Empty(c))
    <3>1. Captures(e) /\ Worded(e, bare) => Bares(e, bare) /\ InThread(e) /\ words = None
      BY <1>1, <2>2, <2>5, ComposesWords
    <3>2. Spared(e, refused', bare)
      BY <2>1, <3>1 DEF Spared, Composed
    <3>3. d.event = e /\ d.step \in {"reply", "answer"} /\ d.src = None
      BY <2>2, <2>5 DEF Delivery, After
    <3> HIDE DEF d, e, c
    <3>4. Knows(d, text, sources, refused', bare)
      BY <2>2, <3>2, <3>3 DEF Knows
    <3> QED
      BY <1>2, <2>3, <3>4
  <2> QED
    BY <2>4, <2>5
<1>10. ASSUME NEW v \in Servers, at[v] # None, NEW st, Goes(v, st), sources \subseteq sources',
              st \in {"insert", "enqueue", "reply", "answer"},
              at[v].step # "compose", at[v].src = None => at[v].step = "reply" /\ st = "answer",
              st # "insert" /\ at[v].src # None => at[v].src \in sources',
              UNCHANGED <<text, edits, acked, refused>>,
              \A s \in sources' : s \in sources \/ (s = at[v].src /\ s # None),
              announced' \subseteq announced \cup sources'
       PROVE  (Deliveries /\ Words /\ AllMade /\ Told)'
  <2> DEFINE d == [at[v] EXCEPT !.step = st]
  <2>1. at' = [at EXCEPT ![v] = d]
    BY <1>10 DEF Goes
  <2>2. at[v] \in Delivery /\ Knows(at[v], text, sources, refused, bare)
    BY <1>1, <1>10
  <2>3. d.event = at[v].event /\ d.src = at[v].src /\ d.step = st
    BY <2>2 DEF Delivery
  <2> HIDE DEF d
  <2>4. Knows(d, text, sources', refused', bare)
    BY <1>10, <2>2, <2>3 DEF Knows
  <2>5. \A s \in sources' : s \in sources \/ Made(s, bare)
    BY <1>10, <2>2 DEF Knows
  <2> QED
    BY <1>2, <1>10, <2>1, <2>4, <2>5
<1>11. ASSUME NEW v \in Servers, Select(v)
       PROVE  (Deliveries /\ Words /\ AllMade /\ Told)'
  <2>1. at[v] # None /\ at[v].step = "select" /\ at[v].src # None
    BY <1>1, <1>11 DEF Select, Knows
  <2> QED
    BY <1>10, <1>11, <2>1 DEF Select, AfterIngest, Known
<1>12. ASSUME NEW v \in Servers, Insert(v)
       PROVE  (Deliveries /\ Words /\ AllMade /\ Told)'
  <2>1. at[v] # None /\ at[v].step = "insert" /\ at[v].src # None
    BY <1>1, <1>12 DEF Insert, Knows
  <2>2. CASE at[v].src \in sources
    BY <1>2, <1>12, <2>2 DEF Insert
  <2>3. CASE at[v].src \notin sources
    BY <1>10, <1>12, <2>1, <2>3 DEF Insert, NextAfterInsert
  <2> QED
    BY <2>2, <2>3
<1>13. ASSUME NEW v \in Servers, Enqueue(v)
       PROVE  (Deliveries /\ Words /\ AllMade /\ Told)'
  <2>1. at[v] # None /\ at[v].step = "enqueue" /\ at[v].src # None /\ at[v].src \in sources
    BY <1>1, <1>13 DEF Enqueue, Knows
  <2> QED
    BY <1>10, <1>13, <2>1 DEF Enqueue, AfterIngest
<1>14. ASSUME NEW v \in Servers, Reply(v)
       PROVE  (Deliveries /\ Words /\ AllMade /\ Told)'
  <2>1. /\ at[v] # None /\ at[v].step = "reply"
        /\ at[v].src # None => at[v].src \in sources
    BY <1>1, <1>14 DEF Reply, Knows
  <2>2. announced' \subseteq announced \cup sources
    BY <1>14, <2>1 DEF Reply
  <2> QED
    BY <1>10, <1>14, <2>1, <2>2 DEF Reply
<1>15. ASSUME NEW v \in Servers, Answer(v)
       PROVE  (Deliveries /\ Words /\ AllMade /\ Told)'
  <2> DEFINE e == at[v].event
  <2>1. /\ at[v].src # None => at[v].src \in sources /\ at[v].src.id = e
        /\ at[v].src = None => Spared(e, refused, bare)
    BY <1>1, <1>15 DEF Answer, Answers, Knows
  <2>2. Spared(e, refused, bare) \/ \E s \in sources : s.id = e
    BY <2>1
  <2>3. /\ at' = [at EXCEPT ![v] = None] /\ acked' \subseteq acked \cup {e}
        /\ UNCHANGED <<text, edits, sources, announced>>
    BY <1>15 DEF Answer
  <2> HIDE DEF e
  <2> QED
    BY <1>2, <2>2, <2>3
<1>16. ASSUME NEW v \in Servers, Fault(v)
       PROVE  (Deliveries /\ Words /\ AllMade /\ Told)'
  BY <1>2, <1>16 DEF Fault
<1>17. CASE UNCHANGED vars
  BY <1>3, <1>1, <1>17 DEF vars, Words
<1> HIDE DEF storeVars
<1> QED
  BY <1>4, <1>5, <1>6, <1>7, <1>8, <1>9, <1>11, <1>12, <1>13, <1>14, <1>15, <1>16, <1>17 DEF Next

\* A source once queued, about to be, or stranded, stays one of these.
LEMMA QueuedStep == Inv /\ [Next]_vars => AllQueued'
<1> SUFFICES ASSUME Inv, [Next]_vars
             PROVE  AllQueued'
  OBVIOUS
<1> USE DEF storeVars
<1>1. TypeOK /\ AllQueued
  BY DEF Inv
\* A step of a delivery that is not enqueueing, or is and leaves the source queued.
<1>2. ASSUME NEW v \in Servers, NEW d, at' = [at EXCEPT ![v] = d],
             jobs \subseteq jobs', stranded \subseteq stranded',
             at[v] # None /\ at[v].step = "enqueue" =>
               \/ at[v].src \in jobs' \cup stranded'
               \/ d # None /\ d.step = "enqueue" /\ d.src = at[v].src,
             \A s \in sources' :
               s \in sources \/ (d # None /\ d.step = "enqueue" /\ d.src = s)
      PROVE  AllQueued'
  <2>1. \A u \in Servers : at'[u] = IF u = v THEN d ELSE at[u]
    BY <1>1, <1>2 DEF TypeOK
  <2> SUFFICES ASSUME NEW s \in sources', s \notin jobs', s \notin stranded'
               PROVE  AboutToEnqueue(s)'
    BY DEF AllQueued, Queued
  <2>2. CASE d # None /\ d.step = "enqueue" /\ d.src = s
    BY <2>1, <2>2 DEF AboutToEnqueue
  <2>3. CASE s \in sources /\ ~(d # None /\ d.step = "enqueue" /\ d.src = s)
    <3>1. PICK u \in Servers : at[u] # None /\ at[u].step = "enqueue" /\ at[u].src = s
      BY <1>1, <1>2, <2>3 DEF AllQueued, Queued, AboutToEnqueue
    <3>2. u # v
      BY <1>2, <2>3, <3>1
    <3> QED
      BY <2>1, <3>1, <3>2 DEF AboutToEnqueue
  <2> QED
    BY <1>2, <2>2, <2>3
<1>3. ASSUME UNCHANGED <<at, sources, jobs, stranded>>
      PROVE  AllQueued'
  BY <1>1, <1>3 DEF AllQueued, Queued, AboutToEnqueue
<1>4. ASSUME NEW p \in Posts, Post(p) \/ Edit(p)
      PROVE  AllQueued'
  BY <1>3, <1>4 DEF Post, Edit
<1>5. ASSUME NEW v \in Servers, NEW e \in Event, Deliver(v, e)
      PROVE  AllQueued'
  BY <1>2, <1>5 DEF Deliver, Arrives
<1>6. ASSUME NEW v \in Servers, NEW p \in Saved, Click(v, p)
      PROVE  AllQueued'
  BY <1>2, <1>6 DEF Click, Arrives
<1>7. ASSUME NEW v \in Servers, TimeOut(v)
      PROVE  AllQueued'
  <2> DEFINE d == [at[v] EXCEPT !.late = TRUE]
  <2>a. at[v] \in Delivery
    BY <1>1, <1>7 DEF TimeOut, TypeOK
  <2>b. d \in Delivery
    BY <2>a, DeliveryTypes
  <2>1. at[v] \in Delivery /\ d # None
    BY <2>a, <2>b
  <2>2. d.step = at[v].step /\ d.src = at[v].src
    BY <2>1 DEF Delivery
  <2>3. at' = [at EXCEPT ![v] = d] /\ UNCHANGED <<sources, jobs, stranded>>
    BY <1>7 DEF TimeOut
  <2> HIDE DEF d
  <2> QED
    BY <1>2, <2>1, <2>2, <2>3
<1>8. ASSUME NEW v \in Servers, Compose(v) \/ Select(v) \/ Reply(v) \/ Answer(v)
      PROVE  AllQueued'
  <2>1. at[v].step # "enqueue" /\ UNCHANGED <<sources, jobs, stranded>>
    BY <1>8 DEF Compose, Select, Reply, Answer, Answers
  <2>2. \E d : at' = [at EXCEPT ![v] = d]
    BY <1>8, Composing DEF Composed, Select, Reply, Answer, Goes
  <2> QED
    BY <1>2, <2>1, <2>2
<1>9. ASSUME NEW v \in Servers, Insert(v)
      PROVE  AllQueued'
  <2>1. CASE at[v].src \in sources
    BY <1>2, <1>9, <2>1 DEF Insert
  <2>2. CASE at[v].src \notin sources
    <3> DEFINE d == [at[v] EXCEPT !.step = "enqueue"]
    <3>a. at[v] \in Delivery
      BY <1>1, <1>9 DEF Insert, TypeOK
    <3>b. d \in Delivery
      BY <3>a, DeliveryTypes
    <3>1. at[v] \in Delivery /\ d # None
      BY <3>a, <3>b
    <3>2. d.step = "enqueue" /\ d.src = at[v].src
      BY <3>1 DEF Delivery
    <3>3. /\ at' = [at EXCEPT ![v] = d] /\ sources' = sources \cup {at[v].src}
          /\ UNCHANGED <<jobs, stranded>> /\ at[v].step = "insert"
      BY <1>9, <2>2 DEF Insert, Goes, NextAfterInsert
    <3> HIDE DEF d
    <3> QED
      BY <1>2, <3>1, <3>2, <3>3
  <2> QED
    BY <2>1, <2>2
<1>10. ASSUME NEW v \in Servers, Enqueue(v)
       PROVE  AllQueued'
  BY <1>2, <1>10 DEF Enqueue, Goes
<1>11. ASSUME NEW v \in Servers, Fault(v)
       PROVE  AllQueued'
  BY <1>2, <1>11 DEF Fault
<1>12. CASE UNCHANGED vars
  BY <1>3, <1>12 DEF vars
<1> HIDE DEF storeVars
<1> QED
  BY <1>4, <1>5, <1>6, <1>7, <1>8, <1>9, <1>10, <1>11, <1>12 DEF Next

\* The invariant holds in every state.
THEOREM Correct == Spec => []Inv
<1>1. Inv /\ [Next]_vars => Inv'
  BY TypeStep, FactsStep, QueuedStep DEF Inv
<1> QED
  BY <1>1, InvInit, PTL DEF Spec

\* What the tables and the handlers hold is of its type in every state.
THEOREM TypeCorrect == Spec => []TypeOK
  BY Correct, PTL DEF Inv

\* What the user and Slack have been told of a message is true of the database, for
\* any number of processes, deliveries, edits and faults.
THEOREM AnswersTrue == Spec => []AnswersAreTrue
<1>1. Inv => AnswersAreTrue
  <2> SUFFICES ASSUME Inv
               PROVE  AnswersAreTrue
    OBVIOUS
  <2>1. \A e : Spared(e, refused, bare) => (Captures(e) /\ HasWords(e) => Dismissed(e))
    BY DEF Spared, Worded, Bares, HasWords, IsBare, Dismissed
  <2> QED
    BY <2>1 DEF Inv, AllQueued, Told, AnswersAreTrue, RepliedIsQueued, AckedIsStored, SourcesOf
<1> QED
  BY <1>1, Correct, PTL

\* However often, late or concurrently an event that is not a mark is delivered, it
\* has one source at most: OneSourcePerEvent of these.
THEOREM MessageIsOneSource ==
  Spec => [](\A e \in Retried : ~IsMark(e) => \A s, t \in SourcesOf(e) : s = t)
<1>1. Inv => \A e \in Retried : ~IsMark(e) => \A s, t \in SourcesOf(e) : s = t
  <2> SUFFICES ASSUME Inv, NEW e \in Retried, ~IsMark(e), NEW s \in sources, NEW t \in sources,
                      s.id = e, t.id = e
               PROVE  s = t
    BY DEF SourcesOf
  <2>1. s \in Source /\ t \in Source
    BY DEF Inv, TypeOK
  <2>2. s.own = t.own /\ s.parent = t.parent
    BY DEF Inv, AllMade, Made
  <2> QED
    BY <2>1, <2>2 DEF Source
<1> QED
  BY <1>1, Correct, PTL

-----------------------------------------------------------------------------
(***************************************************************************)
(* How many sources a mark can have.  Two reasons bound them.  Sources of  *)
(* a mark differ in the version of the parent's words only, or lack them,  *)
(* and there are as many as changes, and one more.  And every source, like *)
(* every delivery that may still make one, was paid for: by the delivery   *)
(* in time, which Slack makes once, or by the fault that made Slack        *)
(* deliver again.                                                          *)
(***************************************************************************)
\* The version a source has of the parent's words, which only a mark in a thread has, and
\* not that without Slack's having declined them.
Anchored(s, rf, ed, b) ==
    s.id \in Retried =>
       /\ s.parent = None /\ InThread(s.id) => s.id \in rf /\ ~Bares(s.id, b)
       /\ s.parent # None => InThread(s.id) /\ s.parent <= ed

Anchors ==
    /\ \A s \in sources : Anchored(s, refused, edits, bare)
    /\ \A v \in Servers :
         at[v] # None => (at[v].src # None => Anchored(at[v].src, refused, edits, bare))

\* The deliveries that may still make a source, and the one that no fault paid for.
Pending(e) == {v \in Serving(e) : at[v].step \in {"compose", "select", "insert"}}
InTime(e) == e \in acked \/ \E v \in Serving(e) : ~at[v].late
Owed(e) == IF InTime(e) THEN 1 ELSE 0

Count(e) ==
    /\ IsFiniteSet(SourcesOf(e)) /\ IsFiniteSet(Pending(e))
    /\ Cardinality(SourcesOf(e)) + Cardinality(Pending(e)) <= faults + Owed(e)

Counted == \A e \in Retried : Count(e)

CountInv == Inv /\ Anchors /\ Counted

LEMMA CountInit == Init => Anchors /\ Counted
<1> SUFFICES ASSUME Init
             PROVE  Anchors /\ Counted
  OBVIOUS
<1>1. \A e \in Retried : SourcesOf(e) = {} /\ Pending(e) = {} /\ Owed(e) \in 0..1
  BY DEF Init, SourcesOf, Pending, Serving, Owed
<1>2. Cardinality({}) = 0 /\ IsFiniteSet({}) /\ faults = 0
  BY FS_EmptySet DEF Init
<1>3. ASSUME NEW e \in Retried
      PROVE  Count(e)
  <2>1. SourcesOf(e) = {} /\ Pending(e) = {} /\ Owed(e) \in 0..1
    BY <1>1
  <2> QED
    BY <1>2, <2>1 DEF Count
<1> QED
  BY <1>3 DEF Init, Anchors, Counted

\* What a capture composes is anchored in the parent as it is now, or curtailed.
LEMMA CombinedAnchored ==
  ASSUME Inv, NEW e \in Event, text[e[1]] # None, NEW words \in ParentWords(e),
         ~Empty(Combined(e, words)), NEW rf, InThread(e) /\ words = None => e \in rf
  PROVE  Anchored(Combined(e, words), rf, edits, bare)
<1>1. /\ e[1] \in Posts /\ Combined(e, words).id = e /\ Combined(e, words).parent = words
      /\ words = None => ~Bares(e, bare)
  BY EventPost DEF Combined, Empty, OwnWords, IsBare, Bares
<1>2. ASSUME words # None
      PROVE  InThread(e) /\ words <= edits
  <2>1. InThread(e) /\ words = text[Parent[e[1]]]
    BY <1>2 DEF ParentWords
  <2>2. Parent[e[1]] \in Posts
    BY <1>1, <2>1 DEF InThread
  <2> QED
    BY <1>2, <2>1, <2>2 DEF Inv, Words
<1> QED
  BY <1>1, <1>2 DEF Anchored

\* Every step keeps the sources, and those to come, anchored.
LEMMA AnchorStep == Inv /\ Anchors /\ [Next]_vars => Anchors'
<1> SUFFICES ASSUME Inv, Anchors, [Next]_vars
             PROVE  Anchors'
  OBVIOUS
<1> USE DEF storeVars
<1>0. bare' = bare /\ refused \subseteq refused'
  BY Rigid
<1>1. /\ TypeOK /\ edits \in Nat
      /\ \A v \in Servers : at[v] # None => /\ at[v] \in Delivery /\ at[v].event \in Event
                                            /\ text[at[v].event[1]] # None
  <2>1. \A v \in Servers : at[v] # None => at[v] \in Delivery
    BY DEF Inv, TypeOK
  <2>2. \A v \in Servers : at[v] # None => text[at[v].event[1]] # None
    BY DEF Inv, Deliveries, Knows
  <2>3. TypeOK /\ edits \in Nat
    BY DEF Inv, TypeOK
  <2> QED
    BY <2>1, <2>2, <2>3, DeliveryTypes
<1>2. ASSUME NEW v \in Servers, NEW d, at' = [at EXCEPT ![v] = d], edits' = edits,
             d # None => d.src = None \/ Anchored(d.src, refused', edits, bare),
             \A s \in sources' : s \in sources \/ Anchored(s, refused', edits, bare)
      PROVE  Anchors'
  <2>1. \A u \in Servers : at'[u] = IF u = v THEN d ELSE at[u]
    BY <1>1, <1>2 DEF TypeOK
  <2>2. \A s : Anchored(s, refused, edits, bare) => Anchored(s, refused', edits', bare')
    BY <1>0, <1>2 DEF Anchored
  <2> QED
    BY <1>0, <1>2, <2>1, <2>2 DEF Anchors
<1>3. ASSUME at' = at, sources' = sources, edits' \in Nat, edits' >= edits
      PROVE  Anchors'
  <2>1. \A s : s \in Source /\ Anchored(s, refused, edits, bare)
                => Anchored(s, refused', edits', bare')
    BY <1>0, <1>1, <1>3 DEF Anchored, Source, Version
  <2>2. \A s \in sources : s \in Source
    BY <1>1 DEF TypeOK
  <2>3. \A v \in Servers : at[v] # None => (at[v].src # None => at[v].src \in Source)
    BY <1>1, DeliveryTypes
  <2> QED
    BY <1>3, <2>1, <2>2, <2>3 DEF Anchors
<1>4. ASSUME NEW p \in Posts, Post(p)
      PROVE  Anchors'
  BY <1>1, <1>3, <1>4 DEF Post
<1>5. ASSUME NEW p \in Posts, Edit(p)
      PROVE  Anchors'
  BY <1>1, <1>3, <1>5 DEF Edit
<1>6. ASSUME NEW v \in Servers, NEW e \in Event, Deliver(v, e)
      PROVE  Anchors'
  BY <1>2, <1>6 DEF Deliver, Arrives, Fresh
<1>7. ASSUME NEW v \in Servers, NEW p \in Saved, Click(v, p)
      PROVE  Anchors'
  <2> DEFINE e == <<p, "shortcut">>
             s == [id |-> e, own |-> text[p], parent |-> None]
             d == [Fresh(e) EXCEPT !.step = "select", !.src = s]
  <2>1. e \notin Retried /\ s.id = e /\ d.src = s
    BY DEF Retried, Fresh
  <2>2. at' = [at EXCEPT ![v] = d] /\ UNCHANGED <<edits, sources>>
    BY <1>7 DEF Click, Arrives
  <2> HIDE DEF e, s, d
  <2>3. Anchored(s, refused', edits, bare)
    BY <2>1 DEF Anchored
  <2> QED
    BY <1>2, <2>1, <2>2, <2>3
<1>8. ASSUME NEW v \in Servers, at[v] # None, NEW st, Goes(v, st), edits' = edits,
             \A s \in sources' : s \in sources \/ (s = at[v].src /\ s # None)
      PROVE  Anchors'
  <2> DEFINE d == [at[v] EXCEPT !.step = st]
  <2>1. d.src = at[v].src /\ at' = [at EXCEPT ![v] = d]
    BY <1>1, <1>8 DEF Delivery, Goes
  <2>2. at[v].src # None => Anchored(at[v].src, refused', edits, bare)
    BY <1>0, <1>8 DEF Anchors, Anchored
  <2> HIDE DEF d
  <2> QED
    BY <1>2, <1>8, <2>1, <2>2
<1>9. ASSUME NEW v \in Servers, TimeOut(v)
      PROVE  Anchors'
  <2> DEFINE d == [at[v] EXCEPT !.late = TRUE]
  <2>1. d.src = at[v].src /\ at' = [at EXCEPT ![v] = d] /\ UNCHANGED <<sources, edits>>
    BY <1>1, <1>9 DEF Delivery, TimeOut
  <2>2. at[v].src # None => Anchored(at[v].src, refused', edits, bare)
    BY <1>0, <1>9 DEF Anchors, Anchored, TimeOut
  <2> HIDE DEF d
  <2> QED
    BY <1>2, <2>1, <2>2
<1>10. ASSUME NEW v \in Servers, Compose(v)
       PROVE  Anchors'
  <2>1. PICK words \in ParentWords(at[v].event) : Composed(v, words)
    BY <1>10, Composing
  <2> DEFINE e == at[v].event
             c == Combined(e, words)
  <2>2. at[v] \in Delivery /\ e \in Event /\ text[e[1]] # None /\ at[v].src = None
    BY <1>1, <2>1 DEF Composed, Inv, Deliveries, Knows
  <2>3. /\ at' = [at EXCEPT ![v] = After(v, words)] /\ UNCHANGED <<sources, edits>>
        /\ InThread(e) /\ words = None => e \in refused'
    BY <2>1 DEF Composed
  <2>4. \/ After(v, words).src = None
        \/ ~Empty(c) /\ After(v, words).src = c
    BY <2>2 DEF After, Delivery
  <2>5. ~Empty(c) => Anchored(c, refused', edits, bare)
    BY <2>2, <2>3, CombinedAnchored
  <2> HIDE DEF c, e
  <2> QED
    BY <1>2, <2>3, <2>4, <2>5
<1>11. ASSUME NEW v \in Servers, Select(v) \/ Enqueue(v) \/ Reply(v)
       PROVE  Anchors'
  BY <1>8, <1>11 DEF Select, Enqueue, Reply
<1>12. ASSUME NEW v \in Servers, Insert(v)
       PROVE  Anchors'
  <2>1. at[v].src # None
    BY <1>12 DEF Insert, Inv, Deliveries, Knows
  <2>2. CASE at[v].src \in sources
    BY <1>2, <1>12, <2>2 DEF Insert
  <2>3. CASE at[v].src \notin sources
    BY <1>8, <1>12, <2>1, <2>3 DEF Insert
  <2> QED
    BY <2>2, <2>3
<1>13. ASSUME NEW v \in Servers, Answer(v) \/ Fault(v)
       PROVE  Anchors'
  BY <1>2, <1>13 DEF Answer, Fault
<1>14. CASE UNCHANGED vars
  BY <1>1, <1>3, <1>14 DEF vars
<1> HIDE DEF storeVars
<1> QED
  BY <1>4, <1>5, <1>6, <1>7, <1>9, <1>10, <1>11, <1>12, <1>13, <1>14 DEF Next

\* What a step of process v with its delivery does to the deliveries of an event.
LEMMA ServingMoves ==
  ASSUME TypeOK, NEW v \in Servers, NEW d, at' = [at EXCEPT ![v] = d], NEW e
  PROVE  /\ \A u \in Servers : u # v => /\ u \in Pending(e)' <=> u \in Pending(e)
                                        /\ u \in Serving(e)' <=> u \in Serving(e)
                                        /\ at'[u] = at[u]
         /\ at'[v] = d
         /\ v \in Serving(e)' <=> d # None /\ d.event = e
         /\ v \in Pending(e)' <=> /\ d # None /\ d.event = e
                                  /\ d.step \in {"compose", "select", "insert"}
         /\ Serving(e) \subseteq Servers /\ Serving(e)' \subseteq Servers
         /\ Pending(e) \subseteq Servers /\ Pending(e)' \subseteq Servers
<1>1. \A u \in Servers : at'[u] = IF u = v THEN d ELSE at[u]
  BY DEF TypeOK
<1> QED
  BY <1>1 DEF Pending, Serving

\* A step that gives no event a delivery or a source: the faults make up for what an
\* event is no longer owed.
LEMMA CountKept ==
  ASSUME NEW e \in Retried, Count(e), sources' = sources, Pending(e)' \subseteq Pending(e),
         faults \in Nat, faults' \in Nat,
         \/ faults' = faults + 1
         \/ faults' = faults /\ (InTime(e) => InTime(e)')
  PROVE  Count(e)'
<1>1. IsFiniteSet(Pending(e)') /\ Cardinality(Pending(e)') <= Cardinality(Pending(e))
  BY FS_Subset DEF Count
<1>2. SourcesOf(e)' = SourcesOf(e)
  BY DEF SourcesOf
<1>3. /\ Cardinality(Pending(e)) \in Nat /\ Cardinality(Pending(e)') \in Nat
      /\ Cardinality(SourcesOf(e)) \in Nat
  BY <1>1, FS_CardinalityType DEF Count
<1>5. Owed(e) \in 0..1 /\ Owed(e)' \in 0..1
  BY DEF Owed
<1>4. faults + Owed(e) <= faults' + Owed(e)'
  <2>1. CASE faults' = faults + 1
    BY <1>5, <2>1
  <2>2. CASE faults' = faults /\ (InTime(e) => InTime(e)')
    <3>1. Owed(e) <= Owed(e)'
      BY <2>2 DEF Owed
    <3> QED
      BY <1>5, <2>2, <3>1
  <2> QED
    BY <2>1, <2>2
<1>6. Cardinality(SourcesOf(e)) + Cardinality(Pending(e)) <= faults + Owed(e)
  BY DEF Count
<1>7. Cardinality(SourcesOf(e)) + Cardinality(Pending(e)') <= faults' + Owed(e)'
  BY <1>1, <1>3, <1>4, <1>5, <1>6
<1> QED
  BY <1>1, <1>2, <1>7 DEF Count

\* A delivery that makes its source, or is refused it, makes no other.
LEMMA CountSpent ==
  ASSUME NEW e \in Retried, Count(e), faults \in Nat, faults' = faults, NEW v, v \in Pending(e),
         Pending(e)' = Pending(e) \ {v}, NEW s,
         \/ sources' = sources
         \/ sources' = sources \cup {s} /\ (InTime(e) => InTime(e)')
  PROVE  Count(e)'
<1> DEFINE S == SourcesOf(e)
           P == Pending(e)
<1>1. IsFiniteSet(P \ {v}) /\ Cardinality(P \ {v}) = Cardinality(P) - 1
  BY FS_RemoveElement DEF Count
<1>2. IsFiniteSet(S \cup {s}) /\ Cardinality(S \cup {s}) <= Cardinality(S) + 1
  <2>1. IsFiniteSet(S) /\ Cardinality(S) \in Nat
    BY FS_CardinalityType DEF Count
  <2> HIDE DEF S
  <2>2. /\ IsFiniteSet(S \cup {s})
        /\ Cardinality(S \cup {s}) = IF s \in S THEN Cardinality(S) ELSE Cardinality(S) + 1
    BY <2>1, FS_AddElement, Zenon
  <2> QED
    BY <2>1, <2>2
<1>3. Cardinality(P) \in Nat /\ Cardinality(S) \in Nat /\ Cardinality(S \cup {s}) \in Nat
  BY <1>2, FS_CardinalityType DEF Count
<1>4. Cardinality(S) + Cardinality(P) <= faults + Owed(e)
  BY DEF Count
<1>5. Owed(e) \in 0..1 /\ Owed(e)' \in 0..1
  BY DEF Owed
<1>6. CASE sources' = sources
  <2>1. S' = S
    BY <1>6 DEF SourcesOf
  <2> HIDE DEF S, P
  <2>2. Cardinality(S) + (Cardinality(P) - 1) <= faults + Owed(e)'
    BY <1>3, <1>4, <1>5
  <2> QED
    BY <1>1, <2>1, <2>2 DEF Count, S, P
<1>7. CASE sources' = sources \cup {s} /\ (InTime(e) => InTime(e)')
  <2>1. S' = S \/ S' = S \cup {s}
    BY <1>7 DEF SourcesOf
  <2>2. Owed(e) <= Owed(e)'
    BY <1>7 DEF Owed
  <2> HIDE DEF S, P
  <2>3. /\ Cardinality(S \cup {s}) + (Cardinality(P) - 1) <= faults + Owed(e)'
        /\ Cardinality(S) + (Cardinality(P) - 1) <= faults + Owed(e)'
    BY <1>2, <1>3, <1>4, <1>5, <2>2
  <2>4. IsFiniteSet(S)
    BY DEF Count, S
  <2> QED
    BY <1>1, <1>2, <2>1, <2>3, <2>4 DEF Count, S, P
<1> QED
  BY <1>6, <1>7

\* The delivery that no fault paid for is made when none is in time.
LEMMA CountDelivered ==
  ASSUME NEW e \in Retried, Count(e), faults \in Nat, faults' = faults, sources' = sources,
         NEW v, Pending(e)' = Pending(e) \cup {v}, ~InTime(e), InTime(e)'
  PROVE  Count(e)'
<1>1. IsFiniteSet(Pending(e)) /\ Cardinality(Pending(e)) \in Nat
  BY FS_CardinalityType DEF Count
<1>2. /\ IsFiniteSet(Pending(e)')
      /\ Cardinality(Pending(e)') <= Cardinality(Pending(e)) + 1
  <2> DEFINE P == Pending(e)
  <2>1. P' = P \cup {v}
    OBVIOUS
  <2> HIDE DEF P
  <2>2. /\ IsFiniteSet(P \cup {v})
        /\ Cardinality(P \cup {v}) = IF v \in P THEN Cardinality(P) ELSE Cardinality(P) + 1
    BY <1>1, FS_AddElement, Zenon DEF P
  <2>3. Cardinality(P') <= Cardinality(P) + 1
    BY <1>1, <2>1, <2>2 DEF P
  <2> QED
    BY <2>1, <2>2, <2>3 DEF P
<1>3. SourcesOf(e)' = SourcesOf(e) /\ Cardinality(SourcesOf(e)) \in Nat
  BY FS_CardinalityType DEF SourcesOf, Count
<1>4. Owed(e) = 0 /\ Owed(e)' = 1 /\ Cardinality(Pending(e)') \in Nat
  BY <1>2, FS_CardinalityType DEF Owed
<1>5. Cardinality(SourcesOf(e)) + Cardinality(Pending(e)) <= faults
  BY <1>4 DEF Count
<1>6. Cardinality(SourcesOf(e)) + Cardinality(Pending(e)') <= faults' + Owed(e)'
  BY <1>1, <1>2, <1>3, <1>4, <1>5
<1> QED
  BY <1>2, <1>3, <1>6 DEF Count

\* Every step keeps the count.
LEMMA CountStep == CountInv /\ [Next]_vars => Counted'
<1> SUFFICES ASSUME CountInv, [Next]_vars, NEW e \in Retried
             PROVE  Count(e)'
  BY DEF Counted
<1> USE DEF storeVars
<1>1. /\ TypeOK /\ Count(e) /\ faults \in Nat
      /\ \A v \in Servers : at[v] # None =>
           /\ at[v] \in Delivery /\ at[v].event \in Event
           /\ at[v].src # None => at[v].src.id = at[v].event
  <2>1. \A v \in Servers : at[v] # None => at[v] \in Delivery
    BY DEF CountInv, Inv, TypeOK
  <2>2. TypeOK /\ faults \in Nat
    BY DEF CountInv, Inv, TypeOK
  <2>3. \A v \in Servers : at[v] # None => (at[v].src # None => at[v].src.id = at[v].event)
    BY DEF CountInv, Inv, Deliveries, Knows
  <2>4. Count(e)
    BY DEF CountInv, Counted
  <2> QED
    BY <2>1, <2>2, <2>3, <2>4, DeliveryTypes
\* A step of a delivery that stays what it was, but for its step and its source.
<1>2. ASSUME NEW v \in Servers, at[v] # None, NEW d, at' = [at EXCEPT ![v] = d], d # None,
             d.event = at[v].event, d.late = at[v].late,
             d.step \in {"compose", "select", "insert"} =>
               at[v].step \in {"compose", "select", "insert"},
             UNCHANGED <<sources, acked, faults>>
      PROVE  Count(e)'
  <2>1. Pending(e)' \subseteq Pending(e)
    BY <1>1, <1>2, ServingMoves DEF Pending, Serving
  <2>2. \A u \in Servers : /\ u \in Serving(e)' <=> u \in Serving(e)
                           /\ u \in Serving(e) => at'[u].late = at[u].late
    BY <1>1, <1>2, ServingMoves DEF Serving
  <2>3. InTime(e) => InTime(e)'
    BY <1>2, <2>2 DEF InTime, Serving
  <2> QED
    BY <1>1, <1>2, <2>1, <2>3, CountKept
<1>3. ASSUME UNCHANGED <<at, sources, acked, faults>>
      PROVE  Count(e)'
  BY <1>1, <1>3 DEF Count, SourcesOf, Pending, Serving, Owed, InTime
<1>4. ASSUME NEW p \in Posts, Post(p) \/ Edit(p)
      PROVE  Count(e)'
  BY <1>3, <1>4 DEF Post, Edit
<1>5. ASSUME NEW v \in Servers, NEW a \in Event, Deliver(v, a)
      PROVE  Count(e)'
  <2>1. /\ at' = [at EXCEPT ![v] = Fresh(a)] /\ at[v] = None /\ Fresh(a) # None
        /\ UNCHANGED <<sources, acked, faults>>
    BY <1>5, FreshType DEF Deliver, Arrives
  <2>2. Fresh(a).event = a /\ Fresh(a).step = "compose" /\ ~Fresh(a).late
    BY DEF Fresh
  <2>3. CASE a = e
    <3>1. Pending(e)' = Pending(e) \cup {v}
      <4>1. v \in Pending(e)'
        BY <1>1, <2>1, <2>2, <2>3, ServingMoves
      <4>2. /\ \A u \in Servers : u # v => (u \in Pending(e)' <=> u \in Pending(e))
            /\ Pending(e) \subseteq Servers /\ Pending(e)' \subseteq Servers
        BY <1>1, <2>1, ServingMoves
      <4> QED
        BY <4>1, <4>2
    <3>2. ~InTime(e)
      BY <1>5, <2>3 DEF Deliver, InTime
    <3>3. v \in Serving(e)' /\ ~at'[v].late
      <4>1. at'[v] = Fresh(a)
        BY <1>1, <2>1, ServingMoves
      <4> QED
        BY <2>1, <2>2, <2>3, <4>1 DEF Serving
    <3> QED
      BY <1>1, <2>1, <3>1, <3>2, <3>3, CountDelivered DEF InTime
  <2>4. CASE a # e
    <3>1. Pending(e)' \subseteq Pending(e)
      BY <1>1, <2>1, <2>2, <2>4, ServingMoves DEF Pending, Serving
    <3>2. \A u \in Serving(e) : u \in Serving(e)' /\ at'[u] = at[u]
      BY <1>1, <2>1, ServingMoves DEF Serving
    <3> QED
      BY <1>1, <2>1, <3>1, <3>2, CountKept DEF InTime
  <2> QED
    BY <2>3, <2>4
<1>6. ASSUME NEW v \in Servers, NEW p \in Saved, Click(v, p)
      PROVE  Count(e)'
  <2> DEFINE a == <<p, "shortcut">>
             d == [Fresh(a) EXCEPT !.step = "select",
                     !.src = [id |-> a, own |-> text[p], parent |-> None]]
  <2>1. a # e /\ d.event = a
    BY DEF Retried, Fresh
  <2>2. at' = [at EXCEPT ![v] = d] /\ at[v] = None /\ UNCHANGED <<sources, acked, faults>>
    BY <1>6 DEF Click, Arrives
  <2> HIDE DEF a, d
  <2>3. Pending(e)' \subseteq Pending(e)
    BY <1>1, <2>1, <2>2, ServingMoves DEF Pending, Serving
  <2>4. \A u \in Serving(e) : u \in Serving(e)' /\ at'[u] = at[u]
    BY <1>1, <2>2, ServingMoves DEF Serving
  <2> QED
    BY <1>1, <2>2, <2>3, <2>4, CountKept DEF InTime
\* A fault, or an answer awaited no longer.
<1>7. ASSUME NEW v \in Servers, TimeOut(v) \/ Fault(v)
      PROVE  Count(e)'
  <2>1. at[v] # None /\ sources' = sources /\ faults' = faults + 1 /\ faults' \in Nat
    BY <1>1, <1>7 DEF TimeOut, Fault
  <2>2. \E d : /\ at' = [at EXCEPT ![v] = d]
               /\ d = None \/ (d.event = at[v].event /\ d.step = at[v].step)
    <3>1. CASE TimeOut(v)
      <4> DEFINE d == [at[v] EXCEPT !.late = TRUE]
      <4>1. at' = [at EXCEPT ![v] = d]
        BY <3>1 DEF TimeOut
      <4>2. d.event = at[v].event /\ d.step = at[v].step
        BY <1>1, <2>1 DEF Delivery
      <4> HIDE DEF d
      <4> QED
        BY <4>1, <4>2
    <3>2. CASE Fault(v)
      BY <3>2 DEF Fault
    <3> QED
      BY <1>7, <3>1, <3>2
  <2>3. Pending(e)' \subseteq Pending(e)
    BY <1>1, <2>1, <2>2, ServingMoves DEF Pending, Serving
  <2> QED
    BY <1>1, <2>1, <2>3, CountKept
<1>8. ASSUME NEW v \in Servers, Compose(v)
      PROVE  Count(e)'
  <2>1. PICK words \in ParentWords(at[v].event) : Composed(v, words)
    BY <1>8, Composing
  <2>2. at[v] \in Delivery /\ Combined(at[v].event, words) \in Source
    BY <1>1, <2>1, CombinedType DEF Composed
  <2>3. /\ at' = [at EXCEPT ![v] = After(v, words)] /\ UNCHANGED <<sources, acked, faults>>
        /\ at[v].step = "compose" /\ at[v] # None
    BY <2>1 DEF Composed
  <2>4. After(v, words) \in Delivery
    BY <2>2, DeliveryTypes DEF After
  <2>5. After(v, words).event = at[v].event /\ After(v, words).late = at[v].late
    BY <2>2 DEF After, Delivery
  <2>6. After(v, words) # None
    BY <2>4
  <2> QED
    BY <1>2, <2>3, <2>5, <2>6
<1>9. ASSUME NEW v \in Servers, at[v] # None, NEW st, Goes(v, st),
             st \in {"insert", "enqueue", "reply", "answer"}
      PROVE  \E d : /\ at' = [at EXCEPT ![v] = d] /\ d # None /\ d.event = at[v].event
                    /\ d.late = at[v].late /\ d.step = st
  <2> DEFINE d == [at[v] EXCEPT !.step = st]
  <2>1. at[v] \in Delivery
    BY <1>1, <1>9
  <2>2. d \in Delivery
    BY <1>9, <2>1, DeliveryTypes
  <2>3. d.event = at[v].event /\ d.late = at[v].late /\ d.step = st
    BY <2>1 DEF Delivery
  <2>4. at' = [at EXCEPT ![v] = d]
    BY <1>9 DEF Goes
  <2> HIDE DEF d
  <2>5. d # None
    BY <2>2
  <2> QED
    BY <2>3, <2>4, <2>5
<1>10. ASSUME NEW v \in Servers, Select(v) \/ Enqueue(v) \/ Reply(v)
       PROVE  Count(e)'
  <2>1. /\ at[v] # None /\ UNCHANGED <<sources, acked, faults>>
        /\ \E st \in {"insert", "enqueue", "reply", "answer"} :
             Goes(v, st) /\ (st = "insert" => at[v].step = "select")
    BY <1>10 DEF Select, Enqueue, Reply, AfterIngest
  <2>2. PICK st \in {"insert", "enqueue", "reply", "answer"} :
               Goes(v, st) /\ (st = "insert" => at[v].step = "select")
    BY <2>1
  <2>3. PICK d : /\ at' = [at EXCEPT ![v] = d] /\ d # None /\ d.event = at[v].event
                 /\ d.late = at[v].late /\ d.step = st
    BY <1>9, <2>1, <2>2
  <2> QED
    BY <1>2, <2>1, <2>2, <2>3
<1>11. ASSUME NEW v \in Servers, Insert(v)
       PROVE  Count(e)'
  <2> DEFINE s == at[v].src
  <2>1. at[v] # None /\ s # None /\ s.id = at[v].event /\ at[v].step = "insert"
        /\ UNCHANGED <<acked, faults>>
    BY <1>1, <1>11 DEF Insert, CountInv, Inv, Deliveries, Knows
  <2>2. \E d : /\ at' = [at EXCEPT ![v] = d]
               /\ \/ d = None /\ sources' = sources
                  \/ /\ d # None /\ d.event = at[v].event /\ d.late = at[v].late
                     /\ d.step = "enqueue" /\ sources' = sources \cup {s}
    <3>1. CASE s \in sources
      BY <1>11, <3>1 DEF Insert
    <3>2. CASE s \notin sources
      <4>1. Goes(v, "enqueue") /\ sources' = sources \cup {s}
        BY <1>11, <3>2 DEF Insert, NextAfterInsert
      <4>2. PICK d : /\ at' = [at EXCEPT ![v] = d] /\ d # None /\ d.event = at[v].event
                     /\ d.late = at[v].late /\ d.step = "enqueue"
        BY <1>9, <2>1, <4>1
      <4> QED
        BY <4>1, <4>2
    <3> QED
      BY <3>1, <3>2
  <2>3. PICK d : /\ at' = [at EXCEPT ![v] = d]
                 /\ \/ d = None /\ sources' = sources
                    \/ /\ d # None /\ d.event = at[v].event /\ d.late = at[v].late
                       /\ d.step = "enqueue" /\ sources' = sources \cup {s}
    BY <2>2
  <2> HIDE DEF s
  <2>4. CASE at[v].event = e
    <3>1. v \in Pending(e) /\ Pending(e)' = Pending(e) \ {v}
      <4>1. v \in Pending(e)
        BY <2>1, <2>4 DEF Pending, Serving
      <4>2. v \notin Pending(e)'
        BY <1>1, <2>3, ServingMoves
      <4>3. /\ \A u \in Servers : u # v => (u \in Pending(e)' <=> u \in Pending(e))
            /\ Pending(e) \subseteq Servers /\ Pending(e)' \subseteq Servers
        BY <1>1, <2>3, ServingMoves
      <4> QED
        BY <4>1, <4>2, <4>3
    <3>2. CASE sources' = sources
      BY <1>1, <2>1, <3>1, <3>2, CountSpent
    <3>3. CASE d # None /\ d.event = at[v].event /\ d.late = at[v].late
               /\ sources' = sources \cup {s}
      <4>1. \A u \in Servers : /\ u \in Serving(e) => u \in Serving(e)'
                               /\ u \in Serving(e) => at'[u].late = at[u].late
        BY <1>1, <2>3, <3>3, <2>4, ServingMoves DEF Serving
      <4>2. InTime(e) => InTime(e)'
        BY <2>1, <4>1 DEF InTime, Serving
      <4> QED
        BY <1>1, <2>1, <3>1, <3>3, <4>2, CountSpent
    <3> QED
      BY <2>3, <3>2, <3>3
  <2>5. CASE at[v].event # e
    <3>1. Pending(e)' = Pending(e) /\ SourcesOf(e)' = SourcesOf(e)
      BY <1>1, <2>1, <2>3, <2>5, ServingMoves DEF Pending, Serving, SourcesOf
    <3>2. \A u \in Servers : /\ u \in Serving(e)' <=> u \in Serving(e)
                             /\ u \in Serving(e) => at'[u] = at[u]
      BY <1>1, <2>1, <2>3, <2>5, ServingMoves DEF Serving
    <3>3. Owed(e)' = Owed(e)
      <4>1. InTime(e)' <=> InTime(e)
        BY <2>1, <3>2 DEF InTime, Serving
      <4> QED
        BY <4>1 DEF Owed
    <3> QED
      BY <1>1, <2>1, <3>1, <3>3 DEF Count
  <2> QED
    BY <2>4, <2>5
<1>12. ASSUME NEW v \in Servers, Answer(v)
       PROVE  Count(e)'
  <2>1. /\ at[v] # None /\ at' = [at EXCEPT ![v] = None] /\ UNCHANGED <<sources, faults>>
        /\ acked' = IF at[v].late THEN acked ELSE acked \cup {at[v].event}
    BY <1>12 DEF Answer
  <2>2. Pending(e)' \subseteq Pending(e)
    BY <1>1, <2>1, ServingMoves DEF Pending, Serving
  <2>3. \A u \in Servers : u # v /\ u \in Serving(e) => u \in Serving(e)' /\ at'[u] = at[u]
    BY <1>1, <2>1, ServingMoves DEF Serving
  <2>4. InTime(e) => InTime(e)'
    <3> SUFFICES ASSUME InTime(e), e \notin acked'
                 PROVE  \E u \in Serving(e)' : ~at'[u].late
      BY DEF InTime
    <3>1. PICK u \in Serving(e) : ~at[u].late
      BY <2>1 DEF InTime
    <3>2. u # v
      BY <2>1, <3>1 DEF Serving
    <3> QED
      BY <2>3, <3>1, <3>2 DEF Serving
  <2> QED
    BY <1>1, <2>1, <2>2, <2>4, CountKept
<1>13. CASE UNCHANGED vars
  BY <1>3, <1>13 DEF vars
<1> HIDE DEF storeVars
<1> QED
  BY <1>4, <1>5, <1>6, <1>7, <1>8, <1>10, <1>11, <1>12, <1>13 DEF Next

\* Sources of one event differ in the version of the parent's words only, and there are
\* no more versions, with the one that lacks these words, than changes, and one.
LEMMA SourcesByVersion ==
  ASSUME Inv, Anchors, NEW e \in Retried
  PROVE  /\ IsFiniteSet(SourcesOf(e)) /\ Changes(e) \in Nat
         /\ Cardinality(SourcesOf(e)) <= Changes(e) + 1
         /\ ~IsMark(e) => Cardinality(SourcesOf(e)) <= 1
<1> DEFINE S == SourcesOf(e)
           n == Changes(e)
           f == [s \in S |-> IF s.parent # None THEN s.parent
                             ELSE IF InThread(e) THEN edits + 1 ELSE 0]
<1>1. edits \in Nat /\ S \subseteq sources
  BY DEF Inv, TypeOK, SourcesOf
<1>a. ASSUME NEW s \in S
      PROVE  /\ s \in Source /\ s.id = e /\ s.own = Own(e, bare)
             /\ ~IsMark(e) => s.parent = None
             /\ s.parent = None /\ InThread(e) => Curtailed(e)
             /\ s.parent # None => InThread(e) /\ s.parent \in 0..edits
  <2>1. s \in sources /\ s.id = e /\ s \in Source
    BY DEF SourcesOf, Inv, TypeOK
  <2>2. Made(s, bare) /\ Anchored(s, refused, edits, bare)
    BY <2>1 DEF Inv, AllMade, Anchors
  <2>3. s.own = Own(e, bare) /\ (~IsMark(e) => s.parent = None)
    BY <2>1, <2>2 DEF Made
  <2>4. s.parent = None /\ InThread(e) => Curtailed(e)
    BY <2>1, <2>2 DEF Anchored, Curtailed, IsBare, Bares
  <2>5. s.parent # None => s.parent \in Nat
    BY <2>1 DEF Source, Version
  <2>6. s.parent # None => InThread(e) /\ s.parent \in 0..edits
    BY <1>1, <2>1, <2>2, <2>5 DEF Anchored
  <2> QED
    BY <2>1, <2>3, <2>4, <2>6
<1> HIDE DEF S
<1>2. ASSUME NEW s \in S, NEW t \in S, s.parent = t.parent
      PROVE  s = t
  <2>1. s \in Source /\ t \in Source /\ s.id = t.id /\ s.own = t.own
    BY <1>a
  <2> QED
    BY <1>2, <2>1 DEF Source
<1>3. /\ n \in Nat /\ edits <= n
      /\ \A s \in S : s.parent = None /\ InThread(e) => n = edits + 1
      /\ \A s \in S : s.parent # None => InThread(e) /\ s.parent \in 0..edits
  <2>1. n = edits + (IF Curtailed(e) THEN 1 ELSE 0)
    BY DEF Changes
  <2> HIDE DEF n
  <2> QED
    BY <1>1, <1>a, <2>1
<1> HIDE DEF n
<1>4. f \in [S -> 0..n]
  BY <1>1, <1>3
<1>5. \A s, t \in S : f[s] = f[t] => s = t
  BY <1>1, <1>2, <1>3
<1>6. f \in Injection(S, 0..n)
  BY <1>4, <1>5 DEF Injection, IsInjective
<1>7. IsFiniteSet(0..n) /\ Cardinality(0..n) = n + 1
  <2>1. 0 \in Int /\ n \in Int /\ 0 <= n
    BY <1>3
  <2>2. IsFiniteSet(0..n) /\ Cardinality(0..n) = IF 0 > n THEN 0 ELSE n - 0 + 1
    BY <2>1, FS_Interval
  <2> QED
    BY <2>1, <2>2
<1> HIDE DEF f
<1>8. IsFiniteSet(S) /\ Cardinality(S) <= n + 1
  BY <1>6, <1>7, FS_Injection
<1>9. ASSUME ~IsMark(e)
      PROVE  Cardinality(S) <= 1
  <2>1. \A s \in S : s.parent = None
    BY <1>9, <1>a
  <2>2. \A s, t \in S : s = t
    BY <1>2, <2>1
  <2>3. CASE S = {}
    BY <2>3, FS_EmptySet
  <2>4. CASE S # {}
    <3>1. PICK s \in S : S = {s}
      BY <2>2, <2>4
    <3>2. Cardinality({s}) = 1
      BY FS_Singleton, Zenon
    <3> QED
      BY <3>1, <3>2
  <2> QED
    BY <2>3, <2>4
<1> QED
  BY <1>3, <1>8, <1>9 DEF n, S

\* A redelivery of an event makes no second source of a message, and of a mark never more
\* than faults that made Slack deliver again, nor than changes of what it captures: for any
\* number of processes, deliveries, faults and edits.
THEOREM OneSource == Spec => []OneSourcePerEvent
<1>1. CountInv /\ [Next]_vars => CountInv'
  BY TypeStep, FactsStep, QueuedStep, AnchorStep, CountStep DEF CountInv, Inv
<1>2. Init => CountInv
  BY InvInit, CountInit DEF CountInv
<1>3. CountInv => OneSourcePerEvent
  <2> SUFFICES ASSUME CountInv, NEW e \in Retried
               PROVE  Cardinality(SourcesOf(e)) <=
                        1 + (IF ~IsMark(e) THEN 0
                             ELSE IF faults < Changes(e) THEN faults ELSE Changes(e))
    BY DEF OneSourcePerEvent
  <2>1. /\ IsFiniteSet(SourcesOf(e)) /\ Cardinality(SourcesOf(e)) <= Changes(e) + 1
        /\ Changes(e) \in Nat
        /\ ~IsMark(e) => Cardinality(SourcesOf(e)) <= 1
    BY SourcesByVersion DEF CountInv
  <2>2. /\ Cardinality(SourcesOf(e)) \in Nat /\ Cardinality(Pending(e)) \in Nat
        /\ Owed(e) \in 0..1 /\ faults \in Nat /\ edits \in Nat
        /\ Cardinality(SourcesOf(e)) + Cardinality(Pending(e)) <= faults + Owed(e)
    BY FS_CardinalityType DEF CountInv, Counted, Count, Owed, Inv, TypeOK
  <2>3. Cardinality(SourcesOf(e)) <= faults + 1
    BY <2>2
  <2> QED
    BY <2>1, <2>2, <2>3
<1> QED
  BY <1>1, <1>2, <1>3, PTL DEF Spec
=============================================================================
