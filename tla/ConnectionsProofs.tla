-------------------------- MODULE ConnectionsProofs --------------------------
(***************************************************************************)
(* Proofs about module Connections, for any files, kinds and requests.     *)
(*                                                                         *)
(* The inductive invariant says what a session may rely on between its     *)
(* commits: a row it has loaded is the row that is there unless another    *)
(* request wrote it (LoadedRow), a row it has inserted is nobody else's    *)
(* (InsertedRow), the seed rows it counted are still there (ItemsApart),   *)
(* and of the kind's seed rows each is to do, ingested or refused in the   *)
(* version it has, unless another refreshed the kind (ReadKept).           *)
(***************************************************************************)
EXTENDS Connections, TLAPS

\* What a request is about, by its operation and step.
ShapeOf(r) ==
    /\ r.op # "load" => \E k \in Kinds : r.kinds = {k}
    /\ r.op = "load" => r.loaded = None /\ ~r.inserted
    /\ r.loaded # None => r.step \in {"loaded", "counted", "read"}
    /\ r.inserted => r.step \in {"loaded", "read"} /\ r.loaded = None /\ r.op = "sync"
    /\ r.step = "read" /\ r.op = "sync" => r.loaded # None \/ r.inserted
    /\ r.step \notin {"loaded", "counted"} => r.kinds \subseteq Imported /\ r.op \in {"sync", "load"}
    /\ r.step # "items" => r.todo = {} /\ r.failed = {} /\ r.ingested = {}
    /\ r.step \in {"loaded", "counted"} => r.read = Nothing
    /\ \A f \in Files : r.read[f] # None => KindOf[f] \in r.kinds

Shape == \A q \in Requests : Busy(q) => ShapeOf(req[q])

\* The row c of its kind, as a request knows it.
LoadedOf(r, c) ==
    /\ r.loaded # None => c # None /\ (r.raced \/ r.loaded = c)
    /\ r.op = "sync" /\ r.step \in {"fetch", "items"} => c # None

LoadedRow ==
    \A q \in Requests, k \in Kinds :
      Busy(q) /\ req[q].kinds = {k} => LoadedOf(req[q], conn[k])

InsertedRow ==
    \A q \in Requests, k \in Kinds :
      Busy(q) /\ req[q].inserted /\ req[q].kinds = {k} =>
        /\ conn[k] = None
        /\ \A p \in Requests : Busy(p) /\ req[p].inserted /\ req[p].kinds = {k} => p = q

\* The items of a run: each seeded, and to do, refused or ingested, but one of these.
ItemsOf(r, sd, src) ==
    /\ r.ingested \subseteq src
    /\ \A f \in r.todo \cup r.failed : KindOf[f] \in r.kinds /\ sd[f] # None
    /\ r.todo \cap r.failed = {}
    /\ \A s \in r.ingested :
         /\ KindOf[s[1]] \in r.kinds /\ sd[s[1]] # None
         /\ s[1] \notin r.todo \cup r.failed
    /\ ~r.expired => \A f \in r.todo : r.held[f] # None
    /\ r.step = "counted" => \A f \in Files : r.held[f] # None => sd[f] # None

ItemsApart == \A q \in Requests : Busy(q) => ItemsOf(req[q], seed, sources)

\* A file that was read is seeded so, and the seed rows are to do or done as they are.
KeptOf(r, sd) ==
    ~r.clash =>
      \A f \in Files :
        /\ r.step \in {"fetch", "items"} /\ r.read[f] # None => sd[f] = r.read[f]
        /\ r.step = "items" /\ KindOf[f] \in r.kinds /\ sd[f] # None =>
             f \in r.todo \cup r.failed \/ <<f, sd[f]>> \in r.ingested
        /\ f \in r.failed => <<f, sd[f]>> \in NoConsent
        /\ f \in r.todo /\ ~r.expired => r.held[f] = sd[f]

ReadKept == \A q \in Requests : Busy(q) => KeptOf(req[q], seed)

Inv == TypeOK /\ Shape /\ LoadedRow /\ InsertedRow /\ ItemsApart /\ ReadKept

USE ConnectionsAssumption

-----------------------------------------------------------------------------
\* The initial state satisfies the invariant.
LEMMA InvInit == Init => Inv
  BY DEF Init, Inv, TypeOK, Shape, LoadedRow, InsertedRow, ItemsApart, ReadKept, Busy, Nothing,
         Version

\* What a session's UPDATE leaves is a row.
LEMMA UpdatedType ==
  ASSUME TypeOK, NEW q \in Requests, Busy(q), NEW k \in Kinds, NEW new \in Row
  PROVE  Updated(q, k, new) \in Row
  BY DEF Updated, TypeOK, Busy, Request, Row

\* Each step of a request on its row writes a row.
LEMMA WriteTypes ==
  ASSUME TypeOK, NEW q \in Requests, NEW k \in Kinds, NEW row \in Row, WriteRow(q, k, row)
  PROVE  /\ conn' \in [Kinds -> Row \cup {None}]
         /\ req' \in [Requests -> Request \cup {None}]
         /\ crossed' \subseteq Kinds
<1> USE DEF TypeOK, WriteRow
<1>1. conn' \in [Kinds -> Row \cup {None}] /\ crossed' \subseteq Kinds
  OBVIOUS
<1>2. \A r \in Request : [r EXCEPT !.raced = TRUE] \in Request
  BY DEF Request
<1>3. req' \in [Requests -> Request \cup {None}]
  BY <1>2 DEF Busy
<1> QED
  BY <1>1, <1>3

\* A request begins as one that has loaded a row, or none.
LEMMA BeginTypes ==
  ASSUME TypeOK, NEW q \in Requests, NEW op \in {"sync", "load", "connect", "disconnect"},
         NEW ks \in SUBSET Kinds, NEW row \in Row \cup {None}, Begin(q, op, ks, row)
  PROVE  req' \in [Requests -> Request \cup {None}]
<1>1. Nothing \in [Files -> Version \cup {None}]
  BY DEF Nothing
<1>2. [op |-> op, kinds |-> ks, step |-> "loaded", loaded |-> row,
       inserted |-> FALSE, read |-> Nothing, todo |-> {}, held |-> Nothing,
       expired |-> FALSE, ingested |-> {}, failed |-> {},
       clash |-> FALSE, raced |-> FALSE] \in Request
  BY <1>1 DEF Request
<1> QED
  BY <1>2 DEF Begin, TypeOK

\* What Outcome puts into the row.
LEMMA OutcomeType ==
  ASSUME NEW q \in Requests
  PROVE  Outcome(q).status \in {"ok", "partial", "failed"} /\ Outcome(q).error \in Error \cup {None}
  BY DEF Outcome, Error

\* The row a sync's end starts from is one.
SyncBase(q, k) ==
    IF k \in Imported THEN conn[k] ELSE IF req[q].inserted THEN NewRow ELSE req[q].loaded

LEMMA SyncBaseType ==
  ASSUME Inv, NEW q \in Requests, NEW k \in Kinds, ItemsDone(q), req[q].op = "sync",
         req[q].kinds = {k}
  PROVE  SyncBase(q, k) \in Row
<1> USE DEF Inv, TypeOK, ItemsDone, Busy
<1>1. NewRow \in Row
  BY DEF NewRow, Row
<1>2. req[q] \in Request
  OBVIOUS
<1>3. CASE k \in Imported
  <2>1. req[q].step = "items"
    BY <1>3
  <2> QED
    BY <1>3, <2>1 DEF LoadedRow, LoadedOf, SyncBase
<1>4. CASE k \notin Imported
  <2>1. HasRow(q)
    BY <1>4 DEF Shape, ShapeOf, HasRow
  <2>2. req[q].loaded \in Row \cup {None}
    BY <1>2 DEF Request
  <2> QED
    BY <1>1, <1>4, <2>1, <2>2 DEF SyncBase, HasRow
<1> QED
  BY <1>3, <1>4

\* The row that each of the writing steps leaves.
LEMMA NewRowTypes ==
    /\ NewRow \in Row
    /\ \A row \in Row, k \in Kinds :
         /\ [row EXCEPT !.status = "disconnected"] \in Row
         /\ [row EXCEPT !.status = "error", !.error = "simulated"] \in Row
    /\ \A row \in Row, st \in {"error", "connected"}, err \in Error \cup {None} :
         [row EXCEPT !.status = st, !.error = err] \in Row
    /\ \A row \in Row, q \in Requests, k \in Kinds : Connected(q, k, row) \in Row
  BY DEF NewRow, Connected, Row, Error

\* Something that a request ingested or was refused is seeded.
LEMMA ReportedSeed ==
  ASSUME Inv, NEW q \in Requests, Busy(q), NEW k \in Kinds, req[q].kinds = {k},
         req[q].failed # {} \/ req[q].ingested # {}
  PROVE  SeedRows(k) # {}
<1>1. req[q] \in Request /\ ItemsOf(req[q], seed, sources)
  BY DEF Inv, TypeOK, ItemsApart, Busy
<1>2. CASE req[q].failed # {}
  <2>1. PICK f \in req[q].failed : f \in Files
    BY <1>1, <1>2 DEF Request
  <2> QED
    BY <1>1, <2>1 DEF ItemsOf, SeedRows, FilesOf
<1>3. CASE req[q].ingested # {}
  <2>1. PICK s \in req[q].ingested : s[1] \in Files
    BY <1>1, <1>3 DEF Request
  <2> QED
    BY <1>1, <2>1 DEF ItemsOf, SeedRows, FilesOf
<1> QED
  BY <1>2, <1>3

\* A row that says connected only of a kind with seed rows and error only with a reason.
Explained(k, row) ==
    /\ row.status = "connected" => SeedRows(k) # {}
    /\ row.status = "error" => row.error # None

\* Every writing step is a WriteRow of some such row.
LEMMA Writes ==
  ASSUME Inv, NEW q \in Requests, NEW k \in Kinds,
         SetCommit(q, k) \/ SyncSimulated(q, k) \/ SyncCommit(q, k)
  PROVE  /\ Busy(q) /\ req[q].kinds = {k} /\ UNCHANGED dataVars
         /\ \E new \in Row : WriteRow(q, k, Updated(q, k, new)) /\ Explained(k, new)
<1> USE DEF Inv, TypeOK
<1>a. \A e \in Error : e # None
  OBVIOUS
<1>1. CASE SetCommit(q, k)
  <2>1. Busy(q) /\ req[q] \in Request
    BY <1>1 DEF SetCommit, Busy
  <2> DEFINE row == IF req[q].loaded = None THEN NewRow ELSE req[q].loaded
             new == IF req[q].op = "connect" THEN Connected(q, k, row)
                    ELSE [row EXCEPT !.status = "disconnected"]
  <2>2. row \in Row
    BY <2>1, NewRowTypes DEF Request
  <2>3. new \in Row
    BY <2>2, NewRowTypes
  <2>4. WriteRow(q, k, Updated(q, k, new))
    BY <1>1 DEF SetCommit
  <2>a. req[q].op = "connect" =>
          \A f \in FilesOf({k}) : req[q].held[f] # None => f \in SeedRows(k)
    BY <1>1, <2>1 DEF SetCommit, ItemsApart, ItemsOf, SeedRows, FilesOf
  <2>5. Explained(k, new)
    BY <1>a, <2>2, <2>a DEF Connected, Row, Error, Explained
  <2> HIDE DEF new, row
  <2> QED
    BY <1>1, <2>1, <2>3, <2>4, <2>5 DEF SetCommit
<1>2. CASE SyncSimulated(q, k)
  <2>1. Busy(q) /\ req[q] \in Request
    BY <1>2 DEF SyncSimulated, Busy
  <2> DEFINE row == IF req[q].inserted THEN NewRow ELSE req[q].loaded
             new == [row EXCEPT !.status = "error", !.error = "simulated"]
  <2>2. row \in Row
    BY <1>2, <2>1, NewRowTypes DEF Request, SyncSimulated, HasRow
  <2>3. new \in Row
    BY <2>2, NewRowTypes
  <2>4. WriteRow(q, k, Updated(q, k, new))
    BY <1>2 DEF SyncSimulated
  <2>5. Explained(k, new)
    BY <1>a, <2>2 DEF Row, Error, Explained
  <2> HIDE DEF new, row
  <2> QED
    BY <1>2, <2>1, <2>3, <2>4, <2>5 DEF SyncSimulated
<1>3. CASE SyncCommit(q, k)
  <2>1. Busy(q) /\ ItemsDone(q) /\ req[q].op = "sync" /\ req[q].kinds = {k}
    BY <1>3 DEF SyncCommit, ItemsDone
  <2> DEFINE st == IF Outcome(q).status = "failed" THEN "error" ELSE "connected"
             new == [SyncBase(q, k) EXCEPT !.status = st, !.error = Outcome(q).error]
  <2>2. SyncBase(q, k) \in Row
    BY <2>1, SyncBaseType
  <2>3. new \in Row
    BY <2>2, NewRowTypes, OutcomeType
  <2>4. WriteRow(q, k, Updated(q, k, new))
    BY <1>3 DEF SyncCommit, SyncBase
  <2>5. st = "error" => Outcome(q).error # None
    BY <1>a DEF Outcome, Error
  <2>6. st = "connected" => SeedRows(k) # {}
    BY <2>1, ReportedSeed DEF Outcome
  <2>7. new.status = st /\ new.error = Outcome(q).error
    BY <2>2 DEF Row
  <2>8. Explained(k, new)
    BY <2>5, <2>6, <2>7 DEF Explained
  <2> HIDE DEF new, st
  <2> QED
    BY <1>3, <2>1, <2>3, <2>4, <2>8 DEF SyncCommit
<1> QED
  BY <1>1, <1>2, <1>3

\* What an item reads when its turn comes is a version.
LEMMA ContentType ==
  ASSUME Inv, NEW q \in Requests, Busy(q), NEW f \in req[q].todo
  PROVE  f \in Files /\ Content(q, f) \in Version
<1>1. req[q] \in Request
  BY DEF Inv, TypeOK, Busy
<1>2. f \in Files /\ req[q].held[f] \in Version \cup {None} /\ seed[f] \in Version \cup {None}
  BY <1>1 DEF Inv, TypeOK, Request
<1> QED
  BY <1>1, <1>2 DEF Inv, ItemsApart, ItemsOf, Content, Busy

\* The updates of a request leave a request.
LEMMA RequestTypes ==
  ASSUME NEW r \in Request
  PROVE  /\ [r EXCEPT !.inserted = TRUE] \in Request
         /\ [r EXCEPT !.clash = TRUE] \in Request
         /\ [r EXCEPT !.step = "fetch", !.inserted = FALSE, !.loaded = None, !.raced = FALSE]
              \in Request
         /\ \A rd \in [Files -> Version \cup {None}] :
              [r EXCEPT !.read = rd, !.step = "read"] \in Request
         /\ \A f \in Files : [r EXCEPT !.todo = @ \ {f}, !.failed = @ \cup {f}] \in Request
         /\ \A h \in [Files -> Version \cup {None}] :
              [r EXCEPT !.step = "counted", !.held = h] \in Request
<1>1. [r EXCEPT !.inserted = TRUE] \in Request
  BY DEF Request
<1>2. [r EXCEPT !.clash = TRUE] \in Request
  BY DEF Request
<1>3. [r EXCEPT !.step = "fetch", !.inserted = FALSE, !.loaded = None, !.raced = FALSE] \in Request
  BY DEF Request
<1>4. ASSUME NEW rd \in [Files -> Version \cup {None}]
      PROVE  [r EXCEPT !.read = rd, !.step = "read"] \in Request
  BY DEF Request
<1>5. ASSUME NEW f \in Files
      PROVE  [r EXCEPT !.todo = @ \ {f}, !.failed = @ \cup {f}] \in Request
  BY DEF Request
<1>6. ASSUME NEW h \in [Files -> Version \cup {None}]
      PROVE  [r EXCEPT !.step = "counted", !.held = h] \in Request
  BY DEF Request
<1> QED
  BY <1>1, <1>2, <1>3, <1>4, <1>5, <1>6

\* Every step keeps the types.
LEMMA TypeStep == Inv /\ [Next]_vars => TypeOK'
<1> SUFFICES ASSUME Inv, [Next]_vars
             PROVE  TypeOK'
  OBVIOUS
<1> USE DEF TypeOK, dataVars
<1>1. TypeOK
  BY DEF Inv
<1>2. \A q \in Requests : Busy(q) => req[q] \in Request
  BY <1>1 DEF Busy
<1>3. ASSUME NEW f \in Files, EditDisk(f)
      PROVE  TypeOK'
  BY <1>1, <1>3 DEF EditDisk, Version
<1>4. ASSUME NEW q \in Requests, Fail(q)
      PROVE  TypeOK'
  BY <1>1, <1>4 DEF Fail
<1>5. ASSUME NEW q \in Requests, NEW k \in Kinds, NEW op \in {"connect", "disconnect"},
             SetConnection(q, k, op)
      PROVE  TypeOK'
  <2>1. Begin(q, op, {k}, conn[k]) /\ UNCHANGED <<dataVars, conn, crossed>>
    BY <1>5 DEF SetConnection
  <2>a. /\ op \in {"sync", "load", "connect", "disconnect"} /\ {k} \in SUBSET Kinds
        /\ conn[k] \in Row \cup {None}
    BY <1>1, <1>5
  <2>2. req' \in [Requests -> Request \cup {None}]
    BY <1>1, <2>1, <2>a, BeginTypes DEF Begin
  <2> QED
    BY <1>1, <2>1, <2>2
<1>6. ASSUME NEW q \in Requests, NEW k \in Kinds, SyncBegin(q, k)
      PROVE  TypeOK'
  <2>1. Begin(q, "sync", {k}, conn[k]) /\ UNCHANGED <<dataVars, conn, crossed>>
    BY <1>6 DEF SyncBegin
  <2>2. req' \in [Requests -> Request \cup {None}]
    BY <1>1, <2>1, BeginTypes
  <2> QED
    BY <1>1, <2>1, <2>2
<1>7. ASSUME NEW q \in Requests, LoadBegin(q)
      PROVE  TypeOK'
  <2>1. Begin(q, "load", Imported, None) /\ UNCHANGED <<dataVars, conn, crossed>>
    BY <1>7 DEF LoadBegin
  <2>2. Imported \in SUBSET Kinds /\ None \in Row \cup {None}
    OBVIOUS
  <2>3. req' \in [Requests -> Request \cup {None}]
    BY <1>1, <2>1, <2>2, BeginTypes
  <2> QED
    BY <1>1, <2>1, <2>3
<1>8. ASSUME NEW q \in Requests, NEW k \in Kinds,
             SetCommit(q, k) \/ SyncSimulated(q, k) \/ SyncCommit(q, k)
      PROVE  TypeOK'
  <2>1. PICK new \in Row : WriteRow(q, k, Updated(q, k, new))
    BY <1>8, Writes
  <2>2. Busy(q) /\ UNCHANGED dataVars
    BY <1>8, Writes
  <2>3. Updated(q, k, new) \in Row
    BY <1>1, <2>2, UpdatedType
  <2>4. /\ conn' \in [Kinds -> Row \cup {None}]
        /\ req' \in [Requests -> Request \cup {None}]
        /\ crossed' \subseteq Kinds
    BY <1>1, <2>1, <2>3, WriteTypes
  <2> QED
    BY <1>1, <2>2, <2>4
<1>9. ASSUME NEW q \in Requests, NEW k \in Kinds, SyncInsert(q, k)
      PROVE  TypeOK'
  <2> DEFINE r == [req[q] EXCEPT !.inserted = TRUE]
  <2>1. r \in Request
    BY <1>2, <1>9, RequestTypes DEF SyncInsert
  <2>2. req' = [req EXCEPT ![q] = r]
    BY <1>9 DEF SyncInsert
  <2> HIDE DEF r
  <2>3. req' \in [Requests -> Request \cup {None}]
    BY <1>1, <2>1, <2>2
  <2> QED
    BY <1>1, <1>9, <2>3 DEF SyncInsert
<1>10. ASSUME NEW q \in Requests, ReadDisk(q)
       PROVE  TypeOK'
  <2>1. ReadFiles(q) \in [Files -> Version \cup {None}]
    BY <1>1 DEF ReadFiles
  <2>2. \A rd \in [Files -> Version \cup {None}] :
          [req[q] EXCEPT !.read = rd, !.step = "read"] \in Request
    BY <1>2, <1>10, RequestTypes DEF ReadDisk
  <2>3. req' = [req EXCEPT ![q] = [req[q] EXCEPT !.read = ReadFiles(q), !.step = "read"]]
    BY <1>10 DEF ReadDisk
  <2>4. req' \in [Requests -> Request \cup {None}]
    BY <1>1, <2>1, <2>2, <2>3
  <2> QED
    BY <1>1, <1>10, <2>4 DEF ReadDisk
<1>11. ASSUME NEW q \in Requests, Upsert(q)
       PROVE  TypeOK'
  <2>1. req[q] \in Request
    BY <1>2, <1>11 DEF Upsert
  <2>2. seed' \in [Files -> Version \cup {None}]
    BY <1>1, <1>11, <2>1 DEF Upsert, SeedAfter, Request
  <2>3. conn' \in [Kinds -> Row \cup {None}]
    BY <1>1, <1>11, NewRowTypes DEF Upsert
  <2>4. \A r \in Request : /\ [r EXCEPT !.clash = TRUE] \in Request
                           /\ [r EXCEPT !.step = "fetch", !.inserted = FALSE, !.loaded = None,
                                        !.raced = FALSE] \in Request
    BY RequestTypes
  <2>5. req' \in [Requests -> Request \cup {None}]
    BY <1>1, <1>2, <1>11, <2>4 DEF Upsert, Busy
  <2> QED
    BY <1>1, <1>11, <2>2, <2>3, <2>5 DEF Upsert
<1>12. ASSUME NEW q \in Requests, Fetch(q)
       PROVE  TypeOK'
  <2> DEFINE todo == UNION {SeedRows(k) : k \in req[q].kinds}
  <2>1. req[q] \in Request /\ todo \subseteq Files
    BY <1>2, <1>12 DEF Fetch, SeedRows, FilesOf
  <2>2. \A fs \in SUBSET Files :
          [req[q] EXCEPT !.step = "items", !.held = seed, !.todo = fs] \in Request
    BY <1>1, <2>1 DEF Request
  <2>3. req' = [req EXCEPT ![q] = [req[q] EXCEPT !.step = "items", !.held = seed, !.todo = todo]]
    BY <1>12 DEF Fetch
  <2> HIDE DEF todo
  <2>4. req' \in [Requests -> Request \cup {None}]
    BY <1>1, <2>1, <2>2, <2>3
  <2> QED
    BY <1>1, <1>12, <2>4 DEF Fetch
<1>13. ASSUME NEW q \in Requests, NEW f \in Files, ItemRefused(q, f)
       PROVE  TypeOK'
  <2> DEFINE r == [req[q] EXCEPT !.todo = @ \ {f}, !.failed = @ \cup {f}]
  <2>1. r \in Request
    BY <1>2, <1>13, RequestTypes DEF ItemRefused
  <2>2. req' = [req EXCEPT ![q] = r]
    BY <1>13 DEF ItemRefused
  <2> HIDE DEF r
  <2>3. req' \in [Requests -> Request \cup {None}]
    BY <1>1, <2>1, <2>2
  <2> QED
    BY <1>1, <1>13, <2>3 DEF ItemRefused
<1>14. ASSUME NEW q \in Requests, NEW f \in Files, ItemIngested(q, f)
       PROVE  TypeOK'
  <2> DEFINE s == <<f, Content(q, f)>>
             r == [req[q] EXCEPT !.todo = @ \ {f}, !.ingested = @ \cup {s},
                                 !.expired = @ \/ s \notin sources,
                                 !.held = IF s \in sources THEN @ ELSE Nothing]
  <2>1. req[q] \in Request /\ s \in Files \X Version
    BY <1>2, <1>14, ContentType DEF ItemIngested
  <2>2. Nothing \in [Files -> Version \cup {None}]
    BY DEF Nothing
  <2>3. (s \notin sources) \in BOOLEAN
    OBVIOUS
  <2> HIDE DEF s
  <2>4. r \in Request
    BY <2>1, <2>2, <2>3 DEF Request
  <2>5. req' = [req EXCEPT ![q] = r] /\ sources' = sources \cup {s}
    BY <1>14 DEF ItemIngested, s
  <2> HIDE DEF r
  <2>6. req' \in [Requests -> Request \cup {None}]
    BY <1>1, <2>4, <2>5
  <2>7. sources' \subseteq Files \X Version
    BY <1>1, <2>1, <2>5
  <2> QED
    BY <1>1, <1>14, <2>6, <2>7 DEF ItemIngested
<1>15. ASSUME NEW q \in Requests, LoadEnds(q)
       PROVE  TypeOK'
  BY <1>1, <1>15 DEF LoadEnds
<1>16. CASE UNCHANGED vars
  BY <1>1, <1>16 DEF vars
<1>17. ASSUME NEW q \in Requests, NEW k \in Kinds, SetCount(q, k)
       PROVE  TypeOK'
  <2> DEFINE r == [req[q] EXCEPT !.step = "counted", !.held = seed]
  <2>1. r \in Request
    BY <1>1, <1>2, <1>17, RequestTypes DEF SetCount
  <2>2. req' = [req EXCEPT ![q] = r]
    BY <1>17 DEF SetCount
  <2> HIDE DEF r
  <2>3. req' \in [Requests -> Request \cup {None}]
    BY <1>1, <2>1, <2>2
  <2> QED
    BY <1>1, <1>17, <2>3 DEF SetCount
<1> HIDE DEF TypeOK
<1> QED
  BY <1>3, <1>4, <1>5, <1>6, <1>7, <1>8, <1>9, <1>10, <1>11, <1>12, <1>13, <1>14, <1>15, <1>16,
     <1>17 DEF Next

-----------------------------------------------------------------------------
\* Requests keep their shape.
LEMMA ShapeStep == Inv /\ [Next]_vars => Shape'
<1> SUFFICES ASSUME Inv, [Next]_vars
             PROVE  Shape'
  OBVIOUS
<1> USE DEF dataVars
<1>1. TypeOK /\ \A q \in Requests : Busy(q) => req[q] \in Request /\ ShapeOf(req[q])
  BY DEF Inv, Shape, TypeOK, Busy
<1>2. ASSUME \A p \in Requests :
               req'[p] # None => (Busy(p) /\ req'[p] = req[p]) \/ ShapeOf(req'[p])
      PROVE  Shape'
  BY <1>1, <1>2 DEF Shape, Busy
<1>3. ASSUME NEW q \in Requests, NEW op \in {"sync", "load", "connect", "disconnect"},
             NEW ks \in SUBSET Kinds, NEW row \in Row \cup {None}, Begin(q, op, ks, row),
             op # "load" => \E k \in Kinds : ks = {k},
             op = "load" => row = None
      PROVE  Shape'
  <2> DEFINE r == [op |-> op, kinds |-> ks, step |-> "loaded", loaded |-> row,
                   inserted |-> FALSE, read |-> Nothing, todo |-> {}, held |-> Nothing,
                   expired |-> FALSE, ingested |-> {}, failed |-> {},
                   clash |-> FALSE, raced |-> FALSE]
  <2>1. ShapeOf(r)
    BY <1>3 DEF ShapeOf, Nothing
  <2>2. req' = [req EXCEPT ![q] = r]
    BY <1>3 DEF Begin
  <2> HIDE DEF r
  <2>3. \A p \in Requests : req'[p] = IF p = q THEN r ELSE req[p]
    BY <1>1, <2>2 DEF TypeOK
  <2> QED
    BY <1>2, <2>1, <2>3 DEF Busy
<1>4. ASSUME NEW q \in Requests, req' = [req EXCEPT ![q] = None]
      PROVE  Shape'
  <2>1. \A p \in Requests : req'[p] = IF p = q THEN None ELSE req[p]
    BY <1>1, <1>4 DEF TypeOK
  <2> QED
    BY <1>2, <2>1 DEF Busy
<1>5. ASSUME NEW q \in Requests, NEW k \in Kinds, NEW row, WriteRow(q, k, row)
      PROVE  Shape'
  <2>1. \A r \in Request : ShapeOf(r) => ShapeOf([r EXCEPT !.raced = TRUE])
    BY DEF Request, ShapeOf
  <2>2. \A p \in Requests :
          \/ req'[p] = None
          \/ req'[p] = req[p]
          \/ Busy(p) /\ req'[p] = [req[p] EXCEPT !.raced = TRUE]
    BY <1>1, <1>5 DEF WriteRow
  <2> QED
    BY <1>1, <1>2, <2>1, <2>2 DEF Busy
<1>6. ASSUME NEW q \in Requests, NEW r, Busy(q), ShapeOf(r), req' = [req EXCEPT ![q] = r]
      PROVE  Shape'
  <2>1. \A p \in Requests : req'[p] = IF p = q THEN r ELSE req[p]
    BY <1>1, <1>6 DEF TypeOK
  <2> QED
    BY <1>2, <1>6, <2>1 DEF Busy
<1>7. ASSUME NEW q \in Requests, NEW k \in Kinds, SyncInsert(q, k)
      PROVE  Shape'
  <2> DEFINE r == [req[q] EXCEPT !.inserted = TRUE]
  <2>1. ShapeOf(r) /\ Busy(q)
    BY <1>1, <1>7 DEF SyncInsert, ShapeOf, Request
  <2>2. req' = [req EXCEPT ![q] = r]
    BY <1>7 DEF SyncInsert
  <2> HIDE DEF r
  <2> QED
    BY <1>6, <2>1, <2>2
<1>8. ASSUME NEW q \in Requests, ReadDisk(q)
      PROVE  Shape'
  <2> DEFINE r == [req[q] EXCEPT !.read = ReadFiles(q), !.step = "read"]
  <2>1. \A f \in Files : ReadFiles(q)[f] # None => KindOf[f] \in req[q].kinds
    BY DEF ReadFiles, FilesOf
  <2>2. ShapeOf(r) /\ Busy(q)
    BY <1>1, <1>8, <2>1 DEF ReadDisk, ShapeOf, Request, HasRow
  <2>3. req' = [req EXCEPT ![q] = r]
    BY <1>8 DEF ReadDisk
  <2> HIDE DEF r
  <2> QED
    BY <1>6, <2>2, <2>3
<1>9. ASSUME NEW q \in Requests, Upsert(q)
      PROVE  Shape'
  <2>1. \A r \in Request : ShapeOf(r) => ShapeOf([r EXCEPT !.clash = TRUE])
    BY DEF Request, ShapeOf
  <2>2. ShapeOf([req[q] EXCEPT !.step = "fetch", !.inserted = FALSE, !.loaded = None,
                               !.raced = FALSE])
    BY <1>1, <1>9 DEF Upsert, ShapeOf, Request
  <2>3. \A p \in Requests :
          \/ p = q /\ req'[p] = [req[q] EXCEPT !.step = "fetch", !.inserted = FALSE,
                                              !.loaded = None, !.raced = FALSE]
          \/ req'[p] = req[p]
          \/ Busy(p) /\ req'[p] = [req[p] EXCEPT !.clash = TRUE]
    BY <1>1, <1>9 DEF Upsert
  <2> QED
    BY <1>1, <1>2, <2>1, <2>2, <2>3 DEF Busy
<1>10. ASSUME NEW q \in Requests, Fetch(q)
       PROVE  Shape'
  <2> DEFINE todo == UNION {SeedRows(k) : k \in req[q].kinds}
             r == [req[q] EXCEPT !.step = "items", !.held = seed, !.todo = todo]
  <2> HIDE DEF todo
  <2>1. ShapeOf(r) /\ Busy(q)
    BY <1>1, <1>10 DEF Fetch, ShapeOf, Request
  <2>2. req' = [req EXCEPT ![q] = r]
    BY <1>10 DEF Fetch, todo
  <2> HIDE DEF r
  <2> QED
    BY <1>6, <2>1, <2>2
<1>11. ASSUME NEW q \in Requests, NEW f \in Files, ItemRefused(q, f)
       PROVE  Shape'
  <2> DEFINE r == [req[q] EXCEPT !.todo = @ \ {f}, !.failed = @ \cup {f}]
  <2>1. ShapeOf(r) /\ Busy(q)
    BY <1>1, <1>11 DEF ItemRefused, ShapeOf, Request
  <2>2. req' = [req EXCEPT ![q] = r]
    BY <1>11 DEF ItemRefused
  <2> HIDE DEF r
  <2> QED
    BY <1>6, <2>1, <2>2
<1>12. ASSUME NEW q \in Requests, NEW f \in Files, ItemIngested(q, f)
       PROVE  Shape'
  <2> DEFINE s == <<f, Content(q, f)>>
             r == [req[q] EXCEPT !.todo = @ \ {f}, !.ingested = @ \cup {s},
                                 !.expired = @ \/ s \notin sources,
                                 !.held = IF s \in sources THEN @ ELSE Nothing]
  <2> HIDE DEF s
  <2>1. ShapeOf(r) /\ Busy(q)
    BY <1>1, <1>12 DEF ItemIngested, ShapeOf, Request
  <2>2. req' = [req EXCEPT ![q] = r]
    BY <1>12 DEF ItemIngested, s
  <2> HIDE DEF r
  <2> QED
    BY <1>6, <2>1, <2>2
<1>13. CASE UNCHANGED req
  BY <1>2, <1>13 DEF Busy
<1>14. ASSUME NEW q \in Requests, NEW k \in Kinds
       PROVE  /\ SetCommit(q, k) \/ SyncSimulated(q, k) \/ SyncCommit(q, k) => Shape'
              /\ SyncBegin(q, k) => Shape'
              /\ \A op \in {"connect", "disconnect"} : SetConnection(q, k, op) => Shape'
  <2>1. SetCommit(q, k) \/ SyncSimulated(q, k) \/ SyncCommit(q, k) => Shape'
    BY <1>5, Writes
  <2>2. conn[k] \in Row \cup {None} /\ {k} \in SUBSET Kinds
    BY <1>1 DEF TypeOK
  <2>3. SyncBegin(q, k) => Shape'
    BY <1>3, <2>2 DEF SyncBegin
  <2>4. ASSUME NEW op \in {"connect", "disconnect"}, SetConnection(q, k, op)
        PROVE  Shape'
    BY <1>3, <2>2, <2>4 DEF SetConnection
  <2> QED
    BY <2>1, <2>3, <2>4
<1>15. ASSUME NEW q \in Requests, LoadBegin(q)
       PROVE  Shape'
  BY <1>3, <1>15 DEF LoadBegin
<1>16. ASSUME NEW q \in Requests, Fail(q) \/ LoadEnds(q)
       PROVE  Shape'
  BY <1>4, <1>16 DEF Fail, LoadEnds
<1>17. ASSUME NEW f \in Files, EditDisk(f)
       PROVE  Shape'
  BY <1>13, <1>17 DEF EditDisk
<1>18. ASSUME NEW q \in Requests, NEW k \in Kinds, SetCount(q, k)
       PROVE  Shape'
  <2> DEFINE r == [req[q] EXCEPT !.step = "counted", !.held = seed]
  <2>1. ShapeOf(r) /\ Busy(q)
    BY <1>1, <1>18 DEF SetCount, ShapeOf, Request
  <2>2. req' = [req EXCEPT ![q] = r]
    BY <1>18 DEF SetCount
  <2> HIDE DEF r
  <2> QED
    BY <1>6, <2>1, <2>2
<1> HIDE DEF dataVars
<1> QED
  BY <1>7, <1>8, <1>9, <1>10, <1>11, <1>12, <1>13, <1>14, <1>15, <1>16, <1>17, <1>18
     DEF Next, vars

-----------------------------------------------------------------------------
\* Nobody else has inserted the row that a request is about to write.
LEMMA Alone ==
  ASSUME Inv, NEW q \in Requests, NEW k \in Kinds,
         SetCommit(q, k) \/ SyncSimulated(q, k) \/ SyncCommit(q, k),
         NEW p \in Requests, p # q, Busy(p), req[p].inserted, req[p].kinds = {k}
  PROVE  FALSE
<1> USE DEF Inv
<1>1. CASE SetCommit(q, k)
  BY <1>1 DEF SetCommit, InsertWaits
<1>2. CASE SyncSimulated(q, k)
  BY <1>2 DEF SyncSimulated, HasRow, InsertedRow, LoadedRow, LoadedOf
<1>3. CASE SyncCommit(q, k)
  <2>1. Busy(q) /\ req[q].kinds = {k} /\ req[q].op = "sync"
    BY <1>3 DEF SyncCommit, ItemsDone
  <2>2. req[q].step = "items" \/ HasRow(q)
    BY <1>3 DEF SyncCommit, ItemsDone
  <2> QED
    BY <2>1, <2>2 DEF HasRow, InsertedRow, LoadedRow, LoadedOf
<1> QED
  BY <1>1, <1>2, <1>3

\* A row that a session has loaded is there, and is the one it loaded unless another
\* wrote it; a row it has inserted nobody else has.
LEMMA RowsStep == Inv /\ [Next]_vars => LoadedRow' /\ InsertedRow'
<1> SUFFICES ASSUME Inv, [Next]_vars
             PROVE  (LoadedRow /\ InsertedRow)'
  OBVIOUS
<1> USE DEF dataVars
<1>1. /\ TypeOK /\ LoadedRow /\ InsertedRow
      /\ \A q \in Requests : Busy(q) => req[q] \in Request /\ ShapeOf(req[q])
  BY DEF Inv, Shape, TypeOK, Busy
<1>2. ASSUME conn' = conn,
             \A p \in Requests :
               req'[p] # None =>
                 /\ Busy(p) /\ req'[p].kinds = req[p].kinds /\ req'[p].op = req[p].op
                 /\ req'[p].inserted = req[p].inserted /\ req'[p].loaded = req[p].loaded
                 /\ req'[p].raced = req[p].raced
                 /\ req'[p].step \in {"fetch", "items"} => req[p].step \in {"fetch", "items"}
      PROVE  (LoadedRow /\ InsertedRow)'
  BY <1>1, <1>2 DEF LoadedRow, LoadedOf, InsertedRow, Busy
<1>3. ASSUME NEW q \in Requests, NEW op, NEW ks \in SUBSET Kinds, NEW row \in Row \cup {None},
             Begin(q, op, ks, row), conn' = conn,
             \A k \in Kinds : ks = {k} => row = None \/ row = conn[k]
      PROVE  (LoadedRow /\ InsertedRow)'
  <2> DEFINE r == [op |-> op, kinds |-> ks, step |-> "loaded", loaded |-> row,
                   inserted |-> FALSE, read |-> Nothing, todo |-> {}, held |-> Nothing,
                   expired |-> FALSE, ingested |-> {}, failed |-> {},
                   clash |-> FALSE, raced |-> FALSE]
  <2>1. r.kinds = ks /\ r.loaded = row /\ ~r.inserted /\ r.step = "loaded"
    OBVIOUS
  <2>2. req' = [req EXCEPT ![q] = r]
    BY <1>3 DEF Begin
  <2> HIDE DEF r
  <2>3. \A p \in Requests : req'[p] = IF p = q THEN r ELSE req[p]
    BY <1>1, <2>2 DEF TypeOK
  <2> QED
    BY <1>1, <1>3, <2>1, <2>3 DEF LoadedRow, LoadedOf, InsertedRow, Busy
<1>4. ASSUME NEW q \in Requests, req' = [req EXCEPT ![q] = None], conn' = conn
      PROVE  (LoadedRow /\ InsertedRow)'
  <2>1. \A p \in Requests : req'[p] = IF p = q THEN None ELSE req[p]
    BY <1>1, <1>4 DEF TypeOK
  <2> QED
    BY <1>2, <1>4, <2>1 DEF Busy
<1>5. ASSUME NEW q \in Requests, NEW k \in Kinds,
             SetCommit(q, k) \/ SyncSimulated(q, k) \/ SyncCommit(q, k)
      PROVE  (LoadedRow /\ InsertedRow)'
  <2>1. PICK new \in Row : WriteRow(q, k, Updated(q, k, new))
    BY <1>5, Writes
  <2>2. Busy(q)
    BY <1>5, Writes
  <2> DEFINE row == Updated(q, k, new)
  <2>3. row \in Row /\ row # None
    BY <1>1, <2>2, UpdatedType
  <2>4. conn' = [conn EXCEPT ![k] = row]
    BY <2>1 DEF WriteRow
  <2> HIDE DEF row
  <2>5. \A j \in Kinds : conn'[j] = IF j = k THEN row ELSE conn[j]
    BY <1>1, <2>4 DEF TypeOK
  <2>6. \A p \in Requests :
          req'[p] # None =>
            /\ p # q /\ Busy(p)
            /\ \/ req'[p] = [req[p] EXCEPT !.raced = TRUE]
               \/ req'[p] = req[p] /\ (req[p].kinds # {k} \/ req[p].loaded = None)
    BY <1>1, <2>1 DEF WriteRow, Busy
  <2>7. \A r \in Request :
          LET n == [r EXCEPT !.raced = TRUE]
          IN  /\ n.kinds = r.kinds /\ n.loaded = r.loaded /\ n.inserted = r.inserted
              /\ n.op = r.op /\ n.step = r.step /\ n.raced
    BY DEF Request
  <2>8. \A p \in Requests : p # q /\ Busy(p) /\ req[p].inserted => req[p].kinds # {k}
    BY <1>5, Alone
  <2>9. \A p \in Requests :
          req'[p] # None =>
            /\ p # q /\ Busy(p) /\ req'[p].kinds = req[p].kinds /\ req'[p].loaded = req[p].loaded
            /\ req'[p].inserted = req[p].inserted /\ req'[p].op = req[p].op
            /\ req'[p].step = req[p].step
            /\ req'[p].raced = req[p].raced \/ req'[p].raced
            /\ req'[p].raced \/ req[p].kinds # {k} \/ req[p].loaded = None
    <3> SUFFICES ASSUME NEW p \in Requests, req'[p] # None
                 PROVE  /\ p # q /\ Busy(p) /\ req'[p].kinds = req[p].kinds
                        /\ req'[p].loaded = req[p].loaded /\ req'[p].inserted = req[p].inserted
                        /\ req'[p].op = req[p].op /\ req'[p].step = req[p].step
                        /\ req'[p].raced = req[p].raced \/ req'[p].raced
                        /\ req'[p].raced \/ req[p].kinds # {k} \/ req[p].loaded = None
      OBVIOUS
    <3>1. p # q /\ Busy(p) /\ req[p] \in Request
      BY <1>1, <2>6
    <3>2. CASE req'[p] = [req[p] EXCEPT !.raced = TRUE]
      BY <2>7, <3>1, <3>2
    <3>3. CASE req'[p] = req[p] /\ (req[p].kinds # {k} \/ req[p].loaded = None)
      BY <3>1, <3>3
    <3> QED
      BY <2>6, <3>2, <3>3
  <2>10. LoadedRow'
    <3> SUFFICES ASSUME NEW p \in Requests, NEW j \in Kinds, req'[p] # None, req'[p].kinds = {j}
                 PROVE  LoadedOf(req'[p], conn'[j])
      BY DEF LoadedRow, Busy
    <3>1. LoadedOf(req[p], conn[j])
      BY <1>1, <2>9 DEF LoadedRow
    <3> QED
      BY <2>3, <2>5, <2>9, <3>1 DEF LoadedOf
  <2>11. InsertedRow'
    BY <1>1, <2>5, <2>8, <2>9 DEF InsertedRow, Busy
  <2> QED
    BY <2>10, <2>11
<1>6. ASSUME NEW q \in Requests, NEW k \in Kinds, SyncInsert(q, k)
      PROVE  (LoadedRow /\ InsertedRow)'
  <2> DEFINE r == [req[q] EXCEPT !.inserted = TRUE]
  <2>1. r.kinds = {k} /\ r.loaded = None /\ r.step = "loaded"
    BY <1>1, <1>6 DEF SyncInsert, Request
  <2>2. req' = [req EXCEPT ![q] = r] /\ conn' = conn /\ conn[k] = None
    BY <1>6 DEF SyncInsert
  <2> HIDE DEF r
  <2>3. \A p \in Requests : req'[p] = IF p = q THEN r ELSE req[p]
    BY <1>1, <2>2 DEF TypeOK
  <2>4. \A p \in Requests : p # q /\ Busy(p) /\ req[p].inserted => req[p].kinds # {k}
    BY <1>6 DEF SyncInsert, InsertWaits
  <2>5. LoadedRow'
    BY <1>1, <2>1, <2>2, <2>3 DEF LoadedRow, LoadedOf, Busy
  <2>6. InsertedRow'
    BY <1>1, <2>1, <2>2, <2>3, <2>4 DEF InsertedRow, Busy
  <2> QED
    BY <2>5, <2>6
<1>7. ASSUME NEW q \in Requests, NEW r, Busy(q), req' = [req EXCEPT ![q] = r], conn' = conn,
             r.kinds = req[q].kinds, r.op = req[q].op, r.inserted = req[q].inserted,
             r.loaded = req[q].loaded, r.raced = req[q].raced,
             r.step \in {"fetch", "items"} => req[q].step \in {"fetch", "items"}
      PROVE  (LoadedRow /\ InsertedRow)'
  <2>1. \A p \in Requests : req'[p] = IF p = q THEN r ELSE req[p]
    BY <1>1, <1>7 DEF TypeOK
  <2> QED
    BY <1>2, <1>7, <2>1 DEF Busy
<1>8. ASSUME NEW q \in Requests, ReadDisk(q)
      PROVE  (LoadedRow /\ InsertedRow)'
  <2>1. req[q] \in Request
    BY <1>1, <1>8 DEF ReadDisk
  <2>2. \A rd : LET r == [req[q] EXCEPT !.read = rd, !.step = "read"]
                IN  /\ r.kinds = req[q].kinds /\ r.op = req[q].op /\ r.inserted = req[q].inserted
                    /\ r.loaded = req[q].loaded /\ r.raced = req[q].raced /\ r.step = "read"
    BY <2>1 DEF Request
  <2> QED
    BY <1>7, <1>8, <2>2 DEF ReadDisk
<1>9. ASSUME NEW q \in Requests, Upsert(q)
      PROVE  (LoadedRow /\ InsertedRow)'
  <2>1. Busy(q) /\ req[q] \in Request /\ req[q].step = "read"
    BY <1>1, <1>9 DEF Upsert
  <2> DEFINE r == [req[q] EXCEPT !.step = "fetch", !.inserted = FALSE, !.loaded = None,
                                 !.raced = FALSE]
  <2>2. r.kinds = req[q].kinds /\ r.op = req[q].op /\ ~r.inserted /\ r.loaded = None
    BY <2>1 DEF Request
  <2>3. \A x \in Request :
          LET n == [x EXCEPT !.clash = TRUE]
          IN  /\ n.kinds = x.kinds /\ n.loaded = x.loaded /\ n.inserted = x.inserted
              /\ n.op = x.op /\ n.step = x.step /\ n.raced = x.raced
    BY DEF Request
  <2>4. \A p \in Requests :
          \/ p = q /\ req'[p] = r
          \/ p # q /\ req'[p] = req[p]
          \/ p # q /\ Busy(p) /\ req'[p] = [req[p] EXCEPT !.clash = TRUE]
    BY <1>1, <1>9 DEF Upsert
  <2> HIDE DEF r
  <2>5. \A p \in Requests :
          req'[p] # None /\ p # q =>
            /\ Busy(p) /\ req'[p].kinds = req[p].kinds /\ req'[p].loaded = req[p].loaded
            /\ req'[p].inserted = req[p].inserted /\ req'[p].op = req[p].op
            /\ req'[p].step = req[p].step /\ req'[p].raced = req[p].raced
    BY <1>1, <2>3, <2>4 DEF Busy
  <2>6. \A j \in Kinds :
          conn'[j] = IF req[q].inserted /\ j \in req[q].kinds THEN NewRow ELSE conn[j]
    BY <1>1, <1>9 DEF Upsert
  <2>7. NewRow # None
    BY NewRowTypes
  <2>8. req[q].inserted => \E k \in Kinds : req[q].kinds = {k} /\ conn[k] = None
    BY <1>1, <2>1 DEF ShapeOf, InsertedRow
  <2>9. \A k \in Kinds : req[q].op = "sync" /\ req[q].kinds = {k} => conn'[k] # None
    BY <1>1, <2>1, <2>6, <2>7 DEF ShapeOf, LoadedRow, LoadedOf
  <2>10. LoadedRow'
    <3> SUFFICES ASSUME NEW p \in Requests, NEW j \in Kinds, req'[p] # None, req'[p].kinds = {j}
                 PROVE  LoadedOf(req'[p], conn'[j])
      BY DEF LoadedRow, Busy
    <3>1. CASE p = q
      BY <2>2, <2>4, <2>9, <3>1 DEF LoadedOf
    <3>2. CASE p # q
      <4>1. LoadedOf(req[p], conn[j]) /\ (conn'[j] = conn[j] \/ (conn[j] = None /\ conn'[j] # None))
        <5>1. Busy(p) /\ req[p].kinds = {j}
          BY <2>5, <3>2
        <5>2. LoadedOf(req[p], conn[j])
          BY <1>1, <5>1 DEF LoadedRow
        <5>3. CASE req[q].inserted /\ j \in req[q].kinds
          <6>1. conn[j] = None
            BY <2>8, <5>3
          <6>2. conn'[j] = NewRow
            BY <2>6, <5>3
          <6> QED
            BY <2>7, <5>2, <6>1, <6>2
        <5>4. CASE ~(req[q].inserted /\ j \in req[q].kinds)
          <6>1. conn'[j] = conn[j]
            BY <2>6, <5>4, Zenon
          <6> QED
            BY <5>2, <6>1
        <5> QED
          BY <5>3, <5>4
      <4> QED
        BY <2>5, <3>2, <4>1 DEF LoadedOf
    <3> QED
      BY <3>1, <3>2
  <2>11. InsertedRow'
    <3> SUFFICES ASSUME NEW p \in Requests, NEW j \in Kinds, req'[p] # None, req'[p].inserted,
                        req'[p].kinds = {j}
                 PROVE  /\ conn'[j] = None
                        /\ \A o \in Requests : (Busy(o) /\ req[o].inserted /\ req[o].kinds = {j})'
                                                 => o = p
      BY DEF InsertedRow, Busy
    <3>1. p # q /\ Busy(p) /\ req[p].inserted /\ req[p].kinds = {j}
      BY <2>2, <2>4, <2>5
    <3>2. ~(req[q].inserted /\ j \in req[q].kinds)
      BY <1>1, <2>1, <2>8, <3>1 DEF InsertedRow
    <3>3. conn'[j] = None
      BY <1>1, <2>6, <3>1, <3>2 DEF InsertedRow
    <3>4. \A o \in Requests : req'[o] # None /\ req'[o].inserted =>
            /\ Busy(o) /\ req[o].inserted
            /\ req'[o].kinds = req[o].kinds
      BY <2>2, <2>4, <2>5
    <3> QED
      BY <1>1, <3>1, <3>3, <3>4 DEF InsertedRow, Busy
  <2> QED
    BY <2>10, <2>11
<1>10. ASSUME NEW q \in Requests, Fetch(q)
       PROVE  (LoadedRow /\ InsertedRow)'
  <2>1. req[q] \in Request
    BY <1>1, <1>10 DEF Fetch
  <2>2. \A h, t : LET r == [req[q] EXCEPT !.step = "items", !.held = h, !.todo = t]
                  IN  /\ r.kinds = req[q].kinds /\ r.op = req[q].op
                      /\ r.inserted = req[q].inserted
                      /\ r.loaded = req[q].loaded /\ r.raced = req[q].raced
    BY <2>1 DEF Request
  <2> DEFINE todo == UNION {SeedRows(k) : k \in req[q].kinds}
             r == [req[q] EXCEPT !.step = "items", !.held = seed, !.todo = todo]
  <2>3. req' = [req EXCEPT ![q] = r] /\ conn' = conn /\ Busy(q) /\ req[q].step = "fetch"
    BY <1>10 DEF Fetch
  <2> HIDE DEF todo
  <2>4. /\ r.kinds = req[q].kinds /\ r.op = req[q].op /\ r.inserted = req[q].inserted
        /\ r.loaded = req[q].loaded /\ r.raced = req[q].raced
    BY <2>2
  <2> HIDE DEF r
  <2> QED
    BY <1>7, <2>3, <2>4
<1>11. ASSUME NEW q \in Requests, NEW f \in Files, ItemRefused(q, f)
       PROVE  (LoadedRow /\ InsertedRow)'
  <2>1. req[q] \in Request
    BY <1>1, <1>11 DEF ItemRefused
  <2> DEFINE r == [req[q] EXCEPT !.todo = @ \ {f}, !.failed = @ \cup {f}]
  <2>2. /\ r.kinds = req[q].kinds /\ r.op = req[q].op /\ r.inserted = req[q].inserted
        /\ r.loaded = req[q].loaded /\ r.raced = req[q].raced /\ r.step = req[q].step
    BY <2>1 DEF Request
  <2>3. Busy(q) /\ req' = [req EXCEPT ![q] = r] /\ conn' = conn
    BY <1>11 DEF ItemRefused
  <2> HIDE DEF r
  <2> QED
    BY <1>7, <2>2, <2>3
<1>12. ASSUME NEW q \in Requests, NEW f \in Files, ItemIngested(q, f)
       PROVE  (LoadedRow /\ InsertedRow)'
  <2>1. req[q] \in Request
    BY <1>1, <1>12 DEF ItemIngested
  <2> DEFINE s == <<f, Content(q, f)>>
             r == [req[q] EXCEPT !.todo = @ \ {f}, !.ingested = @ \cup {s},
                                 !.expired = @ \/ s \notin sources,
                                 !.held = IF s \in sources THEN @ ELSE Nothing]
  <2> HIDE DEF s
  <2>2. /\ r.kinds = req[q].kinds /\ r.op = req[q].op /\ r.inserted = req[q].inserted
        /\ r.loaded = req[q].loaded /\ r.raced = req[q].raced /\ r.step = req[q].step
    BY <2>1 DEF Request
  <2>3. Busy(q) /\ req' = [req EXCEPT ![q] = r] /\ conn' = conn
    BY <1>12 DEF ItemIngested, s
  <2> HIDE DEF r
  <2> QED
    BY <1>7, <2>2, <2>3
<1>13. CASE UNCHANGED <<req, conn>>
  BY <1>2, <1>13 DEF Busy
<1>14. ASSUME NEW q \in Requests, NEW k \in Kinds
       PROVE  /\ SyncBegin(q, k) => (LoadedRow /\ InsertedRow)'
              /\ \A op \in {"connect", "disconnect"} :
                   SetConnection(q, k, op) => (LoadedRow /\ InsertedRow)'
  <2>1. conn[k] \in Row \cup {None} /\ {k} \in SUBSET Kinds
    BY <1>1 DEF TypeOK
  <2>2. SyncBegin(q, k) => (LoadedRow /\ InsertedRow)'
    BY <1>3, <2>1 DEF SyncBegin
  <2>3. ASSUME NEW op \in {"connect", "disconnect"}, SetConnection(q, k, op)
        PROVE  (LoadedRow /\ InsertedRow)'
    BY <1>3, <2>1, <2>3 DEF SetConnection
  <2> QED
    BY <2>2, <2>3
<1>15. ASSUME NEW q \in Requests, LoadBegin(q)
       PROVE  (LoadedRow /\ InsertedRow)'
  BY <1>3, <1>15 DEF LoadBegin
<1>16. ASSUME NEW q \in Requests, Fail(q) \/ LoadEnds(q)
       PROVE  (LoadedRow /\ InsertedRow)'
  BY <1>4, <1>16 DEF Fail, LoadEnds
<1>17. ASSUME NEW f \in Files, EditDisk(f)
       PROVE  (LoadedRow /\ InsertedRow)'
  BY <1>13, <1>17 DEF EditDisk
<1>18. ASSUME NEW q \in Requests, NEW k \in Kinds, SetCount(q, k)
       PROVE  (LoadedRow /\ InsertedRow)'
  <2>1. req[q] \in Request
    BY <1>1, <1>18 DEF SetCount
  <2> DEFINE r == [req[q] EXCEPT !.step = "counted", !.held = seed]
  <2>2. /\ r.kinds = req[q].kinds /\ r.op = req[q].op /\ r.inserted = req[q].inserted
        /\ r.loaded = req[q].loaded /\ r.raced = req[q].raced /\ r.step = "counted"
    BY <2>1 DEF Request
  <2>3. Busy(q) /\ req' = [req EXCEPT ![q] = r] /\ conn' = conn
    BY <1>18 DEF SetCount
  <2> HIDE DEF r
  <2> QED
    BY <1>7, <2>2, <2>3
<1> HIDE DEF dataVars
<1> QED
  BY <1>5, <1>6, <1>8, <1>9, <1>10, <1>11, <1>12, <1>13, <1>14, <1>15, <1>16, <1>17, <1>18
     DEF Next, vars

-----------------------------------------------------------------------------
\* More sources and no fewer seed rows take nothing from a request's items.
LEMMA ItemsGrow ==
  ASSUME NEW r, NEW sd, NEW src, NEW sd2, NEW src2, ItemsOf(r, sd, src), src \subseteq src2,
         r \in Request, \A f \in Files : sd[f] # None => sd2[f] # None
  PROVE  ItemsOf(r, sd2, src2)
<1>1. r.todo \cup r.failed \subseteq Files /\ \A s \in r.ingested : s[1] \in Files
  BY DEF Request
<1> QED
  BY <1>1 DEF ItemsOf

\* The items of a request are kept by each step, and the files it read are.
LEMMA ItemsStep == Inv /\ [Next]_vars => ItemsApart' /\ ReadKept'
<1> SUFFICES ASSUME Inv, [Next]_vars
             PROVE  (ItemsApart /\ ReadKept)'
  OBVIOUS
<1> USE DEF dataVars
<1>1. /\ TypeOK
      /\ \A q \in Requests :
           Busy(q) => /\ req[q] \in Request /\ ShapeOf(req[q])
                      /\ ItemsOf(req[q], seed, sources) /\ KeptOf(req[q], seed)
  BY DEF Inv, Shape, ItemsApart, ReadKept, TypeOK, Busy
<1>2. ASSUME \A p \in Requests :
               req'[p] # None => ItemsOf(req'[p], seed', sources') /\ KeptOf(req'[p], seed')
      PROVE  (ItemsApart /\ ReadKept)'
  BY <1>2 DEF ItemsApart, ReadKept, Busy
<1>3. ASSUME UNCHANGED <<seed, sources>>,
             \A p \in Requests :
               req'[p] # None => \/ Busy(p) /\ req'[p] = req[p]
                                \/ /\ ItemsOf(req'[p], seed, sources)
                                   /\ KeptOf(req'[p], seed)
      PROVE  (ItemsApart /\ ReadKept)'
  BY <1>1, <1>2, <1>3
<1>4. ASSUME UNCHANGED <<seed, sources>>, NEW q \in Requests, NEW r, req' = [req EXCEPT ![q] = r],
             r = None \/ (ItemsOf(r, seed, sources) /\ KeptOf(r, seed))
      PROVE  (ItemsApart /\ ReadKept)'
  <2>1. \A p \in Requests : req'[p] = IF p = q THEN r ELSE req[p]
    BY <1>1, <1>4 DEF TypeOK
  <2> QED
    BY <1>3, <1>4, <2>1 DEF Busy
<1>5. ASSUME NEW q \in Requests, NEW op, NEW ks, NEW row, Begin(q, op, ks, row),
             UNCHANGED <<seed, sources>>
      PROVE  (ItemsApart /\ ReadKept)'
  <2> DEFINE r == [op |-> op, kinds |-> ks, step |-> "loaded", loaded |-> row,
                   inserted |-> FALSE, read |-> Nothing, todo |-> {}, held |-> Nothing,
                   expired |-> FALSE, ingested |-> {}, failed |-> {},
                   clash |-> FALSE, raced |-> FALSE]
  <2>1. ItemsOf(r, seed, sources) /\ KeptOf(r, seed)
    BY DEF ItemsOf, KeptOf, Nothing
  <2>2. req' = [req EXCEPT ![q] = r]
    BY <1>5 DEF Begin
  <2> HIDE DEF r
  <2> QED
    BY <1>4, <1>5, <2>1, <2>2
<1>6. ASSUME NEW q \in Requests, NEW k \in Kinds, NEW row, WriteRow(q, k, row),
             UNCHANGED <<seed, sources>>
      PROVE  (ItemsApart /\ ReadKept)'
  <2>1. \A r \in Request :
          /\ ItemsOf(r, seed, sources) => ItemsOf([r EXCEPT !.raced = TRUE], seed, sources)
          /\ KeptOf(r, seed) => KeptOf([r EXCEPT !.raced = TRUE], seed)
    BY DEF Request, ItemsOf, KeptOf
  <2>2. \A p \in Requests :
          \/ req'[p] = None
          \/ req'[p] = req[p]
          \/ Busy(p) /\ req'[p] = [req[p] EXCEPT !.raced = TRUE]
    BY <1>1, <1>6 DEF WriteRow
  <2> QED
    BY <1>1, <1>3, <1>6, <2>1, <2>2 DEF Busy
<1>7. ASSUME NEW q \in Requests, NEW k \in Kinds, SyncInsert(q, k)
      PROVE  (ItemsApart /\ ReadKept)'
  <2> DEFINE r == [req[q] EXCEPT !.inserted = TRUE]
  <2>1. ItemsOf(r, seed, sources) /\ KeptOf(r, seed)
    BY <1>1, <1>7 DEF SyncInsert, ItemsOf, KeptOf, Request
  <2>2. req' = [req EXCEPT ![q] = r] /\ UNCHANGED <<seed, sources>>
    BY <1>7 DEF SyncInsert
  <2> HIDE DEF r
  <2> QED
    BY <1>4, <2>1, <2>2
<1>8. ASSUME NEW q \in Requests, ReadDisk(q)
      PROVE  (ItemsApart /\ ReadKept)'
  <2> DEFINE r == [req[q] EXCEPT !.read = ReadFiles(q), !.step = "read"]
  <2>1. req[q] \in Request /\ req[q].todo = {} /\ req[q].failed = {} /\ req[q].ingested = {}
    BY <1>1, <1>8 DEF ReadDisk, ShapeOf
  <2>2. r.step = "read" /\ r.todo = {} /\ r.failed = {} /\ r.ingested = {}
    BY <2>1 DEF Request
  <2>3. req' = [req EXCEPT ![q] = r] /\ UNCHANGED <<seed, sources>>
    BY <1>8 DEF ReadDisk
  <2> HIDE DEF r
  <2>4. ItemsOf(r, seed, sources) /\ KeptOf(r, seed)
    BY <2>2 DEF ItemsOf, KeptOf
  <2> QED
    BY <1>4, <2>3, <2>4
<1>9. ASSUME NEW q \in Requests, Upsert(q)
      PROVE  (ItemsApart /\ ReadKept)'
  <2> DEFINE r == [req[q] EXCEPT !.step = "fetch", !.inserted = FALSE, !.loaded = None,
                                 !.raced = FALSE]
  <2>1. /\ Busy(q) /\ req[q] \in Request /\ ShapeOf(req[q])
        /\ req[q].todo = {} /\ req[q].failed = {} /\ req[q].ingested = {}
    BY <1>1, <1>9 DEF Upsert, ShapeOf
  <2>2. /\ r.step = "fetch" /\ r.todo = {} /\ r.failed = {} /\ r.ingested = {}
        /\ r.read = req[q].read
    BY <2>1 DEF Request
  <2>3. sources' = sources /\ \A f \in Files : seed'[f] = SeedAfter(q, f)
    BY <1>9 DEF Upsert
  <2>4. \A f \in Files : seed[f] # None => seed'[f] # None
    BY <2>3 DEF SeedAfter
  <2>5. \A p \in Requests :
          \/ p = q /\ req'[p] = r
          \/ /\ p # q /\ req'[p] = req[p]
             /\ Busy(p) => req[p].kinds \cap req[q].kinds = {} \/ req[p].step = "loaded"
          \/ p # q /\ Busy(p) /\ req'[p] = [req[p] EXCEPT !.clash = TRUE]
    BY <1>1, <1>9 DEF Upsert
  <2> HIDE DEF r
  <2>6. ItemsOf(r, seed', sources') /\ KeptOf(r, seed')
    BY <2>2, <2>3 DEF ItemsOf, KeptOf, SeedAfter
  <2>7. ASSUME NEW p \in Requests, p # q, req'[p] # None
        PROVE  ItemsOf(req'[p], seed', sources') /\ KeptOf(req'[p], seed')
    <3>1. Busy(p) /\ req[p] \in Request /\ ShapeOf(req[p])
      BY <1>1, <2>5, <2>7 DEF Busy
    <3>2. ItemsOf(req[p], seed', sources')
      BY <1>1, <2>3, <2>4, <3>1, ItemsGrow
    <3>3. CASE req'[p] = [req[p] EXCEPT !.clash = TRUE]
      BY <3>1, <3>2, <3>3 DEF ItemsOf, KeptOf, Request
    <3>4. CASE req'[p] = req[p] /\ (req[p].kinds \cap req[q].kinds = {} \/ req[p].step = "loaded")
      <4>1. ASSUME req[p].step = "loaded"
            PROVE  KeptOf(req[p], seed')
        BY <3>1, <4>1 DEF KeptOf, ShapeOf
      <4>2. ASSUME req[p].step # "loaded"
            PROVE  KeptOf(req[p], seed')
        <5>1. \A f \in Files : KindOf[f] \in req[p].kinds => seed'[f] = seed[f]
          BY <2>1, <2>3, <3>4, <4>2 DEF ShapeOf, SeedAfter
        <5>2. \A f \in req[p].todo \cup req[p].failed : f \in Files /\ KindOf[f] \in req[p].kinds
          BY <1>1, <3>1 DEF ItemsOf, Request
        <5> QED
          BY <1>1, <3>1, <5>1, <5>2 DEF KeptOf, ShapeOf
      <4>3. KeptOf(req[p], seed')
        BY <4>1, <4>2
      <4> QED
        BY <3>2, <3>4, <4>3
    <3> QED
      BY <2>5, <2>7, <3>1, <3>3, <3>4
  <2> QED
    BY <1>2, <2>5, <2>6, <2>7
<1>10. ASSUME NEW q \in Requests, Fetch(q)
       PROVE  (ItemsApart /\ ReadKept)'
  <2> DEFINE todo == UNION {SeedRows(k) : k \in req[q].kinds}
             r == [req[q] EXCEPT !.step = "items", !.held = seed, !.todo = todo]
  <2>1. /\ Busy(q) /\ req[q] \in Request /\ ShapeOf(req[q]) /\ KeptOf(req[q], seed)
        /\ req[q].step = "fetch" /\ req[q].failed = {} /\ req[q].ingested = {}
    BY <1>1, <1>10 DEF Fetch, ShapeOf
  <2>2. req' = [req EXCEPT ![q] = r] /\ UNCHANGED <<seed, sources>>
    BY <1>10 DEF Fetch
  <2>3. \A f \in Files : f \in todo <=> KindOf[f] \in req[q].kinds /\ seed[f] # None
    BY DEF SeedRows, FilesOf
  <2>4. todo \subseteq Files
    BY DEF SeedRows, FilesOf
  <2> HIDE DEF todo
  <2>5. /\ r.step = "items" /\ r.todo = todo /\ r.failed = {} /\ r.ingested = {}
        /\ r.read = req[q].read /\ r.held = seed /\ r.kinds = req[q].kinds
        /\ r.clash = req[q].clash
    BY <2>1 DEF Request
  <2> HIDE DEF r
  <2>6. ItemsOf(r, seed, sources)
    BY <2>3, <2>4, <2>5 DEF ItemsOf
  <2>7. KeptOf(r, seed)
    BY <2>1, <2>3, <2>5 DEF KeptOf, ShapeOf
  <2> QED
    BY <1>4, <2>2, <2>6, <2>7
<1>11. ASSUME NEW q \in Requests, NEW f \in req[q].todo, Busy(q)
       PROVE  /\ f \in Files /\ KindOf[f] \in req[q].kinds /\ seed[f] # None
              /\ req[q].step = "items"
              /\ ~req[q].clash => Content(q, f) = seed[f]
  <2>1. f \in Files /\ req[q].step = "items"
    BY <1>1, <1>11 DEF Request, ShapeOf
  <2> QED
    BY <1>1, <1>11, <2>1 DEF ItemsOf, KeptOf, Content
<1>12. ASSUME NEW q \in Requests, NEW f \in Files, ItemRefused(q, f)
       PROVE  (ItemsApart /\ ReadKept)'
  <2> DEFINE r == [req[q] EXCEPT !.todo = @ \ {f}, !.failed = @ \cup {f}]
  <2>1. /\ Busy(q) /\ req[q] \in Request /\ f \in req[q].todo /\ <<f, Content(q, f)>> \in NoConsent
        /\ ItemsOf(req[q], seed, sources) /\ KeptOf(req[q], seed)
    BY <1>1, <1>12 DEF ItemRefused, Refused
  <2>2. req' = [req EXCEPT ![q] = r] /\ UNCHANGED <<seed, sources>>
    BY <1>12 DEF ItemRefused
  <2>3. /\ r.step = req[q].step /\ r.todo = req[q].todo \ {f} /\ r.failed = req[q].failed \cup {f}
        /\ r.ingested = req[q].ingested /\ r.read = req[q].read /\ r.held = req[q].held
        /\ r.kinds = req[q].kinds /\ r.clash = req[q].clash /\ r.expired = req[q].expired
    BY <2>1 DEF Request
  <2> HIDE DEF r
  <2>4. ItemsOf(r, seed, sources)
    BY <2>1, <2>3 DEF ItemsOf
  <2>5. KeptOf(r, seed)
    BY <1>11, <2>1, <2>3 DEF KeptOf
  <2> QED
    BY <1>4, <2>2, <2>4, <2>5
<1>13. ASSUME NEW q \in Requests, NEW f \in Files, ItemIngested(q, f)
       PROVE  (ItemsApart /\ ReadKept)'
  <2> DEFINE s == <<f, Content(q, f)>>
             r == [req[q] EXCEPT !.todo = @ \ {f}, !.ingested = @ \cup {s},
                                 !.expired = @ \/ s \notin sources,
                                 !.held = IF s \in sources THEN @ ELSE Nothing]
  <2>1. /\ Busy(q) /\ req[q] \in Request /\ f \in req[q].todo
        /\ ItemsOf(req[q], seed, sources) /\ KeptOf(req[q], seed)
    BY <1>1, <1>13 DEF ItemIngested
  <2>2. req' = [req EXCEPT ![q] = r] /\ seed' = seed /\ sources' = sources \cup {s}
    BY <1>13 DEF ItemIngested
  <2>3. /\ s[1] = f /\ KindOf[f] \in req[q].kinds /\ seed[f] # None /\ req[q].step = "items"
        /\ ~req[q].clash => s = <<f, seed[f]>>
    BY <1>11, <2>1
  <2> HIDE DEF s
  <2>4. /\ r.step = req[q].step /\ r.todo = req[q].todo \ {f} /\ r.failed = req[q].failed
        /\ r.ingested = req[q].ingested \cup {s} /\ r.read = req[q].read
        /\ r.kinds = req[q].kinds /\ r.clash = req[q].clash
        /\ ~r.expired => ~req[q].expired /\ s \in sources
        /\ s \in sources => r.held = req[q].held
    BY <2>1 DEF Request
  <2> HIDE DEF r
  <2>5. ItemsOf(r, seed', sources')
    BY <2>1, <2>2, <2>3, <2>4 DEF ItemsOf
  <2>6. KeptOf(r, seed')
    BY <2>1, <2>2, <2>3, <2>4 DEF KeptOf
  <2>7. \A p \in Requests : req'[p] = IF p = q THEN r ELSE req[p]
    BY <1>1, <2>2 DEF TypeOK
  <2>8. ASSUME NEW p \in Requests, p # q, Busy(p)
        PROVE  ItemsOf(req[p], seed', sources') /\ KeptOf(req[p], seed')
    <3>1. ItemsOf(req[p], seed', sources')
      BY <1>1, <2>2, <2>8, ItemsGrow
    <3>2. KeptOf(req[p], seed')
      BY <1>1, <2>2, <2>8 DEF KeptOf
    <3> QED
      BY <3>1, <3>2
  <2> QED
    BY <1>2, <2>5, <2>6, <2>7, <2>8 DEF Busy
<1>14. CASE UNCHANGED <<req, seed, sources>>
  BY <1>3, <1>14 DEF Busy
<1>15. ASSUME NEW q \in Requests, NEW k \in Kinds,
              SetCommit(q, k) \/ SyncSimulated(q, k) \/ SyncCommit(q, k)
       PROVE  (ItemsApart /\ ReadKept)'
  BY <1>6, <1>15, Writes
<1>16. ASSUME NEW q \in Requests, NEW k \in Kinds
       PROVE  /\ SyncBegin(q, k) => (ItemsApart /\ ReadKept)'
              /\ \A op \in {"connect", "disconnect"} :
                   SetConnection(q, k, op) => (ItemsApart /\ ReadKept)'
  BY <1>5 DEF SyncBegin, SetConnection
<1>17. ASSUME NEW q \in Requests, LoadBegin(q)
       PROVE  (ItemsApart /\ ReadKept)'
  BY <1>5, <1>17 DEF LoadBegin
<1>18. ASSUME NEW q \in Requests, Fail(q) \/ LoadEnds(q)
       PROVE  (ItemsApart /\ ReadKept)'
  <2>1. req' = [req EXCEPT ![q] = None] /\ UNCHANGED <<seed, sources>>
    BY <1>18 DEF Fail, LoadEnds
  <2>2. \A p \in Requests : req'[p] = IF p = q THEN None ELSE req[p]
    BY <1>1, <2>1 DEF TypeOK
  <2> QED
    BY <1>3, <2>1, <2>2 DEF Busy
<1>19. ASSUME NEW f \in Files, EditDisk(f)
       PROVE  (ItemsApart /\ ReadKept)'
  BY <1>14, <1>19 DEF EditDisk
<1>21. ASSUME NEW q \in Requests, NEW k \in Kinds, SetCount(q, k)
       PROVE  (ItemsApart /\ ReadKept)'
  <2> DEFINE r == [req[q] EXCEPT !.step = "counted", !.held = seed]
  <2>1. /\ req[q] \in Request /\ req[q].todo = {} /\ req[q].failed = {} /\ req[q].ingested = {}
    BY <1>1, <1>21 DEF SetCount, ShapeOf
  <2>2. r.step = "counted" /\ r.todo = {} /\ r.failed = {} /\ r.ingested = {} /\ r.held = seed
    BY <2>1 DEF Request
  <2>3. req' = [req EXCEPT ![q] = r] /\ UNCHANGED <<seed, sources>>
    BY <1>21 DEF SetCount
  <2> HIDE DEF r
  <2>4. ItemsOf(r, seed, sources) /\ KeptOf(r, seed)
    BY <2>2 DEF ItemsOf, KeptOf
  <2> QED
    BY <1>4, <2>3, <2>4
<1> HIDE DEF dataVars
<1>20. UNCHANGED vars => (ItemsApart /\ ReadKept)'
  BY <1>14 DEF vars
<1> QED
  BY <1>7, <1>8, <1>9, <1>10, <1>12, <1>13, <1>15, <1>16, <1>17, <1>18, <1>19, <1>20,
     <1>21 DEF Next

\* The invariant holds in every state.
THEOREM Correct == Spec => []Inv
<1>1. Inv /\ [Next]_vars => Inv'
  BY TypeStep, ShapeStep, RowsStep, ItemsStep DEF Inv
<1> QED
  BY <1>1, InvInit, PTL DEF Spec

\* What the tables and the sessions hold is of its type in every state.
THEOREM TypeCorrect == Spec => []TypeOK
  BY Correct, PTL DEF Inv

-----------------------------------------------------------------------------
\* The steps that only advance a request.
LEMMA OnlyRequests ==
    /\ \A f \in Files : EditDisk(f) => UNCHANGED <<seed, sources, conn, crossed>>
    /\ \A q \in Requests :
         /\ Fail(q) => UNCHANGED <<seed, sources, conn, crossed>>
         /\ LoadBegin(q) \/ LoadEnds(q) => UNCHANGED <<seed, sources, conn, crossed>>
         /\ ReadDisk(q) \/ Fetch(q) => UNCHANGED <<seed, sources, conn, crossed>>
         /\ Upsert(q) => UNCHANGED <<sources, crossed>>
         /\ \A f \in Files : /\ ItemRefused(q, f) => UNCHANGED <<seed, sources, conn, crossed>>
                             /\ ItemIngested(q, f) => UNCHANGED <<seed, conn, crossed>>
         /\ \A k \in Kinds :
              /\ SyncBegin(q, k) \/ SyncInsert(q, k) \/ SetCount(q, k) => UNCHANGED <<seed, sources, conn, crossed>>
              /\ \A op \in {"connect", "disconnect"} :
                   SetConnection(q, k, op) => UNCHANGED <<seed, sources, conn, crossed>>
<1> USE DEF dataVars
<1>1. \A f \in Files : EditDisk(f) => UNCHANGED <<seed, sources, conn, crossed>>
  BY DEF EditDisk
<1> SUFFICES ASSUME NEW q \in Requests
    PROVE /\ Fail(q) => UNCHANGED <<seed, sources, conn, crossed>>
          /\ LoadBegin(q) \/ LoadEnds(q) => UNCHANGED <<seed, sources, conn, crossed>>
          /\ ReadDisk(q) \/ Fetch(q) => UNCHANGED <<seed, sources, conn, crossed>>
          /\ Upsert(q) => UNCHANGED <<sources, crossed>>
          /\ \A f \in Files : /\ ItemRefused(q, f) => UNCHANGED <<seed, sources, conn, crossed>>
                              /\ ItemIngested(q, f) => UNCHANGED <<seed, conn, crossed>>
          /\ \A k \in Kinds :
               /\ SyncBegin(q, k) \/ SyncInsert(q, k) \/ SetCount(q, k) => UNCHANGED <<seed, sources, conn, crossed>>
               /\ \A op \in {"connect", "disconnect"} :
                    SetConnection(q, k, op) => UNCHANGED <<seed, sources, conn, crossed>>
  BY <1>1
<1>2. Fail(q) => UNCHANGED <<seed, sources, conn, crossed>>
  BY DEF Fail
<1>3. LoadBegin(q) \/ LoadEnds(q) => UNCHANGED <<seed, sources, conn, crossed>>
  BY DEF LoadBegin, LoadEnds
<1>4. ReadDisk(q) \/ Fetch(q) => UNCHANGED <<seed, sources, conn, crossed>>
  BY DEF ReadDisk, Fetch
<1>5. Upsert(q) => UNCHANGED <<sources, crossed>>
  BY DEF Upsert
<1>6. \A f \in Files : /\ ItemRefused(q, f) => UNCHANGED <<seed, sources, conn, crossed>>
                       /\ ItemIngested(q, f) => UNCHANGED <<seed, conn, crossed>>
  BY DEF ItemRefused, ItemIngested
<1>7. \A k \in Kinds :
        /\ SyncBegin(q, k) \/ SyncInsert(q, k) \/ SetCount(q, k) => UNCHANGED <<seed, sources, conn, crossed>>
        /\ \A op \in {"connect", "disconnect"} :
             SetConnection(q, k, op) => UNCHANGED <<seed, sources, conn, crossed>>
  BY DEF SyncBegin, SyncInsert, SetCount, SetConnection
<1> QED
  BY <1>2, <1>3, <1>4, <1>5, <1>6, <1>7

\* A seed row stays.
LEMMA SeedsStay ==
  ASSUME Inv, [Next]_vars
  PROVE  \A f \in Files : seed[f] # None => seed'[f] # None
<1>1. ASSUME NEW q \in Requests, Upsert(q)
      PROVE  \A f \in Files : seed[f] # None => seed'[f] # None
  BY <1>1 DEF Upsert, SeedAfter
<1>2. \A q \in Requests, k \in Kinds :
        SetCommit(q, k) \/ SyncSimulated(q, k) \/ SyncCommit(q, k) => UNCHANGED dataVars
  BY Writes
<1>3. (\E q \in Requests : Upsert(q)) \/ seed' = seed
  BY <1>2, OnlyRequests DEF Next, vars, dataVars
<1> QED
  BY <1>1, <1>3

\* The connections that a step may change.
LEMMA RowsChange ==
  ASSUME Inv, [Next]_vars, NEW j \in Kinds
  PROVE  \/ conn'[j] = conn[j]
         \/ conn'[j] = NewRow
         \/ \E q \in Requests : SetCommit(q, j) \/ SyncSimulated(q, j) \/ SyncCommit(q, j)
<1>1. \A q \in Requests : Upsert(q) => conn'[j] = conn[j] \/ conn'[j] = NewRow
  BY DEF Upsert
<1>2. ASSUME NEW q \in Requests, NEW k \in Kinds,
             SetCommit(q, k) \/ SyncSimulated(q, k) \/ SyncCommit(q, k)
      PROVE  k = j \/ conn'[j] = conn[j]
  <2>1. PICK row : WriteRow(q, k, row)
    BY <1>2, Writes
  <2> QED
    BY <2>1 DEF WriteRow, Inv, TypeOK
<1>3. \/ \E q \in Requests : Upsert(q)
      \/ \E q \in Requests, k \in Kinds :
           SetCommit(q, k) \/ SyncSimulated(q, k) \/ SyncCommit(q, k)
      \/ conn' = conn
  BY OnlyRequests DEF Next, vars
<1> QED
  BY <1>1, <1>2, <1>3

\* The kinds whose row crossed stay so, and one that a request wrote after another had
\* written it becomes one.
LEMMA CrossedStay ==
  ASSUME Inv, [Next]_vars
  PROVE  /\ crossed \subseteq crossed'
         /\ \A q \in Requests, k \in Kinds :
              SetCommit(q, k) \/ SyncSimulated(q, k) \/ SyncCommit(q, k) =>
                k \in crossed' \/ ~req[q].raced
<1>1. ASSUME NEW q \in Requests, NEW k \in Kinds,
             SetCommit(q, k) \/ SyncSimulated(q, k) \/ SyncCommit(q, k)
      PROVE  crossed \subseteq crossed' /\ (k \in crossed' \/ ~req[q].raced)
  <2>1. PICK row : WriteRow(q, k, row)
    BY <1>1, Writes
  <2> QED
    BY <2>1 DEF WriteRow
<1>2. \/ \E q \in Requests, k \in Kinds :
           SetCommit(q, k) \/ SyncSimulated(q, k) \/ SyncCommit(q, k)
      \/ crossed' = crossed
  BY OnlyRequests DEF Next, vars
<1> QED
  BY <1>1, <1>2

\* Whoever wrote which column last, a connection that says connected has seed rows, and
\* one in error that no two requests crossed on has a reason.
LEMMA StatusStep == Inv /\ StatusIsTrue /\ [Next]_vars => StatusIsTrue'
<1> SUFFICES ASSUME Inv, StatusIsTrue, [Next]_vars, NEW k \in Kinds, conn'[k] # None
             PROVE  /\ conn'[k].status = "connected" => SeedRows(k)' # {}
                    /\ k \notin crossed' /\ conn'[k].status = "error" => conn'[k].error # None
  BY DEF StatusIsTrue, ConnectedHasData, ErrorIsExplained
<1>1. SeedRows(k) # {} => SeedRows(k)' # {}
  BY SeedsStay DEF SeedRows, FilesOf
<1>2. CASE conn'[k] = conn[k]
  BY <1>1, <1>2, CrossedStay DEF StatusIsTrue, ConnectedHasData, ErrorIsExplained
<1>3. CASE conn'[k] = NewRow
  BY <1>3 DEF NewRow
<1>4. ASSUME NEW q \in Requests, SetCommit(q, k) \/ SyncSimulated(q, k) \/ SyncCommit(q, k)
      PROVE  /\ conn'[k].status = "connected" => SeedRows(k)' # {}
             /\ k \notin crossed' /\ conn'[k].status = "error" => conn'[k].error # None
  <2>1. PICK new \in Row : WriteRow(q, k, Updated(q, k, new)) /\ Explained(k, new)
    BY <1>4, Writes
  <2>2. Busy(q) /\ req[q].kinds = {k}
    BY <1>4, Writes
  <2>3. conn'[k] = Updated(q, k, new)
    BY <2>1 DEF WriteRow, Inv, TypeOK
  <2>4. LoadedOf(req[q], conn[k])
    BY <2>2 DEF Inv, LoadedRow
  <2>5. CASE req[q].loaded = None \/ conn[k] = None
    BY <1>1, <2>1, <2>3, <2>5 DEF Updated, Explained
  <2>6. CASE req[q].loaded # None /\ conn[k] # None
    <3>1. conn'[k].status \in {conn[k].status, new.status}
      BY <2>3, <2>6 DEF Updated
    <3>2. conn'[k].status = "connected" => SeedRows(k)' # {}
      BY <1>1, <2>1, <2>6, <3>1 DEF StatusIsTrue, ConnectedHasData, Explained
    <3>3. k \in crossed' \/ req[q].loaded = conn[k]
      BY <1>4, <2>4, <2>6, CrossedStay DEF LoadedOf
    <3>4. req[q].loaded = conn[k] =>
            conn'[k].status = new.status /\ conn'[k].error = new.error
      BY <2>3, <2>6 DEF Updated
    <3> QED
      BY <2>1, <3>2, <3>3, <3>4 DEF Explained
  <2> QED
    BY <2>5, <2>6
<1> QED
  BY <1>2, <1>3, <1>4, RowsChange

\* What a connection shows is true.
THEOREM StatusTrue == Spec => []StatusIsTrue
<1>1. Init => StatusIsTrue
  BY DEF Init, StatusIsTrue, ConnectedHasData, ErrorIsExplained
<1> QED
  BY <1>1, StatusStep, Correct, PTL DEF Spec

\* What a sync run reports when it ends is true of what is stored then.
THEOREM RunsAreHonest == Spec => RunIsHonest
<1> DEFINE True(q, k, status) ==
      /\ req[q].ingested \subseteq sources
      /\ status # "failed" => SeedRows(k) # {}
      /\ req[q].clash
         \/ /\ status = "ok" => \A f \in SeedRows(k) : <<f, seed[f]>> \in sources
            /\ status = "partial" => \E f \in SeedRows(k) : <<f, seed[f]>> \in NoConsent
            /\ status = "failed" => SeedRows(k) = {}
    Honest == \A q \in Requests, k \in Kinds : SyncCommit(q, k) => True(q, k, Outcome(q).status)
<1>1. Inv => Honest
  <2> SUFFICES ASSUME Inv, NEW q \in Requests, NEW k \in Kinds, SyncCommit(q, k)
               PROVE  True(q, k, Outcome(q).status)
    OBVIOUS
  <2>1. /\ Busy(q) /\ req[q].kinds = {k} /\ req[q].todo = {}
        /\ req[q].step = "items" \/ k \notin Imported
    BY DEF SyncCommit, ItemsDone
  <2>2. ItemsOf(req[q], seed, sources) /\ KeptOf(req[q], seed) /\ req[q] \in Request
    BY <2>1 DEF Inv, ItemsApart, ReadKept, TypeOK, Busy
  <2>3. Outcome(q).status # "failed" => SeedRows(k) # {}
    BY <2>1, ReportedSeed DEF Outcome
  <2>4. \A f \in SeedRows(k) : f \in Files /\ KindOf[f] = k /\ seed[f] # None
    BY DEF SeedRows, FilesOf
  <2>5. ASSUME ~req[q].clash, NEW f \in SeedRows(k)
        PROVE  f \in req[q].failed \/ <<f, seed[f]>> \in req[q].ingested
    BY <2>1, <2>2, <2>4, <2>5 DEF KeptOf
  <2>6. ASSUME ~req[q].clash, req[q].failed # {}
        PROVE  \E f \in SeedRows(k) : <<f, seed[f]>> \in NoConsent
    <3>1. PICK f \in req[q].failed : f \in Files
      BY <2>2, <2>6 DEF Request
    <3>2. f \in SeedRows(k)
      BY <2>1, <2>2, <3>1 DEF ItemsOf, SeedRows, FilesOf
    <3>3. <<f, seed[f]>> \in NoConsent
      BY <2>2, <2>6, <3>1 DEF KeptOf
    <3> QED
      BY <3>2, <3>3
  <2>7. /\ Outcome(q).status = "ok" => req[q].failed = {}
        /\ Outcome(q).status = "partial" => req[q].failed # {}
        /\ Outcome(q).status = "failed" => req[q].failed = {} /\ req[q].ingested = {}
    BY DEF Outcome
  <2>8. req[q].ingested \subseteq sources
    BY <2>2 DEF ItemsOf
  <2> QED
    BY <2>3, <2>5, <2>6, <2>7, <2>8
<1> HIDE DEF Honest
<1>2. Spec => [][Honest]_vars
  BY <1>1, Correct, PTL
<1> QED
  BY <1>2 DEF RunIsHonest, Honest

\* A sync that nobody disturbed leaves every file it read a source in that version.
THEOREM SyncsReflectDisk == Spec => SyncReflectsDisk
<1> DEFINE Reflects ==
      \A q \in Requests, k \in Kinds :
        SyncCommit(q, k) /\ ~req[q].clash =>
          \A f \in FilesOf({k}) :
            \/ req[q].read[f] = None
            \/ <<f, req[q].read[f]>> \in sources
            \/ <<f, req[q].read[f]>> \in NoConsent
<1>1. Inv => Reflects
  <2> SUFFICES ASSUME Inv, NEW q \in Requests, NEW k \in Kinds, SyncCommit(q, k), ~req[q].clash,
                      NEW f \in Files, KindOf[f] = k, req[q].read[f] # None
               PROVE  <<f, req[q].read[f]>> \in sources \cup NoConsent
    BY DEF FilesOf
  <2>1. /\ Busy(q) /\ req[q].todo = {} /\ req[q].step = "items" /\ req[q].kinds = {k}
        /\ ItemsOf(req[q], seed, sources) /\ KeptOf(req[q], seed)
    BY DEF SyncCommit, ItemsDone, Inv, ItemsApart, ReadKept, Busy
  <2>2. seed[f] = req[q].read[f]
    BY <2>1 DEF KeptOf
  <2> QED
    BY <2>1, <2>2 DEF ItemsOf, KeptOf
<1> HIDE DEF Reflects
<1>2. Spec => [][Reflects]_vars
  BY <1>1, Correct, PTL
<1> QED
  BY <1>2 DEF SyncReflectsDisk, Reflects
=============================================================================
