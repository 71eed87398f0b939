------------------------------ MODULE Connections ------------------------------
(***************************************************************************)
(* The connections of a tenant, their simulated sync and the ways mock     *)
(* data becomes sources: app/api/simulation.py, app/api/org_setup.py,      *)
(* app/pipeline/load_mock_data.py, app/pipeline/seed_simulation_sources.py *)
(* and the mock connectors.                                                *)
(*                                                                         *)
(* A request is a session that commits several times.  Between two commits *)
(* others run, and expire_on_commit decides what it reads again: a seed    *)
(* row is loaded by the query and reloaded after the session's next        *)
(* commit; a connections row that was loaded and not expired is compared   *)
(* with at the flush, which writes the columns that differ and no others.  *)
(*                                                                         *)
(* A file of mock data is one seed row and one item here (a drive document *)
(* has an item per section, a thread and a channel one per message), and   *)
(* its content is a version.  The ingestion of one item, with its race for *)
(* the dedupe key, is module JobQueue; the tenant's mode never changes,    *)
(* because production is refused.  last_synced_at is left out, and a row   *)
(* of sync_runs is what the step that ends a sync says (Outcome).          *)
(***************************************************************************)
EXTENDS Integers, FiniteSets

CONSTANTS
    Files,        \* mock-data files
    InitialFiles, \* the sets of files that may be there at first
    Kinds,        \* CONNECTION_KINDS
    KindOf,       \* KindOf[f]
    Imported,     \* the kinds with an importer and a connector: all but "directory"
    NoConsent,    \* pairs of a file and a version whose call has no recorded consent
    Requests,     \* concurrent callers of the API
    None,
    MaxEdits      \* bound: changes of mock-data files

Version == 0..MaxEdits
Error == {"no seed data", "items failed", "simulated"}
Row == [status : {"disconnected", "connected", "error"}, error : Error \cup {None}]
Request == [op : {"sync", "load", "connect", "disconnect"}, kinds : SUBSET Kinds,
            step : {"loaded", "counted", "read", "fetch", "items"},
            loaded : Row \cup {None},           \* the row as the session knows it
            inserted : BOOLEAN,                 \* it has inserted the row, not yet committed
            read : [Files -> Version \cup {None}],
            todo : SUBSET Files, held : [Files -> Version \cup {None}], expired : BOOLEAN,
            ingested : SUBSET (Files \X Version), failed : SUBSET Files,
            clash : BOOLEAN, raced : BOOLEAN]   \* history

ASSUME ConnectionsAssumption ==
    /\ InitialFiles \subseteq SUBSET Files
    /\ Imported \subseteq Kinds
    /\ KindOf \in [Files -> Imported]
    /\ None \notin Nat \cup Kinds \cup Error \cup Row \cup Request
    /\ MaxEdits \in Nat

VARIABLES
    disk,      \* disk[f]: the version of a file, None when there is none
    edits,
    seed,      \* seed[f]: the version simulation_seed_sources has, None without a row
    sources,   \* sources ingested, pairs of a file and a version
    conn,      \* conn[k]: the connections row, None without one
    req,       \* req[q]: what request q is in the middle of, None when idle
    crossed    \* history: the kinds whose row was written by a request that had
               \* loaded it before another one wrote it

dataVars == <<disk, edits, seed, sources>>
vars == <<disk, edits, seed, sources, conn, req, crossed>>

TypeOK ==
    /\ disk \in [Files -> Version \cup {None}]
    /\ edits \in 0..MaxEdits
    /\ seed \in [Files -> Version \cup {None}]
    /\ sources \subseteq Files \X Version
    /\ conn \in [Kinds -> Row \cup {None}]
    /\ req \in [Requests -> Request \cup {None}]
    /\ crossed \subseteq Kinds

Nothing == [f \in Files |-> None]

Init ==
    /\ \E there \in InitialFiles : disk = [f \in Files |-> IF f \in there THEN 0 ELSE None]
    /\ edits = 0
    /\ seed = Nothing
    /\ sources = {}
    /\ conn = [k \in Kinds |-> None]
    /\ req = [q \in Requests |-> None]
    /\ crossed = {}

\* A file is written, rewritten or removed.
EditDisk(f) ==
    /\ edits < MaxEdits
    /\ edits' = edits + 1
    /\ \E v \in {edits + 1, None} : v # disk[f] /\ disk' = [disk EXCEPT ![f] = v]
    /\ UNCHANGED <<seed, sources, conn, req, crossed>>

-----------------------------------------------------------------------------
(***************************************************************************)
(* The connections row.                                                    *)
(***************************************************************************)
Busy(q) == req[q] # None
FilesOf(ks) == {f \in Files : KindOf[f] \in ks}
SeedRows(k) == {f \in FilesOf({k}) : seed[f] # None}

\* Mutant: the column has no default.
NewRowBlank == [status |-> None, error |-> None]

NewRow == [status |-> "disconnected", error |-> None]

Begin(q, op, ks, row) ==
    /\ ~Busy(q)
    /\ req' = [req EXCEPT ![q] =
                 [op |-> op, kinds |-> ks, step |-> "loaded", loaded |-> row,
                  inserted |-> FALSE, read |-> Nothing, todo |-> {}, held |-> Nothing,
                  expired |-> FALSE, ingested |-> {}, failed |-> {},
                  clash |-> FALSE, raced |-> FALSE]]

\* Another session's uncommitted row of the kind makes an insert wait.
InsertWaits(q, k) ==
    \E p \in Requests \ {q} : Busy(p) /\ req[p].inserted /\ req[p].kinds = {k}

\* The request ends with an error: its session is rolled back.
Fail(q) ==
    /\ Busy(q)
    /\ req' = [req EXCEPT ![q] = None]
    /\ UNCHANGED <<dataVars, conn, crossed>>

\* The UPDATE that a flush sends, from what the session loaded to what it has set.
Updated(q, k, new) ==
    LET old == req[q].loaded
        now == conn[k]
    IN IF old = None \/ now = None THEN new
       ELSE [status |-> IF new.status = old.status THEN now.status ELSE new.status,
             error |-> IF new.error = old.error THEN now.error ELSE new.error]

\* Every request that still has the row loaded has now had it written by another.
WriteRow(q, k, row) ==
    /\ conn' = [conn EXCEPT ![k] = row]
    /\ crossed' = IF req[q].raced THEN crossed \cup {k} ELSE crossed
    /\ req' = [p \in Requests |->
                 IF p = q THEN None
                 ELSE IF Busy(p) /\ req[p].kinds = {k} /\ req[p].loaded # None
                   THEN [req[p] EXCEPT !.raced = TRUE]
                 ELSE req[p]]

-----------------------------------------------------------------------------
(***************************************************************************)
(* set_connection: PATCH /connections/{kind}.                              *)
(***************************************************************************)
SetConnection(q, k, op) ==
    /\ op \in {"connect", "disconnect"}
    /\ Begin(q, op, {k}, conn[k])
    /\ UNCHANGED <<dataVars, conn, crossed>>

\* Mutant: a source is connected because somebody said so.
ConnectedAnyway(q, k, row) == [row EXCEPT !.status = "connected", !.error = None]

\* The seed rows are counted, in a query of its own that flushes nothing.
SetCount(q, k) ==
    /\ Busy(q)
    /\ req[q].op = "connect" /\ req[q].kinds = {k} /\ req[q].step = "loaded"
    /\ req' = [req EXCEPT ![q].step = "counted", ![q].held = seed]
    /\ UNCHANGED <<dataVars, conn, crossed>>

\* A source that had no seed rows when they were counted has nothing to connect to.
Connected(q, k, row) ==
    IF \E f \in FilesOf({k}) : req[q].held[f] # None
      THEN [row EXCEPT !.status = "connected", !.error = None]
      ELSE [row EXCEPT !.status = "error", !.error = "no seed data"]

\* The row that was not there when the request looked is inserted now.
SetCommit(q, k) ==
    /\ Busy(q)
    /\ <<req[q].op, req[q].step>> \in {<<"disconnect", "loaded">>, <<"connect", "counted">>}
    /\ req[q].kinds = {k}
    /\ ~InsertWaits(q, k)
    /\ req[q].loaded = None => conn[k] = None
    /\ LET row == IF req[q].loaded = None THEN NewRow ELSE req[q].loaded
           new == IF req[q].op = "connect" THEN Connected(q, k, row)
                  ELSE [row EXCEPT !.status = "disconnected"]
       IN WriteRow(q, k, Updated(q, k, new))
    /\ UNCHANGED <<dataVars>>

-----------------------------------------------------------------------------
(***************************************************************************)
(* sync_connection and load_mock_data.                                     *)
(***************************************************************************)

\* The row is looked up, and inserted and flushed if there is none.  Its status is
\* not looked at.
SyncBegin(q, k) ==
    /\ Begin(q, "sync", {k}, conn[k])
    /\ UNCHANGED <<dataVars, conn, crossed>>

SyncInsert(q, k) ==
    /\ Busy(q)
    /\ req[q].op = "sync" /\ req[q].kinds = {k}
    /\ req[q].step = "loaded" /\ req[q].loaded = None /\ ~req[q].inserted
    /\ ~InsertWaits(q, k)
    /\ conn[k] = None
    /\ req' = [req EXCEPT ![q].inserted = TRUE]
    /\ UNCHANGED <<dataVars, conn, crossed>>

HasRow(q) == req[q].loaded # None \/ req[q].inserted

\* simulate = rate_limited, auth_expired or failed: nothing is ingested.
SyncSimulated(q, k) ==
    /\ Busy(q)
    /\ req[q].op = "sync" /\ req[q].kinds = {k}
    /\ req[q].step = "loaded" /\ HasRow(q)
    /\ LET row == IF req[q].inserted THEN NewRow ELSE req[q].loaded
       IN WriteRow(q, k, Updated(q, k, [row EXCEPT !.status = "error", !.error = "simulated"]))
    /\ UNCHANGED dataVars

LoadBegin(q) ==
    /\ Begin(q, "load", Imported, None)
    /\ UNCHANGED <<dataVars, conn, crossed>>

\* The importers read the files of their kinds.
ReadFiles(q) == [f \in Files |-> IF f \in FilesOf(req[q].kinds) THEN disk[f] ELSE None]

ReadDisk(q) ==
    /\ Busy(q)
    /\ req[q].op \in {"sync", "load"} /\ req[q].step = "loaded"
    /\ req[q].op = "sync" => HasRow(q)
    /\ req[q].kinds \subseteq Imported
    /\ req' = [req EXCEPT ![q].read = ReadFiles(q), ![q].step = "read"]
    /\ UNCHANGED <<dataVars, conn, crossed>>

\* Mutant: ON CONFLICT DO NOTHING.
SeedAfterKept(q, f) == IF seed[f] # None THEN seed[f] ELSE req[q].read[f]

\* ON CONFLICT DO UPDATE; a file that is gone keeps its seed row.
SeedAfter(q, f) == IF req[q].read[f] # None THEN req[q].read[f] ELSE seed[f]

\* The upserts and the commit, which also commits an inserted connections row.
Upsert(q) ==
    /\ Busy(q)
    /\ req[q].step = "read"
    /\ seed' = [f \in Files |-> SeedAfter(q, f)]
    /\ conn' = IF req[q].inserted
                 THEN [k \in Kinds |-> IF k \in req[q].kinds THEN NewRow ELSE conn[k]] ELSE conn
    /\ req' = [p \in Requests |->
                 IF p = q THEN [req[q] EXCEPT !.step = "fetch", !.inserted = FALSE, !.loaded = None,
                                                  !.raced = FALSE]
                 ELSE IF Busy(p) /\ req[p].kinds \cap req[q].kinds # {} /\ req[p].step # "loaded"
                   THEN [req[p] EXCEPT !.clash = TRUE]
                 ELSE req[p]]
    /\ UNCHANGED <<disk, edits, sources, crossed>>

\* The connector's query.
Fetch(q) ==
    /\ Busy(q)
    /\ req[q].step = "fetch"
    /\ req' = [req EXCEPT ![q].step = "items", ![q].held = seed,
                          ![q].todo = UNION {SeedRows(k) : k \in req[q].kinds}]
    /\ UNCHANGED <<dataVars, conn, crossed>>

\* What the row of a file reads when its turn comes.
Content(q, f) == IF req[q].expired THEN seed[f] ELSE req[q].held[f]

Refused(f, v) == <<f, v>> \in NoConsent

\* normalize raises ConsentNotGivenError.
ItemRefused(q, f) ==
    /\ Busy(q)
    /\ f \in req[q].todo
    /\ Refused(f, Content(q, f))
    /\ req' = [req EXCEPT ![q].todo = @ \ {f}, ![q].failed = @ \cup {f}]
    /\ UNCHANGED <<dataVars, conn, crossed>>

\* ingest_source commits a new source, which expires what the session has loaded; one
\* that exists is left alone and counts as well.
ItemIngested(q, f) ==
    /\ Busy(q)
    /\ f \in req[q].todo
    /\ ~Refused(f, Content(q, f))
    /\ LET s == <<f, Content(q, f)>> IN
         /\ sources' = sources \cup {s}
         /\ req' = [req EXCEPT ![q].todo = @ \ {f}, ![q].ingested = @ \cup {s},
                               ![q].expired = @ \/ s \notin sources,
                               ![q].held = IF s \in sources THEN @ ELSE Nothing]
    /\ UNCHANGED <<disk, edits, seed, conn, crossed>>

\* A kind without an importer has nothing to fetch, and its session has not committed.
ItemsDone(q) ==
    /\ Busy(q)
    /\ req[q].todo = {}
    /\ \/ req[q].step = "items"
       \/ req[q].op = "sync" /\ HasRow(q) /\ req[q].kinds \cap Imported = {}

\* Mutants: a failed item is forgotten when another succeeds; a failed sync does not say why.
OutcomeForgiving(q) ==
    IF req[q].ingested # {} THEN [status |-> "ok", error |-> None]
    ELSE IF req[q].failed # {} THEN [status |-> "partial", error |-> "items failed"]
    ELSE [status |-> "failed", error |-> "no seed data"]
OutcomeMute(q) == [status |-> IF req[q].failed = {} /\ req[q].ingested = {} THEN "failed" ELSE "ok",
                   error |-> None]

Outcome(q) ==
    IF req[q].failed = {} /\ req[q].ingested = {} THEN [status |-> "failed", error |-> "no seed data"]
    ELSE IF req[q].failed # {} THEN [status |-> "partial", error |-> "items failed"]
    ELSE [status |-> "ok", error |-> None]

\* The row of sync_runs, which has the outcome and its counts and which no handler reads
\* but the one that lists it, is committed with the connection.  After a refresh the session has
\* nothing loaded to compare with, and writes all the columns it set.
SyncCommit(q, k) ==
    /\ ItemsDone(q)
    /\ req[q].op = "sync" /\ req[q].kinds = {k}
    /\ LET o == Outcome(q)
           base == IF k \in Imported THEN conn[k]
                   ELSE IF req[q].inserted THEN NewRow ELSE req[q].loaded
           new == [base EXCEPT !.status = IF o.status = "failed" THEN "error" ELSE "connected",
                               !.error = o.error]
       IN WriteRow(q, k, Updated(q, k, new))
    /\ UNCHANGED dataVars

LoadEnds(q) ==
    /\ ItemsDone(q)
    /\ req[q].op = "load"
    /\ req' = [req EXCEPT ![q] = None]
    /\ UNCHANGED <<dataVars, conn, crossed>>

-----------------------------------------------------------------------------
Next ==
    \/ \E f \in Files : EditDisk(f)
    \/ \E q \in Requests :
         \/ Fail(q)
         \/ \E k \in Kinds :
              \/ \E op \in {"connect", "disconnect"} : SetConnection(q, k, op)
              \/ SetCount(q, k)
              \/ SetCommit(q, k)
              \/ SyncBegin(q, k)
              \/ SyncInsert(q, k)
              \/ SyncSimulated(q, k)
              \/ SyncCommit(q, k)
         \/ LoadBegin(q)
         \/ ReadDisk(q)
         \/ Upsert(q)
         \/ Fetch(q)
         \/ \E f \in Files : ItemRefused(q, f) \/ ItemIngested(q, f)
         \/ LoadEnds(q)

Spec == Init /\ [][Next]_vars

-----------------------------------------------------------------------------
(***************************************************************************)
(* Properties.                                                             *)
(***************************************************************************)

\* A connection that says connected has seed rows to sync from, whichever of the
\* requests wrote which column of it last: the setup screen does not show a source as
\* connected that has nothing behind it.
ConnectedHasData ==
    \A k \in Kinds :
      conn[k] # None => (conn[k].status = "connected" => SeedRows(k) # {})

\* A connection in error says why.  Two requests that each write the columns they
\* changed can combine one's status with the other's lack of an error; nothing else can.
ErrorIsExplained ==
    \A k \in Kinds \ crossed :
      conn[k] # None => (conn[k].status = "error" => conn[k].error # None)

\* What a connection shows is true, though its columns may come from two requests.
StatusIsTrue == ConnectedHasData /\ ErrorIsExplained

\* What a sync run reports when it ends is true of what is stored then, with the seed
\* rows and the sources changing meanwhile: what it counts as ingested is a source, and
\* a kind that it did not fail has seed rows.  When no other request refreshed the kind
\* in between, "ok" means that every seed row is a source in the version it has,
\* "partial" that one has no consent, and "failed" that there is none.
RunIsHonest ==
    [][\A q \in Requests, k \in Kinds :
         SyncCommit(q, k) =>
           LET status == Outcome(q).status IN
           /\ req[q].ingested \subseteq sources
           /\ status # "failed" => SeedRows(k) # {}
           /\ req[q].clash
              \/ /\ status = "ok" => \A f \in SeedRows(k) : <<f, seed[f]>> \in sources
                 /\ status = "partial" => \E f \in SeedRows(k) : <<f, seed[f]>> \in NoConsent
                 /\ status = "failed" => SeedRows(k) = {}]_vars

\* "A sync always reflects the latest mock-data": when a sync ends, every file it read
\* has become a source in the version read, or was refused, unless another request
\* refreshed the same kind in between.
SyncReflectsDisk ==
    [][\A q \in Requests, k \in Kinds :
         SyncCommit(q, k) /\ ~req[q].clash =>
           \A f \in FilesOf({k}) :
             \/ req[q].read[f] = None
             \/ <<f, req[q].read[f]>> \in sources
             \/ <<f, req[q].read[f]>> \in NoConsent]_vars
=============================================================================
