---------------------------- MODULE SessionBundle ----------------------------
(***************************************************************************)
(* The session store on disk: the catalog of sessions, one bundle per      *)
(* session (flows.sqlite, its spilled bodies), the pool of open bundle     *)
(* databases, and the calls that work on them: the writers of a capture,   *)
(* the annotations of a viewer, deletion, export and import.               *)
(*                                                                         *)
(* A call is a gRPC handler on a goroutine of its own.  It is cut where    *)
(* another call can come between: after it took a database handle, between *)
(* two statements that share no transaction, and between a statement and a *)
(* file operation.  A database is a numbered object (Gens), because a      *)
(* handle can outlive the file it was opened from.                         *)
(***************************************************************************)
EXTENDS Naturals, FiniteSets, TLC

CONSTANTS
    Calls,        \* slots for calls in progress at the same time
    Sids,         \* session ids
    Flows,        \* flow records
    Bodies,       \* contents above InlineBlobMax; a smaller one is part of its row
    Defs, Favorite,        \* tag and group definitions, and the built-in one
    MaxCalls,     \* bound: calls begun in a behaviour
    MaxFaults,    \* bound: crashes, cut uploads and failed file writes
    None

ASSUME StoreAssumption ==
    /\ Favorite \in Defs
    /\ MaxCalls \in Nat /\ MaxFaults \in Nat
    /\ IsFiniteSet(Calls) /\ IsFiniteSet(Sids)
    /\ "absent" \notin Sids /\ "absent" \notin Bodies /\ "bodiless" \notin Bodies
    /\ None \notin Nat /\ None \notin Sids \cup Flows \cup Bodies \cup Defs

VARIABLES
    row,        \* the catalog: "none", "open" or "closed" per session
    catalog,    \* definitions in the catalog
    file,       \* which database lies at sessions/<id>/flows.sqlite
    db,         \* the contents of each database
    spill,      \* the files under sessions/<id>/blobs
    pool,       \* Store.sessions: the open handle of each session
    shut,       \* handles that were closed
    call,       \* the calls in progress
    archive,    \* the last archive an export wrote
    begun, faults,
    contended   \* sessions whose calls overlapped a deletion or an import

data == <<row, catalog, file, db, spill, pool, shut, archive>>
vars == <<data, call, begun, faults, contended>>

(* A session handle is in the pool or held by a call, so this many          *)
(* databases are ever in use.                                               *)
Gens == 1..(2 * Cardinality(Sids) + 2 * Cardinality(Calls))

Versions == {"old", "current", "outdated", "newer"}
Databases == [flows : [Flows -> Bodies \cup {"absent", "bodiless"}],
              blobs : [Bodies -> Sids \cup {"absent"}],   \* external_path, by session
              defs : SUBSET Defs, tagged : SUBSET (Flows \X Defs), version : Versions]
Fresh == [flows |-> [f \in Flows |-> "absent"], blobs |-> [b \in Bodies |-> "absent"],
          defs |-> {}, tagged |-> {}, version |-> "current"]
NoFiles == [b \in Bodies |-> "absent"]
Idle == [op |-> "idle", at |-> "idle", sid |-> None, g |-> None, f |-> None,
         b |-> None, d |-> None]

Busy(s) == {p \in Calls : call[p].sid = s}

InUse == {file[s] : s \in Sids} \cup {pool[s] : s \in Sids} \cup {call[p].g : p \in Calls}
NextGen == CHOOSE g \in Gens \ InUse : TRUE

At(p, op, at) == call[p].op \in op /\ call[p].at = at
Goto(p, at) == call' = [call EXCEPT ![p].at = at]
Return(p) == call' = [call EXCEPT ![p] = Idle]

-----------------------------------------------------------------------------
(* A data root an earlier run of some gateway left: one recorded session in *)
(* whatever schema that gateway wrote, or nothing.                          *)
Recorded(s, f, b, v) ==
    [Fresh EXCEPT !.flows[f] = b, !.blobs[b] = s, !.version = v]

Init ==
    /\ \E s \in Sids, f \in Flows, b \in Bodies, v \in Versions, st \in {"none", "open", "closed"} :
        /\ st # "closed" => v = "current"
        /\ s = CHOOSE t \in Sids : TRUE
        /\ f = CHOOSE e \in Flows : TRUE
        /\ b = CHOOSE c \in Bodies : TRUE
        /\ row = [t \in Sids |-> IF t = s THEN st ELSE "none"]
        /\ file = [t \in Sids |-> IF t = s /\ st # "none" THEN 1 ELSE None]
        /\ db = [g \in Gens |-> IF g = 1 /\ st # "none" THEN Recorded(s, f, b, v) ELSE Fresh]
        /\ spill = [t \in Sids |-> [c \in Bodies |->
                        IF t = s /\ c = b /\ st # "none" THEN "whole" ELSE "absent"]]
    /\ catalog = {Favorite}
    /\ pool = [s \in Sids |-> None]
    /\ shut = {}
    /\ call = [p \in Calls |-> Idle]
    /\ archive = None
    /\ begun = 0 /\ faults = 0
    /\ contended = {}

(* Beginning a call.  A deletion or an import that overlaps another call on *)
(* the same session, a call on a session the catalog does not have, or the  *)
(* import of an archive of such a session is remembered: the code promises  *)
(* nothing about those, and what happens to them is stated apart.           *)
Destroys == {"delete", "import"}
Overlaps(op, s) ==
    \/ op \notin {"create", "import"} /\ row[s] = "none"
    \/ op = "import" /\ archive.sid \in contended
    \/ \E p \in Busy(s) : op \in Destroys \/ call[p].op \in Destroys

FirstStep(op) == CASE op = "create" -> "insert" [] op = "finish" -> "update"
                   [] op = "delete" -> "check"  [] op = "export" -> "row"
                   [] op = "import" -> "exists" [] op = "query"  -> "stat"
                   [] OTHER -> "open"

Begin(p, op, s, f, b, d) ==
    /\ call[p] = Idle /\ begun < MaxCalls
    /\ begun' = begun + 1
    /\ call' = [call EXCEPT ![p] = [op |-> op, at |-> FirstStep(op), sid |-> s,
                                    g |-> None, f |-> f, b |-> b, d |-> d]]
    /\ contended' = IF Overlaps(op, s) THEN contended \cup {s} ELSE contended
    /\ UNCHANGED <<data, faults>>

(* InsertFlowWrites of one flow, with its body or (BodiesPending) without.  *)
BeginWrite(p) == \E s \in Sids, f \in Flows, b \in Bodies \cup {None} :
                    Begin(p, "write", s, f, b, None)
BeginDrop(p) == \E s \in Sids, f \in Flows : Begin(p, "drop", s, f, None, None)
BeginAnnotate(p) == \E s \in Sids, f \in Flows, d \in Defs, op \in {"tag", "untag"} :
                    Begin(p, op, s, f, None, d)
BeginToggle(p) == \E s \in Sids, f \in Flows : Begin(p, "toggle", s, f, None, Favorite)
(* One statement, or one transaction, on the bundle whose rows no property   *)
(* tells apart: the reads, marks, comments, the undecoded index.            *)
BeginPlain(p) == \E s \in Sids, op \in {"plain", "query", "finish", "delete"} :
                    Begin(p, op, s, None, None, None)
(* Bound: one archive at a time is written or read.                         *)
Archiving == \E p \in Calls : call[p].op = "export"
BeginExport(p) == /\ ~Archiving /\ \A q \in Calls : call[q].op # "import"
                  /\ \E s \in Sids : Begin(p, "export", s, None, None, None)
(* A fresh id is a UUID: no other session has it.                           *)
Unused(s) == row[s] = "none" /\ file[s] = None /\ Busy(s) = {} /\ s \notin contended
BeginCreate(p) == \E s \in Sids : Unused(s) /\ Begin(p, "create", s, None, None, None)
(* Import under the archive's own id, or (NewID) under a fresh one.         *)
BeginImport(p) == /\ archive # None /\ archive.done /\ ~Archiving
                  /\ \E s \in Sids : /\ (s = archive.sid \/ Unused(s))
                                     /\ Begin(p, "import", s, None, None, None)

-----------------------------------------------------------------------------
(* sessionDB, under Store.mu: the pooled handle, or the bundle opened,      *)
(* created when it is not there, migrated and validated.                    *)
Migrated(v) == IF v = "old" THEN "current" ELSE v
Usable(op, v) == (Migrated(v) = "current") \/ (op = "query" /\ v = "outdated")

AfterOpen(c) ==
    CASE c.op = "write" -> IF c.b = None THEN "commit" ELSE "spill"
      [] c.op \in {"tag", "toggle"} -> "mirror"
      [] c.op \in {"untag", "drop"} -> "commit"
      [] c.op = "export" -> "snapshot"
      [] c.op = "import" -> "merge"
      [] OTHER -> "select"

Holding(p, g) == call' = [call EXCEPT ![p].g = g, ![p].at = AfterOpen(call[p])]

OpenPooled(p) ==
    /\ call[p].at = "open" /\ pool[call[p].sid] # None
    /\ Holding(p, pool[call[p].sid])
    /\ UNCHANGED <<data, begun, faults, contended>>

OpenCreates(p) ==
    LET s == call[p].sid IN
    /\ call[p].at = "open" /\ pool[s] = None /\ file[s] = None
    /\ file' = [file EXCEPT ![s] = NextGen]
    /\ db' = [db EXCEPT ![NextGen] = Fresh]
    /\ shut' = shut \ {NextGen}
    /\ pool' = [pool EXCEPT ![s] = NextGen]
    /\ IF call[p].op = "create" THEN Return(p) ELSE Holding(p, NextGen)
    /\ UNCHANGED <<row, catalog, spill, archive, begun, faults, contended>>

OpenFile(p) ==
    LET s == call[p].sid  g == file[s] IN
    /\ call[p].at = "open" /\ pool[s] = None /\ g # None
    /\ db' = [db EXCEPT ![g].version = Migrated(@)]
    /\ pool' = IF Migrated(db[g].version) = "current" THEN [pool EXCEPT ![s] = g] ELSE pool
    /\ shut' = shut \ {g}
    /\ IF Usable(call[p].op, db[g].version) THEN Holding(p, g) ELSE Return(p)
    /\ UNCHANGED <<row, catalog, file, spill, archive, begun, faults, contended>>

(* A statement on a handle that was closed under its caller fails.          *)
OnHandle(p) == call[p].g \notin shut
HandleClosed(p) ==
    /\ call[p].at \in {"mirror", "commit", "merge", "snapshot", "select", "look"}
    /\ ~OnHandle(p)
    /\ Return(p)
    /\ UNCHANGED <<data, begun, faults, contended>>

-----------------------------------------------------------------------------
(* CreateSession: the catalog row, then the bundle.                         *)
InsertRow(p) ==
    /\ At(p, {"create"}, "insert")
    /\ IF row[call[p].sid] = "none"
       THEN row' = [row EXCEPT ![call[p].sid] = "open"] /\ Goto(p, "open")
       ELSE row' = row /\ Return(p)
    /\ UNCHANGED <<catalog, file, db, spill, pool, shut, archive, begun, faults, contended>>

(* FinishSession: the catalog row; the checkpoint that follows moves no row *)
(* of the bundle.                                                           *)
UpdateRow(p) ==
    /\ At(p, {"finish"}, "update")
    /\ row' = [row EXCEPT ![call[p].sid] = IF @ = "none" THEN @ ELSE "closed"]
    /\ Return(p)
    /\ UNCHANGED <<catalog, file, db, spill, pool, shut, archive, begun, faults, contended>>

(* storeBlob of a body above InlineBlobMax: os.WriteFile truncates what is   *)
(* there, then writes.                                                      *)
Truncate(p) ==
    /\ At(p, {"write"}, "spill")
    /\ spill' = [spill EXCEPT ![call[p].sid][call[p].b] = "torn"]
    /\ Goto(p, "spilled")
    /\ UNCHANGED <<row, catalog, file, db, pool, shut, archive, begun, faults, contended>>

FillFile(p) ==
    /\ At(p, {"write"}, "spilled")
    /\ spill' = [spill EXCEPT ![call[p].sid][call[p].b] = IF @ = "torn" THEN "whole" ELSE @]
    /\ Goto(p, "commit")
    /\ UNCHANGED <<row, catalog, file, db, pool, shut, archive, begun, faults, contended>>

(* The disk is full: the transaction is rolled back, the file stays torn.   *)
FillFails(p) ==
    /\ At(p, {"write"}, "spilled") /\ faults < MaxFaults
    /\ faults' = faults + 1
    /\ Return(p)
    /\ UNCHANGED <<data, begun, contended>>

(* The rows of the flow and its blob, in one transaction; a blob row that   *)
(* is there already is left alone (INSERT OR IGNORE).                       *)
InsertFlow(p) ==
    LET g == call[p].g  b == call[p].b IN
    /\ At(p, {"write"}, "commit") /\ OnHandle(p)
    /\ db' = [db EXCEPT
           ![g].flows[call[p].f] = IF b = None THEN "bodiless" ELSE b,
           ![g].blobs = [c \in Bodies |-> IF c = b /\ @[c] = "absent"
                                          THEN call[p].sid ELSE @[c]]]
    /\ Return(p)
    /\ UNCHANGED <<row, catalog, file, spill, pool, shut, archive, begun, faults, contended>>

(* DeleteFlowsByConnection: the flow's rows go, its blob and its            *)
(* annotations stay.                                                        *)
DropFlow(p) ==
    /\ At(p, {"drop"}, "commit") /\ OnHandle(p)
    /\ db' = [db EXCEPT ![call[p].g].flows[call[p].f] = "absent"]
    /\ Return(p)
    /\ UNCHANGED <<row, catalog, file, spill, pool, shut, archive, begun, faults, contended>>

-----------------------------------------------------------------------------
(* Definitions live in the catalog; the built-in one cannot be deleted.     *)
Define(d) ==
    /\ d \notin catalog /\ begun < MaxCalls
    /\ catalog' = catalog \cup {d} /\ begun' = begun + 1
    /\ UNCHANGED <<row, file, db, spill, pool, shut, archive, call, faults, contended>>
Undefine(d) ==
    /\ d \in catalog \ {Favorite} /\ begun < MaxCalls
    /\ catalog' = catalog \ {d} /\ begun' = begun + 1
    /\ UNCHANGED <<row, file, db, spill, pool, shut, archive, call, faults, contended>>

(* SetTags and SetGroups copy each definition into the bundle first, a      *)
(* statement of its own; a definition the catalog does not have is refused. *)
MirrorKnown(p) ==              \* mutant: an unknown definition is skipped, not refused
    LET d == call[p].d IN
    /\ At(p, {"tag", "toggle"}, "mirror") /\ OnHandle(p)
    /\ db' = [db EXCEPT ![call[p].g].defs = IF d \in catalog THEN @ \cup {d} ELSE @]
    /\ Goto(p, IF call[p].op = "toggle" THEN "look" ELSE "commit")
    /\ UNCHANGED <<row, catalog, file, spill, pool, shut, archive, begun, faults, contended>>
Mirror(p) ==
    LET d == call[p].d IN
    /\ At(p, {"tag", "toggle"}, "mirror") /\ OnHandle(p)
    /\ IF d \in catalog
       THEN /\ db' = [db EXCEPT ![call[p].g].defs = @ \cup {d}]
            /\ Goto(p, IF call[p].op = "toggle" THEN "look" ELSE "commit")
       ELSE db' = db /\ Return(p)
    /\ UNCHANGED <<row, catalog, file, spill, pool, shut, archive, begun, faults, contended>>

(* ToggleFavorite reads whether the record has the tag and calls SetTags,    *)
(* which opens and mirrors again.                                           *)
Look(p) ==
    /\ At(p, {"toggle"}, "look") /\ OnHandle(p)
    /\ LET has == <<call[p].f, Favorite>> \in db[call[p].g].tagged IN
       call' = [call EXCEPT ![p].op = IF has THEN "untag" ELSE "tag", ![p].at = "open"]
    /\ UNCHANGED <<data, begun, faults, contended>>

Assign(p) ==
    LET c == call[p] IN
    /\ At(p, {"tag", "untag"}, "commit") /\ OnHandle(p)
    /\ db' = [db EXCEPT ![c.g].tagged = IF c.op = "tag" THEN @ \cup {<<c.f, c.d>>}
                                                        ELSE @ \ {<<c.f, c.d>>}]
    /\ Return(p)
    /\ UNCHANGED <<row, catalog, file, spill, pool, shut, archive, begun, faults, contended>>

(* QuerySQL looks for the file before it opens it.                          *)
Select(p) ==
    /\ At(p, {"create", "plain", "query"}, "select") /\ OnHandle(p)
    /\ Return(p)
    /\ UNCHANGED <<data, begun, faults, contended>>
Stat(p) ==
    /\ At(p, {"query"}, "stat")
    /\ IF file[call[p].sid] = None THEN Return(p) ELSE Goto(p, "open")
    /\ UNCHANGED <<data, begun, faults, contended>>

-----------------------------------------------------------------------------
(* DeleteSession: the status, the pooled handle, the catalog row, the files.*)
CheckClosed(p) ==
    /\ At(p, {"delete"}, "check")
    /\ IF row[call[p].sid] = "closed" THEN Goto(p, "handle") ELSE Return(p)
    /\ UNCHANGED <<data, begun, faults, contended>>
DropHandle(p) ==
    LET s == call[p].sid IN
    /\ At(p, {"delete"}, "handle")
    /\ shut' = IF pool[s] = None THEN shut ELSE shut \cup {pool[s]}
    /\ pool' = [pool EXCEPT ![s] = None]
    /\ Goto(p, "row")
    /\ UNCHANGED <<row, catalog, file, db, spill, archive, begun, faults, contended>>
DeleteRow(p) ==
    /\ At(p, {"delete"}, "row")
    /\ row' = [row EXCEPT ![call[p].sid] = "none"]
    /\ Goto(p, "files")
    /\ UNCHANGED <<catalog, file, db, spill, pool, shut, archive, begun, faults, contended>>
Removed(s) == /\ file' = [file EXCEPT ![s] = None]
              /\ spill' = [spill EXCEPT ![s] = NoFiles]
RemoveDatabase(p) ==           \* mutant: only the database is removed
    /\ At(p, {"delete"}, "files")
    /\ file' = [file EXCEPT ![call[p].sid] = None]
    /\ Return(p)
    /\ UNCHANGED <<row, catalog, db, spill, pool, shut, archive, begun, faults, contended>>
RemoveAll(p) ==
    /\ At(p, {"delete"}, "files")
    /\ Removed(call[p].sid)
    /\ Return(p)
    /\ UNCHANGED <<row, catalog, db, pool, shut, archive, begun, faults, contended>>

-----------------------------------------------------------------------------
(* Export: the catalog row, a snapshot of the database, then every file in   *)
(* blobs/.                                                                  *)
ExportRow(p) ==
    LET s == call[p].sid IN
    /\ At(p, {"export"}, "row")
    /\ IF row[s] = "none" THEN Return(p) /\ archive' = archive
       ELSE /\ Goto(p, "open")
            /\ archive' = [sid |-> s, status |-> row[s], db |-> Fresh,
                           blobs |-> NoFiles, done |-> FALSE]
    /\ UNCHANGED <<row, catalog, file, db, spill, pool, shut, begun, faults, contended>>
Snapshot(p) ==
    /\ At(p, {"export"}, "snapshot") /\ OnHandle(p)
    /\ archive' = [archive EXCEPT !.db = db[call[p].g]]
    /\ Goto(p, "blobs")
    /\ UNCHANGED <<row, catalog, file, db, spill, pool, shut, begun, faults, contended>>
CopyBlobs(p) ==
    /\ At(p, {"export"}, "blobs")
    /\ archive' = [archive EXCEPT !.blobs = spill[call[p].sid], !.done = TRUE]
    /\ Return(p)
    /\ UNCHANGED <<row, catalog, file, db, spill, pool, shut, begun, faults, contended>>

(* Import: the id must be free; the files are written under sessions/<id>;  *)
(* under a fresh id the rows are rebound to it; the catalog row; and last    *)
(* the definitions, which any failure before would have cleaned up after.   *)
CheckFree(p) ==
    /\ At(p, {"import"}, "exists")
    /\ IF row[call[p].sid] = "none" THEN Goto(p, "extract") ELSE Return(p)
    /\ UNCHANGED <<data, begun, faults, contended>>

(* os.Create truncates a database that is there already, in place.          *)
ExtractDb(p) ==
    LET s == call[p].sid  g == IF file[s] = None THEN NextGen ELSE file[s] IN
    /\ At(p, {"import"}, "extract")
    /\ file' = [file EXCEPT ![s] = g]
    /\ db' = [db EXCEPT ![g] = archive.db]
    /\ shut' = IF file[s] = None THEN shut \ {g} ELSE shut
    /\ Goto(p, "extractblobs")
    /\ UNCHANGED <<row, catalog, spill, pool, archive, begun, faults, contended>>

ExtractBlobs(p) ==
    LET s == call[p].sid IN
    /\ At(p, {"import"}, "extractblobs")
    /\ spill' = [spill EXCEPT ![s] = [b \in Bodies |->
                    IF archive.blobs[b] = "absent" THEN @[b] ELSE archive.blobs[b]]]
    /\ Goto(p, IF s = archive.sid THEN "register" ELSE "rebind")
    /\ UNCHANGED <<row, catalog, file, db, pool, shut, archive, begun, faults, contended>>

(* RewriteSessionID: REPLACE of the old id's prefix in every external path.  *)
RebindRowsOnly(p) ==           \* mutant: the external paths keep the old id
    /\ At(p, {"import"}, "rebind") /\ file[call[p].sid] # None
    /\ Goto(p, "register")
    /\ UNCHANGED <<data, begun, faults, contended>>
Rebind(p) ==
    LET s == call[p].sid  g == file[s] IN
    /\ At(p, {"import"}, "rebind") /\ g # None
    /\ db' = [db EXCEPT ![g].blobs = [b \in Bodies |->
                    IF @[b] = archive.sid THEN s ELSE @[b]]]
    /\ Goto(p, "register")
    /\ UNCHANGED <<row, catalog, file, spill, pool, shut, archive, begun, faults, contended>>

(* ImportSessionRow; a row that appeared meanwhile makes it fail, and        *)
(* cleanup removes the directory.                                           *)
Register(p) ==
    LET s == call[p].sid IN
    /\ At(p, {"import"}, "register") /\ row[s] = "none"
    /\ row' = [row EXCEPT ![s] = archive.status]
    /\ Goto(p, "open")
    /\ UNCHANGED <<catalog, file, db, spill, pool, shut, archive, begun, faults, contended>>

Cleanup(p) ==
    LET s == call[p].sid IN
    /\ \/ At(p, {"import"}, "register") /\ row[s] # "none" /\ faults' = faults
       \/ At(p, {"import"}, "rebind") /\ file[s] = None /\ faults' = faults
       \/ /\ At(p, {"import"}, "extractblobs") /\ faults < MaxFaults
          /\ faults' = faults + 1                    \* a cut or damaged upload
    /\ Removed(s)
    /\ Return(p)
    /\ UNCHANGED <<row, catalog, db, pool, shut, archive, begun, contended>>

(* MergeBundleDefsIntoCatalog: what is in the catalog already wins.         *)
Merge(p) ==
    /\ At(p, {"import"}, "merge") /\ OnHandle(p)
    /\ catalog' = catalog \cup db[call[p].g].defs
    /\ Return(p)
    /\ UNCHANGED <<row, file, db, spill, pool, shut, archive, begun, faults, contended>>

-----------------------------------------------------------------------------
(* The gateway is killed: handles and calls are gone, committed rows and     *)
(* files are not (WAL with synchronous=NORMAL).                             *)
Crash ==
    /\ faults < MaxFaults
    /\ faults' = faults + 1
    /\ call' = [p \in Calls |-> Idle]
    /\ pool' = [s \in Sids |-> None]
    /\ shut' = {}
    /\ archive' = IF archive # None /\ ~archive.done THEN None ELSE archive
    /\ UNCHANGED <<row, catalog, file, db, spill, begun, contended>>

Next ==
    \/ \E p \in Calls :
        \/ BeginWrite(p) \/ BeginDrop(p) \/ BeginAnnotate(p) \/ BeginToggle(p)
        \/ BeginPlain(p) \/ BeginExport(p)
        \/ BeginCreate(p) \/ BeginImport(p)
        \/ OpenPooled(p) \/ OpenCreates(p) \/ OpenFile(p) \/ HandleClosed(p)
        \/ InsertRow(p) \/ UpdateRow(p)
        \/ Truncate(p) \/ FillFile(p) \/ FillFails(p) \/ InsertFlow(p) \/ DropFlow(p)
        \/ Mirror(p) \/ Look(p) \/ Assign(p) \/ Select(p) \/ Stat(p)
        \/ CheckClosed(p) \/ DropHandle(p) \/ DeleteRow(p) \/ RemoveAll(p)
        \/ ExportRow(p) \/ Snapshot(p) \/ CopyBlobs(p)
        \/ CheckFree(p) \/ ExtractDb(p) \/ ExtractBlobs(p) \/ Rebind(p)
        \/ Register(p) \/ Cleanup(p) \/ Merge(p)
    \/ \E d \in Defs : Define(d) \/ Undefine(d)
    \/ Crash

Spec == Init /\ [][Next]_vars

-----------------------------------------------------------------------------
TypeOK ==
    /\ row \in [Sids -> {"none", "open", "closed"}]
    /\ catalog \subseteq Defs /\ Favorite \in catalog
    /\ file \in [Sids -> Gens \cup {None}] /\ pool \in [Sids -> Gens \cup {None}]
    /\ db \in [Gens -> Databases]
    /\ spill \in [Sids -> [Bodies -> {"absent", "torn", "whole"}]]
    /\ shut \subseteq Gens
    /\ (archive = None) \/ (archive.sid \in Sids /\ archive.db \in Databases)

Settled(s) == row[s] # "none" /\ s \notin contended
Refs(g) == {b \in Bodies : \E f \in Flows : db[g].flows[f] = b}

(* A committed reference to a spilled body leads to a file of the same       *)
(* session, whatever failed on the way, however the session got here         *)
(* (recorded, imported under its own id or a fresh one) and whatever was     *)
(* deleted since (storeBlob, RewriteSessionID, RemoveAll).                  *)
BlobPresent ==
    \A s \in Sids : Settled(s) /\ file[s] # None =>
        \A b \in Refs(file[s]) : db[file[s]].blobs[b] = s /\ spill[s][b] # "absent"

(* An archive holds every body its snapshot refers to: the files are copied  *)
(* after the snapshot, and no blob is ever deleted (Export).                *)
ArchiveComplete ==
    archive # None /\ archive.done /\ archive.sid \notin contended =>
        \A f \in Flows, b \in Bodies :
            archive.db.flows[f] = b => archive.blobs[b] # "absent"

(* A bundle can name every tag and group it assigns, so it renders away from *)
(* the catalog, also when the gateway dies between the statements (SetTags). *)
TagsNamed ==
    \A s \in Sids : Settled(s) /\ file[s] # None =>
        \A f \in Flows, d \in Defs :
            <<f, d>> \in db[file[s]].tagged => d \in db[file[s]].defs

(* A bundle can leave the gateway: its archive brings the bodies of all rows *)
(* and the names of all tags (Export, SetTags, mirrorTag).                  *)
BundleStandsAlone == TypeOK /\ ArchiveComplete /\ TagsNamed

(* The pool never serves a database other than the one at the session's      *)
(* path, nor one it could misread (sessionDB, DeleteSession).               *)
PoolHonest ==
    \A s \in Sids : s \notin contended /\ pool[s] # None =>
        /\ pool[s] = file[s] /\ pool[s] \notin shut
        /\ db[pool[s]].version = "current"

(* The catalog and the disk name the same sessions once no call is at work   *)
(* on one and no fault struck (CreateSession, DeleteSession, Import).       *)
CatalogMatchesDisk ==
    \A s \in Sids \ contended : Busy(s) = {} /\ faults = 0 =>
        (row[s] = "none") <=> (file[s] = None /\ spill[s] = NoFiles)

(* Catalog, pool and directory tell one story of a session: what is listed   *)
(* exists, and what is served is what the directory holds.                  *)
OneStory == PoolHonest /\ CatalogMatchesDisk

-----------------------------------------------------------------------------
(* What the code does not give; each of these is violated.                  *)

(* A body is always whole on disk: writing the same large body again         *)
(* truncates the file an earlier flow refers to (store.go:479).             *)
AlwaysWhole ==
    \A s \in Sids : Settled(s) /\ file[s] # None /\ faults = 0 =>
        \A b \in Refs(file[s]) : spill[s][b] = "whole"

(* So an export can copy half a body (bundle.go:101).                       *)
ArchiveWhole ==
    archive # None /\ archive.done /\ archive.sid \notin contended =>
        \A f \in Flows, b \in Bodies :
            archive.db.flows[f] = b => archive.blobs[b] = "whole" \/ faults > 0

(* A deleted session stays deleted: a late call makes its directory again    *)
(* (store.go:93).                                                           *)
DeletedStaysGone ==
    \A s \in Sids : Busy(s) = {} /\ row[s] = "none" /\ faults = 0 => file[s] = None

(* A listed session has its bundle: of two imports of the same id the one    *)
(* that loses removes the winner's files (bundle.go:189).                   *)
ListedHasBundle ==
    \A s \in Sids : Busy(s) = {} /\ row[s] # "none" /\ faults = 0 => file[s] # None

(* An imported session is never open: no capture feeds it and it cannot be   *)
(* deleted, yet the manifest's status is kept (bundle.go:188).              *)
ImportedIsClosed ==
    \A p \in Calls : At(p, {"import"}, "open") => row[call[p].sid] # "open"
=============================================================================
