------------------------- MODULE SessionBundleProofs -------------------------
(* That catalog, pool, directory and archive stay of one mind about a session *)
(* no deletion or import was raced for, for any number of sessions, flows,    *)
(* bodies, definitions and concurrent calls, and whatever fails on the way.   *)
EXTENDS SessionBundle, FiniteSetTheorems, FunctionTheorems, TLAPS

-----------------------------------------------------------------------------
(* Types: what a call has in hand at its steps.                              *)

\* The steps that work on a database handle.
Held == {"mirror", "commit", "merge", "snapshot", "select", "look", "spill", "spilled", "blobs"}

Ops == {"idle", "write", "drop", "tag", "untag", "toggle", "plain", "query", "finish", "delete",
        "create", "export", "import"}
Ats == Held \cup {"idle", "open", "insert", "update", "check", "handle", "row", "files", "exists",
                  "extract", "extractblobs", "rebind", "register", "stat"}

CallRecords == [op : Ops, at : Ats, sid : Sids \cup {None}, g : Gens \cup {None},
                f : Flows \cup {None}, b : Bodies \cup {None}, d : Defs \cup {None}]

\* A call has a session and what its next step works with; it keeps a handle only to
\* open the bundle again.
CallOK(c) ==
    \/ c = Idle
    \/ /\ c.sid \in Sids
       /\ c.at \in Held => c.g # None
       /\ c.g # None => c.at \in Held \cup {"open"}
       /\ c.op \in {"write", "drop", "tag", "untag", "toggle"} => c.f \in Flows
       /\ c.op \in {"tag", "untag", "toggle"} => c.d \in Defs
       /\ c.op = "toggle" => c.d = Favorite
       /\ c.at \in {"spill", "spilled"} => c.b \in Bodies

Archives == [sid : Sids, status : {"open", "closed"}, db : Databases,
             blobs : [Bodies -> {"absent", "torn", "whole"}], done : BOOLEAN]

TypeInv ==
    /\ TypeOK
    /\ call \in [Calls -> CallRecords] /\ \A p \in Calls : CallOK(call[p])
    /\ archive = None \/ archive \in Archives
    /\ contended \subseteq Sids
    /\ begun \in Nat /\ faults \in Nat

\* The archive is written by one export at a time, and read only when it is done.
OneArchive ==
    /\ \A p, q \in Calls : call[p].op = "export" /\ call[q].op \in {"export", "import"} => p = q
    /\ \A p \in Calls : call[p].op = "export" /\ call[p].at # "row" =>
          archive \in Archives /\ archive.sid = call[p].sid /\ ~archive.done
    /\ \A p \in Calls : call[p].op = "import" => archive \in Archives /\ archive.done

\* There is always a number left for a new database.
LEMMA NextGenIsFree ==
    ASSUME TypeInv, NEW p \in Calls
    PROVE  /\ NextGen \in Gens
           /\ \A s \in Sids : file[s] # NextGen /\ pool[s] # NextGen
           /\ \A q \in Calls : call[q].g # NextGen
<1> DEFINE F == {file[s] : s \in Sids}
           P == {pool[s] : s \in Sids}
           C == {call[q].g : q \in Calls}
           n == Cardinality(Sids)
           m == Cardinality(Calls)
<1>1. IsFiniteSet(Sids) /\ IsFiniteSet(Calls)
  BY StoreAssumption
<1>2. n \in Nat /\ m \in Nat /\ m # 0
  BY <1>1, FS_CardinalityType, FS_EmptySet
<1>3. IsFiniteSet(F) /\ Cardinality(F) <= n
  <2> DEFINE h == [s \in Sids |-> file[s]]
  <2>1. h \in Surjection(Sids, F)
    BY DEF Surjection
  <2> HIDE DEF h
  <2> QED BY <1>1, <2>1, FS_Surjection
<1>4. IsFiniteSet(P) /\ Cardinality(P) <= n
  <2> DEFINE h == [s \in Sids |-> pool[s]]
  <2>1. h \in Surjection(Sids, P)
    BY DEF Surjection
  <2> HIDE DEF h
  <2> QED BY <1>1, <2>1, FS_Surjection
<1>5. IsFiniteSet(C) /\ Cardinality(C) <= m
  <2> DEFINE h == [q \in Calls |-> call[q].g]
  <2>1. h \in Surjection(Calls, C)
    BY DEF Surjection
  <2> HIDE DEF h
  <2> QED BY <1>1, <2>1, FS_Surjection
<1> HIDE DEF F, P, C
<1>6. IsFiniteSet(F \cup P) /\ Cardinality(F \cup P) <= n + n
  <2>1. IsFiniteSet(F \cup P)
    BY <1>3, <1>4, FS_Union
  <2>2. Cardinality(F \cup P) = Cardinality(F) + Cardinality(P) - Cardinality(F \cap P)
    BY <1>3, <1>4, FS_Union
  <2>3. IsFiniteSet(F \cap P)
    BY <1>3, FS_Intersection
  <2>4. /\ Cardinality(F) \in Nat /\ Cardinality(P) \in Nat /\ Cardinality(F \cap P) \in Nat
    BY <1>3, <1>4, <2>3, FS_CardinalityType
  <2> QED BY <1>2, <1>3, <1>4, <2>1, <2>2, <2>4
<1>7. IsFiniteSet(F \cup P \cup C) /\ Cardinality(F \cup P \cup C) <= n + n + m
  <2> DEFINE D == F \cup P
  <2>0. IsFiniteSet(D) /\ Cardinality(D) <= n + n
    BY <1>6
  <2> HIDE DEF D
  <2>1. IsFiniteSet(D \cup C)
    BY <1>5, <2>0, FS_Union
  <2>2. Cardinality(D \cup C) = Cardinality(D) + Cardinality(C) - Cardinality(D \cap C)
    BY <1>5, <2>0, FS_Union
  <2>3. IsFiniteSet(D \cap C)
    BY <1>5, <2>0, FS_Intersection
  <2>4. /\ Cardinality(D) \in Nat /\ Cardinality(C) \in Nat /\ Cardinality(D \cap C) \in Nat
    BY <1>5, <2>0, <2>3, FS_CardinalityType
  <2>5. Cardinality(D \cup C) <= n + n + m
    BY <1>2, <1>5, <2>0, <2>2, <2>4
  <2> QED BY <2>1, <2>5 DEF D
<1>8. Cardinality(Gens) = 2 * n + 2 * m
  <2>1. 2 * n + 2 * m \in Int /\ 1 \in Int /\ ~(1 > 2 * n + 2 * m)
    BY <1>2
  <2>2. Cardinality(1..(2 * n + 2 * m)) = 2 * n + 2 * m
    <3> DEFINE k == 2 * n + 2 * m
    <3>1. k \in Int /\ ~(1 > k) /\ k - 1 + 1 = k
      BY <1>2
    <3> HIDE DEF k
    <3> QED BY <3>1, FS_Interval DEF k
  <2> QED BY <2>2 DEF Gens
<1>9. Gens \ InUse # {}
  <2> SUFFICES ASSUME Gens \ InUse = {} PROVE FALSE
    OBVIOUS
  <2>1. Gens \in SUBSET (F \cup P \cup C)
    BY DEF InUse, F, P, C
  <2>2. Cardinality(Gens) <= Cardinality(F \cup P \cup C)
    BY <1>7, <2>1, FS_Subset
  <2>3. Cardinality(F \cup P \cup C) \in Nat
    BY <1>7, FS_CardinalityType
  <2> QED BY <1>2, <1>7, <1>8, <2>2, <2>3
<1>10. NextGen \in Gens \ InUse
  BY <1>9 DEF NextGen
<1> QED BY <1>10 DEF InUse

-----------------------------------------------------------------------------
(* Type correctness.                                                         *)

\* A call that goes on, and one that returns.
LEMMA CallGoes ==
    ASSUME TypeInv, NEW p \in Calls, NEW c \in CallRecords, CallOK(c),
           call' = [call EXCEPT ![p] = c]
    PROVE  call' \in [Calls -> CallRecords] /\ \A q \in Calls : CallOK(call'[q])
  BY DEF TypeInv

\* A slot with no call in it is well-typed.
LEMMA IdleOK == Idle \in CallRecords /\ CallOK(Idle)
  BY DEF Idle, CallRecords, CallOK, Ops, Ats

\* A call that goes on with what it has in hand.
LEMMA GotoOK ==
    ASSUME TypeInv, NEW p \in Calls, NEW at \in Ats, Goto(p, at), call[p].sid \in Sids,
           at \in Held => call[p].g # None,
           call[p].g # None => at \in Held,
           at \in {"spill", "spilled"} => call[p].b \in Bodies
    PROVE  call' \in [Calls -> CallRecords] /\ \A q \in Calls : CallOK(call'[q])
<1> DEFINE c == [call[p] EXCEPT !.at = at]
<1>1. call' = [call EXCEPT ![p] = c]
  BY DEF Goto, TypeInv
<1>2. call[p] \in CallRecords /\ CallOK(call[p]) /\ call[p] # Idle
  BY StoreAssumption DEF TypeInv, Idle
<1>3. /\ c.op = call[p].op /\ c.at = at /\ c.sid = call[p].sid /\ c.g = call[p].g
      /\ c.f = call[p].f /\ c.b = call[p].b /\ c.d = call[p].d /\ c \in CallRecords
  BY <1>2 DEF CallRecords
<1> HIDE DEF c
<1>4. CallOK(c)
  BY <1>2, <1>3 DEF CallOK
<1> QED BY <1>1, <1>3, <1>4, CallGoes

\* A call that returns leaves its slot free.
LEMMA ReturnOK ==
    ASSUME TypeInv, NEW p \in Calls, Return(p)
    PROVE  call' \in [Calls -> CallRecords] /\ \A q \in Calls : CallOK(call'[q])
  BY CallGoes, IdleOK DEF Return

\* A call that is somewhere has a session.
LEMMA Somewhere ==
    ASSUME TypeInv, NEW p \in Calls, call[p].at # "idle"
    PROVE  /\ call[p] \in CallRecords /\ call[p] # Idle /\ call[p].sid \in Sids
           /\ call[p].at \in Held => call[p].g \in Gens
           /\ call[p].at \notin Held \cup {"open"} => call[p].g = None
           /\ call[p].op \in {"write", "drop", "tag", "untag", "toggle"} => call[p].f \in Flows
           /\ call[p].op \in {"tag", "untag", "toggle"} => call[p].d \in Defs
           /\ call[p].op = "toggle" => call[p].d = Favorite
           /\ call[p].at \in {"spill", "spilled"} => call[p].b \in Bodies
           /\ call[p].b \in Bodies \cup {None}
  BY DEF TypeInv, CallOK, Idle, CallRecords

\* A call that has opened the bundle goes on with it.
LEMMA HoldingOK ==
    ASSUME TypeInv, NEW p \in Calls, NEW g \in Gens, call[p].at = "open", Holding(p, g)
    PROVE  call' \in [Calls -> CallRecords] /\ \A q \in Calls : CallOK(call'[q])
<1> DEFINE c == [call[p] EXCEPT !.g = g, !.at = AfterOpen(call[p])]
<1>1. call' = [call EXCEPT ![p] = c]
  BY DEF Holding, TypeInv
<1>2. /\ call[p] \in CallRecords /\ call[p].sid \in Sids /\ CallOK(call[p]) /\ call[p] # Idle
      /\ g # None
  BY Somewhere, StoreAssumption DEF TypeInv, Gens
<1>3. /\ AfterOpen(call[p]) \in Held
      /\ AfterOpen(call[p]) \in {"spill", "spilled"} => call[p].b \in Bodies
  BY <1>2 DEF AfterOpen, Held, CallRecords
<1>4. AfterOpen(call[p]) \in Ats
  BY DEF AfterOpen, Ats, Held
<1>5. /\ c.op = call[p].op /\ c.at = AfterOpen(call[p]) /\ c.sid = call[p].sid /\ c.g = g
      /\ c.f = call[p].f /\ c.b = call[p].b /\ c.d = call[p].d /\ c \in CallRecords
  BY <1>2, <1>4 DEF CallRecords
<1> HIDE DEF c
<1>6. CallOK(c)
  BY <1>2, <1>3, <1>5 DEF CallOK
<1> QED BY <1>1, <1>5, <1>6, CallGoes

\* A call that begins.
LEMMA BeginOK ==
    ASSUME TypeInv, NEW p \in Calls, NEW op \in Ops \ {"idle"}, NEW s \in Sids,
           NEW f \in Flows \cup {None},
           NEW b \in Bodies \cup {None}, NEW d \in Defs \cup {None}, Begin(p, op, s, f, b, d),
           op \in {"write", "drop", "tag", "untag", "toggle"} => f \in Flows,
           op \in {"tag", "untag", "toggle"} => d \in Defs,
           op = "toggle" => d = Favorite
    PROVE  TypeInv'
<1> DEFINE c == [op |-> op, at |-> FirstStep(op), sid |-> s, g |-> None, f |-> f, b |-> b, d |-> d]
<1>1. call' = [call EXCEPT ![p] = c] /\ begun' = begun + 1
      /\ UNCHANGED <<row, catalog, file, db, spill, pool, shut, archive, faults>>
  BY DEF Begin, data
<1>2. FirstStep(op) \in Ats /\ FirstStep(op) \notin Held
  BY DEF FirstStep, Held, Ats
<1>3. c \in CallRecords /\ CallOK(c)
  <2>1. c \in CallRecords
    BY <1>2 DEF CallRecords
  <2>2. FirstStep(op) \notin {"spill", "spilled"}
    BY <1>2 DEF Held
  <2>3. CallOK(c)
    BY <1>2, <2>2 DEF CallOK
  <2> QED BY <2>1, <2>3
<1>4. call' \in [Calls -> CallRecords] /\ \A q \in Calls : CallOK(call'[q])
  <2> HIDE DEF c
  <2> QED BY <1>1, <1>3, CallGoes
<1>5. contended' \subseteq Sids
  BY DEF Begin, TypeInv
<1> QED BY <1>1, <1>4, <1>5 DEF TypeInv, TypeOK

\* Every call begins that way.
LEMMA BeginsOK ==
    ASSUME TypeInv, NEW p \in Calls,
           BeginWrite(p) \/ BeginDrop(p) \/ BeginAnnotate(p) \/ BeginToggle(p) \/ BeginPlain(p)
             \/ BeginExport(p) \/ BeginCreate(p) \/ BeginImport(p)
    PROVE  TypeInv'
<1> USE StoreAssumption DEF Ops
<1>1. CASE BeginWrite(p)
  <2>1. PICK s \in Sids, f \in Flows, b \in Bodies \cup {None} : Begin(p, "write", s, f, b, None)
    BY <1>1 DEF BeginWrite
  <2>2. "write" \in Ops \ {"idle"} /\ None \in Defs \cup {None} /\ f \in Flows \cup {None}
    BY DEF Ops
  <2> QED BY <2>1, <2>2, BeginOK
<1>2. CASE BeginDrop(p)
  BY <1>2, BeginOK DEF BeginDrop
<1>3. CASE BeginAnnotate(p)
  BY <1>3, BeginOK DEF BeginAnnotate
<1>4. CASE BeginToggle(p)
  BY <1>4, BeginOK DEF BeginToggle
<1>5. CASE BeginPlain(p)
  BY <1>5, BeginOK DEF BeginPlain
<1>6. CASE BeginExport(p)
  BY <1>6, BeginOK DEF BeginExport
<1>7. CASE BeginCreate(p)
  BY <1>7, BeginOK DEF BeginCreate
<1>8. CASE BeginImport(p)
  BY <1>8, BeginOK DEF BeginImport
<1> QED BY <1>1, <1>2, <1>3, <1>4, <1>5, <1>6, <1>7, <1>8

\* The bundle is opened, or the handle is found closed.
LEMMA OpeningOK ==
    ASSUME TypeInv, NEW p \in Calls,
           OpenPooled(p) \/ OpenCreates(p) \/ OpenFile(p) \/ HandleClosed(p)
    PROVE  TypeInv'
<1> USE DEF data
<1>1. TypeOK /\ call[p].sid \in Sids
  <2>1. call[p].at # "idle"
    BY DEF OpenPooled, OpenCreates, OpenFile, HandleClosed
  <2> QED BY <2>1, Somewhere DEF TypeInv
<1>2. CASE OpenPooled(p)
  <2>1. pool[call[p].sid] \in Gens
    BY <1>1, <1>2 DEF OpenPooled, TypeOK
  <2> QED BY <1>2, <2>1, HoldingOK DEF OpenPooled, TypeInv, TypeOK
<1>3. CASE OpenCreates(p)
  <2>1. NextGen \in Gens
    BY NextGenIsFree
  <2>2. call' \in [Calls -> CallRecords] /\ \A q \in Calls : CallOK(call'[q])
    BY <1>3, <2>1, HoldingOK, ReturnOK DEF OpenCreates
  <2>3. Fresh \in Databases
    BY DEF Fresh, Databases, Versions
  <2>4. db' \in [Gens -> Databases] /\ file' \in [Sids -> Gens \cup {None}]
        /\ pool' \in [Sids -> Gens \cup {None}] /\ shut' \subseteq Gens
    BY <1>1, <1>3, <2>1, <2>3 DEF OpenCreates, TypeOK
  <2> QED BY <1>1, <1>3, <2>2, <2>4 DEF OpenCreates, TypeInv, TypeOK
<1>4. CASE OpenFile(p)
  <2> DEFINE g == file[call[p].sid]
  <2>1. g \in Gens
    BY <1>1, <1>4 DEF OpenFile, TypeOK
  <2>2. call' \in [Calls -> CallRecords] /\ \A q \in Calls : CallOK(call'[q])
    BY <1>4, <2>1, HoldingOK, ReturnOK DEF OpenFile
  <2>3. db' \in [Gens -> Databases]
    <3>1. db[g] \in Databases
      BY <1>1, <2>1 DEF TypeOK
    <3>2. Migrated(db[g].version) \in Versions
      BY <3>1 DEF Databases, Migrated, Versions
    <3>3. [db[g] EXCEPT !.version = Migrated(db[g].version)] \in Databases
      BY <3>1, <3>2 DEF Databases
    <3> QED BY <1>1, <1>4, <2>1, <3>3 DEF OpenFile, TypeOK
  <2>4. pool' \in [Sids -> Gens \cup {None}] /\ shut' \subseteq Gens
    BY <1>1, <1>4, <2>1 DEF OpenFile, TypeOK
  <2> QED BY <1>1, <1>4, <2>2, <2>3, <2>4 DEF OpenFile, TypeInv, TypeOK
<1>5. CASE HandleClosed(p)
  BY <1>5, ReturnOK DEF HandleClosed, TypeInv, TypeOK
<1> QED BY <1>2, <1>3, <1>4, <1>5

\* Two fields of one database are written at once.
LEMMA OneDatabase ==
    ASSUME NEW g, g \in DOMAIN db, NEW f, NEW x, NEW s, NEW b
    PROVE  [db EXCEPT ![g].flows[f] = x,
                      ![g].blobs = [c \in Bodies |-> IF c = b /\ @[c] = "absent"
                                                     THEN s ELSE @[c]]]
             = [db EXCEPT ![g] = [db[g] EXCEPT
                      !.flows[f] = x,
                      !.blobs = [c \in Bodies |-> IF c = b /\ @[c] = "absent"
                                                  THEN s ELSE @[c]]]]
  BY Zenon

\* The writers of a capture.
LEMMA WritingOK ==
    ASSUME TypeInv, NEW p \in Calls,
           InsertRow(p) \/ UpdateRow(p) \/ Truncate(p) \/ FillFile(p) \/ FillFails(p)
             \/ InsertFlow(p) \/ DropFlow(p)
    PROVE  TypeInv'
<1> USE DEF data, At
<1>1. /\ TypeOK /\ call[p].sid \in Sids /\ call[p] \in CallRecords
      /\ call[p].at \in Held => call[p].g \in Gens
      /\ call[p].at \notin Held \cup {"open"} => call[p].g = None
      /\ call[p].op \in {"write", "drop", "tag", "untag", "toggle"} => call[p].f \in Flows
      /\ call[p].at \in {"spill", "spilled"} => call[p].b \in Bodies
      /\ call[p].b \in Bodies \cup {None}
  <2>1. call[p].at # "idle"
    BY DEF InsertRow, UpdateRow, Truncate, FillFile, FillFails, InsertFlow, DropFlow
  <2> QED BY <2>1, Somewhere DEF TypeInv
<1>2. CASE InsertRow(p)
  <2>1. call' \in [Calls -> CallRecords] /\ \A q \in Calls : CallOK(call'[q])
    BY <1>1, <1>2, GotoOK, ReturnOK DEF InsertRow, Held, Ats
  <2> QED BY <1>1, <1>2, <2>1 DEF InsertRow, TypeInv, TypeOK
<1>3. CASE UpdateRow(p)
  <2>1. call' \in [Calls -> CallRecords] /\ \A q \in Calls : CallOK(call'[q])
    BY <1>3, ReturnOK DEF UpdateRow
  <2> QED BY <1>1, <1>3, <2>1 DEF UpdateRow, TypeInv, TypeOK
<1>4. CASE Truncate(p)
  <2>1. call' \in [Calls -> CallRecords] /\ \A q \in Calls : CallOK(call'[q])
    BY <1>1, <1>4, GotoOK, StoreAssumption DEF Truncate, Held, Ats, Gens
  <2>2. spill' \in [Sids -> [Bodies -> {"absent", "torn", "whole"}]]
    BY <1>1, <1>4 DEF Truncate, TypeOK
  <2> QED BY <1>1, <1>4, <2>1, <2>2 DEF Truncate, TypeInv, TypeOK
<1>5. CASE FillFile(p)
  <2>1. call' \in [Calls -> CallRecords] /\ \A q \in Calls : CallOK(call'[q])
    BY <1>1, <1>5, GotoOK, StoreAssumption DEF FillFile, Held, Ats, Gens
  <2>2. spill' \in [Sids -> [Bodies -> {"absent", "torn", "whole"}]]
    BY <1>1, <1>5 DEF FillFile, TypeOK
  <2> QED BY <1>1, <1>5, <2>1, <2>2 DEF FillFile, TypeInv, TypeOK
<1>6. CASE FillFails(p)
  BY <1>1, <1>6, ReturnOK DEF FillFails, TypeInv, TypeOK
<1>7. CASE InsertFlow(p)
  <2> DEFINE g == call[p].g
             d == [db[g] EXCEPT !.flows[call[p].f] = IF call[p].b = None THEN "bodiless"
                                                                         ELSE call[p].b,
                                !.blobs = [c \in Bodies |-> IF c = call[p].b /\ @[c] = "absent"
                                                            THEN call[p].sid ELSE @[c]]]
  <2>1. g \in Gens /\ db[g] \in Databases
    BY <1>1, <1>7 DEF InsertFlow, Held, TypeOK
  <2>2. db' = [db EXCEPT ![g] = d]
    BY <1>1, <1>7, <2>1 DEF InsertFlow, TypeOK
  <2>3. d \in Databases
    <3>1. call[p].f \in Flows
      BY <1>1, <1>7 DEF InsertFlow
    <3> QED BY <1>1, <2>1, <3>1 DEF Databases
  <2> HIDE DEF d
  <2>4. db' \in [Gens -> Databases]
    BY <1>1, <2>1, <2>2, <2>3 DEF TypeOK
  <2> QED BY <1>1, <1>7, <2>4, ReturnOK DEF InsertFlow, TypeInv, TypeOK
<1>8. CASE DropFlow(p)
  <2> DEFINE g == call[p].g
             d == [db[g] EXCEPT !.flows[call[p].f] = "absent"]
  <2>1. g \in Gens /\ db[g] \in Databases
    BY <1>1, <1>8 DEF DropFlow, Held, TypeOK
  <2>2. db' = [db EXCEPT ![g] = d]
    BY <1>1, <1>8, <2>1 DEF DropFlow, TypeOK
  <2>3. d \in Databases
    BY <2>1 DEF Databases
  <2> HIDE DEF d
  <2>4. db' \in [Gens -> Databases]
    BY <1>1, <2>1, <2>2, <2>3 DEF TypeOK
  <2> QED BY <1>1, <1>8, <2>4, ReturnOK DEF DropFlow, TypeInv, TypeOK
<1> QED BY <1>2, <1>3, <1>4, <1>5, <1>6, <1>7, <1>8

\* Definitions and annotations, and the reads.
LEMMA AnnotatingOK ==
    ASSUME TypeInv, NEW p \in Calls,
           Mirror(p) \/ Look(p) \/ Assign(p) \/ Select(p) \/ Stat(p)
    PROVE  TypeInv'
<1> USE DEF data, At
<1>1. /\ TypeOK /\ call[p].sid \in Sids /\ call[p] \in CallRecords /\ CallOK(call[p])
      /\ call[p].at \in Held => call[p].g \in Gens
      /\ call[p].at \notin Held \cup {"open"} => call[p].g = None
      /\ call[p].op \in {"write", "drop", "tag", "untag", "toggle"} => call[p].f \in Flows
      /\ call[p].op \in {"tag", "untag", "toggle"} => call[p].d \in Defs
  <2>1. call[p].at # "idle"
    BY DEF Mirror, Look, Assign, Select, Stat
  <2> QED BY <2>1, Somewhere DEF TypeInv
<1>2. CASE Mirror(p)
  <2> DEFINE g == call[p].g
             d == [db[g] EXCEPT !.defs = @ \cup {call[p].d}]
  <2>1. g \in Gens /\ db[g] \in Databases
    BY <1>1, <1>2 DEF Mirror, Held, TypeOK
  <2>2. call' \in [Calls -> CallRecords] /\ \A q \in Calls : CallOK(call'[q])
    BY <1>1, <1>2, GotoOK, ReturnOK, StoreAssumption DEF Mirror, Held, Ats, Gens
  <2>3. db' = [db EXCEPT ![g] = d] \/ db' = db
    BY <1>1, <1>2, <2>1 DEF Mirror, TypeOK
  <2>4. d \in Databases
    BY <1>1, <1>2, <2>1 DEF Databases, Mirror
  <2> HIDE DEF d
  <2>5. db' \in [Gens -> Databases]
    BY <1>1, <2>1, <2>3, <2>4 DEF TypeOK
  <2> QED BY <1>1, <1>2, <2>2, <2>5 DEF Mirror, TypeInv, TypeOK
<1>3. CASE Look(p)
  <2> DEFINE op == IF <<call[p].f, Favorite>> \in db[call[p].g].tagged THEN "untag" ELSE "tag"
             c == [call[p] EXCEPT !.op = op, !.at = "open"]
  <2>1. call' = [call EXCEPT ![p] = c]
    BY <1>3 DEF Look, TypeInv
  <2>2. op \in {"tag", "untag"}
    OBVIOUS
  <2> HIDE DEF op
  <2>3. /\ c.op = op /\ c.at = "open" /\ c.sid = call[p].sid /\ c.g = call[p].g
        /\ c.f = call[p].f /\ c.b = call[p].b /\ c.d = call[p].d /\ c \in CallRecords
    BY <1>1, <2>2 DEF CallRecords, Ops, Ats
  <2> HIDE DEF c
  <2>4. CallOK(c)
    BY <1>1, <1>3, <2>2, <2>3 DEF CallOK, Look, Held
  <2>5. call' \in [Calls -> CallRecords] /\ \A q \in Calls : CallOK(call'[q])
    BY <2>1, <2>3, <2>4, CallGoes
  <2> QED BY <1>3, <2>5 DEF Look, TypeInv, TypeOK
<1>4. CASE Assign(p)
  <2> DEFINE g == call[p].g
             d == [db[g] EXCEPT !.tagged = IF call[p].op = "tag"
                                           THEN @ \cup {<<call[p].f, call[p].d>>}
                                           ELSE @ \ {<<call[p].f, call[p].d>>}]
  <2>1. g \in Gens /\ db[g] \in Databases /\ call[p].f \in Flows /\ call[p].d \in Defs
    BY <1>1, <1>4 DEF Assign, Held, TypeOK
  <2>2. db' = [db EXCEPT ![g] = d]
    BY <1>1, <1>4, <2>1 DEF Assign, TypeOK
  <2>3. d \in Databases
    BY <2>1 DEF Databases
  <2> HIDE DEF d
  <2>4. db' \in [Gens -> Databases]
    BY <1>1, <2>1, <2>2, <2>3 DEF TypeOK
  <2> QED BY <1>1, <1>4, <2>4, ReturnOK DEF Assign, TypeInv, TypeOK
<1>5. CASE Select(p)
  BY <1>1, <1>5, ReturnOK DEF Select, TypeInv, TypeOK
<1>6. CASE Stat(p)
  <2>1. call' \in [Calls -> CallRecords] /\ \A q \in Calls : CallOK(call'[q])
    BY <1>1, <1>6, GotoOK, ReturnOK DEF Stat, Held, Ats
  <2> QED BY <1>1, <1>6, <2>1 DEF Stat, TypeInv, TypeOK
<1> QED BY <1>2, <1>3, <1>4, <1>5, <1>6

\* Deletion and export.
LEMMA DeletingOK ==
    ASSUME TypeInv, OneArchive, NEW p \in Calls,
           CheckClosed(p) \/ DropHandle(p) \/ DeleteRow(p) \/ RemoveAll(p)
             \/ ExportRow(p) \/ Snapshot(p) \/ CopyBlobs(p)
    PROVE  TypeInv'
<1> USE DEF data, At
<1>1. /\ TypeOK /\ call[p].sid \in Sids /\ call[p] \in CallRecords
      /\ call[p].at \in Held => call[p].g \in Gens
      /\ call[p].at \notin Held \cup {"open"} => call[p].g = None
  <2>1. call[p].at # "idle"
    BY DEF CheckClosed, DropHandle, DeleteRow, RemoveAll, ExportRow, Snapshot, CopyBlobs
  <2> QED BY <2>1, Somewhere DEF TypeInv
<1>2. CASE CheckClosed(p)
  <2>1. call' \in [Calls -> CallRecords] /\ \A q \in Calls : CallOK(call'[q])
    BY <1>1, <1>2, GotoOK, ReturnOK DEF CheckClosed, Held, Ats
  <2> QED BY <1>1, <1>2, <2>1 DEF CheckClosed, TypeInv, TypeOK
<1>3. CASE DropHandle(p)
  <2>1. call' \in [Calls -> CallRecords] /\ \A q \in Calls : CallOK(call'[q])
    BY <1>1, <1>3, GotoOK DEF DropHandle, Held, Ats
  <2>2. shut' \subseteq Gens /\ pool' \in [Sids -> Gens \cup {None}]
    BY <1>1, <1>3 DEF DropHandle, TypeOK
  <2> QED BY <1>1, <1>3, <2>1, <2>2 DEF DropHandle, TypeInv, TypeOK
<1>4. CASE DeleteRow(p)
  <2>1. call' \in [Calls -> CallRecords] /\ \A q \in Calls : CallOK(call'[q])
    BY <1>1, <1>4, GotoOK DEF DeleteRow, Held, Ats
  <2> QED BY <1>1, <1>4, <2>1 DEF DeleteRow, TypeInv, TypeOK
<1>5. CASE RemoveAll(p)
  <2>1. call' \in [Calls -> CallRecords] /\ \A q \in Calls : CallOK(call'[q])
    BY <1>5, ReturnOK DEF RemoveAll
  <2> QED BY <1>1, <1>5, <2>1 DEF RemoveAll, Removed, NoFiles, TypeInv, TypeOK
<1>6. CASE ExportRow(p)
  <2>1. call' \in [Calls -> CallRecords] /\ \A q \in Calls : CallOK(call'[q])
    BY <1>1, <1>6, GotoOK, ReturnOK DEF ExportRow, Held, Ats
  <2>2. archive' = archive \/ archive' \in Archives
    <3>1. Fresh \in Databases /\ NoFiles \in [Bodies -> {"absent", "torn", "whole"}]
      BY DEF Fresh, Databases, Versions, NoFiles
    <3>2. row[call[p].sid] # "none" => row[call[p].sid] \in {"open", "closed"}
      BY <1>1 DEF TypeOK
    <3>3. CASE row[call[p].sid] = "none"
      BY <1>6, <3>3 DEF ExportRow
    <3>4. CASE row[call[p].sid] # "none"
      <4>1. archive' = [sid |-> call[p].sid, status |-> row[call[p].sid], db |-> Fresh,
                        blobs |-> NoFiles, done |-> FALSE]
        BY <1>6, <3>4 DEF ExportRow
      <4> QED BY <1>1, <3>1, <3>2, <3>4, <4>1 DEF Archives
    <3> QED BY <3>3, <3>4
  <2> QED BY <1>1, <1>6, <2>1, <2>2 DEF ExportRow, TypeInv, TypeOK, Archives
<1>7. CASE Snapshot(p)
  <2>1. call' \in [Calls -> CallRecords] /\ \A q \in Calls : CallOK(call'[q])
    BY <1>1, <1>7, GotoOK, StoreAssumption DEF Snapshot, Held, Ats, Gens
  <2>2. archive \in Archives
    BY <1>7 DEF Snapshot, OneArchive
  <2>3. archive' \in Archives
    BY <1>1, <1>7, <2>2 DEF Snapshot, Archives, TypeOK, Held
  <2> QED BY <1>1, <1>7, <2>1, <2>3 DEF Snapshot, TypeInv, TypeOK, Archives
<1>8. CASE CopyBlobs(p)
  <2>1. archive \in Archives
    BY <1>8 DEF CopyBlobs, OneArchive
  <2>2. archive' \in Archives
    BY <1>1, <1>8, <2>1 DEF CopyBlobs, Archives, TypeOK
  <2> QED BY <1>1, <1>8, <2>2, ReturnOK DEF CopyBlobs, TypeInv, TypeOK, Archives
<1> QED BY <1>2, <1>3, <1>4, <1>5, <1>6, <1>7, <1>8

\* Import.
LEMMA ImportingOK ==
    ASSUME TypeInv, OneArchive, NEW p \in Calls,
           CheckFree(p) \/ ExtractDb(p) \/ ExtractBlobs(p) \/ Rebind(p) \/ Register(p)
             \/ Cleanup(p) \/ Merge(p)
    PROVE  TypeInv'
<1> USE DEF data, At
<1>1. /\ TypeOK /\ call[p].sid \in Sids /\ call[p] \in CallRecords
      /\ call[p].at \in Held => call[p].g \in Gens
      /\ call[p].at \notin Held \cup {"open"} => call[p].g = None
  <2>1. call[p].at # "idle"
    BY DEF CheckFree, ExtractDb, ExtractBlobs, Rebind, Register, Cleanup, Merge
  <2> QED BY <2>1, Somewhere DEF TypeInv
<1>2. archive \in Archives
  BY DEF OneArchive, CheckFree, ExtractDb, ExtractBlobs, Rebind, Register, Cleanup, Merge
<1>3. archive.db \in Databases /\ archive.status \in {"open", "closed"} /\ archive.sid \in Sids
      /\ archive.blobs \in [Bodies -> {"absent", "torn", "whole"}]
  BY <1>2 DEF Archives
<1>4. CASE CheckFree(p)
  <2>1. call' \in [Calls -> CallRecords] /\ \A q \in Calls : CallOK(call'[q])
    BY <1>1, <1>4, GotoOK, ReturnOK DEF CheckFree, Held, Ats
  <2> QED BY <1>1, <1>4, <2>1 DEF CheckFree, TypeInv, TypeOK
<1>5. CASE ExtractDb(p)
  <2>1. call' \in [Calls -> CallRecords] /\ \A q \in Calls : CallOK(call'[q])
    BY <1>1, <1>5, GotoOK DEF ExtractDb, Held, Ats
  <2> DEFINE g == IF file[call[p].sid] = None THEN NextGen ELSE file[call[p].sid]
  <2>2. g \in Gens
    BY <1>1, NextGenIsFree DEF TypeOK
  <2>3. file' = [file EXCEPT ![call[p].sid] = g] /\ db' = [db EXCEPT ![g] = archive.db]
        /\ shut' \subseteq shut
    BY <1>5 DEF ExtractDb
  <2> HIDE DEF g
  <2>4. file' \in [Sids -> Gens \cup {None}] /\ db' \in [Gens -> Databases] /\ shut' \subseteq Gens
    BY <1>1, <1>3, <2>2, <2>3 DEF TypeOK
  <2> QED BY <1>1, <1>5, <2>1, <2>4 DEF ExtractDb, TypeInv, TypeOK
<1>6. CASE ExtractBlobs(p)
  <2>1. call' \in [Calls -> CallRecords] /\ \A q \in Calls : CallOK(call'[q])
    <3>1. call[p].g = None
      BY <1>1, <1>6 DEF ExtractBlobs, Held
    <3>2. Goto(p, "register") \/ Goto(p, "rebind")
      BY <1>6 DEF ExtractBlobs
    <3> QED BY <1>1, <3>1, <3>2, GotoOK DEF Held, Ats
  <2>2. spill' \in [Sids -> [Bodies -> {"absent", "torn", "whole"}]]
    BY <1>1, <1>3, <1>6 DEF ExtractBlobs, TypeOK
  <2> QED BY <1>1, <1>6, <2>1, <2>2 DEF ExtractBlobs, TypeInv, TypeOK
<1>7. CASE Rebind(p)
  <2>1. call' \in [Calls -> CallRecords] /\ \A q \in Calls : CallOK(call'[q])
    BY <1>1, <1>7, GotoOK DEF Rebind, Held, Ats
  <2> DEFINE g == file[call[p].sid]
             d == [db[g] EXCEPT !.blobs = [b \in Bodies |-> IF @[b] = archive.sid THEN call[p].sid
                                                            ELSE @[b]]]
  <2>2. g \in Gens /\ db[g] \in Databases
    BY <1>1, <1>7 DEF Rebind, TypeOK
  <2>3. db' = [db EXCEPT ![g] = d]
    BY <1>1, <1>7, <2>2 DEF Rebind, TypeOK
  <2>4. d \in Databases
    BY <1>1, <2>2 DEF Databases
  <2> HIDE DEF d
  <2>5. db' \in [Gens -> Databases]
    BY <1>1, <2>2, <2>3, <2>4 DEF TypeOK
  <2> QED BY <1>1, <1>7, <2>1, <2>5 DEF Rebind, TypeInv, TypeOK
<1>8. CASE Register(p)
  <2>1. call' \in [Calls -> CallRecords] /\ \A q \in Calls : CallOK(call'[q])
    BY <1>1, <1>8, GotoOK DEF Register, Held, Ats
  <2> QED BY <1>1, <1>3, <1>8, <2>1 DEF Register, TypeInv, TypeOK
<1>9. CASE Cleanup(p)
  <2>1. call' \in [Calls -> CallRecords] /\ \A q \in Calls : CallOK(call'[q])
    BY <1>9, ReturnOK DEF Cleanup
  <2>2. faults' \in Nat
    BY <1>9 DEF Cleanup, TypeInv
  <2>3. /\ file' \in [Sids -> Gens \cup {None}]
        /\ spill' \in [Sids -> [Bodies -> {"absent", "torn", "whole"}]]
    BY <1>1, <1>9 DEF Cleanup, Removed, NoFiles, TypeOK
  <2> QED BY <1>1, <1>9, <2>1, <2>2, <2>3 DEF Cleanup, TypeInv, TypeOK
<1>10. CASE Merge(p)
  <2>1. call[p].g \in Gens /\ db[call[p].g] \in Databases
    BY <1>1, <1>10 DEF Merge, Held, TypeOK
  <2>2. catalog' \subseteq Defs /\ Favorite \in catalog'
    BY <1>1, <1>10, <2>1 DEF Merge, TypeOK, Databases
  <2> QED BY <1>1, <1>10, <2>2, ReturnOK DEF Merge, TypeInv, TypeOK
<1> QED BY <1>4, <1>5, <1>6, <1>7, <1>8, <1>9, <1>10

\* Every step keeps the types.
LEMMA TypeStep == ASSUME TypeInv, OneArchive, [Next]_vars PROVE TypeInv'
<1>1. ASSUME NEW p \in Calls,
             \/ BeginWrite(p) \/ BeginDrop(p) \/ BeginAnnotate(p) \/ BeginToggle(p)
             \/ BeginPlain(p) \/ BeginExport(p) \/ BeginCreate(p) \/ BeginImport(p)
      PROVE  TypeInv'
  BY <1>1, BeginsOK
<1>2. ASSUME NEW d \in Defs, Define(d) \/ Undefine(d) PROVE TypeInv'
  BY <1>2 DEF Define, Undefine, TypeInv, TypeOK
<1>3. CASE Crash
  <2>1. call' \in [Calls -> CallRecords] /\ \A q \in Calls : CallOK(call'[q])
    BY <1>3, IdleOK DEF Crash
  <2>2. pool' \in [Sids -> Gens \cup {None}] /\ shut' = {} /\ faults' \in Nat
    BY <1>3 DEF Crash, TypeInv
  <2>3. archive' \in {archive, None}
    BY <1>3 DEF Crash
  <2> QED BY <1>3, <2>1, <2>2, <2>3 DEF Crash, TypeInv, TypeOK, Archives
<1>4. CASE UNCHANGED vars
  BY <1>4 DEF vars, data, TypeInv, TypeOK
<1>5. ASSUME NEW p \in Calls,
             \/ OpenPooled(p) \/ OpenCreates(p) \/ OpenFile(p) \/ HandleClosed(p)
             \/ InsertRow(p) \/ UpdateRow(p)
             \/ Truncate(p) \/ FillFile(p) \/ FillFails(p) \/ InsertFlow(p) \/ DropFlow(p)
             \/ Mirror(p) \/ Look(p) \/ Assign(p) \/ Select(p) \/ Stat(p)
      PROVE  TypeInv'
  BY <1>5, OpeningOK, WritingOK, AnnotatingOK
<1>6. ASSUME NEW p \in Calls,
             \/ CheckClosed(p) \/ DropHandle(p) \/ DeleteRow(p) \/ RemoveAll(p)
             \/ ExportRow(p) \/ Snapshot(p) \/ CopyBlobs(p)
             \/ CheckFree(p) \/ ExtractDb(p) \/ ExtractBlobs(p) \/ Rebind(p)
             \/ Register(p) \/ Cleanup(p) \/ Merge(p)
      PROVE  TypeInv'
  BY <1>6, DeletingOK, ImportingOK
<1> QED BY <1>1, <1>2, <1>3, <1>4, <1>5, <1>6 DEF Next

\* The store starts well-typed.
LEMMA TypeInit == Init => TypeInv /\ OneArchive
<1> SUFFICES ASSUME Init PROVE TypeInv /\ OneArchive
  OBVIOUS
<1>1. PICK s \in Sids, f \in Flows, b \in Bodies, v \in Versions, st \in {"none", "open", "closed"} :
        /\ st # "closed" => v = "current"
        /\ s = CHOOSE t \in Sids : TRUE
        /\ f = CHOOSE e \in Flows : TRUE
        /\ b = CHOOSE c \in Bodies : TRUE
        /\ row = [t \in Sids |-> IF t = s THEN st ELSE "none"]
        /\ file = [t \in Sids |-> IF t = s /\ st # "none" THEN 1 ELSE None]
        /\ db = [g \in Gens |-> IF g = 1 /\ st # "none" THEN Recorded(s, f, b, v) ELSE Fresh]
        /\ spill = [t \in Sids |-> [c \in Bodies |->
                        IF t = s /\ c = b /\ st # "none" THEN "whole" ELSE "absent"]]
  BY Zenon DEF Init
<1>2. 1 \in Gens
  <2>1. Cardinality(Sids) \in Nat /\ Cardinality(Calls) \in Nat /\ Cardinality(Sids) # 0
    BY StoreAssumption, FS_CardinalityType, FS_EmptySet
  <2> QED BY <2>1 DEF Gens
<1>3. Fresh \in Databases /\ Recorded(s, f, b, v) \in Databases
  BY DEF Fresh, Recorded, Databases, Versions
<1>4. /\ row \in [Sids -> {"none", "open", "closed"}] /\ file \in [Sids -> Gens \cup {None}]
      /\ db \in [Gens -> Databases] /\ spill \in [Sids -> [Bodies -> {"absent", "torn", "whole"}]]
  BY <1>1, <1>2, <1>3
<1>5. /\ catalog = {Favorite} /\ pool = [t \in Sids |-> None] /\ shut = {}
      /\ call = [p \in Calls |-> Idle] /\ archive = None /\ begun = 0 /\ faults = 0 /\ contended = {}
  BY DEF Init
<1>6. call \in [Calls -> CallRecords] /\ (\A p \in Calls : CallOK(call[p]))
  BY <1>5, IdleOK
<1>7. TypeInv
  BY <1>4, <1>5, <1>6, StoreAssumption DEF TypeInv, TypeOK
<1>8. \A p \in Calls : call[p].op = "idle"
  BY <1>5 DEF Idle
<1> QED BY <1>7, <1>8 DEF OneArchive

-----------------------------------------------------------------------------
(* What the steps of a call leave of the others.                             *)

Others(p) == \A q \in Calls : q # p => call'[q] = call[q]

\* Between two steps a call keeps its operation, its session and what it is about.
Kept(p) == /\ call'[p].op = call[p].op /\ call'[p].sid = call[p].sid
           /\ call'[p].f = call[p].f /\ call'[p].b = call[p].b /\ call'[p].d = call[p].d

\* A call that goes on changes where it is and nothing else; the other calls stay.
LEMMA GotoFacts ==
    ASSUME TypeInv, NEW p \in Calls, NEW at, Goto(p, at)
    PROVE  Others(p) /\ Kept(p) /\ call'[p].at = at /\ call'[p].g = call[p].g
<1>1. call[p] \in CallRecords /\ call \in [Calls -> CallRecords]
  BY DEF TypeInv
<1>2. call' = [call EXCEPT ![p] = [call[p] EXCEPT !.at = at]]
  BY <1>1 DEF Goto
<1>3. call'[p] = [call[p] EXCEPT !.at = at] /\ Others(p)
  BY <1>1, <1>2 DEF Others
<1> QED BY <1>1, <1>3 DEF Kept, CallRecords

\* A call that returns has nothing left in hand; the other calls stay.
LEMMA ReturnFacts ==
    ASSUME TypeInv, NEW p \in Calls, Return(p)
    PROVE  /\ Others(p) /\ call'[p].op = "idle" /\ call'[p].at = "idle" /\ call'[p].sid = None
           /\ call'[p].g = None
<1>1. call'[p] = Idle /\ Others(p)
  BY DEF Return, TypeInv, Others
<1> QED BY <1>1 DEF Idle

\* A call that opened the bundle has its handle and goes on with its operation.
LEMMA HoldingFacts ==
    ASSUME TypeInv, NEW p \in Calls, NEW g, Holding(p, g)
    PROVE  Others(p) /\ Kept(p) /\ call'[p].at = AfterOpen(call[p]) /\ call'[p].g = g
<1>1. call[p] \in CallRecords /\ call \in [Calls -> CallRecords]
  BY DEF TypeInv
<1>2. call' = [call EXCEPT ![p] = [call[p] EXCEPT !.g = g, !.at = AfterOpen(call[p])]]
  BY <1>1 DEF Holding
<1>3. call'[p] = [call[p] EXCEPT !.g = g, !.at = AfterOpen(call[p])] /\ Others(p)
  BY <1>1, <1>2 DEF Others
<1> QED BY <1>1, <1>3 DEF Kept, CallRecords

\* A toggle that has read the tag becomes the setting or the clearing of it.
LEMMA LookFacts ==
    ASSUME TypeInv, NEW p \in Calls, Look(p)
    PROVE  /\ Others(p) /\ call'[p].op \in {"tag", "untag"} /\ call'[p].at = "open"
           /\ call'[p].sid = call[p].sid /\ call'[p].g = call[p].g /\ call'[p].d = call[p].d
           /\ call[p].op = "toggle" /\ call[p].at = "look"
<1> DEFINE op == IF <<call[p].f, Favorite>> \in db[call[p].g].tagged THEN "untag" ELSE "tag"
           c == [call[p] EXCEPT !.op = op, !.at = "open"]
<1>1. call[p] \in CallRecords /\ call \in [Calls -> CallRecords]
  BY DEF TypeInv
<1>2. call' = [call EXCEPT ![p] = c]
  BY <1>1 DEF Look
<1>3. op \in {"tag", "untag"}
  OBVIOUS
<1> HIDE DEF op
<1>4. /\ c.op = op /\ c.at = "open" /\ c.sid = call[p].sid /\ c.g = call[p].g /\ c.d = call[p].d
  BY <1>1 DEF CallRecords
<1> HIDE DEF c
<1>5. call'[p] = c /\ Others(p)
  BY <1>1, <1>2 DEF Others
<1> QED BY <1>3, <1>4, <1>5 DEF Look, At

\* A call begins in a free slot with no handle, and the race it enters is remembered.
LEMMA BeginFacts ==
    ASSUME TypeInv, NEW p \in Calls, NEW op, NEW s, NEW f, NEW b, NEW d, Begin(p, op, s, f, b, d)
    PROVE  /\ Others(p) /\ call[p] = Idle /\ call[p].op = "idle" /\ call[p].sid = None
           /\ call'[p].op = op /\ call'[p].at = FirstStep(op) /\ call'[p].sid = s
           /\ call'[p].g = None /\ call'[p].d = d /\ call'[p].b = b
           /\ contended' = IF Overlaps(op, s) THEN contended \cup {s} ELSE contended
           /\ UNCHANGED <<row, catalog, file, db, spill, pool, shut, archive, faults>>
<1> DEFINE c == [op |-> op, at |-> FirstStep(op), sid |-> s, g |-> None, f |-> f, b |-> b, d |-> d]
<1>1. call'[p] = c /\ Others(p) /\ call[p] = Idle
  BY DEF Begin, TypeInv, Others
<1> QED BY <1>1 DEF Begin, Idle, data

-----------------------------------------------------------------------------
(* The archive's users.                                                      *)

\* A step that leaves the archive and puts nobody to work on it.
LEMMA ArchiveLeft ==
    ASSUME OneArchive, archive' = archive,
           \A q \in Calls : call'[q].op \in {"export", "import"} =>
              /\ call'[q].op = call[q].op /\ call'[q].sid = call[q].sid
              /\ call'[q].at = "row" \/ call[q].at # "row"
    PROVE  OneArchive'
  BY DEF OneArchive

\* Every step leaves the archive one writer and finished readers.
LEMMA OneArchiveStep == ASSUME TypeInv, OneArchive, [Next]_vars PROVE OneArchive'
<1> USE DEF data
<1>1. ASSUME NEW p \in Calls, Others(p), archive' = archive,
             \/ call'[p].op \notin {"export", "import"}
             \/ /\ call'[p].op = call[p].op /\ call'[p].sid = call[p].sid
                /\ call'[p].at = "row" \/ call[p].at # "row"
      PROVE  OneArchive'
  BY <1>1, ArchiveLeft DEF Others
<1>2. ASSUME NEW p \in Calls, Return(p), archive' = archive PROVE OneArchive'
  BY <1>1, <1>2, ReturnFacts
<1>3. ASSUME NEW p \in Calls, NEW at, Goto(p, at), call[p].at # "row", archive' = archive
      PROVE  OneArchive'
  BY <1>1, <1>3, GotoFacts DEF Kept
<1>4. ASSUME NEW p \in Calls, NEW g, Holding(p, g), call[p].at = "open", archive' = archive
      PROVE  OneArchive'
  BY <1>1, <1>4, HoldingFacts DEF Kept
<1>5. ASSUME NEW p \in Calls, NEW op, NEW s, NEW f, NEW b, NEW d, Begin(p, op, s, f, b, d),
             op \notin {"export", "import"}
      PROVE  OneArchive'
  BY <1>1, <1>5, BeginFacts
<1>6. ASSUME NEW p \in Calls,
             \/ BeginWrite(p) \/ BeginDrop(p) \/ BeginAnnotate(p) \/ BeginToggle(p)
             \/ BeginPlain(p) \/ BeginCreate(p)
      PROVE  OneArchive'
  <2>1. CASE BeginWrite(p) \/ BeginDrop(p) \/ BeginToggle(p) \/ BeginCreate(p)
    BY <1>5, <2>1 DEF BeginWrite, BeginDrop, BeginToggle, BeginCreate
  <2>2. CASE BeginAnnotate(p) \/ BeginPlain(p)
    BY <1>5, <2>2 DEF BeginAnnotate, BeginPlain
  <2> QED BY <1>6, <2>1, <2>2
<1>7. ASSUME NEW p \in Calls, BeginExport(p) PROVE OneArchive'
  <2>1. PICK s \in Sids : Begin(p, "export", s, None, None, None)
    BY <1>7 DEF BeginExport
  <2>2. \A q \in Calls : call[q].op \notin {"export", "import"}
    BY <1>7 DEF BeginExport, Archiving
  <2>3. Others(p) /\ call'[p].op = "export" /\ call'[p].at = "row"
    BY <2>1, BeginFacts DEF FirstStep
  <2> QED BY <2>2, <2>3 DEF OneArchive, Others
<1>8. ASSUME NEW p \in Calls, BeginImport(p) PROVE OneArchive'
  <2>1. PICK s \in Sids : Begin(p, "import", s, None, None, None)
    BY <1>8 DEF BeginImport
  <2>2. /\ \A q \in Calls : call[q].op # "export"
        /\ archive \in Archives /\ archive.done
    BY <1>8 DEF BeginImport, Archiving, TypeInv
  <2>3. Others(p) /\ call'[p].op = "import" /\ archive' = archive
    BY <2>1, BeginFacts
  <2> QED BY <2>2, <2>3 DEF OneArchive, Others
<1>9. ASSUME NEW p \in Calls,
             \/ OpenPooled(p) \/ OpenCreates(p) \/ OpenFile(p) \/ HandleClosed(p)
             \/ InsertRow(p) \/ UpdateRow(p)
             \/ Truncate(p) \/ FillFile(p) \/ FillFails(p) \/ InsertFlow(p) \/ DropFlow(p)
      PROVE  OneArchive'
  BY <1>2, <1>3, <1>4, <1>9 DEF OpenPooled, OpenCreates, OpenFile, HandleClosed, InsertRow,
     UpdateRow, Truncate, FillFile, FillFails, InsertFlow, DropFlow, At
<1>10. ASSUME NEW p \in Calls,
             \/ Mirror(p) \/ Assign(p) \/ Select(p) \/ Stat(p) \/ CheckClosed(p) \/ DropHandle(p)
             \/ (DeleteRow(p) /\ call[p].op = "delete") \/ RemoveAll(p)
             \/ CheckFree(p) \/ ExtractDb(p) \/ ExtractBlobs(p) \/ Rebind(p)
             \/ Register(p) \/ Cleanup(p) \/ Merge(p)
      PROVE  OneArchive'
  <2>1. CASE DeleteRow(p)
    BY <1>1, <2>1, GotoFacts DEF DeleteRow, At, Kept
  <2>2. CASE ~DeleteRow(p)
    BY <1>2, <1>3, <1>10, <2>2 DEF Mirror, Assign, Select, Stat, CheckClosed, DropHandle,
       RemoveAll, CheckFree, ExtractDb, ExtractBlobs, Rebind, Register, Cleanup, Merge, At
  <2> QED BY <2>1, <2>2
<1>11. ASSUME NEW p \in Calls, Look(p) PROVE OneArchive'
  BY <1>1, <1>11, LookFacts DEF Look
<1>12. ASSUME NEW p \in Calls, ExportRow(p) PROVE OneArchive'
  <2>1. call[p].op = "export" /\ (\A q \in Calls : call[q].op \in {"export", "import"} => q = p)
    BY <1>12 DEF ExportRow, At, OneArchive
  <2>2. CASE row[call[p].sid] = "none"
    BY <1>2, <1>12, <2>2 DEF ExportRow
  <2>3. CASE row[call[p].sid] # "none"
    <3> DEFINE a == [sid |-> call[p].sid, status |-> row[call[p].sid], db |-> Fresh,
                     blobs |-> NoFiles, done |-> FALSE]
    <3>1. Goto(p, "open") /\ archive' = a
      BY <1>12, <2>3 DEF ExportRow
    <3>2. a.sid = call[p].sid /\ ~a.done /\ a \in Archives
      <4>1. Fresh \in Databases /\ NoFiles \in [Bodies -> {"absent", "torn", "whole"}]
        BY DEF Fresh, Databases, Versions, NoFiles
      <4>2. call[p].sid \in Sids
        BY <1>12, Somewhere DEF ExportRow, At
      <4>3. row[call[p].sid] \in {"open", "closed"}
        BY <2>3, <4>2 DEF TypeInv, TypeOK
      <4> QED BY <4>1, <4>2, <4>3 DEF Archives
    <3> HIDE DEF a
    <3>3. Others(p) /\ call'[p].op = "export" /\ call'[p].sid = call[p].sid
      BY <2>1, <3>1, GotoFacts DEF Kept
    <3> QED BY <2>1, <3>1, <3>2, <3>3 DEF OneArchive, Others
  <2> QED BY <2>2, <2>3
<1>13. ASSUME NEW p \in Calls, Snapshot(p) \/ CopyBlobs(p) PROVE OneArchive'
  <2>1. /\ call[p].op = "export" /\ call[p].at # "row"
        /\ \A q \in Calls : call[q].op \in {"export", "import"} => q = p
        /\ archive \in Archives /\ archive.sid = call[p].sid /\ ~archive.done
    BY <1>13 DEF Snapshot, CopyBlobs, At, OneArchive
  <2>2. CASE Snapshot(p)
    <3>1. Others(p) /\ call'[p].op = "export" /\ call'[p].sid = call[p].sid
      BY <2>1, <2>2, GotoFacts DEF Snapshot, Kept
    <3>2. archive' \in Archives /\ archive'.sid = archive.sid /\ ~archive'.done
      <4>1. TypeInv' /\ archive' = [archive EXCEPT !.db = db[call[p].g]]
        BY <2>2, DeletingOK DEF Snapshot
      <4>2. db[call[p].g] \in Databases
        BY <2>2, Somewhere DEF Snapshot, At, Held, TypeInv, TypeOK
      <4> QED BY <2>1, <4>1, <4>2 DEF Archives
    <3> QED BY <2>1, <3>1, <3>2 DEF OneArchive, Others
  <2>3. CASE CopyBlobs(p)
    <3>1. Others(p) /\ call'[p].op = "idle"
      BY <2>3, ReturnFacts DEF CopyBlobs
    <3> QED BY <2>1, <3>1 DEF OneArchive, Others
  <2> QED BY <1>13, <2>2, <2>3
<1>14. CASE Crash
  <2>1. \A q \in Calls : call'[q].op = "idle"
    BY <1>14 DEF Crash, Idle
  <2> QED BY <2>1 DEF OneArchive
<1>15. CASE UNCHANGED vars
  BY <1>15, ArchiveLeft DEF vars
<1>16. ASSUME NEW d \in Defs, Define(d) \/ Undefine(d) PROVE OneArchive'
  BY <1>16, ArchiveLeft DEF Define, Undefine
<1>17. ASSUME NEW p \in Calls, DeleteRow(p) PROVE call[p].op = "delete"
  BY <1>17 DEF DeleteRow, At
<1> QED BY <1>6, <1>7, <1>8, <1>9, <1>10, <1>11, <1>12, <1>13, <1>14, <1>15, <1>16, <1>17 DEF Next

-----------------------------------------------------------------------------
(* A database belongs to one session.                                        *)

\* It lies at the session's path, is open in its pool, or in the hands of a call on it.
Holds(s, g) ==
    /\ g # None
    /\ file[s] = g \/ pool[s] = g \/ \E p \in Calls : call[p].sid = s /\ call[p].g = g

Apart == \A s, t \in Sids, g \in Gens : Holds(s, g) /\ Holds(t, g) => s = t

\* A step after which nobody holds what he did not hold before, or only a new one.
LEMMA ApartKept ==
    ASSUME Apart, \A s \in Sids, g \in Gens : Holds(s, g)' => Holds(s, g)
    PROVE  Apart'
  BY DEF Apart

\* A step after which one session holds a database nobody held.
LEMMA ApartNew ==
    ASSUME Apart, NEW t \in Sids, NEW n \in Gens, \A s \in Sids : ~Holds(s, n),
           \A s \in Sids, g \in Gens : Holds(s, g)' => Holds(s, g) \/ (s = t /\ g = n)
    PROVE  Apart'
  BY DEF Apart

\* No step makes two sessions share a database.
LEMMA ApartStep == ASSUME TypeInv, OneArchive, Apart, [Next]_vars PROVE Apart'
<1> USE DEF data
<1>1. ASSUME NEW p \in Calls, Others(p), call'[p].g = None \/ (call'[p].g = call[p].g
                                                          /\ call'[p].sid = call[p].sid),
             \A s \in Sids : file'[s] \in {file[s], None} /\ pool'[s] \in {pool[s], file[s], None}
      PROVE  Apart'
  BY <1>1, ApartKept DEF Holds, Others
<1>2. ASSUME NEW p \in Calls, Return(p), UNCHANGED <<file, pool>> PROVE Apart'
  BY <1>1, <1>2, ReturnFacts
<1>3. ASSUME NEW p \in Calls, NEW at, Goto(p, at), UNCHANGED <<file, pool>> PROVE Apart'
  BY <1>1, <1>3, GotoFacts DEF Kept
<1>5. ASSUME NEW p \in Calls, NEW op, NEW s, NEW f, NEW b, NEW d, Begin(p, op, s, f, b, d)
      PROVE  Apart'
  BY <1>1, <1>5, BeginFacts
<1>6. ASSUME NEW p \in Calls,
             \/ BeginWrite(p) \/ BeginDrop(p) \/ BeginAnnotate(p) \/ BeginToggle(p)
             \/ BeginPlain(p) \/ BeginExport(p) \/ BeginCreate(p) \/ BeginImport(p)
      PROVE  Apart'
  <2>1. CASE BeginWrite(p) \/ BeginDrop(p) \/ BeginToggle(p) \/ BeginCreate(p)
    BY <1>5, <2>1 DEF BeginWrite, BeginDrop, BeginToggle, BeginCreate
  <2>2. CASE BeginAnnotate(p) \/ BeginPlain(p) \/ BeginExport(p) \/ BeginImport(p)
    BY <1>5, <2>2 DEF BeginAnnotate, BeginPlain, BeginExport, BeginImport
  <2> QED BY <1>6, <2>1, <2>2
<1>7. ASSUME NEW p \in Calls, OpenPooled(p) PROVE Apart'
  <2>1. call[p].sid \in Sids
    BY <1>7, Somewhere DEF OpenPooled
  <2>2. Others(p) /\ call'[p].sid = call[p].sid /\ call'[p].g = pool[call[p].sid]
        /\ UNCHANGED <<file, pool>>
    BY <1>7, HoldingFacts DEF OpenPooled, Kept
  <2> QED BY <2>1, <2>2, ApartKept DEF Holds, Others
<1>8. ASSUME NEW p \in Calls, NEW s \in Sids, Others(p), s = call[p].sid,
             \/ call'[p].g = None
             \/ call'[p].sid = call[p].sid /\ call'[p].g \in {NextGen, call[p].g},
             file' = [file EXCEPT ![s] = NextGen],
             pool' = pool \/ pool' = [pool EXCEPT ![s] = NextGen]
      PROVE  Apart'
  <2>1. NextGen \in Gens /\ (\A t \in Sids : ~Holds(t, NextGen))
    BY NextGenIsFree DEF Holds
  <2> DEFINE n == NextGen
  <2> HIDE DEF n
  <2>2. \A t \in Sids : file'[t] \in {file[t], n} /\ (t # s => file'[t] = file[t])
    BY <1>8 DEF n, TypeInv, TypeOK
  <2>3. \A t \in Sids : pool'[t] \in {pool[t], n} /\ (t # s => pool'[t] = pool[t])
    BY <1>8 DEF n, TypeInv, TypeOK
  <2>4. \A t \in Sids, g \in Gens : Holds(t, g)' => Holds(t, g) \/ (t = s /\ g = n)
    BY <1>8, <2>2, <2>3 DEF Holds, Others, n
  <2> QED BY <2>1, <2>4, ApartNew DEF n
<1>9. ASSUME NEW p \in Calls, OpenCreates(p) PROVE Apart'
  <2>1. call[p].sid \in Sids
    BY <1>9, Somewhere DEF OpenCreates
  <2>2. Others(p) /\ (\/ call'[p].g = None
                      \/ call'[p].sid = call[p].sid /\ call'[p].g = NextGen)
    BY <1>9, HoldingFacts, ReturnFacts DEF OpenCreates, Kept
  <2>3. /\ file' = [file EXCEPT ![call[p].sid] = NextGen]
        /\ pool' = [pool EXCEPT ![call[p].sid] = NextGen]
    BY <1>9 DEF OpenCreates
  <2> QED BY <1>8, <2>1, <2>2, <2>3
<1>10. ASSUME NEW p \in Calls, OpenFile(p) PROVE Apart'
  <2>1. call[p].sid \in Sids
    BY <1>10, Somewhere DEF OpenFile
  <2>2. Others(p) /\ (\/ call'[p].g = None
                      \/ call'[p].sid = call[p].sid /\ call'[p].g = file[call[p].sid])
    BY <1>10, HoldingFacts, ReturnFacts DEF OpenFile, Kept
  <2>3. file' = file /\ (\A t \in Sids : pool'[t] \in {pool[t], file[t]})
    BY <1>10 DEF OpenFile, TypeInv, TypeOK
  <2> QED BY <2>1, <2>2, <2>3, ApartKept DEF Holds, Others
<1>11. ASSUME NEW p \in Calls,
             \/ HandleClosed(p) \/ InsertRow(p) \/ UpdateRow(p)
             \/ Truncate(p) \/ FillFile(p) \/ FillFails(p) \/ InsertFlow(p) \/ DropFlow(p)
             \/ Mirror(p) \/ Assign(p) \/ Select(p) \/ Stat(p) \/ CheckClosed(p) \/ DeleteRow(p)
      PROVE  Apart'
  BY <1>2, <1>3, <1>11 DEF HandleClosed, InsertRow, UpdateRow, Truncate, FillFile, FillFails,
     InsertFlow, DropFlow, Mirror, Assign, Select, Stat, CheckClosed, DeleteRow
<1>12. ASSUME NEW p \in Calls,
             \/ ExportRow(p) \/ Snapshot(p) \/ CopyBlobs(p)
             \/ CheckFree(p) \/ ExtractBlobs(p) \/ Rebind(p) \/ Register(p) \/ Merge(p)
      PROVE  Apart'
  BY <1>2, <1>3, <1>12 DEF ExportRow, Snapshot, CopyBlobs, CheckFree, ExtractBlobs, Rebind,
     Register, Merge
<1>13. ASSUME NEW p \in Calls, Look(p) PROVE Apart'
  BY <1>1, <1>13, LookFacts DEF Look
<1>14. ASSUME NEW p \in Calls, DropHandle(p) PROVE Apart'
  <2>1. \A s \in Sids : pool'[s] \in {pool[s], None} /\ file'[s] = file[s]
    BY <1>14 DEF DropHandle, TypeInv, TypeOK
  <2> QED BY <1>1, <1>14, <2>1, GotoFacts DEF DropHandle, Kept
<1>15. ASSUME NEW p \in Calls, RemoveAll(p) \/ Cleanup(p) PROVE Apart'
  <2>1. \A s \in Sids : file'[s] \in {file[s], None} /\ pool'[s] = pool[s]
    BY <1>15 DEF RemoveAll, Cleanup, Removed, TypeInv, TypeOK
  <2> QED BY <1>1, <1>15, <2>1, ReturnFacts DEF RemoveAll, Cleanup
<1>16. ASSUME NEW p \in Calls, ExtractDb(p) PROVE Apart'
  <2>1. call[p].sid \in Sids
    BY <1>16, Somewhere DEF ExtractDb, At
  <2>2. Others(p) /\ Kept(p) /\ call'[p].g = call[p].g /\ pool' = pool
    BY <1>16, GotoFacts DEF ExtractDb
  <2>3. CASE file[call[p].sid] = None
    <3>1. file' = [file EXCEPT ![call[p].sid] = NextGen]
      BY <1>16, <2>3 DEF ExtractDb
    <3> QED BY <1>8, <2>1, <2>2, <3>1 DEF Kept
  <2>4. CASE file[call[p].sid] # None
    <3>1. file' = file
      BY <1>16, <2>4 DEF ExtractDb, TypeInv, TypeOK
    <3> QED BY <1>1, <2>2, <3>1 DEF Kept
  <2> QED BY <2>3, <2>4
<1>17. CASE Crash
  <2>1. /\ \A q \in Calls : call'[q].g = None
        /\ \A s \in Sids : pool'[s] = None /\ file'[s] = file[s]
    BY <1>17 DEF Crash, Idle
  <2> QED BY <2>1, ApartKept DEF Holds
<1>18. CASE UNCHANGED vars
  BY <1>18, ApartKept DEF vars, Holds
<1>19. ASSUME NEW d \in Defs, Define(d) \/ Undefine(d) PROVE Apart'
  BY <1>19, ApartKept DEF Define, Undefine, Holds
<1> QED BY <1>6, <1>7, <1>9, <1>10, <1>11, <1>12, <1>13, <1>14, <1>15, <1>16, <1>17, <1>18, <1>19
        DEF Next

-----------------------------------------------------------------------------
(* A session whose calls raced no deletion and no import.                    *)

\* A deletion or an import works alone on it, and it is created once.
Solo(s) ==
    \A p, q \in Calls : call[p].sid = s /\ call[q].sid = s =>
        /\ call[p].op \in Destroys => p = q
        /\ call[p].op = "create" /\ call[q].op = "create" => p = q

\* The calls that work on a session the catalog has.
OnListed(c) ==
    \/ c.op \notin {"create", "delete", "import"}
    \/ c.op = "create" /\ c.at # "insert"
    \/ c.op = "delete" /\ c.at \in {"handle", "row"}
    \/ c.op = "import" /\ c.at \in {"open", "merge"}

\* How far the call is with the catalog, the pool and the directory.
Staged(c, s) ==
    /\ OnListed(c) => row[s] # "none"
    /\ c.op = "create" /\ c.at = "insert" => row[s] = "none" /\ file[s] = None
    /\ c.op = "delete" => c.at \in {"check", "handle", "row", "files"}
    /\ c.op = "delete" /\ c.at = "files" => row[s] = "none"
    /\ c.op = "delete" /\ c.at \in {"row", "files"} => pool[s] = None
    /\ c.op = "import" /\ c.at \in {"extract", "extractblobs", "rebind", "register"} =>
          row[s] = "none"
    /\ c.op = "import" /\ c.at \in {"extractblobs", "rebind", "register"} => file[s] # None
    /\ c.g # None => c.g = file[s]

\* A database refers to bodies that are of session s and whose files are there, and
\* names the definitions it assigns.
Whole(d, s, files) ==
    /\ \A b \in Bodies : d.blobs[b] \in {"absent", s}
    /\ \A f \in Flows, b \in Bodies : d.flows[f] = b => d.blobs[b] = s /\ files[b] # "absent"
Named(d) == \A f \in Flows, e \in Defs : <<f, e>> \in d.tagged => e \in d.defs
Sound(d, s, files) == Whole(d, s, files) /\ Named(d)

\* What the call has written so far.
Brought(c, s) ==
    /\ c.op = "write" /\ c.at \in {"spilled", "commit"} /\ c.b # None => spill[s][c.b] # "absent"
    /\ (c.op = "tag" /\ c.at = "commit") \/ (c.op = "toggle" /\ c.at = "look") =>
          c.d \in db[file[s]].defs
    /\ c.op = "import" /\ c.at = "extractblobs" => db[file[s]] = archive.db
    /\ c.op = "import" /\ c.at = "rebind" => Sound(db[file[s]], archive.sid, spill[s])
    /\ c.op = "import" /\ c.at = "register" => Sound(db[file[s]], s, spill[s])

Fits(s) == \A p \in Calls : call[p].sid = s => Staged(call[p], s) /\ Brought(call[p], s)

\* The pool has the database at the session's path, readable.
Served(s) ==
    /\ row[s] = "none" => pool[s] = None
    /\ pool[s] # None => pool[s] = file[s] /\ pool[s] \notin shut /\ db[pool[s]].version = "current"

Intact(s) == row[s] # "none" /\ file[s] # None => Sound(db[file[s]], s, spill[s])

\* Without a fault, the catalog and the disk differ only while a call is at work.
Creating(s) == \E p \in Calls : call[p].sid = s /\ call[p].op = "create" /\ call[p].at = "open"
Moving(s) ==
    \E p \in Calls :
        /\ call[p].sid = s
        /\ \/ call[p].op = "delete" /\ call[p].at = "files"
           \/ call[p].op = "import" /\ call[p].at \in {"extractblobs", "rebind", "register"}
Matches(s) ==
    faults = 0 =>
        /\ row[s] # "none" /\ file[s] = None => Creating(s)
        /\ row[s] = "none" => (file[s] = None /\ spill[s] = NoFiles) \/ Moving(s)

SessionOK(s) == Solo(s) /\ Fits(s) /\ Served(s) /\ Intact(s) /\ Matches(s)

SessionInv == \A s \in Sids \ contended : SessionOK(s)

\* What an import reads is sound if nobody raced for its session, then or when the
\* archive was written.
Reading ==
    \A p \in Calls : call[p].op = "import" =>
        /\ call[p].sid \notin contended => Sound(archive.db, archive.sid, archive.blobs)
        /\ call[p].at = "rebind" => call[p].sid # archive.sid

\* So is what an export has written.
Archived ==
    /\ archive # None /\ archive.done /\ archive.sid \notin contended =>
          Sound(archive.db, archive.sid, archive.blobs)
    /\ \A p \in Calls :
          call[p].op = "export" /\ call[p].at = "blobs" /\ call[p].sid \notin contended =>
              Sound(archive.db, archive.sid, spill[archive.sid])

BundleInv == TypeInv /\ OneArchive /\ Apart /\ SessionInv /\ Reading /\ Archived

\* A step that leaves a session, its bundle and its calls alone.
Untouched(s) ==
    /\ row'[s] = row[s] /\ file'[s] = file[s] /\ pool'[s] = pool[s] /\ spill'[s] = spill[s]
    /\ file[s] # None => db'[file[s]] = db[file[s]]
    /\ pool[s] # None /\ pool[s] \notin shut => pool[s] \notin shut'
    /\ \A q \in Calls : call[q].sid = s \/ call'[q].sid = s => call'[q] = call[q]
    /\ archive' = archive \/ \A q \in Calls : call[q].op # "import"
    /\ faults' = 0 => faults = 0

\* Such a step leaves it as sound as it was.
LEMMA UntouchedOK == 
    ASSUME TypeInv, NEW s \in Sids, SessionOK(s), Untouched(s) PROVE SessionOK(s)'
<1>1. Solo(s)'
  BY DEF SessionOK, Untouched, Solo
<1>2. Fits(s)'
  <2>1. SUFFICES ASSUME NEW q \in Calls, call'[q].sid = s
                 PROVE  Staged(call[q], s)' /\ Brought(call[q], s)'
    BY DEF Fits
  <2>2. call'[q] = call[q] /\ Staged(call[q], s) /\ Brought(call[q], s)
    BY <2>1 DEF Untouched, SessionOK, Fits
  <2>3. call[q].op = "import" => archive' = archive
    BY <2>1 DEF Untouched
  <2>4. Staged(call[q], s)'
    BY <2>2 DEF Untouched, Staged, OnListed
  <2>5. Brought(call[q], s)'
    <3>1. CallOK(call[q]) /\ call[q] # Idle
      BY <2>1, <2>2, StoreAssumption DEF TypeInv, Idle
    <3>2. /\ call[q].at \in {"commit", "look"} => file[s] # None
          /\ call[q].op = "import" /\ call[q].at \in {"extractblobs", "rebind", "register"} =>
                file[s] # None
      BY <2>2, <3>1 DEF CallOK, Staged, Held
    <3> QED BY <2>2, <2>3, <3>2 DEF Untouched, Brought
  <2> QED BY <2>4, <2>5
<1>3. Served(s)'
  BY DEF SessionOK, Untouched, Served
<1>4. Intact(s)'
  BY DEF SessionOK, Untouched, Intact
<1>5. Matches(s)'
  BY DEF SessionOK, Untouched, Matches, Creating, Moving
<1> QED BY <1>1, <1>2, <1>3, <1>4, <1>5 DEF SessionOK

\* No call touches another session than its own.
LEMMA Elsewhere ==
    ASSUME TypeInv, OneArchive, Apart, NEW p \in Calls, NEW s \in Sids,
           call[p].sid # s, call'[p].sid # s,
           \/ OpenPooled(p) \/ OpenCreates(p) \/ OpenFile(p) \/ HandleClosed(p)
           \/ InsertRow(p) \/ UpdateRow(p)
           \/ Truncate(p) \/ FillFile(p) \/ FillFails(p) \/ InsertFlow(p) \/ DropFlow(p)
           \/ Mirror(p) \/ Look(p) \/ Assign(p) \/ Select(p) \/ Stat(p)
           \/ CheckClosed(p) \/ DropHandle(p) \/ DeleteRow(p) \/ RemoveAll(p)
           \/ ExportRow(p) \/ Snapshot(p) \/ CopyBlobs(p)
           \/ CheckFree(p) \/ ExtractDb(p) \/ ExtractBlobs(p) \/ Rebind(p)
           \/ Register(p) \/ Cleanup(p) \/ Merge(p)
    PROVE  Untouched(s)
<1> DEFINE t == call[p].sid
<1>1. t \in Sids
  <2>1. call[p].at # "idle"
    BY DEF OpenPooled, OpenCreates, OpenFile, HandleClosed, InsertRow, UpdateRow, Truncate,
       FillFile, FillFails, InsertFlow, DropFlow, Mirror, Look, Assign, Select, Stat, CheckClosed,
       DropHandle, DeleteRow, RemoveAll, ExportRow, Snapshot, CopyBlobs, CheckFree, ExtractDb,
       ExtractBlobs, Rebind, Register, Cleanup, Merge, At
  <2> QED BY <2>1, Somewhere
<1>2. /\ row \in [Sids -> {"none", "open", "closed"}]
      /\ file \in [Sids -> Gens \cup {None}] /\ pool \in [Sids -> Gens \cup {None}]
      /\ DOMAIN db = Gens /\ DOMAIN spill = Sids
      /\ faults \in Nat
  BY DEF TypeInv, TypeOK
\* What the session holds is not what the call holds.
<1>3. \A g \in Gens : file[s] = g \/ pool[s] = g => g # call[p].g /\ g # file[t] /\ g # pool[t]
  <2>1. None \notin Gens
    BY StoreAssumption DEF Gens
  <2>2. SUFFICES ASSUME NEW g \in Gens, file[s] = g \/ pool[s] = g,
                        g = call[p].g \/ g = file[t] \/ g = pool[t]
                 PROVE  FALSE
    OBVIOUS
  <2>3. PICK u \in Sids : u = t
    BY <1>1
  <2>4. Holds(s, g)
    BY <2>1, <2>2 DEF Holds
  <2>5. Holds(u, g)
    <3>1. call[p].sid = u /\ (g = call[p].g \/ g = file[u] \/ g = pool[u])
      BY <2>2, <2>3
    <3> QED BY <2>1, <3>1 DEF Holds
  <2> QED BY <2>3, <2>4, <2>5 DEF Apart
<1>4. \A g \in Gens : file[s] = g \/ pool[s] = g => g # NextGen
  BY NextGenIsFree
<1>5. ASSUME Others(p), archive' = archive \/ \A q \in Calls : call[q].op # "import",
             row'[s] = row[s], file'[s] = file[s], pool'[s] = pool[s], spill'[s] = spill[s],
             faults' = faults \/ faults' = faults + 1,
             \A h \in Gens \ {call[p].g, file[t], NextGen} : db'[h] = db[h],
             \/ shut' \subseteq shut
             \/ shut' = shut \cup {pool[t]}
      PROVE  Untouched(s)
  <2>1. file[s] # None => db'[file[s]] = db[file[s]]
    BY <1>2, <1>3, <1>4, <1>5
  <2>2. pool[s] # None /\ pool[s] \notin shut => pool[s] \notin shut'
    BY <1>2, <1>3, <1>5
  <2>3. faults' = 0 => faults = 0
    BY <1>2, <1>5
  <2> QED BY <1>5, <2>1, <2>2, <2>3 DEF Untouched, Others
<1>6. \/ FillFails(p) \/ HandleClosed(p) \/ Look(p) \/ Select(p) \/ Stat(p) \/ CheckClosed(p)
      \/ CheckFree(p) \/ OpenPooled(p)
      => Untouched(s)
  BY <1>5, GotoFacts, ReturnFacts, HoldingFacts, LookFacts DEF FillFails, HandleClosed, Look,
     Select, Stat, CheckClosed, CheckFree, OpenPooled, data
<1>7. OpenCreates(p) \/ OpenFile(p) => Untouched(s)
  BY <1>1, <1>2, <1>5, ReturnFacts, HoldingFacts DEF OpenCreates, OpenFile
<1>8. InsertRow(p) \/ UpdateRow(p) \/ Truncate(p) \/ FillFile(p) => Untouched(s)
  BY <1>1, <1>2, <1>5, ReturnFacts, GotoFacts DEF InsertRow, UpdateRow, Truncate, FillFile
<1>9. InsertFlow(p) \/ DropFlow(p) \/ Mirror(p) \/ Assign(p) => Untouched(s)
  <2>1. InsertFlow(p) \/ DropFlow(p) \/ Mirror(p) \/ Assign(p) =>
           \A h \in Gens \ {call[p].g} : db'[h] = db[h]
    BY <1>2 DEF InsertFlow, DropFlow, Mirror, Assign
  <2> QED BY <1>5, <2>1, ReturnFacts, GotoFacts DEF InsertFlow, DropFlow, Mirror, Assign
<1>10. DropHandle(p) \/ DeleteRow(p) \/ RemoveAll(p) => Untouched(s)
  BY <1>1, <1>2, <1>5, ReturnFacts, GotoFacts DEF DropHandle, DeleteRow, RemoveAll, Removed
<1>11. ExportRow(p) \/ Snapshot(p) \/ CopyBlobs(p) => Untouched(s)
  <2>1. ExportRow(p) \/ Snapshot(p) \/ CopyBlobs(p) => \A q \in Calls : call[q].op # "import"
    BY DEF OneArchive, ExportRow, Snapshot, CopyBlobs, At
  <2> QED BY <1>5, <2>1, ReturnFacts, GotoFacts DEF ExportRow, Snapshot, CopyBlobs
<1>12. Register(p) \/ Cleanup(p) \/ Merge(p) \/ ExtractBlobs(p) => Untouched(s)
  BY <1>1, <1>2, <1>5, ReturnFacts, GotoFacts DEF Register, Cleanup, Merge, ExtractBlobs, Removed
<1>13. ExtractDb(p) \/ Rebind(p) => Untouched(s)
  <2>1. CASE ExtractDb(p)
    BY <1>1, <1>2, <1>5, <2>1, GotoFacts DEF ExtractDb
  <2>2. CASE Rebind(p)
    <3>1. \A h \in Gens \ {file[t]} : db'[h] = db[h]
      BY <1>2, <2>2 DEF Rebind
    <3> QED BY <1>5, <2>2, <3>1, GotoFacts DEF Rebind
  <2> QED BY <2>1, <2>2
<1> QED BY <1>6, <1>7, <1>8, <1>9, <1>10, <1>11, <1>12, <1>13

-----------------------------------------------------------------------------
(* The steps of a call on its own session.                                   *)

\* A call that goes on, becomes an annotation, or returns, leaves the session to as few.
LEMMA SoloKept ==
    ASSUME NEW s \in Sids, Solo(s), NEW p \in Calls, Others(p),
           \/ call'[p].sid = None
           \/ /\ call'[p].sid = call[p].sid
              /\ call'[p].op = call[p].op \/ call'[p].op \in {"tag", "untag"}
    PROVE  Solo(s)'
<1>1. None # s
  BY StoreAssumption
<1>2. SUFFICES ASSUME NEW q \in Calls, NEW r \in Calls, call'[q].sid = s, call'[r].sid = s
               PROVE  /\ call'[q].op \in Destroys => q = r
                      /\ call'[q].op = "create" /\ call'[r].op = "create" => q = r
  BY DEF Solo
<1>3. call[q].sid = s /\ call[r].sid = s
  BY <1>1, <1>2 DEF Others
<1>4. ASSUME NEW o \in Calls
      PROVE  call'[o].op = call[o].op \/ call'[o].op \notin {"create", "delete", "import"}
             \/ call'[o].sid = None
  BY DEF Others
<1>5. /\ call'[q].op = call[q].op \/ call'[q].op \notin {"create", "delete", "import"}
      /\ call'[r].op = call[r].op \/ call'[r].op \notin {"create", "delete", "import"}
  BY <1>1, <1>2, <1>4
<1>6. /\ call[q].op \in Destroys => q = r
      /\ call[q].op = "create" /\ call[r].op = "create" => q = r
  BY <1>3 DEF Solo
<1> QED BY <1>5, <1>6 DEF Destroys

\* A deletion or an import has its session for itself.
LEMMA Alone ==
    ASSUME NEW s \in Sids, Solo(s), NEW p \in Calls, call[p].sid = s, call[p].op \in Destroys,
           Others(p)
    PROVE  \A q \in Calls : call[q].sid = s \/ call'[q].sid = s => q = p
  BY DEF Solo, Others

\* A step that only adds to the session, and leaves one the catalog does not have.
Still(s) ==
    /\ row'[s] = "none" <=> row[s] = "none"
    /\ file'[s] = file[s]
    /\ Served(s)'
    /\ pool[s] # None \/ pool'[s] = None
         \/ \A q \in Calls : call[q].sid = s => call[q].op # "delete"
    /\ row[s] = "none" => spill'[s] = spill[s] /\ (file[s] # None => db'[file[s]] = db[file[s]])
    /\ \A b \in Bodies : spill[s][b] # "absent" => spill'[s][b] # "absent"
    /\ file[s] # None => db[file[s]].defs \subseteq db'[file[s]].defs
    /\ Intact(s)'
    /\ archive' = archive \/ \A q \in Calls : call[q].op # "import"
    /\ faults' = 0 => faults = 0

\* The call is one of those that keep catalog and disk apart.
AtWork(c) ==
    \/ c.op = "create" /\ c.at = "open"
    \/ c.op = "delete" /\ c.at = "files"
    \/ c.op = "import" /\ c.at \in {"extractblobs", "rebind", "register"}

\* What a call has done to the session is still so after such a step.
LEMMA StillFits ==
    ASSUME TypeInv, NEW s \in Sids, Still(s), NEW q \in Calls, call'[q].sid = s,
           NEW c \in CallRecords, c = call'[q], CallOK(c), c # Idle, Staged(c, s), Brought(c, s),
           call[q].op = "import" <=> c.op = "import",
           pool[s] # None \/ pool'[s] = None \/ c.op # "delete"
    PROVE  (Staged(call[q], s) /\ Brought(call[q], s))'
<1>1. /\ c.at \in {"commit", "look"} => file[s] # None
      /\ c.op = "import" /\ c.at \in {"extractblobs", "rebind", "register"} =>
            file[s] # None /\ row[s] = "none"
  BY DEF CallOK, Staged, Held
<1>2. Staged(call[q], s)'
  <2>1. /\ OnListed(c) => row'[s] # "none"
        /\ c.op = "create" /\ c.at = "insert" => row'[s] = "none" /\ file'[s] = None
        /\ c.op = "delete" => c.at \in {"check", "handle", "row", "files"}
        /\ c.op = "delete" /\ c.at = "files" => row'[s] = "none"
    BY DEF Staged, Still
  <2>2. c.op = "delete" /\ c.at \in {"row", "files"} => pool'[s] = None
    BY DEF Staged, Still
  <2>3. /\ c.op = "import" /\ c.at \in {"extract", "extractblobs", "rebind", "register"} =>
              row'[s] = "none"
        /\ c.op = "import" /\ c.at \in {"extractblobs", "rebind", "register"} => file'[s] # None
        /\ c.g # None => c.g = file'[s]
    BY DEF Staged, Still
  <2> QED BY <2>1, <2>2, <2>3 DEF Staged, OnListed
<1>3. Brought(call[q], s)'
  <2>1. c.op = "write" /\ c.at \in {"spilled", "commit"} /\ c.b # None => spill'[s][c.b] # "absent"
    <3>1. c.b \in Bodies \cup {None}
      BY DEF CallRecords
    <3> QED BY <3>1 DEF Brought, Still
  <2>2. (c.op = "tag" /\ c.at = "commit") \/ (c.op = "toggle" /\ c.at = "look") =>
            c.d \in db'[file'[s]].defs
    BY <1>1 DEF Brought, Still
  <2>3. c.op = "import" /\ c.at \in {"extractblobs", "rebind", "register"} =>
            db'[file'[s]] = db[file[s]] /\ spill'[s] = spill[s] /\ archive' = archive
    BY <1>1 DEF Still
  <2> QED BY <2>1, <2>2, <2>3 DEF Brought
<1> QED BY <1>2, <1>3

\* So the session stays as sound as it was.
LEMMA CallMoves ==
    ASSUME TypeInv, TypeInv', NEW s \in Sids, SessionOK(s), Still(s), Solo(s)',
           NEW p \in Calls, Others(p), NEW c, c = call'[p],
           \/ c.sid = s => /\ Staged(c, s) /\ Brought(c, s)
                           /\ call[p].op = "import" <=> c.op = "import"
                           /\ pool[s] # None \/ pool'[s] = None \/ c.op # "delete"
           \/ (Staged(call[p], s) /\ Brought(call[p], s))',
           call[p].sid = s /\ AtWork(call[p]) =>
              \/ faults' # 0
              \/ c.sid = s /\ c.op = call[p].op /\ c.at = call[p].at
              \/ call[p].op = "create" /\ file[s] # None
    PROVE  SessionOK(s)'
<1>1. Fits(s)'
  <2>1. SUFFICES ASSUME NEW q \in Calls, call'[q].sid = s
                 PROVE  (Staged(call[q], s) /\ Brought(call[q], s))'
    BY DEF Fits
  <2>2. PICK e : e = call'[q]
    OBVIOUS
  <2>3. e \in CallRecords /\ CallOK(e) /\ e # Idle
    BY <2>1, <2>2, StoreAssumption DEF TypeInv, Idle
  <2>4. CASE q = p
    BY <2>1, <2>2, <2>3, <2>4, StillFits
  <2>5. CASE q # p
    <3>1. e = call[q] /\ call[q].sid = s
      BY <2>1, <2>2, <2>5 DEF Others
    <3>2. Staged(e, s) /\ Brought(e, s)
      BY <3>1 DEF SessionOK, Fits
    <3>3. pool[s] # None \/ pool'[s] = None \/ e.op # "delete"
      BY <3>1 DEF Still
    <3> QED BY <2>1, <2>2, <2>3, <3>1, <3>2, <3>3, StillFits
  <2> QED BY <2>4, <2>5
<1>2. Matches(s)'
  <2>1. SUFFICES ASSUME faults' = 0
                 PROVE  /\ row'[s] # "none" /\ file'[s] = None => Creating(s)'
                        /\ row'[s] = "none" =>
                              (file'[s] = None /\ spill'[s] = NoFiles) \/ Moving(s)'
    BY DEF Matches
  <2>2. /\ row[s] # "none" /\ file[s] = None => Creating(s)
        /\ row[s] = "none" => (file[s] = None /\ spill[s] = NoFiles) \/ Moving(s)
    BY <2>1 DEF SessionOK, Matches, Still
  <2>3. ASSUME NEW q \in Calls, call[q].sid = s, AtWork(call[q]),
               call[q].op = "create" => file[s] = None
        PROVE  call'[q].sid = s /\ call'[q].op = call[q].op /\ call'[q].at = call[q].at
    BY <2>1, <2>3 DEF Others
  <2>4. (file[s] = None /\ Creating(s) => Creating(s)') /\ (Moving(s) => Moving(s)')
    BY <2>3 DEF Creating, Moving, AtWork
  <2> QED BY <2>2, <2>4 DEF Still
<1> QED BY <1>1, <1>2 DEF Still, SessionOK

\* A step that changes no data adds nothing.
LEMMA DataKept ==
    ASSUME NEW s \in Sids, SessionOK(s), UNCHANGED <<row, file, db, spill, pool, shut>>,
           archive' = archive \/ \A q \in Calls : call[q].op # "import",
           faults \in Nat, faults' = faults \/ faults' = faults + 1
    PROVE  Still(s)
<1>1. Served(s)' /\ Intact(s)'
  BY DEF SessionOK, Served, Intact
<1> QED BY <1>1 DEF Still

\* A call that returns without having kept catalog and disk apart.
LEMMA ReturnsWell ==
    ASSUME TypeInv, TypeInv', NEW p \in Calls, Return(p), NEW s \in Sids, s = call[p].sid,
           SessionOK(s), Still(s),
           AtWork(call[p]) => faults' # 0 \/ (call[p].op = "create" /\ file[s] # None)
    PROVE  SessionOK(s)'
<1>1. Others(p) /\ call'[p].sid = None /\ None # s
  BY ReturnFacts, StoreAssumption
<1>2. Solo(s)'
  BY <1>1, SoloKept DEF SessionOK
<1>3. PICK c : c = call'[p]
  OBVIOUS
<1> QED BY <1>1, <1>2, <1>3, CallMoves

\* A call that goes on to where its session already is.
LEMMA GoesWell ==
    ASSUME TypeInv, TypeInv', NEW p \in Calls, NEW at, Goto(p, at), NEW s \in Sids, s = call[p].sid,
           SessionOK(s), Still(s), ~AtWork(call[p]),
           pool[s] # None \/ pool'[s] = None \/ call[p].op # "delete",
           NEW c, c = call'[p], Staged(c, s), Brought(c, s)
    PROVE  SessionOK(s)'
<1>1. Others(p) /\ c.sid = s /\ c.op = call[p].op
  BY GotoFacts DEF Kept
<1>2. Solo(s)'
  BY <1>1, SoloKept DEF SessionOK
<1> QED BY <1>1, <1>2, CallMoves

\* The steps that read.
LEMMA ReadingSteps ==
    ASSUME TypeInv, TypeInv', OneArchive, NEW p \in Calls, NEW s \in Sids, s = call[p].sid,
           SessionOK(s),
           \/ OpenPooled(p) \/ HandleClosed(p) \/ FillFails(p) \/ Look(p) \/ Select(p) \/ Stat(p)
           \/ CheckClosed(p) \/ CheckFree(p) \/ ExportRow(p) \/ Snapshot(p) \/ CopyBlobs(p)
           \/ Merge(p)
    PROVE  SessionOK(s)'
<1> USE DEF data
<1>1. /\ Staged(call[p], s) /\ Brought(call[p], s)
      /\ Solo(s) /\ Served(s)
  BY DEF SessionOK, Fits
<1>2. Still(s)
  <2>1. ExportRow(p) \/ Snapshot(p) \/ CopyBlobs(p) => \A q \in Calls : call[q].op # "import"
    BY DEF OneArchive, ExportRow, Snapshot, CopyBlobs, At
  <2>2. faults \in Nat
    BY DEF TypeInv
  <2>3. OpenPooled(p) \/ HandleClosed(p) \/ FillFails(p) \/ Look(p) \/ Select(p) \/ Stat(p)
        => Still(s)
    BY <2>2, DataKept DEF OpenPooled, HandleClosed, FillFails, Look, Select, Stat
  <2>4. CheckClosed(p) \/ CheckFree(p) \/ ExportRow(p) \/ Snapshot(p) \/ CopyBlobs(p) \/ Merge(p)
        => Still(s)
    BY <2>1, <2>2, DataKept DEF CheckClosed, CheckFree, ExportRow, Snapshot, CopyBlobs, Merge
  <2> QED BY <2>3, <2>4
<1>3. PICK c : c = call'[p]
  OBVIOUS
<1>4. CASE Return(p)
  <2>1. ~AtWork(call[p]) \/ faults' # 0
    <3>1. faults \in Nat
      BY DEF TypeInv
    <3>2. OpenPooled(p) => call[p].at = "open" /\ ~Return(p)
      BY HoldingFacts, ReturnFacts, Somewhere DEF OpenPooled, Kept, Idle
    <3> QED BY <1>4, <3>1, <3>2, ReturnFacts, LookFacts DEF AtWork, HandleClosed, FillFails, Look,
               Select, Stat, CheckClosed, CheckFree, ExportRow, Snapshot, CopyBlobs, Merge, At
  <2> QED BY <1>2, <1>4, <2>1, ReturnsWell
<1>5. CASE OpenPooled(p)
  <2>1. call[p].at = "open" /\ pool[s] # None
    BY <1>5 DEF OpenPooled
  <2>2. /\ Others(p) /\ c.op = call[p].op /\ c.sid = s /\ c.d = call[p].d /\ c.b = call[p].b
        /\ c.at = AfterOpen(call[p]) /\ c.g = pool[s]
    BY <1>3, <1>5, HoldingFacts DEF OpenPooled, Kept
  <2>3. /\ pool[s] = file[s] /\ row[s] # "none" /\ call[p].op # "delete"
    BY <1>1, <2>1 DEF Served, Staged
  <2>4. Staged(c, s)
    BY <1>1, <2>1, <2>2, <2>3 DEF Staged, OnListed, AfterOpen
  <2>5. Brought(c, s)
    BY <2>2 DEF Brought, AfterOpen
  <2>6. AtWork(call[p]) => call[p].op = "create" /\ file[s] # None
    BY <2>1, <2>3 DEF AtWork
  <2>7. Solo(s)'
    BY <1>1, <1>3, <2>2, SoloKept
  <2> QED BY <1>2, <1>3, <2>1, <2>2, <2>3, <2>4, <2>5, <2>6, <2>7, CallMoves
<1>6. CASE Look(p)
  <2>1. /\ Others(p) /\ c.op \in {"tag", "untag"} /\ c.sid = s /\ c.g = call[p].g
        /\ c.at = "open" /\ call[p].op = "toggle" /\ call[p].at = "look"
    BY <1>3, <1>6, LookFacts
  <2>2. Staged(c, s) /\ Brought(c, s)
    BY <1>1, <2>1 DEF Staged, Brought, OnListed
  <2>3. Solo(s)'
    BY <1>1, <1>3, <2>1, SoloKept
  <2> QED BY <1>2, <1>3, <2>1, <2>2, <2>3, CallMoves DEF AtWork
<1>7. ASSUME NEW at, Goto(p, at),
             \/ Stat(p) /\ at = "open"
             \/ CheckClosed(p) /\ at = "handle" /\ row[s] = "closed"
             \/ CheckFree(p) /\ at = "extract" /\ row[s] = "none"
             \/ ExportRow(p) /\ at = "open" /\ row[s] # "none"
             \/ Snapshot(p) /\ at = "blobs"
      PROVE  SessionOK(s)'
  <2>1. /\ c.op = call[p].op /\ c.sid = s /\ c.d = call[p].d /\ c.b = call[p].b
        /\ c.at = at /\ c.g = call[p].g
    BY <1>3, <1>7, GotoFacts DEF Kept
  <2>2. Staged(c, s)
    BY <1>1, <1>7, <2>1 DEF Staged, OnListed, Stat, CheckClosed, CheckFree, ExportRow, Snapshot, At
  <2>3. Brought(c, s)
    BY <1>7, <2>1 DEF Brought, Stat, CheckClosed, CheckFree, ExportRow, Snapshot, At
  <2>4. ~AtWork(call[p])
    BY <1>7 DEF AtWork, Stat, CheckClosed, CheckFree, ExportRow, Snapshot, At
  <2>5. pool[s] # None \/ pool'[s] = None
    BY <1>7 DEF Stat, CheckClosed, CheckFree, ExportRow, Snapshot
  <2> QED BY <1>2, <1>3, <1>7, <2>2, <2>3, <2>4, <2>5, GoesWell
<1>8. HandleClosed(p) \/ FillFails(p) \/ Select(p) \/ CopyBlobs(p) \/ Merge(p) => Return(p)
  BY DEF HandleClosed, FillFails, Select, CopyBlobs, Merge
<1>9. Stat(p) => Return(p) \/ Goto(p, "open")
  BY DEF Stat
<1>10. CheckClosed(p) => Return(p) \/ (Goto(p, "handle") /\ row[s] = "closed")
  BY DEF CheckClosed
<1>11. CheckFree(p) => Return(p) \/ (Goto(p, "extract") /\ row[s] = "none")
  BY DEF CheckFree
<1>12. ExportRow(p) => Return(p) \/ (Goto(p, "open") /\ row[s] # "none")
  BY DEF ExportRow
<1>13. Snapshot(p) => Goto(p, "blobs")
  BY DEF Snapshot
<1> QED BY <1>4, <1>5, <1>6, <1>7, <1>8, <1>9, <1>10, <1>11, <1>12, <1>13

\* The catalog row is finished, the file of a body written, the handle dropped.
LEMMA FilingSteps ==
    ASSUME TypeInv, TypeInv', NEW p \in Calls, NEW s \in Sids, s = call[p].sid, SessionOK(s),
           UpdateRow(p) \/ Truncate(p) \/ FillFile(p) \/ DropHandle(p)
    PROVE  SessionOK(s)'
<1>1. /\ Staged(call[p], s) /\ Brought(call[p], s)
      /\ Solo(s) /\ Served(s) /\ Intact(s)
  BY DEF SessionOK, Fits
<1>2. row \in [Sids -> {"none", "open", "closed"}] /\ pool \in [Sids -> Gens \cup {None}]
  BY DEF TypeInv, TypeOK
<1>3. PICK c : c = call'[p]
  OBVIOUS
<1>4. CASE UpdateRow(p)
  <2>1. row[s] # "none"
    BY <1>1, <1>4 DEF Staged, OnListed, UpdateRow, At
  <2>2. row'[s] = "closed" /\ Served(s)' /\ Intact(s)'
    BY <1>1, <1>2, <1>4, <2>1 DEF UpdateRow, Served, Intact
  <2>3. Still(s)
    BY <1>4, <2>1, <2>2 DEF UpdateRow, Still
  <2> QED BY <1>4, <2>3, ReturnsWell DEF UpdateRow, AtWork, At
<1>5. ASSUME NEW v, NEW at, spill' = [spill EXCEPT ![s][call[p].b] = v], v # "absent", Goto(p, at),
             call[p].op = "write", at \in {"spilled", "commit"}, call[p].at \in {"spill", "spilled"},
             UNCHANGED <<row, file, db, pool, shut, archive, faults>>
      PROVE  SessionOK(s)'
  <2>1. row[s] # "none" /\ call[p].b \in Bodies
    BY <1>1, <1>5, Somewhere DEF Staged, OnListed
  <2>2. /\ spill'[s][call[p].b] # "absent"
        /\ \A b \in Bodies : spill[s][b] # "absent" => spill'[s][b] # "absent"
    BY <1>5, <2>1 DEF TypeInv, TypeOK
  <2>3. Served(s)' /\ Intact(s)'
    BY <1>1, <1>5, <2>2 DEF Served, Intact, Sound, Whole
  <2>4. Still(s)
    BY <1>5, <2>1, <2>2, <2>3 DEF Still
  <2>5. /\ Others(p) /\ c.op = "write" /\ c.sid = s /\ c.b = call[p].b /\ c.at = at
        /\ c.g = call[p].g
    BY <1>3, <1>5, GotoFacts DEF Kept
  <2>6. Staged(call[p], s)'
    BY <1>1, <1>3, <1>5, <2>5 DEF Staged, OnListed
  <2>7. Brought(call[p], s)'
    BY <1>3, <2>2, <2>5 DEF Brought
  <2>8. Solo(s)'
    BY <1>1, <1>3, <1>5, <2>5, SoloKept
  <2> QED BY <1>3, <1>5, <2>4, <2>5, <2>6, <2>7, <2>8, CallMoves DEF AtWork
<1>6. CASE Truncate(p)
  BY <1>5, <1>6 DEF Truncate, At
<1>7. CASE FillFile(p)
  <2>1. spill[s][call[p].b] # "absent"
    <3>1. call[p].op = "write" /\ call[p].at = "spilled" /\ call[p].b \in Bodies
      BY <1>7, Somewhere DEF FillFile, At
    <3> QED BY <1>1, <3>1, StoreAssumption DEF Brought
  <2> DEFINE v == IF spill[s][call[p].b] = "torn" THEN "whole" ELSE spill[s][call[p].b]
  <2>2. v # "absent"
    BY <2>1
  <2>3. spill' = [spill EXCEPT ![s][call[p].b] = v]
    BY <1>7 DEF FillFile
  <2> HIDE DEF v
  <2> QED BY <1>5, <1>7, <2>2, <2>3 DEF FillFile, At
<1>8. CASE DropHandle(p)
  <2>1. pool'[s] = None /\ Served(s)' /\ Intact(s)'
    BY <1>1, <1>2, <1>8 DEF DropHandle, Served, Intact
  <2>2. Still(s)
    BY <1>8, <2>1 DEF DropHandle, Still
  <2>3. /\ Others(p) /\ c.op = "delete" /\ c.sid = s /\ c.b = call[p].b /\ c.at = "row"
        /\ c.g = call[p].g /\ c.op = call[p].op /\ call[p].at = "handle"
    BY <1>3, <1>8, GotoFacts DEF Kept, DropHandle, At
  <2>4. Staged(call[p], s)'
    BY <1>1, <1>3, <1>8, <2>1, <2>3 DEF Staged, OnListed, DropHandle
  <2>5. Brought(call[p], s)'
    BY <1>3, <2>3 DEF Brought
  <2>6. Solo(s)'
    BY <1>1, <1>3, <2>3, SoloKept
  <2> QED BY <1>3, <2>2, <2>3, <2>4, <2>5, <2>6, CallMoves DEF AtWork
<1> QED BY <1>4, <1>6, <1>7, <1>8

\* Flows and annotations are written, and a bundle is opened and migrated.
LEMMA RowSteps ==
    ASSUME TypeInv, TypeInv', NEW p \in Calls, NEW s \in Sids, s = call[p].sid, SessionOK(s),
           InsertFlow(p) \/ DropFlow(p) \/ Mirror(p) \/ Assign(p) \/ OpenFile(p)
    PROVE  SessionOK(s)'
<1>1. /\ Staged(call[p], s) /\ Brought(call[p], s)
      /\ Solo(s) /\ Served(s) /\ Intact(s)
  BY DEF SessionOK, Fits
<1>2. /\ row \in [Sids -> {"none", "open", "closed"}] /\ pool \in [Sids -> Gens \cup {None}]
      /\ db \in [Gens -> Databases]
  BY DEF TypeInv, TypeOK
<1>3. PICK c : c = call'[p]
  OBVIOUS
\* What the call does to the database the session holds.
<1>4. ASSUME row[s] # "none", NEW d, file[s] # None, db'[file[s]] = d,
             UNCHANGED <<row, file, spill, archive, faults>>, Served(s)',
             Sound(db[file[s]], s, spill[s]) => Sound(d, s, spill[s]),
             db[file[s]].defs \subseteq d.defs, call[p].op # "delete",
             pool[s] # None \/ pool'[s] = None \/ call[p].at = "open"
      PROVE  Still(s)
  <2>1. Intact(s)'
    BY <1>1, <1>4 DEF Intact
  <2>2. pool[s] # None \/ pool'[s] = None
            \/ \A q \in Calls : call[q].sid = s => call[q].op # "delete"
    BY <1>1, <1>4 DEF Solo, Destroys
  <2> QED BY <1>4, <2>1, <2>2 DEF Still
<1>5. ASSUME call[p].at # "open"
      PROVE  /\ row[s] # "none" /\ call[p].g = file[s] /\ file[s] # None /\ file[s] \in Gens
             /\ call[p].op \notin {"delete", "import"} /\ ~AtWork(call[p])
             /\ call[p] \in CallRecords /\ db[file[s]] \in Databases
             /\ call[p].f \in Flows /\ call[p].b \in Bodies \cup {None}
  <2>1. /\ call[p].at \in {"commit", "mirror"}
        /\ call[p].op \in {"write", "drop", "tag", "untag", "toggle"}
    BY <1>5 DEF InsertFlow, DropFlow, Mirror, Assign, OpenFile, At
  <2>2. call[p].g \in Gens /\ call[p].g # None
    BY <2>1, Somewhere, StoreAssumption DEF Held, Gens
  <2>3. call[p].g = file[s] /\ row[s] # "none"
    BY <1>1, <2>1, <2>2 DEF Staged, OnListed
  <2>4. call[p] \in CallRecords /\ call[p].f \in Flows /\ call[p].b \in Bodies \cup {None}
    BY <2>1, Somewhere
  <2> QED BY <1>2, <2>1, <2>2, <2>3, <2>4 DEF AtWork
<1>6. ASSUME NEW d \in Databases, db' = [db EXCEPT ![file[s]] = d], call[p].at # "open",
             UNCHANGED <<row, file, spill, pool, shut, archive, faults>>,
             Sound(db[file[s]], s, spill[s]) => Sound(d, s, spill[s]),
             db[file[s]].defs \subseteq d.defs, d.version = db[file[s]].version
      PROVE  Still(s)
  <2>1. db'[file[s]] = d
    BY <1>2, <1>5, <1>6
  <2>2. Served(s)'
    BY <1>1, <1>6, <2>1 DEF Served
  <2> QED BY <1>4, <1>5, <1>6, <2>1, <2>2
<1>7. CASE InsertFlow(p)
  <2> DEFINE e == db[file[s]]
             b == call[p].b
             d == [e EXCEPT !.flows[call[p].f] = IF b = None THEN "bodiless" ELSE b,
                            !.blobs = [x \in Bodies |-> IF x = b /\ @[x] = "absent"
                                                        THEN s ELSE @[x]]]
  <2>1. call[p].op = "write" /\ call[p].at = "commit"
    BY <1>7 DEF InsertFlow, At
  <2>2. e \in Databases /\ call[p].f \in Flows /\ b \in Bodies \cup {None}
    BY <1>5, <2>1
  <2>3. db' = [db EXCEPT ![file[s]] = d]
    <3>1. call[p].g = file[s] /\ call[p].sid = s /\ file[s] \in DOMAIN db
      BY <1>2, <1>5, <2>1 DEF TypeInv, TypeOK
    <3>2. db' = [db EXCEPT
             ![call[p].g].flows[call[p].f] = IF b = None THEN "bodiless" ELSE b,
             ![call[p].g].blobs = [x \in Bodies |-> IF x = b /\ @[x] = "absent"
                                                    THEN call[p].sid ELSE @[x]]]
      BY ONLY <1>7 DEF InsertFlow
    <3>3. db' = [db EXCEPT
             ![file[s]].flows[call[p].f] = IF b = None THEN "bodiless" ELSE b,
             ![file[s]].blobs = [x \in Bodies |-> IF x = b /\ @[x] = "absent" THEN s ELSE @[x]]]
      BY ONLY <3>1, <3>2, SMT
    <3> QED BY ONLY <3>1, <3>3, OneDatabase, Zenon
  <2>4. /\ d \in Databases /\ d.version = e.version /\ d.defs = e.defs /\ d.tagged = e.tagged
        /\ \A f \in Flows : d.flows[f] = IF f = call[p].f THEN IF b = None THEN "bodiless" ELSE b
                                         ELSE e.flows[f]
        /\ \A x \in Bodies : d.blobs[x] = IF x = b /\ e.blobs[x] = "absent" THEN s ELSE e.blobs[x]
    BY <2>2 DEF Databases
  <2>5. b # None => spill[s][b] # "absent"
    BY <1>1, <2>1 DEF Brought
  <2> HIDE DEF e, d, b
  <2>6. Sound(e, s, spill[s]) => Sound(d, s, spill[s])
    <3>1. SUFFICES ASSUME Whole(e, s, spill[s]), Named(e) PROVE Whole(d, s, spill[s]) /\ Named(d)
      BY DEF Sound
    <3>2. \A x \in Bodies : d.blobs[x] \in {"absent", s}
      BY <2>4, <3>1 DEF Whole
    <3>3. ASSUME NEW f \in Flows, NEW x \in Bodies, d.flows[f] = x
          PROVE  d.blobs[x] = s /\ spill[s][x] # "absent"
      <4>1. CASE f = call[p].f
        <5>1. x = b /\ b # None
          BY <2>4, <3>3, <4>1, StoreAssumption
        <5> QED BY <2>4, <2>5, <3>1, <3>3, <5>1 DEF Whole
      <4>2. CASE f # call[p].f
        <5>1. e.flows[f] = x
          BY <2>4, <3>3, <4>2
        <5>2. e.blobs[x] = s /\ spill[s][x] # "absent"
          BY <3>1, <3>3, <5>1 DEF Whole
        <5>3. s # "absent"
          BY StoreAssumption
        <5> QED BY <2>4, <3>3, <5>2, <5>3
      <4> QED BY <4>1, <4>2
    <3> QED BY <2>4, <3>1, <3>2, <3>3 DEF Whole, Named
  <2>7. Still(s)
    BY <1>6, <1>7, <2>1, <2>3, <2>4, <2>6 DEF InsertFlow, e
  <2> QED BY <1>5, <1>7, <2>1, <2>7, ReturnsWell DEF InsertFlow
<1>8. CASE DropFlow(p)
  <2> DEFINE e == db[file[s]]
             d == [e EXCEPT !.flows[call[p].f] = "absent"]
  <2>1. call[p].op = "drop" /\ call[p].at = "commit"
    BY <1>8 DEF DropFlow, At
  <2>2. e \in Databases /\ call[p].f \in Flows
    BY <1>5, <2>1
  <2>3. db' = [db EXCEPT ![file[s]] = d]
    BY <1>2, <1>5, <1>8, <2>1 DEF DropFlow
  <2>4. /\ d \in Databases /\ d.version = e.version /\ d.defs = e.defs /\ d.tagged = e.tagged
        /\ d.blobs = e.blobs
        /\ \A f \in Flows : d.flows[f] = IF f = call[p].f THEN "absent" ELSE e.flows[f]
    BY <2>2 DEF Databases
  <2> HIDE DEF e, d
  <2>5. Sound(e, s, spill[s]) => Sound(d, s, spill[s])
    BY <2>4, StoreAssumption DEF Sound, Whole, Named
  <2>6. Still(s)
    BY <1>6, <1>8, <2>1, <2>3, <2>4, <2>5 DEF DropFlow, e
  <2> QED BY <1>5, <1>8, <2>1, <2>6, ReturnsWell DEF DropFlow
<1>9. CASE Assign(p)
  <2> DEFINE e == db[file[s]]
             t == IF call[p].op = "tag" THEN e.tagged \cup {<<call[p].f, call[p].d>>}
                                        ELSE e.tagged \ {<<call[p].f, call[p].d>>}
             d == [e EXCEPT !.tagged = t]
  <2>1. call[p].op \in {"tag", "untag"} /\ call[p].at = "commit"
    BY <1>9 DEF Assign, At
  <2>2. e \in Databases /\ call[p].f \in Flows /\ call[p].d \in Defs
    BY <1>5, <2>1, Somewhere
  <2>3. db' = [db EXCEPT ![file[s]] = d]
    BY <1>2, <1>5, <1>9, <2>1 DEF Assign
  <2>4. /\ d \in Databases /\ d.version = e.version /\ d.defs = e.defs /\ d.flows = e.flows
        /\ d.blobs = e.blobs /\ d.tagged = t
    <3>1. <<call[p].f, call[p].d>> \in Flows \X Defs /\ e.tagged \subseteq Flows \X Defs
      BY <2>2 DEF Databases
    <3>2. t \subseteq Flows \X Defs
      BY <3>1
    <3> HIDE DEF t
    <3> QED BY <2>2, <3>2 DEF Databases
  <2>5. call[p].op = "tag" => call[p].d \in e.defs
    BY <1>1, <2>1 DEF Brought
  <2> HIDE DEF d
  <2>6. Sound(e, s, spill[s]) => Sound(d, s, spill[s])
    <3>1. Named(e) => Named(d)
      BY <2>4, <2>5 DEF Named
    <3> QED BY <2>4, <3>1 DEF Sound, Whole
  <2> HIDE DEF e, t
  <2>7. Still(s)
    BY <1>6, <1>9, <2>1, <2>3, <2>4, <2>6 DEF Assign, e
  <2> QED BY <1>5, <1>9, <2>1, <2>7, ReturnsWell DEF Assign
<1>10. CASE Mirror(p)
  <2> DEFINE e == db[file[s]]
             d == [e EXCEPT !.defs = @ \cup {call[p].d}]
  <2>1. call[p].op \in {"tag", "toggle"} /\ call[p].at = "mirror"
    BY <1>10 DEF Mirror, At
  <2>2. e \in Databases /\ call[p].d \in Defs
    BY <1>5, <2>1, Somewhere
  <2>3. CASE call[p].d \notin catalog
    <3>1. Return(p) /\ UNCHANGED <<row, file, db, spill, pool, shut, archive, faults>>
      BY <1>10, <2>3 DEF Mirror
    <3>2. Still(s)
      BY <3>1, DataKept DEF TypeInv
    <3> QED BY <1>5, <2>1, <3>1, <3>2, ReturnsWell
  <2>4. CASE call[p].d \in catalog
    <3> DEFINE at == IF call[p].op = "toggle" THEN "look" ELSE "commit"
    <3>1. db' = [db EXCEPT ![file[s]] = d] /\ Goto(p, at)
      BY <1>2, <1>5, <1>10, <2>1, <2>4 DEF Mirror
    <3>2. /\ d \in Databases /\ d.version = e.version /\ d.defs = e.defs \cup {call[p].d}
          /\ d.flows = e.flows /\ d.blobs = e.blobs /\ d.tagged = e.tagged
      BY <2>2 DEF Databases
    <3>3. db'[file[s]].defs = e.defs \cup {call[p].d} /\ file'[s] = file[s]
      BY <1>2, <1>5, <1>10, <2>1, <3>1, <3>2 DEF Mirror
    <3> HIDE DEF e, d
    <3>4. Sound(e, s, spill[s]) => Sound(d, s, spill[s])
      BY <3>2 DEF Sound, Whole, Named
    <3>5. Still(s)
      BY <1>6, <1>10, <2>1, <3>1, <3>2, <3>4 DEF Mirror, e
    <3>6. /\ Others(p) /\ c.op = call[p].op /\ c.sid = s /\ c.b = call[p].b /\ c.at = at
          /\ c.g = call[p].g /\ c.d = call[p].d
      BY <1>3, <3>1, GotoFacts DEF Kept
    <3>7. Staged(call[p], s)'
      BY <1>1, <1>3, <1>10, <2>1, <3>6 DEF Staged, OnListed, Mirror
    <3>8. Brought(call[p], s)'
      BY <1>3, <2>1, <3>3, <3>6 DEF Brought
    <3>9. Solo(s)'
      BY <1>1, <1>3, <3>6, SoloKept
    <3> QED BY <1>3, <1>5, <2>1, <3>5, <3>6, <3>7, <3>8, <3>9, CallMoves
  <2> QED BY <2>3, <2>4
<1>11. CASE OpenFile(p)
  <2> DEFINE e == db[file[s]]
             d == [e EXCEPT !.version = Migrated(@)]
  <2>1. call[p].at = "open" /\ pool[s] = None /\ file[s] # None /\ file[s] \in Gens
    BY <1>11 DEF OpenFile, TypeInv, TypeOK
  <2>2. row[s] # "none" /\ call[p].op # "delete"
    BY <1>1, <2>1 DEF Staged, OnListed
  <2>3. e \in Databases
    BY <1>2, <2>1
  <2>4. db' = [db EXCEPT ![file[s]] = d]
    BY <1>2, <1>11, <2>1, <2>3 DEF OpenFile
  <2>5. /\ d.defs = e.defs /\ d.flows = e.flows /\ d.blobs = e.blobs /\ d.tagged = e.tagged
        /\ d.version = Migrated(e.version)
    BY <2>3 DEF Databases
  <2>6. db'[file[s]] = d
    BY <1>2, <2>1, <2>4
  <2>7. pool' = IF Migrated(e.version) = "current" THEN [pool EXCEPT ![s] = file[s]] ELSE pool
    BY <1>11 DEF OpenFile
  <2> HIDE DEF e, d
  <2>8. Sound(e, s, spill[s]) => Sound(d, s, spill[s])
    BY <2>5 DEF Sound, Whole, Named
  <2>9. pool'[s] \in {None, file[s]} /\ (pool'[s] # None => d.version = "current")
    BY <1>2, <2>1, <2>5, <2>7
  <2>10. Served(s)'
    BY <1>1, <1>11, <2>1, <2>2, <2>6, <2>9 DEF OpenFile, Served
  <2>11. Still(s)
    BY <1>4, <1>11, <2>1, <2>2, <2>5, <2>6, <2>8, <2>10 DEF OpenFile, e
  <2>12. CASE Return(p)
    BY <2>1, <2>11, <2>12, ReturnsWell DEF AtWork
  <2>13. CASE ~Return(p)
    <3>1. Holding(p, file[s])
      BY <1>11, <2>13 DEF OpenFile
    <3>2. /\ Others(p) /\ c.op = call[p].op /\ c.sid = s /\ c.b = call[p].b
          /\ c.at = AfterOpen(call[p]) /\ c.g = file[s] /\ c.d = call[p].d
      BY <1>3, <3>1, HoldingFacts DEF Kept
    <3>3. Staged(c, s)
      BY <1>1, <2>1, <2>2, <3>2 DEF Staged, OnListed, AfterOpen
    <3>4. Brought(c, s)
      BY <3>2 DEF Brought, AfterOpen
    <3>5. Solo(s)'
      BY <1>1, <1>3, <3>2, SoloKept
    <3> QED BY <1>3, <2>1, <2>2, <2>11, <3>2, <3>3, <3>4, <3>5, CallMoves DEF AtWork
  <2> QED BY <2>12, <2>13
<1> QED BY <1>7, <1>8, <1>9, <1>10, <1>11

\* A deletion or an import that goes on, and one that returns.
LEMMA SolelyGoes ==
    ASSUME TypeInv, NEW p \in Calls, NEW at, Goto(p, at), NEW s \in Sids, s = call[p].sid,
           call[p].op \in Destroys, SessionOK(s),
           (Staged(call[p], s) /\ Brought(call[p], s))', Served(s)', Intact(s)', Matches(s)'
    PROVE  SessionOK(s)'
<1>1. Others(p) /\ call'[p].sid = s /\ call'[p].op = call[p].op
  BY GotoFacts DEF Kept
<1>2. \A q \in Calls : call'[q].sid = s => q = p
  BY <1>1, Alone DEF SessionOK
<1>3. Solo(s)'
  BY <1>1, SoloKept DEF SessionOK
<1>4. Fits(s)'
  BY <1>2 DEF Fits
<1> QED BY <1>3, <1>4 DEF SessionOK

\* A deletion or an import that returns leaves nobody on the session.
LEMMA SolelyReturns ==
    ASSUME TypeInv, NEW p \in Calls, Return(p), NEW s \in Sids, s = call[p].sid,
           call[p].op \in Destroys, SessionOK(s), Served(s)', Intact(s)', Matches(s)'
    PROVE  SessionOK(s)'
<1>1. Others(p) /\ call'[p].sid = None /\ None # s
  BY ReturnFacts, StoreAssumption
<1>2. \A q \in Calls : call'[q].sid # s
  BY <1>1, Alone DEF SessionOK
<1>3. Solo(s)'
  BY <1>2 DEF Solo
<1>4. Fits(s)'
  BY <1>2 DEF Fits
<1> QED BY <1>3, <1>4 DEF SessionOK

\* A session is deleted.
LEMMA DeletionSteps ==
    ASSUME TypeInv, NEW p \in Calls, NEW s \in Sids, s = call[p].sid, SessionOK(s),
           DeleteRow(p) \/ RemoveAll(p)
    PROVE  SessionOK(s)'
<1>1. /\ Staged(call[p], s) /\ Served(s) /\ Intact(s) /\ call[p].op = "delete"
      /\ call[p].op \in Destroys
  BY DEF SessionOK, Fits, DeleteRow, RemoveAll, At, Destroys
<1>2. /\ row \in [Sids -> {"none", "open", "closed"}] /\ file \in [Sids -> Gens \cup {None}]
      /\ DOMAIN spill = Sids
  BY DEF TypeInv, TypeOK
<1>3. PICK c : c = call'[p]
  OBVIOUS
<1>4. CASE DeleteRow(p)
  <2>1. /\ c.op = "delete" /\ c.at = "files" /\ c.sid = s /\ c.g = call[p].g
        /\ call[p].at = "row"
    BY <1>1, <1>3, <1>4, GotoFacts DEF DeleteRow, Kept, At
  <2>2. row'[s] = "none" /\ pool[s] = None /\ UNCHANGED <<file, db, spill, pool, shut>>
    BY <1>1, <1>2, <1>4, <2>1 DEF DeleteRow, Staged, At
  <2>3. (Staged(call[p], s) /\ Brought(call[p], s))'
    BY <1>1, <1>3, <2>1, <2>2 DEF Staged, Brought, OnListed
  <2>4. Served(s)' /\ Intact(s)'
    BY <2>2 DEF Served, Intact
  <2>5. Matches(s)'
    BY <1>3, <2>1, <2>2 DEF Matches, Moving
  <2> QED BY <1>1, <1>4, <2>3, <2>4, <2>5, SolelyGoes DEF DeleteRow
<1>5. CASE RemoveAll(p)
  <2>1. row[s] = "none" /\ pool[s] = None /\ row' = row /\ pool' = pool
    BY <1>1, <1>5 DEF RemoveAll, Staged, At
  <2>2. file'[s] = None /\ spill'[s] = NoFiles
    BY <1>2, <1>5 DEF RemoveAll, Removed
  <2>3. Served(s)' /\ Intact(s)'
    BY <2>1 DEF Served, Intact
  <2>4. Matches(s)'
    BY <2>1, <2>2 DEF Matches, NoFiles
  <2> QED BY <1>1, <1>5, <2>3, <2>4, SolelyReturns DEF RemoveAll
<1> QED BY <1>4, <1>5

\* A session is imported.
LEMMA ImportSteps ==
    ASSUME TypeInv, OneArchive, Reading, NEW p \in Calls, NEW s \in Sids \ contended,
           s = call[p].sid, SessionOK(s),
           ExtractDb(p) \/ ExtractBlobs(p) \/ Rebind(p) \/ Register(p) \/ Cleanup(p)
    PROVE  SessionOK(s)'
<1>1. /\ call[p].op = "import" /\ call[p].op \in Destroys
      /\ call[p].at \in {"extract", "extractblobs", "rebind", "register"}
  BY DEF ExtractDb, ExtractBlobs, Rebind, Register, Cleanup, At, Destroys
<1>2. /\ Staged(call[p], s) /\ Brought(call[p], s) /\ Served(s)
      /\ row[s] = "none" /\ pool[s] = None /\ call[p].g = None
  <2>1. Staged(call[p], s) /\ Brought(call[p], s) /\ Served(s)
    BY DEF SessionOK, Fits
  <2>2. call[p].g = None
    BY <1>1, Somewhere DEF Held
  <2> QED BY <1>1, <2>1, <2>2 DEF Staged, Served
<1>3. /\ row \in [Sids -> {"none", "open", "closed"}] /\ file \in [Sids -> Gens \cup {None}]
      /\ db \in [Gens -> Databases] /\ spill \in [Sids -> [Bodies -> {"absent", "torn", "whole"}]]
      /\ faults \in Nat
  BY DEF TypeInv, TypeOK
<1>4. archive \in Archives /\ Sound(archive.db, archive.sid, archive.blobs)
  BY <1>1 DEF OneArchive, Reading
<1>5. PICK c : c = call'[p]
  OBVIOUS
\* While the import is under way the session is neither listed nor open.
<1>6. ASSUME row'[s] = "none", pool'[s] = None PROVE Served(s)' /\ Intact(s)'
  BY <1>6 DEF Served, Intact
<1>7. ASSUME NEW at \in {"extractblobs", "rebind", "register"}, Goto(p, at)
      PROVE  /\ c.op = "import" /\ c.at = at /\ c.sid = s /\ c.g = None
             /\ row'[s] = "none" => Matches(s)'
  <2>1. c.op = "import" /\ c.at = at /\ c.sid = s /\ c.g = None
    BY <1>1, <1>2, <1>5, <1>7, GotoFacts DEF Kept
  <2> QED BY <1>5, <2>1 DEF Matches, Moving
<1>8. CASE ExtractDb(p)
  <2> DEFINE g == IF file[s] = None THEN NextGen ELSE file[s]
  <2>1. g \in Gens /\ g # None
    BY <1>3, NextGenIsFree, StoreAssumption DEF Gens
  <2>2. file'[s] = g /\ db'[g] = archive.db /\ UNCHANGED <<row, spill, pool, archive>>
    <3>1. /\ file' = [file EXCEPT ![s] = g] /\ db' = [db EXCEPT ![g] = archive.db]
          /\ UNCHANGED <<row, spill, pool, archive>>
      BY <1>8 DEF ExtractDb
    <3> HIDE DEF g
    <3> QED BY <1>3, <2>1, <3>1
  <2> HIDE DEF g
  <2>3. Goto(p, "extractblobs")
    BY <1>8 DEF ExtractDb
  <2>4. (Staged(call[p], s) /\ Brought(call[p], s))'
    BY <1>2, <1>5, <1>7, <2>1, <2>2, <2>3 DEF Staged, Brought, OnListed
  <2> QED BY <1>1, <1>2, <1>6, <1>7, <2>2, <2>3, <2>4, SolelyGoes
<1>9. CASE ExtractBlobs(p)
  <2>1. /\ call[p].at = "extractblobs" /\ file[s] # None /\ db[file[s]] = archive.db
        /\ UNCHANGED <<row, file, db, pool, archive>>
    BY <1>1, <1>2, <1>9 DEF ExtractBlobs, Staged, Brought, At
  <2>2. \A b \in Bodies : archive.blobs[b] # "absent" => spill'[s][b] # "absent"
    BY <1>3, <1>9 DEF ExtractBlobs
  <2>3. Sound(db[file[s]], archive.sid, spill'[s])
    BY <1>4, <2>1, <2>2 DEF Sound, Whole
  <2>4. PICK at \in {"register", "rebind"} : Goto(p, at) /\ (at = "register" => s = archive.sid)
    BY <1>9 DEF ExtractBlobs
  <2>5. (Staged(call[p], s) /\ Brought(call[p], s))'
    BY <1>2, <1>5, <1>7, <2>1, <2>3, <2>4 DEF Staged, Brought, OnListed
  <2> QED BY <1>1, <1>2, <1>6, <1>7, <2>1, <2>4, <2>5, SolelyGoes
<1>10. CASE Rebind(p)
  <2> DEFINE e == db[file[s]]
             d == [e EXCEPT !.blobs = [b \in Bodies |-> IF @[b] = archive.sid THEN s ELSE @[b]]]
  <2>1. /\ call[p].at = "rebind" /\ file[s] # None /\ file[s] \in Gens /\ e \in Databases
        /\ Sound(e, archive.sid, spill[s])
        /\ UNCHANGED <<row, file, spill, pool, archive>>
    BY <1>1, <1>2, <1>3, <1>10 DEF Rebind, Brought, At
  <2>2. db' = [db EXCEPT ![file[s]] = d]
    BY <1>3, <1>10, <2>1 DEF Rebind
  <2>3. db'[file[s]] = d
    BY <1>3, <2>1, <2>2
  <2>4. /\ d.flows = e.flows /\ d.defs = e.defs /\ d.tagged = e.tagged
        /\ \A b \in Bodies : d.blobs[b] = IF e.blobs[b] = archive.sid THEN s ELSE e.blobs[b]
    BY <2>1 DEF Databases
  <2> HIDE DEF e, d
  <2>5. archive.sid # "absent"
    BY <1>4, StoreAssumption DEF Archives
  <2>6. Sound(d, s, spill[s])
    BY <2>1, <2>4, <2>5 DEF Sound, Whole, Named
  <2>7. Goto(p, "register")
    BY <1>10 DEF Rebind
  <2>8. (Staged(call[p], s) /\ Brought(call[p], s))'
    BY <1>2, <1>5, <1>7, <2>1, <2>3, <2>6, <2>7 DEF Staged, Brought, OnListed
  <2> QED BY <1>1, <1>2, <1>6, <1>7, <2>1, <2>7, <2>8, SolelyGoes
<1>11. CASE Register(p)
  <2>1. /\ call[p].at = "register" /\ file[s] # None /\ Sound(db[file[s]], s, spill[s])
        /\ UNCHANGED <<file, db, spill, pool, shut>>
    BY <1>1, <1>2, <1>11 DEF Register, Staged, Brought, At
  <2>2. row'[s] # "none"
    BY <1>3, <1>4, <1>11 DEF Register, Archives
  <2>3. Served(s)' /\ Intact(s)' /\ Matches(s)'
    BY <1>2, <2>1, <2>2 DEF Served, Intact, Matches
  <2>4. c.op = "import" /\ c.at = "open" /\ c.sid = s /\ c.g = None
    BY <1>1, <1>2, <1>5, <1>11, GotoFacts DEF Register, Kept
  <2>5. (Staged(call[p], s) /\ Brought(call[p], s))'
    BY <1>5, <2>2, <2>4 DEF Staged, Brought, OnListed
  <2> QED BY <1>1, <1>11, <2>3, <2>5, SolelyGoes DEF Register
<1>12. CASE Cleanup(p)
  <2>1. file'[s] = None /\ spill'[s] = NoFiles /\ row'[s] = "none" /\ pool'[s] = None
    BY <1>2, <1>3, <1>12 DEF Cleanup, Removed
  <2>2. Matches(s)'
    BY <2>1 DEF Matches, NoFiles
  <2> QED BY <1>1, <1>6, <1>12, <2>1, <2>2, SolelyReturns DEF Cleanup
<1> QED BY <1>8, <1>9, <1>10, <1>11, <1>12

\* A session is created, and its bundle when the first call needs it.
LEMMA CreationSteps ==
    ASSUME TypeInv, NEW p \in Calls, NEW s \in Sids, s = call[p].sid, SessionOK(s),
           InsertRow(p) \/ OpenCreates(p)
    PROVE  SessionOK(s)'
<1>1. Staged(call[p], s) /\ Brought(call[p], s) /\ Served(s) /\ Solo(s)
  BY DEF SessionOK, Fits
<1>2. /\ row \in [Sids -> {"none", "open", "closed"}] /\ file \in [Sids -> Gens \cup {None}]
      /\ pool \in [Sids -> Gens \cup {None}] /\ db \in [Gens -> Databases]
  BY DEF TypeInv, TypeOK
<1>3. PICK c : c = call'[p]
  OBVIOUS
<1>4. CASE InsertRow(p)
  <2>1. /\ call[p].op = "create" /\ call[p].at = "insert" /\ row[s] = "none" /\ file[s] = None
        /\ pool[s] = None /\ Goto(p, "open")
    BY <1>1, <1>4 DEF InsertRow, Staged, Served, At
  <2>2. row'[s] = "open" /\ UNCHANGED <<file, db, spill, pool, shut>>
    BY <1>2, <1>4, <2>1 DEF InsertRow
  <2>3. /\ Others(p) /\ c.op = "create" /\ c.at = "open" /\ c.sid = s /\ c.g = call[p].g
    BY <1>3, <2>1, GotoFacts DEF Kept
\* No other call can be at work on a session that is not there yet.
  <2>4. \A q \in Calls : call[q].sid = s => q = p
    <3>1. SUFFICES ASSUME NEW q \in Calls, call[q].sid = s, q # p PROVE FALSE
      OBVIOUS
    <3>2. ~OnListed(call[q])
      BY <2>1, <3>1 DEF SessionOK, Fits, Staged
    <3>3. call[q].op = "create" \/ call[q].op \in Destroys
      BY <3>2 DEF OnListed, Destroys
    <3> QED BY <1>1, <2>1, <3>1, <3>3 DEF Solo
  <2>5. Fits(s)'
    <3>1. (Staged(call[p], s) /\ Brought(call[p], s))'
      BY <1>1, <1>3, <2>1, <2>2, <2>3 DEF Staged, Brought, OnListed
    <3>2. \A q \in Calls : call'[q].sid = s => q = p
      BY <2>3, <2>4 DEF Others
    <3> QED BY <3>1, <3>2 DEF Fits
  <2>6. Served(s)' /\ Intact(s)'
    BY <2>1, <2>2 DEF Served, Intact
  <2>7. Matches(s)'
    BY <1>3, <2>2, <2>3 DEF Matches, Creating
  <2>8. Solo(s)'
    BY <1>1, <1>3, <2>1, <2>3, SoloKept
  <2> QED BY <2>5, <2>6, <2>7, <2>8 DEF SessionOK
<1>5. CASE OpenCreates(p)
  <2>1. /\ call[p].at = "open" /\ pool[s] = None /\ file[s] = None /\ row[s] # "none"
        /\ call[p].op # "delete"
    BY <1>1, <1>5 DEF OpenCreates, Staged, OnListed
  <2>2. NextGen \in Gens /\ NextGen # None
    BY NextGenIsFree, StoreAssumption DEF Gens
  <2>3. /\ file'[s] = NextGen /\ pool'[s] = NextGen /\ db'[NextGen] = Fresh
        /\ NextGen \notin shut' /\ UNCHANGED <<row, spill, archive, faults>>
    BY <1>2, <1>5, <2>2 DEF OpenCreates
  <2>4. Served(s)'
    BY <2>1, <2>2, <2>3 DEF Served, Fresh
  <2>5. Intact(s)'
    <3>1. Sound(Fresh, s, spill[s])
      BY StoreAssumption DEF Sound, Whole, Named, Fresh
    <3> QED BY <2>3, <3>1 DEF Intact
  <2>6. Matches(s)'
    BY <2>1, <2>2, <2>3 DEF Matches
  <2>7. /\ Others(p)
        /\ \/ c.sid = None
           \/ /\ c.op = call[p].op /\ c.sid = s /\ c.b = call[p].b /\ c.d = call[p].d
              /\ c.at = AfterOpen(call[p]) /\ c.g = NextGen /\ c.op # "create"
    BY <1>3, <1>5, HoldingFacts, ReturnFacts DEF OpenCreates, Kept
  <2>8. Solo(s)'
    BY <1>1, <1>3, <2>7, SoloKept
  <2>9. Fits(s)'
    <3>1. SUFFICES ASSUME NEW q \in Calls, call'[q].sid = s
                   PROVE  (Staged(call[q], s) /\ Brought(call[q], s))'
      BY DEF Fits
    <3>2. CASE q = p
      <4>1. c.sid = s /\ s # None
        BY <1>3, <3>1, <3>2, StoreAssumption
      <4>2. Staged(call[p], s)'
        BY <1>1, <1>3, <2>1, <2>2, <2>3, <2>7, <4>1 DEF Staged, OnListed, AfterOpen
      <4>3. Brought(call[p], s)'
        BY <1>3, <2>7, <4>1 DEF Brought, AfterOpen
      <4> QED BY <3>2, <4>2, <4>3
    <3>3. CASE q # p
      <4>1. PICK e : e = call[q]
        OBVIOUS
      <4>2. e = call'[q] /\ e.sid = s /\ Staged(e, s) /\ Brought(e, s)
        BY <2>7, <3>1, <3>3, <4>1 DEF Others, SessionOK, Fits
      <4>3. e.op \notin {"delete", "import"}
        BY <1>1, <3>1, <3>3, <4>1, <4>2 DEF Solo, Destroys
      <4>4. e.g = None /\ e.at \notin Held /\ ~(e.op = "create" /\ e.at = "insert")
        <5>1. e.g = None
          BY <2>1, <4>2 DEF Staged
        <5>2. CallOK(e)
          BY <4>1 DEF TypeInv
        <5>3. e # Idle
          BY <4>2, StoreAssumption DEF Idle
        <5> QED BY <2>1, <4>2, <5>1, <5>2, <5>3 DEF CallOK, Staged
      <4>5. Staged(call[q], s)'
        BY <2>1, <2>3, <4>2, <4>3, <4>4 DEF Staged, OnListed
      <4>6. Brought(call[q], s)'
        BY <2>3, <4>2, <4>3, <4>4 DEF Brought, Held
      <4> QED BY <4>5, <4>6
    <3> QED BY <3>2, <3>3
  <2> QED BY <2>4, <2>5, <2>6, <2>8, <2>9 DEF SessionOK
<1> QED BY <1>4, <1>5

\* A call begins without racing a deletion or an import.
LEMMA BeginsWell ==
    ASSUME TypeInv, TypeInv', NEW p \in Calls, NEW op, NEW s \in Sids, NEW f, NEW b, NEW d,
           Begin(p, op, s, f, b, d), op = "create" => Unused(s), SessionOK(s), s \notin contended'
    PROVE  SessionOK(s)'
<1>1. /\ Others(p) /\ call[p].sid = None
      /\ ~Overlaps(op, s)
      /\ UNCHANGED <<row, file, db, spill, pool, shut, archive, faults>>
  BY BeginFacts
<1>2. PICK c : c = call'[p]
  OBVIOUS
<1>3. c.op = op /\ c.at = FirstStep(op) /\ c.sid = s /\ c.g = None
  BY <1>2, BeginFacts
<1>4. /\ op \notin {"create", "import"} => row[s] # "none"
      /\ \A q \in Calls : call[q].sid = s => op \notin Destroys /\ call[q].op \notin Destroys
  BY <1>1 DEF Overlaps, Busy
<1>5. op = "create" =>
          row[s] = "none" /\ file[s] = None /\ (\A q \in Calls : call[q].sid # s)
  BY DEF Unused, Busy
<1>6. Still(s)
  BY <1>1, DataKept DEF TypeInv
<1>7. Solo(s)'
  <2>1. SUFFICES ASSUME NEW q \in Calls, NEW r \in Calls, call'[q].sid = s, call'[r].sid = s
                 PROVE  /\ call'[q].op \in Destroys => q = r
                        /\ call'[q].op = "create" /\ call'[r].op = "create" => q = r
    BY DEF Solo
  <2>2. CASE q = p /\ r = p
    BY <2>2
  <2>3. CASE q = p /\ r # p
    BY <1>1, <1>2, <1>3, <1>4, <1>5, <2>1, <2>3 DEF Others
  <2>4. CASE q # p /\ r = p
    BY <1>1, <1>2, <1>3, <1>4, <1>5, <2>1, <2>4 DEF Others
  <2>5. CASE q # p /\ r # p
    BY <1>1, <2>1, <2>5 DEF Others, SessionOK, Solo
  <2> QED BY <2>2, <2>3, <2>4, <2>5
<1>8. (Staged(call[p], s) /\ Brought(call[p], s))'
  <2>1. OnListed(c) => row[s] # "none"
    BY <1>3, <1>4 DEF OnListed, FirstStep
  <2>2. c.op = "create" /\ c.at = "insert" => row[s] = "none" /\ file[s] = None
    BY <1>3, <1>5
  <2>3. /\ c.op = "delete" => c.at = "check"
        /\ c.op = "import" => c.at = "exists"
        /\ c.at \notin {"spilled", "commit", "look"}
    BY <1>3 DEF FirstStep
  <2>4. Staged(call[p], s)'
    BY <1>1, <1>2, <1>3, <2>1, <2>2, <2>3 DEF Staged, OnListed
  <2>5. Brought(call[p], s)'
    BY <1>2, <2>3 DEF Brought
  <2> QED BY <2>4, <2>5
<1>9. call[p].sid # s
  BY <1>1, StoreAssumption
<1> QED BY <1>1, <1>2, <1>6, <1>7, <1>8, <1>9, CallMoves

\* A call on its way keeps its session or returns.
LEMMA OnItsWay ==
    ASSUME TypeInv, NEW p \in Calls,
           \/ OpenPooled(p) \/ OpenCreates(p) \/ OpenFile(p) \/ HandleClosed(p)
           \/ InsertRow(p) \/ UpdateRow(p)
           \/ Truncate(p) \/ FillFile(p) \/ FillFails(p) \/ InsertFlow(p) \/ DropFlow(p)
           \/ Mirror(p) \/ Look(p) \/ Assign(p) \/ Select(p) \/ Stat(p)
           \/ CheckClosed(p) \/ DropHandle(p) \/ DeleteRow(p) \/ RemoveAll(p)
           \/ ExportRow(p) \/ Snapshot(p) \/ CopyBlobs(p)
           \/ CheckFree(p) \/ ExtractDb(p) \/ ExtractBlobs(p) \/ Rebind(p)
           \/ Register(p) \/ Cleanup(p) \/ Merge(p)
    PROVE  call'[p].sid \in {call[p].sid, None} /\ call[p].sid \in Sids /\ contended' = contended
<1>1. call[p].sid \in Sids
  <2>1. call[p].at # "idle"
    BY DEF OpenPooled, OpenCreates, OpenFile, HandleClosed, InsertRow, UpdateRow, Truncate,
       FillFile, FillFails, InsertFlow, DropFlow, Mirror, Look, Assign, Select, Stat, CheckClosed,
       DropHandle, DeleteRow, RemoveAll, ExportRow, Snapshot, CopyBlobs, CheckFree, ExtractDb,
       ExtractBlobs, Rebind, Register, Cleanup, Merge, At
  <2> QED BY <2>1, Somewhere
<1>2. ASSUME \/ Return(p)
             \/ \E at : Goto(p, at)
             \/ \E g : Holding(p, g)
             \/ Look(p)
      PROVE  call'[p].sid \in {call[p].sid, None}
  BY <1>2, ReturnFacts, GotoFacts, HoldingFacts, LookFacts DEF Kept
<1>3. CASE \/ OpenPooled(p) \/ OpenCreates(p) \/ OpenFile(p) \/ HandleClosed(p)
           \/ InsertRow(p) \/ UpdateRow(p) \/ Truncate(p) \/ FillFile(p) \/ FillFails(p)
           \/ InsertFlow(p) \/ DropFlow(p) \/ Mirror(p) \/ Look(p) \/ Assign(p)
  BY <1>1, <1>2, <1>3 DEF OpenPooled, OpenCreates, OpenFile, HandleClosed, InsertRow, UpdateRow,
     Truncate, FillFile, FillFails, InsertFlow, DropFlow, Mirror, Look, Assign
<1>4. CASE \/ Select(p) \/ Stat(p)
           \/ CheckClosed(p) \/ DropHandle(p) \/ DeleteRow(p) \/ RemoveAll(p)
           \/ ExportRow(p) \/ Snapshot(p) \/ CopyBlobs(p)
           \/ CheckFree(p) \/ ExtractDb(p) \/ ExtractBlobs(p) \/ Rebind(p)
           \/ Register(p) \/ Cleanup(p) \/ Merge(p)
  BY <1>1, <1>2, <1>4 DEF Select, Stat, CheckClosed, DropHandle, DeleteRow, RemoveAll, ExportRow,
     Snapshot, CopyBlobs, CheckFree, ExtractDb, ExtractBlobs, Rebind, Register, Cleanup, Merge
<1> QED BY <1>3, <1>4

\* Every step leaves the sessions nobody raced for sound.
LEMMA SessionStep ==
    ASSUME TypeInv, TypeInv', OneArchive, Apart, SessionInv, Reading, [Next]_vars
    PROVE  SessionInv'
<1> USE DEF data
<1>1. ASSUME NEW p \in Calls, NEW op, NEW t \in Sids, NEW f, NEW b, NEW d,
             Begin(p, op, t, f, b, d), op = "create" => Unused(t)
      PROVE  SessionInv'
  <2>1. SUFFICES ASSUME NEW s \in Sids, s \notin contended' PROVE SessionOK(s)'
    BY DEF SessionInv
  <2>2. SessionOK(s)
    BY <1>1, <2>1 DEF Begin, SessionInv
  <2>3. CASE s = t
    BY <1>1, <2>1, <2>2, <2>3, BeginsWell
  <2>4. CASE s # t
    <3>1. /\ Others(p) /\ call[p].sid = None /\ call'[p].sid = t /\ None # s
          /\ UNCHANGED <<row, file, db, spill, pool, shut, archive, faults>>
      BY <1>1, BeginFacts, StoreAssumption
    <3>2. Untouched(s)
      BY <2>4, <3>1 DEF Untouched, Others
    <3> QED BY <2>2, <3>2, UntouchedOK
  <2> QED BY <2>3, <2>4
<1>2. ASSUME NEW p \in Calls, BeginWrite(p) \/ BeginDrop(p) \/ BeginAnnotate(p) PROVE SessionInv'
  BY <1>1, <1>2 DEF BeginWrite, BeginDrop, BeginAnnotate
<1>3. ASSUME NEW p \in Calls, BeginToggle(p) \/ BeginPlain(p) \/ BeginExport(p) PROVE SessionInv'
  BY <1>1, <1>3 DEF BeginToggle, BeginPlain, BeginExport
<1>4. ASSUME NEW p \in Calls, BeginCreate(p) \/ BeginImport(p) PROVE SessionInv'
  BY <1>1, <1>4 DEF BeginCreate, BeginImport
<1>5. ASSUME NEW p \in Calls,
             \/ OpenPooled(p) \/ OpenCreates(p) \/ OpenFile(p) \/ HandleClosed(p)
             \/ InsertRow(p) \/ UpdateRow(p)
             \/ Truncate(p) \/ FillFile(p) \/ FillFails(p) \/ InsertFlow(p) \/ DropFlow(p)
             \/ Mirror(p) \/ Look(p) \/ Assign(p) \/ Select(p) \/ Stat(p)
             \/ CheckClosed(p) \/ DropHandle(p) \/ DeleteRow(p) \/ RemoveAll(p)
             \/ ExportRow(p) \/ Snapshot(p) \/ CopyBlobs(p)
             \/ CheckFree(p) \/ ExtractDb(p) \/ ExtractBlobs(p) \/ Rebind(p)
             \/ Register(p) \/ Cleanup(p) \/ Merge(p)
      PROVE  SessionInv'
  <2>1. call'[p].sid \in {call[p].sid, None} /\ call[p].sid \in Sids /\ contended' = contended
    BY <1>5, OnItsWay
  <2>2. SUFFICES ASSUME NEW s \in Sids, s \notin contended PROVE SessionOK(s)'
    BY <2>1 DEF SessionInv
  <2>3. SessionOK(s)
    BY <2>2 DEF SessionInv
  <2>4. CASE s # call[p].sid
    <3>1. Untouched(s)
      BY <1>5, <2>1, <2>4, Elsewhere, StoreAssumption
    <3> QED BY <2>3, <3>1, UntouchedOK
  <2>5. CASE s = call[p].sid
    <3>1. CASE \/ OpenPooled(p) \/ HandleClosed(p) \/ FillFails(p) \/ Look(p) \/ Select(p)
               \/ Stat(p) \/ CheckClosed(p) \/ CheckFree(p) \/ ExportRow(p) \/ Snapshot(p)
               \/ CopyBlobs(p) \/ Merge(p)
      BY <2>3, <2>5, <3>1, ReadingSteps
    <3>2. CASE UpdateRow(p) \/ Truncate(p) \/ FillFile(p) \/ DropHandle(p)
      BY <2>3, <2>5, <3>2, FilingSteps
    <3>3. CASE InsertFlow(p) \/ DropFlow(p) \/ Mirror(p) \/ Assign(p) \/ OpenFile(p)
      BY <2>3, <2>5, <3>3, RowSteps
    <3>4. CASE DeleteRow(p) \/ RemoveAll(p)
      BY <2>3, <2>5, <3>4, DeletionSteps
    <3>5. CASE ExtractDb(p) \/ ExtractBlobs(p) \/ Rebind(p) \/ Register(p) \/ Cleanup(p)
      <4>1. s \in Sids \ contended
        BY <2>2
      <4> QED BY <2>3, <2>5, <3>5, <4>1, ImportSteps
    <3>6. CASE InsertRow(p) \/ OpenCreates(p)
      BY <2>3, <2>5, <3>6, CreationSteps
    <3> QED BY <1>5, <3>1, <3>2, <3>3, <3>4, <3>5, <3>6
  <2> QED BY <2>4, <2>5
<1>6. CASE Crash
  <2>1. SUFFICES ASSUME NEW s \in Sids, s \notin contended PROVE SessionOK(s)'
    BY <1>6 DEF SessionInv, Crash
  <2>2. SessionOK(s)
    BY <2>1 DEF SessionInv
  <2>3. /\ \A q \in Calls : call'[q].sid = None
        /\ None # s /\ pool'[s] = None /\ faults' # 0 /\ UNCHANGED <<row, file, db, spill>>
    BY <1>6, <2>1, StoreAssumption DEF Crash, Idle, TypeInv
  <2>4. Solo(s)' /\ Fits(s)'
    BY <2>3 DEF Solo, Fits
  <2>5. Served(s)'
    BY <2>3 DEF Served
  <2>6. Intact(s)'
    BY <2>2, <2>3 DEF SessionOK, Intact
  <2>7. Matches(s)'
    BY <2>3 DEF Matches
  <2> QED BY <2>4, <2>5, <2>6, <2>7 DEF SessionOK
<1>7. ASSUME UNCHANGED <<row, file, db, spill, pool, shut, archive, call, faults, contended>>
      PROVE  SessionInv'
  <2>1. SUFFICES ASSUME NEW s \in Sids, s \notin contended PROVE SessionOK(s)'
    BY <1>7 DEF SessionInv
  <2>2. SessionOK(s) /\ Untouched(s)
    BY <1>7, <2>1 DEF SessionInv, Untouched
  <2> QED BY <2>2, UntouchedOK
<1>8. ASSUME NEW d \in Defs, Define(d) \/ Undefine(d) PROVE SessionInv'
  BY <1>7, <1>8 DEF Define, Undefine
<1>9. CASE UNCHANGED vars
  BY <1>7, <1>9 DEF vars
<1> QED BY <1>2, <1>3, <1>4, <1>5, <1>6, <1>8, <1>9 DEF Next

-----------------------------------------------------------------------------
(* What is written to an archive and read from it.                           *)

\* A step that leaves the archive, and the bodies an export is about to copy.
LEMMA ArchiveKept ==
    ASSUME Reading, Archived, archive' = archive, contended \subseteq contended',
           \A p \in Calls : call'[p].op = "import" =>
              /\ call[p].op = "import" /\ call[p].sid = call'[p].sid
              /\ call'[p].at = "rebind" =>
                    call[p].at = "rebind" \/ call[p].sid # archive.sid,
           \A p \in Calls : call'[p].op = "export" /\ call'[p].at = "blobs" =>
              /\ call[p].op = "export" /\ call[p].at = "blobs" /\ call[p].sid = call'[p].sid
              /\ call[p].sid \notin contended =>
                    \A b \in Bodies : spill[archive.sid][b] # "absent" =>
                        spill'[archive.sid][b] # "absent"
    PROVE  Reading' /\ Archived'
<1>1. Reading'
  <2>1. SUFFICES ASSUME NEW p \in Calls, call'[p].op = "import"
                 PROVE  /\ call'[p].sid \notin contended' =>
                              Sound(archive.db, archive.sid, archive.blobs)
                        /\ call'[p].at = "rebind" => call'[p].sid # archive.sid
    BY DEF Reading, Sound, Whole, Named
  <2> QED BY <2>1 DEF Reading
<1>2. archive' # None /\ archive'.done /\ archive'.sid \notin contended' =>
         Sound(archive.db, archive.sid, archive.blobs)
  BY DEF Archived
<1>3. ASSUME NEW p \in Calls, call'[p].op = "export", call'[p].at = "blobs",
             call'[p].sid \notin contended'
      PROVE  Sound(archive.db, archive.sid, spill'[archive.sid])
  <2>1. Sound(archive.db, archive.sid, spill[archive.sid])
    BY <1>3 DEF Archived
  <2>2. \A b \in Bodies : spill[archive.sid][b] # "absent" => spill'[archive.sid][b] # "absent"
    BY <1>3
  <2> QED BY <2>1, <2>2 DEF Sound, Whole
<1>4. Archived'
  BY <1>2, <1>3 DEF Archived
<1> QED BY <1>1, <1>4

\* Every step keeps what an archive holds, and what an import reads, sound.
LEMMA ArchiveStep ==
    ASSUME TypeInv, TypeInv', OneArchive, SessionInv, Reading, Archived, [Next]_vars
    PROVE  Reading' /\ Archived'
<1> USE DEF data
<1>1. ASSUME NEW p \in Calls, Others(p), archive' = archive, contended \subseteq contended',
             \/ /\ call'[p].op # "import"
                /\ call'[p].op = "export" => call'[p].at # "blobs"
             \/ /\ call'[p].op = "import" /\ call[p].op = "import" /\ call[p].sid = call'[p].sid
                /\ call'[p].at = "rebind" => call[p].sid # archive.sid,
             \A q \in Calls :
                call[q].op = "export" /\ call[q].at = "blobs" /\ call[q].sid \notin contended =>
                    \A b \in Bodies : spill[archive.sid][b] # "absent" =>
                        spill'[archive.sid][b] # "absent"
      PROVE  Reading' /\ Archived'
  <2>1. ASSUME NEW q \in Calls, call'[q].op = "import"
        PROVE  /\ call[q].op = "import" /\ call[q].sid = call'[q].sid
               /\ call'[q].at = "rebind" => call[q].at = "rebind" \/ call[q].sid # archive.sid
    BY <1>1, <2>1 DEF Others
  <2>2. ASSUME NEW q \in Calls, call'[q].op = "export", call'[q].at = "blobs"
        PROVE  call[q].op = "export" /\ call[q].at = "blobs" /\ call[q].sid = call'[q].sid
    BY <1>1, <2>2 DEF Others
  <2> QED BY <1>1, <2>1, <2>2, ArchiveKept
\* A call that returns or goes on, and no body goes.
<1>2. ASSUME NEW p \in Calls, Return(p), archive' = archive, contended' = contended, spill' = spill
      PROVE  Reading' /\ Archived'
  BY <1>1, <1>2, ReturnFacts
<1>3. ASSUME NEW p \in Calls, NEW at, Goto(p, at), at \notin {"blobs", "rebind"},
             archive' = archive, contended' = contended, spill' = spill
      PROVE  Reading' /\ Archived'
  BY <1>1, <1>3, GotoFacts DEF Kept
<1>4. ASSUME NEW p \in Calls, NEW g, Holding(p, g),
             archive' = archive, contended' = contended, spill' = spill
      PROVE  Reading' /\ Archived'
  <2>1. AfterOpen(call[p]) \notin {"blobs", "rebind"}
    BY DEF AfterOpen
  <2> QED BY <1>1, <1>4, <2>1, HoldingFacts DEF Kept
<1>5. ASSUME NEW p \in Calls, NEW op, NEW s, NEW f, NEW b, NEW d, Begin(p, op, s, f, b, d),
             op # "import"
      PROVE  Reading' /\ Archived'
  <2>1. FirstStep(op) # "blobs"
    BY DEF FirstStep
  <2> QED BY <1>1, <1>5, <2>1, BeginFacts
<1>6. ASSUME NEW p \in Calls,
             \/ BeginWrite(p) \/ BeginDrop(p) \/ BeginAnnotate(p) \/ BeginToggle(p)
             \/ BeginPlain(p) \/ BeginExport(p) \/ BeginCreate(p)
      PROVE  Reading' /\ Archived'
  <2>1. CASE BeginWrite(p) \/ BeginDrop(p) \/ BeginToggle(p) \/ BeginCreate(p)
    BY <1>5, <2>1 DEF BeginWrite, BeginDrop, BeginToggle, BeginCreate
  <2>2. CASE BeginAnnotate(p) \/ BeginPlain(p) \/ BeginExport(p)
    BY <1>5, <2>2 DEF BeginAnnotate, BeginPlain, BeginExport
  <2> QED BY <1>6, <2>1, <2>2
<1>7. ASSUME NEW p \in Calls, BeginImport(p) PROVE Reading' /\ Archived'
  <2>1. PICK s \in Sids : Begin(p, "import", s, None, None, None)
    BY <1>7 DEF BeginImport
  <2>2. /\ Others(p) /\ call'[p].op = "import" /\ call'[p].sid = s /\ call'[p].at = "exists"
        /\ contended' = IF Overlaps("import", s) THEN contended \cup {s} ELSE contended
        /\ UNCHANGED <<spill, archive>>
    BY <2>1, BeginFacts DEF FirstStep
  <2>3. archive # None /\ archive.done /\ \A q \in Calls : call[q].op # "export"
    BY <1>7 DEF BeginImport, Archiving
\* The archive of a session that was raced for is not promised to be sound.
  <2>4. s \notin contended' => Sound(archive.db, archive.sid, archive.blobs)
    <3>1. s \notin contended' => archive.sid \notin contended
      BY <2>2 DEF Overlaps
    <3> QED BY <2>3, <3>1 DEF Archived
  <2>5. Reading'
    <3>1. \A q \in Calls : q # p /\ call'[q].op = "import" =>
             /\ call'[q].sid \notin contended' => Sound(archive.db, archive.sid, archive.blobs)
             /\ call'[q].at = "rebind" => call'[q].sid # archive.sid
      BY <2>2 DEF Others, Reading
    <3> QED BY <2>2, <2>4, <3>1 DEF Reading
  <2>6. Archived'
    BY <2>2, <2>3 DEF Archived, Others
  <2> QED BY <2>5, <2>6
<1>8. ASSUME NEW p \in Calls,
             \/ OpenPooled(p) \/ OpenCreates(p) \/ OpenFile(p) \/ HandleClosed(p)
             \/ InsertRow(p) \/ UpdateRow(p) \/ FillFails(p) \/ InsertFlow(p) \/ DropFlow(p)
      PROVE  Reading' /\ Archived'
  BY <1>2, <1>3, <1>4, <1>8 DEF OpenPooled, OpenCreates, OpenFile, HandleClosed, InsertRow,
     UpdateRow, FillFails, InsertFlow, DropFlow
<1>9. ASSUME NEW p \in Calls,
             \/ Mirror(p) \/ Assign(p) \/ Select(p) \/ Stat(p) \/ CheckClosed(p) \/ DropHandle(p)
             \/ DeleteRow(p) \/ CheckFree(p) \/ ExtractDb(p) \/ Rebind(p) \/ Register(p) \/ Merge(p)
      PROVE  Reading' /\ Archived'
  BY <1>2, <1>3, <1>9 DEF Mirror, Assign, Select, Stat, CheckClosed, DropHandle, DeleteRow,
     CheckFree, ExtractDb, Rebind, Register, Merge
<1>10. ASSUME NEW p \in Calls, Look(p) PROVE Reading' /\ Archived'
  BY <1>1, <1>10, LookFacts DEF Look
<1>11. ASSUME NEW p \in Calls, Truncate(p) \/ FillFile(p) PROVE Reading' /\ Archived'
  <2>1. \A q \in Calls : call[q].op = "export" /\ call[q].at = "blobs" => archive.sid \in Sids
    BY DEF OneArchive, Archives
  <2>2. \A t \in Sids, b \in Bodies : spill[t][b] # "absent" => spill'[t][b] # "absent"
    BY <1>11 DEF Truncate, FillFile, TypeInv, TypeOK
  <2>3. Others(p) /\ Kept(p) /\ call'[p].at \notin {"blobs", "rebind"} /\ call[p].op = "write"
        /\ archive' = archive /\ contended' = contended
    BY <1>11, GotoFacts DEF Truncate, FillFile, At
  <2> QED BY <1>1, <2>1, <2>2, <2>3 DEF Kept
<1>12. ASSUME NEW p \in Calls, RemoveAll(p) PROVE Reading' /\ Archived'
  <2>1. call[p].op = "delete" /\ call[p].op \in Destroys /\ call[p].sid \in Sids
    BY <1>12, Somewhere DEF RemoveAll, At, Destroys
  <2>2. ASSUME NEW q \in Calls, call[q].op = "export", call[q].at = "blobs",
               call[q].sid \notin contended
        PROVE  spill'[archive.sid] = spill[archive.sid]
    <3>1. archive.sid = call[q].sid /\ archive.sid \in Sids
      BY <2>2 DEF OneArchive, Archives
    <3>2. Solo(archive.sid)
      BY <2>2, <3>1 DEF SessionInv, SessionOK
    <3>3. call[p].sid # archive.sid
      BY <2>1, <2>2, <3>1, <3>2 DEF Solo
    <3> QED BY <1>12, <3>1, <3>3 DEF RemoveAll, Removed, TypeInv, TypeOK
  <2>3. Others(p) /\ call'[p].op = "idle" /\ archive' = archive /\ contended' = contended
    BY <1>12, ReturnFacts DEF RemoveAll
  <2> QED BY <1>1, <2>2, <2>3
<1>13. ASSUME NEW p \in Calls, ExtractBlobs(p) \/ Cleanup(p) PROVE Reading' /\ Archived'
  <2>1. call[p].op = "import" /\ archive' = archive /\ contended' = contended
    BY <1>13 DEF ExtractBlobs, Cleanup, At
  <2>2. \A q \in Calls : call[q].op # "export"
    BY <2>1 DEF OneArchive
  <2>3. CASE ExtractBlobs(p)
    <3>1. Others(p) /\ Kept(p) /\ (call'[p].at = "rebind" => call[p].sid # archive.sid)
      BY <2>3, GotoFacts DEF ExtractBlobs
    <3> QED BY <1>1, <2>1, <2>2, <3>1 DEF Kept
  <2>4. CASE Cleanup(p)
    <3>1. Others(p) /\ call'[p].op = "idle"
      BY <2>4, ReturnFacts DEF Cleanup
    <3> QED BY <1>1, <2>1, <2>2, <3>1
  <2> QED BY <1>13, <2>3, <2>4
<1>14. ASSUME NEW p \in Calls, ExportRow(p) \/ Snapshot(p) \/ CopyBlobs(p)
       PROVE  Reading' /\ Archived'
  <2>1. /\ call[p].op = "export" /\ contended' = contended /\ spill' = spill
        /\ \A q \in Calls : call[q].op \in {"export", "import"} => q = p
    BY <1>14 DEF ExportRow, Snapshot, CopyBlobs, At, OneArchive
  <2>2. /\ Others(p) /\ call'[p].op \in {"export", "idle"}
        /\ call'[p].op = "export" => call'[p].sid = call[p].sid
    BY <1>14, <2>1, GotoFacts, ReturnFacts DEF ExportRow, Snapshot, CopyBlobs, Kept
  <2>3. Reading'
    BY <2>1, <2>2 DEF Reading, Others
  <2>4. CASE ExportRow(p)
    <3>1. CASE row[call[p].sid] = "none"
      BY <1>2, <2>1, <2>4, <3>1 DEF ExportRow
    <3>2. CASE row[call[p].sid] # "none"
      <4> DEFINE a == [sid |-> call[p].sid, status |-> row[call[p].sid], db |-> Fresh,
                       blobs |-> NoFiles, done |-> FALSE]
      <4>1. archive' = a /\ Goto(p, "open")
        BY <2>4, <3>2 DEF ExportRow
      <4>2. ~a.done
        OBVIOUS
      <4> HIDE DEF a
      <4>3. call'[p].at = "open"
        BY <4>1, GotoFacts
      <4>4. Archived'
        BY <2>1, <2>2, <4>1, <4>2, <4>3 DEF Archived, Others
      <4> QED BY <2>3, <4>4
    <3> QED BY <3>1, <3>2
  <2>5. ASSUME Snapshot(p) \/ CopyBlobs(p)
        PROVE  archive \in Archives /\ archive.sid = call[p].sid /\ ~archive.done
               /\ archive.sid \in Sids
    BY <2>1, <2>5 DEF OneArchive, Snapshot, CopyBlobs, At, Archives
  <2>6. CASE Snapshot(p)
    <3>1. /\ archive'.db = db[call[p].g] /\ archive'.sid = archive.sid /\ ~archive'.done
      <4>1. archive' = [archive EXCEPT !.db = db[call[p].g]]
        BY <2>6 DEF Snapshot
      <4> QED BY <2>5, <2>6, <4>1 DEF Archives
    <3>2. call[p].sid \notin contended => Sound(db[call[p].g], archive.sid, spill[archive.sid])
      <4>1. SUFFICES ASSUME call[p].sid \notin contended
                     PROVE  Sound(db[call[p].g], archive.sid, spill[archive.sid])
        OBVIOUS
      <4>2. PICK s \in Sids : s = call[p].sid /\ s = archive.sid
        BY <2>5, <2>6
      <4>3. Staged(call[p], s) /\ Intact(s)
        BY <4>1, <4>2 DEF SessionInv, SessionOK, Fits
      <4>4. call[p].at = "snapshot" /\ call[p].g \in Gens /\ call[p].g # None
        BY <2>6, Somewhere, StoreAssumption DEF Snapshot, At, Held, Gens
      <4>5. row[s] # "none" /\ file[s] = call[p].g
        BY <2>1, <4>3, <4>4 DEF Staged, OnListed
      <4> QED BY <4>2, <4>3, <4>4, <4>5 DEF Intact
    <3>3. Archived'
      <4>1. ASSUME NEW q \in Calls, call'[q].op = "export"
            PROVE  q = p /\ call'[q].sid = call[p].sid
        BY <2>1, <2>2, <4>1 DEF Others
      <4>2. ASSUME NEW q \in Calls, call'[q].op = "export", call'[q].sid \notin contended'
            PROVE  Sound(archive'.db, archive'.sid, spill'[archive'.sid])
        BY <2>1, <3>1, <3>2, <4>1, <4>2
      <4> QED BY <3>1, <4>2 DEF Archived
    <3> QED BY <2>3, <3>3
  <2>7. CASE CopyBlobs(p)
    <3>1. /\ archive'.db = archive.db /\ archive'.sid = archive.sid
          /\ archive'.blobs = spill[archive.sid]
      <4>1. archive' = [archive EXCEPT !.blobs = spill[call[p].sid], !.done = TRUE]
        BY <2>7 DEF CopyBlobs
      <4> QED BY <2>5, <2>7, <4>1 DEF Archives
    <3>2. call[p].at = "blobs"
      BY <2>7 DEF CopyBlobs, At
    <3>3. archive.sid \notin contended => Sound(archive.db, archive.sid, spill[archive.sid])
      BY <2>1, <2>5, <2>7, <3>2 DEF Archived
    <3>4. call'[p].op = "idle"
      BY <2>7, ReturnFacts DEF CopyBlobs
    <3>5. \A q \in Calls : call'[q].op # "export"
      BY <2>1, <2>2, <3>4 DEF Others
    <3>6. Archived'
      BY <2>1, <3>1, <3>3, <3>5 DEF Archived
    <3> QED BY <2>3, <3>6
  <2> QED BY <1>14, <2>4, <2>6, <2>7
<1>15. CASE Crash
  <2>1. /\ \A q \in Calls : call'[q].op = "idle"
        /\ contended' = contended /\ (archive' = archive \/ archive' = None)
    BY <1>15 DEF Crash, Idle
  <2> QED BY <2>1 DEF Reading, Archived
<1>16. ASSUME UNCHANGED <<spill, archive, call, contended>> PROVE Reading' /\ Archived'
  BY <1>16, ArchiveKept
<1>17. ASSUME NEW d \in Defs, Define(d) \/ Undefine(d) PROVE Reading' /\ Archived'
  BY <1>16, <1>17 DEF Define, Undefine
<1>18. CASE UNCHANGED vars
  BY <1>16, <1>18 DEF vars
<1> QED BY <1>6, <1>7, <1>8, <1>9, <1>10, <1>11, <1>12, <1>13, <1>14, <1>15, <1>17, <1>18 DEF Next

-----------------------------------------------------------------------------
(* The invariant, and what it says of the program.                           *)

\* The store starts in the invariant, whatever bundle an earlier run left.
LEMMA BundleInit == Init => BundleInv
<1> SUFFICES ASSUME Init PROVE BundleInv
  OBVIOUS
<1>1. TypeInv /\ OneArchive
  BY TypeInit
<1>2. PICK s \in Sids, f \in Flows, b \in Bodies, v \in Versions, st \in {"none", "open", "closed"} :
        /\ st # "closed" => v = "current"
        /\ s = CHOOSE t \in Sids : TRUE
        /\ f = CHOOSE e \in Flows : TRUE
        /\ b = CHOOSE c \in Bodies : TRUE
        /\ row = [t \in Sids |-> IF t = s THEN st ELSE "none"]
        /\ file = [t \in Sids |-> IF t = s /\ st # "none" THEN 1 ELSE None]
        /\ db = [g \in Gens |-> IF g = 1 /\ st # "none" THEN Recorded(s, f, b, v) ELSE Fresh]
        /\ spill = [t \in Sids |-> [c \in Bodies |->
                        IF t = s /\ c = b /\ st # "none" THEN "whole" ELSE "absent"]]
  BY Zenon DEF Init
<1>3. /\ pool = [t \in Sids |-> None] /\ shut = {}
      /\ call = [p \in Calls |-> Idle] /\ archive = None /\ faults = 0 /\ contended = {}
  BY DEF Init
<1>4. /\ \A p \in Calls : call[p].op = "idle" /\ call[p].g = None /\ call[p].sid = None
      /\ \A t \in Sids : pool[t] = None
  BY <1>3 DEF Idle
<1>5. Apart
  <2>1. \A t \in Sids, g \in Gens : Holds(t, g) => t = s
    BY <1>2, <1>4 DEF Holds
  <2> QED BY <2>1 DEF Apart
<1>6. SessionInv
  <2>1. SUFFICES ASSUME NEW t \in Sids PROVE SessionOK(t)
    BY DEF SessionInv
  <2>2. \A p \in Calls : call[p].sid # t
    BY <1>4, StoreAssumption
  <2>3. Solo(t) /\ Fits(t) /\ Served(t)
    BY <1>4, <2>2 DEF Solo, Fits, Served
  <2>4. Intact(t)
    <3>1. SUFFICES ASSUME row[t] # "none", file[t] # None PROVE Sound(db[file[t]], t, spill[t])
      BY DEF Intact
    <3>2. t = s /\ st # "none" /\ file[t] = 1
      BY <1>2, <3>1
    <3>3. 1 \in Gens
      BY <1>1, <3>1, <3>2, StoreAssumption DEF TypeInv, TypeOK
    <3>4. db[1] = Recorded(s, f, b, v)
      BY <1>2, <3>2, <3>3
    <3>5. /\ \A x \in Bodies : Recorded(s, f, b, v).blobs[x] = IF x = b THEN s ELSE "absent"
          /\ \A x \in Flows : Recorded(s, f, b, v).flows[x] = IF x = f THEN b ELSE "absent"
          /\ Recorded(s, f, b, v).tagged = {}
      BY DEF Recorded, Fresh
    <3>6. \A x \in Bodies : x = b => spill[t][x] = "whole"
      BY <1>2, <3>2
    <3> QED BY <3>2, <3>4, <3>5, <3>6, StoreAssumption DEF Sound, Whole, Named
  <2>5. Matches(t)
    <3>1. row[t] = "none" => file[t] = None /\ spill[t] = NoFiles
      BY <1>2 DEF NoFiles
    <3>2. row[t] # "none" => file[t] # None
      BY <1>2, StoreAssumption
    <3> QED BY <3>1, <3>2 DEF Matches
  <2> QED BY <2>3, <2>4, <2>5 DEF SessionOK
<1>7. Reading /\ Archived
  BY <1>3, <1>4 DEF Reading, Archived
<1> QED BY <1>1, <1>5, <1>6, <1>7 DEF BundleInv

\* Every step keeps the invariant.
LEMMA BundleStep == BundleInv /\ [Next]_vars => BundleInv'
<1> SUFFICES ASSUME BundleInv, [Next]_vars PROVE BundleInv'
  OBVIOUS
<1>1. TypeInv /\ OneArchive /\ Apart /\ SessionInv /\ Reading /\ Archived
  BY DEF BundleInv
<1>2. TypeInv'
  BY <1>1, TypeStep
<1> QED BY <1>1, <1>2, OneArchiveStep, ApartStep, SessionStep, ArchiveStep DEF BundleInv

\* The invariant holds at all times.
LEMMA BundleKept == Spec => []BundleInv
<1> QED BY BundleInit, BundleStep, PTL DEF Spec

\* What the invariant says of the properties.
LEMMA BundleMeans == BundleInv => BlobPresent /\ BundleStandsAlone /\ OneStory
<1> SUFFICES ASSUME BundleInv PROVE BlobPresent /\ BundleStandsAlone /\ OneStory
  OBVIOUS
<1>1. TypeInv /\ SessionInv /\ Archived
  BY DEF BundleInv
<1>2. TypeOK /\ (archive = None \/ archive \in Archives)
  BY <1>1 DEF TypeInv
<1>3. ASSUME NEW s \in Sids, Settled(s), file[s] # None
      PROVE  Sound(db[file[s]], s, spill[s])
  BY <1>1, <1>3 DEF Settled, SessionInv, SessionOK, Intact
<1>4. BlobPresent
  BY <1>3 DEF BlobPresent, Refs, Sound, Whole
<1>5. ArchiveComplete
  BY <1>1 DEF ArchiveComplete, Archived, Sound, Whole
<1>6. TagsNamed
  BY <1>3 DEF TagsNamed, Sound, Named
<1>7. PoolHonest
  BY <1>1 DEF PoolHonest, SessionInv, SessionOK, Served
<1>8. CatalogMatchesDisk
  <2>1. SUFFICES ASSUME NEW s \in Sids \ contended, Busy(s) = {}, faults = 0
                 PROVE  (row[s] = "none") <=> (file[s] = None /\ spill[s] = NoFiles)
    BY DEF CatalogMatchesDisk
  <2>2. Matches(s)
    BY <1>1, <2>1 DEF SessionInv, SessionOK
  <2>3. ~Creating(s) /\ ~Moving(s)
    BY <2>1 DEF Busy, Creating, Moving
  <2> QED BY <2>1, <2>2, <2>3 DEF Matches
<1> QED BY <1>2, <1>4, <1>5, <1>6, <1>7, <1>8 DEF BundleStandsAlone, OneStory

\* A committed reference to a spilled body leads to a file of the same session, whatever
\* failed on the way, however the session got here and whatever was deleted since: of every
\* session that raced no deletion and no import (storeBlob, RewriteSessionID, RemoveAll).
THEOREM ReferencesLead == Spec => []BlobPresent
<1> QED BY BundleKept, BundleMeans, PTL

\* An archive holds every body its snapshot refers to, and a bundle names every tag it
\* assigns (Export, SetTags, mirrorTag).
THEOREM BundlesStandAlone == Spec => []BundleStandsAlone
<1> QED BY BundleKept, BundleMeans, PTL

\* The pool serves the database at the session's path, and with no call at work and no fault
\* the catalog and the disk name the same sessions (sessionDB, DeleteSession, Import).
THEOREM StoryIsOne == Spec => []OneStory
<1> QED BY BundleKept, BundleMeans, PTL

=============================================================================
