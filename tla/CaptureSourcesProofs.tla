------------------------ MODULE CaptureSourcesProofs ------------------------
(* Theorems about CaptureSources, for any number of callers, sources,        *)
(* modules, connections and captures: the types, that a source that is       *)
(* closed has no captures and the gateway's service records are its own,     *)
(* and that the captures the gateway knows are stopped where they run.       *)
EXTENDS CaptureSources, SequenceTheorems, TLAPS

-----------------------------------------------------------------------------
(* What a handler has in hand, and where.                                    *)

Pcs == {"idle", "ensure", "module", "svcspawn", "svcrecord", "spawn", "waiting", "store",
        "dropping", "rpc", "started", "record", "stopping", "unmap"}

\* The program counters at which `held' is a connection.
Connected == {"waiting", "store", "dropping", "rpc", "started", "record", "stopping", "unmap"}

\* A handler has what its next step works with.
Equipped(h) ==
    /\ h.spare # 0 => h.pc = "dropping"
    /\ h.pc \in Connected => h.held \in Conns
    /\ h.pc = "svcrecord" => h.held \in SvcProcs
    /\ h.pc \in {"svcspawn", "svcrecord"} => h.todo # << >>
    /\ h.pc \notin {"idle", "module", "svcspawn", "svcrecord"} => h.op # "service"
    /\ h.pc # "idle" /\ h.op # "service" => h.src \in Sources
    /\ h.pc \in {"started", "record"} => h.sid \in Sessions

TypeInv == TypeOK /\ \A c \in Calls : Equipped(call[c])

\* The bounds are natural numbers, and 0 stands for "none" beside each.
LEMMA Bounds == /\ MaxConns \in Nat /\ MaxSessions \in Nat /\ MaxServices \in Nat
                /\ Conns \subseteq 0..MaxConns /\ SvcProcs \subseteq 0..MaxServices
                /\ Sessions \subseteq 0..MaxSessions
<1>1. {MaxConns, MaxDials, MaxSessions, MaxServices} \subseteq Nat
  BY SourcesAssumption
<1>2. MaxConns \in Nat /\ MaxSessions \in Nat /\ MaxServices \in Nat
  BY <1>1
<1> QED BY <1>2 DEF Conns, SvcProcs, Sessions

\* What a step may replace in a handler.
LEMMA Updates ==
    ASSUME NEW h \in Handlers
    PROVE  /\ \A p \in Pcs : [h EXCEPT !.pc = p] \in Handlers
           /\ \A p \in Pcs, i \in 0..(MaxConns + MaxServices) :
                 [h EXCEPT !.pc = p, !.held = i] \in Handlers
           /\ \A p \in Pcs, i \in 0..(MaxConns + MaxServices), j \in 0..MaxConns :
                 [h EXCEPT !.pc = p, !.held = i, !.spare = j] \in Handlers
           /\ \A p \in Pcs, j \in 0..MaxConns : [h EXCEPT !.pc = p, !.spare = j] \in Handlers
           /\ \A p \in Pcs, s \in 0..MaxSessions : [h EXCEPT !.pc = p, !.sid = s] \in Handlers
           /\ \A p \in Pcs, t \in Seq(Services) : [h EXCEPT !.pc = p, !.todo = t] \in Handlers
           /\ \A t \in Seq(Services) : [h EXCEPT !.todo = t] \in Handlers
           /\ \A p \in Pcs, t \in Seq(Services), i \in 0..(MaxConns + MaxServices) :
                 [h EXCEPT !.pc = p, !.todo = t, !.held = i] \in Handlers
<1>1. \A p \in Pcs : [h EXCEPT !.pc = p] \in Handlers
  BY DEF Handlers, Pcs
<1>2. \A p \in Pcs, i \in 0..(MaxConns + MaxServices) :
        [h EXCEPT !.pc = p, !.held = i] \in Handlers
  BY DEF Handlers, Pcs
<1>3. \A p \in Pcs, i \in 0..(MaxConns + MaxServices), j \in 0..MaxConns :
        [h EXCEPT !.pc = p, !.held = i, !.spare = j] \in Handlers
  BY DEF Handlers, Pcs
<1>4. \A p \in Pcs, j \in 0..MaxConns : [h EXCEPT !.pc = p, !.spare = j] \in Handlers
  BY DEF Handlers, Pcs
<1>5. \A p \in Pcs, s \in 0..MaxSessions : [h EXCEPT !.pc = p, !.sid = s] \in Handlers
  BY DEF Handlers, Pcs
<1>6. \A p \in Pcs, t \in Seq(Services) : [h EXCEPT !.pc = p, !.todo = t] \in Handlers
  BY DEF Handlers, Pcs
<1>7. \A t \in Seq(Services) : [h EXCEPT !.todo = t] \in Handlers
  BY DEF Handlers, Pcs
<1>8. \A p \in Pcs, t \in Seq(Services), i \in 0..(MaxConns + MaxServices) :
        [h EXCEPT !.pc = p, !.todo = t, !.held = i] \in Handlers
  BY DEF Handlers, Pcs
<1> QED BY <1>1, <1>2, <1>3, <1>4, <1>5, <1>6, <1>7, <1>8

\* What a call begins with.
LEMMA Begun ==
    ASSUME NEW h \in Handlers
    PROVE  /\ \A p \in Pcs, s \in Sources :
                 [h EXCEPT !.pc = p, !.op = "start", !.src = s] \in Handlers
           /\ \A p \in Pcs, s \in Sources, i \in 0..MaxSessions :
                 [h EXCEPT !.pc = p, !.op = "stop", !.src = s, !.sid = i] \in Handlers
           /\ \A p \in Pcs, t \in Seq(Services) :
                 [h EXCEPT !.pc = p, !.op = "service", !.todo = t] \in Handlers
<1>1. \A p \in Pcs, s \in Sources :
        [h EXCEPT !.pc = p, !.op = "start", !.src = s] \in Handlers
  BY ZenonT(60) DEF Handlers, Pcs
<1>2. \A p \in Pcs, s \in Sources, i \in 0..MaxSessions :
        [h EXCEPT !.pc = p, !.op = "stop", !.src = s, !.sid = i] \in Handlers
  BY ZenonT(60) DEF Handlers, Pcs
<1>3. \A p \in Pcs, t \in Seq(Services) :
        [h EXCEPT !.pc = p, !.op = "service", !.todo = t] \in Handlers
  BY ZenonT(60) DEF Handlers, Pcs
<1> QED BY <1>1, <1>2, <1>3

\* A handler between two calls is well-formed.
LEMMA IdleType == Idle \in Handlers /\ Equipped(Idle)
<1>1. << >> \in Seq(Services)
  OBVIOUS
<1> QED BY <1>1, Bounds DEF Idle, Handlers, Equipped, Connected

\* The table of handlers stays well-typed when the handler's new state is.
LEMMA CallType ==
    ASSUME TypeInv, NEW c \in Calls, NEW from, NEW next \in Handlers, Step(c, from, next),
           Equipped(next)
    PROVE  /\ call' \in [Calls -> Handlers]
           /\ \A d \in Calls : call'[d].pc \in {"rpc", "started", "record", "stopping", "unmap"} =>
                 call'[d].held # 0 /\ call'[d].spare = 0
           /\ \A d \in Calls : Equipped(call'[d])
<1>1. call \in [Calls -> Handlers] /\ call' = [call EXCEPT ![c] = next]
  BY DEF TypeInv, TypeOK, Step
<1>2. call' \in [Calls -> Handlers]
  BY <1>1
<1>3. \A d \in Calls : call'[d] = IF d = c THEN next ELSE call[d]
  BY <1>1
<1>4. \A d \in Calls : Equipped(call'[d])
  BY <1>3 DEF TypeInv
<1>5. \A d \in Calls : call'[d].pc \in {"rpc", "started", "record", "stopping", "unmap"} =>
         call'[d].held # 0 /\ call'[d].spare = 0
  BY <1>4 DEF Equipped, Connected, Conns
<1> QED BY <1>2, <1>4, <1>5

-----------------------------------------------------------------------------
(* Type correctness.                                                         *)

\* The cached connection's key, and the module's services.
LEMMA KeyType ==
    ASSUME NEW s \in Sources
    PROVE  /\ keyOf(s) \in Sources
           /\ keyOf(s) \in Dialed => ModuleServices[keyOf(s)] \in Seq(Services)
<1>1. keyOf(s) \in Sources
  BY SourcesAssumption DEF keyOf, Sources
<1>2. ASSUME NEW k \in Dialed PROVE ModuleServices[k] \in Seq(Services)
  <2>1. Range(ModuleServices[k]) \subseteq Services
    BY DEF Services
  <2>2. ModuleServices[k] \in Seq(Range(ModuleServices[k]))
    BY SourcesAssumption
  <2> QED BY <2>1, <2>2
<1> QED BY <1>1, <1>2

\* A handler that goes on with what it has in hand, and one that returns.
LEMMA GoType ==
    ASSUME TypeInv, NEW c \in Calls, NEW from, NEW to \in Pcs, Go(c, from, to),
           Equipped([call[c] EXCEPT !.pc = to])
    PROVE  /\ call' \in [Calls -> Handlers]
           /\ \A d \in Calls : call'[d].pc \in {"rpc", "started", "record", "stopping", "unmap"} =>
                 call'[d].held # 0 /\ call'[d].spare = 0
           /\ \A d \in Calls : Equipped(call'[d])
<1>1. call[c] \in Handlers
  BY DEF TypeInv, TypeOK
<1>2. [call[c] EXCEPT !.pc = to] \in Handlers
  BY <1>1, Updates
<1> QED BY <1>2, CallType DEF Go

\* A handler that returns leaves the table well-typed.
LEMMA ReturnType ==
    ASSUME TypeInv, NEW c \in Calls, NEW from, Return(c, from)
    PROVE  /\ call' \in [Calls -> Handlers]
           /\ \A d \in Calls : call'[d].pc \in {"rpc", "started", "record", "stopping", "unmap"} =>
                 call'[d].held # 0 /\ call'[d].spare = 0
           /\ \A d \in Calls : Equipped(call'[d])
  BY IdleType, CallType DEF Return

\* The steps of ensure, by which a handler gets its connection.
LEMMA EnsureType ==
    ASSUME TypeInv, NEW c \in Calls,
           Ensure(c) \/ Spawn(c) \/ SpawnRefused(c) \/ SpawnReady(c) \/ SpawnFailed(c)
             \/ Store(c) \/ Dropped(c)
    PROVE  TypeInv'
<1> DEFINE h == call[c]
           k == keyOf(h.src)
<1>1. TypeOK /\ h \in Handlers /\ Equipped(h) /\ (\A d \in Calls : Equipped(call[d]))
  BY DEF TypeInv, TypeOK
<1>2. /\ h.held \in 0..(MaxConns + MaxServices) /\ h.spare \in 0..MaxConns
      /\ h.todo \in Seq(Services)
  BY <1>1 DEF Handlers
<1>3. Conns \subseteq 0..(MaxConns + MaxServices) /\ 0..MaxConns \subseteq 0..(MaxConns + MaxServices)
  BY Bounds DEF Conns
<1>4. CASE Ensure(c)
  <2>1. h.pc = "ensure" /\ h.src \in Sources /\ h.op # "service" /\ h.spare = 0
    BY <1>1, <1>4 DEF Ensure, Equipped
  <2>2. k \in Sources /\ (k \in Dialed => ModuleServices[k] \in Seq(Services))
    BY <2>1, KeyType
  <2>3. CASE conns[k] # 0
    <3> DEFINE n == [h EXCEPT !.pc = "rpc", !.held = conns[k]]
    <3>1. conns[k] \in Conns
      BY <1>1, <2>2, <2>3, Bounds DEF TypeOK, Conns
    <3>2. n \in Handlers
      BY <1>1, <1>3, <3>1, Updates DEF Pcs
    <3>3. Equipped(n)
      BY <1>1, <2>1, <3>1 DEF Equipped, Handlers
    <3>4. Step(c, "ensure", n)
      BY <1>4, <2>3 DEF Ensure
    <3> QED BY <1>1, <1>4, <3>2, <3>3, <3>4, CallType
          DEF Ensure, TypeInv, TypeOK, sourceVars, captureVars, serviceVars
  <2>4. CASE conns[k] = 0 /\ k \in Dialed
    <3> DEFINE n == [h EXCEPT !.pc = "module", !.todo = ModuleServices[k]]
    <3>1. n \in Handlers
      BY <1>1, <2>2, <2>4, Updates DEF Pcs
    <3>2. Equipped(n)
      BY <1>1, <2>1 DEF Equipped, Handlers, Connected
    <3>3. Step(c, "ensure", n)
      BY <1>4, <2>4 DEF Ensure
    <3> QED BY <1>1, <1>4, <3>1, <3>2, <3>3, CallType
          DEF Ensure, TypeInv, TypeOK, sourceVars, captureVars, serviceVars
  <2>5. CASE conns[k] = 0 /\ k \notin Dialed
    <3>1. Go(c, "ensure", "spawn")
      BY <1>4, <2>5 DEF Ensure
    <3>2. Equipped([h EXCEPT !.pc = "spawn"])
      BY <1>1, <2>1 DEF Equipped, Handlers, Connected
    <3> QED BY <1>1, <1>4, <3>1, <3>2, GoType
          DEF Ensure, TypeInv, TypeOK, Pcs, sourceVars, captureVars, serviceVars
  <2> QED BY <2>3, <2>4, <2>5
<1>5. CASE Spawn(c)
  <2>1. h.src \in Sources /\ h.op # "service" /\ h.spare = 0
    BY <1>1, <1>5 DEF Spawn, Equipped
  <2>2. k \in Sources
    BY <2>1, KeyType
  <2>3. PICK i \in Fresh(proc) :
          /\ Step(c, "spawn", [h EXCEPT !.pc = IF k \in Dialed THEN "store" ELSE "waiting",
                                        !.held = i])
          /\ proc' = [proc EXCEPT ![i] = IF k \in Dialed THEN "remote" ELSE "starting"]
          /\ of' = [of EXCEPT ![i] = k]
    BY <1>5 DEF Spawn
  <2> DEFINE n == [h EXCEPT !.pc = IF k \in Dialed THEN "store" ELSE "waiting", !.held = i]
  <2>4. i \in Conns
    BY <1>1 DEF Fresh, TypeOK
  <2>5. n \in Handlers
    BY <1>1, <1>3, <2>4, Updates DEF Pcs
  <2>6. Equipped(n)
    BY <1>1, <2>1, <2>4 DEF Equipped, Handlers, Connected
  <2>7. proc' \in [Conns -> {"unused", "starting", "up", "remote", "stopping"} \cup Gone]
        /\ of' \in [Conns -> Sources]
    BY <1>1, <2>2, <2>3 DEF TypeOK
  <2> QED BY <1>1, <1>5, <2>3, <2>5, <2>6, <2>7, CallType
        DEF Spawn, TypeInv, TypeOK, captureVars, serviceVars
<1>6. CASE SpawnRefused(c)
  BY <1>1, <1>6, ReturnType
     DEF SpawnRefused, TypeInv, TypeOK, sourceVars, captureVars, serviceVars
<1>7. CASE SpawnReady(c)
  <2>1. h.pc = "waiting" /\ Go(c, "waiting", "store")
    BY <1>7 DEF SpawnReady, Go, Step
  <2>2. Equipped([h EXCEPT !.pc = "store"])
    BY <1>1, <2>1 DEF Equipped, Handlers, Connected
  <2>3. proc' \in [Conns -> {"unused", "starting", "up", "remote", "stopping"} \cup Gone]
    BY <1>1, <1>7 DEF SpawnReady, TypeOK
  <2> QED BY <1>1, <1>7, <2>1, <2>2, <2>3, GoType
        DEF SpawnReady, TypeInv, TypeOK, Pcs, captureVars, serviceVars
<1>8. CASE SpawnFailed(c)
  <2>1. proc' \in [Conns -> {"unused", "starting", "up", "remote", "stopping"} \cup Gone]
    BY <1>1, <1>8 DEF SpawnFailed, TypeOK
  <2> QED BY <1>1, <1>8, <2>1, ReturnType
        DEF SpawnFailed, TypeInv, TypeOK, captureVars, serviceVars
<1>9. CASE Store(c)
  <2>1. h.pc = "store" /\ h.src \in Sources /\ h.op # "service" /\ h.spare = 0 /\ h.held \in Conns
    BY <1>1, <1>9 DEF Store, Equipped, Connected
  <2>2. k \in Sources
    BY <2>1, KeyType
  <2>3. CASE conns[k] # 0
    <3> DEFINE n == [h EXCEPT !.pc = "dropping", !.held = conns[k], !.spare = h.held]
    <3>1. conns[k] \in Conns
      BY <1>1, <2>2, <2>3, Bounds DEF TypeOK, Conns
    <3>2. h.held \in 0..MaxConns
      BY <2>1, Bounds
    <3>3. n \in Handlers
      BY <1>1, <1>3, <3>1, <3>2, Updates DEF Pcs
    <3>4. Equipped(n)
      BY <1>1, <2>1, <3>1 DEF Equipped, Handlers, Connected
    <3>5. Step(c, "store", n) /\ closed(h.held) /\ UNCHANGED <<conns, of>>
      BY <1>9, <2>3 DEF Store
    <3>6. proc' \in [Conns -> {"unused", "starting", "up", "remote", "stopping"} \cup Gone]
      BY <1>1, <3>5 DEF closed, TypeOK, Gone
    <3>7. stopping' \in [Conns -> SUBSET Sessions]
      BY <1>1, <3>5 DEF closed, TypeOK
    <3> QED BY <1>1, <1>9, <3>3, <3>4, <3>5, <3>6, <3>7, CallType
          DEF Store, TypeInv, TypeOK, captureVars, serviceVars
  <2>4. CASE conns[k] = 0
    <3>1. /\ Go(c, "store", "rpc") /\ conns' = [conns EXCEPT ![k] = h.held]
          /\ UNCHANGED sourceVars
      BY <1>9, <2>4 DEF Store
    <3>2. Equipped([h EXCEPT !.pc = "rpc"])
      BY <1>1, <2>1 DEF Equipped, Handlers, Connected
    <3>3. conns' \in [Sources -> 0..MaxConns]
      BY <1>1, <2>1, <3>1, Bounds DEF TypeOK
    <3> QED BY <1>1, <1>9, <3>1, <3>2, <3>3, GoType
          DEF Store, TypeInv, TypeOK, Pcs, sourceVars, captureVars, serviceVars
  <2> QED BY <2>3, <2>4
<1>10. CASE Dropped(c)
  <2> DEFINE n == [h EXCEPT !.pc = "rpc", !.spare = 0]
  <2>1. h.pc = "dropping" /\ Step(c, "dropping", n)
    BY <1>10 DEF Dropped, Step
  <2>2. n \in Handlers
    <3>1. 0 \in 0..MaxConns /\ "rpc" \in Pcs
      BY Bounds DEF Pcs
    <3> QED BY <1>1, <3>1, Updates
  <2>3. Equipped(n)
    BY <1>1, <2>1 DEF Equipped, Handlers, Connected
  <2> QED BY <1>1, <1>10, <2>1, <2>2, <2>3, CallType
        DEF Dropped, TypeInv, TypeOK, sourceVars, captureVars, serviceVars
<1> QED BY <1>4, <1>5, <1>6, <1>7, <1>8, <1>9, <1>10

\* The steps of a handler that has its connection: starting and stopping captures.
LEMMA CaptureCallType ==
    ASSUME TypeInv, NEW c \in Calls,
           \/ Answered(c) \/ StartRpc(c) \/ Track(c) \/ StartLost(c) \/ Record(c)
           \/ StopRpc(c) \/ StopIdle(c) \/ Unmap(c) \/ StopLost(c)
    PROVE  TypeInv'
<1> DEFINE h == call[c]
<1>1. TypeOK /\ h \in Handlers /\ Equipped(h) /\ (\A d \in Calls : Equipped(call[d]))
  BY DEF TypeInv, TypeOK
<1>2. CASE Answered(c) \/ StartLost(c)
  BY <1>1, <1>2, ReturnType
     DEF Answered, StartLost, TypeInv, TypeOK, sourceVars, captureVars, serviceVars
<1>3. CASE StartRpc(c)
  <2>1. PICK s \in Sessions :
          /\ cap' = [cap EXCEPT ![s] = "running"]
          /\ at' = [at EXCEPT ![s] = h.held]
          /\ Step(c, "rpc", [h EXCEPT !.pc = "started", !.sid = s])
    BY <1>3 DEF StartRpc, Fresh
  <2> DEFINE n == [h EXCEPT !.pc = "started", !.sid = s]
  <2>2. h.pc = "rpc" /\ h.op # "service" /\ h.spare = 0 /\ h.held \in Conns /\ h.src \in Sources
    BY <1>1, <1>3 DEF StartRpc, Equipped, Connected
  <2>3. n \in Handlers
    <3>1. s \in 0..MaxSessions /\ "started" \in Pcs
      BY Bounds DEF Pcs
    <3> QED BY <1>1, <3>1, Updates
  <2>4. Equipped(n)
    BY <1>1, <2>2 DEF Equipped, Handlers, Connected
  <2>5. at' \in [Sessions -> 0..MaxConns] /\ cap' \in [Sessions -> Captures]
    BY <1>1, <2>1, <2>2, Bounds DEF TypeOK, Captures
  <2> QED BY <1>1, <1>3, <2>1, <2>3, <2>4, <2>5, CallType
        DEF StartRpc, TypeInv, TypeOK, sourceVars, serviceVars
<1>4. CASE Track(c)
  <2>1. h.pc = "started" /\ h.op # "service" /\ h.spare = 0 /\ h.held \in Conns /\ h.src \in Sources
    BY <1>1, <1>4 DEF Track, Answers, Equipped, Connected
  <2>2. /\ call' \in [Calls -> Handlers]
        /\ \A d \in Calls : call'[d].pc \in {"rpc", "started", "record", "stopping", "unmap"} =>
              call'[d].held # 0 /\ call'[d].spare = 0
        /\ \A d \in Calls : Equipped(call'[d])
    <3>1. CASE Go(c, "started", "record")
      <4>1. Equipped([h EXCEPT !.pc = "record"])
        BY <1>1, <2>1 DEF Equipped, Handlers, Connected
      <4> QED BY <3>1, <4>1, GoType DEF Pcs
    <3>2. CASE Return(c, "started")
      BY <3>2, ReturnType
    <3> QED BY <1>4, <3>1, <3>2 DEF Track, Answers
  <2>3. tracked' \subseteq Sessions
    <3>1. h.sid \in Sessions
      BY <1>1, <2>1 DEF Equipped
    <3> QED BY <1>1, <1>4, <3>1 DEF Track, TypeOK
  <2> QED BY <1>1, <1>4, <2>2, <2>3 DEF Track, TypeInv, TypeOK, sourceVars, serviceVars
<1>5. CASE Record(c)
  <2>1. h.src \in Sources
    BY <1>1, <1>5 DEF Record, Return, Step, Equipped
  <2>2. session' \in [Sessions -> Sources \cup {"none"}]
    BY <1>1, <1>5, <2>1 DEF Record, TypeOK
  <2> QED BY <1>1, <1>5, <2>2, ReturnType
        DEF Record, TypeInv, TypeOK, sourceVars, captureVars, serviceVars
<1>6. ASSUME NEW to \in {"stopping", "unmap"}, Go(c, "rpc", to)
      PROVE  /\ call' \in [Calls -> Handlers]
             /\ \A d \in Calls : call'[d].pc \in {"rpc", "started", "record", "stopping", "unmap"} =>
                   call'[d].held # 0 /\ call'[d].spare = 0
             /\ \A d \in Calls : Equipped(call'[d])
  <2>1. h.pc = "rpc" /\ h.op # "service" /\ h.spare = 0 /\ h.held \in Conns /\ h.src \in Sources
    BY <1>1, <1>6 DEF Go, Step, Equipped, Connected
  <2>2. Equipped([h EXCEPT !.pc = to])
    BY <1>1, <2>1 DEF Equipped, Handlers, Connected
  <2> QED BY <1>6, <2>2, GoType DEF Pcs
<1>7. CASE StopRpc(c)
  <2>1. cap' \in [Sessions -> Captures]
    BY <1>1, <1>7 DEF StopRpc, TypeOK, Captures
  <2> QED BY <1>1, <1>6, <1>7, <2>1 DEF StopRpc, TypeInv, TypeOK, sourceVars, serviceVars
<1>8. CASE StopIdle(c)
  <2>1. tracked' \subseteq Sessions
    BY <1>1, <1>8 DEF StopIdle, TypeOK
  <2> QED BY <1>1, <1>6, <1>8, <2>1 DEF StopIdle, TypeInv, TypeOK, sourceVars, serviceVars
<1>9. CASE Unmap(c) \/ StopLost(c)
  <2>1. session' \in [Sessions -> Sources \cup {"none"}]
    BY <1>1, <1>9 DEF Unmap, StopLost, TypeOK
  <2>2. \E from : Return(c, from)
    BY <1>9 DEF Unmap, StopLost
  <2> QED BY <1>1, <1>9, <2>1, <2>2, ReturnType
        DEF Unmap, StopLost, TypeInv, TypeOK, sourceVars, captureVars, serviceVars
<1> QED BY <1>2, <1>3, <1>4, <1>5, <1>7, <1>8, <1>9

\* The steps that start a module's services.
LEMMA ServiceCallType ==
    ASSUME TypeInv, NEW c \in Calls,
           ServiceCheck(c) \/ ServiceSpawn(c) \/ ServiceRefused(c) \/ ServiceRecord(c) \/ ServicesUp(c)
    PROVE  TypeInv'
<1> DEFINE h == call[c]
<1>1. TypeOK /\ h \in Handlers /\ Equipped(h) /\ (\A d \in Calls : Equipped(call[d]))
  BY DEF TypeInv, TypeOK
<1>2. h.todo \in Seq(Services)
  BY <1>1 DEF Handlers
<1>3. CASE ServiceCheck(c)
  <2>1. CASE running[Head(h.todo)] # 0
    <3> DEFINE n == [h EXCEPT !.todo = Tail(@)]
    <3>1. h.pc = "module" /\ h.todo # << >> /\ Step(c, "module", n)
      BY <1>3, <2>1 DEF ServiceCheck, Step
    <3>2. n \in Handlers
      <4>1. Tail(h.todo) \in Seq(Services)
        BY <1>2, <3>1
      <4>2. [h EXCEPT !.todo = Tail(h.todo)] \in Handlers
        BY <1>1, <4>1, Updates
      <4> QED BY <4>2
    <3>3. Equipped(n)
      BY <1>1, <3>1 DEF Equipped, Handlers, Connected
    <3> QED BY <1>1, <1>3, <3>1, <3>2, <3>3, CallType
          DEF ServiceCheck, TypeInv, TypeOK, sourceVars, captureVars, serviceVars
  <2>2. CASE ~(running[Head(h.todo)] # 0)
    <3>1. h.pc = "module" /\ h.todo # << >> /\ Go(c, "module", "svcspawn")
      BY <1>3, <2>2 DEF ServiceCheck, Go, Step
    <3>2. Equipped([h EXCEPT !.pc = "svcspawn"])
      BY <1>1, <3>1 DEF Equipped, Handlers, Connected
    <3> QED BY <1>1, <1>3, <3>1, <3>2, GoType
          DEF ServiceCheck, TypeInv, TypeOK, Pcs, sourceVars, captureVars, serviceVars
  <2> QED BY <2>1, <2>2
<1>4. CASE ServiceSpawn(c)
  <2>1. PICK i \in SvcProcs :
          /\ svc' = [svc EXCEPT ![i] = "up"]
          /\ Step(c, "svcspawn", [h EXCEPT !.pc = "svcrecord", !.held = i])
    BY <1>1, <1>4 DEF ServiceSpawn, Fresh, TypeOK
  <2> DEFINE n == [h EXCEPT !.pc = "svcrecord", !.held = i]
  <2>2. h.pc = "svcspawn"
    BY <2>1 DEF Step
  <2>3. n \in Handlers
    <3>1. i \in 0..(MaxConns + MaxServices) /\ "svcrecord" \in Pcs
      BY Bounds DEF Pcs, SvcProcs
    <3> QED BY <1>1, <3>1, Updates
  <2>4. Equipped(n)
    BY <1>1, <2>2 DEF Equipped, Handlers, Connected
  <2>5. svc' \in [SvcProcs -> {"unused", "up", "stopping", "dead", "reaped"}]
    BY <1>1, <2>1 DEF TypeOK
  <2> QED BY <1>1, <1>4, <2>1, <2>3, <2>4, <2>5, CallType
        DEF ServiceSpawn, TypeInv, TypeOK, sourceVars, captureVars
<1>5. CASE ServiceRefused(c)
  BY <1>1, <1>5, ReturnType
     DEF ServiceRefused, TypeInv, TypeOK, sourceVars, captureVars, serviceVars
<1>6. CASE ServiceRecord(c)
  <2> DEFINE n == [h EXCEPT !.pc = "module", !.todo = Tail(@), !.held = 0]
  <2>1. h.pc = "svcrecord" /\ Step(c, "svcrecord", n)
    BY <1>6 DEF ServiceRecord, Step
  <2>2. h.todo # << >> /\ h.held \in SvcProcs
    BY <1>1, <2>1 DEF Equipped
  <2>3. n \in Handlers
    <3>1. Tail(h.todo) \in Seq(Services) /\ 0 \in 0..(MaxConns + MaxServices) /\ "module" \in Pcs
      BY <1>2, <2>2, Bounds DEF Pcs
    <3>2. [h EXCEPT !.pc = "module", !.todo = Tail(h.todo), !.held = 0] \in Handlers
      BY <1>1, <3>1, Updates
    <3> QED BY <3>2
  <2>4. Equipped(n)
    BY <1>1, <2>1 DEF Equipped, Handlers, Connected
  <2>5. running' \in [Services -> 0..MaxServices]
    BY <1>1, <1>6, <2>2, Bounds DEF ServiceRecord, TypeOK
  <2> QED BY <1>1, <1>6, <2>1, <2>3, <2>4, <2>5, CallType
        DEF ServiceRecord, TypeInv, TypeOK, sourceVars, captureVars
<1>7. CASE ServicesUp(c)
  <2>1. CASE h.op = "service"
    BY <1>1, <1>7, <2>1, ReturnType
       DEF ServicesUp, TypeInv, TypeOK, sourceVars, captureVars, serviceVars
  <2>2. CASE h.op # "service"
    <3>1. h.pc = "module" /\ Go(c, "module", "spawn")
      BY <1>7, <2>2 DEF ServicesUp, Go, Step
    <3>2. Equipped([h EXCEPT !.pc = "spawn"])
      BY <1>1, <2>2, <3>1 DEF Equipped, Handlers, Connected
    <3> QED BY <1>1, <1>7, <3>1, <3>2, GoType
          DEF ServicesUp, TypeInv, TypeOK, Pcs, sourceVars, captureVars, serviceVars
  <2> QED BY <2>1, <2>2
<1> QED BY <1>3, <1>4, <1>5, <1>6, <1>7

\* The calls come in.
LEMMA RequestType ==
    ASSUME TypeInv, NEW c \in Calls, Request(c) \/ StopCapture(c) \/ StartService(c)
    PROVE  TypeInv'
<1>1. TypeOK /\ (\A d \in Calls : Equipped(call[d])) /\ specs \subseteq Sources
  BY DEF TypeInv, TypeOK
<1>2. Idle \in Handlers /\ Idle.spare = 0
  BY IdleType DEF Idle
<1>3. CASE Request(c)
  <2>1. PICK s \in specs : Step(c, "idle", [Idle EXCEPT !.pc = "ensure", !.op = "start", !.src = s])
    BY <1>3 DEF Request
  <2> DEFINE n == [Idle EXCEPT !.pc = "ensure", !.op = "start", !.src = s]
  <2>2. s \in Sources /\ "ensure" \in Pcs
    BY <1>1 DEF Pcs
  <2>3. n \in Handlers
    BY <1>2, <2>2, Begun
  <2>4. Equipped(n)
    BY <1>2, <2>2 DEF Equipped, Connected, Handlers
  <2> QED BY <1>1, <1>3, <2>1, <2>3, <2>4, CallType
        DEF Request, TypeInv, TypeOK, sourceVars, captureVars, serviceVars
<1>4. CASE StopCapture(c)
  <2>1. PICK s \in Sessions :
          /\ session[s] # "none"
          /\ Step(c, "idle", [Idle EXCEPT !.pc = "ensure", !.op = "stop", !.src = session[s],
                                         !.sid = s])
    BY <1>4 DEF StopCapture
  <2> DEFINE n == [Idle EXCEPT !.pc = "ensure", !.op = "stop", !.src = session[s], !.sid = s]
  <2>2. session[s] \in Sources
    BY <1>1, <2>1 DEF TypeOK
  <2>3. s \in 0..MaxSessions
    BY Bounds
  <2>4. "ensure" \in Pcs
    BY DEF Pcs
  <2>5. n \in Handlers
    BY <1>2, <2>2, <2>3, <2>4, Begun
  <2>6. Equipped(n)
    BY <1>2, <2>2 DEF Equipped, Connected, Handlers
  <2> QED BY <1>1, <1>4, <2>1, <2>5, <2>6, CallType
        DEF StopCapture, TypeInv, TypeOK, sourceVars, captureVars, serviceVars
<1>5. CASE StartService(c)
  <2>0. PICK k \in specs \cap Dialed : \E s \in Range(ModuleServices[k]) :
          Step(c, "idle", [Idle EXCEPT !.pc = "module", !.op = "service", !.todo = <<s>>])
    BY <1>5 DEF StartService
  <2>1. PICK s \in Range(ModuleServices[k]) :
          Step(c, "idle", [Idle EXCEPT !.pc = "module", !.op = "service", !.todo = <<s>>])
    BY <2>0
  <2> DEFINE n == [Idle EXCEPT !.pc = "module", !.op = "service", !.todo = <<s>>]
  <2>2. <<s>> \in Seq(Services)
    BY DEF Services
  <2>3. "module" \in Pcs
    BY DEF Pcs
  <2>4. n \in Handlers
    BY <1>2, <2>2, <2>3, Begun
  <2>5. Equipped(n)
    BY <1>2 DEF Equipped, Connected, Handlers
  <2> QED BY <1>1, <1>5, <2>1, <2>4, <2>5, CallType
        DEF StartService, TypeInv, TypeOK, sourceVars, captureVars, serviceVars
<1> QED BY <1>3, <1>4, <1>5

\* What the services, the sources and the shutdown do by themselves.
LEMMA OutsideType ==
    ASSUME TypeInv,
           StopService \/ (\E i \in SvcProcs : ServiceReap(i)) \/ Environment
             \/ (\E i \in Conns : Kill(i)) \/ CloseBegin \/ Closing \/ UNCHANGED vars
    PROVE  TypeInv'
<1>1. TypeOK /\ (\A d \in Calls : Equipped(call[d])) /\ 0 \in 0..MaxServices /\ 0 \in 0..MaxConns
  BY Bounds DEF TypeInv
<1> USE DEF sourceVars, captureVars, serviceVars
<1>2. CASE StopService
  <2>1. PICK s \in Services :
          /\ running' = [running EXCEPT ![s] = 0]
          /\ svc' = [svc EXCEPT ![running[s]] = IF @ = "up" THEN "stopping" ELSE @]
    BY <1>2 DEF StopService
  <2>2. running' \in [Services -> 0..MaxServices]
    BY <1>1, <2>1 DEF TypeOK
  <2>3. svc' \in [SvcProcs -> {"unused", "up", "stopping", "dead", "reaped"}]
    BY <1>1, <2>1 DEF TypeOK
  <2> QED BY <1>1, <1>2, <2>2, <2>3 DEF StopService, TypeInv, TypeOK
<1>3. ASSUME NEW i \in SvcProcs, ServiceReap(i) PROVE TypeInv'
  <2>1. running' \in [Services -> 0..MaxServices]
    BY <1>1, <1>3 DEF ServiceReap, reaped, TypeOK
  <2>2. svc' \in [SvcProcs -> {"unused", "up", "stopping", "dead", "reaped"}]
    BY <1>1, <1>3 DEF ServiceReap, reaped, TypeOK
  <2> QED BY <1>1, <1>3, <2>1, <2>2 DEF ServiceReap, reaped, TypeInv, TypeOK
<1>4. ASSUME NEW i \in SvcProcs, ServiceExit(i) PROVE TypeInv'
  BY <1>1, <1>4 DEF ServiceExit, TypeInv, TypeOK
<1>5. ASSUME NEW s \in Sessions, StopOver(s) \/ SelfEnd(s) \/ SelfEnded(s) PROVE TypeInv'
  <2>1. /\ cap' \in [Sessions -> Captures]
        /\ tracked' \subseteq Sessions
    BY <1>1, <1>5 DEF StopOver, SelfEnd, SelfEnded, TypeOK, Captures
  <2> QED BY <1>1, <1>5, <2>1 DEF StopOver, SelfEnd, SelfEnded, TypeInv, TypeOK
<1>6. ASSUME NEW i \in Conns, ShutdownStop(i) PROVE TypeInv'
  <2>1. /\ cap' \in [Sessions -> Captures]
        /\ tracked' \subseteq Sessions
        /\ stopping' \in [Conns -> SUBSET Sessions]
    BY <1>1, <1>6 DEF ShutdownStop, TypeOK, Captures
  <2> QED BY <1>1, <1>6, <2>1 DEF ShutdownStop, TypeInv, TypeOK
<1>7. ASSUME NEW i \in Conns, ShutdownExit(i) \/ Crash(i) \/ Kill(i) PROVE TypeInv'
  <2>1. proc' \in [Conns -> {"unused", "starting", "up", "remote", "stopping"} \cup Gone]
    BY <1>1, <1>7 DEF ShutdownExit, Crash, Kill, TypeOK, Gone
  <2> QED BY <1>1, <1>7, <2>1 DEF ShutdownExit, Crash, Kill, TypeInv, TypeOK
<1>8. CASE CloseBegin
  <2>1. conns' \in [Sources -> 0..MaxConns]
    BY <1>1, <1>8 DEF CloseBegin, TypeOK
  <2>2. closing' \subseteq Conns
    BY <1>1, <1>8, Bounds DEF CloseBegin, TypeOK, Conns
  <2> QED BY <1>1, <1>8, <2>1, <2>2 DEF CloseBegin, TypeInv, TypeOK
<1>9. ASSUME NEW i \in Conns, CloseConn(i) PROVE TypeInv'
  <2>1. proc' \in [Conns -> {"unused", "starting", "up", "remote", "stopping"} \cup Gone]
    BY <1>1, <1>9 DEF CloseConn, closed, TypeOK, Gone
  <2>2. stopping' \in [Conns -> SUBSET Sessions]
    BY <1>1, <1>9 DEF CloseConn, closed, TypeOK
  <2> QED BY <1>1, <1>9, <2>1, <2>2 DEF CloseConn, TypeInv, TypeOK
<1>10. CASE ServicesClose
  <2>1. running' \in [Services -> 0..MaxServices]
    BY <1>1, <1>10 DEF ServicesClose, TypeOK
  <2>2. svc' \in [SvcProcs -> {"unused", "up", "stopping", "dead", "reaped"}]
    BY <1>1, <1>10 DEF ServicesClose, TypeOK
  <2> QED BY <1>1, <1>10, <2>1, <2>2 DEF ServicesClose, TypeInv, TypeOK
<1>11. CASE CloseDone \/ Exit \/ UNCHANGED vars
  BY <1>1, <1>11 DEF CloseDone, Exit, vars, TypeInv, TypeOK
<1> QED
  BY <1>2, <1>3, <1>4, <1>5, <1>6, <1>7, <1>8, <1>9, <1>10, <1>11 DEF Environment, Closing

\* Every step keeps the types.
LEMMA TypeStep == ASSUME TypeInv, [Next]_vars PROVE TypeInv'
<1>1. ASSUME NEW c \in Calls, Handler(c) PROVE TypeInv'
  BY <1>1, EnsureType, CaptureCallType, ServiceCallType DEF Handler
<1> QED BY <1>1, RequestType, OutsideType DEF Next, Rest

\* The gateway starts well-typed.
LEMMA TypeInit == Init => TypeInv
<1> SUFFICES ASSUME Init PROVE TypeInv
  OBVIOUS
<1>1. specs \subseteq Sources
  BY SourcesAssumption DEF Init, DefaultSpecs, ApplyManifests, Sources
<1>2. call \in [Calls -> Handlers] /\ \A c \in Calls : call[c] = Idle
  BY IdleType DEF Init
<1>3. \A c \in Calls : call[c].pc \in {"rpc", "started", "record", "stopping", "unmap"} =>
         call[c].held # 0 /\ call[c].spare = 0
  BY <1>2 DEF Idle
<1>4. of \in [Conns -> Sources]
  BY SourcesAssumption DEF Init, Sources
<1>5. 0 \in 0..MaxConns /\ 0 \in 0..MaxServices
  BY Bounds
<1> QED BY <1>1, <1>2, <1>3, <1>4, <1>5, IdleType DEF Init, TypeInv, TypeOK, Captures

-----------------------------------------------------------------------------
(* No source is left behind.                                                 *)

\* A handler carries a connection that is not in the table yet.
Carries(c) == call[c].pc \in {"waiting", "store"}

\* What a handler carries was made for it, and is not up before its ready line.
HeldIsOwn ==
    \A c \in Calls : Carries(c) =>
        /\ proc[call[c].held] # "unused"
        /\ of[call[c].held] = keyOf(call[c].src)
        /\ call[c].pc = "waiting" => proc[call[c].held] \notin {"up", "remote"}

\* No two handlers carry the same connection.
HeldByOne ==
    \A c, d \in Calls : Carries(c) /\ Carries(d) /\ c # d => call[c].held # call[d].held

HeldInv == HeldIsOwn /\ HeldByOne

Live == {"starting", "up", "remote"}

\* A step that brings no source to life.
OnlyEnds ==
    /\ of' = of
    /\ \A i \in Conns : proc'[i] \in Live \cup {"unused"} => proc'[i] = proc[i]

\* A step changes the handler that takes it and no other.
LEMMA StepFacts ==
    ASSUME TypeInv, NEW c \in Calls, NEW from, NEW next, Step(c, from, next)
    PROVE  /\ call[c].pc = from /\ call'[c] = next
           /\ \A d \in Calls : d # c => call'[d] = call[d]
  BY DEF TypeInv, TypeOK, Step

\* ... when it goes on, it keeps what it has in hand;
LEMMA GoFacts ==
    ASSUME TypeInv, NEW c \in Calls, NEW from, NEW to, Go(c, from, to)
    PROVE  /\ call[c].pc = from /\ call'[c].pc = to
           /\ call'[c].op = call[c].op /\ call'[c].src = call[c].src
           /\ call'[c].sid = call[c].sid /\ call'[c].held = call[c].held
           /\ call'[c].spare = call[c].spare
           /\ \A d \in Calls : d # c => call'[d] = call[d]
<1>1. call[c] \in Handlers
  BY DEF TypeInv, TypeOK
<1>2. call'[c] = [call[c] EXCEPT !.pc = to]
  BY StepFacts DEF Go
<1> QED BY <1>1, <1>2, StepFacts DEF Go, Handlers

\* ... when it returns, it has nothing.
LEMMA ReturnFacts ==
    ASSUME TypeInv, NEW c \in Calls, NEW from, Return(c, from)
    PROVE  /\ call[c].pc = from /\ call'[c] = Idle
           /\ \A d \in Calls : d # c => call'[d] = call[d]
  BY StepFacts DEF Return

\* A handler's step that touches no source and no table, from where it carries nothing.
Quiet(c) ==
    /\ UNCHANGED <<proc, of, conns, gw>>
    /\ call[c].pc \notin {"waiting", "store", "dropping"}
    /\ call'[c].pc \notin {"waiting", "store"}
    /\ \A d \in Calls : d # c => call'[d] = call[d]

\* Most steps of a handler are of that kind.
LEMMA QuietSteps ==
    ASSUME TypeInv, NEW c \in Calls,
           \/ Request(c) \/ StopCapture(c) \/ StartService(c)
           \/ Ensure(c) \/ SpawnRefused(c)
           \/ Answered(c) \/ StartRpc(c) \/ Track(c) \/ StartLost(c) \/ Record(c) \/ StopRpc(c)
           \/ StopIdle(c) \/ Unmap(c) \/ StopLost(c)
           \/ ServiceCheck(c) \/ ServiceSpawn(c) \/ ServiceRefused(c) \/ ServiceRecord(c)
           \/ ServicesUp(c)
    PROVE  Quiet(c)
<1> USE DEF sourceVars, captureVars, serviceVars
<1>0. ASSUME NEW from, NEW next, Step(c, from, next), from \notin {"waiting", "store", "dropping"},
             next.pc \notin {"waiting", "store"}, UNCHANGED <<proc, of, conns, gw>>
      PROVE  Quiet(c)
  BY <1>0, StepFacts DEF Quiet
<1>1. call[c] \in Handlers /\ Idle.pc = "idle" /\ Idle \in Handlers
  BY IdleType DEF TypeInv, TypeOK, Idle
<1>2. CASE Request(c) \/ StopCapture(c) \/ StartService(c)
  <2>1. CASE Request(c)
    <3>1. PICK s \in specs :
            Step(c, "idle", [Idle EXCEPT !.pc = "ensure", !.op = "start", !.src = s])
      BY <2>1 DEF Request
    <3> DEFINE n == [Idle EXCEPT !.pc = "ensure", !.op = "start", !.src = s]
    <3>2. Step(c, "idle", n) /\ n.pc = "ensure"
      BY <1>1, <3>1 DEF Handlers
    <3>3. UNCHANGED <<proc, of, conns, gw>>
      BY <2>1 DEF Request
    <3> HIDE DEF n
    <3> QED BY <1>0, <3>2, <3>3
  <2>2. CASE StopCapture(c)
    <3>1. PICK s \in Sessions :
            Step(c, "idle", [Idle EXCEPT !.pc = "ensure", !.op = "stop", !.src = session[s],
                                         !.sid = s])
      BY <2>2 DEF StopCapture
    <3> DEFINE n == [Idle EXCEPT !.pc = "ensure", !.op = "stop", !.src = session[s], !.sid = s]
    <3>2. Step(c, "idle", n) /\ n.pc = "ensure"
      BY <1>1, <3>1 DEF Handlers
    <3>3. UNCHANGED <<proc, of, conns, gw>>
      BY <2>2 DEF StopCapture
    <3> HIDE DEF n
    <3> QED BY <1>0, <3>2, <3>3
  <2>3. CASE StartService(c)
    <3>0. PICK k \in specs \cap Dialed : \E s \in Range(ModuleServices[k]) :
            Step(c, "idle", [Idle EXCEPT !.pc = "module", !.op = "service", !.todo = <<s>>])
      BY <2>3 DEF StartService
    <3>1. PICK s \in Range(ModuleServices[k]) :
            Step(c, "idle", [Idle EXCEPT !.pc = "module", !.op = "service", !.todo = <<s>>])
      BY <3>0
    <3> DEFINE n == [Idle EXCEPT !.pc = "module", !.op = "service", !.todo = <<s>>]
    <3>2. Step(c, "idle", n) /\ n.pc = "module"
      BY <1>1, <3>1 DEF Handlers
    <3>3. UNCHANGED <<proc, of, conns, gw>>
      BY <2>3 DEF StartService
    <3> HIDE DEF n
    <3> QED BY <1>0, <3>2, <3>3
  <2> QED BY <1>2, <2>1, <2>2, <2>3
<1>3. CASE Ensure(c)
  <2> DEFINE k == keyOf(call[c].src)
  <2>1. CASE conns[k] # 0
    <3>1. [call[c] EXCEPT !.pc = "rpc", !.held = conns[k]].pc = "rpc"
      BY <1>1 DEF Handlers
    <3> QED BY <1>0, <1>3, <2>1, <3>1 DEF Ensure
  <2>2. CASE conns[k] = 0 /\ k \in Dialed
    <3>1. [call[c] EXCEPT !.pc = "module", !.todo = ModuleServices[k]].pc = "module"
      BY <1>1 DEF Handlers
    <3> QED BY <1>0, <1>3, <2>2, <3>1 DEF Ensure
  <2>3. CASE conns[k] = 0 /\ k \notin Dialed
    <3>1. [call[c] EXCEPT !.pc = "spawn"].pc = "spawn"
      BY <1>1 DEF Handlers
    <3> QED BY <1>0, <1>3, <2>3, <3>1 DEF Ensure, Go
  <2> QED BY <2>1, <2>2, <2>3
<1>4. CASE \/ SpawnRefused(c) \/ Answered(c) \/ StartLost(c) \/ Record(c) \/ Unmap(c)
           \/ StopLost(c) \/ ServiceRefused(c)
  BY <1>1, <1>4, ReturnFacts
     DEF SpawnRefused, Answered, StartLost, Record, Unmap, StopLost, ServiceRefused, Quiet
<1>5. CASE StartRpc(c) \/ ServiceSpawn(c) \/ ServiceRecord(c)
  <2>1. ASSUME NEW s PROVE [call[c] EXCEPT !.pc = "started", !.sid = s].pc = "started"
    BY <1>1 DEF Handlers
  <2>2. ASSUME NEW i PROVE [call[c] EXCEPT !.pc = "svcrecord", !.held = i].pc = "svcrecord"
    BY <1>1 DEF Handlers
  <2>3. [call[c] EXCEPT !.pc = "module", !.todo = Tail(@), !.held = 0].pc = "module"
    BY <1>1 DEF Handlers
  <2>4. CASE StartRpc(c)
    <3>1. PICK s \in Sessions : Step(c, "rpc", [call[c] EXCEPT !.pc = "started", !.sid = s])
      BY <2>4 DEF StartRpc, Fresh
    <3> DEFINE n == [call[c] EXCEPT !.pc = "started", !.sid = s]
    <3>2. Step(c, "rpc", n) /\ n.pc = "started"
      BY <2>1, <3>1
    <3>3. UNCHANGED <<proc, of, conns, gw>>
      BY <2>4 DEF StartRpc
    <3> HIDE DEF n
    <3> QED BY <1>0, <3>2, <3>3
  <2>5. CASE ServiceSpawn(c)
    <3>1. PICK i \in Fresh(svc) : Step(c, "svcspawn", [call[c] EXCEPT !.pc = "svcrecord", !.held = i])
      BY <2>5 DEF ServiceSpawn
    <3> DEFINE n == [call[c] EXCEPT !.pc = "svcrecord", !.held = i]
    <3>2. Step(c, "svcspawn", n) /\ n.pc = "svcrecord"
      BY <2>2, <3>1
    <3>3. UNCHANGED <<proc, of, conns, gw>>
      BY <2>5 DEF ServiceSpawn
    <3> HIDE DEF n
    <3> QED BY <1>0, <3>2, <3>3
  <2>6. CASE ServiceRecord(c)
    <3> DEFINE n == [call[c] EXCEPT !.pc = "module", !.todo = Tail(@), !.held = 0]
    <3>1. Step(c, "svcrecord", n) /\ n.pc = "module"
      BY <2>3, <2>6 DEF ServiceRecord
    <3>2. UNCHANGED <<proc, of, conns, gw>>
      BY <2>6 DEF ServiceRecord
    <3> HIDE DEF n
    <3> QED BY <1>0, <3>1, <3>2
  <2> QED BY <1>5, <2>4, <2>5, <2>6
<1>6. CASE Track(c)
  BY <1>1, <1>6, GoFacts, ReturnFacts DEF Track, Answers, Quiet
<1>7. CASE StopRpc(c) \/ StopIdle(c)
  BY <1>7, GoFacts DEF StopRpc, StopIdle, Quiet
<1>8. CASE ServiceCheck(c)
  <2>1. CASE running[Head(call[c].todo)] # 0
    <3>1. call[c].pc = "module" => [call[c] EXCEPT !.todo = Tail(@)].pc = "module"
      BY <1>1 DEF Handlers
    <3> QED BY <1>0, <1>8, <2>1, <3>1 DEF ServiceCheck, Step
  <2>2. CASE ~(running[Head(call[c].todo)] # 0)
    BY <1>8, <2>2, GoFacts DEF ServiceCheck, Quiet
  <2> QED BY <2>1, <2>2
<1>9. CASE ServicesUp(c)
  BY <1>1, <1>9, GoFacts, ReturnFacts DEF ServicesUp, Quiet
<1> QED BY <1>2, <1>3, <1>4, <1>5, <1>6, <1>7, <1>8, <1>9

\* A step outside the handlers only ends sources.
LEMMA OutsideFacts ==
    ASSUME TypeInv,
           StopService \/ (\E i \in SvcProcs : ServiceReap(i)) \/ Environment
             \/ (\E i \in Conns : Kill(i)) \/ Closing \/ UNCHANGED vars
    PROVE  OnlyEnds /\ UNCHANGED <<call, conns>> /\ (gw' = "up" => gw = "up")
<1> USE DEF sourceVars, captureVars, serviceVars, OnlyEnds, Live
<1>1. proc \in [Conns -> {"unused", "starting", "up", "remote", "stopping"} \cup Gone]
  BY DEF TypeInv, TypeOK
<1>2. CASE StopService \/ (\E i \in SvcProcs : ServiceReap(i)) \/ UNCHANGED vars
  BY <1>2 DEF StopService, ServiceReap, reaped, vars
<1>3. CASE Environment
  <2>1. ASSUME NEW i \in Conns, ShutdownExit(i) \/ Crash(i)
        PROVE  OnlyEnds /\ UNCHANGED <<call, conns, gw>>
    BY <1>1, <2>1 DEF ShutdownExit, Crash
  <2>2. ASSUME NEW i \in Conns, ShutdownStop(i)
        PROVE  OnlyEnds /\ UNCHANGED <<call, conns, gw>>
    BY <2>2 DEF ShutdownStop
  <2>3. ASSUME NEW i \in SvcProcs, ServiceExit(i)
        PROVE  OnlyEnds /\ UNCHANGED <<call, conns, gw>>
    BY <2>3 DEF ServiceExit
  <2>4. ASSUME NEW s \in Sessions, StopOver(s) \/ SelfEnd(s) \/ SelfEnded(s)
        PROVE  OnlyEnds /\ UNCHANGED <<call, conns, gw>>
    BY <2>4 DEF StopOver, SelfEnd, SelfEnded
  <2> QED BY <1>3, <2>1, <2>2, <2>3, <2>4 DEF Environment
<1>4. ASSUME NEW i \in Conns, Kill(i) PROVE OnlyEnds /\ UNCHANGED <<call, conns, gw>>
  BY <1>1, <1>4 DEF Kill
<1>5. ASSUME NEW i \in Conns, CloseConn(i) PROVE OnlyEnds /\ UNCHANGED <<call, conns, gw>>
  BY <1>1, <1>5 DEF CloseConn, closed
<1>6. CASE CloseDone \/ ServicesClose \/ Exit
  BY <1>6 DEF CloseDone, ServicesClose, Exit
<1> QED BY <1>2, <1>3, <1>4, <1>5, <1>6 DEF Closing

\* What is carried is kept by a step that brings nothing to life and gives nobody
\* anything to carry.
LEMMA HeldAway ==
    ASSUME TypeInv, HeldInv, OnlyEnds,
           \A d \in Calls : call'[d] = call[d] \/ call'[d].pc \notin {"waiting", "store"}
    PROVE  HeldInv'
<1>1. \A d \in Calls : Carries(d) => call[d].held \in Conns
  BY DEF TypeInv, Equipped, Connected, Carries
<1>2. \A d \in Calls : Carries(d)' => Carries(d) /\ call'[d] = call[d]
  BY DEF Carries
<1>3. HeldIsOwn'
  BY <1>1, <1>2 DEF HeldInv, HeldIsOwn, OnlyEnds, Live, Carries
<1>4. HeldByOne'
  BY <1>2 DEF HeldInv, HeldByOne, Carries
<1> QED BY <1>3, <1>4 DEF HeldInv

\* The steps by which a handler gets, hands over or gives up what it carries.
LEMMA SpawnHeld ==
    ASSUME TypeInv, HeldInv, NEW c \in Calls, Spawn(c)
    PROVE  HeldInv'
<1> DEFINE h == call[c]
           k == keyOf(h.src)
<1>1. h \in Handlers /\ (\A d \in Calls : call[d] \in Handlers)
  BY DEF TypeInv, TypeOK
<1>2. PICK i \in Fresh(proc) :
        /\ Step(c, "spawn", [h EXCEPT !.pc = IF k \in Dialed THEN "store" ELSE "waiting",
                                      !.held = i])
        /\ proc' = [proc EXCEPT ![i] = IF k \in Dialed THEN "remote" ELSE "starting"]
        /\ of' = [of EXCEPT ![i] = k]
  BY DEF Spawn
<1> DEFINE n == [h EXCEPT !.pc = IF k \in Dialed THEN "store" ELSE "waiting", !.held = i]
<1>3. i \in Conns /\ proc[i] = "unused"
  BY DEF Fresh, TypeInv, TypeOK
<1>4. n.held = i /\ n.src = h.src /\ n.pc = IF k \in Dialed THEN "store" ELSE "waiting"
  BY <1>1 DEF Handlers
<1>5. call'[c] = n /\ (\A d \in Calls : d # c => call'[d] = call[d])
  BY <1>2, StepFacts
<1> HIDE DEF n
<1>6. \A d \in Calls : Carries(d) => call[d].held \in Conns /\ call[d].held # i
  BY <1>3 DEF TypeInv, Equipped, Connected, Carries, HeldInv, HeldIsOwn
<1>7. \A j \in Conns : j # i => proc'[j] = proc[j] /\ of'[j] = of[j]
  BY <1>2 DEF TypeInv, TypeOK
<1>8. of'[i] = k /\ proc'[i] = IF k \in Dialed THEN "remote" ELSE "starting"
  BY <1>2, <1>3 DEF TypeInv, TypeOK
<1>9. HeldIsOwn'
  <2> SUFFICES ASSUME NEW d \in Calls, Carries(d)'
               PROVE  /\ proc'[call'[d].held] # "unused"
                      /\ of'[call'[d].held] = keyOf(call'[d].src)
                      /\ call'[d].pc = "waiting" => proc'[call'[d].held] \notin {"up", "remote"}
    BY DEF HeldIsOwn, Carries, keyOf
  <2>1. CASE d = c
    BY <1>4, <1>5, <1>8, <2>1
  <2>2. CASE d # c
    <3>1. Carries(d) /\ call'[d] = call[d]
      BY <1>5, <2>2 DEF Carries
    <3> QED BY <1>6, <1>7, <3>1 DEF HeldInv, HeldIsOwn
  <2> QED BY <2>1, <2>2
<1>10. HeldByOne'
  <2> SUFFICES ASSUME NEW d \in Calls, NEW e \in Calls, Carries(d)', Carries(e)', d # e
               PROVE  call'[d].held # call'[e].held
    BY DEF HeldByOne, Carries
  <2>1. \A f \in Calls : f # c /\ Carries(f)' => Carries(f)
    BY <1>5 DEF Carries
  <2>2. CASE d = c
    BY <1>4, <1>5, <1>6, <2>1, <2>2
  <2>3. CASE e = c
    BY <1>4, <1>5, <1>6, <2>1, <2>3
  <2>4. CASE d # c /\ e # c
    BY <1>5, <2>1, <2>4 DEF HeldInv, HeldByOne
  <2> QED BY <2>2, <2>3, <2>4
<1> QED BY <1>9, <1>10 DEF HeldInv

\* A source that has printed its ready line is carried on by the call that launched it.
LEMMA ReadyHeld ==
    ASSUME TypeInv, HeldInv, NEW c \in Calls, SpawnReady(c)
    PROVE  HeldInv'
<1>1. /\ call[c].pc = "waiting" /\ call'[c].pc = "store" /\ call'[c].src = call[c].src
      /\ call'[c].held = call[c].held
      /\ \A d \in Calls : d # c => call'[d] = call[d]
  BY GoFacts DEF SpawnReady
<1>2. /\ call[c].held \in Conns /\ of' = of
      /\ proc' = [proc EXCEPT ![call[c].held] = "up"]
  BY <1>1 DEF SpawnReady, TypeInv, Equipped, Connected
<1>3. /\ proc'[call[c].held] = "up"
      /\ \A j \in Conns : j # call[c].held => proc'[j] = proc[j]
  BY <1>2 DEF TypeInv, TypeOK
<1>4. \A d \in Calls : /\ Carries(d)' => Carries(d) /\ call[d].held \in Conns
                        /\ call'[d].held = call[d].held /\ call'[d].src = call[d].src
  BY <1>1 DEF TypeInv, Equipped, Connected, Carries
<1>5. HeldIsOwn'
  <2> SUFFICES ASSUME NEW d \in Calls, Carries(d)'
               PROVE  /\ proc'[call'[d].held] # "unused"
                      /\ of'[call'[d].held] = keyOf(call'[d].src)
                      /\ call'[d].pc = "waiting" => proc'[call'[d].held] \notin {"up", "remote"}
    BY DEF HeldIsOwn, Carries, keyOf
  <2>1. Carries(d) /\ of[call[d].held] = keyOf(call[d].src)
    BY <1>4 DEF HeldInv, HeldIsOwn
  <2>2. of'[call'[d].held] = keyOf(call'[d].src)
    BY <1>2, <1>4, <2>1
  <2>3. CASE d = c
    BY <1>1, <1>3, <2>2, <2>3
  <2>4. CASE d # c
    <3>1. call[d].held # call[c].held /\ call'[d] = call[d]
      BY <1>1, <2>1, <2>4 DEF Carries, HeldInv, HeldByOne
    <3>2. proc'[call[d].held] = proc[call[d].held]
      BY <1>3, <1>4, <3>1
    <3> QED BY <2>1, <2>2, <3>1, <3>2 DEF HeldInv, HeldIsOwn
  <2> QED BY <2>3, <2>4
<1>6. HeldByOne'
  BY <1>4 DEF HeldInv, HeldByOne, Carries
<1> QED BY <1>5, <1>6 DEF HeldInv

\* A superfluous connection is closed, and the spawn of a source fails: nothing
\* comes to life, and the handler carries nothing any more.
LEMMA EndingSteps ==
    ASSUME TypeInv, NEW c \in Calls, SpawnFailed(c) \/ Store(c) \/ Dropped(c)
    PROVE  /\ OnlyEnds /\ gw' = gw
           /\ call'[c].pc \notin {"waiting", "store"}
           /\ \A d \in Calls : d # c => call'[d] = call[d]
<1>1. /\ call[c] \in Handlers /\ Idle.pc = "idle"
      /\ proc \in [Conns -> {"unused", "starting", "up", "remote", "stopping"} \cup Gone]
  BY DEF TypeInv, TypeOK, Idle
<1>2. CASE SpawnFailed(c)
  <2>1. OnlyEnds
    BY <1>1, <1>2 DEF SpawnFailed, OnlyEnds, Live, Gone
  <2> QED BY <1>1, <1>2, <2>1, ReturnFacts DEF SpawnFailed
<1>3. CASE Store(c)
  <2> DEFINE k == keyOf(call[c].src)
  <2>1. CASE conns[k] # 0
    <3> DEFINE n == [call[c] EXCEPT !.pc = "dropping", !.held = conns[k], !.spare = call[c].held]
    <3>1. Step(c, "store", n) /\ closed(call[c].held) /\ of' = of /\ gw' = gw
      BY <1>3, <2>1 DEF Store
    <3>2. n.pc = "dropping"
      BY <1>1 DEF Handlers
    <3>3. OnlyEnds
      BY <1>1, <3>1 DEF closed, OnlyEnds, Live, Gone
    <3> HIDE DEF n
    <3> QED BY <3>1, <3>2, <3>3, StepFacts
  <2>2. CASE conns[k] = 0
    <3>1. Go(c, "store", "rpc") /\ proc' = proc /\ of' = of /\ gw' = gw
      BY <1>3, <2>2 DEF Store, sourceVars
    <3> QED BY <3>1, GoFacts DEF OnlyEnds
  <2> QED BY <2>1, <2>2
<1>4. CASE Dropped(c)
  <2> DEFINE n == [call[c] EXCEPT !.pc = "rpc", !.spare = 0]
  <2>1. Step(c, "dropping", n) /\ proc' = proc /\ of' = of /\ gw' = gw
    BY <1>4 DEF Dropped, sourceVars
  <2>2. n.pc = "rpc"
    BY <1>1 DEF Handlers
  <2> HIDE DEF n
  <2> QED BY <2>1, <2>2, StepFacts DEF OnlyEnds
<1> QED BY <1>2, <1>3, <1>4

\* What a handler carries stays its own, and its alone.
LEMMA HeldStep == ASSUME TypeInv, HeldInv, [Next]_vars PROVE HeldInv'
<1>1. ASSUME NEW c \in Calls, Quiet(c) PROVE HeldInv'
  <2>1. OnlyEnds
    BY <1>1 DEF Quiet, OnlyEnds
  <2> QED BY <1>1, <2>1, HeldAway DEF Quiet
<1>2. ASSUME NEW c \in Calls, SpawnFailed(c) \/ Store(c) \/ Dropped(c) PROVE HeldInv'
  <2>1. OnlyEnds /\ (\A d \in Calls : call'[d] = call[d] \/ call'[d].pc \notin {"waiting", "store"})
    BY <1>2, EndingSteps
  <2> QED BY <2>1, HeldAway
<1>3. ASSUME NEW c \in Calls, Handler(c) PROVE HeldInv'
  BY <1>1, <1>2, <1>3, SpawnHeld, ReadyHeld, QuietSteps DEF Handler
<1>4. ASSUME NEW c \in Calls, Request(c) \/ StopCapture(c) \/ StartService(c) PROVE HeldInv'
  BY <1>1, <1>4, QuietSteps
<1>5. CASE CloseBegin
  <2>1. OnlyEnds /\ call' = call
    BY <1>5 DEF CloseBegin, OnlyEnds, sourceVars
  <2> QED BY <2>1, HeldAway
<1>6. CASE StopService \/ (\E i \in SvcProcs : ServiceReap(i)) \/ Environment
            \/ (\E i \in Conns : Kill(i)) \/ Closing \/ UNCHANGED vars
  <2>1. OnlyEnds /\ call' = call
    BY <1>6, OutsideFacts
  <2> QED BY <2>1, HeldAway
<1> QED BY <1>3, <1>4, <1>5, <1>6 DEF Next, Rest

\* What it means for a connection to be in the hands of a call.
InHandOf(c, i) == (Carries(c) /\ call[c].held = i) \/ call[c].spare = i

\* InHand, now and after a step, in terms of one call.
LEMMA InHandMeans ==
    /\ \A i : i \in InHand <=> \E c \in Calls : InHandOf(c, i)
    /\ \A i : i \in InHand' <=> \E c \in Calls : InHandOf(c, i)'
<1>1. \A i : i \in InHand <=> \E c \in Calls : InHandOf(c, i)
  BY DEF InHand, InHandOf, Carries
<1>2. \A i : i \in InHand' <=> \E c \in Calls : InHandOf(c, i)'
  BY DEF InHand, InHandOf, Carries
<1> QED BY <1>1, <1>2

\* Nothing is left behind by a step that brings nothing to life, leaves the table
\* alone, and lets go only of what has ended.
LEMMA StrayKept ==
    ASSUME TypeInv, NoStray, OnlyEnds, conns' = conns, gw' = "up" => gw = "up",
           \A i \in Conns, d \in Calls :
              InHandOf(d, i) /\ proc'[i] \in Live => InHandOf(d, i)'
    PROVE  NoStray'
<1> SUFFICES ASSUME gw' = "up", NEW i \in Conns, proc'[i] \in Live
             PROVE  conns'[of'[i]] = i \/ i \in InHand'
  BY DEF NoStray, Live
<1>1. proc[i] = proc'[i] /\ of' = of
  BY DEF OnlyEnds
<1>2. conns[of[i]] = i \/ i \in InHand
  BY <1>1 DEF NoStray, Live
<1>3. i \in InHand => i \in InHand'
  BY InHandMeans
<1> QED BY <1>1, <1>2, <1>3

\* The connection that a caller made is cached, unless another was quicker: then it
\* is closed.
LEMMA StoreStray ==
    ASSUME TypeInv, HeldInv, NoStray, NEW c \in Calls, Store(c)
    PROVE  NoStray'
<1> DEFINE h == call[c]
           k == keyOf(h.src)
<1>1. /\ h \in Handlers /\ h.pc = "store" /\ h.held \in Conns /\ h.spare = 0
      /\ h.src \in Sources
  BY DEF Store, TypeInv, TypeOK, Equipped, Connected
<1>2. k \in Sources /\ of[h.held] = k
  BY <1>1, KeyType DEF HeldInv, HeldIsOwn, Carries
<1>3. /\ OnlyEnds /\ gw' = gw
      /\ \A d \in Calls : d # c => call'[d] = call[d]
  BY EndingSteps
<1>4. ASSUME NEW i \in Conns, NEW d \in Calls, InHandOf(d, i), d # c PROVE InHandOf(d, i)'
  BY <1>3, <1>4 DEF InHandOf, Carries
<1>5. ASSUME NEW i \in Conns, InHandOf(c, i) PROVE i = h.held
  BY <1>1, <1>5 DEF InHandOf, Conns
<1>6. CASE conns[k] # 0
  <2> DEFINE n == [h EXCEPT !.pc = "dropping", !.held = conns[k], !.spare = h.held]
  <2>1. Step(c, "store", n) /\ conns' = conns
    BY <1>6 DEF Store
  <2>2. n.spare = h.held
    BY <1>1 DEF Handlers
  <2> HIDE DEF n
  <2>3. call'[c].spare = h.held
    BY <2>1, <2>2, StepFacts
  <2>4. \A i \in Conns, d \in Calls : InHandOf(d, i) => InHandOf(d, i)'
    BY <1>4, <1>5, <2>3 DEF InHandOf
  <2> QED BY <1>3, <2>1, <2>4, StrayKept
<1>7. CASE conns[k] = 0
  <2>1. conns' = [conns EXCEPT ![k] = h.held]
    BY <1>7 DEF Store
  <2>2. conns'[k] = h.held /\ (\A s \in Sources : s # k => conns'[s] = conns[s])
    BY <1>2, <2>1 DEF TypeInv, TypeOK
  <2> SUFFICES ASSUME gw' = "up", NEW i \in Conns, proc'[i] \in Live
               PROVE  conns'[of'[i]] = i \/ i \in InHand'
    BY DEF NoStray, Live
  <2>3. proc[i] = proc'[i] /\ of' = of /\ of[i] \in Sources
    BY <1>3 DEF OnlyEnds, TypeInv, TypeOK
  <2>4. conns[of[i]] = i \/ i \in InHand
    BY <1>3, <2>3 DEF NoStray, Live
  <2>5. CASE conns[of[i]] = i
    <3>1. of[i] # k
      BY <1>7, <2>5 DEF Conns
    <3> QED BY <2>2, <2>3, <2>5, <3>1
  <2>6. CASE i \in InHand
    <3>1. PICK d \in Calls : InHandOf(d, i)
      BY <2>6, InHandMeans
    <3>2. CASE d = c
      BY <1>2, <1>5, <2>2, <2>3, <3>1, <3>2
    <3>3. CASE d # c
      BY <1>4, <3>1, <3>3, InHandMeans
    <3> QED BY <3>2, <3>3
  <2> QED BY <2>4, <2>5, <2>6
<1> QED BY <1>6, <1>7

\* No step leaves a live source behind.
LEMMA StrayStep == ASSUME TypeInv, HeldInv, NoStray, [Next]_vars PROVE NoStray'
<1>1. ASSUME NEW c \in Calls, Quiet(c) PROVE NoStray'
  <2>1. OnlyEnds /\ conns' = conns /\ gw' = gw
    BY <1>1 DEF Quiet, OnlyEnds
  <2>2. ASSUME NEW i \in Conns PROVE ~InHandOf(c, i)
    BY <1>1 DEF Quiet, InHandOf, Carries, TypeInv, Equipped, Conns
  <2>3. \A i \in Conns, d \in Calls : InHandOf(d, i) => InHandOf(d, i)'
    BY <1>1, <2>2 DEF Quiet, InHandOf, Carries
  <2> QED BY <2>1, <2>3, StrayKept
<1>2. ASSUME NEW c \in Calls, Spawn(c) PROVE NoStray'
  <2> DEFINE h == call[c]
             k == keyOf(h.src)
             n(j) == [h EXCEPT !.pc = IF k \in Dialed THEN "store" ELSE "waiting", !.held = j]
  <2>1. PICK j \in Fresh(proc) :
          /\ Step(c, "spawn", n(j))
          /\ proc' = [proc EXCEPT ![j] = IF k \in Dialed THEN "remote" ELSE "starting"]
          /\ of' = [of EXCEPT ![j] = k]
    BY <1>2 DEF Spawn
  <2>2. h \in Handlers /\ j \in Conns
    BY DEF TypeInv, TypeOK, Fresh
  <2>3. n(j).held = j /\ n(j).pc \in {"waiting", "store"}
    BY <2>2 DEF Handlers
  <2> HIDE DEF n
  <2>4. /\ h.pc = "spawn" /\ call'[c].held = j /\ call'[c].pc \in {"waiting", "store"}
        /\ \A d \in Calls : d # c => call'[d] = call[d]
    BY <2>1, <2>3, StepFacts
  <2>5. InHandOf(c, j)'
    BY <2>4 DEF InHandOf, Carries
  <2>6. ASSUME NEW i \in Conns PROVE ~InHandOf(c, i)
    BY <2>4 DEF InHandOf, Carries, TypeInv, Equipped, Conns
  <2>7. \A i \in Conns, d \in Calls : InHandOf(d, i) => InHandOf(d, i)'
    BY <2>4, <2>6 DEF InHandOf, Carries
  <2>8. conns' = conns /\ gw' = gw
    BY <1>2 DEF Spawn
  <2> SUFFICES ASSUME gw' = "up", NEW i \in Conns, proc'[i] \in Live
               PROVE  conns'[of'[i]] = i \/ i \in InHand'
    BY DEF NoStray, Live
  <2>9. CASE i = j
    BY <2>5, <2>9, InHandMeans
  <2>10. CASE i # j
    <3>1. proc'[i] = proc[i] /\ of'[i] = of[i]
      BY <2>1, <2>10 DEF TypeInv, TypeOK
    <3>2. conns[of[i]] = i \/ i \in InHand
      BY <2>8, <3>1 DEF NoStray, Live
    <3> QED BY <2>7, <2>8, <3>1, <3>2, InHandMeans
  <2> QED BY <2>9, <2>10
<1>3. ASSUME NEW c \in Calls, SpawnReady(c) PROVE NoStray'
  <2>1. /\ call[c].pc = "waiting" /\ call'[c].pc = "store"
        /\ call'[c].held = call[c].held /\ call'[c].spare = call[c].spare
        /\ \A d \in Calls : d # c => call'[d] = call[d]
    BY <1>3, GoFacts DEF SpawnReady
  <2>2. \A i \in Conns, d \in Calls : InHandOf(d, i) => InHandOf(d, i)'
    BY <2>1 DEF InHandOf, Carries
  <2>3. \A i \in Conns : i = call[c].held => InHandOf(c, i)'
    BY <2>1 DEF InHandOf, Carries
  <2>4. conns' = conns /\ gw' = gw /\ of' = of /\ proc' = [proc EXCEPT ![call[c].held] = "up"]
    BY <1>3 DEF SpawnReady
  <2> SUFFICES ASSUME gw' = "up", NEW i \in Conns, proc'[i] \in Live
               PROVE  conns'[of'[i]] = i \/ i \in InHand'
    BY DEF NoStray, Live
  <2>5. CASE i = call[c].held
    BY <2>3, <2>5, InHandMeans
  <2>6. CASE i # call[c].held
    <3>1. proc'[i] = proc[i]
      BY <2>4, <2>6 DEF TypeInv, TypeOK
    <3>2. conns[of[i]] = i \/ i \in InHand
      BY <2>4, <3>1 DEF NoStray, Live
    <3> QED BY <2>2, <2>4, <3>2, InHandMeans
  <2> QED BY <2>5, <2>6
<1>4. ASSUME NEW c \in Calls, SpawnFailed(c) \/ Dropped(c) PROVE NoStray'
  <2>1. OnlyEnds /\ gw' = gw /\ (\A d \in Calls : d # c => call'[d] = call[d])
    BY <1>4, EndingSteps
  <2>2. conns' = conns
    BY <1>4 DEF SpawnFailed, Dropped
  <2>3. ASSUME NEW i \in Conns, InHandOf(c, i) PROVE proc'[i] \notin Live
    <3>1. proc \in [Conns -> {"unused", "starting", "up", "remote", "stopping"} \cup Gone]
      BY DEF TypeInv, TypeOK
    <3>2. CASE SpawnFailed(c)
      <4>1. call[c].pc = "waiting"
        BY <3>2, ReturnFacts DEF SpawnFailed
      <4>2. i = call[c].held
        BY <2>3, <4>1 DEF InHandOf, TypeInv, Equipped, Conns
      <4>3. proc[i] \notin {"up", "remote"}
        BY <4>1, <4>2 DEF HeldInv, HeldIsOwn, Carries
      <4>4. proc'[i] = IF proc[i] = "starting" THEN "stopping" ELSE proc[i]
        BY <3>1, <3>2, <4>2 DEF SpawnFailed
      <4> QED BY <4>3, <4>4 DEF Live
    <3>3. CASE Dropped(c)
      <4>1. call[c].pc = "dropping" /\ proc[call[c].spare] \in Gone /\ proc' = proc
        BY <3>3 DEF Dropped, Step, sourceVars
      <4>2. i = call[c].spare
        BY <2>3, <4>1 DEF InHandOf, Carries
      <4> QED BY <4>1, <4>2 DEF Gone, Live
    <3> QED BY <1>4, <3>2, <3>3
  <2>4. \A i \in Conns, d \in Calls : InHandOf(d, i) /\ proc'[i] \in Live => InHandOf(d, i)'
    BY <2>1, <2>3 DEF InHandOf, Carries
  <2> QED BY <2>1, <2>2, <2>4, StrayKept
<1>5. ASSUME NEW c \in Calls, Handler(c) PROVE NoStray'
  BY <1>1, <1>2, <1>3, <1>4, <1>5, StoreStray, QuietSteps DEF Handler
<1>6. ASSUME NEW c \in Calls, Request(c) \/ StopCapture(c) \/ StartService(c) PROVE NoStray'
  BY <1>1, <1>6, QuietSteps
<1>7. CASE CloseBegin
  BY <1>7 DEF CloseBegin, NoStray
<1>8. CASE StopService \/ (\E i \in SvcProcs : ServiceReap(i)) \/ Environment
            \/ (\E i \in Conns : Kill(i)) \/ Closing \/ UNCHANGED vars
  <2>1. OnlyEnds /\ call' = call /\ conns' = conns /\ (gw' = "up" => gw = "up")
    BY <1>8, OutsideFacts
  <2>2. \A i \in Conns, d \in Calls : InHandOf(d, i) => InHandOf(d, i)'
    BY <2>1 DEF InHandOf, Carries
  <2> QED BY <2>1, <2>2, StrayKept
<1> QED BY <1>5, <1>6, <1>7, <1>8 DEF Next, Rest

-----------------------------------------------------------------------------
(* The theorems.                                                             *)

\* Every table and every handler has the type the manager's code relies on: a handler
\* that has called a source holds a connection, and holds no superfluous one.
THEOREM SourcesTyped == Spec => []TypeOK
<1>1. TypeInv => TypeOK
  BY DEF TypeInv
<1> QED BY TypeInit, TypeStep, <1>1, PTL DEF Spec

\* However many callers want a source at once, and whatever ends meanwhile: while the
\* gateway runs, every live source process is the cached one for its key, or in the
\* hands of a call that will store or close it (ensure, sourcemgr/manager.go).
THEOREM NothingLeftBehind == Spec => []NoStray
<1>1. Init => HeldInv /\ NoStray
  BY DEF Init, HeldInv, HeldIsOwn, HeldByOne, Carries, Idle, NoStray
<1> QED BY TypeInit, TypeStep, HeldStep, StrayStep, <1>1, PTL DEF Spec

-----------------------------------------------------------------------------
(* That captures are stopped where they run: the inductive invariant.        *)

\* A handler that has its connection ...
Uses(c) == call[c].pc \in {"dropping", "rpc", "started", "record"}

\* ... has the one that is cached under its source's key.
UsesCached ==
    gw = "up" => \A c \in Calls : Uses(c) => conns[keyOf(call[c].src)] = call[c].held

\* A capture runs in a process that came up.
RunsSomewhere ==
    \A s \in Sessions : cap[s] # "none" =>
        at[s] \in Conns /\ proc[at[s]] \notin {"unused", "starting"}

\* What a harness tracks and what a shutdown has yet to stop are captures, and its own.
ListsOwn ==
    /\ \A s \in tracked : cap[s] # "none"
    /\ \A i \in Conns : \A s \in stopping[i] : cap[s] # "none" /\ at[s] = i

\* A capture whose start is being answered runs at the handler's connection.
StartsAt ==
    \A c \in Calls : call[c].pc \in {"started", "record"} =>
        at[call[c].sid] = call[c].held /\ cap[call[c].sid] # "none"

\* A known session is a capture that runs at its owner's cached connection.
Owned ==
    \A s \in Sessions : session[s] # "none" =>
        cap[s] # "none" /\ (gw = "up" => conns[keyOf(session[s])] = at[s])

\* The gateway knows a capture, or is about to note it.
Known(s) == session[s] # "none" \/ \E c \in Calls : call[c].pc = "record" /\ call[c].sid = s

\* A known capture that runs is tracked until its source is gone, is on the list of a
\* source that shuts down, and its source has not left.
KnownTracked ==
    \A s \in Sessions : Known(s) /\ cap[s] = "running" =>
        /\ proc[at[s]] \in {"up", "remote", "stopping"} => s \in tracked
        /\ proc[at[s]] = "stopping" => s \in stopping[at[s]]
        /\ proc[at[s]] # "exited"

StopInv == UsesCached /\ RunsSomewhere /\ ListsOwn /\ StartsAt /\ Owned /\ KnownTracked

-----------------------------------------------------------------------------
(* The handlers.                                                             *)

\* A step of a handler that is about no capture, and changes no source in which one
\* could run, keeps it; the handler may now use the cached connection.
LEMMA CallsMove ==
    ASSUME TypeInv, StopInv,
           UNCHANGED <<conns, session, stopping, cap, at, tracked>>,
           gw' = "up" => gw = "up",
           \A j \in Conns : proc[j] \notin {"unused", "starting"} => proc'[j] = proc[j],
           \A d \in Calls : \/ call'[d] = call[d]
                            \/ /\ call'[d].pc \notin {"started", "record"}
                               /\ gw = "up" /\ Uses(d)' =>
                                    conns[keyOf(call'[d].src)] = call'[d].held
    PROVE  StopInv'
<1>1. UsesCached'
  <2> SUFFICES ASSUME gw' = "up", NEW d \in Calls, Uses(d)'
               PROVE  conns'[keyOf(call'[d].src)] = call'[d].held
    BY DEF UsesCached, keyOf
  <2>1. CASE call'[d] = call[d]
    BY <2>1 DEF StopInv, UsesCached, Uses
  <2>2. CASE call'[d] # call[d]
    BY <2>2
  <2> QED BY <2>1, <2>2
<1>2. RunsSomewhere'
  BY DEF StopInv, RunsSomewhere
<1>3. ListsOwn' /\ Owned'
  <2>1. ListsOwn'
    BY DEF StopInv, ListsOwn
  <2>2. Owned'
    BY DEF StopInv, Owned, keyOf
  <2> QED BY <2>1, <2>2
<1>4. StartsAt'
  BY DEF StopInv, StartsAt
<1>5. KnownTracked'
  <2> SUFFICES ASSUME NEW s \in Sessions, Known(s)', cap[s] = "running"
               PROVE  /\ proc'[at[s]] \in {"up", "remote", "stopping"} => s \in tracked
                      /\ proc'[at[s]] = "stopping" => s \in stopping[at[s]]
                      /\ proc'[at[s]] # "exited"
    BY DEF KnownTracked
  <2>1. Known(s)
    BY DEF Known
  <2>2. proc'[at[s]] = proc[at[s]]
    BY DEF StopInv, RunsSomewhere
  <2> QED BY <2>1, <2>2 DEF StopInv, KnownTracked
<1> QED BY <1>1, <1>2, <1>3, <1>4, <1>5 DEF StopInv

\* A handler returns without having met a capture.
LEMMA Returned ==
    ASSUME TypeInv, StopInv, NEW c \in Calls, NEW from, Return(c, from),
           UNCHANGED <<proc, conns, session, stopping, cap, at, tracked, gw>>
    PROVE  StopInv'
<1>1. call'[c].pc = "idle" /\ (\A d \in Calls : d # c => call'[d] = call[d])
  BY ReturnFacts DEF Idle
<1>2. \A d \in Calls : \/ call'[d] = call[d]
                       \/ call'[d].pc \notin {"started", "record"} /\ ~Uses(d)'
  BY <1>1 DEF Uses
<1> QED BY <1>2, CallsMove

\* The handlers' steps on the way to a connection, and those for services.
LEMMA WayStops ==
    ASSUME TypeInv, StopInv, NEW c \in Calls,
           \/ Request(c) \/ StopCapture(c) \/ StartService(c)
           \/ Ensure(c) \/ SpawnRefused(c) \/ Answered(c) \/ StartLost(c)
           \/ ServiceCheck(c) \/ ServiceSpawn(c) \/ ServiceRefused(c) \/ ServiceRecord(c)
           \/ ServicesUp(c)
    PROVE  StopInv'
<1> USE DEF sourceVars, captureVars, serviceVars
<1>0. ASSUME NEW from, NEW next, Step(c, from, next),
             next.pc \notin {"dropping", "rpc", "started", "record"},
             UNCHANGED <<proc, conns, session, stopping, cap, at, tracked, gw>>
      PROVE  StopInv'
  <2>1. \A d \in Calls : \/ call'[d] = call[d]
                         \/ call'[d].pc \notin {"started", "record"} /\ ~Uses(d)'
    BY <1>0, StepFacts DEF Uses
  <2> QED BY <1>0, <2>1, CallsMove
<1>1. call[c] \in Handlers /\ Idle \in Handlers
  BY IdleType DEF TypeInv, TypeOK
<1>2. CASE Request(c)
  <2>1. PICK s \in specs :
          Step(c, "idle", [Idle EXCEPT !.pc = "ensure", !.op = "start", !.src = s])
    BY <1>2 DEF Request
  <2> DEFINE n == [Idle EXCEPT !.pc = "ensure", !.op = "start", !.src = s]
  <2>2. Step(c, "idle", n) /\ n.pc = "ensure"
    BY <1>1, <2>1 DEF Handlers
  <2>3. UNCHANGED <<proc, conns, session, stopping, cap, at, tracked, gw>>
    BY <1>2 DEF Request
  <2> HIDE DEF n
  <2> QED BY <1>0, <2>2, <2>3
<1>3. CASE StopCapture(c)
  <2>1. PICK s \in Sessions :
          Step(c, "idle", [Idle EXCEPT !.pc = "ensure", !.op = "stop", !.src = session[s],
                                       !.sid = s])
    BY <1>3 DEF StopCapture
  <2> DEFINE n == [Idle EXCEPT !.pc = "ensure", !.op = "stop", !.src = session[s], !.sid = s]
  <2>2. Step(c, "idle", n) /\ n.pc = "ensure"
    BY <1>1, <2>1 DEF Handlers
  <2>3. UNCHANGED <<proc, conns, session, stopping, cap, at, tracked, gw>>
    BY <1>3 DEF StopCapture
  <2> HIDE DEF n
  <2> QED BY <1>0, <2>2, <2>3
<1>4. CASE StartService(c)
  <2>0. PICK k \in specs \cap Dialed : \E s \in Range(ModuleServices[k]) :
          Step(c, "idle", [Idle EXCEPT !.pc = "module", !.op = "service", !.todo = <<s>>])
    BY <1>4 DEF StartService
  <2>1. PICK s \in Range(ModuleServices[k]) :
          Step(c, "idle", [Idle EXCEPT !.pc = "module", !.op = "service", !.todo = <<s>>])
    BY <2>0
  <2> DEFINE n == [Idle EXCEPT !.pc = "module", !.op = "service", !.todo = <<s>>]
  <2>2. Step(c, "idle", n) /\ n.pc = "module"
    BY <1>1, <2>1 DEF Handlers
  <2>3. UNCHANGED <<proc, conns, session, stopping, cap, at, tracked, gw>>
    BY <1>4 DEF StartService
  <2> HIDE DEF n
  <2> QED BY <1>0, <2>2, <2>3
<1>5. CASE Ensure(c)
  <2> DEFINE k == keyOf(call[c].src)
  <2>0. UNCHANGED <<proc, conns, session, stopping, cap, at, tracked, gw>>
    BY <1>5 DEF Ensure
  <2>1. CASE conns[k] # 0
    <3> DEFINE n == [call[c] EXCEPT !.pc = "rpc", !.held = conns[k]]
    <3>1. n.pc = "rpc" /\ n.held = conns[k] /\ n.src = call[c].src
      BY <1>1 DEF Handlers
    <3>2. Step(c, "ensure", n)
      BY <1>5, <2>1 DEF Ensure
    <3> HIDE DEF n
    <3>3. \A d \in Calls : \/ call'[d] = call[d]
                           \/ /\ call'[d].pc \notin {"started", "record"}
                              /\ conns[keyOf(call'[d].src)] = call'[d].held
      BY <3>1, <3>2, StepFacts
    <3> QED BY <2>0, <3>3, CallsMove
  <2>2. CASE conns[k] = 0 /\ k \in Dialed
    <3> DEFINE n == [call[c] EXCEPT !.pc = "module", !.todo = ModuleServices[k]]
    <3>1. Step(c, "ensure", n) /\ n.pc = "module"
      BY <1>1, <1>5, <2>2 DEF Ensure, Handlers
    <3> HIDE DEF n
    <3> QED BY <1>0, <2>0, <3>1
  <2>3. CASE conns[k] = 0 /\ k \notin Dialed
    <3> DEFINE n == [call[c] EXCEPT !.pc = "spawn"]
    <3>1. Step(c, "ensure", n) /\ n.pc = "spawn"
      BY <1>1, <1>5, <2>3 DEF Ensure, Go, Handlers
    <3> HIDE DEF n
    <3> QED BY <1>0, <2>0, <3>1
  <2> QED BY <2>1, <2>2, <2>3
<1>6. CASE SpawnRefused(c) \/ Answered(c) \/ StartLost(c) \/ ServiceRefused(c)
  BY <1>6, Returned DEF SpawnRefused, Answered, StartLost, ServiceRefused
<1>7. CASE ServiceCheck(c)
  <2>1. UNCHANGED <<proc, conns, session, stopping, cap, at, tracked, gw>>
    BY <1>7 DEF ServiceCheck
  <2>2. CASE running[Head(call[c].todo)] # 0
    <3> DEFINE n == [call[c] EXCEPT !.todo = Tail(@)]
    <3>1. Step(c, "module", n)
      BY <1>7, <2>2 DEF ServiceCheck
    <3>2. n.pc = "module"
      BY <1>1, <3>1 DEF Step, Handlers
    <3> HIDE DEF n
    <3> QED BY <1>0, <2>1, <3>1, <3>2
  <2>3. CASE ~(running[Head(call[c].todo)] # 0)
    <3> DEFINE n == [call[c] EXCEPT !.pc = "svcspawn"]
    <3>1. Step(c, "module", n) /\ n.pc = "svcspawn"
      BY <1>1, <1>7, <2>3 DEF ServiceCheck, Go, Handlers
    <3> HIDE DEF n
    <3> QED BY <1>0, <2>1, <3>1
  <2> QED BY <2>2, <2>3
<1>8. CASE ServiceSpawn(c)
  <2>1. PICK i \in Fresh(svc) : Step(c, "svcspawn", [call[c] EXCEPT !.pc = "svcrecord", !.held = i])
    BY <1>8 DEF ServiceSpawn
  <2> DEFINE n == [call[c] EXCEPT !.pc = "svcrecord", !.held = i]
  <2>2. Step(c, "svcspawn", n) /\ n.pc = "svcrecord"
    BY <1>1, <2>1 DEF Handlers
  <2>3. UNCHANGED <<proc, conns, session, stopping, cap, at, tracked, gw>>
    BY <1>8 DEF ServiceSpawn
  <2> HIDE DEF n
  <2> QED BY <1>0, <2>2, <2>3
<1>9. CASE ServiceRecord(c)
  <2> DEFINE n == [call[c] EXCEPT !.pc = "module", !.todo = Tail(@), !.held = 0]
  <2>1. Step(c, "svcrecord", n)
    BY <1>9 DEF ServiceRecord
  <2>2. n.pc = "module"
    BY <1>1 DEF Handlers
  <2>3. UNCHANGED <<proc, conns, session, stopping, cap, at, tracked, gw>>
    BY <1>9 DEF ServiceRecord
  <2> HIDE DEF n
  <2> QED BY <1>0, <2>1, <2>2, <2>3
<1>10. CASE ServicesUp(c)
  <2>1. UNCHANGED <<proc, conns, session, stopping, cap, at, tracked, gw>>
    BY <1>10 DEF ServicesUp
  <2>2. CASE call[c].op = "service"
    BY <1>10, <2>1, <2>2, Returned DEF ServicesUp
  <2>3. CASE call[c].op # "service"
    <3> DEFINE n == [call[c] EXCEPT !.pc = "spawn"]
    <3>1. Step(c, "module", n) /\ n.pc = "spawn"
      BY <1>1, <1>10, <2>3 DEF ServicesUp, Go, Handlers
    <3> HIDE DEF n
    <3> QED BY <1>0, <2>1, <3>1
  <2> QED BY <2>2, <2>3
<1> QED BY <1>2, <1>3, <1>4, <1>5, <1>6, <1>7, <1>8, <1>9, <1>10

\* The steps by which a source comes up, or fails to, and a superfluous one is dropped.
LEMMA SpawnStops ==
    ASSUME TypeInv, HeldInv, StopInv, NEW c \in Calls,
           Spawn(c) \/ SpawnReady(c) \/ SpawnFailed(c) \/ Dropped(c)
    PROVE  StopInv'
<1> USE DEF sourceVars, captureVars, serviceVars
<1>1. /\ call[c] \in Handlers
      /\ proc \in [Conns -> {"unused", "starting", "up", "remote", "stopping"} \cup Gone]
  BY DEF TypeInv, TypeOK
<1>2. CASE Spawn(c)
  <2> DEFINE k == keyOf(call[c].src)
             n(j) == [call[c] EXCEPT !.pc = IF k \in Dialed THEN "store" ELSE "waiting",
                                     !.held = j]
  <2>1. PICK j \in Fresh(proc) :
          /\ Step(c, "spawn", n(j))
          /\ proc' = [proc EXCEPT ![j] = IF k \in Dialed THEN "remote" ELSE "starting"]
    BY <1>2 DEF Spawn
  <2>2. n(j).pc \in {"store", "waiting"}
    BY <1>1 DEF Handlers
  <2>3. \A i \in Conns : proc[i] \notin {"unused", "starting"} => proc'[i] = proc[i]
    BY <1>1, <2>1 DEF Fresh
  <2> HIDE DEF n
  <2>4. \A d \in Calls : \/ call'[d] = call[d]
                         \/ call'[d].pc \notin {"started", "record"} /\ ~Uses(d)'
    BY <2>1, <2>2, StepFacts DEF Uses
  <2> QED BY <1>2, <2>3, <2>4, CallsMove DEF Spawn
<1>3. CASE SpawnReady(c)
  <2>1. \A i \in Conns : proc[i] \notin {"unused", "starting"} => proc'[i] = proc[i]
    BY <1>1, <1>3 DEF SpawnReady
  <2>2. call'[c].pc = "store" /\ (\A d \in Calls : d # c => call'[d] = call[d])
    BY <1>3, GoFacts DEF SpawnReady
  <2>3. \A d \in Calls : \/ call'[d] = call[d]
                         \/ call'[d].pc \notin {"started", "record"} /\ ~Uses(d)'
    BY <2>2 DEF Uses
  <2> QED BY <1>3, <2>1, <2>3, CallsMove DEF SpawnReady
<1>4. CASE SpawnFailed(c)
  <2>1. \A i \in Conns : proc[i] \notin {"unused", "starting"} => proc'[i] = proc[i]
    BY <1>1, <1>4 DEF SpawnFailed
  <2>2. call'[c].pc = "idle" /\ (\A d \in Calls : d # c => call'[d] = call[d])
    BY <1>4, ReturnFacts DEF SpawnFailed, Idle
  <2>3. \A d \in Calls : \/ call'[d] = call[d]
                         \/ call'[d].pc \notin {"started", "record"} /\ ~Uses(d)'
    BY <2>2 DEF Uses
  <2> QED BY <1>4, <2>1, <2>3, CallsMove DEF SpawnFailed
<1>5. CASE Dropped(c)
  <2> DEFINE n == [call[c] EXCEPT !.pc = "rpc", !.spare = 0]
  <2>1. Step(c, "dropping", n)
    BY <1>5 DEF Dropped
  <2>2. n.pc = "rpc" /\ n.src = call[c].src /\ n.held = call[c].held
    BY <1>1 DEF Handlers
  <2> HIDE DEF n
  <2>3. /\ call'[c].pc = "rpc" /\ call'[c].src = call[c].src /\ call'[c].held = call[c].held
        /\ call[c].pc = "dropping"
        /\ \A d \in Calls : d # c => call'[d] = call[d]
    BY <2>1, <2>2, StepFacts
  <2>4. gw = "up" => conns[keyOf(call'[c].src)] = call'[c].held
    BY <2>3 DEF StopInv, UsesCached, Uses
  <2>5. \A d \in Calls : \/ call'[d] = call[d]
                         \/ /\ call'[d].pc \notin {"started", "record"}
                            /\ gw = "up" => conns[keyOf(call'[d].src)] = call'[d].held
    BY <2>3, <2>4
  <2> QED BY <1>5, <2>5, CallsMove DEF Dropped
<1> QED BY <1>2, <1>3, <1>4, <1>5

\* A connection is closed: the source takes every capture it runs on its list.
LEMMA ClosedStops ==
    ASSUME TypeInv, StopInv, NEW i \in Conns, closed(i), UNCHANGED <<session, cap, at, tracked>>,
           \A d \in Calls : call'[d].pc \in {"started", "record"} => call'[d] = call[d]
    PROVE  RunsSomewhere' /\ ListsOwn' /\ StartsAt' /\ KnownTracked'
<1>1. /\ proc'[i] = CASE proc[i] = "up" -> "stopping"
                      [] proc[i] = "remote" -> "closed" [] OTHER -> proc[i]
      /\ stopping'[i] = {s \in tracked : at[s] = i}
      /\ \A j \in Conns : j # i => proc'[j] = proc[j] /\ stopping'[j] = stopping[j]
  BY DEF closed, TypeInv, TypeOK
<1>2. RunsSomewhere'
  BY <1>1 DEF StopInv, RunsSomewhere
<1>3. ListsOwn'
  <2>1. \A s \in tracked' : cap'[s] # "none"
    BY DEF StopInv, ListsOwn
  <2>2. ASSUME NEW j \in Conns, NEW s \in stopping'[j] PROVE cap'[s] # "none" /\ at'[s] = j
    <3>1. CASE j = i
      BY <1>1, <2>1, <2>2, <3>1
    <3>2. CASE j # i
      BY <1>1, <2>2, <3>2 DEF StopInv, ListsOwn
    <3> QED BY <3>1, <3>2
  <2> QED BY <2>1, <2>2 DEF ListsOwn
<1>4. StartsAt'
  BY DEF StopInv, StartsAt
<1>5. KnownTracked'
  <2> SUFFICES ASSUME NEW s \in Sessions, Known(s)', cap[s] = "running"
               PROVE  /\ proc'[at[s]] \in {"up", "remote", "stopping"} => s \in tracked
                      /\ proc'[at[s]] = "stopping" => s \in stopping'[at[s]]
                      /\ proc'[at[s]] # "exited"
    BY DEF KnownTracked
  <2>1. Known(s)
    BY DEF Known
  <2>2. /\ at[s] \in Conns
        /\ proc[at[s]] \in {"up", "remote", "stopping"} => s \in tracked
        /\ proc[at[s]] = "stopping" => s \in stopping[at[s]]
        /\ proc[at[s]] # "exited"
    BY <2>1 DEF StopInv, KnownTracked, RunsSomewhere
  <2>3. CASE at[s] = i
    BY <1>1, <2>2, <2>3
  <2>4. CASE at[s] # i
    BY <1>1, <2>2, <2>4
  <2> QED BY <2>3, <2>4
<1> QED BY <1>2, <1>3, <1>4, <1>5

\* The second section of ensure: who uses a connection already found one cached under
\* its key, so that this key was another.
LEMMA StoreStops ==
    ASSUME TypeInv, HeldInv, StopInv, NEW c \in Calls, Store(c)
    PROVE  StopInv'
<1> DEFINE h == call[c]
           k == keyOf(h.src)
<1>1. h \in Handlers /\ h.pc = "store" /\ h.held \in Conns /\ h.src \in Sources /\ k \in Sources
  BY KeyType DEF Store, TypeInv, TypeOK, Equipped, Connected
<1>2. \A d \in Calls : Uses(d) => call[d].held \in Conns /\ call[d].src \in Sources
  BY DEF Uses, TypeInv, Equipped, Connected
<1>3. UNCHANGED <<session, cap, at, tracked, gw>>
  BY DEF Store, captureVars
<1>4. \A s \in Sessions : session[s] # "none" => session[s] \in Sources /\ at[s] \in Conns
  BY DEF StopInv, Owned, RunsSomewhere, TypeInv, TypeOK
<1>5. CASE conns[k] # 0
  <2> DEFINE n == [h EXCEPT !.pc = "dropping", !.held = conns[k], !.spare = h.held]
  <2>1. Step(c, "store", n) /\ closed(h.held) /\ conns' = conns
    BY <1>5 DEF Store
  <2>2. n.pc = "dropping" /\ n.held = conns[k] /\ n.src = h.src
    BY <1>1 DEF Handlers
  <2> HIDE DEF n
  <2>3. /\ call'[c].pc = "dropping" /\ call'[c].held = conns[k] /\ call'[c].src = h.src
        /\ \A d \in Calls : d # c => call'[d] = call[d]
    BY <2>1, <2>2, StepFacts
  <2>4. \A d \in Calls : call'[d].pc \in {"started", "record"} => call'[d] = call[d]
    BY <2>3
  <2>5. RunsSomewhere' /\ ListsOwn' /\ StartsAt' /\ KnownTracked'
    BY <1>1, <1>3, <2>1, <2>4, ClosedStops
  <2>6. UsesCached'
    <3> SUFFICES ASSUME gw' = "up", NEW d \in Calls, Uses(d)'
                 PROVE  conns'[keyOf(call'[d].src)] = call'[d].held
      BY DEF UsesCached, keyOf
    <3>1. CASE d = c
      BY <2>1, <2>3, <3>1
    <3>2. CASE d # c
      BY <1>3, <2>1, <2>3, <3>2 DEF StopInv, UsesCached, Uses
    <3> QED BY <3>1, <3>2
  <2>7. Owned'
    BY <1>3, <2>1 DEF StopInv, Owned, keyOf
  <2> QED BY <2>5, <2>6, <2>7 DEF StopInv
<1>6. CASE conns[k] = 0
  <2>1. Go(c, "store", "rpc") /\ conns' = [conns EXCEPT ![k] = h.held] /\ UNCHANGED sourceVars
    BY <1>6 DEF Store
  <2>2. conns'[k] = h.held /\ (\A s \in Sources : s # k => conns'[s] = conns[s])
    BY <1>1, <2>1 DEF TypeInv, TypeOK
  <2>3. /\ call'[c].pc = "rpc" /\ call'[c].held = h.held /\ call'[c].src = h.src
        /\ \A d \in Calls : d # c => call'[d] = call[d]
    BY <2>1, GoFacts
  <2>4. \A s \in Sources : keyOf(s) \in Sources
    BY KeyType
  <2>5. UsesCached'
    <3> SUFFICES ASSUME gw' = "up", NEW d \in Calls, Uses(d)'
                 PROVE  conns'[keyOf(call'[d].src)] = call'[d].held
      BY DEF UsesCached, keyOf
    <3>1. CASE d = c
      BY <2>2, <2>3, <3>1
    <3>2. CASE d # c
      <4>1. call'[d] = call[d] /\ Uses(d)
        BY <2>3, <3>2 DEF Uses
      <4>2. conns[keyOf(call[d].src)] = call[d].held
        BY <1>3, <4>1 DEF StopInv, UsesCached
      <4>3. keyOf(call[d].src) # k
        BY <1>2, <1>6, <4>1, <4>2 DEF Conns
      <4> QED BY <1>2, <2>2, <2>4, <4>1, <4>2, <4>3
    <3> QED BY <3>1, <3>2
  <2>6. Owned'
    <3> SUFFICES ASSUME NEW s \in Sessions, session[s] # "none"
                 PROVE  cap[s] # "none" /\ (gw = "up" => conns'[keyOf(session[s])] = at[s])
      BY <1>3 DEF Owned, keyOf
    <3>1. cap[s] # "none" /\ (gw = "up" => conns[keyOf(session[s])] = at[s])
      BY DEF StopInv, Owned
    <3>2. gw = "up" => keyOf(session[s]) # k
      BY <1>4, <1>6, <3>1 DEF Conns
    <3> QED BY <1>4, <2>2, <2>4, <3>1, <3>2
  <2>7. \A d \in Calls : call'[d].pc \in {"started", "record"} => call'[d] = call[d]
    BY <2>3
  <2>8. proc' = proc /\ stopping' = stopping
    BY <2>1 DEF sourceVars
  <2>9. RunsSomewhere' /\ ListsOwn'
    BY <1>3, <2>8 DEF StopInv, RunsSomewhere, ListsOwn
  <2>10. StartsAt'
    BY <1>3, <2>7 DEF StopInv, StartsAt
  <2>11. KnownTracked'
    <3>1. \A s \in Sessions : Known(s)' => Known(s)
      BY <1>3, <2>7 DEF Known
    <3> QED BY <1>3, <2>8, <3>1 DEF StopInv, KnownTracked
  <2> QED BY <2>5, <2>6, <2>9, <2>10, <2>11 DEF StopInv
<1> QED BY <1>5, <1>6

\* The source opens a session that nobody knows yet.
LEMMA StartStops ==
    ASSUME TypeInv, StopInv, NEW c \in Calls, StartRpc(c)
    PROVE  StopInv'
<1> DEFINE h == call[c]
<1>1. PICK s \in Fresh([x \in Sessions |-> IF cap[x] = "none" THEN "unused" ELSE "used"]) :
        /\ cap' = [cap EXCEPT ![s] = "running"]
        /\ at' = [at EXCEPT ![s] = h.held]
        /\ Step(c, "rpc", [h EXCEPT !.pc = "started", !.sid = s])
  BY DEF StartRpc
<1>2. s \in Sessions /\ cap[s] = "none"
  BY DEF Fresh
<1> DEFINE n == [h EXCEPT !.pc = "started", !.sid = s]
<1>3. n.pc = "started" /\ n.sid = s /\ n.held = h.held /\ n.src = h.src
  BY DEF Handlers, TypeInv, TypeOK
<1>4. Step(c, "rpc", n)
  BY <1>1
<1> HIDE DEF n
<1>5. /\ h.pc = "rpc"
      /\ call'[c].pc = "started" /\ call'[c].sid = s /\ call'[c].held = h.held
      /\ call'[c].src = h.src
      /\ \A d \in Calls : d # c => call'[d] = call[d]
  BY <1>3, <1>4, StepFacts
<1>6. h.held \in Conns /\ proc[h.held] \in {"up", "remote"}
  BY <1>5 DEF TypeInv, Equipped, Connected, StartRpc, Usable
<1>7. UNCHANGED <<conns, session, proc, stopping, tracked, gw>>
  BY DEF StartRpc, sourceVars
<1>8. /\ cap'[s] = "running" /\ at'[s] = h.held
      /\ \A x \in Sessions : x # s => cap'[x] = cap[x] /\ at'[x] = at[x]
  BY <1>1, <1>2 DEF TypeInv, TypeOK
<1>9. \A d \in Calls : call[d].pc \in {"started", "record"} =>
         call[d].sid \in Sessions /\ call[d].sid # s
  BY <1>2 DEF TypeInv, Equipped, StopInv, StartsAt
<1>10. UsesCached'
  <2> SUFFICES ASSUME gw' = "up", NEW d \in Calls, Uses(d)'
               PROVE  conns'[keyOf(call'[d].src)] = call'[d].held
    BY DEF UsesCached, keyOf
  <2>1. Uses(d) /\ call'[d].src = call[d].src /\ call'[d].held = call[d].held
    BY <1>5 DEF Uses
  <2> QED BY <1>7, <2>1 DEF StopInv, UsesCached
<1>11. RunsSomewhere'
  BY <1>6, <1>7, <1>8 DEF StopInv, RunsSomewhere
<1>12. ListsOwn'
  <2>1. s \notin tracked /\ (\A i \in Conns : s \notin stopping[i])
    BY <1>2 DEF StopInv, ListsOwn
  <2>2. tracked \subseteq Sessions /\ (\A i \in Conns : stopping[i] \subseteq Sessions)
    BY DEF TypeInv, TypeOK
  <2> QED BY <1>7, <1>8, <2>1, <2>2 DEF StopInv, ListsOwn
<1>13. StartsAt'
  <2> SUFFICES ASSUME NEW d \in Calls, call'[d].pc \in {"started", "record"}
               PROVE  at'[call'[d].sid] = call'[d].held /\ cap'[call'[d].sid] # "none"
    BY DEF StartsAt
  <2>1. CASE d = c
    BY <1>5, <1>8, <2>1
  <2>2. CASE d # c
    BY <1>5, <1>8, <1>9, <2>2 DEF StopInv, StartsAt
  <2> QED BY <2>1, <2>2
<1>14. session[s] = "none" /\ ~Known(s)'
  <2>1. session[s] = "none"
    BY <1>2 DEF StopInv, Owned
  <2>2. \A d \in Calls : ~(call'[d].pc = "record" /\ call'[d].sid = s)
    BY <1>5, <1>9
  <2> QED BY <1>7, <2>1, <2>2 DEF Known
<1>15. Owned'
  BY <1>7, <1>8, <1>14 DEF StopInv, Owned, keyOf
<1>16. KnownTracked'
  <2> SUFFICES ASSUME NEW x \in Sessions, Known(x)', cap'[x] = "running"
               PROVE  /\ proc'[at'[x]] \in {"up", "remote", "stopping"} => x \in tracked'
                      /\ proc'[at'[x]] = "stopping" => x \in stopping'[at'[x]]
                      /\ proc'[at'[x]] # "exited"
    BY DEF KnownTracked
  <2>1. x # s /\ Known(x)
    BY <1>5, <1>7, <1>14 DEF Known
  <2> QED BY <1>7, <1>8, <2>1 DEF StopInv, KnownTracked
<1> QED BY <1>10, <1>11, <1>12, <1>13, <1>15, <1>16 DEF StopInv

\* A handler that goes on, or returns, keeps the connection it uses.
LEMMA UsesKept ==
    ASSUME TypeInv, UsesCached, NEW c \in Calls, UNCHANGED <<conns, gw>>, Uses(c),
           (call'[c].src = call[c].src /\ call'[c].held = call[c].held) \/ ~Uses(c)',
           \A d \in Calls : d # c => call'[d] = call[d]
    PROVE  UsesCached'
<1> SUFFICES ASSUME gw' = "up", NEW d \in Calls, Uses(d)'
             PROVE  conns'[keyOf(call'[d].src)] = call'[d].held
  BY DEF UsesCached, keyOf
<1>1. CASE d = c
  BY <1>1 DEF UsesCached
<1>2. CASE d # c
  BY <1>2 DEF UsesCached, Uses
<1> QED BY <1>1, <1>2

\* The harness tracks a capture before the gateway can know it.
LEMMA TrackStops ==
    ASSUME TypeInv, StopInv, NEW c \in Calls, Track(c)
    PROVE  StopInv'
<1> DEFINE h == call[c]
<1>1. /\ h.pc = "started" /\ proc[h.held] \notin Gone
      /\ IF proc[h.held] \in Usable THEN Go(c, "started", "record") ELSE Return(c, "started")
      /\ tracked' = tracked \cup {h.sid}
      /\ UNCHANGED <<conns, session, proc, stopping, cap, at, gw>>
  BY DEF Track, Answers, sourceVars
<1>2. /\ h.sid \in Sessions /\ h.held \in Conns /\ at[h.sid] = h.held /\ cap[h.sid] # "none"
      /\ Uses(c)
  BY <1>1 DEF TypeInv, Equipped, Connected, StopInv, StartsAt, Uses
<1>3. /\ \/ /\ proc[h.held] \in Usable
            /\ call'[c].pc = "record" /\ call'[c].src = h.src /\ call'[c].held = h.held
            /\ call'[c].sid = h.sid
         \/ call'[c].pc = "idle"
      /\ \A d \in Calls : d # c => call'[d] = call[d]
  <2>1. Idle.pc = "idle"
    BY DEF Idle
  <2>2. CASE proc[h.held] \in Usable
    BY <1>1, <2>2, GoFacts
  <2>3. CASE proc[h.held] \notin Usable
    BY <1>1, <2>1, <2>3, ReturnFacts
  <2> QED BY <2>2, <2>3
<1>4. UsesCached'
  BY <1>1, <1>2, <1>3, UsesKept DEF StopInv, Uses
<1>5. RunsSomewhere' /\ Owned'
  <2>1. RunsSomewhere'
    BY <1>1 DEF StopInv, RunsSomewhere
  <2>2. Owned'
    BY <1>1 DEF StopInv, Owned, keyOf
  <2> QED BY <2>1, <2>2
<1>6. ListsOwn'
  BY <1>1, <1>2 DEF StopInv, ListsOwn
<1>7. StartsAt'
  BY <1>1, <1>2, <1>3 DEF StopInv, StartsAt
<1>8. KnownTracked'
  <2> SUFFICES ASSUME NEW s \in Sessions, Known(s)', cap[s] = "running"
               PROVE  /\ proc[at[s]] \in {"up", "remote", "stopping"} => s \in tracked'
                      /\ proc[at[s]] = "stopping" => s \in stopping[at[s]]
                      /\ proc[at[s]] # "exited"
    BY <1>1 DEF KnownTracked
  <2>1. CASE Known(s)
    BY <1>1, <2>1 DEF StopInv, KnownTracked
  <2>2. CASE ~Known(s)
    <3>1. s = h.sid /\ proc[h.held] \in Usable
      BY <1>1, <1>3, <2>2 DEF Known
    <3> QED BY <1>1, <1>2, <3>1 DEF Usable
  <2> QED BY <2>1, <2>2
<1> QED BY <1>4, <1>5, <1>6, <1>7, <1>8 DEF StopInv

\* The manager notes the owner of a session that runs at its cached connection.
LEMMA RecordStops ==
    ASSUME TypeInv, StopInv, NEW c \in Calls, Record(c)
    PROVE  StopInv'
<1> DEFINE h == call[c]
<1>1. /\ h.pc = "record" /\ call'[c].pc = "idle"
      /\ \A d \in Calls : d # c => call'[d] = call[d]
  BY ReturnFacts DEF Record, Idle
<1>2. /\ session' = [session EXCEPT ![h.sid] = h.src]
      /\ UNCHANGED <<conns, proc, stopping, cap, at, tracked, gw>>
  BY DEF Record, sourceVars, captureVars
<1>3. /\ h.sid \in Sessions /\ at[h.sid] = h.held /\ cap[h.sid] # "none"
      /\ Uses(c) /\ Known(h.sid)
  BY <1>1 DEF TypeInv, Equipped, StopInv, StartsAt, Uses, Known
<1>4. /\ session'[h.sid] = h.src
      /\ \A s \in Sessions : s # h.sid => session'[s] = session[s]
  BY <1>2, <1>3 DEF TypeInv, TypeOK
<1>5. UsesCached'
  BY <1>1, <1>2, <1>3, UsesKept DEF StopInv, Uses
<1>6. RunsSomewhere' /\ ListsOwn'
  BY <1>2 DEF StopInv, RunsSomewhere, ListsOwn
<1>7. StartsAt'
  BY <1>1, <1>2 DEF StopInv, StartsAt
<1>8. Owned'
  <2> SUFFICES ASSUME NEW s \in Sessions, session'[s] # "none"
               PROVE  cap[s] # "none" /\ (gw = "up" => conns[keyOf(session'[s])] = at[s])
    BY <1>2 DEF Owned, keyOf
  <2>1. CASE s = h.sid
    BY <1>3, <1>4, <2>1 DEF StopInv, UsesCached
  <2>2. CASE s # h.sid
    BY <1>4, <2>2 DEF StopInv, Owned
  <2> QED BY <2>1, <2>2
<1>9. KnownTracked'
  <2>1. \A s \in Sessions : Known(s)' => Known(s)
    BY <1>1, <1>3, <1>4 DEF Known
  <2> QED BY <1>2, <2>1 DEF StopInv, KnownTracked
<1> QED BY <1>5, <1>6, <1>7, <1>8, <1>9 DEF StopInv

\* A capture that does not run any more: asked to stop, ending, or past its end.
Over == {"asked", "ending", "closed", "failed"}

\* Captures end, in a process that came up, and only then are untracked or off the lists.
LEMMA CapturesEnd ==
    ASSUME TypeInv, StopInv,
           UNCHANGED <<conns, session, proc, at, gw>>,
           \A s \in Sessions :
              \/ cap'[s] = cap[s]
              \/ /\ cap'[s] \in Over
                 /\ at[s] \in Conns /\ proc[at[s]] \notin {"unused", "starting"},
           tracked' \subseteq tracked,
           \A s \in tracked : cap'[s] = "running" => s \in tracked',
           \A i \in Conns : stopping'[i] \subseteq stopping[i],
           \A i \in Conns : \A s \in stopping[i] : cap'[s] = "running" => s \in stopping'[i],
           \A d \in Calls : \/ call'[d] = call[d]
                            \/ call'[d].pc \notin {"started", "record"} /\ ~Uses(d)'
    PROVE  StopInv'
<1>1. \A s \in Sessions : cap[s] # "none" => cap'[s] # "none"
  BY DEF Over
<1>2. UsesCached'
  BY DEF StopInv, UsesCached, Uses, keyOf
<1>3. RunsSomewhere'
  BY DEF StopInv, RunsSomewhere
<1>4. ListsOwn'
  <2>1. tracked \subseteq Sessions /\ (\A i \in Conns : stopping[i] \subseteq Sessions)
    BY DEF TypeInv, TypeOK
  <2>2. ASSUME NEW s \in tracked' PROVE cap'[s] # "none"
    BY <1>1, <2>1 DEF StopInv, ListsOwn
  <2>3. ASSUME NEW i \in Conns, NEW s \in stopping'[i] PROVE cap'[s] # "none" /\ at'[s] = i
    <3>1. s \in stopping[i] /\ s \in Sessions
      BY <2>1
    <3> QED BY <1>1, <3>1 DEF StopInv, ListsOwn
  <2> QED BY <2>2, <2>3 DEF ListsOwn
<1>5. StartsAt'
  <2> SUFFICES ASSUME NEW d \in Calls, call'[d].pc \in {"started", "record"}
               PROVE  at'[call'[d].sid] = call'[d].held /\ cap'[call'[d].sid] # "none"
    BY DEF StartsAt
  <2>1. call'[d] = call[d] /\ call[d].sid \in Sessions
    BY DEF TypeInv, Equipped
  <2> QED BY <1>1, <2>1 DEF StopInv, StartsAt
<1>6. Owned'
  BY <1>1 DEF StopInv, Owned, keyOf
<1>7. KnownTracked'
  <2> SUFFICES ASSUME NEW s \in Sessions, Known(s)', cap'[s] = "running"
               PROVE  /\ proc[at[s]] \in {"up", "remote", "stopping"} => s \in tracked'
                      /\ proc[at[s]] = "stopping" => s \in stopping'[at[s]]
                      /\ proc[at[s]] # "exited"
    BY DEF KnownTracked
  <2>1. Known(s) /\ cap[s] = "running"
    BY DEF Known, Over
  <2>2. /\ at[s] \in Conns
        /\ proc[at[s]] \in {"up", "remote", "stopping"} => s \in tracked
        /\ proc[at[s]] = "stopping" => s \in stopping[at[s]]
        /\ proc[at[s]] # "exited"
    BY <2>1 DEF StopInv, KnownTracked, RunsSomewhere
  <2> QED BY <2>2
<1> QED BY <1>2, <1>3, <1>4, <1>5, <1>6, <1>7 DEF StopInv

\* A source takes a capture in hand, or has nothing to stop.
LEMMA StoppedStops ==
    ASSUME TypeInv, StopInv, NEW c \in Calls, StopRpc(c) \/ StopIdle(c)
    PROVE  StopInv'
<1> DEFINE h == call[c]
<1>1. /\ h.pc = "rpc" /\ call'[c].pc \in {"stopping", "unmap"}
      /\ \A d \in Calls : d # c => call'[d] = call[d]
  BY GoFacts DEF StopRpc, StopIdle
<1>2. UNCHANGED <<conns, session, proc, stopping, at, gw>>
  BY DEF StopRpc, StopIdle, sourceVars
<1>3. \A d \in Calls : \/ call'[d] = call[d]
                       \/ call'[d].pc \notin {"started", "record"} /\ ~Uses(d)'
  BY <1>1 DEF Uses
<1>4. h.held \in Conns /\ cap \in [Sessions -> Captures] /\ tracked \subseteq Sessions
  BY <1>1 DEF TypeInv, TypeOK, Equipped, Connected
<1>5. /\ \A s \in Sessions :
           \/ cap'[s] = cap[s]
           \/ /\ cap'[s] \in Over
              /\ at[s] \in Conns /\ proc[at[s]] \notin {"unused", "starting"}
      /\ tracked' \subseteq tracked
      /\ \A s \in tracked : cap'[s] = "running" => s \in tracked'
  <2>1. CASE StopRpc(c)
    <3>1. /\ cap' = [cap EXCEPT ![h.sid] = "asked"] /\ tracked' = tracked
          /\ proc[h.held] \in Usable /\ at[h.sid] = h.held
      BY <2>1 DEF StopRpc, reached
    <3> QED BY <1>4, <3>1 DEF Usable, Over
  <2>2. CASE StopIdle(c)
    <3>1. /\ cap' = cap
          /\ tracked' = tracked \/ (tracked' = tracked \ {h.sid} /\ cap[h.sid] # "running")
      BY <2>2 DEF StopIdle
    <3> QED BY <3>1
  <2> QED BY <2>1, <2>2
<1> QED BY <1>2, <1>3, <1>5, CapturesEnd

\* The session is forgotten, whatever came of the stop.
LEMMA UnmappedStops ==
    ASSUME TypeInv, StopInv, NEW c \in Calls, Unmap(c) \/ StopLost(c)
    PROVE  StopInv'
<1> DEFINE h == call[c]
<1>1. /\ h.pc \in {"rpc", "stopping", "unmap"} /\ call'[c].pc = "idle"
      /\ \A d \in Calls : d # c => call'[d] = call[d]
  BY ReturnFacts DEF Unmap, StopLost, Idle
<1>2. /\ session' = [session EXCEPT ![h.sid] = "none"]
      /\ UNCHANGED <<conns, proc, stopping, cap, at, tracked, gw>>
  BY DEF Unmap, StopLost, sourceVars, captureVars
<1>3. \A s \in Sessions : session'[s] = session[s] \/ session'[s] = "none"
  BY <1>2 DEF TypeInv, TypeOK
<1>4. \A d \in Calls : \/ call'[d] = call[d]
                       \/ call'[d].pc \notin {"started", "record"} /\ ~Uses(d)'
  BY <1>1 DEF Uses
<1>5. UsesCached'
  BY <1>2, <1>4 DEF StopInv, UsesCached, Uses, keyOf
<1>6. RunsSomewhere' /\ ListsOwn'
  BY <1>2 DEF StopInv, RunsSomewhere, ListsOwn
<1>7. StartsAt'
  BY <1>2, <1>4 DEF StopInv, StartsAt
<1>8. Owned'
  BY <1>2, <1>3 DEF StopInv, Owned, keyOf
<1>9. KnownTracked'
  <2>1. \A s \in Sessions : Known(s)' => Known(s)
    BY <1>3, <1>4 DEF Known
  <2> QED BY <1>2, <2>1 DEF StopInv, KnownTracked
<1> QED BY <1>5, <1>6, <1>7, <1>8, <1>9 DEF StopInv

\* A source is gone: killed, dead, or done with its list.
LEMMA GoneStops ==
    ASSUME TypeInv, StopInv, NEW i \in Conns, ShutdownExit(i) \/ Crash(i) \/ Kill(i)
    PROVE  StopInv'
<1>1. UNCHANGED <<call, conns, session, stopping, cap, at, tracked, gw>>
  BY DEF ShutdownExit, Crash, Kill, captureVars
<1>2. /\ proc'[i] \in {"exited", "crashed", "killed"}
      /\ proc'[i] = "exited" => proc[i] = "stopping" /\ stopping[i] = {}
      /\ \A j \in Conns : j # i => proc'[j] = proc[j]
  BY DEF ShutdownExit, Crash, Kill, TypeInv, TypeOK
<1>3. UsesCached' /\ ListsOwn' /\ StartsAt'
  <2>1. UsesCached'
    BY <1>1 DEF StopInv, UsesCached, Uses, keyOf
  <2>2. ListsOwn'
    BY <1>1 DEF StopInv, ListsOwn
  <2>3. StartsAt'
    BY <1>1 DEF StopInv, StartsAt
  <2> QED BY <2>1, <2>2, <2>3
<1>4. RunsSomewhere'
  BY <1>1, <1>2 DEF StopInv, RunsSomewhere
<1>5. Owned'
  BY <1>1 DEF StopInv, Owned, keyOf
<1>6. KnownTracked'
  <2> SUFFICES ASSUME NEW s \in Sessions, Known(s), cap[s] = "running"
               PROVE  /\ proc'[at[s]] \in {"up", "remote", "stopping"} => s \in tracked
                      /\ proc'[at[s]] = "stopping" => s \in stopping[at[s]]
                      /\ proc'[at[s]] # "exited"
    BY <1>1 DEF KnownTracked, Known
  <2>1. /\ at[s] \in Conns
        /\ proc[at[s]] \in {"up", "remote", "stopping"} => s \in tracked
        /\ proc[at[s]] = "stopping" => s \in stopping[at[s]]
        /\ proc[at[s]] # "exited"
    BY DEF StopInv, KnownTracked, RunsSomewhere
  <2>2. CASE at[s] = i
    BY <1>2, <2>1, <2>2
  <2>3. CASE at[s] # i
    BY <1>2, <2>1, <2>3
  <2> QED BY <2>2, <2>3
<1> QED BY <1>3, <1>4, <1>5, <1>6 DEF StopInv

\* The gateway's shutdown, the services, and what happens at the sources.
LEMMA OutsideStops ==
    ASSUME TypeInv, StopInv,
           StopService \/ (\E i \in SvcProcs : ServiceReap(i)) \/ Environment
             \/ (\E i \in Conns : Kill(i)) \/ CloseBegin \/ Closing \/ UNCHANGED vars
    PROVE  StopInv'
<1> USE DEF sourceVars, captureVars, serviceVars
<1>0. ASSUME UNCHANGED <<call, proc, conns, session, stopping, cap, at, tracked>>,
             gw' = "up" => gw = "up"
      PROVE  StopInv'
  BY <1>0, CallsMove
<1>1. CASE StopService \/ (\E i \in SvcProcs : ServiceReap(i)) \/ UNCHANGED vars
  BY <1>0, <1>1 DEF StopService, ServiceReap, reaped, vars
<1>2. ASSUME NEW i \in SvcProcs, ServiceExit(i) PROVE StopInv'
  BY <1>0, <1>2 DEF ServiceExit
<1>3. ASSUME NEW s \in Sessions, StopOver(s) \/ SelfEnd(s) \/ SelfEnded(s) PROVE StopInv'
  <2>1. /\ cap[s] # "none" /\ tracked' \in {tracked, tracked \ {s}}
        /\ UNCHANGED <<call, conns, session, proc, stopping, at, gw>>
    BY <1>3 DEF StopOver, SelfEnd, SelfEnded
  <2>2. at[s] \in Conns /\ proc[at[s]] \notin {"unused", "starting"}
    BY <2>1 DEF StopInv, RunsSomewhere
  <2>3. cap'[s] \in Over /\ (\A x \in Sessions : x # s => cap'[x] = cap[x])
    BY <1>3 DEF StopOver, SelfEnd, SelfEnded, Over, TypeInv, TypeOK
  <2>4. tracked' \subseteq tracked /\ (\A x \in tracked : cap'[x] = "running" => x \in tracked')
    BY <2>1, <2>3 DEF Over
  <2> QED BY <2>1, <2>2, <2>3, <2>4, CapturesEnd
<1>4. ASSUME NEW i \in Conns, ShutdownStop(i) PROVE StopInv'
  <2>1. PICK s \in stopping[i], end \in {"closed", "ending", "failed"} :
          /\ stopping' = [stopping EXCEPT ![i] = @ \ {s}]
          /\ cap' = [cap EXCEPT ![s] = IF @ = "running" THEN end ELSE @]
          /\ tracked' = tracked \ {s}
    BY <1>4 DEF ShutdownStop
  <2>2. UNCHANGED <<call, conns, session, proc, at, gw>>
    BY <1>4 DEF ShutdownStop
  <2>3. /\ s \in Sessions /\ (\A x \in Sessions : x # s => cap'[x] = cap[x])
        /\ cap'[s] = cap[s] \/ cap'[s] \in Over
        /\ cap'[s] # "running"
    BY <2>1 DEF TypeInv, TypeOK, Over
  <2>4. at[s] \in Conns /\ proc[at[s]] \notin {"unused", "starting"}
    BY <2>3 DEF StopInv, RunsSomewhere, ListsOwn
  <2>5. /\ \A j \in Conns : stopping'[j] \subseteq stopping[j]
        /\ \A j \in Conns : \A x \in stopping[j] : x # s => x \in stopping'[j]
    BY <2>1 DEF TypeInv, TypeOK
  <2>6. /\ tracked' \subseteq tracked
        /\ \A x \in tracked : cap'[x] = "running" => x \in tracked'
        /\ \A j \in Conns : \A x \in stopping[j] : cap'[x] = "running" => x \in stopping'[j]
    BY <2>1, <2>3, <2>5
  <2>7. \A x \in Sessions : \/ cap'[x] = cap[x]
                            \/ /\ cap'[x] \in Over
                               /\ at[x] \in Conns /\ proc[at[x]] \notin {"unused", "starting"}
    BY <2>3, <2>4
  <2> QED BY <2>2, <2>5, <2>6, <2>7, CapturesEnd
<1>5. CASE Environment
  BY <1>2, <1>3, <1>4, <1>5, GoneStops DEF Environment
<1>6. CASE CloseBegin
  <2>1. gw' # "up" /\ UNCHANGED <<call, session, proc, stopping, cap, at, tracked>>
    BY <1>6 DEF CloseBegin
  <2>2. UsesCached'
    BY <2>1 DEF UsesCached
  <2>3. RunsSomewhere' /\ ListsOwn'
    BY <2>1 DEF StopInv, RunsSomewhere, ListsOwn
  <2>4. StartsAt'
    BY <2>1 DEF StopInv, StartsAt
  <2>5. Owned'
    BY <2>1 DEF StopInv, Owned
  <2>6. KnownTracked'
    BY <2>1 DEF StopInv, KnownTracked, Known
  <2> QED BY <2>2, <2>3, <2>4, <2>5, <2>6 DEF StopInv
<1>7. ASSUME NEW i \in Conns, CloseConn(i) PROVE StopInv'
  <2>1. /\ closed(i) /\ gw' = gw /\ gw = "closing"
        /\ UNCHANGED <<call, conns, session, cap, at, tracked>>
    BY <1>7 DEF CloseConn
  <2>2. RunsSomewhere' /\ ListsOwn' /\ StartsAt' /\ KnownTracked'
    BY <2>1, ClosedStops
  <2>3. UsesCached' /\ Owned'
    BY <2>1 DEF StopInv, UsesCached, Owned
  <2> QED BY <2>2, <2>3 DEF StopInv
<1>8. CASE CloseDone \/ ServicesClose \/ Exit
  BY <1>0, <1>8 DEF CloseDone, ServicesClose, Exit
<1> QED BY <1>1, <1>5, <1>6, <1>7, <1>8, GoneStops DEF Closing

-----------------------------------------------------------------------------
(* The theorem.                                                              *)

\* Every step keeps the invariant.
LEMMA StopStep == ASSUME TypeInv, HeldInv, StopInv, [Next]_vars PROVE StopInv'
<1>1. ASSUME NEW c \in Calls, Handler(c) PROVE StopInv'
  BY <1>1, WayStops, SpawnStops, StoreStops, StartStops, TrackStops, RecordStops, StoppedStops,
     UnmappedStops DEF Handler
<1>2. ASSUME NEW c \in Calls, Request(c) \/ StopCapture(c) \/ StartService(c) PROVE StopInv'
  BY <1>2, WayStops
<1> QED BY <1>1, <1>2, OutsideStops DEF Next, Rest

\* The gateway starts with no capture and no call.
LEMMA StopInit == Init => HeldInv /\ StopInv
<1> SUFFICES ASSUME Init PROVE HeldInv /\ StopInv
  OBVIOUS
<1>1. \A c \in Calls : call[c].pc = "idle"
  BY DEF Init, Idle
<1>2. /\ \A s \in Sessions : cap[s] = "none" /\ session[s] = "none"
      /\ tracked = {} /\ (\A i \in Conns : stopping[i] = {})
  BY DEF Init
<1>3. HeldInv
  BY <1>1 DEF HeldInv, HeldIsOwn, HeldByOne, Carries
<1>4. UsesCached /\ StartsAt
  BY <1>1 DEF UsesCached, StartsAt, Uses
<1>5. RunsSomewhere /\ ListsOwn /\ Owned /\ KnownTracked
  BY <1>2 DEF RunsSomewhere, ListsOwn, Owned, KnownTracked
<1> QED BY <1>3, <1>4, <1>5 DEF StopInv

\* What the invariant says of the captures the gateway knows.
LEMMA StopsFollow == TypeInv /\ StopInv => CapturesAreStopped
<1> SUFFICES ASSUME TypeInv, StopInv PROVE CapturesAreStopped
  OBVIOUS
<1>1. TypeOK
  BY DEF TypeInv
<1>2. StopRouted
  BY DEF StopRouted, StopInv, Owned
<1>3. KnownCapturesStopped
  <2> SUFFICES ASSUME NEW s \in Sessions, session[s] # "none", proc[at[s]] = "exited"
               PROVE  cap[s] # "running"
    BY DEF KnownCapturesStopped
  <2>1. Known(s)
    BY DEF Known
  <2> QED BY <2>1 DEF StopInv, KnownTracked
<1> QED BY <1>1, <1>2, <1>3 DEF CapturesAreStopped

\* Of a capture the gateway knows, a stop reaches the process it runs in, also when two
\* sources share one, and a source that leaves in good order has stopped it first, as far
\* as its stop_capture got: whatever calls race, whatever dies, whatever raises, and
\* whenever the gateway's shutdown begins
\* (sourcemgr/manager.go StartCapture, StopCapture; capture_sdk/source.py).
THEOREM StopsReachTheSource == Spec => []CapturesAreStopped
BY TypeInit, TypeStep, HeldStep, StopInit, StopStep, StopsFollow, PTL DEF Spec

-----------------------------------------------------------------------------
(* No session is forgotten while its capture runs.                           *)

\* A stop names a capture and its owner, unless the session is forgotten already, and
\* once its source has taken it the capture does not run, or the source is gone.
StopMeans ==
    \A c \in Calls :
        /\ call[c].pc \in {"stopping", "unmap"} => call[c].op = "stop"
        /\ call[c].op = "stop" =>
             /\ call[c].sid \in Sessions /\ cap[call[c].sid] # "none"
             /\ session[call[c].sid] \in {call[c].src, "none"}
             /\ call[c].pc \in {"stopping", "unmap"} /\ session[call[c].sid] # "none" /\ gw = "up" =>
                   cap[call[c].sid] # "running" \/ proc[at[call[c].sid]] \notin Usable

\* A handler that is about to note a session.
Starts(c) == call[c].pc \in {"started", "record"}

\* A session is noted once, by the call that began its capture, and nobody can have
\* asked for its stop before.
StartsNew ==
    \A c \in Calls : Starts(c) =>
        /\ call[c].op = "start" /\ session[call[c].sid] = "none"
        /\ \A d \in Calls : d # c /\ (Starts(d) \/ call[d].op = "stop") =>
               call[d].sid # call[c].sid

ForgetInv == StopMeans /\ StartsNew

\* A handler's step that neither begins nor ends what it does about a session.
Same(d) == call'[d].op = call[d].op /\ call'[d].src = call[d].src /\ call'[d].sid = call[d].sid
Keeps(d) ==
    /\ call'[d].pc \in {"started", "record"} => Starts(d) /\ Same(d)
    /\ call'[d].op = "stop" => Same(d)
    /\ call'[d].pc \in {"stopping", "unmap"} => call'[d].pc = call[d].pc /\ Same(d)

\* A capture that does not run any more stays so.
StaysOver(s) ==
    cap[s] # "none" => cap'[s] # "none" /\ (cap[s] # "running" => cap'[s] # "running")

\* Most steps of a handler are of that kind.
LEMMA HandlersKeep ==
    ASSUME TypeInv, NEW c \in Calls,
           \/ Request(c) \/ StartService(c)
           \/ Ensure(c) \/ Spawn(c) \/ SpawnRefused(c) \/ SpawnReady(c) \/ SpawnFailed(c)
           \/ Store(c) \/ Dropped(c) \/ Answered(c) \/ Track(c) \/ StartLost(c)
           \/ ServiceCheck(c) \/ ServiceSpawn(c) \/ ServiceRefused(c) \/ ServiceRecord(c)
           \/ ServicesUp(c)
    PROVE  \A d \in Calls : Keeps(d)
<1> USE DEF Keeps, Same, Starts
<1>1. call[c] \in Handlers
  BY DEF TypeInv, TypeOK
<1>2. Idle.pc = "idle" /\ Idle.op = "none" /\ Idle \in Handlers
  BY IdleType DEF Idle
<1>3. ASSUME NEW from, NEW next, Step(c, from, next),
             next.pc \notin {"started", "record", "stopping", "unmap"},
             next.op # "stop" \/ (next.op = call[c].op /\ next.src = call[c].src
                                    /\ next.sid = call[c].sid)
      PROVE  \A d \in Calls : Keeps(d)
  BY <1>3, StepFacts
<1>4. ASSUME NEW from, Return(c, from) PROVE \A d \in Calls : Keeps(d)
  BY <1>2, <1>4, ReturnFacts
<1>5. ASSUME NEW from, NEW to, Go(c, from, to), to \notin {"started", "record", "stopping", "unmap"}
      PROVE  \A d \in Calls : Keeps(d)
  BY <1>5, GoFacts
<1>6. CASE Request(c)
  <2>1. PICK s \in specs :
          Step(c, "idle", [Idle EXCEPT !.pc = "ensure", !.op = "start", !.src = s])
    BY <1>6 DEF Request
  <2> DEFINE n == [Idle EXCEPT !.pc = "ensure", !.op = "start", !.src = s]
  <2>2. Step(c, "idle", n) /\ n.pc = "ensure" /\ n.op = "start"
    BY <1>2, <2>1 DEF Handlers
  <2> HIDE DEF n
  <2> QED BY <1>3, <2>2
<1>7. CASE StartService(c)
  <2>0. PICK k \in specs \cap Dialed : \E s \in Range(ModuleServices[k]) :
          Step(c, "idle", [Idle EXCEPT !.pc = "module", !.op = "service", !.todo = <<s>>])
    BY <1>7 DEF StartService
  <2>1. PICK s \in Range(ModuleServices[k]) :
          Step(c, "idle", [Idle EXCEPT !.pc = "module", !.op = "service", !.todo = <<s>>])
    BY <2>0
  <2> DEFINE n == [Idle EXCEPT !.pc = "module", !.op = "service", !.todo = <<s>>]
  <2>2. Step(c, "idle", n) /\ n.pc = "module" /\ n.op = "service"
    BY <1>2, <2>1 DEF Handlers
  <2> HIDE DEF n
  <2> QED BY <1>3, <2>2
<1>8. CASE Ensure(c)
  <2> DEFINE k == keyOf(call[c].src)
  <2>1. CASE conns[k] # 0
    <3> DEFINE n == [call[c] EXCEPT !.pc = "rpc", !.held = conns[k]]
    <3>1. Step(c, "ensure", n)
      BY <1>8, <2>1 DEF Ensure
    <3>2. n.pc = "rpc" /\ n.op = call[c].op /\ n.src = call[c].src /\ n.sid = call[c].sid
      BY <1>1 DEF Handlers
    <3> HIDE DEF n
    <3> QED BY <1>3, <3>1, <3>2
  <2>2. CASE conns[k] = 0 /\ k \in Dialed
    <3> DEFINE n == [call[c] EXCEPT !.pc = "module", !.todo = ModuleServices[k]]
    <3>1. Step(c, "ensure", n)
      BY <1>8, <2>2 DEF Ensure
    <3>2. n.pc = "module" /\ n.op = call[c].op /\ n.src = call[c].src /\ n.sid = call[c].sid
      BY <1>1 DEF Handlers
    <3> HIDE DEF n
    <3> QED BY <1>3, <3>1, <3>2
  <2>3. CASE conns[k] = 0 /\ k \notin Dialed
    BY <1>5, <1>8, <2>3 DEF Ensure
  <2> QED BY <2>1, <2>2, <2>3
<1>9. CASE Spawn(c)
  <2> DEFINE k == keyOf(call[c].src)
             n(j) == [call[c] EXCEPT !.pc = IF k \in Dialed THEN "store" ELSE "waiting",
                                     !.held = j]
  <2>1. PICK j \in Fresh(proc) : Step(c, "spawn", n(j))
    BY <1>9 DEF Spawn
  <2>2. /\ n(j).pc \in {"store", "waiting"}
        /\ n(j).op = call[c].op /\ n(j).src = call[c].src /\ n(j).sid = call[c].sid
    BY <1>1 DEF Handlers
  <2> HIDE DEF n
  <2> QED BY <1>3, <2>1, <2>2
<1>10. CASE SpawnRefused(c) \/ SpawnFailed(c) \/ Answered(c) \/ StartLost(c) \/ ServiceRefused(c)
  BY <1>4, <1>10 DEF SpawnRefused, SpawnFailed, Answered, StartLost, ServiceRefused
<1>11. CASE SpawnReady(c)
  BY <1>5, <1>11 DEF SpawnReady
<1>12. CASE Store(c)
  <2> DEFINE k == keyOf(call[c].src)
             n == [call[c] EXCEPT !.pc = "dropping", !.held = conns[k], !.spare = call[c].held]
  <2>1. n.pc = "dropping" /\ n.op = call[c].op /\ n.src = call[c].src /\ n.sid = call[c].sid
    BY <1>1 DEF Handlers
  <2>2. Step(c, "store", n) \/ Go(c, "store", "rpc")
    BY <1>12 DEF Store
  <2> HIDE DEF n
  <2> QED BY <1>3, <1>5, <2>1, <2>2
<1>13. CASE Dropped(c)
  <2> DEFINE n == [call[c] EXCEPT !.pc = "rpc", !.spare = 0]
  <2>1. n.pc = "rpc" /\ n.op = call[c].op /\ n.src = call[c].src /\ n.sid = call[c].sid
    BY <1>1 DEF Handlers
  <2>2. Step(c, "dropping", n)
    BY <1>13 DEF Dropped
  <2> HIDE DEF n
  <2> QED BY <1>3, <2>1, <2>2
<1>14. CASE Track(c)
  <2>1. CASE Go(c, "started", "record")
    BY <2>1, GoFacts
  <2>2. CASE Return(c, "started")
    BY <1>4, <2>2
  <2> QED BY <1>14, <2>1, <2>2 DEF Track, Answers
<1>15. CASE ServiceCheck(c)
  <2> DEFINE n == [call[c] EXCEPT !.todo = Tail(@)]
  <2>1. n.pc = call[c].pc /\ n.op = call[c].op /\ n.src = call[c].src /\ n.sid = call[c].sid
    BY <1>1 DEF Handlers
  <2>2. call[c].pc = "module" /\ (Step(c, "module", n) \/ Go(c, "module", "svcspawn"))
    BY <1>15 DEF ServiceCheck, Go, Step
  <2> HIDE DEF n
  <2> QED BY <1>3, <1>5, <2>1, <2>2
<1>16. CASE ServiceSpawn(c)
  <2>1. PICK i \in Fresh(svc) : Step(c, "svcspawn", [call[c] EXCEPT !.pc = "svcrecord", !.held = i])
    BY <1>16 DEF ServiceSpawn
  <2> DEFINE n == [call[c] EXCEPT !.pc = "svcrecord", !.held = i]
  <2>2. n.pc = "svcrecord" /\ n.op = call[c].op /\ n.src = call[c].src /\ n.sid = call[c].sid
    BY <1>1 DEF Handlers
  <2>3. Step(c, "svcspawn", n)
    BY <2>1
  <2> HIDE DEF n
  <2> QED BY <1>3, <2>2, <2>3
<1>17. CASE ServiceRecord(c)
  <2> DEFINE n == [call[c] EXCEPT !.pc = "module", !.todo = Tail(@), !.held = 0]
  <2>1. n.pc = "module" /\ n.op = call[c].op /\ n.src = call[c].src /\ n.sid = call[c].sid
    BY <1>1 DEF Handlers
  <2>2. Step(c, "svcrecord", n)
    BY <1>17 DEF ServiceRecord
  <2> HIDE DEF n
  <2> QED BY <1>3, <2>1, <2>2
<1>18. CASE ServicesUp(c)
  BY <1>4, <1>5, <1>18 DEF ServicesUp
<1> QED BY <1>6, <1>7, <1>8, <1>9, <1>10, <1>11, <1>12, <1>13, <1>14, <1>15, <1>16, <1>17, <1>18

\* Such a step keeps the invariant when no source comes back and no capture begins.
LEMMA ForgetKept ==
    ASSUME TypeInv, StopInv, ForgetInv, UNCHANGED <<session, at>>, gw' = "up" => gw = "up",
           \A s \in Sessions : StaysOver(s),
           \A j \in Conns : proc[j] \notin {"unused", "starting"} \cup Usable =>
              proc'[j] \notin Usable,
           \A d \in Calls : Keeps(d)
    PROVE  ForgetInv'
<1>1. StopMeans'
  <2> SUFFICES ASSUME NEW c \in Calls
               PROVE  /\ call'[c].pc \in {"stopping", "unmap"} => call'[c].op = "stop"
                      /\ call'[c].op = "stop" =>
                           /\ call'[c].sid \in Sessions /\ cap'[call'[c].sid] # "none"
                           /\ session[call'[c].sid] \in {call'[c].src, "none"}
                           /\ call'[c].pc \in {"stopping", "unmap"} /\ session[call'[c].sid] # "none" /\ gw' = "up" =>
                                 \/ cap'[call'[c].sid] # "running"
                                 \/ proc'[at[call'[c].sid]] \notin Usable
    BY DEF StopMeans
  <2>1. call'[c].pc \in {"stopping", "unmap"} => call'[c].op = "stop"
    BY DEF Keeps, Same, ForgetInv, StopMeans
  <2>2. CASE call'[c].op = "stop"
    <3> DEFINE s == call[c].sid
    <3>1. Same(c) /\ (call'[c].pc \in {"stopping", "unmap"} => call[c].pc \in {"stopping", "unmap"})
      BY <2>2 DEF Keeps
    <3>2. /\ s \in Sessions /\ cap[s] # "none" /\ session[s] \in {call[c].src, "none"}
          /\ call[c].pc \in {"stopping", "unmap"} /\ session[s] # "none" /\ gw = "up" =>
                cap[s] # "running" \/ proc[at[s]] \notin Usable
      BY <2>2, <3>1 DEF Same, ForgetInv, StopMeans
    <3>3. cap'[s] # "none" /\ (cap[s] # "running" => cap'[s] # "running")
      BY <3>2 DEF StaysOver
    <3>4. proc[at[s]] \notin Usable => proc'[at[s]] \notin Usable
      BY <3>2 DEF StopInv, RunsSomewhere
    <3> QED BY <2>1, <3>1, <3>2, <3>3, <3>4 DEF Same
  <2> QED BY <2>1, <2>2
<1>2. StartsNew'
  BY DEF Keeps, Same, Starts, ForgetInv, StartsNew
<1> QED BY <1>1, <1>2 DEF ForgetInv

\* What the handlers' own steps leave of captures and sources.
LEMMA HandlersForget ==
    ASSUME TypeInv, StopInv, ForgetInv, NEW c \in Calls,
           \/ Request(c) \/ StartService(c)
           \/ Ensure(c) \/ Spawn(c) \/ SpawnRefused(c) \/ SpawnReady(c) \/ SpawnFailed(c)
           \/ Store(c) \/ Dropped(c) \/ Answered(c) \/ Track(c) \/ StartLost(c)
           \/ ServiceCheck(c) \/ ServiceSpawn(c) \/ ServiceRefused(c) \/ ServiceRecord(c)
           \/ ServicesUp(c)
    PROVE  ForgetInv'
<1> USE DEF sourceVars, captureVars, serviceVars
<1>1. \A d \in Calls : Keeps(d)
  BY HandlersKeep
<1>2. UNCHANGED <<session, at, cap, gw>>
  BY DEF Request, StartService, Ensure, Spawn, SpawnRefused, SpawnReady, SpawnFailed, Store,
         Dropped, Answered, Track, StartLost, ServiceCheck, ServiceSpawn, ServiceRefused,
         ServiceRecord, ServicesUp
<1>3. \A j \in Conns : proc[j] \notin {"unused", "starting"} \cup Usable => proc'[j] \notin Usable
  <2>1. proc \in [Conns -> {"unused", "starting", "up", "remote", "stopping"} \cup Gone]
    BY DEF TypeInv, TypeOK
  <2>2. CASE proc' = proc
    BY <2>2
  <2>3. CASE Spawn(c)
    BY <2>1, <2>3 DEF Spawn, Fresh, Usable
  <2>4. CASE SpawnReady(c) \/ SpawnFailed(c)
    BY <2>1, <2>4 DEF SpawnReady, SpawnFailed, Usable
  <2>5. CASE Store(c)
    BY <2>1, <2>5 DEF Store, closed, Usable
  <2> QED BY <2>2, <2>3, <2>4, <2>5
        DEF Request, StartService, Ensure, SpawnRefused,
            Dropped, Answered, Track, StartLost, ServiceCheck, ServiceSpawn, ServiceRefused,
            ServiceRecord, ServicesUp
<1>4. \A s \in Sessions : StaysOver(s)
  BY <1>2 DEF StaysOver
<1> QED BY <1>1, <1>2, <1>3, <1>4, ForgetKept

\* A stop is asked for: the session has an owner and so a capture, and nobody is about
\* to note it.
LEMMA StopAsked ==
    ASSUME TypeInv, StopInv, ForgetInv, NEW c \in Calls, StopCapture(c)
    PROVE  ForgetInv'
<1>1. PICK s \in Sessions :
        /\ session[s] # "none"
        /\ Step(c, "idle", [Idle EXCEPT !.pc = "ensure", !.op = "stop", !.src = session[s],
                                        !.sid = s])
  BY DEF StopCapture
<1>2. UNCHANGED <<session, at, cap, proc, gw>>
  BY DEF StopCapture, sourceVars, captureVars
<1>3. /\ call'[c].pc = "ensure" /\ call'[c].op = "stop" /\ call'[c].src = session[s]
      /\ call'[c].sid = s
      /\ \A d \in Calls : d # c => call'[d] = call[d]
  <2> DEFINE n == [Idle EXCEPT !.pc = "ensure", !.op = "stop", !.src = session[s], !.sid = s]
  <2>1. n.pc = "ensure" /\ n.op = "stop" /\ n.src = session[s] /\ n.sid = s
    BY IdleType DEF Handlers
  <2>2. Step(c, "idle", n)
    BY <1>1
  <2> HIDE DEF n
  <2> QED BY <2>1, <2>2, StepFacts
<1>4. cap[s] # "none"
  BY <1>1 DEF StopInv, Owned
<1>5. StopMeans'
  BY <1>2, <1>3, <1>4 DEF ForgetInv, StopMeans
<1>6. StartsNew'
  BY <1>1, <1>2, <1>3 DEF ForgetInv, StartsNew, Starts
<1> QED BY <1>5, <1>6 DEF ForgetInv

\* A capture begins under a session nobody knows.
LEMMA StartForgets ==
    ASSUME TypeInv, StopInv, ForgetInv, NEW c \in Calls, StartRpc(c)
    PROVE  ForgetInv'
<1>1. PICK s \in Sessions :
        /\ cap[s] = "none"
        /\ cap' = [cap EXCEPT ![s] = "running"]
        /\ at' = [at EXCEPT ![s] = call[c].held]
        /\ Step(c, "rpc", [call[c] EXCEPT !.pc = "started", !.sid = s])
  BY DEF StartRpc, Fresh
<1>2. call[c].op = "start" /\ UNCHANGED <<session, proc, gw>>
  BY DEF StartRpc, sourceVars
<1>3. /\ call'[c].pc = "started" /\ call'[c].op = "start" /\ call'[c].sid = s
      /\ \A d \in Calls : d # c => call'[d] = call[d]
  <2> DEFINE n == [call[c] EXCEPT !.pc = "started", !.sid = s]
  <2>1. call[c] \in Handlers
    BY DEF TypeInv, TypeOK
  <2>2. n.pc = "started" /\ n.op = call[c].op /\ n.sid = s
    BY <2>1 DEF Handlers
  <2>3. Step(c, "rpc", n)
    BY <1>1
  <2> HIDE DEF n
  <2> QED BY <1>2, <2>2, <2>3, StepFacts
<1>4. session[s] = "none"
  BY <1>1 DEF StopInv, Owned
<1>5. \A x \in Sessions : x # s => cap'[x] = cap[x] /\ at'[x] = at[x]
  BY <1>1 DEF TypeInv, TypeOK
<1>6. \A d \in Calls : Starts(d) \/ call[d].op = "stop" => call[d].sid # s
  BY <1>1 DEF StopInv, StartsAt, ForgetInv, StopMeans, Starts
<1>7. StopMeans'
  BY <1>2, <1>3, <1>5, <1>6 DEF ForgetInv, StopMeans
<1>8. StartsNew'
  BY <1>2, <1>3, <1>4, <1>6 DEF ForgetInv, StartsNew, Starts
<1> QED BY <1>7, <1>8 DEF ForgetInv

\* The session is noted, or forgotten.
LEMMA NotedForgets ==
    ASSUME TypeInv, StopInv, ForgetInv, NEW c \in Calls, Record(c) \/ Unmap(c) \/ StopLost(c)
    PROVE  ForgetInv'
<1>1. UNCHANGED <<at, cap, proc, gw>>
  BY DEF Record, Unmap, StopLost, sourceVars, captureVars
<1>2. /\ call'[c] = Idle /\ Idle.pc = "idle" /\ Idle.op = "none"
      /\ \A d \in Calls : d # c => call'[d] = call[d]
  BY ReturnFacts DEF Record, Unmap, StopLost, Idle
<1>3. session \in [Sessions -> Sources \cup {"none"}]
  BY DEF TypeInv, TypeOK
<1>4. CASE Record(c)
  <2>1. Starts(c) /\ session' = [session EXCEPT ![call[c].sid] = call[c].src]
    BY <1>4, ReturnFacts DEF Record, Starts
  <2>2. \A x \in Sessions : x # call[c].sid => session'[x] = session[x]
    BY <1>3, <2>1
  <2>3. \A d \in Calls : d # c /\ (Starts(d) \/ call[d].op = "stop") => call[d].sid # call[c].sid
    BY <2>1 DEF ForgetInv, StartsNew
  <2>4. \A d \in Calls : Starts(d) => call[d].sid \in Sessions
    BY DEF TypeInv, Equipped, Starts
  <2>5. StopMeans'
    BY <1>1, <1>2, <2>2, <2>3 DEF ForgetInv, StopMeans
  <2>6. StartsNew'
    BY <1>2, <2>2, <2>3, <2>4 DEF ForgetInv, StartsNew, Starts
  <2> QED BY <2>5, <2>6 DEF ForgetInv
<1>5. CASE Unmap(c) \/ StopLost(c)
  <2>1. \A x \in Sessions : session'[x] \in {session[x], "none"}
    BY <1>3, <1>5 DEF Unmap, StopLost
  <2>2. \A d \in Calls : Starts(d) => call[d].sid \in Sessions
    BY DEF TypeInv, Equipped, Starts
  <2>3. StopMeans'
    BY <1>1, <1>2, <2>1 DEF ForgetInv, StopMeans
  <2>4. StartsNew'
    BY <1>2, <2>1, <2>2 DEF ForgetInv, StartsNew, Starts
  <2> QED BY <2>3, <2>4 DEF ForgetInv
<1> QED BY <1>4, <1>5

\* A stop that the source takes, or answers, while the gateway runs finds the capture
\* running no more, or its source gone: the connection it used is the one the capture
\* was started at.
LEMMA StoppedForgets ==
    ASSUME TypeInv, StopInv, ForgetInv, NEW c \in Calls, StopRpc(c) \/ StopIdle(c)
    PROVE  ForgetInv'
<1> DEFINE s == call[c].sid
<1>1. /\ call[c].pc = "rpc" /\ call'[c].pc \in {"stopping", "unmap"}
      /\ call[c].op = "stop" /\ Same(c)
      /\ \A d \in Calls : d # c => call'[d] = call[d]
  BY GoFacts DEF StopRpc, StopIdle, Same
<1>2. UNCHANGED <<session, at, proc, gw>>
  BY DEF StopRpc, StopIdle, sourceVars
<1>3. s \in Sessions /\ cap[s] # "none" /\ session[s] \in {call[c].src, "none"}
  BY <1>1 DEF ForgetInv, StopMeans
<1>4. \A x \in Sessions : StaysOver(x)
  BY DEF StopRpc, StopIdle, TypeInv, TypeOK, StaysOver
<1>5. session[s] # "none" /\ gw = "up" => cap'[s] # "running" \/ proc[at[s]] \notin Usable
  <2> SUFFICES ASSUME session[s] # "none", gw = "up", proc[at[s]] \in Usable
               PROVE  cap'[s] # "running"
    OBVIOUS
  <2>1. conns[keyOf(session[s])] = at[s]
    BY <1>3 DEF StopInv, Owned
  <2>2. conns[keyOf(call[c].src)] = call[c].held
    BY <1>1 DEF StopInv, UsesCached, Uses
  <2>3. call[c].held = at[s]
    BY <1>3, <2>1, <2>2
  <2>4. CASE StopRpc(c)
    BY <1>3, <2>4 DEF StopRpc, TypeInv, TypeOK
  <2>5. CASE StopIdle(c)
    BY <2>3, <2>5 DEF StopIdle, reached
  <2> QED BY <2>4, <2>5
<1>6. StopMeans'
  <2> SUFFICES ASSUME NEW d \in Calls
               PROVE  /\ call'[d].pc \in {"stopping", "unmap"} => call'[d].op = "stop"
                      /\ call'[d].op = "stop" =>
                           /\ call'[d].sid \in Sessions /\ cap'[call'[d].sid] # "none"
                           /\ session[call'[d].sid] \in {call'[d].src, "none"}
                           /\ call'[d].pc \in {"stopping", "unmap"}
                                /\ session[call'[d].sid] # "none" /\ gw = "up" =>
                                 \/ cap'[call'[d].sid] # "running"
                                 \/ proc[at[call'[d].sid]] \notin Usable
    BY <1>2 DEF StopMeans
  <2>1. CASE d = c
    BY <1>1, <1>3, <1>4, <1>5, <2>1 DEF Same, StaysOver
  <2>2. CASE d # c
    BY <1>1, <1>4, <2>2 DEF ForgetInv, StopMeans, StaysOver
  <2> QED BY <2>1, <2>2
<1>7. StartsNew'
  BY <1>1, <1>2 DEF ForgetInv, StartsNew, Starts, Same
<1> QED BY <1>6, <1>7 DEF ForgetInv

\* The gateway's shutdown, the services, and what happens at the sources.
LEMMA OutsideForgets ==
    ASSUME TypeInv, StopInv, ForgetInv,
           StopService \/ (\E i \in SvcProcs : ServiceReap(i)) \/ Environment
             \/ (\E i \in Conns : Kill(i)) \/ CloseBegin \/ Closing \/ UNCHANGED vars
    PROVE  ForgetInv'
<1> USE DEF sourceVars, captureVars, serviceVars
<1>1. ASSUME call' = call PROVE \A d \in Calls : Keeps(d)
  BY <1>1 DEF Keeps, Same, Starts
<1>2. call' = call /\ UNCHANGED <<session, at>> /\ (gw' = "up" => gw = "up")
  BY DEF StopService, ServiceReap, reaped, Environment, ServiceExit, StopOver, SelfEnd, SelfEnded,
         ShutdownStop, ShutdownExit, Crash, Kill, CloseBegin, Closing, CloseConn, closed, CloseDone,
         ServicesClose, Exit, vars
<1>3. \A s \in Sessions : StaysOver(s)
  <2>1. cap \in [Sessions -> Captures]
    BY DEF TypeInv, TypeOK
  <2>2. CASE cap' = cap
    BY <2>2 DEF StaysOver
  <2>3. ASSUME NEW s, NEW to \in {"ending", "closed", "failed"}, cap' = [cap EXCEPT ![s] = to]
        PROVE  \A x \in Sessions : StaysOver(x)
    BY <2>1, <2>3 DEF StaysOver
  <2>4. \/ cap' = cap
        \/ \E s : \E to \in {"ending", "closed", "failed"} : cap' = [cap EXCEPT ![s] = to]
    <3>1. ASSUME NEW s \in Sessions, StopOver(s) \/ SelfEnd(s) \/ SelfEnded(s)
          PROVE  \E to \in {"ending", "closed", "failed"} : cap' = [cap EXCEPT ![s] = to]
      BY <3>1 DEF StopOver, SelfEnd, SelfEnded
    <3>2. ASSUME NEW i \in Conns, ShutdownStop(i)
          PROVE  \/ cap' = cap
                 \/ \E s : \E to \in {"ending", "closed", "failed"} : cap' = [cap EXCEPT ![s] = to]
      <4>1. PICK s \in stopping[i], to \in {"closed", "ending", "failed"} :
              cap' = [cap EXCEPT ![s] = IF cap[s] = "running" THEN to ELSE cap[s]]
        BY <3>2 DEF ShutdownStop
      <4>2. CASE cap[s] = "running"
        BY <4>1, <4>2
      <4>3. CASE cap[s] # "running"
        BY <2>1, <4>1, <4>3
      <4> QED BY <4>2, <4>3
    <3>3. CASE \/ StopService \/ \E i \in SvcProcs : ServiceReap(i) \/ ServiceExit(i)
               \/ \E i \in Conns : ShutdownExit(i) \/ Crash(i) \/ Kill(i)
               \/ CloseBegin \/ Closing \/ UNCHANGED vars
      BY <3>3 DEF StopService, ServiceReap, reaped, ServiceExit, ShutdownExit, Crash, Kill,
           CloseBegin, Closing, CloseConn, closed, CloseDone, ServicesClose, Exit, vars
    <3> QED BY <3>1, <3>2, <3>3 DEF Environment
  <2> QED BY <2>2, <2>3, <2>4
<1>4. \A j \in Conns : proc[j] \notin {"unused", "starting"} \cup Usable => proc'[j] \notin Usable
  <2>1. CASE CloseBegin
    BY <2>1 DEF CloseBegin
  <2>2. CASE ~CloseBegin
    <3>1. OnlyEnds
      BY <2>2, OutsideFacts
    <3> QED BY <3>1 DEF OnlyEnds, Live, Usable
  <2> QED BY <2>1, <2>2
<1> QED BY <1>1, <1>2, <1>3, <1>4, ForgetKept

\* Every step keeps the invariant.
LEMMA ForgetStep == ASSUME TypeInv, StopInv, ForgetInv, [Next]_vars PROVE ForgetInv'
<1>1. ASSUME NEW c \in Calls, Request(c) \/ StopCapture(c) \/ StartService(c) \/ Handler(c)
      PROVE  ForgetInv'
  BY <1>1, HandlersForget, StopAsked, StartForgets, NotedForgets, StoppedForgets DEF Handler
<1> QED BY <1>1, OutsideForgets DEF Next, Rest

\* Only a stop forgets a session, when it is answered or lost.
LEMMA OnlyStopsForget ==
    ASSUME TypeInv, StopInv, ForgetInv, [Next]_vars, NEW s \in Sessions, gw = "up",
           session[s] # "none", session'[s] = "none"
    PROVE  cap[s] # "running" \/ proc[at[s]] \notin Usable \/ \E c \in Calls : StopLost(c)
<1> USE DEF sourceVars, captureVars, serviceVars
<1>1. ASSUME NEW c \in Calls, Unmap(c)
      PROVE  cap[s] # "running" \/ proc[at[s]] \notin Usable
  <2>1. /\ call[c].pc \in {"stopping", "unmap"}
        /\ session' = [session EXCEPT ![call[c].sid] = "none"]
    BY <1>1, ReturnFacts DEF Unmap
  <2>2. s = call[c].sid
    BY <2>1 DEF TypeInv, TypeOK
  <2> QED BY <2>1, <2>2 DEF ForgetInv, StopMeans
<1>2. ASSUME NEW c \in Calls, Record(c) PROVE FALSE
  <2>1. call[c].pc = "record" /\ session' = [session EXCEPT ![call[c].sid] = call[c].src]
    BY <1>2, ReturnFacts DEF Record
  <2>2. Starts(c)
    BY <2>1 DEF Starts
  <2>3. call[c].sid = s
    BY <2>1 DEF TypeInv, TypeOK
  <2> QED BY <2>2, <2>3 DEF ForgetInv, StartsNew
<1>3. CASE session' = session
  BY <1>3
<1>4. ASSUME NEW c \in Calls, Request(c) \/ StopCapture(c) \/ StartService(c) \/ Handler(c),
             ~Record(c), ~Unmap(c), ~StopLost(c)
      PROVE  session' = session
  BY <1>4 DEF Handler, Request, StopCapture, StartService, Ensure, Spawn, SpawnRefused, SpawnReady,
         SpawnFailed, Store, Dropped, Answered, StartRpc, Track, StartLost, StopRpc, StopIdle,
         ServiceCheck, ServiceSpawn, ServiceRefused, ServiceRecord, ServicesUp
<1>5. CASE StopService \/ (\E i \in SvcProcs : ServiceReap(i)) \/ Environment
             \/ (\E i \in Conns : Kill(i)) \/ CloseBegin \/ Closing \/ UNCHANGED vars
  <2>1. session' = session
    BY <1>5 DEF StopService, ServiceReap, reaped, Environment, ServiceExit, StopOver, SelfEnd,
         SelfEnded, ShutdownStop, ShutdownExit, Crash, Kill, CloseBegin, Closing, CloseConn, closed,
         CloseDone, ServicesClose, Exit, vars
  <2> QED BY <2>1
<1> QED BY <1>1, <1>2, <1>3, <1>4, <1>5 DEF Next, Rest

\* While the gateway runs, a session whose stop was answered is forgotten only with its
\* capture running no more or its source gone, whatever calls race for it: the safety
\* half of TablesFollow (sourcemgr/manager.go StopCapture).
THEOREM ForgottenOnlyWhenAnswered == Spec => ForgottenWhenAnswered
<1>1. Init => TypeInv /\ HeldInv /\ StopInv /\ ForgetInv
  <2>1. Init => ForgetInv
    BY DEF Init, Idle, ForgetInv, StopMeans, StartsNew, Starts
  <2> QED BY <2>1, TypeInit, StopInit
<1>2. TypeInv /\ HeldInv /\ StopInv /\ ForgetInv /\ [Next]_vars =>
        (TypeInv /\ HeldInv /\ StopInv /\ ForgetInv)'
  BY TypeStep, HeldStep, StopStep, ForgetStep
<1>3. TypeInv /\ StopInv /\ ForgetInv /\ [Next]_vars =>
        [\A s \in Sessions :
           (gw = "up" /\ session[s] # "none" /\ session'[s] = "none") =>
              \/ cap[s] # "running"
              \/ proc[at[s]] \notin Usable
              \/ \E c \in Calls : StopLost(c)]_vars
  BY OnlyStopsForget
<1> QED BY <1>1, <1>2, <1>3, PTL DEF Spec, ForgottenWhenAnswered

=============================================================================
