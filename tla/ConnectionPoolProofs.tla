------------------------ MODULE ConnectionPoolProofs ------------------------
(***************************************************************************)
(* TLAPS proofs about ConnectionPool, for every set of clients, monitor    *)
(* runs and connections and every configuration the code accepts: the      *)
(* typing invariant, NoRequestLost, TimerMeansQueued, OnlyFillStrands,     *)
(* IdleOnce, OnlyFailedCloseLeaks, OnlyLateReturnUnlists,                  *)
(* OnlyPingedIsShared and KeepsDesk; and, of what the tests and documents  *)
(* say and the code refutes, when ExclusiveUse and QueuedCanTimeOut hold.  *)
(***************************************************************************)
EXTENDS ConnectionPool, ListLemmas, FiniteSetTheorems

-----------------------------------------------------------------------------
(***************************************************************************)
(* Types.  Each part of the state that an action leaves alone stays typed, *)
(* and so does what each operator the actions share writes.                *)
(***************************************************************************)
LEMMA InitTyped == Init => TypeOK
<1> SUFFICES ASSUME Init PROVE TypeOK
  OBVIOUS
<1>1. PoolTypes /\ DriverTypes /\ ShutdownTypes
  BY DEF Init, PoolTypes, DriverTypes, ShutdownTypes
<1>2. QueueTypes
  BY DEF Init, QueueTypes, ServicePC
<1>3. ClientTypes
  BY DEF Init, ClientTypes, ClientPC, HandPC, PutPC, GetPC
<1>4. CreateTypes
  <2>1. 0 \in 0..RetryAttempts
    BY ConfigAssumption DEF ValidConfig
  <2> QED
    BY <2>1 DEF Init, CreateTypes
<1>5. InitTypes /\ MonitorTypes
  BY DEF Init, InitTypes, MonitorTypes, RunPC
<1> QED
  BY <1>1, <1>2, <1>3, <1>4, <1>5 DEF TypeOK

LEMMA SameTyped ==
    ASSUME TypeOK
    PROVE  /\ UNCHANGED pool => PoolTypes'
           /\ UNCHANGED queue => QueueTypes'
           /\ UNCHANGED client => ClientTypes'
           /\ UNCHANGED create => CreateTypes'
           /\ UNCHANGED <<left, init>> => InitTypes'
           /\ UNCHANGED monitor => MonitorTypes'
           /\ UNCHANGED driver => DriverTypes'
           /\ UNCHANGED shutdown => ShutdownTypes'
<1>1. UNCHANGED pool => PoolTypes'
  BY DEF TypeOK, PoolTypes, pool
<1>2. UNCHANGED queue => QueueTypes'
  BY DEF TypeOK, QueueTypes, queue
<1>3. UNCHANGED client => ClientTypes'
  BY DEF TypeOK, ClientTypes, client
<1>4. UNCHANGED create => CreateTypes'
  BY DEF TypeOK, CreateTypes, create
<1>5. UNCHANGED <<left, init>> => InitTypes'
  BY DEF TypeOK, InitTypes
<1>6. UNCHANGED monitor => MonitorTypes'
  BY DEF TypeOK, MonitorTypes, monitor
<1>7. UNCHANGED driver => DriverTypes'
  BY DEF TypeOK, DriverTypes, driver
<1>8. UNCHANGED shutdown => ShutdownTypes'
  BY DEF TypeOK, ShutdownTypes, shutdown
<1> QED
  BY <1>1, <1>2, <1>3, <1>4, <1>5, <1>6, <1>7, <1>8

\* What a client and a block of processWaitingQueue have in hand.
LEMMA HandTyped ==
    ASSUME TypeOK, NEW k \in Clients
    PROVE  /\ pc[k] \in HandPC => conn[k] \in Conns
           /\ srv[k] # "none" => srvConn[k] \in Conns
  BY DEF TypeOK, ClientTypes, QueueTypes

LEMMA GotoTyped ==
    ASSUME TypeOK, NEW k \in Clients, NEW l \in ClientPC,
           NEW c \in Conns \cup {None}, l \in HandPC => c \in Conns, Goto(k, l, c)
    PROVE  ClientTypes'
  BY NamesAssumption DEF TypeOK, ClientTypes, Goto

LEMMA ServiceGotoTyped ==
    ASSUME TypeOK, NEW k \in Clients, srv[k] # "none",
           NEW l \in ServicePC, ServiceGoto(k, l), UNCHANGED <<waitingQueue, timer>>
    PROVE  QueueTypes'
  BY DEF TypeOK, QueueTypes, ServiceGoto

LEMMA CreateTyped ==
    ASSUME TypeOK, NEW p \in Creators, BeginCreate(p) \/ EndCreate(p)
    PROVE  CreateTypes'
<1>1. 0 \in 0..RetryAttempts
  BY ConfigAssumption DEF ValidConfig
<1> QED
  BY <1>1 DEF TypeOK, CreateTypes, BeginCreate, EndCreate

LEMMA DriverTyped ==
    ASSUME TypeOK, NEW c \in Conns, NEW b,
           Lend(c) \/ CallRelease(c) \/ CloseReturns(c, b) \/ CloseThrows(c)
    PROVE  DriverTypes'
  BY DEF TypeOK, DriverTypes, Lend, CallRelease, CloseReturns, CloseThrows

LEMMA ListsTyped ==
    ASSUME TypeOK, NEW c \in Conns
    PROVE  /\ RemoveFirst(idle, c) \in Seq(Conns) /\ WithIdle(c) \in Seq(Conns)
           /\ Append(idle, c) \in Seq(Conns)
           /\ RemoveInvalid(c) \/ PushIdle(c) => PoolTypes'
  BY RemoveFirstElements
  DEF TypeOK, PoolTypes, WithIdle, RemoveInvalid, PushIdle

\* processWaitingQueue keeps the lists typed and gives every block a connection.
LEMMA ProcessTyped ==
    ASSUME TypeOK, NEW q \in Seq(Clients), NEW i \in Seq(Conns),
           NEW s \in [Clients -> ServicePC],
           \A k \in Clients : s[k] # "none" => srv[k] # "none",
           ProcessWaitingQueue(q, i, s)
    PROVE  QueueTypes' /\ idle' \in Seq(Conns)
<1> USE DEF TypeOK, QueueTypes
<1>1. CASE q = <<>> \/ i = <<>>
  BY <1>1 DEF ProcessWaitingQueue
<1>2. CASE q # <<>> /\ i # <<>>
  <2>1. Head(q) \in Clients /\ Tail(q) \in Seq(Clients)
    BY <1>2, TailElements
  <2>2. Head(i) \in Conns /\ Tail(i) \in Seq(Conns) /\ Head(i) # None
    BY <1>2, TailElements, NamesAssumption
  <2>3. Validate(Head(i), "ping", "drop") \in ServicePC
    BY DEF Validate, ServicePC
  <2> QED
    BY <1>2, <2>1, <2>2, <2>3 DEF ProcessWaitingQueue
<1> QED
  BY <1>1, <1>2

LEMMA ServeEndTyped ==
    ASSUME TypeOK, NEW k \in Clients
    PROVE  /\ [srv EXCEPT ![k] = "none"] \in [Clients -> ServicePC]
           /\ \A j \in Clients : [srv EXCEPT ![k] = "none"][j] # "none"
                                    => srv[j] # "none"
  BY DEF TypeOK, QueueTypes, ServicePC

LEMMA GetTyped ==
    ASSUME TypeOK, NEW k \in Clients, Get(k) PROVE TypeOK'
<1> USE SameTyped DEF TypeOK
<1>a. k \in Creators /\ {"loop", "getPing", "getDrop", "getRelease", "create",
                         "waiting", "out", "using"} \subseteq ClientPC
  BY DEF Creators, ClientPC, GetPC
<1>b. {"getPing", "getDrop", "getRelease", "using"} \subseteq HandPC
      /\ HandPC \cap {"loop", "create", "waiting", "out"} = {}
  BY DEF HandPC, PutPC
<1>1. CASE GetConnection(k) \/ GetLoop(k)
  <2>1. Acquire(k)
    BY <1>1 DEF GetConnection, GetLoop
  <2>2. ClientTypes'
    <3>1. CASE CheckIdle(k)
      <4>1. Head(idle) \in Conns
        BY <3>1, TailElements DEF CheckIdle, PoolTypes
      <4>2. Validate(Head(idle), "getPing", "getDrop") \in {"getPing", "getDrop"}
        BY DEF Validate
      <4> QED
        BY <1>a, <1>b, <3>1, <4>1, <4>2, GotoTyped DEF CheckIdle
    <3>2. CASE CreateNew(k)
      BY <1>a, <1>b, <3>2, GotoTyped DEF CreateNew
    <3>3. CASE Wait(k)
      BY <1>a, <1>b, <3>3, GotoTyped DEF Wait
    <3> QED
      BY <2>1, <3>1, <3>2, <3>3 DEF Acquire
  <2>3. QueueTypes'
    <3>1. CASE Wait(k)
      <4>1. Append(waitingQueue, k) \in Seq(Clients)
        BY DEF QueueTypes
      <4> QED
        BY <3>1, <4>1 DEF Wait, QueueTypes
    <3>2. CASE CheckIdle(k) \/ CreateNew(k)
      BY <3>2 DEF CheckIdle, CreateNew
    <3> QED
      BY <2>1, <3>1, <3>2 DEF Acquire
  <2>4. CreateTypes'
    BY <1>a, <2>1, CreateTyped DEF Acquire, CheckIdle, CreateNew, Wait
  <2> QED
    BY <2>1, <2>2, <2>3, <2>4 DEF Acquire, CheckIdle, CreateNew, Wait
<1>2. CASE GetValid(k)
  <2>1. conn[k] \in Conns
    BY <1>2, <1>b, HandTyped DEF GetValid
  <2>2. ClientTypes'
    BY <1>2, <1>a, <2>1, GotoTyped DEF GetValid
  <2>3. PoolTypes'
    BY <1>2, <2>1, ListsTyped DEF GetValid, PoolTypes
  <2> QED
    BY <1>2, <2>2, <2>3 DEF GetValid
<1>3. CASE GetInvalid(k)
  <2>1. conn[k] \in Conns
    BY <1>3, <1>b, HandTyped DEF GetInvalid
  <2>2. ClientTypes'
    BY <1>3, <1>a, <2>1, GotoTyped DEF GetInvalid
  <2> QED
    BY <1>3, <2>2 DEF GetInvalid
<1>4. CASE GetRelease(k)
  <2>1. conn[k] \in Conns
    BY <1>4, <1>b, HandTyped DEF GetRelease
  <2>2. ClientTypes' /\ DriverTypes'
    BY <1>4, <1>a, <2>1, GotoTyped, DriverTyped DEF GetRelease
  <2> QED
    BY <1>4, <2>2 DEF GetRelease
<1>5. CASE GetDropped(k)
  <2>1. conn[k] \in Conns
    BY <1>5, <1>b, HandTyped DEF GetDropped
  <2>2. ClientTypes' /\ DriverTypes' /\ PoolTypes'
    BY <1>5, <1>a, <1>b, <2>1, GotoTyped, DriverTyped, ListsTyped DEF GetDropped
  <2> QED
    BY <1>5, <2>2 DEF GetDropped
<1>6. CASE GetDropFails(k)
  <2>1. conn[k] \in Conns
    BY <1>6, <1>b, HandTyped DEF GetDropFails
  <2>2. ClientTypes' /\ DriverTypes'
    BY <1>6, <1>a, <1>b, <2>1, GotoTyped, DriverTyped DEF GetDropFails
  <2> QED
    BY <1>6, <2>2 DEF GetDropFails
<1>7. CASE GetCreated(k)
  <2>1. PICK c \in Conns : /\ Lend(c) /\ connections' = connections \cup {c}
                           /\ Goto(k, "using", c)
    BY <1>7 DEF GetCreated, Connected
  <2>2. ClientTypes' /\ DriverTypes'
    BY <1>a, <2>1, GotoTyped, DriverTyped
  <2>3. CreateTypes' /\ PoolTypes'
    BY <1>7, <1>a, <2>1, CreateTyped DEF GetCreated, PoolTypes
  <2> QED
    BY <1>7, <2>2, <2>3 DEF GetCreated
<1>8. CASE GetCreateFails(k)
  <2>1. ClientTypes' /\ CreateTypes'
    BY <1>8, <1>a, <1>b, GotoTyped, CreateTyped DEF GetCreateFails
  <2> QED
    BY <1>8, <2>1 DEF GetCreateFails
<1>9. CASE GetTimesOut(k)
  <2>1. RemoveFirst(waitingQueue, k) \in Seq(Clients)
    BY RemoveFirstElements DEF QueueTypes
  <2>2. ClientTypes' /\ QueueTypes'
    BY <1>9, <1>a, <1>b, <2>1, GotoTyped DEF GetTimesOut, QueueTypes
  <2> QED
    BY <1>9, <2>2 DEF GetTimesOut
<1> QED
  BY <1>1, <1>2, <1>3, <1>4, <1>5, <1>6, <1>7, <1>8, <1>9 DEF Get

LEMMA ServeTyped ==
    ASSUME TypeOK, NEW k \in Clients, Serve(k) PROVE TypeOK'
<1> USE SameTyped DEF TypeOK
<1> DEFINE c == srvConn[k]
<1>a. {"out", "using"} \subseteq ClientPC /\ {"drop", "release"} \subseteq ServicePC
      /\ "out" \notin HandPC
  BY DEF ClientPC, ServicePC, HandPC, PutPC
<1>b. c \in Conns /\ srv[k] # "none"
  <2>1. srv[k] # "none"
    BY DEF Serve, ServeValid, ServeInvalid, ServeRelease, ServeDropped, ServeDropFails
  <2> QED
    BY <2>1, HandTyped
<1>c. RemoveFirst(idle, c) \in Seq(Conns) /\ idle \in Seq(Conns)
      /\ waitingQueue \in Seq(Clients) /\ Cons(k, waitingQueue) \in Seq(Clients)
      /\ connections \cup {c} \subseteq Conns /\ connections \ {c} \subseteq Conns
  BY <1>b, ListsTyped, ConsElements DEF PoolTypes, QueueTypes
<1>1. CASE ServeValid(k)
  <2>1. ClientTypes'
    BY <1>1, <1>a, <1>b, GotoTyped DEF ServeValid
  <2>2. QueueTypes' /\ idle' \in Seq(Conns)
    BY <1>1, <1>c, ServeEndTyped, ProcessTyped DEF ServeValid
  <2> QED
    BY <1>1, <1>c, <2>1, <2>2 DEF ServeValid, PoolTypes
<1>2. CASE ServeInvalid(k)
  <2>1. QueueTypes'
    BY <1>2, <1>a, <1>b, ServiceGotoTyped DEF ServeInvalid
  <2> QED
    BY <1>2, <2>1 DEF ServeInvalid
<1>3. CASE ServeRelease(k)
  <2>1. QueueTypes' /\ DriverTypes'
    BY <1>3, <1>a, <1>b, ServiceGotoTyped, DriverTyped DEF ServeRelease
  <2> QED
    BY <1>3, <2>1 DEF ServeRelease
<1>4. CASE ServeDropped(k)
  <2>1. QueueTypes' /\ idle' \in Seq(Conns)
    BY <1>4, <1>c, ServeEndTyped, ProcessTyped DEF ServeDropped
  <2>2. DriverTypes'
    BY <1>4, <1>b, DriverTyped DEF ServeDropped
  <2> QED
    BY <1>4, <1>c, <2>1, <2>2 DEF ServeDropped, PoolTypes
<1>5. CASE ServeDropFails(k)
  <2>1. QueueTypes' /\ idle' \in Seq(Conns)
    BY <1>5, <1>c, ServeEndTyped, ProcessTyped DEF ServeDropFails
  <2>2. DriverTypes' /\ ClientTypes'
    BY <1>5, <1>a, <1>b, DriverTyped, GotoTyped DEF ServeDropFails
  <2> QED
    BY <1>5, <1>c, <2>1, <2>2 DEF ServeDropFails, PoolTypes
<1> QED
  BY <1>1, <1>2, <1>3, <1>4, <1>5 DEF Serve

LEMMA PutTyped ==
    ASSUME TypeOK, NEW k \in Clients, GiveBack(k) \/ Put(k) PROVE TypeOK'
<1> USE SameTyped DEF TypeOK
<1> DEFINE c == conn[k]
<1>a. {"out", "putPing", "putDrop", "putRelease"} \subseteq ClientPC
      /\ "out" \notin HandPC
  BY DEF ClientPC, HandPC, PutPC
<1>b. c \in Conns
  <2>1. pc[k] \in HandPC
    BY DEF GiveBack, Put, ReleaseConnection, ReleaseRefused, PutValid, PutDiscard,
           PutRelease, PutDropped, PutDropFails, HandPC, PutPC
  <2> QED
    BY <2>1, HandTyped
<1>c. RemoveFirst(idle, c) \in Seq(Conns) /\ WithIdle(c) \in Seq(Conns)
      /\ waitingQueue \in Seq(Clients) /\ connections \subseteq Conns
      /\ srv \in [Clients -> ServicePC]
  BY <1>b, ListsTyped DEF PoolTypes, QueueTypes
<1>1. CASE ReleaseConnection(k)
  <2>1. Validate(c, "putPing", "putDrop") \in {"putPing", "putDrop"}
    BY DEF Validate
  <2>2. ClientTypes'
    BY <1>1, <1>a, <1>b, <2>1, GotoTyped DEF ReleaseConnection
  <2> QED
    BY <1>1, <2>2 DEF ReleaseConnection
<1>2. CASE ReleaseRefused(k)
  <2>1. ClientTypes'
    BY <1>2, <1>a, GotoTyped DEF ReleaseRefused
  <2> QED
    BY <1>2, <2>1 DEF ReleaseRefused
<1>3. CASE PutValid(k)
  <2>1. ClientTypes'
    BY <1>3, <1>a, GotoTyped DEF PutValid
  <2>2. QueueTypes' /\ idle' \in Seq(Conns)
    BY <1>3, <1>c, ProcessTyped DEF PutValid
  <2> QED
    BY <1>3, <1>c, <2>1, <2>2 DEF PutValid, PoolTypes
<1>4. CASE PutDiscard(k)
  <2>1. ClientTypes'
    BY <1>4, <1>a, <1>b, GotoTyped DEF PutDiscard
  <2> QED
    BY <1>4, <2>1 DEF PutDiscard
<1>5. CASE PutRelease(k)
  <2>1. ClientTypes' /\ DriverTypes'
    BY <1>5, <1>a, <1>b, GotoTyped, DriverTyped DEF PutRelease
  <2> QED
    BY <1>5, <2>1 DEF PutRelease
<1>6. CASE PutDropped(k)
  <2>1. ClientTypes' /\ DriverTypes'
    BY <1>6, <1>a, <1>b, GotoTyped, DriverTyped DEF PutDropped
  <2>2. QueueTypes' /\ idle' \in Seq(Conns)
    BY <1>6, <1>c, ProcessTyped DEF PutDropped
  <2> QED
    BY <1>6, <1>c, <2>1, <2>2 DEF PutDropped, PoolTypes
<1>7. CASE PutDropFails(k)
  <2>1. ClientTypes' /\ DriverTypes'
    BY <1>7, <1>a, <1>b, GotoTyped, DriverTyped DEF PutDropFails
  <2> QED
    BY <1>7, <2>1 DEF PutDropFails
<1> QED
  BY <1>1, <1>2, <1>3, <1>4, <1>5, <1>6, <1>7 DEF GiveBack, Put

LEMMA RetryTyped ==
    ASSUME TypeOK, NEW p \in Creators, ConnectRejected(p) \/ RetryDelayOver(p)
    PROVE  TypeOK'
<1> USE SameTyped DEF TypeOK
<1>1. CreateTypes'
  BY ConfigAssumption
  DEF ConnectRejected, RetryDelayOver, CreateTypes, ValidConfig
<1> QED
  BY <1>1 DEF ConnectRejected, RetryDelayOver

LEMMA BootTyped ==
    ASSUME TypeOK, Boots PROVE TypeOK'
<1> USE SameTyped DEF TypeOK
<1>a. Boot \in Fillers /\ Boot \in Creators /\ MinConnections \in Nat
  BY ConfigAssumption DEF Fillers, Creators, ValidConfig
<1>1. CASE Initialize
  <2>1. CreateTypes'
    BY <1>1, <1>a, CreateTyped DEF Initialize
  <2>2. InitTypes'
    BY <1>1, <1>a DEF Initialize, InitTypes
  <2>3. MonitorTypes'
    BY <1>1 DEF Initialize, MonitorTypes
  <2> QED
    BY <1>1, <2>1, <2>2, <2>3 DEF Initialize
<1>2. CASE BootCreated
  <2>1. PICK c \in Conns : Lend(c) /\ PushIdle(c)
    BY <1>2 DEF BootCreated, Connected
  <2>2. DriverTypes' /\ PoolTypes'
    BY <2>1, DriverTyped, ListsTyped
  <2>3. CreateTypes'
    BY <1>2, <1>a, CreateTyped DEF BootCreated
  <2>4. InitTypes'
    BY <1>2, <1>a DEF BootCreated, InitTypes
  <2>5. MonitorTypes'
    BY <1>2 DEF BootCreated, MonitorTypes
  <2> QED
    BY <1>2, <2>2, <2>3, <2>4, <2>5 DEF BootCreated
<1>3. CASE BootFails
  <2>1. CreateTypes' /\ InitTypes'
    BY <1>3, <1>a, CreateTyped DEF BootFails, InitTypes
  <2> QED
    BY <1>3, <2>1 DEF BootFails
<1> QED
  BY <1>1, <1>2, <1>3 DEF Boots

LEMMA FillTyped ==
    ASSUME TypeOK, NEW r \in Runs, mpc[r] # "release", FillNext(r),
           UNCHANGED <<init, ticking, sweep, todo, sweeping>>
    PROVE  CreateTypes' /\ InitTypes' /\ MonitorTypes'
<1>1. r \in Creators /\ r \in Fillers
  BY DEF Creators, Fillers
<1>2. CreateTypes'
  BY <1>1, CreateTyped DEF FillNext
<1>3. InitTypes' /\ MonitorTypes'
  BY <1>1 DEF FillNext, TypeOK, InitTypes, MonitorTypes, RunPC
<1> QED
  BY <1>2, <1>3

LEMMA MonitorTyped ==
    ASSUME TypeOK, NEW r \in Runs, Monitoring(r) PROVE TypeOK'
<1> USE SameTyped DEF TypeOK
<1>a. r \in Creators /\ r \in Fillers
  BY DEF Creators, Fillers
<1>1. CASE Tick(r)
  <2>1. ToSet(idle) \subseteq Conns
    BY DEF PoolTypes, ToSet
  <2>2. MonitorTypes'
    BY <1>1, <2>1 DEF Tick, MonitorTypes, RunPC
  <2> QED
    BY <1>1, <2>2 DEF Tick
<1>2. CASE SweepRelease(r)
  <2>1. PICK c \in todo[r] :
            CallRelease(c) /\ sweeping' = [sweeping EXCEPT ![r] = c]
    BY <1>2 DEF SweepRelease
  <2>2. c \in Conns
    BY DEF MonitorTypes
  <2>3. DriverTypes'
    BY <2>1, <2>2, DriverTyped
  <2>4. MonitorTypes'
    BY <1>2, <2>1, <2>2, NamesAssumption DEF SweepRelease, MonitorTypes, RunPC
  <2> QED
    BY <1>2, <2>3, <2>4 DEF SweepRelease
<1>3. CASE SweepDropped(r)
  <2>1. PICK c \in todo[r] : /\ CloseReturns(c, mpc[r] = "release")
                             /\ RemoveInvalid(c)
                             /\ todo' = [todo EXCEPT ![r] = @ \ {c}]
    BY <1>3 DEF SweepDropped
  <2>2. c \in Conns
    BY DEF MonitorTypes
  <2>3. DriverTypes' /\ PoolTypes'
    BY <2>1, <2>2, DriverTyped, ListsTyped
  <2>4. MonitorTypes'
    BY <1>3, <2>1, NamesAssumption DEF SweepDropped, MonitorTypes, RunPC
  <2> QED
    BY <1>3, <2>3, <2>4 DEF SweepDropped
<1>4. CASE SweepDropFails(r)
  <2>1. sweeping[r] \in Conns
    BY <1>4 DEF SweepDropFails, MonitorTypes
  <2>2. DriverTypes'
    BY <1>4, <2>1, DriverTyped DEF SweepDropFails
  <2>3. MonitorTypes'
    BY <1>4, NamesAssumption DEF SweepDropFails, MonitorTypes, RunPC
  <2> QED
    BY <1>4, <2>2, <2>3 DEF SweepDropFails
<1>5. CASE SweepExpired(r)
  <2>1. MonitorTypes'
    BY <1>5 DEF SweepExpired, MonitorTypes, PoolTypes
  <2> QED
    BY <1>5, <2>1 DEF SweepExpired
<1>6. CASE EnsureMin(r)
  <2>1. Cardinality(connections) \in Nat
    BY NamesAssumption, FS_Subset, FS_CardinalityType DEF PoolTypes
  <2>2. Cardinality(connections) < MinConnections
            => MinConnections - Cardinality(connections) \in Nat
    BY <2>1, ConfigAssumption DEF ValidConfig
  <2>3. CreateTypes'
    BY <1>6, <1>a, CreateTyped DEF EnsureMin
  <2>4. InitTypes'
    BY <1>6, <1>a, <2>2 DEF EnsureMin, InitTypes
  <2>5. MonitorTypes'
    BY <1>6 DEF EnsureMin, MonitorTypes, RunPC
  <2> QED
    BY <1>6, <2>3, <2>4, <2>5 DEF EnsureMin
<1>7. CASE FillCreated(r)
  <2>1. PICK c \in Conns : Lend(c) /\ PushIdle(c)
    BY <1>7 DEF FillCreated, Connected
  <2>2. DriverTypes' /\ PoolTypes'
    BY <2>1, DriverTyped, ListsTyped
  <2>3. CreateTypes' /\ InitTypes' /\ MonitorTypes'
    BY <1>7, FillTyped DEF FillCreated
  <2> QED
    BY <1>7, <2>2, <2>3 DEF FillCreated
<1>8. CASE FillFails(r)
  <2>1. CreateTypes' /\ InitTypes' /\ MonitorTypes'
    BY <1>8, FillTyped DEF FillFails
  <2> QED
    BY <1>8, <2>1 DEF FillFails
<1> QED
  BY <1>1, <1>2, <1>3, <1>4, <1>5, <1>6, <1>7, <1>8 DEF Monitoring

LEMMA ShutdownTyped ==
    ASSUME TypeOK, Destroy \/ Shutdown PROVE TypeOK'
<1> USE SameTyped DEF TypeOK
<1>1. CASE Destroy
  <2>1. ClientTypes'
    BY <1>1 DEF Destroy, ClientTypes, ClientPC, HandPC, PutPC
  <2>2. QueueTypes'
    BY <1>1 DEF Destroy, QueueTypes
  <2>3. ShutdownTypes' /\ MonitorTypes'
    BY <1>1 DEF Destroy, ShutdownTypes, MonitorTypes, PoolTypes
  <2>4. Cardinality(dpending') \in Nat
    BY <2>3, NamesAssumption, FS_Subset, FS_CardinalityType DEF ShutdownTypes
  <2>5. DriverTypes'
    BY <1>1, <2>3, <2>4 DEF Destroy, DriverTypes, ShutdownTypes
  <2> QED
    BY <1>1, <2>1, <2>2, <2>3, <2>5 DEF Destroy
<1>2. CASE DestroyCloseReturns \/ DestroyCloseThrows
  <2>1. PICK c \in dpending : /\ CloseReturns(c, TRUE) \/ CloseThrows(c)
                              /\ dpending' = dpending \ {c}
    BY <1>2 DEF DestroyCloseReturns, DestroyCloseThrows
  <2>2. DriverTypes'
    BY <2>1, DriverTyped DEF ShutdownTypes
  <2>3. ShutdownTypes'
    BY <1>2, <2>1 DEF DestroyCloseReturns, DestroyCloseThrows, ShutdownTypes
  <2> QED
    BY <1>2, <2>2, <2>3 DEF DestroyCloseReturns, DestroyCloseThrows
<1>3. CASE DestroyEnd
  <2>1. PoolTypes' /\ ShutdownTypes'
    BY <1>3 DEF DestroyEnd, PoolTypes, ShutdownTypes
  <2> QED
    BY <1>3, <2>1 DEF DestroyEnd
<1>4. CASE DestroyReturns
  <2>1. ShutdownTypes'
    BY <1>4 DEF DestroyReturns, ShutdownTypes
  <2> QED
    BY <1>4, <2>1 DEF DestroyReturns
<1> QED
  BY <1>1, <1>2, <1>3, <1>4 DEF Shutdown

\* Typing holds in every state the pool reaches.
THEOREM Typing == Spec => []TypeOK
<1>1. TypeOK /\ [Next]_vars => TypeOK'
  <2> SUFFICES ASSUME TypeOK, [Next]_vars PROVE TypeOK'
    OBVIOUS
  <2>1. CASE Next
    BY <2>1, GetTyped, ServeTyped, PutTyped, RetryTyped, BootTyped, MonitorTyped,
       ShutdownTyped DEF Next
  <2>2. CASE UNCHANGED vars
    BY <2>2, SameTyped DEF vars, TypeOK
  <2> QED
    BY <2>1, <2>2
<1> QED
  BY <1>1, InitTyped, PTL DEF Spec

-----------------------------------------------------------------------------
(***************************************************************************)
(* NoRequestLost and TimerMeansQueued are inductive together: a timeout    *)
(* takes its request out of the queue and out of nothing else only because *)
(* no block is serving a request whose timer is armed.                     *)
(***************************************************************************)
Requests == NoRequestLost /\ TimerMeansQueued
Waiting == {k \in Clients : pc[k] = "waiting"}

LEMMA SameRequests ==
    ASSUME Requests, UNCHANGED queue, Waiting' = Waiting
    PROVE  Requests'
  BY DEF Requests, NoRequestLost, TimerMeansQueued, Queued, Served, Waiting, queue

\* A call that neither starts nor ends a wait.
LEMMA GotoWaiting ==
    ASSUME TypeOK, NEW k \in Clients, NEW l, NEW c, Goto(k, l, c)
    PROVE  /\ l # "waiting" => Waiting' = Waiting \ {k}
           /\ l = "waiting" => Waiting' = Waiting \cup {k}
  BY DEF TypeOK, ClientTypes, Goto, Waiting

LEMMA ProcessRequests ==
    ASSUME TypeOK, NEW q \in Seq(Clients), NEW i \in Seq(Conns),
           NEW s \in [Clients -> ServicePC],
           IsInjective(q), \A k \in Clients : timer[k] => k \in ToSet(q),
           \A k \in Clients : s[k] # "none" => k \notin ToSet(q),
           Waiting' = ToSet(q) \cup {k \in Clients : s[k] # "none"},
           ProcessWaitingQueue(q, i, s)
    PROVE  Requests'
<1> USE DEF Requests, NoRequestLost, TimerMeansQueued, Queued, Served, Waiting
<1>1. CASE q = <<>> \/ i = <<>>
  BY <1>1 DEF ProcessWaitingQueue
<1>2. CASE q # <<>> /\ i # <<>>
  <2> DEFINE h == Head(q)
  <2>1. /\ h \in Clients /\ ToSet(q) = ToSet(Tail(q)) \cup {h}
        /\ IsInjective(Tail(q)) /\ h \notin ToSet(Tail(q))
    BY <1>2, TailElements
  <2>2. /\ waitingQueue' = Tail(q) /\ timer' = [timer EXCEPT ![h] = FALSE]
        /\ srv' = [s EXCEPT ![h] = Validate(Head(i), "ping", "drop")]
    BY <1>2 DEF ProcessWaitingQueue
  <2>3. Served' = {k \in Clients : s[k] # "none"} \cup {h}
    BY <2>1, <2>2 DEF Validate
  <2>4. Queued' = ToSet(q) \ {h}
    BY <2>1, <2>2
  <2>5. Queued' \cap Served' = {}
    BY <2>3, <2>4
  <2>6. Waiting' = Queued' \cup Served'
    BY <2>1, <2>3, <2>4
  <2>7. \A k \in Clients : timer'[k] => k \in Queued'
    BY <2>1, <2>2, <2>4 DEF TypeOK, QueueTypes
  <2>8. IsInjective(waitingQueue')
    BY <2>1, <2>2
  <2> QED
    BY <2>5, <2>6, <2>7, <2>8
<1> QED
  BY <1>1, <1>2

LEMMA GetRequests ==
    ASSUME TypeOK, Requests, NEW k \in Clients, Get(k) PROVE Requests'
<1>1. CASE GetConnection(k) \/ GetLoop(k)
  <2>1. Acquire(k) /\ k \notin Waiting
    BY <1>1 DEF GetConnection, GetLoop, Waiting
  <2>2. CASE CheckIdle(k)
    <3>1. Validate(Head(idle), "getPing", "getDrop") # "waiting"
      BY DEF Validate
    <3> QED
      BY <2>1, <2>2, <3>1, GotoWaiting, SameRequests DEF CheckIdle
  <2>3. CASE CreateNew(k)
    <3>1. \E l : l # "waiting" /\ Goto(k, l, None)
      BY <2>3 DEF CreateNew
    <3>2. UNCHANGED queue
      BY <2>3 DEF CreateNew
    <3> QED
      BY <2>1, <3>1, <3>2, GotoWaiting, SameRequests
  <2>4. CASE Wait(k)
    <3>1. Waiting' = Waiting \cup {k}
      BY <2>4, GotoWaiting DEF Wait
    <3>2. k \notin Queued /\ k \notin Served
      BY <2>1 DEF Requests, NoRequestLost, Waiting
    <3>3. /\ Queued' = Queued \cup {k} /\ IsInjective(waitingQueue')
          /\ Served' = Served
      BY <2>4, <3>2, AppendElements
      DEF Wait, TypeOK, QueueTypes, Queued, Served, Requests, NoRequestLost
    <3>4. TimerMeansQueued'
      BY <2>4, <3>3 DEF Wait, Requests, TimerMeansQueued, TypeOK, QueueTypes
    <3> QED
      BY <3>1, <3>2, <3>3, <3>4 DEF Requests, NoRequestLost, Waiting
  <2> QED
    BY <2>1, <2>2, <2>3, <2>4 DEF Acquire
<1>2. CASE GetTimesOut(k)
  <2>1. Waiting' = Waiting \ {k}
    BY <1>2, GotoWaiting DEF GetTimesOut
  <2>2. k \in Queued /\ k \notin Served
    BY <1>2 DEF GetTimesOut, Requests, NoRequestLost, TimerMeansQueued
  <2>3. /\ Queued' = Queued \ {k} /\ IsInjective(waitingQueue')
        /\ Served' = Served
    BY <1>2, RemoveFirstElements
    DEF GetTimesOut, TypeOK, QueueTypes, Queued, Served, Requests, NoRequestLost
  <2>4. TimerMeansQueued'
    BY <1>2, <2>3 DEF GetTimesOut, Requests, TimerMeansQueued, TypeOK, QueueTypes
  <2> QED
    BY <2>1, <2>2, <2>3, <2>4 DEF Requests, NoRequestLost, Waiting
<1>3. CASE GetValid(k) \/ GetInvalid(k) \/ GetRelease(k) \/ GetDropped(k)
             \/ GetDropFails(k) \/ GetCreated(k) \/ GetCreateFails(k)
  <2>1. k \notin Waiting /\ UNCHANGED queue
    BY <1>3 DEF GetValid, GetInvalid, GetRelease, GetDropped, GetDropFails,
                GetCreated, GetCreateFails, Waiting
  <2>2. \E l, c : l # "waiting" /\ Goto(k, l, c)
    BY <1>3 DEF GetValid, GetInvalid, GetRelease, GetDropped, GetDropFails,
                GetCreated, GetCreateFails
  <2> QED
    BY <2>1, <2>2, GotoWaiting, SameRequests
<1> QED
  BY <1>1, <1>2, <1>3 DEF Get

LEMMA ServeRequests ==
    ASSUME TypeOK, Requests, NEW k \in Clients, Serve(k) PROVE Requests'
<1> DEFINE c == srvConn[k]
           s == [srv EXCEPT ![k] = "none"]
<1>1. k \in Served /\ k \in Waiting /\ k \notin Queued /\ c \in Conns
  <2>1. srv[k] # "none"
    BY DEF Serve, ServeValid, ServeInvalid, ServeRelease, ServeDropped, ServeDropFails
  <2> QED
    BY <2>1, HandTyped DEF Requests, NoRequestLost, Served, Waiting
<1>2. /\ s \in [Clients -> ServicePC]
      /\ {j \in Clients : s[j] # "none"} = Served \ {k}
  BY ServeEndTyped DEF TypeOK, QueueTypes, Served
<1>3. /\ waitingQueue \in Seq(Clients) /\ idle \in Seq(Conns)
      /\ RemoveFirst(idle, c) \in Seq(Conns)
  BY <1>1, ListsTyped DEF TypeOK, QueueTypes, PoolTypes
<1> HIDE DEF s
<1>4. CASE ServeValid(k) \/ ServeDropFails(k)
  <2>1. Waiting' = Queued \cup (Served \ {k})
    <3>1. Waiting' = Waiting \ {k}
      BY <1>4, GotoWaiting DEF ServeValid, ServeDropFails
    <3> QED
      BY <1>1, <3>1 DEF Requests, NoRequestLost, Waiting
  <2>2. PICK i \in Seq(Conns) : ProcessWaitingQueue(waitingQueue, i, s)
    BY <1>3, <1>4 DEF ServeValid, ServeDropFails, s
  <2>3. /\ IsInjective(waitingQueue)
        /\ \A j \in Clients : timer[j] => j \in ToSet(waitingQueue)
        /\ \A j \in Clients : s[j] # "none" => j \notin ToSet(waitingQueue)
    BY <1>2 DEF Requests, NoRequestLost, TimerMeansQueued, Queued
  <2> QED
    BY <1>2, <1>3, <2>1, <2>2, <2>3, ProcessRequests DEF Queued
<1>5. CASE ServeInvalid(k) \/ ServeRelease(k)
  <2>1. Served' = Served
    BY <1>1, <1>5 DEF ServeInvalid, ServeRelease, ServiceGoto, Served, TypeOK, QueueTypes
  <2> QED
    BY <1>5, <2>1 DEF ServeInvalid, ServeRelease, Requests, NoRequestLost,
                      TimerMeansQueued, Queued, client
<1>6. CASE ServeDropped(k)
  <2> DEFINE q == Cons(k, waitingQueue)
  <2>1. /\ q \in Seq(Clients) /\ ToSet(q) = Queued \cup {k} /\ IsInjective(q)
    BY <1>1, <1>3, ConsElements DEF Queued, Requests, NoRequestLost
  <2>2. ProcessWaitingQueue(q, RemoveFirst(idle, c), s)
    BY <1>6 DEF ServeDropped, s
  <2> HIDE DEF q
  <2>3. Waiting' = ToSet(q) \cup (Served \ {k})
    <3>1. Waiting' = Waiting
      BY <1>6 DEF ServeDropped, client, Waiting
    <3>2. Waiting = Queued \cup Served
      BY DEF Waiting, Requests, NoRequestLost
    <3> QED
      BY <1>1, <2>1, <3>1, <3>2
  <2>4. /\ \A j \in Clients : timer[j] => j \in ToSet(q)
        /\ \A j \in Clients : s[j] # "none" => j \notin ToSet(q)
    BY <1>2, <2>1 DEF Requests, NoRequestLost, TimerMeansQueued
  <2> QED
    BY <1>2, <1>3, <2>1, <2>2, <2>3, <2>4, ProcessRequests
<1> QED
  BY <1>4, <1>5, <1>6 DEF Serve

LEMMA PutRequests ==
    ASSUME TypeOK, Requests, NEW k \in Clients, GiveBack(k) \/ Put(k)
    PROVE  Requests'
<1>1. k \notin Waiting
  BY DEF GiveBack, Put, ReleaseConnection, ReleaseRefused, PutValid, PutDiscard,
         PutRelease, PutDropped, PutDropFails, Waiting
<1>2. Waiting' = Waiting
  <2>1. \E l, c : l # "waiting" /\ Goto(k, l, c)
    BY DEF GiveBack, Put, ReleaseConnection, ReleaseRefused, PutValid, PutDiscard,
           PutRelease, PutDropped, PutDropFails, Validate
  <2> QED
    BY <1>1, <2>1, GotoWaiting
<1>3. CASE PutValid(k) \/ PutDropped(k)
  <2>1. conn[k] \in Conns
    BY <1>3, HandTyped DEF PutValid, PutDropped, HandPC, PutPC
  <2>2. PICK i \in Seq(Conns) : ProcessWaitingQueue(waitingQueue, i, srv)
    BY <1>3, <2>1, ListsTyped DEF PutValid, PutDropped
  <2>3. /\ IsInjective(waitingQueue) /\ waitingQueue \in Seq(Clients)
        /\ srv \in [Clients -> ServicePC]
        /\ \A j \in Clients : timer[j] => j \in ToSet(waitingQueue)
        /\ \A j \in Clients : srv[j] # "none" => j \notin ToSet(waitingQueue)
        /\ Waiting' = ToSet(waitingQueue) \cup {j \in Clients : srv[j] # "none"}
    BY <1>2 DEF Requests, NoRequestLost, TimerMeansQueued, Queued, Served, Waiting,
                TypeOK, QueueTypes
  <2> QED
    BY <2>2, <2>3, ProcessRequests
<1>4. CASE ~(PutValid(k) \/ PutDropped(k))
  <2>1. UNCHANGED queue
    BY <1>4 DEF GiveBack, Put, ReleaseConnection, ReleaseRefused, PutDiscard,
                PutRelease, PutDropFails
  <2> QED
    BY <1>2, <2>1, SameRequests
<1> QED
  BY <1>3, <1>4

LEMMA DestroyRequests ==
    ASSUME TypeOK, Requests, Destroy PROVE Requests'
<1>1. \A k \in Clients : Contains(waitingQueue, k) <=> k \in Queued
  BY DEF Contains, Queued, ToSet, TypeOK, QueueTypes
<1>2. Waiting' = Waiting \ Queued /\ Served' = Served
  BY <1>1 DEF Destroy, Waiting, Served
<1>3. Queued' = {} /\ IsInjective(waitingQueue')
  BY DEF Destroy, Queued, ToSet, IsInjective
<1>4. \A k \in Clients : ~timer'[k]
  BY <1>1 DEF Destroy, Requests, TimerMeansQueued
<1> QED
  BY <1>2, <1>3, <1>4
  DEF Requests, NoRequestLost, TimerMeansQueued, Waiting

\* What touches neither the queue nor a client's call.
LEMMA OtherStepsLeaveRequests ==
    ASSUME \/ \E p \in Creators : ConnectRejected(p) \/ RetryDelayOver(p)
           \/ Boots \/ (\E r \in Runs : Monitoring(r)) \/ Shutdown
    PROVE  UNCHANGED <<queue, client>>
<1>1. ASSUME NEW p \in Creators, ConnectRejected(p) \/ RetryDelayOver(p)
      PROVE  UNCHANGED <<queue, client>>
  BY <1>1 DEF ConnectRejected, RetryDelayOver
<1>2. CASE Boots
  BY <1>2 DEF Boots, Initialize, BootCreated, BootFails
<1>3. ASSUME NEW r \in Runs, Monitoring(r) PROVE UNCHANGED <<queue, client>>
  BY <1>3 DEF Monitoring, Tick, SweepRelease, SweepDropped, SweepDropFails,
              SweepExpired, EnsureMin, FillCreated, FillFails
<1>4. CASE Shutdown
  BY <1>4 DEF Shutdown, DestroyCloseReturns, DestroyCloseThrows, DestroyEnd,
              DestroyReturns
<1> QED
  BY <1>1, <1>2, <1>3, <1>4

LEMMA RequestsStep == TypeOK /\ Requests /\ [Next]_vars => Requests'
<1> SUFFICES ASSUME TypeOK, Requests, [Next]_vars PROVE Requests'
  OBVIOUS
<1>1. ASSUME UNCHANGED <<queue, client>> PROVE Requests'
  BY <1>1, SameRequests DEF Waiting, client
<1>2. CASE Next
  BY <1>1, <1>2, GetRequests, ServeRequests, PutRequests, DestroyRequests,
     OtherStepsLeaveRequests DEF Next
<1>3. CASE UNCHANGED vars
  BY <1>1, <1>3 DEF vars
<1> QED
  BY <1>2, <1>3

LEMMA InitRequests == Init => Requests
  BY DEF Init, Requests, NoRequestLost, TimerMeansQueued, Queued, Served, ToSet,
         IsInjective

\* A pending getConnection is queued or being served, in one place only.
THEOREM RequestsNeverLost == Spec => []NoRequestLost
<1>1. Requests => NoRequestLost
  BY DEF Requests
<1> QED
  BY <1>1, Typing, InitRequests, RequestsStep, PTL DEF Spec

\* An armed timer means a queued request.
THEOREM TimersMeanQueued == Spec => []TimerMeansQueued
<1>1. Requests => TimerMeansQueued
  BY DEF Requests
<1> QED
  BY <1>1, Typing, InitRequests, RequestsStep, PTL DEF Spec

-----------------------------------------------------------------------------
(***************************************************************************)
(* OnlyFillStrands.  Before initialize is over no client is in a call, so  *)
(* its pushes strand nobody; afterwards each step that pushes to one list  *)
(* takes from both before it ends.                                         *)
(***************************************************************************)
Quiet == init # "ready" =>
            waitingQueue = <<>> /\ \A k \in Clients : pc[k] = "out" /\ srv[k] = "none"

LEMMA QuietStep == TypeOK /\ Quiet /\ [Next]_vars => Quiet'
<1> SUFFICES ASSUME TypeOK, Quiet, [Next]_vars PROVE Quiet'
  OBVIOUS
<1>1. CASE init = "ready"
  <2>1. init' = "ready"
    BY <1>1 DEF Next, vars, Get, GetConnection, GetLoop, Acquire, GetValid, GetInvalid,
        GetRelease, GetDropped, GetDropFails, GetCreated, GetCreateFails, GetTimesOut,
        Serve, ServeValid, ServeInvalid, ServeRelease, ServeDropped, ServeDropFails,
        GiveBack, ReleaseConnection, ReleaseRefused, Put, PutValid, PutDiscard,
        PutRelease, PutDropped, PutDropFails, ConnectRejected, RetryDelayOver,
        Boots, Initialize, BootCreated, BootFails, Monitoring, Tick, SweepRelease,
        SweepDropped, SweepDropFails, SweepExpired, EnsureMin, FillCreated, FillFails,
        Destroy, Shutdown, DestroyCloseReturns, DestroyCloseThrows, DestroyEnd,
        DestroyReturns
  <2> QED
    BY <2>1 DEF Quiet
<1>2. CASE init # "ready"
  <2>1. ASSUME NEW k \in Clients PROVE ~(Get(k) \/ Serve(k) \/ GiveBack(k) \/ Put(k))
    BY <1>2 DEF Quiet, Get, GetConnection, GetLoop, GetValid, GetInvalid, GetRelease,
        GetDropped, GetDropFails, GetCreated, GetCreateFails, GetTimesOut, Serve,
        ServeValid, ServeInvalid, ServeRelease, ServeDropped, ServeDropFails, GiveBack,
        ReleaseConnection, ReleaseRefused, Put, PutValid, PutDiscard, PutRelease,
        PutDropped, PutDropFails
  <2>2. CASE Destroy
    BY <1>2, <2>2 DEF Quiet, Destroy
  <2>3. CASE UNCHANGED <<queue, client>>
    BY <1>2, <2>3 DEF Quiet, queue, client
  <2> QED
    BY <2>1, <2>2, <2>3, OtherStepsLeaveRequests DEF Next, vars
<1> QED
  BY <1>1, <1>2

\* processWaitingQueue leaves nobody stranded unless it had two of each.
LEMMA ProcessMatches ==
    ASSUME NEW q \in Seq(Clients), NEW i \in Seq(Conns), NEW s,
           ProcessWaitingQueue(q, i, s),
           q = <<>> \/ i = <<>> \/ Tail(q) = <<>> \/ Tail(i) = <<>>
    PROVE  ~Stranded'
  BY DEF ProcessWaitingQueue, Stranded

LEMMA EmptyLists ==
    ASSUME NEW S, NEW e
    PROVE  /\ RemoveFirst(<<>>, e) = <<>>
           /\ e \in S => Tail(Append(<<>>, e)) = <<>> /\ Tail(Cons(e, <<>>)) = <<>>
<1>1. RemoveFirst(<<>>, e) = <<>>
  BY DEF RemoveFirst
<1>2. ASSUME e \in S PROVE Tail(Append(<<>>, e)) = <<>> /\ Tail(Cons(e, <<>>)) = <<>>
  <2>1. <<>> \in Seq(S)
    OBVIOUS
  <2>2. Tail(Cons(e, <<>>)) = <<>>
    BY <1>2, <2>1, ConsElements
  <2>3. Append(<<>>, e) \in Seq(S) /\ Len(Append(<<>>, e)) = 1
    BY <1>2, <2>1
  <2>4. Tail(Append(<<>>, e)) \in Seq(S) /\ Len(Tail(Append(<<>>, e))) = 0
    BY <2>3
  <2> QED
    BY <2>2, <2>4
<1> QED
  BY <1>1, <1>2

LEMMA ClientStrands ==
    ASSUME TypeOK, NEW k \in Clients, ~Stranded,
           Get(k) \/ Serve(k) \/ GiveBack(k) \/ Put(k)
    PROVE  ~Stranded'
<1> USE DEF Stranded
<1>a. waitingQueue \in Seq(Clients) /\ idle \in Seq(Conns)
  BY DEF TypeOK, QueueTypes, PoolTypes
<1>1. CASE GetConnection(k) \/ GetLoop(k)
  BY <1>1 DEF GetConnection, GetLoop, Acquire, CheckIdle, CreateNew, Wait, pool, queue
<1>2. CASE GetValid(k) \/ GetDropped(k)
  <2>1. idle' = RemoveFirst(idle, conn[k]) /\ waitingQueue' = waitingQueue
    BY <1>2 DEF GetValid, GetDropped, RemoveInvalid, queue
  <2> QED
    BY <2>1, EmptyLists
<1>3. CASE GetTimesOut(k)
  BY <1>3, EmptyLists DEF GetTimesOut, pool
<1>4. CASE GetInvalid(k) \/ GetRelease(k) \/ GetDropFails(k) \/ GetCreated(k)
             \/ GetCreateFails(k)
  BY <1>4 DEF GetInvalid, GetRelease, GetDropFails, GetCreated, GetCreateFails,
              pool, queue
<1>5. CASE Serve(k)
  <2>1. srvConn[k] \in Conns
    BY <1>5, HandTyped DEF Serve, ServeValid, ServeInvalid, ServeRelease,
                           ServeDropped, ServeDropFails
  <2>2. RemoveFirst(idle, srvConn[k]) \in Seq(Conns) /\ Cons(k, waitingQueue) \in Seq(Clients)
    BY <1>a, <2>1, ListsTyped, ConsElements
  <2>3. CASE ServeValid(k)
    BY <1>a, <2>3, ProcessMatches DEF ServeValid
  <2>4. CASE ServeInvalid(k) \/ ServeRelease(k)
    BY <2>4 DEF ServeInvalid, ServeRelease, pool
  <2>5. CASE ServeDropped(k)
    <3>1. ProcessWaitingQueue(Cons(k, waitingQueue), RemoveFirst(idle, srvConn[k]),
                              [srv EXCEPT ![k] = "none"])
      BY <2>5 DEF ServeDropped
    <3>2. RemoveFirst(idle, srvConn[k]) = <<>> \/ Tail(Cons(k, waitingQueue)) = <<>>
      BY EmptyLists
    <3> QED
      BY <2>2, <3>1, <3>2, ProcessMatches
  <2>6. CASE ServeDropFails(k)
    <3>1. ProcessWaitingQueue(waitingQueue, RemoveFirst(idle, srvConn[k]),
                              [srv EXCEPT ![k] = "none"])
      BY <2>6 DEF ServeDropFails
    <3>2. RemoveFirst(idle, srvConn[k]) = <<>> \/ waitingQueue = <<>>
      BY EmptyLists
    <3> QED
      BY <1>a, <2>2, <3>1, <3>2, ProcessMatches
  <2> QED
    BY <1>5, <2>3, <2>4, <2>5, <2>6 DEF Serve
<1>6. CASE GiveBack(k) \/ PutDiscard(k) \/ PutRelease(k) \/ PutDropFails(k)
  BY <1>6 DEF GiveBack, ReleaseConnection, ReleaseRefused, PutDiscard, PutRelease,
              PutDropFails, pool, queue
<1>7. CASE PutValid(k) \/ PutDropped(k)
  <2>1. conn[k] \in Conns
    BY <1>7, HandTyped DEF PutValid, PutDropped, HandPC, PutPC
  <2>2. RemoveFirst(idle, conn[k]) \in Seq(Conns) /\ WithIdle(conn[k]) \in Seq(Conns)
    BY <2>1, ListsTyped
  <2>3. waitingQueue # <<>> => idle = <<>> /\ RemoveFirst(idle, conn[k]) = <<>>
    BY EmptyLists
  <2>4. idle = <<>> => Tail(WithIdle(conn[k])) = <<>>
    BY <2>1, EmptyLists DEF WithIdle, Contains
  <2>5. CASE PutValid(k)
    <3>1. ProcessWaitingQueue(waitingQueue, WithIdle(conn[k]), srv)
      BY <2>5 DEF PutValid
    <3> QED
      BY <1>a, <2>2, <2>3, <2>4, <3>1, ProcessMatches
  <2>6. CASE PutDropped(k)
    <3>1. ProcessWaitingQueue(waitingQueue, RemoveFirst(idle, conn[k]), srv)
      BY <2>6 DEF PutDropped
    <3> QED
      BY <1>a, <2>2, <2>3, <3>1, ProcessMatches
  <2> QED
    BY <1>7, <2>5, <2>6
<1> QED
  BY <1>1, <1>2, <1>3, <1>4, <1>5, <1>6, <1>7 DEF Get, Put

LEMMA StrandsStep ==
    ASSUME TypeOK, Quiet, [Next]_vars, ~Stranded, \A r \in Runs : ~FillCreated(r)
    PROVE  ~Stranded'
<1> USE DEF Stranded
<1>1. ASSUME NEW p \in Creators, ConnectRejected(p) \/ RetryDelayOver(p)
      PROVE  ~Stranded'
  BY <1>1 DEF ConnectRejected, RetryDelayOver, pool, queue
<1>2. CASE Boots
  <2>1. waitingQueue = <<>>
    BY <1>2 DEF Boots, Initialize, BootCreated, BootFails, Quiet
  <2>2. waitingQueue' = waitingQueue
    BY <1>2, OtherStepsLeaveRequests DEF queue
  <2> QED
    BY <2>1, <2>2
<1>3. ASSUME NEW r \in Runs, Monitoring(r) PROVE ~Stranded'
  <2>1. waitingQueue' = waitingQueue
    BY <1>3, OtherStepsLeaveRequests DEF queue
  <2>2. idle' = idle \/ \E c : idle' = RemoveFirst(idle, c)
    <3>1. CASE SweepDropped(r)
      BY <3>1 DEF SweepDropped, RemoveInvalid
    <3>2. CASE ~SweepDropped(r)
      BY <1>3, <3>2 DEF Monitoring, Tick, SweepRelease, SweepDropFails,
                        SweepExpired, EnsureMin, FillFails, pool
    <3> QED
      BY <3>1, <3>2
  <2> QED
    BY <2>1, <2>2, EmptyLists
<1>4. CASE Destroy
  BY <1>4 DEF Destroy
<1>5. CASE Shutdown
  BY <1>5 DEF Shutdown, DestroyCloseReturns, DestroyCloseThrows, DestroyEnd,
              DestroyReturns, pool, queue
<1>6. CASE UNCHANGED vars
  BY <1>6 DEF vars, pool, queue
<1> QED
  BY <1>1, <1>2, <1>3, <1>4, <1>5, <1>6, ClientStrands DEF Next

\* Only ensureMinConnections leaves a request waiting beside an idle connection.
THEOREM OnlyTopUpStrands == Spec => OnlyFillStrands
<1>1. Init => Quiet
  BY DEF Init, Quiet
<1>2. TypeOK /\ Quiet /\ [Next]_vars
        => [Stranded' => Stranded \/ \E r \in Runs : FillCreated(r)]_vars
  BY StrandsStep
<1>3. TypeOK /\ Quiet /\ [Next]_vars => Quiet'
  BY QuietStep
<1>4. Spec => []Quiet
  BY <1>1, <1>3, Typing, PTL DEF Spec
<1> QED
  BY <1>2, <1>4, Typing, PTL DEF Spec, OnlyFillStrands

-----------------------------------------------------------------------------
(***************************************************************************)
(* IdleOnce.  An unguarded push lists a connection made in the same step,  *)
(* and the other push looks first; both need that whatever is listed or    *)
(* handled was made before.                                                *)
(***************************************************************************)
Listed(i) == IsInjective(i) /\ ToSet(i) \subseteq made
Handled == \A k \in Clients : {conn[k], srvConn[k]} \subseteq made \cup {None}
Pooled == Listed(idle) /\ Handled

LEMMA ListedShrinks ==
    ASSUME NEW i \in Seq(Conns), Listed(i)
    PROVE  /\ \A e : Listed(RemoveFirst(i, e))
           /\ i # <<>> => Listed(Tail(i)) /\ Head(i) \in made
<1>1. \A e : Listed(RemoveFirst(i, e))
  BY RemoveFirstElements DEF Listed
<1>2. i # <<>> => Listed(Tail(i)) /\ Head(i) \in made
  BY TailElements DEF Listed
<1> QED
  BY <1>1, <1>2

LEMMA ProcessPooled ==
    ASSUME TypeOK, Pooled, NEW q, NEW i \in Seq(Conns), NEW s, Listed(i),
           made' = made, ProcessWaitingQueue(q, i, s),
           \A k \in Clients : conn'[k] \in made \cup {None}
    PROVE  Pooled'
<1>1. CASE q = <<>> \/ i = <<>>
  BY <1>1 DEF ProcessWaitingQueue, Pooled, Listed, Handled
<1>2. CASE q # <<>> /\ i # <<>>
  <2>1. Listed(Tail(i)) /\ Head(i) \in made
    BY <1>2, ListedShrinks
  <2>2. idle' = Tail(i) /\ srvConn' = [srvConn EXCEPT ![Head(q)] = Head(i)]
    BY <1>2 DEF ProcessWaitingQueue
  <2>3. \A k \in Clients : srvConn'[k] \in made \cup {None}
    BY <2>1, <2>2 DEF Pooled, Handled, TypeOK, QueueTypes
  <2> QED
    BY <2>1, <2>2, <2>3 DEF Pooled, Listed, Handled
<1> QED
  BY <1>1, <1>2

LEMMA GotoHandled ==
    ASSUME TypeOK, Pooled, NEW k \in Clients, NEW l, NEW c \in made \cup {None},
           Goto(k, l, c)
    PROVE  \A j \in Clients : conn'[j] \in made \cup {None}
  BY DEF TypeOK, ClientTypes, Goto, Pooled, Handled

LEMMA GetPooled ==
    ASSUME TypeOK, Pooled, NEW k \in Clients, Get(k) PROVE Pooled'
<1>a. idle \in Seq(Conns) /\ conn[k] \in made \cup {None}
  BY DEF TypeOK, PoolTypes, Pooled, Handled
<1>1. CASE GetConnection(k) \/ GetLoop(k)
  <2>1. UNCHANGED <<pool, driver, srvConn>>
    BY <1>1 DEF GetConnection, GetLoop, Acquire, CheckIdle, CreateNew, Wait, queue
  <2>2. \E l : \E c \in made \cup {None} : Goto(k, l, c)
    BY <1>1, <1>a, ListedShrinks
    DEF GetConnection, GetLoop, Acquire, CheckIdle, CreateNew, Wait, Pooled
  <2>3. \A j \in Clients : conn'[j] \in made \cup {None}
    BY <2>2, GotoHandled
  <2> QED
    BY <2>1, <2>3 DEF pool, driver, Pooled, Listed, Handled
<1>2. CASE GetValid(k) \/ GetDropped(k)
  <2>1. /\ idle' = RemoveFirst(idle, conn[k]) /\ made' = made
        /\ UNCHANGED srvConn
    BY <1>2 DEF GetValid, GetDropped, RemoveInvalid, CloseReturns, driver, queue
  <2>2. \A j \in Clients : conn'[j] \in made \cup {None}
    BY <1>2, <1>a, GotoHandled DEF GetValid, GetDropped
  <2>3. Listed(RemoveFirst(idle, conn[k]))
    BY <1>a, ListedShrinks DEF Pooled
  <2> QED
    BY <2>1, <2>2, <2>3 DEF Pooled, Listed, Handled
<1>3. CASE GetCreated(k)
  <2>1. PICK c \in Conns : Lend(c) /\ Goto(k, "using", c)
    BY <1>3 DEF GetCreated, Connected
  <2>2. made' = made \cup {c}
    BY <2>1 DEF Lend
  <2>3. \A j \in Clients : conn'[j] \in made' \cup {None}
    BY <2>1, <2>2 DEF TypeOK, ClientTypes, Goto, Pooled, Handled
  <2>4. idle' = idle /\ srvConn' = srvConn
    BY <1>3 DEF GetCreated, queue
  <2> QED
    BY <2>2, <2>3, <2>4 DEF Pooled, Listed, Handled
<1>4. CASE GetInvalid(k) \/ GetRelease(k) \/ GetDropFails(k) \/ GetCreateFails(k)
             \/ GetTimesOut(k)
  <2>1. idle' = idle /\ made' = made /\ srvConn' = srvConn
    BY <1>4 DEF GetInvalid, GetRelease, GetDropFails, GetCreateFails, GetTimesOut,
                CallRelease, CloseThrows, pool, queue, driver
  <2>2. \A j \in Clients : conn'[j] \in made \cup {None}
    BY <1>4, <1>a, GotoHandled
    DEF GetInvalid, GetRelease, GetDropFails, GetCreateFails, GetTimesOut
  <2> QED
    BY <2>1, <2>2 DEF Pooled, Listed, Handled
<1> QED
  BY <1>1, <1>2, <1>3, <1>4 DEF Get

LEMMA ServePooled ==
    ASSUME TypeOK, Pooled, NEW k \in Clients, Serve(k) PROVE Pooled'
<1> DEFINE c == srvConn[k]
           s == [srv EXCEPT ![k] = "none"]
<1>a. /\ idle \in Seq(Conns) /\ c \in made \cup {None} /\ c \in Conns
      /\ RemoveFirst(idle, c) \in Seq(Conns)
  BY HandTyped, ListsTyped DEF TypeOK, PoolTypes, Pooled, Handled, Serve, ServeValid,
     ServeInvalid, ServeRelease, ServeDropped, ServeDropFails
<1>b. Listed(idle) /\ Listed(RemoveFirst(idle, c))
  BY <1>a, ListedShrinks DEF Pooled
<1>1. CASE ServeValid(k)
  <2>1. \A j \in Clients : conn'[j] \in made \cup {None}
    BY <1>1, <1>a, GotoHandled DEF ServeValid
  <2> QED
    BY <1>1, <1>a, <1>b, <2>1, ProcessPooled DEF ServeValid, driver
<1>2. CASE ServeInvalid(k) \/ ServeRelease(k)
  BY <1>2 DEF ServeInvalid, ServeRelease, CallRelease, ServiceGoto, pool, client,
              driver, Pooled, Listed, Handled
<1>3. CASE ServeDropped(k)
  <2>1. made' = made /\ \A j \in Clients : conn'[j] \in made \cup {None}
    BY <1>3 DEF ServeDropped, CloseReturns, client, Pooled, Handled
  <2>2. ProcessWaitingQueue(Cons(k, waitingQueue), RemoveFirst(idle, c), s)
    BY <1>3 DEF ServeDropped
  <2> QED
    BY <1>a, <1>b, <2>1, <2>2, ProcessPooled
<1>4. CASE ServeDropFails(k)
  <2>1. made' = made /\ \A j \in Clients : conn'[j] \in made \cup {None}
    BY <1>4, GotoHandled DEF ServeDropFails, CloseThrows
  <2>2. ProcessWaitingQueue(waitingQueue, RemoveFirst(idle, c), s)
    BY <1>4 DEF ServeDropFails
  <2> QED
    BY <1>a, <1>b, <2>1, <2>2, ProcessPooled
<1> QED
  BY <1>1, <1>2, <1>3, <1>4 DEF Serve

LEMMA PutPooled ==
    ASSUME TypeOK, Pooled, NEW k \in Clients, GiveBack(k) \/ Put(k) PROVE Pooled'
<1>a. idle \in Seq(Conns) /\ conn[k] \in made \cup {None}
  BY DEF TypeOK, PoolTypes, Pooled, Handled
<1>b. \E l : \E c \in {conn[k], None} : Goto(k, l, c)
  BY DEF GiveBack, ReleaseConnection, ReleaseRefused, Put, PutValid, PutDiscard,
         PutRelease, PutDropped, PutDropFails
<1>c. made' = made /\ \A j \in Clients : conn'[j] \in made \cup {None}
  <2>1. made' = made
    BY DEF GiveBack, ReleaseConnection, ReleaseRefused, Put, PutValid, PutDiscard,
           PutRelease, PutDropped, PutDropFails, CallRelease, CloseReturns,
           CloseThrows, driver
  <2> QED
    BY <1>a, <1>b, <2>1, GotoHandled
<1>1. CASE PutValid(k)
  <2>1. conn[k] \in Conns /\ conn[k] \in made
    BY <1>1, <1>a, HandTyped, NamesAssumption DEF PutValid, HandPC, PutPC
  <2>2. Listed(WithIdle(conn[k])) /\ WithIdle(conn[k]) \in Seq(Conns)
    <3>1. CASE Contains(idle, conn[k])
      BY <1>a, <3>1 DEF WithIdle, Pooled
    <3>2. CASE ~Contains(idle, conn[k])
      <4>1. conn[k] \notin ToSet(idle)
        BY <1>a, <3>2 DEF Contains, ToSet
      <4> QED
        BY <1>a, <2>1, <3>2, <4>1, AppendElements DEF WithIdle, Pooled, Listed
    <3> QED
      BY <3>1, <3>2
  <2> QED
    BY <1>1, <1>c, <2>2, ProcessPooled DEF PutValid
<1>2. CASE PutDropped(k)
  <2>1. conn[k] \in Conns
    BY <1>2, HandTyped DEF PutDropped, HandPC, PutPC
  <2>2. /\ RemoveFirst(idle, conn[k]) \in Seq(Conns)
        /\ Listed(RemoveFirst(idle, conn[k]))
    BY <1>a, <2>1, ListsTyped, ListedShrinks DEF Pooled, TypeOK
  <2> QED
    BY <1>2, <1>c, <2>2, ProcessPooled DEF PutDropped
<1>3. CASE ~(PutValid(k) \/ PutDropped(k))
  <2>1. idle' = idle /\ srvConn' = srvConn
    BY <1>3 DEF GiveBack, ReleaseConnection, ReleaseRefused, Put, PutDiscard,
                PutRelease, PutDropFails, pool, queue
  <2> QED
    BY <1>c, <2>1 DEF Pooled, Listed, Handled
<1> QED
  BY <1>1, <1>2, <1>3

\* The pushes of initialize and ensureMinConnections.
LEMMA PushPooled ==
    ASSUME TypeOK, Pooled, NEW c \in Conns, Lend(c), PushIdle(c),
           UNCHANGED <<conn, srvConn>>
    PROVE  Pooled'
<1>1. idle \in Seq(Conns) /\ c \notin ToSet(idle) /\ made' = made \cup {c}
  BY DEF TypeOK, PoolTypes, Pooled, Listed, Lend
<1>2. IsInjective(idle') /\ ToSet(idle') \subseteq made'
  BY <1>1, AppendElements DEF PushIdle, Pooled, Listed
<1> QED
  BY <1>1, <1>2 DEF Pooled, Listed, Handled

LEMMA OtherPooled ==
    ASSUME TypeOK, Pooled,
           \/ \E p \in Creators : ConnectRejected(p) \/ RetryDelayOver(p)
           \/ Boots \/ (\E r \in Runs : Monitoring(r)) \/ Shutdown
    PROVE  Pooled'
<1>1. UNCHANGED <<conn, srvConn>>
  BY OtherStepsLeaveRequests DEF queue, client
<1>2. ASSUME made' = made, \/ idle' = idle \/ idle' = <<>>
                           \/ \E c : idle' = RemoveFirst(idle, c)
      PROVE  Pooled'
  <2>1. idle \in Seq(Conns)
    BY DEF TypeOK, PoolTypes
  <2>2. Listed(<<>>)
    BY DEF Listed, IsInjective, ToSet
  <2>3. Listed(idle')
    BY <1>2, <2>1, <2>2, ListedShrinks DEF Pooled
  <2> QED
    BY <1>1, <1>2, <2>3 DEF Pooled, Listed, Handled
<1>3. ASSUME NEW p \in Creators, ConnectRejected(p) \/ RetryDelayOver(p)
      PROVE  Pooled'
  BY <1>2, <1>3 DEF ConnectRejected, RetryDelayOver, pool, driver
<1>4. CASE Boots
  <2>1. CASE BootCreated
    BY <1>1, <2>1, PushPooled DEF BootCreated, Connected
  <2>2. CASE Initialize \/ BootFails
    BY <1>2, <2>2 DEF Initialize, BootFails, pool, driver
  <2> QED
    BY <1>4, <2>1, <2>2 DEF Boots
<1>5. ASSUME NEW r \in Runs, Monitoring(r) PROVE Pooled'
  <2>1. CASE FillCreated(r)
    BY <1>1, <2>1, PushPooled DEF FillCreated, Connected
  <2>2. CASE SweepDropped(r)
    BY <1>2, <2>2 DEF SweepDropped, RemoveInvalid, CloseReturns
  <2>3. CASE ~FillCreated(r) /\ ~SweepDropped(r)
    BY <1>2, <1>5, <2>3 DEF Monitoring, Tick, SweepRelease, SweepDropFails,
       SweepExpired, EnsureMin, FillFails, CallRelease, CloseThrows, pool, driver
  <2> QED
    BY <2>1, <2>2, <2>3
<1>6. CASE Shutdown
  BY <1>2, <1>6 DEF Shutdown, DestroyCloseReturns, DestroyCloseThrows, DestroyEnd,
     DestroyReturns, CloseReturns, CloseThrows, pool, driver
<1> QED
  BY <1>3, <1>4, <1>5, <1>6

LEMMA PoolStaysPooled == Spec => []Pooled
<1>1. Init => Pooled
  BY DEF Init, Pooled, Listed, Handled, IsInjective, ToSet
<1>2. TypeOK /\ Pooled /\ [Next]_vars => Pooled'
  <2> SUFFICES ASSUME TypeOK, Pooled, [Next]_vars PROVE Pooled'
    OBVIOUS
  <2>1. CASE Destroy
    BY <2>1 DEF Destroy, pool, Pooled, Listed, Handled
  <2>2. CASE UNCHANGED vars
    BY <2>2 DEF vars, pool, queue, client, driver, Pooled, Listed, Handled
  <2> QED
    BY <2>1, <2>2, GetPooled, ServePooled, PutPooled, OtherPooled DEF Next
<1> QED
  BY <1>1, <1>2, Typing, PTL DEF Spec

\* No connection is listed twice, even when two holders give it back.
THEOREM IdleListedOnce == Spec => []IdleOnce
<1>1. Pooled => IdleOnce
  BY DEF Pooled, Listed, IdleOnce
<1> QED
  BY <1>1, PoolStaysPooled, PTL

-----------------------------------------------------------------------------
(***************************************************************************)
(* OnlyFailedCloseLeaks.  A step that takes a connection out of the idle   *)
(* list puts it in somebody's hands in the same step; one that takes it    *)
(* out of somebody's hands lists it again or takes it out of connections.  *)
(* That the hands are empty whenever a call handles no connection is what  *)
(* makes the first half true: nothing is dropped when they are filled.     *)
(***************************************************************************)
HandOnly == \A k \in Clients : pc[k] \notin HandPC => conn[k] = None
Held == {conn[k] : k \in Clients}
Working(s) == {srvConn[j] : j \in {k \in Clients : s[k] # "none"}}
Kept == ToSet(idle) \cup Held \cup Working(srv)

LEMMA GotoHands ==
    ASSUME TypeOK, HandOnly, NEW k \in Clients, NEW l, NEW c, Goto(k, l, c),
           l \in HandPC \/ c = None
    PROVE  HandOnly'
  BY DEF TypeOK, ClientTypes, Goto, HandOnly

LEMMA HandOnlyStep == TypeOK /\ Requests /\ HandOnly /\ [Next]_vars => HandOnly'
<1> SUFFICES ASSUME TypeOK, Requests, HandOnly, [Next]_vars PROVE HandOnly'
  OBVIOUS
<1>a. {"getPing", "getDrop", "getRelease", "using", "putPing", "putDrop", "putRelease"}
        \subseteq HandPC /\ "waiting" \notin HandPC
  BY DEF HandPC, PutPC
<1>b. ASSUME UNCHANGED client PROVE HandOnly'
  BY <1>b DEF HandOnly, client
<1>1. ASSUME NEW k \in Clients, Get(k) PROVE HandOnly'
  <2>1. \E l, c : Goto(k, l, c) /\ (l \in HandPC \/ c = None)
    <3>1. CASE GetConnection(k) \/ GetLoop(k)
      BY <1>a, <3>1 DEF GetConnection, GetLoop, Acquire, CheckIdle, CreateNew, Wait, Validate
    <3>2. CASE GetCreated(k)
      BY <1>a, <3>2 DEF GetCreated
    <3>3. CASE ~(GetConnection(k) \/ GetLoop(k) \/ GetCreated(k))
      BY <1>1, <1>a, <3>3 DEF Get, GetValid, GetInvalid, GetRelease, GetDropped,
         GetDropFails, GetCreateFails, GetTimesOut
    <3> QED
      BY <3>1, <3>2, <3>3
  <2> QED
    BY <2>1, GotoHands
<1>2. ASSUME NEW k \in Clients, Serve(k) PROVE HandOnly'
  <2>1. CASE ServeValid(k) \/ ServeDropFails(k)
    BY <1>a, <2>1, GotoHands DEF ServeValid, ServeDropFails
  <2>2. CASE ServeInvalid(k) \/ ServeRelease(k) \/ ServeDropped(k)
    BY <1>b, <2>2 DEF ServeInvalid, ServeRelease, ServeDropped
  <2> QED
    BY <1>2, <2>1, <2>2 DEF Serve
<1>3. ASSUME NEW k \in Clients, GiveBack(k) \/ Put(k) PROVE HandOnly'
  <2>1. \E l, c : Goto(k, l, c) /\ (l \in HandPC \/ c = None)
    BY <1>3, <1>a DEF GiveBack, ReleaseConnection, ReleaseRefused, Put, PutValid,
       PutDiscard, PutRelease, PutDropped, PutDropFails, Validate
  <2> QED
    BY <2>1, GotoHands
<1>4. CASE Destroy
  <2>1. \A k \in Clients : Contains(waitingQueue, k) => pc[k] = "waiting"
    BY DEF Contains, ToSet, Queued, Requests, NoRequestLost, TypeOK, QueueTypes
  <2>2. \A k \in Clients : pc'[k] \notin HandPC => pc[k] \notin HandPC
    BY <1>4, <1>a, <2>1 DEF Destroy
  <2> QED
    BY <1>4, <2>2 DEF Destroy, HandOnly
<1> QED
  BY <1>b, <1>1, <1>2, <1>3, <1>4, OtherStepsLeaveRequests DEF Next, vars

\* What is lost was lost before, if what was kept is kept or leaves the lists.
LEMMA KeptIsNotLost ==
    ASSUME TypeOK, connections' \cap (Kept \cup (Conns \ connections)) \subseteq Kept',
           TypeOK'
    PROVE  Lost' \subseteq Lost
<1>1. Employed = Held \cup Working(srv) /\ Employed' = Held' \cup Working(srv)'
  BY DEF Employed, Held, Working
<1>2. \A c : Contains(idle, c) <=> c \in ToSet(idle)
  BY DEF Contains, ToSet, TypeOK, PoolTypes
<1>3. \A c : Contains(idle', c) <=> c \in ToSet(idle')
  BY DEF Contains, ToSet, TypeOK, PoolTypes
<1>4. connections' \subseteq Conns
  BY DEF TypeOK, PoolTypes
<1> QED
  BY <1>1, <1>2, <1>3, <1>4 DEF Lost, Kept

\* One hand lets go of what it holds and takes c; the others hold on.
LEMMA GotoHeld ==
    ASSUME TypeOK, NEW k \in Clients, NEW l, NEW c, Goto(k, l, c)
    PROVE  Held \ {conn[k]} \subseteq Held' /\ c \in Held'
<1>1. conn'[k] = c /\ \A j \in Clients \ {k} : conn'[j] = conn[j]
  BY DEF Goto, TypeOK, ClientTypes
<1> QED
  BY <1>1 DEF Held

\* processWaitingQueue hands over what it shifts to a request no block serves.
LEMMA ProcessKeeps ==
    ASSUME TypeOK, NEW q \in Seq(Clients), NEW i \in Seq(Conns),
           NEW s \in [Clients -> ServicePC],
           \A k \in Clients : s[k] # "none" => k \notin ToSet(q),
           ProcessWaitingQueue(q, i, s)
    PROVE  Working(s) \cup ToSet(i) \subseteq Working(srv)' \cup ToSet(idle')
<1>1. CASE q = <<>> \/ i = <<>>
  BY <1>1 DEF ProcessWaitingQueue, Working
<1>2. CASE q # <<>> /\ i # <<>>
  <2> DEFINE h == Head(q)
  <2>1. h \in Clients /\ h \in ToSet(q) /\ ToSet(i) = ToSet(Tail(i)) \cup {Head(i)}
    BY <1>2, TailElements
  <2>2. /\ srv' = [s EXCEPT ![h] = Validate(Head(i), "ping", "drop")]
        /\ srvConn' = [srvConn EXCEPT ![h] = Head(i)] /\ idle' = Tail(i)
    BY <1>2 DEF ProcessWaitingQueue
  <2>3. srv'[h] # "none" /\ srvConn'[h] = Head(i)
    BY <2>1, <2>2 DEF Validate, TypeOK, QueueTypes
  <2>4. ASSUME NEW j \in Clients, s[j] # "none"
        PROVE  srv'[j] # "none" /\ srvConn'[j] = srvConn[j]
    BY <2>1, <2>2, <2>4 DEF TypeOK, QueueTypes
  <2>5. Working(s) \cup {Head(i)} \subseteq Working(srv)'
    BY <2>1, <2>3, <2>4 DEF Working
  <2> QED
    BY <2>1, <2>2, <2>5
<1> QED
  BY <1>1, <1>2

\* No block serves a request that is queued.
LEMMA ServedNotQueued ==
    ASSUME TypeOK, Requests
    PROVE  /\ waitingQueue \in Seq(Clients) /\ srv \in [Clients -> ServicePC]
           /\ \A j \in Clients : srv[j] # "none" => j \notin ToSet(waitingQueue)
  BY DEF Requests, NoRequestLost, Queued, Served, TypeOK, QueueTypes

LEMMA GetKeeps ==
    ASSUME TypeOK, HandOnly, NEW k \in Clients, Get(k), ~GetDropFails(k), TypeOK'
    PROVE  Lost' \subseteq Lost
<1>a. idle \in Seq(Conns) /\ None \notin Conns /\ connections' \subseteq Conns
  BY NamesAssumption DEF TypeOK, PoolTypes
<1>b. ASSUME UNCHANGED <<srv, srvConn>> PROVE Working(srv)' = Working(srv)
  BY <1>b DEF Working
<1>c. ToSet(idle) \subseteq ToSet(RemoveFirst(idle, conn[k])) \cup {conn[k]}
  BY <1>a, RemoveFirstElements
<1>1. CASE GetConnection(k) \/ GetLoop(k)
  <2>1. conn[k] = None
    BY <1>1 DEF GetConnection, GetLoop, HandOnly, HandPC, PutPC
  <2>2. UNCHANGED <<pool, srv, srvConn>> /\ \E l, c : Goto(k, l, c)
    BY <1>1 DEF GetConnection, GetLoop, Acquire, CheckIdle, CreateNew, Wait, queue
  <2>3. Held \ {None} \subseteq Held'
    BY <2>1, <2>2, GotoHeld
  <2>4. connections' \cap (Kept \cup (Conns \ connections)) \subseteq Kept'
    BY <1>a, <1>b, <2>2, <2>3 DEF Kept, pool
  <2> QED
    BY <2>4, KeptIsNotLost
<1>2. CASE GetValid(k)
  <2>1. /\ Held \subseteq Held' /\ conn[k] \in Held'
    BY <1>2, GotoHeld DEF GetValid
  <2>2. /\ idle' = RemoveFirst(idle, conn[k]) /\ UNCHANGED <<srv, srvConn>>
        /\ connections' = connections \cup {conn[k]}
    BY <1>2 DEF GetValid, queue
  <2>3. connections' \cap (Kept \cup (Conns \ connections)) \subseteq Kept'
    BY <1>b, <1>c, <2>1, <2>2 DEF Kept
  <2> QED
    BY <2>3, KeptIsNotLost
<1>3. CASE GetDropped(k)
  <2>1. Held \ {conn[k]} \subseteq Held'
    BY <1>3, GotoHeld DEF GetDropped
  <2>2. /\ idle' = RemoveFirst(idle, conn[k]) /\ UNCHANGED <<srv, srvConn>>
        /\ connections' = connections \ {conn[k]}
    BY <1>3 DEF GetDropped, RemoveInvalid, queue
  <2>3. connections' \cap (Kept \cup (Conns \ connections)) \subseteq Kept'
    BY <1>b, <1>c, <2>1, <2>2 DEF Kept
  <2> QED
    BY <2>3, KeptIsNotLost
<1>4. CASE GetInvalid(k) \/ GetRelease(k)
  <2>1. Held \subseteq Held' /\ UNCHANGED <<pool, srv, srvConn>>
    BY <1>4, GotoHeld DEF GetInvalid, GetRelease, queue
  <2>2. connections' \cap (Kept \cup (Conns \ connections)) \subseteq Kept'
    BY <1>b, <2>1 DEF Kept, pool
  <2> QED
    BY <2>2, KeptIsNotLost
<1>5. CASE GetCreated(k)
  <2>1. conn[k] = None
    BY <1>5 DEF GetCreated, HandOnly, HandPC, PutPC
  <2>2. PICK c \in Conns : connections' = connections \cup {c} /\ Goto(k, "using", c)
    BY <1>5 DEF GetCreated
  <2>3. Held \ {None} \subseteq Held' /\ c \in Held'
    BY <2>1, <2>2, GotoHeld
  <2>4. UNCHANGED <<idle, srv, srvConn>>
    BY <1>5 DEF GetCreated, queue
  <2>5. connections' \cap (Kept \cup (Conns \ connections)) \subseteq Kept'
    BY <1>a, <1>b, <2>2, <2>3, <2>4 DEF Kept
  <2> QED
    BY <2>5, KeptIsNotLost
<1>6. CASE GetCreateFails(k) \/ GetTimesOut(k)
  <2>1. conn[k] = None
    BY <1>6 DEF GetCreateFails, GetTimesOut, HandOnly, HandPC, PutPC
  <2>2. UNCHANGED <<pool, srv, srvConn>> /\ Goto(k, "out", None)
    BY <1>6 DEF GetCreateFails, GetTimesOut, queue
  <2>3. Held \ {None} \subseteq Held'
    BY <2>1, <2>2, GotoHeld
  <2>4. connections' \cap (Kept \cup (Conns \ connections)) \subseteq Kept'
    BY <1>a, <1>b, <2>2, <2>3 DEF Kept, pool
  <2> QED
    BY <2>4, KeptIsNotLost
<1> QED
  BY <1>1, <1>2, <1>3, <1>4, <1>5, <1>6 DEF Get

LEMMA ServeKeeps ==
    ASSUME TypeOK, Requests, HandOnly, NEW k \in Clients, Serve(k), TypeOK'
    PROVE  Lost' \subseteq Lost
<1> DEFINE c == srvConn[k]
           s == [srv EXCEPT ![k] = "none"]
<1>a. srv[k] # "none" /\ c \in Conns /\ conn[k] = None
  <2>1. srv[k] # "none"
    BY DEF Serve, ServeValid, ServeInvalid, ServeRelease, ServeDropped, ServeDropFails
  <2>2. pc[k] = "waiting"
    BY <2>1 DEF Requests, NoRequestLost, Served
  <2> QED
    BY <2>1, <2>2, HandTyped DEF HandOnly, HandPC, PutPC
<1>b. /\ idle \in Seq(Conns) /\ RemoveFirst(idle, c) \in Seq(Conns)
      /\ waitingQueue \in Seq(Clients) /\ None \notin Conns
      /\ connections' \subseteq Conns /\ k \notin ToSet(waitingQueue)
      /\ s \in [Clients -> ServicePC]
      /\ \A j \in Clients : s[j] # "none" => j \notin ToSet(waitingQueue) /\ j # k
  <2>1. \A j \in Clients : s[j] # "none" => j # k /\ srv[j] # "none"
    BY DEF TypeOK, QueueTypes
  <2> QED
    BY <1>a, <2>1, ListsTyped, ServedNotQueued, ServeEndTyped, NamesAssumption
    DEF TypeOK, PoolTypes
<1>c. ToSet(idle) \subseteq ToSet(RemoveFirst(idle, c)) \cup {c}
  BY <1>b, RemoveFirstElements
<1>d. Working(srv) \subseteq Working(s) \cup {c}
  BY <1>a DEF Working, TypeOK, QueueTypes
<1> HIDE DEF s
<1>1. CASE ServeValid(k)
  <2>1. Held \ {None} \subseteq Held' /\ c \in Held'
    BY <1>1, <1>a, GotoHeld DEF ServeValid
  <2>2. Working(s) \cup ToSet(idle) \subseteq Working(srv)' \cup ToSet(idle')
    BY <1>1, <1>b, ProcessKeeps DEF ServeValid, s
  <2>3. connections' = connections \cup {c}
    BY <1>1 DEF ServeValid
  <2>4. connections' \cap (Kept \cup (Conns \ connections)) \subseteq Kept'
    BY <1>b, <1>d, <2>1, <2>2, <2>3 DEF Kept
  <2> QED
    BY <2>4, KeptIsNotLost
<1>2. CASE ServeInvalid(k) \/ ServeRelease(k)
  <2>1. UNCHANGED <<pool, conn, srvConn>> /\ \E l : l # "none" /\ srv' = [srv EXCEPT ![k] = l]
    BY <1>2 DEF ServeInvalid, ServeRelease, ServiceGoto, client
  <2>2. Working(srv)' = Working(srv)
    BY <1>a, <2>1 DEF Working, TypeOK, QueueTypes
  <2>3. connections' \cap (Kept \cup (Conns \ connections)) \subseteq Kept'
    BY <2>1, <2>2 DEF Kept, Held, pool
  <2> QED
    BY <2>3, KeptIsNotLost
<1>3. CASE ServeDropped(k) \/ ServeDropFails(k)
  <2>1. Held \ {None} \subseteq Held' /\ connections' = connections \ {c}
    <3>1. CASE ServeDropped(k)
      BY <3>1 DEF ServeDropped, client, Held
    <3>2. CASE ServeDropFails(k)
      BY <1>a, <3>2, GotoHeld DEF ServeDropFails
    <3> QED
      BY <1>3, <3>1, <3>2
  <2>2. Working(s) \cup ToSet(RemoveFirst(idle, c)) \subseteq Working(srv)' \cup ToSet(idle')
    <3>1. /\ Cons(k, waitingQueue) \in Seq(Clients)
          /\ ToSet(Cons(k, waitingQueue)) = ToSet(waitingQueue) \cup {k}
      BY <1>b, ConsElements
    <3>2. PICK q \in {waitingQueue, Cons(k, waitingQueue)} :
              ProcessWaitingQueue(q, RemoveFirst(idle, c), s)
      BY <1>3 DEF ServeDropped, ServeDropFails, s
    <3>3. q \in Seq(Clients) /\ \A j \in Clients : s[j] # "none" => j \notin ToSet(q)
      BY <1>b, <3>1, <3>2
    <3> QED
      BY <1>b, <3>2, <3>3, ProcessKeeps
  <2>3. connections' \cap (Kept \cup (Conns \ connections)) \subseteq Kept'
    BY <1>b, <1>c, <1>d, <2>1, <2>2 DEF Kept
  <2> QED
    BY <2>3, KeptIsNotLost
<1> QED
  BY <1>1, <1>2, <1>3 DEF Serve

LEMMA PutKeeps ==
    ASSUME TypeOK, Requests, NEW k \in Clients, GiveBack(k) \/ Put(k),
           ~PutDropFails(k), dpc # "done", TypeOK'
    PROVE  Lost' \subseteq Lost
<1>a. conn[k] \in Conns
  <2>1. pc[k] \in HandPC
    BY DEF GiveBack, Put, ReleaseConnection, ReleaseRefused, PutValid, PutDiscard,
           PutRelease, PutDropped, PutDropFails, HandPC, PutPC
  <2> QED
    BY <2>1, HandTyped
<1>b. /\ idle \in Seq(Conns) /\ connections' \subseteq Conns
      /\ RemoveFirst(idle, conn[k]) \in Seq(Conns) /\ WithIdle(conn[k]) \in Seq(Conns)
  BY <1>a, ListsTyped DEF TypeOK, PoolTypes
<1>c. Held \ {conn[k]} \subseteq Held'
  <2>1. \E l, d : Goto(k, l, d)
    BY DEF GiveBack, ReleaseConnection, ReleaseRefused, Put, PutValid, PutDiscard,
           PutRelease, PutDropped, PutDropFails
  <2> QED
    BY <2>1, GotoHeld
<1>1. CASE PutValid(k)
  <2>1. ToSet(WithIdle(conn[k])) = ToSet(idle) \cup {conn[k]}
    <3>1. CASE Contains(idle, conn[k])
      BY <1>b, <3>1 DEF WithIdle, Contains, ToSet
    <3>2. CASE ~Contains(idle, conn[k])
      BY <1>a, <1>b, <3>2, AppendElements DEF WithIdle
    <3> QED
      BY <3>1, <3>2
  <2>2. /\ ProcessWaitingQueue(waitingQueue, WithIdle(conn[k]), srv)
        /\ connections' = connections
    BY <1>1 DEF PutValid
  <2>3. Working(srv) \cup ToSet(WithIdle(conn[k])) \subseteq Working(srv)' \cup ToSet(idle')
    BY <1>b, <2>2, ServedNotQueued, ProcessKeeps
  <2>4. connections' \cap (Kept \cup (Conns \ connections)) \subseteq Kept'
    BY <1>c, <2>1, <2>2, <2>3 DEF Kept
  <2> QED
    BY <2>4, KeptIsNotLost
<1>2. CASE PutDropped(k)
  <2>1. /\ ProcessWaitingQueue(waitingQueue, RemoveFirst(idle, conn[k]), srv)
        /\ connections' = connections \ {conn[k]}
    BY <1>2 DEF PutDropped
  <2>2. Working(srv) \cup ToSet(RemoveFirst(idle, conn[k]))
            \subseteq Working(srv)' \cup ToSet(idle')
    BY <1>b, <2>1, ServedNotQueued, ProcessKeeps
  <2>3. ToSet(idle) \subseteq ToSet(RemoveFirst(idle, conn[k])) \cup {conn[k]}
    BY <1>b, RemoveFirstElements
  <2>4. connections' \cap (Kept \cup (Conns \ connections)) \subseteq Kept'
    BY <1>b, <1>c, <2>1, <2>2, <2>3 DEF Kept
  <2> QED
    BY <2>4, KeptIsNotLost
<1>3. CASE ReleaseConnection(k) \/ PutDiscard(k) \/ PutRelease(k)
  <2>1. Held \subseteq Held' /\ UNCHANGED <<pool, queue>>
    BY <1>3, GotoHeld DEF ReleaseConnection, PutDiscard, PutRelease
  <2>2. connections' \cap (Kept \cup (Conns \ connections)) \subseteq Kept'
    BY <2>1 DEF Kept, Working, pool, queue
  <2> QED
    BY <2>2, KeptIsNotLost
<1>4. CASE ReleaseRefused(k)
  <2>1. conn[k] \notin connections /\ UNCHANGED <<pool, queue>>
    BY <1>4 DEF ReleaseRefused
  <2>2. connections' \cap (Kept \cup (Conns \ connections)) \subseteq Kept'
    BY <1>c, <2>1 DEF Kept, Working, pool, queue
  <2> QED
    BY <2>2, KeptIsNotLost
<1> QED
  BY <1>1, <1>2, <1>3, <1>4 DEF GiveBack, Put

LEMMA OtherKeeps ==
    ASSUME TypeOK, TypeOK',
           \/ \E p \in Creators : ConnectRejected(p) \/ RetryDelayOver(p)
           \/ Boots \/ (\E r \in Runs : Monitoring(r)) \/ Destroy \/ Shutdown
           \/ UNCHANGED vars
    PROVE  Lost' \subseteq Lost
<1>a. Held' = Held /\ Working(srv)' = Working(srv)
  <2>1. UNCHANGED <<conn, srv, srvConn>>
    BY OtherStepsLeaveRequests DEF Destroy, vars, queue, client
  <2> QED
    BY <2>1 DEF Held, Working
<1>b. idle \in Seq(Conns)
  BY DEF TypeOK, PoolTypes
<1>c. ASSUME UNCHANGED pool PROVE Lost' \subseteq Lost
  BY <1>a, <1>c, KeptIsNotLost DEF Kept, pool
<1>d. ASSUME NEW c \in Conns, RemoveInvalid(c) PROVE Lost' \subseteq Lost
  <2>1. ToSet(idle) \subseteq ToSet(idle') \cup {c} /\ connections' = connections \ {c}
    BY <1>b, <1>d, RemoveFirstElements DEF RemoveInvalid
  <2> QED
    BY <1>a, <2>1, KeptIsNotLost DEF Kept
<1>e. ASSUME NEW c \in Conns, PushIdle(c) PROVE Lost' \subseteq Lost
  <2>1. ToSet(idle') = ToSet(idle) \cup {c} /\ connections' = connections \cup {c}
    BY <1>b, <1>e, AppendElements DEF PushIdle
  <2>2. connections' \cap (Kept \cup (Conns \ connections)) \subseteq Kept'
    BY <1>a, <2>1 DEF Kept
  <2> QED
    BY <2>2, KeptIsNotLost
<1>1. ASSUME NEW p \in Creators, ConnectRejected(p) \/ RetryDelayOver(p)
      PROVE  Lost' \subseteq Lost
  BY <1>1, <1>c DEF ConnectRejected, RetryDelayOver
<1>2. CASE Boots
  BY <1>2, <1>c, <1>e DEF Boots, Initialize, BootCreated, BootFails
<1>3. ASSUME NEW r \in Runs, Monitoring(r) PROVE Lost' \subseteq Lost
  <2>1. CASE SweepDropped(r)
    <3>1. PICK c \in todo[r] : RemoveInvalid(c)
      BY <2>1 DEF SweepDropped
    <3>2. c \in Conns
      BY DEF TypeOK, MonitorTypes
    <3> QED
      BY <1>d, <3>1, <3>2
  <2>2. CASE FillCreated(r)
    BY <1>e, <2>2 DEF FillCreated
  <2>3. CASE ~SweepDropped(r) /\ ~FillCreated(r)
    BY <1>3, <1>c, <2>3 DEF Monitoring, Tick, SweepRelease, SweepDropFails,
                            SweepExpired, EnsureMin, FillFails
  <2> QED
    BY <2>1, <2>2, <2>3
<1>4. CASE Destroy
  BY <1>4, <1>c DEF Destroy
<1>5. CASE Shutdown
  <2>1. CASE DestroyEnd
    BY <2>1 DEF DestroyEnd, Lost
  <2>2. CASE ~DestroyEnd
    BY <1>5, <1>c, <2>2 DEF Shutdown, DestroyCloseReturns, DestroyCloseThrows,
                            DestroyReturns
  <2> QED
    BY <2>1, <2>2
<1>6. CASE UNCHANGED vars
  BY <1>6, <1>c DEF vars
<1> QED
  BY <1>1, <1>2, <1>3, <1>4, <1>5, <1>6

\* A slot of `connections` is lost only by a client's close() that rejects.
THEOREM OnlyFailedClosesLeak == Spec => OnlyFailedCloseLeaks
<1>1. Init => HandOnly
  BY DEF Init, HandOnly
<1>2. Spec => [](TypeOK /\ Requests /\ HandOnly)
  BY <1>1, Typing, InitRequests, RequestsStep, HandOnlyStep, PTL DEF Spec
<1>3. TypeOK /\ TypeOK' /\ Requests /\ HandOnly /\ [Next]_vars
        => [\/ Lost' \subseteq Lost \/ dpc = "done"
            \/ \E k \in Clients : GetDropFails(k) \/ PutDropFails(k)]_vars
  BY GetKeeps, ServeKeeps, PutKeeps, OtherKeeps DEF Next
<1> QED
  BY <1>2, <1>3, PTL DEF Spec, OnlyFailedCloseLeaks

-----------------------------------------------------------------------------
(***************************************************************************)
(* OnlyLateReturnUnlists.  Whoever takes a connection out of `connections` *)
(* takes it out of the idle list in the same step, and RemoveFirst takes   *)
(* the only one there is: IdleOnce is what the count of active connections *)
(* rests on.                                                               *)
(***************************************************************************)
\* Nothing new is unlisted if what leaves `connections` leaves the idle list and what
\* joins the idle list is in `connections`.
LEMMA ListedStaysListed ==
    ASSUME ToSet(idle') \subseteq ToSet(idle) \cup connections',
           (connections \ connections') \cap ToSet(idle') = {}
    PROVE  Unlisted' \subseteq Unlisted
  BY DEF Unlisted

LEMMA ProcessTakes ==
    ASSUME NEW q, NEW i \in Seq(Conns), NEW s, ProcessWaitingQueue(q, i, s)
    PROVE  ToSet(idle') \subseteq ToSet(i)
<1>1. CASE q = <<>> \/ i = <<>>
  BY <1>1 DEF ProcessWaitingQueue
<1>2. CASE q # <<>> /\ i # <<>>
  <2>1. idle' = Tail(i)
    BY <1>2 DEF ProcessWaitingQueue
  <2> QED
    BY <1>2, <2>1, TailElements
<1> QED
  BY <1>1, <1>2

\* The idle list once the connection c is taken out of it.
LEMMA TakenOut ==
    ASSUME TypeOK, Pooled, NEW c
    PROVE  /\ idle \in Seq(Conns) /\ RemoveFirst(idle, c) \in Seq(Conns)
           /\ ToSet(RemoveFirst(idle, c)) = ToSet(idle) \ {c}
<1>1. idle \in Seq(Conns) /\ IsInjective(idle)
  BY DEF TypeOK, PoolTypes, Pooled, Listed
<1> QED
  BY <1>1, RemoveFirstElements

LEMMA GetUnlists ==
    ASSUME TypeOK, Pooled, NEW k \in Clients, Get(k)
    PROVE  Unlisted' \subseteq Unlisted
<1>1. CASE GetValid(k) \/ GetDropped(k)
  <2>1. /\ idle' = RemoveFirst(idle, conn[k]) /\ connections \ connections' \subseteq {conn[k]}
    BY <1>1 DEF GetValid, GetDropped, RemoveInvalid
  <2> QED
    BY <2>1, TakenOut, ListedStaysListed
<1>2. CASE ~(GetValid(k) \/ GetDropped(k))
  <2>1. idle' = idle /\ connections \subseteq connections'
    BY <1>2 DEF Get, GetConnection, GetLoop, Acquire, CheckIdle, CreateNew, Wait,
       GetInvalid, GetRelease, GetDropFails, GetCreated, GetCreateFails, GetTimesOut, pool
  <2> QED
    BY <2>1, ListedStaysListed
<1> QED
  BY <1>1, <1>2

LEMMA ServeUnlists ==
    ASSUME TypeOK, Pooled, NEW k \in Clients, Serve(k)
    PROVE  Unlisted' \subseteq Unlisted
<1>1. CASE ServeValid(k)
  <2>1. idle \in Seq(Conns) /\ connections \subseteq connections'
    BY <1>1, TakenOut DEF ServeValid
  <2>2. ToSet(idle') \subseteq ToSet(idle)
    BY <1>1, <2>1, ProcessTakes DEF ServeValid
  <2> QED
    BY <2>1, <2>2, ListedStaysListed
<1>2. CASE ServeInvalid(k) \/ ServeRelease(k)
  BY <1>2 DEF ServeInvalid, ServeRelease, pool, Unlisted
<1>3. CASE ServeDropped(k) \/ ServeDropFails(k)
  <2>1. connections' = connections \ {srvConn[k]}
    BY <1>3 DEF ServeDropped, ServeDropFails
  <2>2. ToSet(idle') \subseteq ToSet(RemoveFirst(idle, srvConn[k]))
    BY <1>3, TakenOut, ProcessTakes DEF ServeDropped, ServeDropFails
  <2> QED
    BY <2>1, <2>2, TakenOut, ListedStaysListed
<1> QED
  BY <1>1, <1>2, <1>3 DEF Serve

LEMMA PutUnlists ==
    ASSUME TypeOK, Pooled, NEW k \in Clients, GiveBack(k) \/ Put(k),
           ~(PutValid(k) /\ conn[k] \notin connections)
    PROVE  Unlisted' \subseteq Unlisted
<1>1. CASE PutValid(k)
  <2>1. conn[k] \in Conns /\ conn[k] \in connections /\ connections' = connections
    BY <1>1, HandTyped DEF PutValid, HandPC, PutPC
  <2>2. WithIdle(conn[k]) \in Seq(Conns)
    BY <2>1, ListsTyped
  <2>3. ToSet(WithIdle(conn[k])) \subseteq ToSet(idle) \cup {conn[k]}
    BY <2>1, TakenOut, AppendElements DEF WithIdle
  <2>4. ToSet(idle') \subseteq ToSet(WithIdle(conn[k]))
    BY <1>1, <2>2, ProcessTakes DEF PutValid
  <2> QED
    BY <2>1, <2>3, <2>4, ListedStaysListed
<1>2. CASE PutDropped(k)
  <2>1. connections' = connections \ {conn[k]}
    BY <1>2 DEF PutDropped
  <2>2. ToSet(idle') \subseteq ToSet(RemoveFirst(idle, conn[k]))
    BY <1>2, TakenOut, ProcessTakes DEF PutDropped
  <2> QED
    BY <2>1, <2>2, TakenOut, ListedStaysListed
<1>3. CASE ~(PutValid(k) \/ PutDropped(k))
  BY <1>3 DEF GiveBack, ReleaseConnection, ReleaseRefused, Put, PutDiscard, PutRelease,
              PutDropFails, pool, Unlisted
<1> QED
  BY <1>1, <1>2, <1>3

LEMMA OtherUnlists ==
    ASSUME TypeOK, Pooled,
           \/ \E p \in Creators : ConnectRejected(p) \/ RetryDelayOver(p)
           \/ Boots \/ (\E r \in Runs : Monitoring(r)) \/ Destroy \/ Shutdown
           \/ UNCHANGED vars
    PROVE  Unlisted' \subseteq Unlisted
<1>a. ASSUME UNCHANGED pool PROVE Unlisted' \subseteq Unlisted
  BY <1>a DEF pool, Unlisted
<1>b. ASSUME NEW c, RemoveInvalid(c) PROVE Unlisted' \subseteq Unlisted
  BY <1>b, TakenOut, ListedStaysListed DEF RemoveInvalid
<1>c. ASSUME NEW c \in Conns, PushIdle(c) PROVE Unlisted' \subseteq Unlisted
  <2>1. ToSet(idle') = ToSet(idle) \cup {c} /\ connections' = connections \cup {c}
    BY <1>c, TakenOut, AppendElements DEF PushIdle
  <2> QED
    BY <2>1, ListedStaysListed
<1>1. ASSUME NEW p \in Creators, ConnectRejected(p) \/ RetryDelayOver(p)
      PROVE  Unlisted' \subseteq Unlisted
  BY <1>1, <1>a DEF ConnectRejected, RetryDelayOver
<1>2. CASE Boots
  BY <1>2, <1>a, <1>c DEF Boots, Initialize, BootCreated, BootFails
<1>3. ASSUME NEW r \in Runs, Monitoring(r) PROVE Unlisted' \subseteq Unlisted
  <2>1. CASE SweepDropped(r)
    BY <2>1, <1>b DEF SweepDropped
  <2>2. CASE FillCreated(r)
    BY <2>2, <1>c DEF FillCreated
  <2>3. CASE ~SweepDropped(r) /\ ~FillCreated(r)
    BY <1>3, <1>a, <2>3 DEF Monitoring, Tick, SweepRelease, SweepDropFails,
                            SweepExpired, EnsureMin, FillFails
  <2> QED
    BY <2>1, <2>2, <2>3
<1>4. CASE Destroy \/ UNCHANGED vars
  BY <1>4, <1>a DEF Destroy, vars
<1>5. CASE Shutdown
  <2>1. CASE DestroyEnd
    BY <2>1 DEF DestroyEnd, Unlisted, ToSet
  <2>2. CASE ~DestroyEnd
    BY <1>5, <1>a, <2>2 DEF Shutdown, DestroyCloseReturns, DestroyCloseThrows,
                            DestroyReturns
  <2> QED
    BY <2>1, <2>2
<1> QED
  BY <1>1, <1>2, <1>3, <1>4, <1>5

\* Only a connection that was removed while it was being given back is listed as
\* idle and not in `connections`.
THEOREM OnlyLateReturnsUnlist == Spec => OnlyLateReturnUnlists
<1>1. TypeOK /\ Pooled /\ [Next]_vars
        => [\/ Unlisted' \subseteq Unlisted
            \/ \E k \in Clients : PutValid(k) /\ conn[k] \notin connections]_vars
  BY GetUnlists, ServeUnlists, PutUnlists, OtherUnlists DEF Next
<1>2. Spec => []Pooled
  BY PoolStaysPooled
<1> QED
  BY <1>1, <1>2, Typing, PTL DEF Spec, OnlyLateReturnUnlists

-----------------------------------------------------------------------------
(***************************************************************************)
(* OnlyPingedIsShared.  A handler moves one client, and may then take the  *)
(* head of the idle list for the head of the queue; both are looked at     *)
(* apart, the state in between given by its parts.                         *)
(***************************************************************************)
Busy(c, cn, s, sc) == {k \in Clients : cn[k] = c \/ (s[k] # "none" /\ sc[k] = c)}
SoleWith(c, i, p, cn, s, sc) ==
    /\ \A j, k \in Busy(c, cn, s, sc) : j = k
    /\ c \in ToSet(i) => \A k \in Busy(c, cn, s, sc) : cn[k] = c /\ p[k] \in GetPC

\* Somebody takes c from the idle list while a getConnection has it.
TakenTwice(c) ==
    /\ c \in ToSet(idle) /\ Handlers(c) # {} /\ ~(Handlers(c)' \subseteq Handlers(c))

LEMMA SoleIs ==
    ASSUME NEW c, TypeOK, TypeOK'
    PROVE  /\ Handlers(c) = Busy(c, conn, srv, srvConn)
           /\ Handlers(c)' = Busy(c, conn', srv', srvConn')
           /\ Sole(c) <=> SoleWith(c, idle, pc, conn, srv, srvConn)
           /\ Sole(c)' <=> SoleWith(c, idle', pc', conn', srv', srvConn')
           /\ Contains(idle, c) <=> c \in ToSet(idle)
<1>1. /\ Contains(idle, c) <=> c \in ToSet(idle)
      /\ Contains(idle', c) <=> c \in ToSet(idle')
  BY DEF Contains, ToSet, TypeOK, PoolTypes
<1>2. /\ Handlers(c) = Busy(c, conn, srv, srvConn)
      /\ Handlers(c)' = Busy(c, conn', srv', srvConn')
  BY DEF Handlers, Busy
<1>3. Sole(c) <=> SoleWith(c, idle, pc, conn, srv, srvConn)
  BY <1>1, <1>2 DEF Sole, SoleWith
<1>4. Sole(c)' <=> SoleWith(c, idle', pc', conn', srv', srvConn')
  BY <1>1, <1>2 DEF Sole, SoleWith
<1> QED
  BY <1>1, <1>2, <1>3, <1>4

\* One client moves from where it was to the label l, with d in its hand and no block
\* that serves it; the idle list becomes i.
LEMMA GotoSole ==
    ASSUME TypeOK, NEW c, NEW k \in Clients, NEW l, NEW d, Goto(k, l, d),
           NEW s, s[k] = "none", \A j \in Clients \ {k} : s[j] = srv[j], NEW i,
           SoleWith(c, idle, pc, conn, srv, srvConn),
           c \in ToSet(i) =>
               c \in ToSet(idle) \/ Busy(c, conn, srv, srvConn) \subseteq {k},
           d = c => /\ Busy(c, conn, srv, srvConn) \subseteq {k}
                    /\ c \in ToSet(i) => l \in GetPC
    PROVE  /\ SoleWith(c, i, pc', conn', s, srvConn)
           /\ Busy(c, conn', s, srvConn)
                  \subseteq (Busy(c, conn, srv, srvConn) \ {k}) \cup {j \in {k} : d = c}
<1> DEFINE B == Busy(c, conn, srv, srvConn)
           A == Busy(c, conn', s, srvConn)
<1>1. /\ pc'[k] = l /\ conn'[k] = d
      /\ \A j \in Clients \ {k} : pc'[j] = pc[j] /\ conn'[j] = conn[j]
  BY DEF Goto, TypeOK, ClientTypes
<1>2. /\ \A j \in A \ {k} : j \in B
      /\ k \in A => d = c
  BY <1>1 DEF Busy
<1>3. A \subseteq (B \ {k}) \cup {j \in {k} : d = c}
  BY <1>2
<1>4. \A j, m \in A : j = m
  BY <1>2 DEF SoleWith
<1>5. ASSUME c \in ToSet(i), NEW j \in A PROVE conn'[j] = c /\ pc'[j] \in GetPC
  <2>1. CASE j = k
    BY <1>1, <1>2, <1>5, <2>1
  <2>2. CASE j # k
    <3>1. j \in B /\ j \in Clients
      BY <1>2, <2>2 DEF Busy
    <3>2. conn[j] = c /\ pc[j] \in GetPC
      BY <1>5, <2>2, <3>1 DEF SoleWith
    <3> QED
      BY <1>1, <2>2, <3>1, <3>2
  <2> QED
    BY <2>1, <2>2
<1> QED
  BY <1>3, <1>4, <1>5 DEF SoleWith

\* processWaitingQueue then: it shares a connection only by giving one that is still
\* in the hands of a getConnection to the head of the queue.
LEMMA ProcessSole ==
    ASSUME TypeOK, NEW c, NEW q \in Seq(Clients), NEW i \in Seq(Conns), IsInjective(i),
           NEW s \in [Clients -> ServicePC], \A j \in ToSet(q) : conn'[j] # c /\ s[j] = "none",
           SoleWith(c, i, pc', conn', s, srvConn), ProcessWaitingQueue(q, i, s)
    PROVE  \/ SoleWith(c, idle', pc', conn', srv', srvConn')
           \/ /\ c \in ToSet(i) /\ Busy(c, conn', s, srvConn) # {}
              /\ \E h \in ToSet(q) : h \in Busy(c, conn', srv', srvConn')
<1> DEFINE B == Busy(c, conn', s, srvConn)
           A == Busy(c, conn', srv', srvConn')
<1>1. CASE q = <<>> \/ i = <<>>
  BY <1>1 DEF ProcessWaitingQueue
<1>2. CASE q # <<>> /\ i # <<>>
  <2> DEFINE h == Head(q)
             d == Head(i)
  <2>1. h \in Clients /\ h \in ToSet(q)
    BY <1>2, TailElements
  <2>2. d \in ToSet(i) /\ ToSet(i) = ToSet(Tail(i)) \cup {d} /\ d \notin ToSet(Tail(i))
    BY <1>2, TailElements
  <2>3. /\ srv' = [s EXCEPT ![h] = Validate(d, "ping", "drop")]
        /\ srvConn' = [srvConn EXCEPT ![h] = d] /\ idle' = Tail(i)
    BY <1>2 DEF ProcessWaitingQueue
  <2>4. srv'[h] # "none" /\ srvConn'[h] = d
    BY <2>1, <2>3 DEF Validate, TypeOK, QueueTypes
  <2>5. \A j \in Clients \ {h} : srv'[j] = s[j] /\ srvConn'[j] = srvConn[j]
    BY <2>1, <2>3 DEF TypeOK, QueueTypes
  <2>6. conn'[h] # c /\ h \notin B
    BY <2>1 DEF Busy
  <2>7. A \ {h} = B /\ (h \in A <=> d = c)
    BY <2>1, <2>4, <2>5, <2>6 DEF Busy
  <2> HIDE DEF A, B, h, d
  <2>8. CASE d # c
    BY <2>2, <2>3, <2>6, <2>7, <2>8 DEF SoleWith, A, B
  <2>9. CASE d = c /\ B = {}
    <3>1. A \subseteq {h} /\ c \notin ToSet(idle')
      BY <2>2, <2>3, <2>7, <2>9
    <3> QED
      BY <3>1 DEF SoleWith, A
  <2>10. CASE d = c /\ B # {}
    BY <2>1, <2>2, <2>7, <2>10 DEF A, B
  <2> QED
    BY <2>8, <2>9, <2>10
<1> QED
  BY <1>1, <1>2

LEMMA GetSole ==
    ASSUME TypeOK, TypeOK', Requests, HandOnly, Pooled, NEW k \in Clients, Get(k),
           NEW c \in Conns, SoleWith(c, idle, pc, conn, srv, srvConn)
    PROVE  SoleWith(c, idle', pc', conn', srv', srvConn') \/ TakenTwice(c)
<1> DEFINE B == Busy(c, conn, srv, srvConn)
<1>a. /\ c # None /\ idle \in Seq(Conns) /\ Handlers(c) = B
      /\ Handlers(c)' = Busy(c, conn', srv', srvConn')
  BY NamesAssumption, SoleIs DEF TypeOK, PoolTypes
<1>b. srv[k] = "none" \/ GetTimesOut(k)
  <2>1. ~GetTimesOut(k) => pc[k] # "waiting"
    BY DEF Get, GetConnection, GetLoop, GetValid, GetInvalid, GetRelease, GetDropped,
           GetDropFails, GetCreated, GetCreateFails
  <2> QED
    BY <2>1 DEF Requests, NoRequestLost, Served
<1>c. srv[k] = "none"
  <2>1. GetTimesOut(k) => k \in Queued
    BY DEF GetTimesOut, Requests, TimerMeansQueued
  <2> QED
    BY <1>b, <2>1 DEF Requests, NoRequestLost, Served
<1>d. UNCHANGED <<srv, srvConn>>
  BY DEF Get, GetConnection, GetLoop, Acquire, CheckIdle, CreateNew, Wait, GetValid,
         GetInvalid, GetRelease, GetDropped, GetDropFails, GetCreated,
         GetCreateFails, GetTimesOut, queue
<1>1. CASE GetConnection(k) \/ GetLoop(k)
  <2>1. /\ idle' = idle /\ conn[k] = None
        /\ \E l, d : /\ Goto(k, l, d)
                     /\ d = None \/ (d \in ToSet(idle) /\ l \in GetPC)
    BY <1>1, <1>a, TailElements
    DEF GetConnection, GetLoop, Acquire, CheckIdle, CreateNew, Wait, Validate, GetPC,
        HandOnly, HandPC, PutPC, pool
  <2>2. PICK l, d : Goto(k, l, d) /\ (d = None \/ (d \in ToSet(idle) /\ l \in GetPC))
    BY <2>1
  <2>3. k \notin B
    BY <1>a, <1>c, <2>1 DEF Busy
  <2>4. CASE d = c /\ B # {}
    <3>1. k \in Busy(c, conn', srv', srvConn')
      BY <2>2, <2>4 DEF Goto, Busy, TypeOK, ClientTypes
    <3> QED
      BY <1>a, <2>2, <2>3, <2>4, <3>1 DEF TakenTwice
  <2>5. CASE d # c \/ B = {}
    <3>1. d = c => Busy(c, conn, srv, srvConn) \subseteq {k} /\ l \in GetPC
      BY <1>a, <2>2, <2>5
    <3>2. SoleWith(c, idle, pc', conn', srv, srvConn)
      BY <1>c, <2>2, <3>1, GotoSole
    <3> QED
      BY <1>d, <2>1, <3>2
  <2> QED
    BY <2>4, <2>5
<1>2. CASE GetCreated(k)
  <2>1. PICK d \in Conns : Lend(d) /\ Goto(k, "using", d)
    BY <1>2 DEF GetCreated, Connected
  <2>2. d \notin made /\ idle' = idle
    BY <1>2, <2>1 DEF GetCreated, Lend
  <2>3. d \notin ToSet(idle)
    BY <2>2 DEF Pooled, Listed
  <2>4. Busy(d, conn, srv, srvConn) = {}
    BY <2>1, <2>2, NamesAssumption DEF Busy, Pooled, Handled
  <2> QED
    BY <1>c, <1>d, <2>1, <2>2, <2>3, <2>4, GotoSole
<1>3. CASE GetValid(k) \/ GetDropped(k)
  <2>1. idle' = RemoveFirst(idle, conn[k])
    BY <1>3 DEF GetValid, GetDropped, RemoveInvalid
  <2>2. ToSet(idle') = ToSet(idle) \ {conn[k]}
    BY <2>1, TakenOut
  <2>3. PICK l : \E d \in {conn[k], None} : Goto(k, l, d)
    BY <1>3 DEF GetValid, GetDropped
  <2>4. conn[k] = c => B \subseteq {k}
    BY DEF SoleWith, Busy
  <2> QED
    BY <1>a, <1>c, <1>d, <2>2, <2>3, <2>4, GotoSole
<1>4. CASE GetInvalid(k) \/ GetRelease(k) \/ GetDropFails(k) \/ GetCreateFails(k)
             \/ GetTimesOut(k)
  <2>1. idle' = idle
    BY <1>4 DEF GetInvalid, GetRelease, GetDropFails, GetCreateFails, GetTimesOut, pool
  <2>2. PICK l, d : Goto(k, l, d) /\ (d = None \/ (d = conn[k] /\ l \in GetPC))
    BY <1>4 DEF GetInvalid, GetRelease, GetDropFails, GetCreateFails, GetTimesOut, GetPC
  <2>3. conn[k] = c => B \subseteq {k}
    BY DEF SoleWith, Busy
  <2> QED
    <3>1. d = c => Busy(c, conn, srv, srvConn) \subseteq {k} /\ l \in GetPC
      BY <1>a, <2>2, <2>3
    <3>2. SoleWith(c, idle, pc', conn', srv, srvConn)
      BY <1>c, <2>2, <3>1, GotoSole
    <3> QED
      BY <1>d, <2>1, <3>2
<1> QED
  BY <1>1, <1>2, <1>3, <1>4 DEF Get

\* A block of processWaitingQueue, or releaseConnection, ends: its client is left
\* with d, and the first of the queue q is given the first of the list i.
LEMMA EndSole ==
    ASSUME TypeOK, TypeOK', Requests, HandOnly, NEW c \in Conns, NEW k \in Clients,
           SoleWith(c, idle, pc, conn, srv, srvConn), NEW l, NEW d, Goto(k, l, d),
           NEW q \in Seq(Clients), NEW i \in Seq(Conns), IsInjective(i),
           NEW s \in [Clients -> ServicePC], s[k] = "none",
           \A j \in Clients \ {k} : s[j] = srv[j],
           ToSet(q) \subseteq Queued \cup {k}, k \notin Queued,
           k \in ToSet(q) => d = None, ProcessWaitingQueue(q, i, s),
           c \in ToSet(i) => c \in ToSet(idle) \/ Handlers(c) \subseteq {k},
           d = c => Handlers(c) \subseteq {k} /\ c \notin ToSet(i)
    PROVE  SoleWith(c, idle', pc', conn', srv', srvConn') \/ TakenTwice(c)
<1> DEFINE B == Busy(c, conn, srv, srvConn)
           M == Busy(c, conn', s, srvConn)
<1>a. /\ Handlers(c) = B /\ c # None
      /\ Handlers(c)' = Busy(c, conn', srv', srvConn')
  BY NamesAssumption, SoleIs
<1>1. /\ SoleWith(c, i, pc', conn', s, srvConn)
      /\ M \subseteq (B \ {k}) \cup {j \in {k} : d = c}
  BY <1>a, GotoSole
<1>2. \A j \in Queued : j \in Clients /\ conn[j] = None /\ srv[j] = "none"
  BY DEF Requests, NoRequestLost, Served, HandOnly, HandPC, PutPC
<1>3. conn'[k] = d /\ \A j \in Clients \ {k} : conn'[j] = conn[j]
  BY DEF Goto, TypeOK, ClientTypes
<1>4. \A j \in ToSet(q) : conn'[j] # c /\ s[j] = "none"
  BY <1>a, <1>2, <1>3
<1>5. \/ SoleWith(c, idle', pc', conn', srv', srvConn')
      \/ /\ c \in ToSet(i) /\ M # {}
         /\ \E h \in ToSet(q) : h \in Busy(c, conn', srv', srvConn')
  BY <1>1, <1>4, ProcessSole
<1>6. ASSUME c \in ToSet(i), M # {}, NEW h \in ToSet(q), h \in Handlers(c)'
      PROVE  TakenTwice(c)
  <2>1. M \subseteq B \ {k}
    BY <1>1, <1>6
  <2>2. c \in ToSet(idle) /\ B # {}
    BY <1>a, <1>6, <2>1
  <2>3. k \notin B
    BY <1>6, <2>1 DEF SoleWith
  <2>4. h \notin B
    BY <1>a, <1>2, <2>3 DEF Busy
  <2> QED
    BY <1>a, <1>6, <2>2, <2>4 DEF TakenTwice
<1> QED
  BY <1>a, <1>5, <1>6

LEMMA ServeSole ==
    ASSUME TypeOK, TypeOK', Requests, HandOnly, Pooled, NEW k \in Clients, Serve(k),
           NEW c \in Conns, SoleWith(c, idle, pc, conn, srv, srvConn)
    PROVE  SoleWith(c, idle', pc', conn', srv', srvConn') \/ TakenTwice(c)
<1> DEFINE e == srvConn[k]
           s == [srv EXCEPT ![k] = "none"]
<1>a. /\ srv[k] # "none" /\ e \in Conns /\ conn[k] = None /\ k \notin Queued
      /\ pc[k] = "waiting" /\ c # None
  <2>1. srv[k] # "none"
    BY DEF Serve, ServeValid, ServeInvalid, ServeRelease, ServeDropped, ServeDropFails
  <2>2. pc[k] = "waiting" /\ k \notin Queued
    BY <2>1 DEF Requests, NoRequestLost, Served
  <2> QED
    BY <2>1, <2>2, HandTyped, NamesAssumption DEF HandOnly, HandPC, PutPC
<1>b. /\ Handlers(c) = Busy(c, conn, srv, srvConn) /\ waitingQueue \in Seq(Clients)
      /\ ToSet(waitingQueue) = Queued /\ idle \in Seq(Conns) /\ IsInjective(idle)
  BY SoleIs DEF Queued, TypeOK, QueueTypes, PoolTypes, Pooled, Listed
<1>c. /\ s \in [Clients -> ServicePC] /\ s[k] = "none"
      /\ \A j \in Clients \ {k} : s[j] = srv[j]
  BY ServeEndTyped DEF TypeOK, QueueTypes
<1>d. /\ RemoveFirst(idle, e) \in Seq(Conns) /\ IsInjective(RemoveFirst(idle, e))
      /\ ToSet(RemoveFirst(idle, e)) = ToSet(idle) \ {e}
  BY <1>b, TakenOut, RemoveFirstElements
<1>e. e = c => Handlers(c) = {k} /\ c \notin ToSet(idle)
  BY <1>a, <1>b DEF SoleWith, Busy
<1> HIDE DEF s, e
<1>1. CASE ServeValid(k)
  <2>1. /\ Goto(k, "using", e) /\ ProcessWaitingQueue(waitingQueue, idle, s)
    BY <1>1 DEF ServeValid, s, e
  <2>2. \A j \in {k} : k \notin ToSet(waitingQueue)
    BY <1>a, <1>b
  <2> QED
    BY <1>a, <1>b, <1>c, <1>e, <2>1, <2>2, EndSole
<1>2. CASE ServeInvalid(k) \/ ServeRelease(k)
  <2>1. /\ UNCHANGED <<idle, pc, conn, srvConn>>
        /\ \E l : l # "none" /\ srv' = [srv EXCEPT ![k] = l]
    BY <1>2 DEF ServeInvalid, ServeRelease, ServiceGoto, client, pool
  <2>2. Busy(c, conn', srv', srvConn') = Busy(c, conn, srv, srvConn)
    BY <1>a, <2>1 DEF Busy, TypeOK, QueueTypes
  <2> QED
    BY <2>1, <2>2 DEF SoleWith
<1>3. CASE ServeDropped(k)
  <2>1. /\ UNCHANGED <<pc, conn>>
        /\ ProcessWaitingQueue(Cons(k, waitingQueue), RemoveFirst(idle, e), s)
    BY <1>3 DEF ServeDropped, client, s, e
  <2>2. Goto(k, "waiting", None)
    BY <1>a, <2>1 DEF Goto, TypeOK, ClientTypes
  <2>3. /\ Cons(k, waitingQueue) \in Seq(Clients)
        /\ ToSet(Cons(k, waitingQueue)) = Queued \cup {k}
    BY <1>b, ConsElements
  <2> QED
    BY <1>a, <1>c, <1>d, <2>1, <2>2, <2>3, EndSole
<1>4. CASE ServeDropFails(k)
  <2>1. /\ Goto(k, "out", None)
        /\ ProcessWaitingQueue(waitingQueue, RemoveFirst(idle, e), s)
    BY <1>4 DEF ServeDropFails, s, e
  <2> QED
    BY <1>a, <1>b, <1>c, <1>d, <2>1, EndSole
<1> QED
  BY <1>1, <1>2, <1>3, <1>4 DEF Serve

LEMMA PutSole ==
    ASSUME TypeOK, TypeOK', Requests, HandOnly, Pooled, NEW k \in Clients,
           GiveBack(k) \/ Put(k),
           NEW c \in Conns, SoleWith(c, idle, pc, conn, srv, srvConn)
    PROVE  SoleWith(c, idle', pc', conn', srv', srvConn') \/ TakenTwice(c)
<1>a. /\ conn[k] \in Conns /\ srv[k] = "none" /\ k \notin Queued /\ c # None
      /\ pc[k] \notin GetPC
  <2>1. pc[k] \in {"using"} \cup PutPC
    BY DEF GiveBack, Put, ReleaseConnection, ReleaseRefused, PutValid, PutDiscard,
           PutRelease, PutDropped, PutDropFails, PutPC
  <2>2. pc[k] \in HandPC /\ pc[k] # "waiting" /\ pc[k] \notin GetPC
    BY <2>1 DEF HandPC, PutPC, GetPC
  <2> QED
    BY <2>2, HandTyped, NamesAssumption DEF Requests, NoRequestLost, Served
<1>b. /\ Handlers(c) = Busy(c, conn, srv, srvConn) /\ waitingQueue \in Seq(Clients)
      /\ ToSet(waitingQueue) = Queued /\ idle \in Seq(Conns) /\ IsInjective(idle)
      /\ srv \in [Clients -> ServicePC] /\ Listed(idle)
  BY SoleIs DEF Queued, TypeOK, QueueTypes, PoolTypes, Pooled, Listed
<1>c. conn[k] = c => Handlers(c) \subseteq {k} /\ c \notin ToSet(idle)
  BY <1>a, <1>b DEF SoleWith, Busy
<1>1. CASE PutValid(k)
  <2>1. /\ WithIdle(conn[k]) \in Seq(Conns) /\ IsInjective(WithIdle(conn[k]))
        /\ ToSet(WithIdle(conn[k])) \subseteq ToSet(idle) \cup {conn[k]}
    <3>1. CASE Contains(idle, conn[k])
      BY <1>b, <3>1 DEF WithIdle
    <3>2. CASE ~Contains(idle, conn[k])
      <4>1. conn[k] \notin ToSet(idle)
        BY <3>2, SoleIs
      <4> QED
        BY <1>a, <1>b, <3>2, <4>1, AppendElements DEF WithIdle
    <3> QED
      BY <3>1, <3>2
  <2>2. Goto(k, "out", None) /\ ProcessWaitingQueue(waitingQueue, WithIdle(conn[k]), srv)
    BY <1>1 DEF PutValid
  <2>3. c \in ToSet(WithIdle(conn[k])) => c \in ToSet(idle) \/ Handlers(c) \subseteq {k}
    BY <1>c, <2>1
  <2> QED
    BY <1>a, <1>b, <2>1, <2>2, <2>3, EndSole
<1>2. CASE PutDropped(k)
  <2>1. /\ RemoveFirst(idle, conn[k]) \in Seq(Conns)
        /\ IsInjective(RemoveFirst(idle, conn[k]))
        /\ ToSet(RemoveFirst(idle, conn[k])) \subseteq ToSet(idle)
    BY <1>b, RemoveFirstElements
  <2>2. /\ Goto(k, "out", None)
        /\ ProcessWaitingQueue(waitingQueue, RemoveFirst(idle, conn[k]), srv)
    BY <1>2 DEF PutDropped
  <2> QED
    BY <1>a, <1>b, <2>1, <2>2, EndSole
<1>3. CASE ~(PutValid(k) \/ PutDropped(k))
  <2>1. UNCHANGED <<idle, srv, srvConn>>
    BY <1>3 DEF GiveBack, ReleaseConnection, ReleaseRefused, Put, PutDiscard, PutRelease,
                PutDropFails, pool, queue
  <2>2. PICK l, d : Goto(k, l, d) /\ d \in {conn[k], None}
    BY <1>3 DEF GiveBack, ReleaseConnection, ReleaseRefused, Put, PutDiscard, PutRelease,
                PutDropFails
  <2> QED
    BY <1>a, <1>b, <1>c, <2>1, <2>2, GotoSole
<1> QED
  BY <1>1, <1>2, <1>3

LEMMA OtherSole ==
    ASSUME TypeOK, Requests, HandOnly, Pooled,
           \/ \E p \in Creators : ConnectRejected(p) \/ RetryDelayOver(p)
           \/ Boots \/ (\E r \in Runs : Monitoring(r)) \/ Destroy \/ Shutdown
           \/ UNCHANGED vars,
           NEW c \in Conns, SoleWith(c, idle, pc, conn, srv, srvConn)
    PROVE  SoleWith(c, idle', pc', conn', srv', srvConn')
<1> DEFINE B == Busy(c, conn, srv, srvConn)
<1>a. /\ UNCHANGED <<conn, srv, srvConn>>
      /\ \A k \in Clients : conn[k] = c => pc'[k] = pc[k]
  <2>1. CASE Destroy
    <3>1. \A k \in Clients : conn[k] = c => pc[k] # "waiting"
      BY NamesAssumption DEF HandOnly, HandPC, PutPC
    <3>2. \A k \in Clients : Contains(waitingQueue, k) => pc[k] = "waiting"
      BY DEF Contains, ToSet, Queued, Requests, NoRequestLost, TypeOK, QueueTypes
    <3> QED
      BY <2>1, <3>1, <3>2 DEF Destroy
  <2>2. CASE ~Destroy
    BY <2>2, OtherStepsLeaveRequests DEF vars, queue, client
  <2> QED
    BY <2>1, <2>2
<1>b. ASSUME c \in ToSet(idle') => c \in ToSet(idle) \/ B = {}
      PROVE  SoleWith(c, idle', pc', conn', srv', srvConn')
  <2>1. Busy(c, conn', srv', srvConn') = B
    BY <1>a
  <2> QED
    BY <1>a, <1>b, <2>1 DEF SoleWith, Busy
<1>c. ASSUME NEW d, RemoveInvalid(d) PROVE SoleWith(c, idle', pc', conn', srv', srvConn')
  BY <1>b, <1>c, TakenOut DEF RemoveInvalid
<1>d. ASSUME NEW d \in Conns, Lend(d), PushIdle(d)
      PROVE  SoleWith(c, idle', pc', conn', srv', srvConn')
  <2>1. ToSet(idle') = ToSet(idle) \cup {d}
    BY <1>d, TakenOut, AppendElements DEF PushIdle
  <2>2. Busy(d, conn, srv, srvConn) = {}
    BY <1>d, NamesAssumption DEF Lend, Busy, Pooled, Handled
  <2> QED
    BY <1>b, <2>1, <2>2
<1>e. ASSUME UNCHANGED pool PROVE SoleWith(c, idle', pc', conn', srv', srvConn')
  BY <1>b, <1>e DEF pool
<1>1. ASSUME NEW p \in Creators, ConnectRejected(p) \/ RetryDelayOver(p)
      PROVE  UNCHANGED pool
  BY <1>1 DEF ConnectRejected, RetryDelayOver
<1>2. CASE Boots
  BY <1>2, <1>d, <1>e DEF Boots, Initialize, BootCreated, BootFails, Connected
<1>3. ASSUME NEW r \in Runs, Monitoring(r)
      PROVE  SoleWith(c, idle', pc', conn', srv', srvConn')
  <2>1. CASE SweepDropped(r)
    BY <2>1, <1>c DEF SweepDropped
  <2>2. CASE FillCreated(r)
    BY <2>2, <1>d DEF FillCreated, Connected
  <2>3. CASE ~SweepDropped(r) /\ ~FillCreated(r)
    BY <1>3, <1>e, <2>3 DEF Monitoring, Tick, SweepRelease, SweepDropFails,
                            SweepExpired, EnsureMin, FillFails
  <2> QED
    BY <2>1, <2>2, <2>3
<1>4. CASE Destroy \/ UNCHANGED vars
  BY <1>4, <1>e DEF Destroy, vars
<1>5. CASE Shutdown
  <2>1. CASE DestroyEnd
    <3>1. c \notin ToSet(idle')
      BY <2>1 DEF DestroyEnd, ToSet
    <3> QED
      BY <1>b, <3>1
  <2>2. CASE ~DestroyEnd
    BY <1>5, <1>e, <2>2 DEF Shutdown, DestroyCloseReturns, DestroyCloseThrows,
                            DestroyReturns
  <2> QED
    BY <2>1, <2>2
<1> QED
  BY <1>1, <1>2, <1>3, <1>4, <1>5, <1>e

\* A connection is shared only by being taken from the idle list while a
\* getConnection validates it.
THEOREM OnlyPingedAreShared == Spec => OnlyPingedIsShared
<1>1. Init => HandOnly
  BY DEF Init, HandOnly
<1>2. Spec => [](TypeOK /\ Requests /\ HandOnly)
  BY <1>1, Typing, InitRequests, RequestsStep, HandOnlyStep, PTL DEF Spec
<1>3. ASSUME TypeOK, TypeOK', Requests, HandOnly, Pooled, [Next]_vars, NEW c \in Conns, Sole(c)
      PROVE  \/ Sole(c)'
             \/ /\ Contains(idle, c) /\ Handlers(c) # {}
                /\ ~(Handlers(c)' \subseteq Handlers(c))
  <2>1. SoleWith(c, idle, pc, conn, srv, srvConn)
    BY <1>3, SoleIs
  <2>2. SoleWith(c, idle', pc', conn', srv', srvConn') \/ TakenTwice(c)
    BY <1>3, <2>1, GetSole, ServeSole, PutSole, OtherSole DEF Next
  <2> QED
    BY <1>3, <2>2, SoleIs DEF TakenTwice
<1>4. TypeOK /\ TypeOK' /\ Requests /\ HandOnly /\ Pooled /\ [Next]_vars
        => [\A c \in Conns : Sole(c) =>
              \/ Sole(c)'
              \/ /\ Contains(idle, c) /\ Handlers(c) # {}
                 /\ ~(Handlers(c)' \subseteq Handlers(c))]_vars
  BY <1>3
<1> QED
  BY <1>2, <1>4, PoolStaysPooled, PTL DEF Spec, OnlyPingedIsShared

\* So what connection-pool.e2e-spec expects of two calls, different connections, holds of all
\* behaviours in which nobody takes a connection that a getConnection validates:
\* ExclusiveUse fails for no other reason.
THEOREM ExclusiveWithoutOverlap ==
    Spec /\ [][\A c \in Conns : ~TakenTwice(c)]_vars => []ExclusiveUse
<1> DEFINE AllSole == \A c \in Conns : Sole(c)
<1>1. Init => HandOnly
  BY DEF Init, HandOnly
<1>2. Spec => [](TypeOK /\ Requests /\ HandOnly)
  BY <1>1, Typing, InitRequests, RequestsStep, HandOnlyStep, PTL DEF Spec
<1>3. Init => AllSole
  <2> SUFFICES ASSUME Init, NEW c \in Conns PROVE Sole(c)
    OBVIOUS
  <2>1. Handlers(c) = {}
    BY NamesAssumption DEF Init, Handlers
  <2> QED
    BY <2>1 DEF Sole
<1>4. TypeOK /\ TypeOK' /\ Requests /\ HandOnly /\ Pooled /\ [Next]_vars
          /\ [\A c \in Conns : ~TakenTwice(c)]_vars /\ AllSole => AllSole'
  <2> SUFFICES ASSUME TypeOK, TypeOK', Requests, HandOnly, Pooled, [Next]_vars,
                      [\A c \in Conns : ~TakenTwice(c)]_vars, AllSole
               PROVE  AllSole'
    OBVIOUS
  <2>1. ASSUME NEW c \in Conns PROVE Sole(c)'
    <3>1. SoleWith(c, idle, pc, conn, srv, srvConn)
      BY SoleIs
    <3>2. CASE UNCHANGED vars
      BY <3>1, <3>2, OtherSole, SoleIs
    <3>3. CASE Next /\ ~TakenTwice(c)
      BY <3>1, <3>3, GetSole, ServeSole, PutSole, OtherSole, SoleIs DEF Next
    <3> QED
      BY <3>2, <3>3
  <2> QED
    BY <2>1
<1>5. TypeOK /\ AllSole => ExclusiveUse
  <2> SUFFICES ASSUME TypeOK, AllSole, NEW j \in Clients, NEW k \in Clients, j # k,
                      pc[j] = "using", pc[k] = "using", conn[j] = conn[k]
               PROVE  FALSE
    BY DEF ExclusiveUse
  <2>1. conn[j] \in Conns
    BY HandTyped DEF HandPC
  <2>2. {j, k} \subseteq Handlers(conn[j])
    BY DEF Handlers
  <2> QED
    BY <2>1, <2>2 DEF Sole
<1> HIDE DEF AllSole
<1> QED
  BY <1>2, <1>3, <1>4, <1>5, PoolStaysPooled, PTL DEF Spec

-----------------------------------------------------------------------------
(***************************************************************************)
(* QueuedCanTimeOut, when no connection proves invalid under the block of  *)
(* processWaitingQueue that serves a request with it.                      *)
(***************************************************************************)
LEMMA ProcessTimed ==
    ASSUME TypeOK, Requests, QueuedCanTimeOut, NEW i, NEW s,
           ProcessWaitingQueue(waitingQueue, i, s)
    PROVE  QueuedCanTimeOut'
<1>1. waitingQueue \in Seq(Clients) /\ IsInjective(waitingQueue)
  BY DEF TypeOK, QueueTypes, Requests, NoRequestLost
<1>2. CASE waitingQueue = <<>> \/ i = <<>>
  BY <1>2 DEF ProcessWaitingQueue, QueuedCanTimeOut, Queued
<1>3. CASE waitingQueue # <<>> /\ i # <<>>
  <2> DEFINE h == Head(waitingQueue)
  <2>1. waitingQueue' = Tail(waitingQueue) /\ timer' = [timer EXCEPT ![h] = FALSE]
    BY <1>3 DEF ProcessWaitingQueue
  <2>2. /\ h \notin ToSet(Tail(waitingQueue))
        /\ ToSet(waitingQueue) = ToSet(Tail(waitingQueue)) \cup {h}
    BY <1>1, <1>3, TailElements
  <2>3. \A k \in ToSet(Tail(waitingQueue)) : k \in Clients /\ k # h /\ timer[k]
    BY <1>1, <2>2 DEF QueuedCanTimeOut, Queued, Requests, NoRequestLost
  <2> QED
    BY <2>1, <2>3 DEF QueuedCanTimeOut, Queued, TypeOK, QueueTypes
<1> QED
  BY <1>2, <1>3

LEMMA StepTimed ==
    ASSUME TypeOK, Requests, QueuedCanTimeOut, [Next]_vars,
           \A k \in Clients : ~ServeDropped(k)
    PROVE  QueuedCanTimeOut'
<1>a. ASSUME UNCHANGED <<waitingQueue, timer>> PROVE QueuedCanTimeOut'
  BY <1>a DEF QueuedCanTimeOut, Queued
<1>b. /\ waitingQueue \in Seq(Clients) /\ IsInjective(waitingQueue)
      /\ timer \in [Clients -> BOOLEAN] /\ Queued = ToSet(waitingQueue)
  BY DEF TypeOK, QueueTypes, Requests, NoRequestLost, Queued
<1>1. ASSUME NEW k \in Clients, Get(k) PROVE QueuedCanTimeOut'
  <2>1. CASE GetTimesOut(k)
    <3>1. /\ waitingQueue' = RemoveFirst(waitingQueue, k)
          /\ timer' = [timer EXCEPT ![k] = FALSE]
      BY <2>1 DEF GetTimesOut
    <3>2. \A j \in ToSet(waitingQueue') : j \in ToSet(waitingQueue) /\ j # k
      BY <1>b, <3>1, RemoveFirstElements
    <3> QED
      BY <1>b, <3>1, <3>2 DEF QueuedCanTimeOut, Queued
  <2>2. CASE (GetConnection(k) \/ GetLoop(k)) /\ Wait(k)
    <3>1. /\ waitingQueue' = Append(waitingQueue, k)
          /\ timer' = [timer EXCEPT ![k] = TRUE]
      BY <2>2 DEF Wait
    <3>2. ToSet(waitingQueue') = ToSet(waitingQueue) \cup {k}
      BY <1>b, <3>1, AppendElements
    <3> QED
      BY <1>b, <3>1, <3>2 DEF QueuedCanTimeOut, Queued
  <2>3. CASE (GetConnection(k) \/ GetLoop(k)) /\ ~Wait(k)
    BY <1>a, <2>3 DEF GetConnection, GetLoop, Acquire, CheckIdle, CreateNew, queue
  <2>4. CASE ~(GetConnection(k) \/ GetLoop(k) \/ GetTimesOut(k))
    BY <1>1, <1>a, <2>4 DEF Get, GetValid, GetInvalid, GetRelease, GetDropped,
       GetDropFails, GetCreated, GetCreateFails, queue
  <2> QED
    BY <2>1, <2>2, <2>3, <2>4
<1>2. ASSUME NEW k \in Clients, Serve(k) PROVE QueuedCanTimeOut'
  <2>1. CASE ServeValid(k) \/ ServeDropFails(k)
    BY <2>1, ProcessTimed DEF ServeValid, ServeDropFails
  <2>2. CASE ServeInvalid(k) \/ ServeRelease(k)
    BY <1>a, <2>2 DEF ServeInvalid, ServeRelease
  <2> QED
    BY <1>2, <2>1, <2>2 DEF Serve
<1>3. ASSUME NEW k \in Clients, GiveBack(k) \/ Put(k) PROVE QueuedCanTimeOut'
  <2>1. CASE PutValid(k) \/ PutDropped(k)
    BY <2>1, ProcessTimed DEF PutValid, PutDropped
  <2>2. CASE ~(PutValid(k) \/ PutDropped(k))
    BY <1>3, <1>a, <2>2 DEF GiveBack, ReleaseConnection, ReleaseRefused, Put, PutDiscard,
       PutRelease, PutDropFails, queue
  <2> QED
    BY <2>1, <2>2
<1>4. CASE Destroy
  <2>1. ToSet(waitingQueue') = {}
    BY <1>4 DEF Destroy, ToSet
  <2> QED
    BY <2>1 DEF QueuedCanTimeOut, Queued
<1> QED
  BY <1>1, <1>2, <1>3, <1>4, <1>a, OtherStepsLeaveRequests DEF Next, vars, queue

\* A queued request can always time out in every behaviour in which no block puts
\* its request back into the queue: that step alone leaves a request without a timer.
THEOREM TimedUnlessRequeued ==
    Spec /\ [][\A k \in Clients : ~ServeDropped(k)]_vars => []QueuedCanTimeOut
<1>1. Init => QueuedCanTimeOut
  BY DEF Init, QueuedCanTimeOut, Queued, ToSet
<1>2. Spec => [](TypeOK /\ Requests)
  BY Typing, InitRequests, RequestsStep, PTL DEF Spec
<1>3. UNCHANGED vars /\ QueuedCanTimeOut => QueuedCanTimeOut'
  BY DEF vars, queue, QueuedCanTimeOut, Queued
<1>4. TypeOK /\ Requests /\ QueuedCanTimeOut /\ [Next]_vars
          /\ [\A k \in Clients : ~ServeDropped(k)]_vars => QueuedCanTimeOut'
  BY <1>3, StepTimed
<1> QED
  BY <1>1, <1>2, <1>4, PTL DEF Spec

-----------------------------------------------------------------------------
(***************************************************************************)
(* The pool implements PoolDesk: every step is one of the desk's, or one   *)
(* its clients do not see.  NoRequestLost says that who is served was      *)
(* waiting and has left the line, and TimerMeansQueued that who times out  *)
(* is in it.                                                               *)
(***************************************************************************)
LEMMA PlaceIs ==
    /\ PlaceOf("out", "none") = "away" /\ PlaceOf("waiting", "none") = "line"
    /\ PlaceOf("using", "none") = "holding"
    /\ \A l \in GetPC \ {"waiting"} : PlaceOf(l, "none") = "asking"
    /\ \A l \in PutPC : PlaceOf(l, "none") = "returning"
    /\ \A b : b # "none" => PlaceOf("waiting", b) = "counter"
  BY DEF PlaceOf, GetPC, PutPC

\* A call goes on and no block starts or ends: one client moves.
LEMMA GotoMoves ==
    ASSUME TypeOK, NEW k \in Clients, NEW l, NEW c, Goto(k, l, c), UNCHANGED srv
    PROVE  Places' = [Places EXCEPT ![k] = PlaceOf(l, srv[k])]
  BY DEF TypeOK, ClientTypes, Goto, Places

\* processWaitingQueue calls the head of the line, if it calls anybody.
LEMMA ProcessCalls ==
    ASSUME NEW q \in Seq(Clients), NEW i, NEW s \in [Clients -> ServicePC], NEW a,
           \A j \in ToSet(q) : pc'[j] = "waiting" /\ s[j] = "none",
           a = [j \in Clients |-> PlaceOf(pc'[j], s[j])],
           ProcessWaitingQueue(q, i, s)
    PROVE  Desk!CallNext(q, a)
<1>1. CASE q = <<>> \/ i = <<>>
  <2>1. CASE waitingQueue' = q /\ srv' = s
    BY <2>1 DEF Places, Desk!CallNext
  <2> QED
    BY <1>1, <2>1 DEF ProcessWaitingQueue
<1>2. CASE q # <<>> /\ i # <<>>
  <2> DEFINE h == Head(q)
             b == Validate(Head(i), "ping", "drop")
  <2>1. h \in Clients /\ h \in ToSet(q)
    BY <1>2, TailElements
  <2>2. waitingQueue' = Tail(q) /\ srv' = [s EXCEPT ![h] = b]
    BY <1>2 DEF ProcessWaitingQueue
  <2>3. b # "none"
    BY DEF Validate
  <2> HIDE DEF h, b
  <2>4. PlaceOf(pc'[h], b) = "counter"
    BY <2>1, <2>3, PlaceIs
  <2>5. Places' = [a EXCEPT ![h] = "counter"]
    BY <2>1, <2>2, <2>4 DEF Places
  <2> QED
    BY <1>2, <2>2, <2>5 DEF Desk!CallNext, h
<1> QED
  BY <1>1, <1>2

LEMMA GetAtDesk ==
    ASSUME TypeOK, Requests, NEW k \in Clients, Get(k)
    PROVE  [Desk!Next]_(Desk!vars)
<1>1. k \in Waiting \/ srv[k] = "none"
  BY DEF Requests, NoRequestLost, Served, Waiting
<1>2. /\ Places = [j \in Clients |-> Places[j]]
      /\ Places[k] = PlaceOf(pc[k], srv[k])
  BY DEF Places
<1>3. CASE GetConnection(k) \/ GetLoop(k)
  <2>1. Acquire(k) /\ pc[k] \in {"out", "loop"} /\ srv[k] = "none"
    BY <1>1, <1>3 DEF GetConnection, GetLoop, Waiting
  <2>2. Places[k] \in {"away", "asking"}
    BY <1>2, <2>1, PlaceIs DEF GetPC
  <2>3. CASE CheckIdle(k)
    <3>1. PICK l \in {"getPing", "getDrop"} : Goto(k, l, Head(idle))
      BY <2>3 DEF CheckIdle, Validate
    <3>2. UNCHANGED <<waitingQueue, srv>>
      BY <2>3 DEF CheckIdle, queue
    <3>3. Places' = [Places EXCEPT ![k] = "asking"]
      BY <2>1, <3>1, <3>2, GotoMoves, PlaceIs DEF GetPC
    <3> QED
      BY <1>2, <2>2, <3>2, <3>3 DEF Desk!Next, Desk!Ask, Desk!Moved, Desk!vars
  <2>4. CASE CreateNew(k)
    <3>1. PICK l \in {"create", "out"} : Goto(k, l, None)
      BY <2>4 DEF CreateNew
    <3>2. UNCHANGED <<waitingQueue, srv>>
      BY <2>4 DEF CreateNew, queue
    <3>3. PICK place \in {"asking", "away"} : Places' = [Places EXCEPT ![k] = place]
      BY <2>1, <3>1, <3>2, GotoMoves, PlaceIs DEF GetPC
    <3> QED
      BY <1>2, <2>2, <3>2, <3>3 DEF Desk!Next, Desk!Ask, Desk!Refuse, Desk!Moved, Desk!vars
  <2>5. CASE Wait(k)
    <3>1. Places' = [Places EXCEPT ![k] = "line"]
      BY <2>1, <2>5, GotoMoves, PlaceIs DEF Wait
    <3>2. waitingQueue' = Append(waitingQueue, k)
      BY <2>5 DEF Wait
    <3> QED
      BY <2>2, <3>1, <3>2 DEF Desk!Next, Desk!Join, Desk!Moved
  <2> QED
    BY <2>1, <2>3, <2>4, <2>5 DEF Acquire
<1>4. CASE GetTimesOut(k)
  <2>1. k \in Queued /\ srv[k] = "none" /\ pc[k] = "waiting"
    BY <1>4 DEF GetTimesOut, Requests, NoRequestLost, TimerMeansQueued, Served
  <2>2. Places[k] = "line" /\ Places' = [Places EXCEPT ![k] = "away"]
    BY <1>2, <1>4, <2>1, GotoMoves, PlaceIs DEF GetTimesOut
  <2>3. waitingQueue \in Seq(Clients)
    BY DEF TypeOK, QueueTypes
  <2>4. PICK i \in 1..Len(waitingQueue) :
          waitingQueue[i] = k /\ RemoveFirst(waitingQueue, k) = RemoveAt(waitingQueue, i)
    BY <2>1, <2>3, RemoveFirstIsSplice DEF Queued
  <2>5. waitingQueue' = Desk!Without(waitingQueue, i)
    BY <1>4, <2>4 DEF GetTimesOut, Desk!Without, RemoveAt
  <2> QED
    BY <2>2, <2>4, <2>5 DEF Desk!Next, Desk!TimeOut, Desk!Moved
<1>5. CASE \/ GetValid(k) \/ GetCreated(k) \/ GetInvalid(k) \/ GetRelease(k)
           \/ GetDropped(k) \/ GetDropFails(k) \/ GetCreateFails(k)
  <2>1. pc[k] \in GetPC \ {"waiting"} /\ UNCHANGED <<waitingQueue, srv>>
    BY <1>5 DEF GetValid, GetCreated, GetInvalid, GetRelease, GetDropped, GetDropFails,
                GetCreateFails, GetPC, queue
  <2>2. srv[k] = "none" /\ Places[k] = "asking"
    BY <1>1, <1>2, <2>1, PlaceIs DEF Waiting
  <2>3. PICK l \in {"using", "out", "getDrop", "getRelease", "loop"} : \E c : Goto(k, l, c)
    BY <1>5 DEF GetValid, GetCreated, GetInvalid, GetRelease, GetDropped, GetDropFails,
                GetCreateFails
  <2>4. PICK place \in {"holding", "away", "asking"} :
          Places' = [Places EXCEPT ![k] = place]
    BY <2>1, <2>2, <2>3, GotoMoves, PlaceIs DEF GetPC
  <2> QED
    BY <1>2, <2>1, <2>2, <2>4 DEF Desk!Next, Desk!Grant, Desk!Refuse, Desk!Moved, Desk!vars
<1> QED
  BY <1>3, <1>4, <1>5 DEF Get

LEMMA ServeAtDesk ==
    ASSUME TypeOK, Requests, NEW k \in Clients, Serve(k)
    PROVE  [Desk!Next]_(Desk!vars)
<1> DEFINE s == [srv EXCEPT ![k] = "none"]
           a == [j \in Clients |-> PlaceOf(pc'[j], s[j])]
<1>1. srv[k] # "none" /\ pc[k] = "waiting" /\ k \notin Queued
  <2>1. srv[k] # "none"
    BY DEF Serve, ServeValid, ServeInvalid, ServeRelease, ServeDropped, ServeDropFails
  <2> QED
    BY <2>1 DEF Requests, NoRequestLost, Served
<1>2. Places[k] = "counter"
  BY <1>1, PlaceIs DEF Places
<1>3. s \in [Clients -> ServicePC] /\ waitingQueue \in Seq(Clients)
  BY DEF TypeOK, QueueTypes, ServicePC
<1>4. \A j \in Queued : j # k /\ j \in Clients /\ pc[j] = "waiting" /\ srv[j] = "none"
  BY <1>1 DEF Requests, NoRequestLost, Served
<1>5. \A j \in Queued : s[j] = "none"
  BY <1>4 DEF TypeOK, QueueTypes
<1>6. s[k] = "none" /\ \A j \in Clients \ {k} : s[j] = srv[j]
  BY DEF TypeOK, QueueTypes
<1>7. CASE ServeValid(k) \/ ServeDropFails(k)
  <2>1. PICK l \in {"using", "out"} :
          /\ \E c : Goto(k, l, c)
          /\ \E i : ProcessWaitingQueue(waitingQueue, i, s)
    BY <1>7 DEF ServeValid, ServeDropFails
  <2>2. pc' = [pc EXCEPT ![k] = l]
    BY <2>1 DEF Goto
  <2>3. \A j \in ToSet(waitingQueue) : pc'[j] = "waiting" /\ s[j] = "none"
    BY <1>4, <1>5, <2>2 DEF Queued, TypeOK, ClientTypes
  <2> HIDE DEF s
  <2>4. Desk!CallNext(waitingQueue, a)
    BY <1>3, <2>1, <2>3, ProcessCalls
  <2>5. a = [Places EXCEPT ![k] = PlaceOf(l, "none")]
    BY <1>6, <2>2 DEF Places, TypeOK, ClientTypes
  <2>6. PlaceOf(l, "none") \in {"holding", "away"}
    BY PlaceIs
  <2> HIDE DEF a
  <2> QED
    BY <1>2, <2>4, <2>5, <2>6
    DEF Desk!Next, Desk!GrantCalled, Desk!RefuseCalled, Desk!Moved
<1>8. CASE ServeInvalid(k) \/ ServeRelease(k)
  <2>1. PICK b \in {"drop", "release"} : srv' = [srv EXCEPT ![k] = b]
    BY <1>8 DEF ServeInvalid, ServeRelease, ServiceGoto
  <2>2. UNCHANGED <<waitingQueue, pc>>
    BY <1>8 DEF ServeInvalid, ServeRelease, client
  <2>3. \A j \in Clients : PlaceOf(pc'[j], srv'[j]) = PlaceOf(pc[j], srv[j])
    BY <1>1, <2>1, <2>2, PlaceIs DEF TypeOK, QueueTypes
  <2>4. UNCHANGED Places
    BY <2>3 DEF Places
  <2> QED
    BY <2>2, <2>4 DEF Desk!vars
<1>9. CASE ServeDropped(k)
  <2> DEFINE q == Cons(k, waitingQueue)
  <2>1. q \in Seq(Clients) /\ ToSet(q) = Queued \cup {k} /\ q = <<k>> \o waitingQueue
    BY <1>3, ConsElements DEF Queued, Cons
  <2>2. UNCHANGED pc
    BY <1>9 DEF ServeDropped, client
  <2>3. ProcessWaitingQueue(q, RemoveFirst(idle, srvConn[k]), s)
    BY <1>9 DEF ServeDropped
  <2> HIDE DEF q, s
  <2>4. \A j \in ToSet(q) : pc'[j] = "waiting" /\ s[j] = "none"
    BY <1>1, <1>4, <1>5, <1>6, <2>1, <2>2
  <2>5. Desk!CallNext(q, a)
    BY <1>3, <2>1, <2>3, <2>4, ProcessCalls
  <2>6. a = [Places EXCEPT ![k] = "line"]
    BY <1>1, <1>6, <2>2, PlaceIs DEF Places
  <2> HIDE DEF a
  <2> QED
    BY <1>2, <2>1, <2>5, <2>6 DEF Desk!Next, Desk!SendBack, Desk!Moved
<1> QED
  BY <1>7, <1>8, <1>9 DEF Serve

LEMMA PutAtDesk ==
    ASSUME TypeOK, Requests, NEW k \in Clients, GiveBack(k) \/ Put(k)
    PROVE  [Desk!Next]_(Desk!vars)
<1> DEFINE a == [j \in Clients |-> PlaceOf(pc'[j], srv[j])]
<1>1. pc[k] \in {"using"} \cup PutPC /\ srv[k] = "none" /\ k \notin Queued
  <2>1. pc[k] \in {"using"} \cup PutPC
    BY DEF GiveBack, Put, ReleaseConnection, ReleaseRefused, PutValid, PutDiscard,
           PutRelease, PutDropped, PutDropFails, PutPC
  <2> QED
    BY <2>1 DEF Requests, NoRequestLost, Served, PutPC
<1>2. /\ Places = [j \in Clients |-> Places[j]]
      /\ Places[k] = PlaceOf(pc[k], srv[k])
  BY DEF Places
<1>3. CASE GiveBack(k)
  <2>1. PICK l \in {"out"} \cup PutPC : \E c : Goto(k, l, c)
    BY <1>3 DEF GiveBack, ReleaseConnection, ReleaseRefused, Validate, PutPC
  <2>2. pc[k] = "using" /\ UNCHANGED <<waitingQueue, srv>>
    BY <1>3 DEF GiveBack, ReleaseConnection, ReleaseRefused, queue
  <2>3. Places[k] = "holding"
    BY <1>1, <1>2, <2>2, PlaceIs
  <2>4. PICK place \in {"away", "returning"} : Places' = [Places EXCEPT ![k] = place]
    BY <1>1, <2>1, <2>2, GotoMoves, PlaceIs
  <2> QED
    BY <2>2, <2>3, <2>4 DEF Desk!Next, Desk!GiveBack, Desk!Moved
<1>4. CASE PutValid(k) \/ PutDropped(k)
  <2>1. PICK i, c : Goto(k, "out", c) /\ ProcessWaitingQueue(waitingQueue, i, srv)
    BY <1>4 DEF PutValid, PutDropped
  <2>2. pc[k] \in PutPC
    BY <1>4 DEF PutValid, PutDropped, PutPC
  <2>3. Places[k] = "returning"
    BY <1>1, <1>2, <2>2, PlaceIs
  <2>4. pc' = [pc EXCEPT ![k] = "out"]
    BY <2>1 DEF Goto
  <2>5. \A j \in ToSet(waitingQueue) :
          j # k /\ j \in Clients /\ pc[j] = "waiting" /\ srv[j] = "none"
    BY <1>1 DEF Requests, NoRequestLost, Served, Queued
  <2>6. \A j \in ToSet(waitingQueue) : pc'[j] = "waiting" /\ srv[j] = "none"
    BY <2>4, <2>5 DEF TypeOK, ClientTypes
  <2>7. waitingQueue \in Seq(Clients) /\ srv \in [Clients -> ServicePC]
    BY DEF TypeOK, QueueTypes
  <2>8. Desk!CallNext(waitingQueue, a)
    BY <2>1, <2>6, <2>7, ProcessCalls
  <2>9. a = [Places EXCEPT ![k] = "away"]
    BY <1>1, <2>4, PlaceIs DEF Places, TypeOK, ClientTypes
  <2> HIDE DEF a
  <2> QED
    BY <2>3, <2>8, <2>9 DEF Desk!Next, Desk!Return, Desk!Moved
<1>5. CASE PutDiscard(k) \/ PutRelease(k) \/ PutDropFails(k)
  <2>1. pc[k] \in PutPC /\ UNCHANGED <<waitingQueue, srv>>
    BY <1>5 DEF PutDiscard, PutRelease, PutDropFails, PutPC, queue
  <2>2. PICK l \in {"putDrop", "putRelease", "out"} : \E c : Goto(k, l, c)
    BY <1>5 DEF PutDiscard, PutRelease, PutDropFails
  <2>3. Places[k] = "returning"
    BY <1>1, <1>2, <2>1, PlaceIs
  <2>4. PICK place \in {"returning", "away"} : Places' = [Places EXCEPT ![k] = place]
    BY <1>1, <2>1, <2>2, GotoMoves, PlaceIs DEF PutPC
  <2> QED
    BY <1>2, <2>1, <2>3, <2>4
    DEF Desk!Next, Desk!Return, Desk!CallNext, Desk!Moved, Desk!vars
<1> QED
  BY <1>3, <1>4, <1>5 DEF Put

LEMMA DestroyAtDesk == ASSUME TypeOK, Requests, Destroy PROVE Desk!Shut
<1>1. \A k \in Clients : Contains(waitingQueue, k) <=> k \in Queued
  BY DEF Contains, Queued, ToSet, TypeOK, QueueTypes
<1>2. \A k \in Clients : k \in Queued <=> Places[k] = "line"
  BY DEF Requests, NoRequestLost, Served, Places, PlaceOf, PutPC
<1>3. \A k \in Clients : k \in Queued => srv[k] = "none"
  BY DEF Requests, NoRequestLost, Served
<1>4. /\ waitingQueue' = << >> /\ UNCHANGED srv
      /\ \A k \in Clients : pc'[k] = IF k \in Queued THEN "out" ELSE pc[k]
  BY <1>1 DEF Destroy
<1>5. \A k \in Clients :
        PlaceOf(pc'[k], srv'[k]) = IF Places[k] = "line" THEN "away" ELSE Places[k]
  BY <1>2, <1>3, <1>4, PlaceIs DEF Places
<1>6. Places' = [k \in Clients |-> IF Places[k] = "line" THEN "away" ELSE Places[k]]
  BY <1>5 DEF Places
<1> QED
  BY <1>4, <1>6 DEF Desk!Shut

LEMMA StepAtDesk == TypeOK /\ Requests /\ [Next]_vars => [Desk!Next]_(Desk!vars)
<1> SUFFICES ASSUME TypeOK, Requests, [Next]_vars PROVE [Desk!Next]_(Desk!vars)
  OBVIOUS
<1>1. ASSUME UNCHANGED <<queue, client>> PROVE UNCHANGED Desk!vars
  BY <1>1 DEF queue, client, Places, Desk!vars
<1>2. CASE Next
  <2>1. ASSUME NEW k \in Clients, Get(k) \/ Serve(k) \/ GiveBack(k) \/ Put(k)
        PROVE  [Desk!Next]_(Desk!vars)
    BY <2>1, GetAtDesk, ServeAtDesk, PutAtDesk
  <2>2. CASE Destroy
    BY <2>2, DestroyAtDesk DEF Desk!Next
  <2>3. CASE \/ \E p \in Creators : ConnectRejected(p) \/ RetryDelayOver(p)
             \/ Boots \/ (\E r \in Runs : Monitoring(r)) \/ Shutdown
    BY <1>1, <2>3, OtherStepsLeaveRequests
  <2> QED
    BY <1>2, <2>1, <2>2, <2>3 DEF Next
<1>3. CASE UNCHANGED vars
  BY <1>1, <1>3 DEF vars
<1> QED
  BY <1>2, <1>3

\* The pool implements the desk: its clients are called in the order in which they
\* joined the line, and whoever was called is answered by the block that serves
\* him and by nothing else.
THEOREM PoolKeepsDesk == Spec => KeepsDesk
<1>1. Init => Desk!Init
  BY PlaceIs DEF Init, Desk!Init, Places
<1> QED
  BY <1>1, Typing, InitRequests, RequestsStep, StepAtDesk, PTL DEF Spec, KeepsDesk, Desk!Spec
=============================================================================
