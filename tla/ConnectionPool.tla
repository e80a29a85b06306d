--------------------------- MODULE ConnectionPool ---------------------------
(***************************************************************************)
(* The database connection pool: DatabaseConnectionPool, its Connection    *)
(* wrapper and ConnectionPoolMonitor, run by one Node event loop.  A step  *)
(* is the code between two awaits that wait for something outside the      *)
(* program (a mysql2 promise or a timer); every such await is a point      *)
(* where other requests, monitor ticks and the shutdown interleave.        *)
(*                                                                         *)
(* Time and age are abstracted: a timer that is armed may fire, and an     *)
(* idle or pooled connection may or may not be over its idle timeout or    *)
(* its maximum lifetime.  A ping may fail and the driver may refuse to     *)
(* connect at any time.                                                    *)
(***************************************************************************)
EXTENDS Integers, FiniteSets, SequencesExt

CONSTANTS
    Clients,         \* use cases that call getConnection and releaseConnection
    Runs,            \* monitor() runs; two of them may overlap
    Boot,            \* the caller of initialize()
    Conns,           \* bound: Connection objects made over the pool's life
    None,
    MaxConnections, MinConnections, RetryAttempts,
    ReleaseMayFail   \* whether mysqlConnection.release() may reject

Fillers == Runs \cup {Boot}
Creators == Clients \cup Fillers

\* ConnectionPoolConfig.create throws for anything else (of integers): a pool
\* is made of no other configuration.
ValidConfig ==
    /\ MaxConnections \in Nat \ {0}
    /\ MinConnections \in 0..MaxConnections
    /\ RetryAttempts \in Nat
ASSUME ConfigAssumption == ValidConfig
ASSUME NamesAssumption ==
    /\ Boot \notin Clients \cup Runs
    /\ Clients \cap Runs = {}
    /\ None \notin Conns /\ IsFiniteSet(Conns)
    /\ ReleaseMayFail \in BOOLEAN

VARIABLES
    connections,     \* the set held by `connections` (every push is guarded)
    idle,            \* idleConnections
    waitingQueue,    \* clients whose request is in waitingQueue
    timer,           \* timer[k]: the setTimeout of k's request is armed
    srv, srvConn,    \* the async block of processWaitingQueue serving k
    pc, conn,        \* each client's call in progress and its connection
    creating, att,   \* each createConnection in progress, its attempt
    left,            \* fill loops: connections still to create
    init,            \* initialize()
    ticking,         \* the monitor's interval is set
    mpc, sweep, todo,\* each monitor run, its sweep, connections left in it
    sweeping,        \* the connection the sweep is closing
    made,            \* Connection objects constructed
    released,        \* connections whose driver handle was released
    closed,          \* connections with _isClosed set
    out,             \* handles checked out of the mysql2 pool
    dpc, dpending    \* destroy(), and the close() calls it waits for

pool == <<connections, idle>>
queue == <<waitingQueue, timer, srv, srvConn>>
client == <<pc, conn>>
create == <<creating, att>>
monitor == <<ticking, mpc, sweep, todo, sweeping>>
driver == <<made, released, closed, out>>
shutdown == <<dpc, dpending>>
vars == <<pool, queue, client, create, left, init, monitor, driver, shutdown>>

-----------------------------------------------------------------------------
\* The life of a call, of a service, of a monitor run and of a shutdown.
GetPC == {"loop", "getPing", "getDrop", "getRelease", "create", "waiting"}
PutPC == {"putPing", "putDrop", "putRelease"}
HandPC == {"using", "getPing", "getDrop", "getRelease"} \cup PutPC
ClientPC == {"out", "using"} \cup GetPC \cup PutPC
ServicePC == {"none", "ping", "drop", "release"}
RunPC == {"off", "sweep", "release", "fill"}

\* In each part: wherever a call handles a connection, there is one.
PoolTypes == connections \subseteq Conns /\ idle \in Seq(Conns)
QueueTypes ==
    /\ waitingQueue \in Seq(Clients) /\ timer \in [Clients -> BOOLEAN]
    /\ srv \in [Clients -> ServicePC]
    /\ srvConn \in [Clients -> Conns \cup {None}]
    /\ \A k \in Clients : srv[k] # "none" => srvConn[k] # None
ClientTypes ==
    /\ pc \in [Clients -> ClientPC] /\ conn \in [Clients -> Conns \cup {None}]
    /\ \A k \in Clients : pc[k] \in HandPC => conn[k] # None
CreateTypes ==
    /\ creating \in [Creators -> {"no", "connect", "backoff"}]
    /\ att \in [Creators -> 0..RetryAttempts]
InitTypes ==
    /\ left \in [Fillers -> Nat] /\ init \in {"new", "fill", "ready", "failed"}
MonitorTypes ==
    /\ ticking \in BOOLEAN
    /\ mpc \in [Runs -> RunPC] /\ sweep \in [Runs -> {"idle", "expired"}]
    /\ todo \in [Runs -> SUBSET Conns]
    /\ sweeping \in [Runs -> Conns \cup {None}]
    /\ \A r \in Runs : mpc[r] = "release" => sweeping[r] # None
DriverTypes ==
    /\ made \subseteq Conns /\ released \subseteq Conns /\ closed \subseteq Conns
    /\ out \in Int
ShutdownTypes ==
    /\ dpc \in {"no", "closing", "ending", "done", "failed"}
    /\ dpending \subseteq Conns

\* Types; a call, a service or a monitor run that handles a connection has one.
TypeOK == /\ PoolTypes /\ QueueTypes /\ ClientTypes /\ CreateTypes /\ InitTypes
          /\ MonitorTypes /\ DriverTypes /\ ShutdownTypes

Init ==
    /\ connections = {} /\ idle = <<>>
    /\ waitingQueue = <<>> /\ timer = [k \in Clients |-> FALSE]
    /\ srv = [k \in Clients |-> "none"] /\ srvConn = [k \in Clients |-> None]
    /\ pc = [k \in Clients |-> "out"] /\ conn = [k \in Clients |-> None]
    /\ creating = [p \in Creators |-> "no"] /\ att = [p \in Creators |-> 0]
    /\ left = [f \in Fillers |-> 0]
    /\ init = "new" /\ ticking = FALSE
    /\ mpc = [r \in Runs |-> "off"] /\ sweep = [r \in Runs |-> "idle"]
    /\ todo = [r \in Runs |-> {}] /\ sweeping = [r \in Runs |-> None]
    /\ made = {} /\ released = {} /\ closed = {} /\ out = 0
    /\ dpc = "no" /\ dpending = {}

-----------------------------------------------------------------------------
(***************************************************************************)
(* mysql2 (external): the driver's pool lends at most MaxConnections       *)
(* handles, keeps further requests waiting without a timeout, may reject   *)
(* any of them, and closes every handle in end().                          *)
(***************************************************************************)
DriverOpen == dpc \notin {"ending", "done"}
PingAnswers(c) == DriverOpen
Lend(c) ==
    /\ DriverOpen /\ out < MaxConnections /\ c \in Conns \ made
    /\ made' = made \cup {c} /\ out' = out + 1
    /\ UNCHANGED <<released, closed>>

\* Connection.isValid: FALSE at once on a closed connection, else a ping.
Validate(c, ping, drop) == IF c \in closed THEN drop ELSE ping

\* Connection.close up to its await: release() is called unless closed.
CallRelease(c) ==
    /\ c \notin closed
    /\ released' = released \cup {c} /\ out' = out - 1
    /\ UNCHANGED <<made, closed>>

\* Mutant: close() on a closed connection never returns.
CloseReturnsAwaited(c, awaited) ==
    /\ awaited /\ closed' = closed \cup {c}
    /\ UNCHANGED <<made, released, out>>

\* Connection.close when it returns (awaited: release() was called).
CloseReturns(c, awaited) ==
    /\ awaited \/ c \in closed
    /\ closed' = closed \cup {c}
    /\ UNCHANGED <<made, released, out>>

\* Connection.close when release() rejects: closed all the same.
CloseThrows(c) ==
    /\ ReleaseMayFail
    /\ closed' = closed \cup {c}
    /\ UNCHANGED <<made, released, out>>

-----------------------------------------------------------------------------
\* The pool's lists.
\* (Mutants: one of the lists is left alone; an idle connection is relisted.)
RemoveInvalidIdle(c) == idle' = RemoveFirst(idle, c) /\ UNCHANGED connections
RemoveInvalidSlot(c) == connections' = connections \ {c} /\ UNCHANGED idle
WithIdleAgain(c) == Append(idle, c)

RemoveInvalid(c) ==
    /\ idle' = RemoveFirst(idle, c)
    /\ connections' = connections \ {c}
WithIdle(c) == IF Contains(idle, c) THEN idle ELSE Append(idle, c)

\* Mutant: processWaitingQueue shifts the request and leaves its timer armed.
ProcessQueueArmed(q, i, s) ==
    \/ /\ q = <<>> \/ i = <<>>
       /\ waitingQueue' = q /\ idle' = i /\ srv' = s
       /\ UNCHANGED <<timer, srvConn>>
    \/ /\ q # <<>> /\ i # <<>>
       /\ waitingQueue' = Tail(q) /\ idle' = Tail(i) /\ UNCHANGED timer
       /\ srv' = [s EXCEPT ![Head(q)] = Validate(Head(i), "ping", "drop")]
       /\ srvConn' = [srvConn EXCEPT ![Head(q)] = Head(i)]

(***************************************************************************)
(* processWaitingQueue on the queue q and idle list i: the first request   *)
(* leaves the queue with the first idle connection, its timer is cleared   *)
(* and an async block starts to validate that connection for it.           *)
(***************************************************************************)
ProcessWaitingQueue(q, i, s) ==
    \/ /\ q = <<>> \/ i = <<>>
       /\ waitingQueue' = q /\ idle' = i /\ srv' = s
       /\ UNCHANGED <<timer, srvConn>>
    \/ /\ q # <<>> /\ i # <<>>
       /\ waitingQueue' = Tail(q) /\ idle' = Tail(i)
       /\ timer' = [timer EXCEPT ![Head(q)] = FALSE]
       /\ srv' = [s EXCEPT ![Head(q)] = Validate(Head(i), "ping", "drop")]
       /\ srvConn' = [srvConn EXCEPT ![Head(q)] = Head(i)]

Goto(k, l, c) == pc' = [pc EXCEPT ![k] = l] /\ conn' = [conn EXCEPT ![k] = c]
ServiceGoto(k, l) == srv' = [srv EXCEPT ![k] = l] /\ UNCHANGED srvConn

-----------------------------------------------------------------------------
(***************************************************************************)
(* createConnection, on behalf of a client, of initialize or of a monitor  *)
(* run: RetryAttempts + 1 attempts with a delay between them.              *)
(***************************************************************************)
MysqlPool == dpc # "done"        \* this.mysqlPool is not null
BeginCreate(p) ==
    creating' = [creating EXCEPT ![p] = "connect"] /\ att' = [att EXCEPT ![p] = 0]
EndCreate(p) ==
    creating' = [creating EXCEPT ![p] = "no"] /\ att' = [att EXCEPT ![p] = 0]

Connected(p, c) == creating[p] = "connect" /\ Lend(c)
GaveUp(p) == creating[p] = "connect" /\ att[p] = RetryAttempts

ConnectRejected(p) ==
    /\ creating[p] = "connect" /\ att[p] < RetryAttempts
    /\ creating' = [creating EXCEPT ![p] = "backoff"]
    /\ att' = [att EXCEPT ![p] = @ + 1]
    /\ UNCHANGED <<pool, queue, client, left, init, monitor, driver, shutdown>>

RetryDelayOver(p) ==
    /\ creating[p] = "backoff"
    /\ creating' = [creating EXCEPT ![p] = "connect"] /\ UNCHANGED att
    /\ UNCHANGED <<pool, queue, client, left, init, monitor, driver, shutdown>>

-----------------------------------------------------------------------------
\* getConnection.  A call the guards refuse changes nothing and is no step.
CheckIdle(k) ==
    /\ idle # <<>>
    /\ Goto(k, Validate(Head(idle), "getPing", "getDrop"), Head(idle))
    /\ UNCHANGED <<pool, queue, create>>

CreateNew(k) ==
    /\ idle = <<>> /\ Cardinality(connections) < MaxConnections
    /\ IF MysqlPool THEN Goto(k, "create", None) /\ BeginCreate(k)
                    ELSE Goto(k, "out", None) /\ UNCHANGED create
    /\ UNCHANGED <<pool, queue>>

\* waitForConnection; processWaitingQueue finds no idle connection here.
Wait(k) ==
    /\ idle = <<>> /\ Cardinality(connections) >= MaxConnections
    /\ Goto(k, "waiting", None)
    /\ timer' = [timer EXCEPT ![k] = TRUE]
    /\ waitingQueue' = Append(waitingQueue, k)
    /\ UNCHANGED <<pool, srv, srvConn, create>>

Acquire(k) ==
    /\ CheckIdle(k) \/ CreateNew(k) \/ Wait(k)
    /\ UNCHANGED <<left, init, monitor, driver, shutdown>>

GetConnection(k) ==
    pc[k] = "out" /\ init = "ready" /\ dpc # "done" /\ Acquire(k)
GetLoop(k) == pc[k] = "loop" /\ Acquire(k)

\* Mutant: the connection is handed out and stays in the idle list.
GetValidListed(k) ==
    /\ pc[k] = "getPing" /\ PingAnswers(conn[k])
    /\ connections' = connections \cup {conn[k]}
    /\ Goto(k, "using", conn[k])
    /\ UNCHANGED <<idle, queue, create, left, init, monitor, driver, shutdown>>

GetValid(k) ==
    /\ pc[k] = "getPing" /\ PingAnswers(conn[k])
    /\ idle' = RemoveFirst(idle, conn[k])
    /\ connections' = connections \cup {conn[k]}
    /\ Goto(k, "using", conn[k])
    /\ UNCHANGED <<queue, create, left, init, monitor, driver, shutdown>>

GetInvalid(k) ==
    /\ pc[k] = "getPing" /\ Goto(k, "getDrop", conn[k])
    /\ UNCHANGED <<pool, queue, create, left, init, monitor, driver, shutdown>>

GetRelease(k) ==
    /\ pc[k] = "getDrop" /\ CallRelease(conn[k]) /\ Goto(k, "getRelease", conn[k])
    /\ UNCHANGED <<pool, queue, create, left, init, monitor, shutdown>>

GetDropped(k) ==
    /\ pc[k] \in {"getDrop", "getRelease"}
    /\ CloseReturns(conn[k], pc[k] = "getRelease")
    /\ RemoveInvalid(conn[k])
    /\ Goto(k, "loop", None)
    /\ UNCHANGED <<queue, create, left, init, monitor, shutdown>>

GetDropFails(k) ==
    /\ pc[k] = "getRelease" /\ CloseThrows(conn[k]) /\ Goto(k, "out", None)
    /\ UNCHANGED <<pool, queue, create, left, init, monitor, shutdown>>

GetCreated(k) ==
    /\ pc[k] = "create"
    /\ \E c \in Conns :
        /\ Connected(k, c)
        /\ connections' = connections \cup {c}
        /\ Goto(k, "using", c)
    /\ EndCreate(k)
    /\ UNCHANGED <<idle, queue, left, init, monitor, shutdown>>

GetCreateFails(k) ==
    /\ pc[k] = "create" /\ GaveUp(k)
    /\ EndCreate(k) /\ Goto(k, "out", None)
    /\ UNCHANGED <<pool, queue, left, init, monitor, driver, shutdown>>

\* Mutant: the timeout rejects the request and does not splice it out.
TimesOutInQueue(k) ==
    /\ pc[k] = "waiting" /\ timer[k]
    /\ timer' = [timer EXCEPT ![k] = FALSE]
    /\ Goto(k, "out", None)
    /\ UNCHANGED <<pool, waitingQueue, srv, srvConn, create, left, init, monitor,
                   driver, shutdown>>

GetTimesOut(k) ==
    /\ pc[k] = "waiting" /\ timer[k]
    /\ timer' = [timer EXCEPT ![k] = FALSE]
    /\ waitingQueue' = RemoveFirst(waitingQueue, k)
    /\ Goto(k, "out", None)
    /\ UNCHANGED <<pool, srv, srvConn, create, left, init, monitor, driver, shutdown>>

-----------------------------------------------------------------------------
\* The async block of processWaitingQueue that serves k's request.
ServeValid(k) ==
    /\ srv[k] = "ping" /\ PingAnswers(srvConn[k])
    /\ connections' = connections \cup {srvConn[k]}
    /\ Goto(k, "using", srvConn[k])
    /\ ProcessWaitingQueue(waitingQueue, idle, [srv EXCEPT ![k] = "none"])
    /\ UNCHANGED <<create, left, init, monitor, driver, shutdown>>

ServeInvalid(k) ==
    /\ srv[k] = "ping" /\ ServiceGoto(k, "drop")
    /\ UNCHANGED <<pool, waitingQueue, timer, client, create, left, init,
                   monitor, driver, shutdown>>

ServeRelease(k) ==
    /\ srv[k] = "drop" /\ CallRelease(srvConn[k]) /\ ServiceGoto(k, "release")
    /\ UNCHANGED <<pool, waitingQueue, timer, client, create, left, init,
                   monitor, shutdown>>

\* Mutant: the request whose connection was invalid is not queued again.
ServeForgets(k) ==
    /\ srv[k] \in {"drop", "release"}
    /\ CloseReturns(srvConn[k], srv[k] = "release")
    /\ connections' = connections \ {srvConn[k]}
    /\ ProcessWaitingQueue(waitingQueue, RemoveFirst(idle, srvConn[k]),
                           [srv EXCEPT ![k] = "none"])
    /\ UNCHANGED <<client, create, left, init, monitor, shutdown>>

\* The request goes back to the head of the queue, without a timer.
ServeDropped(k) ==
    /\ srv[k] \in {"drop", "release"}
    /\ CloseReturns(srvConn[k], srv[k] = "release")
    /\ connections' = connections \ {srvConn[k]}
    /\ ProcessWaitingQueue(Cons(k, waitingQueue), RemoveFirst(idle, srvConn[k]),
                           [srv EXCEPT ![k] = "none"])
    /\ UNCHANGED <<client, create, left, init, monitor, shutdown>>

\* The catch block; its own removeInvalidConnection meets a closed connection.
ServeDropFails(k) ==
    /\ srv[k] = "release" /\ CloseThrows(srvConn[k])
    /\ Goto(k, "out", None)
    /\ connections' = connections \ {srvConn[k]}
    /\ ProcessWaitingQueue(waitingQueue, RemoveFirst(idle, srvConn[k]),
                           [srv EXCEPT ![k] = "none"])
    /\ UNCHANGED <<create, left, init, monitor, shutdown>>

-----------------------------------------------------------------------------
\* releaseConnection.  A client gives back what it was handed, once.
ReleaseConnection(k) ==
    /\ pc[k] = "using" /\ dpc # "done" /\ conn[k] \in connections
    /\ Goto(k, Validate(conn[k], "putPing", "putDrop"), conn[k])
    /\ UNCHANGED <<pool, queue, create, left, init, monitor, driver, shutdown>>

\* InvalidConnectionError: the pool is destroyed or does not know it.
ReleaseRefused(k) ==
    /\ pc[k] = "using" /\ (dpc = "done" \/ conn[k] \notin connections)
    /\ Goto(k, "out", None)
    /\ UNCHANGED <<pool, queue, create, left, init, monitor, driver, shutdown>>

\* Mutant: the connection goes back to the idle list and no waiter is told.
PutValidQuietly(k) ==
    /\ pc[k] = "putPing" /\ PingAnswers(conn[k])
    /\ idle' = WithIdle(conn[k]) /\ Goto(k, "out", None)
    /\ UNCHANGED <<connections, queue, create, left, init, monitor, driver, shutdown>>

PutValid(k) ==
    /\ pc[k] = "putPing" /\ PingAnswers(conn[k])
    /\ ProcessWaitingQueue(waitingQueue, WithIdle(conn[k]), srv)
    /\ Goto(k, "out", None)
    /\ UNCHANGED <<connections, create, left, init, monitor, driver, shutdown>>

\* The ping failed, or it answered and the connection is over maxLifetime.
PutDiscard(k) ==
    /\ pc[k] = "putPing" /\ Goto(k, "putDrop", conn[k])
    /\ UNCHANGED <<pool, queue, create, left, init, monitor, driver, shutdown>>

PutRelease(k) ==
    /\ pc[k] = "putDrop" /\ CallRelease(conn[k]) /\ Goto(k, "putRelease", conn[k])
    /\ UNCHANGED <<pool, queue, create, left, init, monitor, shutdown>>

PutDropped(k) ==
    /\ pc[k] \in {"putDrop", "putRelease"}
    /\ CloseReturns(conn[k], pc[k] = "putRelease")
    /\ connections' = connections \ {conn[k]}
    /\ ProcessWaitingQueue(waitingQueue, RemoveFirst(idle, conn[k]), srv)
    /\ Goto(k, "out", None)
    /\ UNCHANGED <<create, left, init, monitor, shutdown>>

PutDropFails(k) ==
    /\ pc[k] = "putRelease" /\ CloseThrows(conn[k]) /\ Goto(k, "out", None)
    /\ UNCHANGED <<pool, queue, create, left, init, monitor, shutdown>>

-----------------------------------------------------------------------------
(***************************************************************************)
(* initialize: MinConnections connections, then the monitor is started.    *)
(* A failure leaves what was made so far in the lists; the framework then  *)
(* gives up starting, so initialize is called once.                        *)
(***************************************************************************)
PushIdle(c) == idle' = Append(idle, c) /\ connections' = connections \cup {c}

Initialize ==
    /\ init = "new"
    /\ IF MinConnections = 0
       THEN init' = "ready" /\ ticking' = TRUE /\ UNCHANGED <<left, create>>
       ELSE /\ init' = "fill" /\ UNCHANGED ticking
            /\ left' = [left EXCEPT ![Boot] = MinConnections]
            /\ BeginCreate(Boot)
    /\ UNCHANGED <<pool, queue, client, mpc, sweep, todo, sweeping, driver, shutdown>>

BootCreated ==
    /\ init = "fill"
    /\ \E c \in Conns : Connected(Boot, c) /\ PushIdle(c)
    /\ IF left[Boot] > 1
       THEN /\ left' = [left EXCEPT ![Boot] = @ - 1] /\ BeginCreate(Boot)
            /\ UNCHANGED <<init, ticking>>
       ELSE /\ left' = [left EXCEPT ![Boot] = 0] /\ EndCreate(Boot)
            /\ init' = "ready" /\ ticking' = TRUE
    /\ UNCHANGED <<queue, client, mpc, sweep, todo, sweeping, shutdown>>

BootFails ==
    /\ init = "fill" /\ GaveUp(Boot)
    /\ EndCreate(Boot) /\ init' = "failed"
    /\ UNCHANGED <<pool, queue, client, left, monitor, driver, shutdown>>

-----------------------------------------------------------------------------
(***************************************************************************)
(* monitor: cleanupIdleConnections, cleanupExpiredConnections, then        *)
(* ensureMinConnections.  Each cleanup closes a snapshot of the lists, one *)
(* connection after the other (in any order here).                         *)
(***************************************************************************)
Tick(r) ==
    /\ ticking /\ mpc[r] = "off"
    /\ \E S \in SUBSET ToSet(idle) : todo' = [todo EXCEPT ![r] = S]
    /\ mpc' = [mpc EXCEPT ![r] = "sweep"] /\ sweep' = [sweep EXCEPT ![r] = "idle"]
    /\ UNCHANGED <<pool, queue, client, create, left, init, ticking, sweeping,
                   driver, shutdown>>

SweepRelease(r) ==
    /\ mpc[r] = "sweep" /\ mpc' = [mpc EXCEPT ![r] = "release"]
    /\ \E c \in todo[r] :
        CallRelease(c) /\ sweeping' = [sweeping EXCEPT ![r] = c]
    /\ UNCHANGED <<pool, queue, client, create, left, init, ticking, sweep, todo,
                   shutdown>>

SweepDropped(r) ==
    /\ mpc[r] \in {"sweep", "release"} /\ mpc' = [mpc EXCEPT ![r] = "sweep"]
    /\ \E c \in todo[r] :
        /\ mpc[r] = "release" => c = sweeping[r]
        /\ CloseReturns(c, mpc[r] = "release")
        /\ RemoveInvalid(c)
        /\ todo' = [todo EXCEPT ![r] = @ \ {c}]
    /\ sweeping' = [sweeping EXCEPT ![r] = None]
    /\ UNCHANGED <<queue, client, create, left, init, ticking, sweep, shutdown>>

\* The error ends the whole run: no further cleanup, no ensureMinConnections.
SweepDropFails(r) ==
    /\ mpc[r] = "release" /\ CloseThrows(sweeping[r])
    /\ mpc' = [mpc EXCEPT ![r] = "off"] /\ todo' = [todo EXCEPT ![r] = {}]
    /\ sweeping' = [sweeping EXCEPT ![r] = None]
    /\ UNCHANGED <<pool, queue, client, create, left, init, ticking, sweep, shutdown>>

SweepExpired(r) ==
    /\ mpc[r] = "sweep" /\ sweep[r] = "idle" /\ todo[r] = {}
    /\ sweep' = [sweep EXCEPT ![r] = "expired"]
    /\ \E S \in SUBSET (connections \cap ToSet(idle)) :
        todo' = [todo EXCEPT ![r] = S]
    /\ UNCHANGED <<pool, queue, client, create, left, init, ticking, mpc, sweeping,
                   driver, shutdown>>

\* Mutant: the shortfall is computed without asking whether there is one.
EnsureMinAlways(r) ==
    /\ mpc[r] = "sweep" /\ sweep[r] = "expired" /\ todo[r] = {} /\ MysqlPool
    /\ mpc' = [mpc EXCEPT ![r] = "fill"]
    /\ left' = [left EXCEPT ![r] = MinConnections - Cardinality(connections)]
    /\ BeginCreate(r)
    /\ UNCHANGED <<pool, queue, client, init, ticking, sweep, todo, sweeping,
                   driver, shutdown>>

EnsureMin(r) ==
    /\ mpc[r] = "sweep" /\ sweep[r] = "expired" /\ todo[r] = {}
    /\ IF Cardinality(connections) < MinConnections /\ MysqlPool
       THEN /\ mpc' = [mpc EXCEPT ![r] = "fill"]
            /\ left' = [left EXCEPT ![r] = MinConnections - Cardinality(connections)]
            /\ BeginCreate(r)
       ELSE mpc' = [mpc EXCEPT ![r] = "off"] /\ UNCHANGED <<left, create>>
    /\ UNCHANGED <<pool, queue, client, init, ticking, sweep, todo, sweeping,
                   driver, shutdown>>

\* The next connection of the run's fill loop, made or given up.
FillNext(r) ==
    IF left[r] > 1 /\ MysqlPool
    THEN /\ left' = [left EXCEPT ![r] = @ - 1] /\ BeginCreate(r)
         /\ UNCHANGED mpc
    ELSE /\ left' = [left EXCEPT ![r] = 0] /\ EndCreate(r)
         /\ mpc' = [mpc EXCEPT ![r] = "off"]

FillCreated(r) ==
    /\ mpc[r] = "fill"
    /\ \E c \in Conns : Connected(r, c) /\ PushIdle(c)
    /\ FillNext(r)
    /\ UNCHANGED <<queue, client, init, ticking, sweep, todo, sweeping, shutdown>>

FillFails(r) ==
    /\ mpc[r] = "fill" /\ GaveUp(r) /\ FillNext(r)
    /\ UNCHANGED <<pool, queue, client, init, ticking, sweep, todo, sweeping,
                   driver, shutdown>>

-----------------------------------------------------------------------------
(***************************************************************************)
(* destroy: called once, when initialize is over.  Its first segment stops *)
(* the monitor, rejects the queued requests and calls close() on every     *)
(* pooled connection; Promise.all fails with the first close() that does.  *)
(***************************************************************************)
Destroy ==
    /\ dpc = "no" /\ init \in {"ready", "failed"}
    /\ dpc' = "closing" /\ ticking' = FALSE
    /\ pc' = [k \in Clients |-> IF Contains(waitingQueue, k) THEN "out" ELSE pc[k]]
    /\ timer' = [k \in Clients |-> timer[k] /\ ~Contains(waitingQueue, k)]
    /\ waitingQueue' = <<>>
    /\ dpending' = connections \ closed
    /\ released' = released \cup dpending'
    /\ out' = out - Cardinality(dpending')
    /\ UNCHANGED <<pool, srv, srvConn, conn, create, left, init, mpc, sweep, todo,
                   sweeping, made, closed>>

DestroyCloseReturns ==
    /\ \E c \in dpending : CloseReturns(c, TRUE) /\ dpending' = dpending \ {c}
    /\ UNCHANGED <<pool, queue, client, create, left, init, monitor, dpc>>

DestroyCloseThrows ==
    /\ \E c \in dpending : CloseThrows(c) /\ dpending' = dpending \ {c}
    /\ dpc' = "failed"
    /\ UNCHANGED <<pool, queue, client, create, left, init, monitor>>

\* Mutant: destroy waits for the holders to give their connections back.
DestroyWaits ==
    /\ dpc = "closing" /\ dpending = {} /\ connections \subseteq ToSet(idle)
    /\ dpc' = "ending" /\ connections' = {} /\ idle' = <<>>
    /\ UNCHANGED <<queue, client, create, left, init, monitor, driver, dpending>>

DestroyEnd ==
    /\ dpc = "closing" /\ dpending = {}
    /\ dpc' = "ending" /\ connections' = {} /\ idle' = <<>>
    /\ UNCHANGED <<queue, client, create, left, init, monitor, driver, dpending>>

DestroyReturns ==
    /\ dpc = "ending" /\ dpc' \in {"done", "failed"}
    /\ UNCHANGED <<pool, queue, client, create, left, init, monitor, driver, dpending>>

-----------------------------------------------------------------------------
Get(k) == \/ GetConnection(k) \/ GetLoop(k) \/ GetValid(k) \/ GetInvalid(k)
          \/ GetRelease(k) \/ GetDropped(k) \/ GetDropFails(k)
          \/ GetCreated(k) \/ GetCreateFails(k) \/ GetTimesOut(k)
Serve(k) == \/ ServeValid(k) \/ ServeInvalid(k) \/ ServeRelease(k)
            \/ ServeDropped(k) \/ ServeDropFails(k)
Put(k) == \/ PutValid(k) \/ PutDiscard(k) \/ PutRelease(k)
          \/ PutDropped(k) \/ PutDropFails(k)
GiveBack(k) == ReleaseConnection(k) \/ ReleaseRefused(k)
Boots == Initialize \/ BootCreated \/ BootFails
Monitoring(r) == \/ Tick(r) \/ SweepRelease(r) \/ SweepDropped(r)
                 \/ SweepDropFails(r) \/ SweepExpired(r) \/ EnsureMin(r)
                 \/ FillCreated(r) \/ FillFails(r)
Shutdown == \/ DestroyCloseReturns \/ DestroyCloseThrows
            \/ DestroyEnd \/ DestroyReturns

Next ==
    \/ \E k \in Clients : Get(k) \/ Serve(k) \/ GiveBack(k) \/ Put(k)
    \/ \E p \in Creators : ConnectRejected(p) \/ RetryDelayOver(p)
    \/ Boots
    \/ \E r \in Runs : Monitoring(r)
    \/ Destroy \/ Shutdown

Spec == Init /\ [][Next]_vars

(***************************************************************************)
(* mysql2 answers each ping, release and end (or rejects it), and the      *)
(* event loop runs what is ready.  Nothing says that a connection is ever  *)
(* made, that a client ever calls, or that a tick or a shutdown comes.     *)
(***************************************************************************)
Fairness ==
    /\ \A k \in Clients : WF_vars(Put(k)) /\ WF_vars(Serve(k))
    /\ WF_vars(Shutdown)

FairSpec == Spec /\ Fairness

-----------------------------------------------------------------------------
\* What an operator is shown of the pool.
Status(active, idling, waiting) ==
    LET total == active + idling IN
    [activeConnections |-> active, idleConnections |-> idling,
     totalConnections |-> total, waitingRequests |-> waiting,
     isHealthy |-> total \in MinConnections..MaxConnections]
GetStatus == Status(Cardinality(connections) - Len(idle), Len(idle), Len(waitingQueue))

-----------------------------------------------------------------------------
Queued == ToSet(waitingQueue)
Served == {k \in Clients : srv[k] # "none"}
\* The connections a client holds or a coroutine works on.
Employed == {conn[k] : k \in Clients}
              \cup {srvConn[k] : k \in {j \in Clients : srv[j] # "none"}}

(***************************************************************************)
(* Properties.                                                             *)
(***************************************************************************)
\* Between a wait and its answer a request is in the queue or in the hands
\* of one async block of processWaitingQueue, never in both and never in
\* neither: no interleaving of releases, timeouts, requeues and shutdown
\* drops a pending promise or leaves a block serving a settled one.
NoRequestLost ==
    /\ IsInjective(waitingQueue)
    /\ Queued \cap Served = {}
    /\ {k \in Clients : pc[k] = "waiting"} = Queued \cup Served

\* Where a client is at the desk of PoolDesk, by its call and the block that works
\* for it: one whose promise is settled under such a block is nowhere there.
PlaceOf(call, block) ==
    IF block # "none" THEN IF call = "waiting" THEN "counter" ELSE "astray"
    ELSE CASE call = "out" -> "away"
           [] call = "waiting" -> "line"
           [] call = "using" -> "holding"
           [] call \in PutPC -> "returning"
           [] OTHER -> "asking"
Places == [k \in Clients |-> PlaceOf(pc[k], srv[k])]
Desk == INSTANCE PoolDesk WITH line <- waitingQueue, at <- Places

\* Whatever invalid connections, timeouts, monitor runs and the shutdown do to
\* the pool, its clients see a desk with one line: they are called in the order
\* in which they joined it, unless sent back to its head, and nobody who has been
\* called is timed out, cancelled or called again.
KeepsDesk == Desk!Spec

\* A request that is being served cannot time out under the block that
\* serves it (which would strand the connection it was about to get):
\* clearTimeout comes with the shift, so an armed timer means a queued one.
TimerMeansQueued == \A k \in Clients : timer[k] => k \in Queued

\* An idle connection is listed once, even when two clients hold the same
\* connection and both give it back: it cannot be shifted for two waiters.
IdleOnce == IsInjective(idle)

\* A slot of `connections` is lost when its connection is neither idle nor
\* in anyone's hands: it never comes back and is never removed.  Only a client's
\* close() that rejects loses one (a monitor run's does not: its connection is
\* still listed); no interleaving of holders, monitor runs and shutdown does
\* (of a pool that is destroyed nobody asks).
Lost == {c \in connections : ~Contains(idle, c) /\ c \notin Employed}
OnlyFailedCloseLeaks ==
    [][\/ Lost' \subseteq Lost \/ dpc = "done"
       \/ \E k \in Clients : GetDropFails(k) \/ PutDropFails(k)]_vars

\* `connections` minus `idleConnections` counts what is in use only while every
\* idle connection is one of `connections`.  One that is not (the count may then be
\* negative, and whoever is handed it may not be able to give it back) is listed by
\* releaseConnection alone, when a connection it pinged was removed meanwhile.
Unlisted == ToSet(idle) \ connections
OnlyLateReturnUnlists ==
    [][\/ Unlisted' \subseteq Unlisted
       \/ \E k \in Clients : PutValid(k) /\ conn[k] \notin connections]_vars

\* The clients that have c in hand, or that a block serves with it.
Handlers(c) == {k \in Clients : conn[k] = c \/ (srv[k] # "none" /\ srvConn[k] = c)}

\* One client at most has to do with c, and while c is listed as idle only a
\* getConnection that has not handed it out.
Sole(c) ==
    /\ \A j, k \in Handlers(c) : j = k
    /\ Contains(idle, c) => \A k \in Handlers(c) : conn[k] = c /\ pc[k] \in GetPC

\* A connection comes to be shared in one way only: getConnection leaves it listed
\* while it validates it, and there somebody else takes it.  Whatever else happens to
\* it (returns, requeues, retries, monitor runs, shutdown), who has it has it alone.
OnlyPingedIsShared ==
    [][\A c \in Conns : Sole(c) =>
        \/ Sole(c)'
        \/ /\ Contains(idle, c) /\ Handlers(c) # {}
           /\ ~(Handlers(c)' \subseteq Handlers(c))]_vars

\* Only ensureMinConnections can leave a request waiting beside an idle
\* connection: every other step that frees a connection or queues a request
\* ends by pairing them up.
Stranded == waitingQueue # <<>> /\ idle # <<>>
OnlyFillStrands ==
    [][Stranded' => Stranded \/ \E r \in Runs : FillCreated(r)]_vars

\* destroy() returns or fails, no close() it waits for is forgotten; and
\* releaseConnection always settles, whoever else closes the connection.
CallsSettle ==
    /\ dpc = "closing" ~> dpc \in {"done", "failed"}
    /\ \A k \in Clients : pc[k] \in PutPC ~> pc[k] \notin PutPC

(***************************************************************************)
(* What the documents and the tests say of the pool and the code does not  *)
(* keep.  Each of these is refuted by a run of its own, and where shutdown *)
(* is not the subject, of a pool that nobody shuts down.                   *)
(***************************************************************************)
\* Two clients that hold connections at one time hold different ones.
ExclusiveUse ==
    \A j, k \in Clients : j # k /\ pc[j] = "using" /\ pc[k] = "using"
                            => conn[j] # conn[k]

\* Those who have called release() and not yet taken its connection off the lists.
Releasing == {k \in Clients : pc[k] \in {"getRelease", "putRelease"}}
               \cup {k \in Clients : srv[k] = "release"}
               \cup {r \in Runs : mpc[r] = "release"}

\* The pool, as its status shows it, never has more than MaxConnections; asked when
\* no release() is on its way, whose connection would be counted still.
WithinMaxConnections ==
    dpc = "no" /\ Releasing = {} => GetStatus.totalConnections <= MaxConnections

\* A queued request waits until connectionTimeout at the latest.
QueuedCanTimeOut == \A k \in Queued : timer[k]

\* destroy() cancels the requests that wait: when it is over nobody is left in the
\* queue whom no timer will take out of it.
NoWaiterAfterDestroy == dpc = "done" => \A k \in Queued : timer[k]
=============================================================================
