------------------------------- MODULE Server -------------------------------
(***************************************************************************)
(* ntw::srv::Server (src/Socket/server/Server.cpp) with its clients: the   *)
(* accept worker (onNewClientRecv), one request worker per client          *)
(* (onRequestRecv), the owner (start, stop, wait, destructor) and the      *)
(* programs that connect and call (cli::Client, FuncWrapper).              *)
(*                                                                         *)
(* A SelectManager is what BalancingSelector has of it: _run, its control   *)
(* thread and its workers; so is the list request_recv, but for the search  *)
(* for a selector, which is one step here.  A connection is two queues of   *)
(* whole messages, as Channel promises.  The buffer of a client's           *)
(* SocketSerialized is a variable of its own, because the accept worker and *)
(* the request worker both use it.                                          *)
(***************************************************************************)
EXTENDS Naturals, Sequences, FiniteSets

CONSTANTS Clients,    \* the connections, each with a srv::Client of its own
          NoClient,
          Known,      \* the calls that have an id dispatch() knows, by number
          Plans       \* what a program may be like: perSelector is the max_client
                      \* and selectors the max_threads (0 for no limit) it gives the
                      \* constructor, calls the bound on the calls of each client,
                      \* liberties what it does early

ASSUME ClientsAssumption == NoClient \notin Clients /\ IsFiniteSet(Clients)
ASSUME KnownAssumption == Known \subseteq Nat
\* "leave": a client may leave while the accept worker is busy with it.
\* "call": it may call as soon as the welcome has arrived, when the accept worker
\* may still have to clear the buffer it was sent from.
\* "stop": stop() may come before the threads have begun that start() has started.
ASSUME PlansAssumption ==
    Plans \subseteq [perSelector : Nat \ {0}, selectors : Nat, calls : [Clients -> Nat],
                    liberties : SUBSET {"leave", "call", "stop"}]

VARIABLES
    plan,       \* what the program is like
    managers,   \* the SelectManagers: new_connexion_recv, and the list of request_recv
    active,     \* _run of request_recv
    owner,      \* the thread in start(), wait() or the destructor, the next
                \* manager, and the client whose worker it joins
    stopper,    \* the thread in stop(), and the next manager
    mutex,      \* client_mutex: the client whose worker holds it, or NoClient
    listed,     \* the list clients
    place,      \* the manager each client's socket is with, 0 if none
    acc,        \* the accept worker: where it is, and with which client
    worker,     \* the request worker of each client
    buf,        \* what the buffer of request_sock holds
    conn,       \* the connection: none, up, down
    toServer,   \* messages on the way
    toClient,
    cli,        \* the client program: new, greeting, idle, calling, gone
    calls,      \* how many calls it has made
    got,        \* the last message it took, or "stop"
    met,        \* history: the clients accepted
    refused,    \* history: those request_recv did not take
    early,      \* history: those that left while the accept worker was busy with them
    told,       \* history: the calls of on_new_client and on_delete_client
    missed,     \* history: the managers stop() did not end, as they began to
                \* run after it had passed them
    dangling,   \* a thread used what was destroyed: where, and of which client
    terminated  \* std::terminate(): a thread was assigned over a joinable one

service == <<plan, managers, active>>
callers == <<owner, stopper>>
lists == <<mutex, listed, place>>
channel == <<conn, toServer, toClient>>
net == <<buf, channel>>
program == <<cli, calls, got>>
record == <<met, refused, early, told>>
history == <<record, missed, dangling, terminated>>
vars == <<service, callers, lists, acc, worker, net, program, history>>

Msg(kind, n) == [kind |-> kind, n |-> n]
Empty == Msg("empty", 0)

Manager == [running |-> FALSE, ctl |-> "none"]

Managers == 1..Len(managers)

Doing(op, i) == [op |-> op, i |-> i, at |-> NoClient]

Init ==
    /\ plan \in Plans
    /\ managers = <<Manager, Manager>>
    /\ active = FALSE
    /\ owner = Doing("new", 0)
    /\ stopper = [op |-> "idle", i |-> 0]
    /\ mutex = NoClient
    /\ listed = {}
    /\ place = [c \in Clients |-> 0]
    /\ acc = [pc |-> "none", c |-> NoClient]
    /\ worker = [c \in Clients |-> "none"]
    /\ buf = [c \in Clients |-> Empty]
    /\ conn = [c \in Clients |-> "none"]
    /\ toServer = [c \in Clients |-> <<>>]
    /\ toClient = [c \in Clients |-> <<>>]
    /\ cli = [c \in Clients |-> "new"]
    /\ calls = [c \in Clients |-> 0]
    /\ got = [c \in Clients |-> Empty]
    /\ met = {}
    /\ refused = {}
    /\ early = {}
    /\ told = [c \in Clients |-> <<>>]
    /\ missed = {}
    /\ dangling = {}
    /\ terminated = FALSE

\* send() of the server's end: what the buffer holds, if the peer is there.
SendTo(c, m) ==
    toClient' = IF conn[c] = "up" THEN [toClient EXCEPT ![c] = Append(@, m)] ELSE toClient

\* A thread that is at `step` uses the srv::Client c.
Uses(step, c) == dangling' = IF c \in listed THEN dangling ELSE {<<step, c>>}

Watched == {c \in Clients : place[c] # 0}

Size(m) == Cardinality({c \in Clients : place[c] = m})

-----------------------------------------------------------------------------
(* The accept worker.                                                      *)

AccAt(from, to) == acc.pc = from /\ acc' = [acc EXCEPT !.pc = to]

\* Variant: an accepted connection stays in the queue.
QueuedStill(c) == conn[c] # "none"

Queued(c) == conn[c] # "none" /\ c \notin met

\* while (run) { select() ... } of the worker of new_connexion_sock; select()
\* returns without a client if none is queued when the time is over, and may
\* fail, which ends the worker.
AccLoops ==
    /\ \/ AccAt("test", IF managers[1].running THEN "select" ELSE "done")
       \/ AccAt("select", "test") /\ \A c \in Clients : ~Queued(c)
       \/ AccAt("select", "done")
    /\ UNCHANGED <<service, callers, lists, worker, net, program, history>>

\* clients.emplace_back() under client_mutex, and accept().
Accept(c) ==
    /\ acc.pc = "select"
    /\ Queued(c)
    /\ mutex = NoClient
    /\ listed' = listed \cup {c}
    /\ met' = met \cup {c}
    /\ acc' = [pc |-> "add", c |-> c]
    /\ UNCHANGED <<service, callers, mutex, place, worker, net, program>>
    /\ UNCHANGED <<refused, early, told, missed, dangling, terminated>>

\* SelectManager::add: a worker is started if the manager runs.
Insert(c, m) ==
    /\ place' = [place EXCEPT ![c] = m]
    /\ worker' = IF managers[m].running THEN [worker EXCEPT ![c] = "test"] ELSE worker
    /\ Uses("add", c)
    /\ UNCHANGED <<service, callers, mutex, listed, net, program, record, missed, terminated>>

\* request_recv.add(): a selector with room.  Sizes are read one after the other
\* while workers remove theirs, so it need not be the least loaded any more.
AddRequest(c) ==
    /\ acc.c = c
    /\ AccAt("add", "greet")
    /\ \E m \in Managers \ {1} : Size(m) < plan.perSelector /\ Insert(c, m)

Full == \A m \in Managers \ {1} : Size(m) >= plan.perSelector

MayGrow == plan.selectors = 0 \/ Len(managers) - 1 < plan.selectors

\* newSelector(), up to if(_run).
GrowRequests(c) ==
    /\ acc.c = c
    /\ AccAt("add", "new")
    /\ Full /\ MayGrow
    /\ managers' = Append(managers, Manager)
    /\ UNCHANGED <<plan, active, callers, lists, worker, net, program, history>>

ReadRun(c) ==
    /\ acc.c = c
    /\ AccAt("new", IF active THEN "start" ELSE "insert")
    /\ UNCHANGED <<service, callers, lists, worker, net, program, history>>

\* SelectManager::start: the control thread is assigned to `thread`, which
\* ends the program if that is joinable already.
Launch(m) ==
    /\ managers' = [managers EXCEPT ![m].ctl = IF @ = "none" THEN "entry" ELSE @]
    /\ terminated' = (managers[m].ctl # "none")

\* stop() has passed manager m.
Passed(m) == stopper.op = "stopped" \/ (stopper.op = "stopping" /\ stopper.i > m)

StartNew(c) ==
    /\ acc.c = c
    /\ AccAt("start", "insert")
    /\ Launch(Len(managers))
    /\ missed' = IF Passed(Len(managers)) THEN missed \cup {Len(managers)} ELSE missed
    /\ UNCHANGED <<plan, active, callers, lists, worker, net, program, record, dangling>>

InsertNew(c) ==
    /\ acc.c = c
    /\ AccAt("insert", "greet")
    /\ Insert(c, Len(managers))

\* add() returns false.
TurnAway(c) ==
    /\ acc.c = c
    /\ AccAt("add", "refuse")
    /\ Full /\ ~MayGrow
    /\ refused' = refused \cup {c}
    /\ UNCHANGED <<service, callers, lists, worker, net, program, met, early, told>>
    /\ UNCHANGED <<missed, dangling, terminated>>

\* msg() with the code request_add, and shutdown(); the client stays listed.
Refuse(c) ==
    /\ acc = [pc |-> "refuse", c |-> c]
    /\ acc' = [pc |-> "test", c |-> NoClient]
    /\ SendTo(c, Msg("refusal", 0))
    /\ conn' = [conn EXCEPT ![c] = "down"]
    /\ Uses("refuse", c)
    /\ UNCHANGED <<service, callers, lists, worker, buf, toServer, program, record, missed, terminated>>

\* on_new_client(); msg(): the welcome is put into the buffer.
Greet(c) ==
    /\ acc.c = c
    /\ AccAt("greet", "welcome")
    /\ told' = [told EXCEPT ![c] = Append(@, "new")]
    /\ buf' = [buf EXCEPT ![c] = Msg("welcome", 0)]
    /\ Uses("greet", c)
    /\ UNCHANGED <<service, callers, lists, worker, channel, program, met, refused, early>>
    /\ UNCHANGED <<missed, terminated>>

\* sendCl(): send(), then clear().
Welcome(c) ==
    /\ acc.c = c
    /\ AccAt("welcome", "tidy")
    /\ SendTo(c, buf[c])
    /\ Uses("welcome", c)
    /\ UNCHANGED <<service, callers, lists, worker, buf, conn, toServer, program>>
    /\ UNCHANGED <<record, missed, terminated>>

TidyWelcome(c) ==
    /\ acc = [pc |-> "tidy", c |-> c]
    /\ acc' = [pc |-> "test", c |-> NoClient]
    /\ buf' = [buf EXCEPT ![c] = Empty]
    /\ Uses("tidy", c)
    /\ UNCHANGED <<service, callers, lists, worker, channel, program, record, missed, terminated>>

Acceptor ==
    AccLoops \/ \E c \in Clients :
        \/ Accept(c)
        \/ AddRequest(c) \/ GrowRequests(c) \/ ReadRun(c) \/ StartNew(c) \/ InsertNew(c)
        \/ TurnAway(c) \/ Refuse(c)
        \/ Greet(c) \/ Welcome(c) \/ TidyWelcome(c)

-----------------------------------------------------------------------------
(* The worker of a client.                                                 *)

At(c, from, to) == worker[c] = from /\ worker' = [worker EXCEPT ![c] = to]

Allowed(c) == place[c] # 0 /\ managers[place[c]].running

WorkerLoops(c) ==
    /\ \/ At(c, "test", IF Allowed(c) THEN "select" ELSE "done")
       \/ At(c, "select", "test") /\ toServer[c] = <<>> /\ conn[c] = "up"
       \/ At(c, "select", "done")
    /\ UNCHANGED <<service, callers, lists, acc, net, program, history>>

\* receive() of a request.
Receive(c) ==
    /\ toServer[c] # <<>>
    /\ At(c, "select", "dispatch")
    /\ buf' = [buf EXCEPT ![c] = Head(toServer[c])]
    /\ toServer' = [toServer EXCEPT ![c] = Tail(@)]
    /\ Uses("select", c)
    /\ UNCHANGED <<service, callers, lists, acc, conn, toClient, program, record, missed, terminated>>

\* receive() finds the connection gone; remove() begins with on_delete_client.
Gone(c) ==
    /\ toServer[c] = <<>>
    /\ conn[c] = "down"
    /\ buf' = [buf EXCEPT ![c] = Empty]
    /\ told' = [told EXCEPT ![c] = Append(@, "delete")]
    /\ Uses("select", c)
    /\ UNCHANGED <<service, callers, lists, acc, channel, program, met, refused, early>>
    /\ UNCHANGED <<missed, terminated>>

\* Variant: after on_delete_client the worker goes on as after a request.
ReceiveFailsGoesOn(c) == At(c, "select", "test") /\ Gone(c)

ReceiveFails(c) == At(c, "select", "lock") /\ Gone(c)

\* dispatch(): the id and the arguments are taken out of the buffer, exec()
\* clears it and stores the result; without a known id the status is wrong_id.
Dispatch(c) ==
    /\ At(c, "dispatch", "answer")
    /\ buf' = [buf EXCEPT ![c] = IF @.kind = "request" /\ @.n \in Known
                                 THEN Msg("answer", @.n)
                                 ELSE Msg("wrongId", 0)]
    /\ Uses("dispatch", c)
    /\ UNCHANGED <<service, callers, lists, acc, channel, program, record, missed, terminated>>

\* sendCl(): send() and clear(), between which only a clear() could come.
Answer(c) ==
    /\ At(c, "answer", "test")
    /\ SendTo(c, buf[c])
    /\ buf' = [buf EXCEPT ![c] = Empty]
    /\ Uses("answer", c)
    /\ UNCHANGED <<service, callers, lists, acc, conn, toServer, program, record, missed, terminated>>

\* client_mutex.lock()
Lock(c) ==
    /\ mutex = NoClient
    /\ At(c, "lock", "unwatch")
    /\ mutex' = c
    /\ UNCHANGED <<service, callers, listed, place, acc, net, program, history>>

\* Variant: the socket stays with the selector.
UnwatchNot(c) ==
    /\ At(c, "unwatch", "erase")
    /\ UNCHANGED <<service, callers, lists, acc, net, program, history>>

\* request_recv.remove(), which detaches this worker.  If wait() is at the tuple
\* it erases, wait() goes on from freed memory.
Unwatch(c) ==
    /\ At(c, "unwatch", "erase")
    /\ place' = [place EXCEPT ![c] = 0]
    /\ dangling' = IF owner.at = c THEN {<<"wait", c>>} ELSE dangling
    /\ UNCHANGED <<service, callers, mutex, listed, acc, net, program, record, missed, terminated>>

EraseOwn(c) ==
    /\ At(c, "erase", "done")
    /\ listed' = listed \ {c}
    /\ Uses("erase", c)
    /\ UNCHANGED <<service, callers, place, acc, net, program, record, missed, terminated>>

\* Variant: the mutex is not released.
EraseLocked(c) == EraseOwn(c) /\ UNCHANGED mutex

\* shutdown(), clients.erase() and unlock().
Erase(c) == EraseOwn(c) /\ mutex' = NoClient

Worker(c) ==
    \/ WorkerLoops(c) \/ Receive(c) \/ ReceiveFails(c) \/ Dispatch(c) \/ Answer(c)
    \/ Lock(c) \/ Unwatch(c) \/ Erase(c)

-----------------------------------------------------------------------------
(* The control threads of the SelectManagers.                              *)

\* run_me() sets _run, whatever stop() has made of it, and starts the workers.
\* Then the thread loops until it finds _run false again.
RunMe(m) ==
    /\ managers[m].ctl = "entry"
    /\ managers' = [managers EXCEPT ![m] = [running |-> TRUE, ctl |-> "loop"]]
    /\ acc' = IF m = 1 THEN [acc EXCEPT !.pc = "test"] ELSE acc
    /\ worker' = [c \in Clients |-> IF place[c] = m THEN "test" ELSE worker[c]]
    /\ UNCHANGED <<plan, active, callers, lists, net, program, history>>

Control == \E m \in Managers : RunMe(m)

-----------------------------------------------------------------------------
(* The owner, which starts the server and waits, and the thread that stops. *)

\* new_connexion_recv.start()
StartAccepting ==
    /\ owner.op = "new"
    /\ Launch(1)
    /\ owner' = Doing("starting", 2)
    /\ UNCHANGED <<plan, active, stopper, lists, acc, worker, net, program, record, missed, dangling>>

\* request_recv.start(): _run = true, and the loop; clients accepted in the
\* meantime get their workers by it.
StartRequests ==
    /\ owner.op = "starting"
    /\ ~active
    /\ active' = TRUE
    /\ UNCHANGED <<plan, managers, callers, lists, acc, worker, net, program, history>>

StartOne ==
    /\ owner.op = "starting"
    /\ active
    /\ owner.i \in Managers
    /\ Launch(owner.i)
    /\ owner' = [owner EXCEPT !.i = @ + 1]
    /\ UNCHANGED <<plan, active, stopper, lists, acc, worker, net, program, record, missed, dangling>>

Waits == UNCHANGED <<service, stopper, lists, acc, worker, net, program, history>>

\* start() returns, and the owner calls wait().
StartReturns ==
    /\ owner.op = "starting"
    /\ owner.i \notin Managers
    /\ owner' = Doing("waiting", 1)
    /\ Waits

\* SelectManager::wait joins the control thread, which ends when _run is false; to
\* join what was never started throws.
JoinControl ==
    /\ owner.op = "waiting"
    /\ owner.i \in Managers
    /\ \/ /\ managers[owner.i] = [running |-> FALSE, ctl |-> "loop"]
          /\ owner' = [owner EXCEPT !.op = "joining"]
       \/ managers[owner.i].ctl = "none" /\ owner' = Doing("threw", 0)
    /\ Waits

\* Variant: the accept worker is not awaited.
JoinNoAcceptor ==
    /\ owner.op = "joining"
    /\ owner.i = 1
    /\ owner' = Doing("waiting", 2)
    /\ Waits

\* The one tuple of new_connexion_recv.
JoinAcceptor ==
    /\ owner.op = "joining"
    /\ owner.i = 1
    /\ acc.pc = "done"
    /\ owner' = Doing("waiting", 2)
    /\ Waits

\* The tuples of a selector, without its mutex: on to one whose worker has not
\* ended, whose join returns when it has, and on to the next selector when there
\* is none left.  One added after stop() has no worker, which throws.
JoinWorker ==
    /\ owner.op = "joining"
    /\ owner.i > 1
    /\ LET here == {c \in Clients : place[c] = owner.i} IN
       \/ /\ owner.at = NoClient
          /\ \E c \in here :
                 \/ worker[c] = "none" /\ owner' = Doing("threw", 0)
                 \/ worker[c] \notin {"none", "done"} /\ owner' = [owner EXCEPT !.at = c]
       \/ /\ owner.at = NoClient
          /\ \A c \in here : worker[c] = "done"
          /\ owner' = Doing("waiting", owner.i + 1)
       \/ /\ owner.at # NoClient
          /\ worker[owner.at] = "done"
          /\ owner' = [owner EXCEPT !.at = NoClient]
    /\ Waits

WaitReturns ==
    /\ owner.op = "waiting"
    /\ owner.i \notin Managers
    /\ owner' = Doing("returned", 0)
    /\ Waits

Clearing ==
    /\ owner.op = "returned"
    /\ stopper.op = "stopped"
    /\ owner' = Doing("destroyed", 0)
    /\ listed' = {}
    /\ place' = [c \in Clients |-> 0]
    /\ UNCHANGED <<service, stopper, mutex, acc, worker, buf, toServer, toClient, program, history>>

\* Variant: the sockets of the clients are not closed.
DestroyLeaks == Clearing /\ UNCHANGED conn

\* The destructor, when stop() and wait() have returned: clients.clear() closes
\* every connection, and those not yet accepted go with the listening socket.
Destroy == Clearing /\ conn' = [c \in Clients |-> IF conn[c] # "none" THEN "down" ELSE "none"]

Starts == StartRequests \/ StartOne \/ StartReturns

Joins == JoinControl \/ JoinAcceptor \/ JoinWorker \/ WaitReturns

Owner == StartAccepting \/ Starts \/ Joins \/ Destroy

\* SelectManager::stop; run_me() overwrites it if it has yet to begin.
StopManager(m) ==
    /\ managers' = [managers EXCEPT ![m].running = FALSE]
    /\ missed' = IF managers[m].ctl = "entry" THEN missed \cup {m} ELSE missed
    /\ UNCHANGED <<plan, owner, lists, acc, worker, net, program, record, dangling, terminated>>

\* new_connexion_recv.stop(), when start() has returned.
StopAccepting ==
    /\ stopper.op = "idle"
    /\ owner.op \notin {"new", "starting"}
    /\ (\A m \in Managers : managers[m].ctl # "entry") \/ "stop" \in plan.liberties
    /\ StopManager(1)
    /\ stopper' = [op |-> "stopping", i |-> 2]
    /\ UNCHANGED active

\* request_recv.stop(): _run = false, and the loop.
StopRequests ==
    /\ stopper.op = "stopping"
    /\ active
    /\ active' = FALSE
    /\ UNCHANGED <<plan, managers, callers, lists, acc, worker, net, program, history>>

StopOne ==
    /\ stopper.op = "stopping"
    /\ ~active
    /\ stopper.i \in Managers
    /\ StopManager(stopper.i)
    /\ stopper' = [stopper EXCEPT !.i = @ + 1]
    /\ UNCHANGED active

StopReturns ==
    /\ stopper.op = "stopping"
    /\ stopper.i \notin Managers
    /\ stopper' = [op |-> "stopped", i |-> 0]
    /\ UNCHANGED <<service, owner, lists, acc, worker, net, program, history>>

Stops == StopRequests \/ StopOne \/ StopReturns

-----------------------------------------------------------------------------
(* The client programs.                                                    *)

\* cli::Client::connect(): the listening socket takes the connection.
Connect(c) ==
    /\ cli[c] = "new"
    /\ owner.op # "destroyed"
    /\ cli' = [cli EXCEPT ![c] = "greeting"]
    /\ conn' = [conn EXCEPT ![c] = "up"]
    /\ UNCHANGED <<service, callers, lists, acc, worker, buf, toServer, toClient, calls, got, history>>

\* receive(); on a lost connection it sets the status stop.
Take(c) ==
    /\ \/ /\ toClient[c] # <<>>
          /\ got' = [got EXCEPT ![c] = Head(toClient[c])]
          /\ toClient' = [toClient EXCEPT ![c] = Tail(@)]
       \/ /\ toClient[c] = <<>>
          /\ conn[c] = "down"
          /\ got' = [got EXCEPT ![c] = Msg("stop", 0)]
          /\ UNCHANGED toClient
    /\ cli' = [cli EXCEPT ![c] = "idle"]
    /\ UNCHANGED <<service, callers, lists, acc, worker, buf, conn, toServer, calls, history>>

\* verifyIsConnected() only reports; a refused program may call all the same.
VerifyIsConnected(c) == cli[c] = "greeting" /\ Take(c)

\* send_f(): the next message is the result, whatever it was sent for.
SendReturns(c) == cli[c] = "calling" /\ Take(c)

Takes(c) == VerifyIsConnected(c) \/ SendReturns(c)

\* cli::Client::call(): setStatus(ok), the id and the arguments, sendCl().
Call(c) ==
    /\ cli[c] = "idle"
    /\ calls[c] < plan.calls[c]
    /\ acc.c # c \/ "call" \in plan.liberties
    /\ cli' = [cli EXCEPT ![c] = "calling"]
    /\ calls' = [calls EXCEPT ![c] = @ + 1]
    /\ got' = [got EXCEPT ![c] = Empty]
    /\ toServer' = IF conn[c] = "up"
                   THEN [toServer EXCEPT ![c] = Append(@, Msg("request", calls'[c]))]
                   ELSE toServer
    /\ UNCHANGED <<service, callers, lists, acc, worker, buf, conn, toClient, history>>

\* disconnect(), the destructor, or the end of the program; what it has not taken
\* is gone with its socket.
Leave(c) ==
    /\ cli[c] \in {"greeting", "idle", "calling"}
    /\ (acc.c # c /\ c \in met) \/ "leave" \in plan.liberties
    /\ cli' = [cli EXCEPT ![c] = "gone"]
    /\ conn' = [conn EXCEPT ![c] = "down"]
    /\ toClient' = [toClient EXCEPT ![c] = <<>>]
    /\ got' = [got EXCEPT ![c] = Empty]
    /\ early' = IF acc.c = c \/ c \notin met THEN early \cup {c} ELSE early
    /\ UNCHANGED <<service, callers, lists, acc, worker, buf, toServer, calls>>
    /\ UNCHANGED <<met, refused, told, missed, dangling, terminated>>

Client(c) == Connect(c) \/ Takes(c) \/ Call(c) \/ Leave(c)

-----------------------------------------------------------------------------
Alive == dangling = {} /\ ~terminated

Next ==
    /\ Alive
    /\ \/ Acceptor
       \/ Control
       \/ Owner
       \/ StopAccepting \/ Stops
       \/ \E c \in Clients : Worker(c) \/ Client(c)

Spec == Init /\ [][Next]_vars

\* Threads are scheduled, and a client that waits for a message takes it.
\* Nobody has to start, stop, destroy, connect, call or leave.  Control threads,
\* start(), wait() and stop() take finitely many steps, and so do the clients: one
\* condition for each kind lets none of them wait for ever.
Fairness ==
    /\ WF_vars(Alive /\ Acceptor)
    /\ WF_vars(Alive /\ (Control \/ Starts \/ Joins \/ Stops))
    /\ WF_vars(Alive /\ \E c \in Clients : Takes(c))
    /\ \A c \in Clients : WF_vars(Alive /\ Worker(c))

FairSpec == Spec /\ Fairness

-----------------------------------------------------------------------------
(* Properties.                                                             *)

TypeOK ==
    /\ plan \in Plans
    /\ \A m \in Managers :
           managers[m] \in [running : BOOLEAN, ctl : {"none", "entry", "loop"}]
    /\ owner.op \in {"new", "starting", "waiting", "joining", "returned", "threw", "destroyed"}
    /\ owner.at # NoClient => owner.op = "joining" /\ owner.at \in Clients
    /\ stopper.op \in {"idle", "stopping", "stopped"}
    /\ {active, terminated} \subseteq BOOLEAN
    /\ mutex \in Clients \cup {NoClient}
    /\ listed \cup refused \cup early \subseteq Clients
    /\ listed \subseteq met
    /\ place \in [Clients -> {0} \cup (Managers \ {1})]
    /\ acc.pc \in {"none", "test", "select", "add", "new", "start", "insert", "greet", "refuse",
                   "welcome", "tidy", "done"}
    /\ acc.c \in met \cup {NoClient}
    /\ acc.pc \in {"none", "test", "select", "done"} <=> acc.c = NoClient
    /\ worker \in [Clients -> {"none", "test", "select", "dispatch", "answer", "lock",
                               "unwatch", "erase", "done"}]
    /\ conn \in [Clients -> {"none", "up", "down"}]
    /\ cli \in [Clients -> {"new", "greeting", "idle", "calling", "gone"}]
    /\ \A c \in Clients : calls[c] \in 0..plan.calls[c]
    /\ \A c \in Clients : Len(toServer[c]) <= 1 /\ Len(toClient[c]) <= 1

\* Where the accept worker is in request_recv.add().
Adding == {"add", "new", "start", "insert"}

\* Whatever the request selector watches is a client of the list, and a listed
\* client is watched unless it was refused, is being added or is being removed:
\* the two are kept by different threads, the list alone under client_mutex.
ListMatchesPool ==
    /\ Watched \subseteq listed
    /\ \A c \in listed \ Watched :
           c \in refused \/ (acc.c = c /\ acc.pc \in Adding) \/ worker[c] = "erase"

\* What was destroyed is used in three cases only: the accept worker greets a client
\* that left before its welcome; a worker that request_recv.remove() has detached
\* erases its client when wait() has returned and the server is destroyed; and
\* after stop(), wait() goes on from the tuple of a client that was removed.
DanglingCases ==
    \A use \in dangling :
        \/ use[1] \in {"greet", "welcome", "tidy"} /\ use[2] \in early
        \/ use[1] = "erase" /\ owner.op = "destroyed" /\ acc.pc = "done"
        \/ use[1] = "wait" /\ owner.op = "joining" /\ stopper.op # "idle"

\* on_new_client and on_delete_client are called in this order and once each,
\* for every client that stays until it is welcomed; never for a refused one.
ToldInOrder ==
    /\ \A c \in Clients \ early : told[c] \in {<<>>, <<"new">>, <<"new", "delete">>}
    /\ \A c \in refused : told[c] = <<>>

\* A failing select() has ended the worker of a client.
Failed(c) == worker[c] = "done" /\ Allowed(c)

\* A call returns unless the worker of the client has ended with a failing
\* select(), or the server is being stopped, and then, too, when it is destroyed.
CallReturns ==
    \A c \in Clients :
        (cli[c] = "calling") ~>
            \/ cli[c] # "calling"
            \/ Failed(c)
            \/ stopper.op # "idle" /\ owner.op # "destroyed"
            \/ ~Alive

\* A client that has gone leaves the list while the server runs, unless its worker
\* has ended with a failing select().
LostErased ==
    \A c \in Clients :
        (cli[c] = "gone" /\ place[c] # 0) ~>
            (c \notin listed \/ Failed(c) \/ stopper.op # "idle" \/ ~Alive)

\* After stop() a wait() comes to an end, unless it has come to a SelectManager that
\* began to run when stop() had passed it, or the program has gone wrong: wait()
\* itself, too, when a client is removed whose worker it joins.
StopEnds ==
    (stopper.op = "stopped") ~>
        \/ owner.op \in {"returned", "threw", "destroyed"}
        \/ owner.op = "waiting" /\ owner.i \in missed
        \/ ~Alive

(* Statements of the documentation that the code does not keep.            *)

\* Status.hpp: wrong_id is "set if a wrong function id is used with
\* Client::call".
WrongIdMeansWrongId ==
    \A c \in Clients : got[c].kind = "wrongId" => calls[c] \notin Known
=============================================================================
