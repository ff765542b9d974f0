---------------------------- MODULE ServerProofs ----------------------------
(***************************************************************************)
(* Proofs about Server for every set of clients and every set of plans:    *)
(* any number of calls, any number and size of the request selectors, any   *)
(* liberty.                                                                *)
(***************************************************************************)
EXTENDS Server, SequenceTheorems, TLAPS

USE DEF service, callers, lists, channel, net, program, record, history

WorkerPCs == {"none", "test", "select", "dispatch", "answer", "lock", "unwatch", "erase", "done"}
Stages == {"new", "starting", "waiting", "joining", "returned", "threw", "destroyed"}
ManagerStates == [running : BOOLEAN, ctl : {"none", "entry", "loop"}]

\* Where the accept worker has a client, and where a worker uses its own.
Busy == Adding \cup {"refuse", "greet", "welcome", "tidy"}
Using == {"select", "dispatch", "answer", "lock", "unwatch"}
Removing == {"lock", "unwatch", "erase"}

Accs == [pc : {"none", "test", "select", "done"} \cup Busy, c : Clients \cup {NoClient}]

Shape ==
    /\ refused \cup early \subseteq Clients
    /\ listed \subseteq met
    /\ met \subseteq Clients
    /\ place \in [Clients -> Nat]
    /\ worker \in [Clients -> WorkerPCs]
    /\ conn \in [Clients -> {"none", "up", "down"}]
    /\ acc \in Accs
    /\ acc.pc \in Busy <=> acc.c # NoClient
    /\ told \in [Clients -> Seq({"new", "delete"})]

\* The threads of the owner, and the request selectors, which are the managers
\* from the second on.
Stations ==
    /\ managers \in Seq(ManagerStates)
    /\ Len(managers) \in Nat \ {0, 1}
    /\ \A c \in Clients : place[c] # 0 => place[c] \in Managers \ {1}
    /\ owner \in [op : Stages, i : Nat, at : Clients \cup {NoClient}]
    /\ owner.op \in {"starting", "waiting", "joining"} => owner.i # 0
    /\ owner.op = "joining" => owner.i \in Managers
    /\ owner.at # NoClient => owner.op = "joining"
    /\ stopper \in [op : {"idle", "stopping", "stopped"}, i : Nat]
    /\ stopper.op = "stopping" => stopper.i # 0

Begun(m) == managers[m].ctl = "loop"
Ended(m) == Begun(m) /\ ~managers[m].running

\* Nobody works for a manager that has not begun, and none ends that nobody stops.
Beginnings ==
    /\ ~Begun(1) => acc.pc = "none"
    /\ \A m \in Managers : ~Begun(m) => ~managers[m].running
    /\ \A c \in Clients : place[c] # 0 /\ ~Begun(place[c]) => worker[c] = "none"
    /\ stopper.op = "idle" => \A m \in Managers : ~Ended(m)

\* wait() has joined the threads of manager m.
Seen(m) ==
    \/ owner.op \in {"returned", "destroyed"}
    \/ owner.op \in {"waiting", "joining"} /\ m < owner.i

\* What wait() has seen to.
Phases ==
    /\ \A m \in Managers : Seen(m) => Ended(m)
    /\ Seen(1) => acc.pc = "done"
    /\ \A c \in Clients : place[c] # 0 /\ Seen(place[c]) => worker[c] = "done"
    /\ owner.op = "joining" => Ended(owner.i)

\* A client is new to everybody until request_recv.add() returns, and a refused
\* one stays so.
Newcomer ==
    /\ acc.c \in Clients => acc.c \in met
    /\ acc.pc \in Adding \cup {"refuse"} =>
           acc.c \in listed /\ place[acc.c] = 0 /\ worker[acc.c] = "none"
    /\ acc.pc = "refuse" <=> acc.c \in refused
    /\ refused \subseteq met
    /\ \A c \in refused : place[c] = 0 /\ worker[c] = "none"

\* A worker is in a callback only while its socket is watched, until it has
\* taken it off itself.
Serving ==
    \A c \in Clients :
        /\ worker[c] # "none" => c \in met
        /\ worker[c] \in Using => place[c] # 0
        /\ worker[c] = "erase" => place[c] = 0 /\ (c \in listed \/ owner.op = "destroyed")

\* As long as the accept worker is busy with a client that stays, its connection
\* is up, and nobody has begun to remove it.
Staying ==
    /\ \A c \in Clients \ early :
           acc.c = c \/ (c \notin met /\ owner.op # "destroyed") => conn[c] # "down"
    /\ acc.pc \in {"greet", "welcome", "tidy"} /\ acc.c \notin early =>
           place[acc.c] # 0 /\ worker[acc.c] \notin Removing

Unmet(c) == c \notin met \/ c \in refused \/ (acc.c = c /\ acc.pc \in Adding)
Fresh(c) == Unmet(c) \/ (acc.c = c /\ acc.pc = "greet")

\* What the callbacks of the application were told of a client that stayed.
Told ==
    /\ \A c \in Clients : Unmet(c) => told[c] = <<>>
    /\ \A c \in Clients \ early :
           /\ Fresh(c) => told[c] = <<>>
           /\ ~Fresh(c) => told[c] \in {<<"new">>, <<"new", "delete">>}
           /\ ~Fresh(c) /\ place[c] # 0 /\ worker[c] \notin Removing => told[c] = <<"new">>

IInv ==
    /\ Shape
    /\ Stations
    /\ Beginnings
    /\ Phases
    /\ Newcomer
    /\ Serving
    /\ ListMatchesPool
    /\ Staying
    /\ Told
    /\ DanglingCases

-----------------------------------------------------------------------------
(* What the steps do to the managers.                                      *)

LEMMA LaunchEffect ==
    ASSUME Stations, NEW m \in Managers, Launch(m)
    PROVE  /\ managers' \in Seq(ManagerStates)
           /\ Len(managers') = Len(managers)
           /\ \A k \in Managers : /\ managers'[k].running = managers[k].running
                                  /\ Begun(k)' <=> Begun(k)
  <1>1. managers \in Seq(ManagerStates) /\ m \in 1..Len(managers) /\ managers[m] \in ManagerStates
    BY DEF Stations, Managers
  <1> DEFINE new == [managers[m] EXCEPT !.ctl = IF @ = "none" THEN "entry" ELSE @]
  <1>2. /\ new \in ManagerStates /\ new.running = managers[m].running
        /\ (new.ctl = "loop" <=> managers[m].ctl = "loop")
    BY <1>1 DEF ManagerStates
  <1>3. managers' = [managers EXCEPT ![m] = new]
    BY <1>1 DEF Launch
  <1> HIDE DEF new
  <1> QED
    BY <1>1, <1>2, <1>3 DEF Managers, Begun

LEMMA StopEffect ==
    ASSUME Stations, NEW m \in Managers, StopManager(m)
    PROVE  /\ managers' \in Seq(ManagerStates)
           /\ Len(managers') = Len(managers)
           /\ \A k \in Managers : /\ managers'[k].running => managers[k].running
                                  /\ Begun(k)' <=> Begun(k)
  <1>1. managers \in Seq(ManagerStates) /\ m \in 1..Len(managers) /\ managers[m] \in ManagerStates
    BY DEF Stations, Managers
  <1> DEFINE new == [managers[m] EXCEPT !.running = FALSE]
  <1>2. /\ new \in ManagerStates /\ ~new.running
        /\ new.ctl = managers[m].ctl
    BY <1>1 DEF ManagerStates
  <1>3. managers' = [managers EXCEPT ![m] = new]
    BY <1>1 DEF StopManager
  <1> HIDE DEF new
  <1> QED
    BY <1>1, <1>2, <1>3 DEF Managers, Begun

LEMMA RunEffect ==
    ASSUME Stations, NEW m \in Managers, RunMe(m)
    PROVE  /\ managers' \in Seq(ManagerStates)
           /\ Len(managers') = Len(managers)
           /\ ~Begun(m) /\ Begun(m)' /\ managers'[m].running
           /\ \A k \in Managers \ {m} : /\ managers'[k].running = managers[k].running
                                        /\ Begun(k)' <=> Begun(k)
  BY DEF Stations, Managers, ManagerStates, RunMe, Begun

LEMMA GrowEffect ==
    ASSUME Stations, NEW c \in Clients, GrowRequests(c)
    PROVE  /\ managers' \in Seq(ManagerStates)
           /\ Len(managers') = Len(managers) + 1
           /\ \A k \in Managers : managers'[k].running = managers[k].running /\ (Begun(k)' <=> Begun(k))
           /\ \A k \in Managers' \ Managers : ~managers'[k].running /\ ~Begun(k)'
  <1>1. /\ managers \in Seq(ManagerStates) /\ Len(managers) \in Nat
        /\ managers' = Append(managers, Manager)
    BY DEF Stations, GrowRequests
  <1>2. Manager \in ManagerStates /\ ~Manager.running /\ Manager.ctl # "loop"
    BY DEF Manager, ManagerStates
  <1>3. /\ managers' \in Seq(ManagerStates)
        /\ Len(managers') = Len(managers) + 1
        /\ managers'[Len(managers) + 1] = Manager
        /\ \A k \in 1..Len(managers) : managers'[k] = managers[k]
    BY <1>1, <1>2
  <1>4. \A k \in Managers' \ Managers : k = Len(managers) + 1
    BY <1>1, <1>3 DEF Managers
  <1>5. \A k \in Managers' \ Managers : managers'[k] = Manager
    BY <1>3, <1>4
  <1> HIDE DEF Manager
  <1>6. \A k \in Managers : managers'[k].running = managers[k].running /\ (Begun(k)' <=> Begun(k))
    BY <1>3 DEF Managers, Begun
  <1> QED
    BY <1>2, <1>3, <1>5, <1>6 DEF Begun

(* Nobody works for a manager that has not begun.                          *)

LEMMA BeginningsKept ==
    ASSUME Shape, Stations, Beginnings, UNCHANGED <<managers, stopper>>,
           acc.pc = "none" => acc'.pc = "none",
           \A c \in Clients : \/ place'[c] = 0
                              \/ worker'[c] = "none"
                              \/ place'[c] = place[c] /\ worker[c] # "none"
                              \/ place'[c] \in Managers /\ managers[place'[c]].running
    PROVE  Beginnings'
  <1>1. \A m \in Managers : (Begun(m)' <=> Begun(m)) /\ (Ended(m)' <=> Ended(m))
    BY DEF Begun, Ended
  <1>2. 1 \in Managers /\ Managers' = Managers
    BY DEF Stations, Managers
  <1>3. \A c \in Clients : place[c] # 0 => place[c] \in Managers
    BY DEF Stations
  <1> QED
    BY <1>1, <1>2, <1>3 DEF Beginnings

LEMMA BeginningsStep ==
    ASSUME IInv, Next
    PROVE  Beginnings'
  <1> USE DEF Shape, Stations, Accs
  <1>0. Shape /\ Stations /\ Beginnings /\ Newcomer /\ Serving
    BY DEF IInv
  <1>1. 1 \in Managers /\ \A m \in Managers : m \in Nat \ {0}
    BY <1>0 DEF Managers
  <1>2. ASSUME UNCHANGED <<managers, stopper, acc, place, worker>> PROVE Beginnings'
    BY <1>0, <1>2, BeginningsKept
  <1>3. ASSUME NEW c \in Clients, NEW m \in Managers, Launch(m),
               UNCHANGED <<stopper, place, worker>>, acc.pc = "none" => acc'.pc = "none"
        PROVE  Beginnings'
    BY <1>0, <1>1, <1>3, LaunchEffect DEF Beginnings, Ended, Managers
  <1>4. ASSUME NEW c \in Clients, NEW m \in Managers, Insert(c, m), UNCHANGED <<managers, stopper>>,
               acc.pc = "none" => acc'.pc = "none", worker[c] = "none"
        PROVE  Beginnings'
    <2>1. place' = [place EXCEPT ![c] = m]
          /\ worker' = IF managers[m].running THEN [worker EXCEPT ![c] = "test"] ELSE worker
      BY <1>4 DEF Insert
    <2>2. \A d \in Clients : d # c => place'[d] = place[d] /\ worker'[d] = worker[d]
      BY <1>0, <2>1
    <2>3. worker'[c] = "none" \/ (place'[c] \in Managers /\ managers[place'[c]].running)
      <3>1. place'[c] = m
        BY <1>0, <2>1
      <3>2. CASE managers[m].running
        BY <3>1, <3>2
      <3>3. CASE ~managers[m].running
        <4>1. worker' = worker
          BY <2>1, <3>3
        <4> QED
          BY <1>4, <4>1
      <3> QED
        BY <3>2, <3>3
    <2> QED
      BY <1>0, <1>4, <2>2, <2>3, BeginningsKept
  <1>5. CASE Acceptor
    <2>1. CASE AccLoops
      <3>1. UNCHANGED <<managers, stopper, place, worker>> /\ acc.pc # "none"
        BY <2>1 DEF AccLoops, AccAt
      <3> QED
        BY <1>0, <3>1, BeginningsKept
    <2>2. ASSUME NEW c \in Clients,
                 Accept(c) \/ ReadRun(c) \/ TurnAway(c) \/ Refuse(c) \/ Greet(c) \/ Welcome(c) \/ TidyWelcome(c)
          PROVE  Beginnings'
      <3>1. UNCHANGED <<managers, stopper, place, worker>> /\ acc.pc # "none"
        BY <2>2 DEF Accept, ReadRun, TurnAway, Refuse, Greet, Welcome, TidyWelcome, AccAt
      <3> QED
        BY <1>0, <3>1, BeginningsKept
    <2>3. ASSUME NEW c \in Clients, AddRequest(c) PROVE Beginnings'
      <3>1. PICK m \in Managers : Insert(c, m)
        BY <2>3 DEF AddRequest
      <3>2. UNCHANGED <<managers, stopper>> /\ acc.pc # "none" /\ worker[c] = "none"
        BY <1>0, <2>3 DEF AddRequest, AccAt, Insert, Newcomer, Adding
      <3> QED
        BY <1>4, <3>1, <3>2
    <2>4. ASSUME NEW c \in Clients, GrowRequests(c) PROVE Beginnings'
      <3>1. UNCHANGED <<stopper, place, worker>> /\ acc.pc # "none"
        BY <2>4 DEF GrowRequests, AccAt
      <3>2. /\ \A k \in Managers : /\ managers'[k].running = managers[k].running
                                   /\ Begun(k)' <=> Begun(k)
            /\ \A k \in Managers' \ Managers : ~managers'[k].running /\ ~Begun(k)'
        BY <1>0, <2>4, GrowEffect
      <3>3. Begun(1)'
        BY <1>0, <1>1, <3>1, <3>2 DEF Beginnings
      <3>4. \A m \in Managers' : ~Begun(m)' => ~managers'[m].running
        BY <1>0, <3>2 DEF Beginnings
      <3>5. ASSUME NEW d \in Clients, place'[d] # 0, worker'[d] # "none" PROVE Begun(place[d])'
        <4>1. place[d] \in Managers /\ Begun(place[d])
          BY <1>0, <3>1, <3>5 DEF Beginnings
        <4>2. managers'[place[d]].ctl = "loop"
          BY <3>2, <4>1 DEF Begun
        <4> QED
          BY <3>1, <4>2 DEF Begun
      <3>6. stopper'.op = "idle" => \A m \in Managers' : ~Ended(m)'
        BY <1>0, <3>1, <3>2 DEF Beginnings, Ended
      <3> QED
        BY <3>3, <3>4, <3>5, <3>6 DEF Beginnings
    <2>5. ASSUME NEW c \in Clients, StartNew(c) PROVE Beginnings'
      <3>1. Launch(Len(managers)) /\ UNCHANGED <<stopper, place, worker>> /\ acc.pc # "none"
        BY <2>5 DEF StartNew, AccAt
      <3>2. Len(managers) \in Managers
        BY <1>0 DEF Managers
      <3> QED
        BY <1>3, <2>5, <3>1, <3>2
    <2>6. ASSUME NEW c \in Clients, InsertNew(c) PROVE Beginnings'
      <3>1. Insert(c, Len(managers)) /\ UNCHANGED <<managers, stopper>> /\ acc.pc # "none" /\ worker[c] = "none"
        BY <1>0, <2>6 DEF InsertNew, AccAt, Insert, Newcomer, Adding
      <3>2. Len(managers) \in Managers
        BY <1>0 DEF Managers
      <3> QED
        BY <1>4, <3>1, <3>2
    <2> QED
      BY <1>5, <2>1, <2>2, <2>3, <2>4, <2>5, <2>6 DEF Acceptor
  <1>6. ASSUME NEW m \in Managers, RunMe(m) PROVE Beginnings'
    <2>1. /\ UNCHANGED <<stopper, place>>
          /\ acc' = (IF m = 1 THEN [acc EXCEPT !.pc = "test"] ELSE acc)
          /\ worker' = [c \in Clients |-> IF place[c] = m THEN "test" ELSE worker[c]]
      BY <1>6 DEF RunMe
    <2>2. m # 1 => acc' = acc
      BY <2>1
    <2>3. /\ Managers' = Managers /\ ~Begun(m) /\ Begun(m)' /\ managers'[m].running
          /\ \A k \in Managers \ {m} : /\ managers'[k].running = managers[k].running
                                       /\ Begun(k)' <=> Begun(k)
      BY <1>0, <1>6, RunEffect DEF Managers
    <2>4. ~Begun(1)' => acc'.pc = "none"
      BY <1>0, <1>1, <2>2, <2>3 DEF Beginnings
    <2>5. \A k \in Managers : ~Begun(k)' => ~managers'[k].running
      BY <1>0, <2>3 DEF Beginnings
    <2>6. ASSUME NEW c \in Clients, place'[c] # 0, worker'[c] # "none" PROVE Begun(place[c])'
      <3>1. place[c] \in Managers /\ (place[c] = m \/ Begun(place[c]))
        BY <1>0, <2>1, <2>6 DEF Beginnings
      <3>2. managers'[place[c]].ctl = "loop"
        BY <2>3, <3>1 DEF Begun
      <3> QED
        BY <2>1, <3>2 DEF Begun
    <2>7. stopper'.op = "idle" => \A k \in Managers : ~Ended(k)'
      BY <1>0, <2>1, <2>3 DEF Beginnings, Ended
    <2> QED
      BY <2>3, <2>4, <2>5, <2>6, <2>7 DEF Beginnings
  <1>7. CASE Owner
    <2>1. CASE StartAccepting \/ StartOne
      <3>1. PICK m \in Managers : Launch(m)
        BY <1>1, <2>1 DEF StartAccepting, StartOne
      <3>2. UNCHANGED <<stopper, place, worker, acc>>
        BY <2>1 DEF StartAccepting, StartOne
      <3> QED
        BY <1>0, <1>1, <3>1, <3>2, LaunchEffect DEF Beginnings, Ended, Managers
    <2>2. CASE StartRequests \/ StartReturns \/ Joins
      BY <1>2, <2>2 DEF StartRequests, StartReturns, Joins, JoinControl, JoinAcceptor, JoinWorker,
                        WaitReturns, Waits
    <2>3. CASE Destroy
      <3>1. UNCHANGED <<managers, stopper, acc>> /\ \A c \in Clients : place'[c] = 0
        BY <2>3 DEF Destroy, Clearing
      <3> QED
        BY <1>0, <3>1, BeginningsKept
    <2> QED
      BY <1>7, <2>1, <2>2, <2>3 DEF Owner, Starts
  <1>8. CASE StopAccepting \/ Stops
    <2>1. CASE StopAccepting \/ StopOne
      <3>1. PICK m \in Managers : StopManager(m)
        BY <1>1, <2>1 DEF StopAccepting, StopOne
      <3>2. UNCHANGED <<place, worker, acc>> /\ stopper'.op # "idle"
        BY <1>0, <2>1 DEF StopAccepting, StopOne, StopManager
      <3> QED
        BY <1>0, <1>1, <3>1, <3>2, StopEffect DEF Beginnings, Ended, Managers
    <2>2. CASE StopRequests
      BY <1>2, <2>2 DEF StopRequests
    <2>3. CASE StopReturns
      <3>1. UNCHANGED <<managers, place, worker, acc>> /\ stopper'.op # "idle"
        BY <2>3 DEF StopReturns
      <3> QED
        BY <1>0, <3>1 DEF Beginnings, Begun, Ended, Managers
    <2> QED
      BY <1>8, <2>1, <2>2, <2>3 DEF Stops
  <1>9. ASSUME NEW c \in Clients, Worker(c) PROVE Beginnings'
    <2>1. /\ UNCHANGED <<managers, stopper, acc>>
          /\ worker[c] # "none" /\ \E pc : worker' = [worker EXCEPT ![c] = pc]
          /\ place' = place \/ place' = [place EXCEPT ![c] = 0]
      BY <1>9 DEF Worker, WorkerLoops, Receive, ReceiveFails, Gone, Dispatch, Answer, Lock, Unwatch,
                  Erase, EraseOwn, At
    <2>2. \A d \in Clients : d # c => place'[d] = place[d] /\ worker'[d] = worker[d]
      BY <1>0, <2>1
    <2>3. place'[c] = place[c] \/ place'[c] = 0
      BY <1>0, <2>1
    <2> QED
      BY <1>0, <2>1, <2>2, <2>3, BeginningsKept
  <1>10. ASSUME NEW c \in Clients, Client(c) PROVE Beginnings'
    BY <1>2, <1>10 DEF Client, Connect, Takes, VerifyIsConnected, SendReturns, Take, Call, Leave
  <1> QED
    BY <1>5, <1>6, <1>7, <1>8, <1>9, <1>10 DEF Next, Control

(* wait() goes on from what has ended.                                     *)

LEMMA PhasesUnseen ==
    ASSUME Stations, Phases, ~Seen(1), UNCHANGED owner,
           \A m \in Managers : Ended(m) => Ended(m)',
           Len(managers') \in Nat,
           \A c \in Clients : place'[c] \in Nat
    PROVE  Phases'
  <1>1. \A m \in Nat \ {0} : ~Seen(m)'
    BY DEF Stations, Seen
  <1>2. \A m \in Managers' : m \in Nat \ {0}
    BY DEF Managers
  <1>3. 1 \in Nat \ {0}
    OBVIOUS
  <1>4. owner'.op = "joining" => Ended(owner.i)'
    BY DEF Phases, Stations
  <1> QED
    BY <1>1, <1>2, <1>3, <1>4 DEF Phases

LEMMA PhasesKept ==
    ASSUME Stations, Phases, UNCHANGED <<owner, acc>>, Len(managers') = Len(managers),
           \A m \in Managers : Ended(m) => Ended(m)',
           \A c \in Clients : place'[c] # 0 =>
               place'[c] = place[c] /\ (worker'[c] = worker[c] \/ ~Seen(place[c]))
    PROVE  Phases'
  <1>1. Managers' = Managers
    BY DEF Managers
  <1>2. \A m \in Nat : Seen(m)' <=> Seen(m)
    BY DEF Seen
  <1>3. 1 \in Nat /\ \A m \in Managers : m \in Nat
    BY DEF Managers
  <1>4. \A c \in Clients : place[c] # 0 => place[c] \in Managers
    BY DEF Stations
  <1> QED
    BY <1>1, <1>2, <1>3, <1>4 DEF Phases, Stations

LEMMA PhasesStep ==
    ASSUME IInv, Next, Shape', Stations'
    PROVE  Phases'
  <1>0. Shape /\ Stations /\ Beginnings /\ Phases /\ Newcomer /\ Serving
    BY DEF IInv
  <1>1. 1 \in Managers /\ Managers \subseteq Nat \ {0}
    BY <1>0 DEF Stations, Managers
  <1>2. Len(managers') \in Nat /\ \A c \in Clients : place'[c] \in Nat
    BY DEF Shape, Stations
  <1>3. ASSUME managers' = managers
        PROVE  Len(managers') = Len(managers) /\ \A m \in Managers : Ended(m) => Ended(m)'
    BY <1>3 DEF Ended, Begun
  <1>4. ASSUME NEW m \in Managers, Launch(m)
        PROVE  Len(managers') = Len(managers) /\ \A k \in Managers : Ended(k) => Ended(k)'
    BY <1>0, <1>4, LaunchEffect DEF Ended
  <1>5. ASSUME UNCHANGED <<managers, owner, acc, place, worker>> PROVE Phases'
    BY <1>0, <1>3, <1>5, PhasesKept
  <1>6. acc.pc # "done" => ~Seen(1)
    BY <1>0 DEF Phases
  <1>7. CASE Acceptor
    <2>1. acc.pc # "done" /\ UNCHANGED owner
      BY <1>7 DEF Acceptor, AccLoops, Accept, AddRequest, GrowRequests, ReadRun, StartNew, InsertNew,
                  TurnAway, Refuse, Greet, Welcome, TidyWelcome, Insert, AccAt
    <2>2. \A m \in Managers : Ended(m) => Ended(m)'
      <3>1. CASE managers' = managers
        BY <1>3, <3>1
      <3>2. CASE managers' # managers
        <4>1. PICK c \in Clients : GrowRequests(c) \/ StartNew(c)
          BY <1>7, <3>2 DEF Acceptor, AccLoops, Accept, AddRequest, ReadRun, InsertNew,
                  TurnAway, Refuse, Greet, Welcome, TidyWelcome, Insert
        <4>2. CASE GrowRequests(c)
          BY <1>0, <4>2, GrowEffect DEF Ended
        <4>3. CASE StartNew(c)
          <5>1. Len(managers) \in Managers /\ Launch(Len(managers))
            BY <1>0, <4>3 DEF StartNew, Stations, Managers
          <5> QED
            BY <1>4, <5>1
        <4> QED
          BY <4>1, <4>2, <4>3
      <3> QED
        BY <3>1, <3>2
    <2> QED
      BY <1>0, <1>2, <1>6, <2>1, <2>2, PhasesUnseen
  <1>8. ASSUME NEW m \in Managers, RunMe(m) PROVE Phases'
    <2>1. UNCHANGED <<owner, place>>
          /\ (m # 1 => acc' = acc)
          /\ worker' = [c \in Clients |-> IF place[c] = m THEN "test" ELSE worker[c]]
      BY <1>8 DEF RunMe
    <2>2. /\ ~Begun(m) /\ Len(managers') = Len(managers)
          /\ \A k \in Managers \ {m} : managers'[k].running = managers[k].running /\ (Begun(k)' <=> Begun(k))
      BY <1>0, <1>8, RunEffect
    <2>3. ~Seen(m) /\ \A k \in Managers : Ended(k) => Ended(k)'
      BY <1>0, <2>2 DEF Phases, Ended
    <2>4. CASE m = 1
      BY <1>0, <1>2, <2>1, <2>3, <2>4, PhasesUnseen
    <2>5. CASE m # 1
      <3>1. \A c \in Clients : worker'[c] = worker[c] \/ ~Seen(place[c])
        BY <2>1, <2>3
      <3> QED
        BY <1>0, <2>1, <2>2, <2>3, <2>5, <3>1, PhasesKept
    <2> QED
      BY <2>4, <2>5
  <1>9. CASE StartAccepting \/ Starts
    <2>1. CASE StartRequests
      BY <1>5, <2>1 DEF StartRequests
    <2>2. CASE StartReturns
      <3>1. owner'.op = "waiting" /\ owner'.i = 1
        BY <2>2 DEF StartReturns, Doing
      <3>2. \A m \in Nat \ {0} : ~Seen(m)'
        BY <3>1 DEF Seen
      <3> QED
        BY <1>2, <3>1, <3>2 DEF Phases, Managers
    <2>3. CASE StartAccepting \/ StartOne
      <3>1. owner'.op = "starting"
        BY <1>0, <2>3 DEF StartAccepting, StartOne, Doing, Stations
      <3> QED
        BY <3>1 DEF Phases, Seen
    <2> QED
      BY <1>9, <2>1, <2>2, <2>3 DEF Starts
  <1>10. CASE Joins \/ Destroy
    <2>1. UNCHANGED <<managers, acc, worker>> /\ (place' = place \/ \A c \in Clients : place'[c] = 0)
      BY <1>10 DEF Joins, JoinControl, JoinAcceptor, JoinWorker, WaitReturns, Waits, Destroy, Clearing
    <2>2. Managers' = Managers /\ \A m \in Managers : Ended(m)' <=> Ended(m)
      BY <2>1 DEF Managers, Ended, Begun
    <2>3. CASE JoinControl
      <3>1. CASE owner'.op = "threw"
        BY <3>1 DEF Phases, Seen
      <3>2. CASE owner'.op # "threw"
        <4>1. /\ owner.op = "waiting" /\ owner' = [owner EXCEPT !.op = "joining"]
              /\ managers[owner.i] = [running |-> FALSE, ctl |-> "loop"]
          BY <2>3, <3>2 DEF JoinControl, Doing
        <4>2. /\ owner.i \in Managers /\ Ended(owner.i) /\ owner'.i = owner.i /\ owner'.op = "joining"
              /\ place' = place
          BY <1>0, <2>3, <4>1 DEF JoinControl, Waits, Ended, Begun, Stations
        <4>3. \A m \in Nat : Seen(m)' <=> Seen(m)
          BY <4>1, <4>2 DEF Seen
        <4>4. Ended(owner.i)'
          BY <2>1, <4>2 DEF Ended, Begun
        <4> QED
          BY <1>0, <1>1, <1>2, <2>1, <2>2, <4>2, <4>3, <4>4 DEF Phases
      <3> QED
        BY <3>1, <3>2
    <2>4. CASE JoinAcceptor
      <3>1. /\ owner.op = "joining" /\ owner.i = 1 /\ acc.pc = "done"
            /\ owner'.op = "waiting" /\ owner'.i = 2 /\ place' = place
        BY <2>4 DEF JoinAcceptor, Doing, Waits
      <3>2. \A m \in Nat \ {0} : Seen(m)' => m = 1
        BY <3>1 DEF Seen
      <3>3. Ended(1)' /\ \A c \in Clients : place'[c] # 1
        BY <1>0, <1>1, <2>2, <3>1 DEF Phases, Stations
      <3> QED
        BY <1>1, <1>2, <2>1, <2>2, <3>1, <3>2, <3>3 DEF Phases
    <2>5. CASE JoinWorker
      <3>1. owner.op = "joining" /\ place' = place /\ owner.i \in Managers /\ owner.i \in Nat /\ owner.i > 1
        BY <1>0, <1>1, <2>5 DEF JoinWorker, Waits, Stations
      <3>2. CASE owner'.op = "threw"
        BY <3>2 DEF Phases, Seen
      <3>3. CASE \E c \in Clients \cup {NoClient} : owner' = [owner EXCEPT !.at = c]
        <4>1. owner'.op = owner.op /\ owner'.i = owner.i
          BY <1>0, <3>3 DEF Stations
        <4>2. \A m \in Nat : Seen(m)' <=> Seen(m)
          BY <4>1 DEF Seen
        <4>3. Ended(owner.i)'
          BY <1>0, <2>1, <3>1, <4>1 DEF Phases, Ended, Begun
        <4> QED
          BY <1>0, <1>1, <1>2, <2>1, <2>2, <3>1, <4>1, <4>2, <4>3 DEF Phases
      <3>4. CASE /\ owner' = Doing("waiting", owner.i + 1)
                 /\ \A c \in {d \in Clients : place[d] = owner.i} : worker[c] = "done"
        <4>1. owner'.op = "waiting" /\ owner'.i = owner.i + 1
          BY <3>4 DEF Doing
        <4>2. \A m \in Nat \ {0} : Seen(m)' => Seen(m) \/ m = owner.i
          BY <3>1, <4>1 DEF Seen
        <4>3. Seen(1) /\ Ended(owner.i)
          BY <1>0, <3>1 DEF Phases, Seen
        <4> QED
          BY <1>0, <1>1, <1>2, <2>1, <2>2, <3>1, <3>4, <4>1, <4>2, <4>3 DEF Phases
      <3> QED
        BY <2>5, <3>2, <3>3, <3>4 DEF JoinWorker, Doing
    <2>6. CASE WaitReturns
      <3>1. /\ owner.op = "waiting" /\ owner.i \notin Managers /\ owner'.op = "returned" /\ place' = place
            /\ owner.i \in Nat \ {0}
        BY <1>0, <2>6 DEF WaitReturns, Doing, Waits, Stations
      <3>2. \A m \in Managers : Seen(m)
        BY <1>0, <3>1 DEF Seen, Managers, Stations
      <3>3. \A c \in Clients : place[c] # 0 => place[c] \in Managers
        BY <1>0 DEF Stations
      <3> QED
        BY <1>0, <1>1, <2>1, <2>2, <3>1, <3>2, <3>3 DEF Phases
    <2>7. CASE Destroy
      <3>1. owner.op = "returned" /\ owner'.op = "destroyed" /\ \A c \in Clients : place'[c] = 0
        BY <2>7 DEF Destroy, Clearing, Doing
      <3>2. \A m \in Nat : Seen(m)
        BY <3>1 DEF Seen
      <3> QED
        BY <1>0, <1>1, <2>1, <2>2, <3>1, <3>2 DEF Phases
    <2> QED
      BY <1>10, <2>3, <2>4, <2>5, <2>6, <2>7 DEF Joins
  <1>11. CASE StopAccepting \/ Stops
    <2>1. CASE StopAccepting \/ StopOne
      <3>1. PICK m \in Managers : StopManager(m)
        BY <1>1, <2>1 DEF StopAccepting, StopOne
      <3>2. UNCHANGED <<owner, acc, place, worker>>
        BY <3>1 DEF StopManager
      <3>3. Len(managers') = Len(managers) /\ \A k \in Managers : Ended(k) => Ended(k)'
        BY <1>0, <3>1, StopEffect DEF Ended
      <3> QED
        BY <1>0, <3>2, <3>3, PhasesKept
    <2>2. CASE StopRequests \/ StopReturns
      BY <1>5, <2>2 DEF StopRequests, StopReturns
    <2> QED
      BY <1>11, <2>1, <2>2 DEF Stops
  <1>12. ASSUME NEW c \in Clients, Worker(c) PROVE Phases'
    <2>1. /\ UNCHANGED <<managers, owner, acc>>
          /\ worker[c] \notin {"none", "done"} /\ \E pc : worker' = [worker EXCEPT ![c] = pc]
          /\ place' = place \/ place' = [place EXCEPT ![c] = 0]
      <3>1. UNCHANGED <<managers, acc>>
            /\ worker[c] \notin {"none", "done"} /\ \E pc : worker' = [worker EXCEPT ![c] = pc]
        BY <1>12 DEF Worker, WorkerLoops, Receive, ReceiveFails, Gone, Dispatch, Answer, Lock, Unwatch,
                    Erase, EraseOwn, At
      <3>2. UNCHANGED owner /\ (place' = place \/ place' = [place EXCEPT ![c] = 0])
        BY <1>12 DEF Worker, WorkerLoops, Receive, ReceiveFails, Gone, Dispatch, Answer, Lock, Unwatch,
                    Erase, EraseOwn, At
      <3> QED
        BY <3>1, <3>2
    <2>2. \A d \in Clients : d # c => place'[d] = place[d] /\ worker'[d] = worker[d]
      BY <1>0, <2>1 DEF Shape
    <2>3. place'[c] = place[c] \/ place'[c] = 0
      BY <1>0, <2>1 DEF Shape
    <2>4. place[c] # 0 => ~Seen(place[c])
      BY <1>0, <2>1 DEF Phases
    <2> QED
      BY <1>0, <1>3, <2>1, <2>2, <2>3, <2>4, PhasesKept
  <1>13. ASSUME NEW c \in Clients, Client(c) PROVE Phases'
    BY <1>5, <1>13 DEF Client, Connect, Takes, VerifyIsConnected, SendReturns, Take, Call, Leave
  <1> QED
    BY <1>7, <1>8, <1>9, <1>10, <1>11, <1>12, <1>13 DEF Next, Control, Owner

(* What start(), stop(), wait() and the growth of request_recv are at.     *)

LEMMA StationsStep ==
    ASSUME IInv, Next, Shape'
    PROVE  Stations'
  <1>0. Shape /\ Stations /\ Newcomer
    BY DEF IInv
  <1> USE DEF Stations
  <1>1. 1 \in Managers /\ Len(managers) \in Managers \ {1}
    BY <1>0 DEF Managers
  <1>2. ASSUME managers' \in Seq(ManagerStates), Len(managers') \in {Len(managers), Len(managers) + 1},
               \A c \in Clients : place'[c] \in {0, place[c]} \cup (Managers \ {1}),
               UNCHANGED <<owner, stopper>>
        PROVE  Stations'
    <2>1. Managers \subseteq Managers' /\ Len(managers') \in Nat \ {0, 1}
      BY <1>0, <1>2 DEF Managers
    <2>2. \A c \in Clients : place'[c] # 0 => place'[c] \in Managers' \ {1}
      BY <1>0, <1>2, <2>1
    <2> QED
      BY <1>0, <1>2, <2>1, <2>2
  <1>3. ASSUME Len(managers') = Len(managers), managers' \in Seq(ManagerStates), UNCHANGED place
        PROVE  Managers' = Managers /\ \A c \in Clients : place'[c] # 0 => place'[c] \in Managers' \ {1}
    BY <1>0, <1>3 DEF Managers
  <1>4. CASE Acceptor
    <2>1. ASSUME NEW c \in Clients, AddRequest(c) \/ InsertNew(c) PROVE Stations'
      <3>1. PICK m \in Managers \ {1} : place' = [place EXCEPT ![c] = m]
        BY <1>1, <2>1 DEF AddRequest, InsertNew, Insert
      <3>2. UNCHANGED <<managers, owner, stopper>>
        BY <2>1 DEF AddRequest, InsertNew, Insert
      <3> QED
        BY <1>0, <1>2, <3>1, <3>2 DEF Shape
    <2>2. ASSUME NEW c \in Clients, GrowRequests(c) PROVE Stations'
      <3>1. UNCHANGED <<place, owner, stopper>>
        BY <2>2 DEF GrowRequests
      <3> QED
        BY <1>0, <1>2, <2>2, <3>1, GrowEffect
    <2>3. ASSUME NEW c \in Clients, StartNew(c) PROVE Stations'
      <3>1. Launch(Len(managers)) /\ UNCHANGED <<place, owner, stopper>>
        BY <2>3 DEF StartNew
      <3> QED
        BY <1>0, <1>1, <1>2, <3>1, LaunchEffect
    <2>4. CASE /\ ~\E c \in Clients : AddRequest(c) \/ InsertNew(c) \/ GrowRequests(c) \/ StartNew(c)
      <3>1. UNCHANGED <<managers, place, owner, stopper>>
        BY <1>4, <2>4 DEF Acceptor, AccLoops, Accept, ReadRun, TurnAway, Refuse, Greet, Welcome, TidyWelcome
      <3> QED
        BY <1>0, <1>2, <3>1
    <2> QED
      BY <2>1, <2>2, <2>3, <2>4
  <1>5. ASSUME NEW m \in Managers, RunMe(m) PROVE Stations'
    <2>1. UNCHANGED <<place, owner, stopper>>
      BY <1>5 DEF RunMe
    <2> QED
      BY <1>0, <1>2, <1>5, <2>1, RunEffect
  <1>6. CASE Owner
    <2>1. CASE StartAccepting \/ StartOne
      <3>1. PICK m \in Managers : Launch(m)
        BY <1>1, <2>1 DEF StartAccepting, StartOne
      <3>2. /\ UNCHANGED <<place, stopper>>
            /\ owner' \in [op : Stages, i : Nat \ {0}, at : Clients \cup {NoClient}]
            /\ owner'.op = "starting" /\ owner'.at = NoClient
        BY <1>0, <2>1 DEF StartAccepting, StartOne, Doing, Stages
      <3>3. managers' \in Seq(ManagerStates) /\ Len(managers') = Len(managers)
        BY <1>0, <3>1, LaunchEffect
      <3> QED
        BY <1>0, <1>3, <3>2, <3>3
    <2>2. CASE StartRequests
      BY <1>0, <1>2, <2>2 DEF StartRequests
    <2>3. CASE StartReturns \/ Joins
      <3>1. UNCHANGED <<managers, place, stopper>>
        BY <2>3 DEF StartReturns, Joins, JoinControl, JoinAcceptor, JoinWorker, WaitReturns, Waits
      <3>2. \/ \E op \in {"waiting", "threw", "returned"}, i \in Nat :
                  owner' = Doing(op, i) /\ (op = "waiting" => i # 0)
            \/ owner.op = "waiting" /\ owner.i \in Managers /\ owner' = [owner EXCEPT !.op = "joining"]
            \/ owner.op = "joining" /\ \E c \in Clients \cup {NoClient} : owner' = [owner EXCEPT !.at = c]
        <4>1. CASE StartReturns \/ JoinAcceptor \/ WaitReturns
          BY <1>0, <4>1 DEF StartReturns, JoinAcceptor, WaitReturns
        <4>2. CASE JoinControl
          BY <1>0, <4>2 DEF JoinControl
        <4>3. CASE JoinWorker
          BY <1>0, <4>3 DEF JoinWorker
        <4> QED
          BY <2>3, <4>1, <4>2, <4>3 DEF Joins
      <3>3. /\ owner' \in [op : Stages, i : Nat, at : Clients \cup {NoClient}]
            /\ owner'.op \in {"starting", "waiting", "joining"} => owner'.i # 0
            /\ owner'.op = "joining" => owner'.i \in Managers
            /\ owner'.at # NoClient => owner'.op = "joining"
        BY <1>0, <3>2 DEF Doing, Stages
      <3> QED
        BY <1>0, <1>3, <3>1, <3>3
    <2>4. CASE Destroy
      <3>1. /\ UNCHANGED <<managers, stopper>> /\ \A c \in Clients : place'[c] = 0
            /\ owner' = Doing("destroyed", 0)
        BY <2>4 DEF Destroy, Clearing
      <3> QED
        BY <1>0, <3>1 DEF Doing, Stages, Managers
    <2> QED
      BY <1>6, <2>1, <2>2, <2>3, <2>4 DEF Owner, Starts
  <1>7. CASE StopAccepting \/ Stops
    <2>1. CASE StopAccepting \/ StopOne
      <3>1. PICK m \in Managers : StopManager(m)
        BY <1>1, <2>1 DEF StopAccepting, StopOne
      <3>2. managers' \in Seq(ManagerStates) /\ Len(managers') = Len(managers)
        BY <1>0, <3>1, StopEffect
      <3>3. UNCHANGED <<owner, place>>
        BY <3>1 DEF StopManager
      <3>4. /\ stopper' \in [op : {"idle", "stopping", "stopped"}, i : Nat]
            /\ stopper'.op = "stopping" => stopper'.i # 0
        BY <1>0, <2>1 DEF StopAccepting, StopOne
      <3> QED
        BY <1>0, <1>3, <3>2, <3>3, <3>4
    <2>2. CASE StopRequests
      BY <1>0, <1>2, <2>2 DEF StopRequests
    <2>3. CASE StopReturns
      <3>1. UNCHANGED <<managers, owner, place>> /\ stopper' = [op |-> "stopped", i |-> 0]
        BY <2>3 DEF StopReturns
      <3> QED
        BY <1>0, <1>3, <3>1
    <2> QED
      BY <1>7, <2>1, <2>2, <2>3 DEF Stops
  <1>8. ASSUME NEW c \in Clients, Worker(c) PROVE Stations'
    <2>1. UNCHANGED <<managers, owner, stopper>> /\ (place' = place \/ place' = [place EXCEPT ![c] = 0])
      BY <1>8 DEF Worker, WorkerLoops, Receive, ReceiveFails, Gone, Dispatch, Answer, Lock, Unwatch,
                  Erase, EraseOwn, At
    <2> QED
      BY <1>0, <1>2, <2>1 DEF Shape
  <1>9. ASSUME NEW c \in Clients, Client(c) PROVE Stations'
    <2>1. UNCHANGED <<managers, place, owner, stopper>>
      BY <1>9 DEF Client, Connect, Takes, VerifyIsConnected, SendReturns, Take, Call, Leave
    <2> QED
      BY <1>0, <1>2, <2>1
  <1> QED
    BY <1>4, <1>5, <1>6, <1>7, <1>8, <1>9 DEF Next, Control

(* What the threads destroy and use.                                       *)

LEMMA DanglingStep ==
    ASSUME IInv, Next
    PROVE  DanglingCases'
  <1>0. /\ Shape /\ Stations /\ Beginnings /\ Phases /\ Newcomer /\ Serving
        /\ ListMatchesPool /\ Staying /\ dangling = {}
    BY DEF IInv, Next, Alive
  <1>1. ASSUME dangling' = {} PROVE DanglingCases'
    BY <1>1 DEF DanglingCases
  <1>2. ASSUME NEW step, NEW c \in Clients, Uses(step, c), c \in listed PROVE DanglingCases'
    BY <1>0, <1>1, <1>2 DEF Uses
  <1>3. CASE Acceptor
    <2>1. ASSUME NEW c \in Clients, AddRequest(c) \/ InsertNew(c) \/ Refuse(c) PROVE DanglingCases'
      <3>1. c \in listed /\ \E step : Uses(step, c)
        BY <1>0, <2>1 DEF AddRequest, InsertNew, Refuse, AccAt, Insert, Newcomer, Adding
      <3> QED
        BY <1>2, <3>1
    <2>2. ASSUME NEW c \in Clients, Greet(c) \/ Welcome(c) \/ TidyWelcome(c) PROVE DanglingCases'
      <3>1. /\ acc.c = c /\ acc.pc \in {"greet", "welcome", "tidy"} /\ early' = early
            /\ Uses("greet", c) \/ Uses("welcome", c) \/ Uses("tidy", c)
        BY <2>2 DEF Greet, Welcome, TidyWelcome, AccAt
      <3>2. c \notin early => c \in listed
        BY <1>0, <3>1 DEF Staying, ListMatchesPool, Watched
      <3> QED
        BY <1>0, <3>1, <3>2 DEF Uses, DanglingCases
    <2>3. ASSUME NEW c \in Clients, Accept(c) \/ GrowRequests(c) \/ ReadRun(c) \/ StartNew(c) \/ TurnAway(c)
          PROVE  DanglingCases'
      BY <1>0, <1>1, <2>3 DEF Accept, GrowRequests, ReadRun, StartNew, TurnAway
    <2>4. CASE AccLoops
      BY <1>0, <1>1, <2>4 DEF AccLoops
    <2> QED
      BY <1>3, <2>1, <2>2, <2>3, <2>4 DEF Acceptor
  <1>4. CASE Control
    BY <1>0, <1>1, <1>4 DEF Control, RunMe
  <1>5. CASE Owner
    <2>1. dangling' = dangling
      BY <1>5 DEF Owner, StartAccepting, Starts, StartRequests, StartOne, StartReturns, Joins, JoinControl,
                  JoinAcceptor, JoinWorker, WaitReturns, Waits, Destroy, Clearing
    <2> QED
      BY <1>0, <1>1, <2>1
  <1>6. CASE StopAccepting \/ Stops
    <2>1. dangling' = dangling
      BY <1>6 DEF StopAccepting, Stops, StopRequests, StopOne, StopManager, StopReturns
    <2> QED
      BY <1>0, <1>1, <2>1
  <1>7. ASSUME NEW c \in Clients, Worker(c) PROVE DanglingCases'
    <2>1. CASE WorkerLoops(c) \/ Lock(c)
      BY <1>0, <1>1, <2>1 DEF WorkerLoops, Lock
    <2>2. CASE Receive(c) \/ ReceiveFails(c) \/ Dispatch(c) \/ Answer(c)
      <3>1. worker[c] \in Using /\ \E step : Uses(step, c)
        BY <2>2 DEF Receive, ReceiveFails, Gone, Dispatch, Answer, At, Using
      <3>2. c \in listed
        BY <1>0, <3>1 DEF Serving, ListMatchesPool, Watched
      <3> QED
        BY <1>2, <3>1, <3>2
    <2>3. CASE Unwatch(c)
      <3>1. dangling' = (IF owner.at = c THEN {<<"wait", c>>} ELSE dangling)
            /\ UNCHANGED <<owner, stopper>>
        BY <2>3 DEF Unwatch
      <3>2. owner.at = c => owner.op = "joining" /\ stopper.op # "idle"
        BY <1>0, ClientsAssumption DEF Stations, Beginnings, Phases
      <3> QED
        BY <1>0, <3>1, <3>2 DEF DanglingCases
    <2>4. CASE Erase(c)
      <3>1. worker[c] = "erase" /\ Uses("erase", c) /\ UNCHANGED <<owner, acc>>
        BY <2>4 DEF Erase, EraseOwn, At
      <3>2. c \notin listed => owner.op = "destroyed" /\ acc.pc = "done"
        BY <1>0, <3>1 DEF Serving, Phases, Seen
      <3> QED
        BY <1>0, <3>1, <3>2 DEF Uses, DanglingCases
    <2> QED
      BY <1>7, <2>1, <2>2, <2>3, <2>4 DEF Worker
  <1>8. ASSUME NEW c \in Clients, Client(c) PROVE DanglingCases'
    <2>1. dangling' = dangling
      BY <1>8 DEF Client, Connect, Takes, VerifyIsConnected, SendReturns, Take, Call, Leave
    <2> QED
      BY <1>0, <1>1, <2>1
  <1> QED
    BY <1>3, <1>4, <1>5, <1>6, <1>7, <1>8 DEF Next

(* What the steps append to told.                                          *)

LEMMA AppendType ==
    \A q \in Seq({"new", "delete"}), x \in {"new", "delete"} : Append(q, x) \in Seq({"new", "delete"})
  OBVIOUS

LEMMA AppendNew == Append(<<>>, "new") = <<"new">>
  OBVIOUS

LEMMA AppendDelete == Append(<<"new">>, "delete") = <<"new", "delete">>
  <1> DEFINE s == Append(<<"new">>, "delete")
             t == <<"new", "delete">>
  <1>1. s \in Seq({"new", "delete"}) /\ t \in Seq({"new", "delete"})
    OBVIOUS
  <1>2. Len(s) = 2 /\ Len(t) = 2
    OBVIOUS
  <1>3. s[1] = t[1] /\ s[2] = t[2]
    OBVIOUS
  <1>4. \A i \in 1..Len(s) : s[i] = t[i]
    <2>1. 1..Len(s) = {1, 2}
      BY <1>2
    <2> QED
      BY <1>3, <2>1
  <1> HIDE DEF s, t
  <1>5. s = t
    BY <1>1, <1>2, <1>4, SeqEqual
  <1> QED
    BY <1>5 DEF s, t

(* What is left of the inductive invariant, action by action.              *)

LEMMA RestStep ==
    ASSUME IInv, Next
    PROVE  Shape' /\ Newcomer' /\ Serving' /\ ListMatchesPool' /\ Staying' /\ Told'
  <1> DEFINE Rest == Shape /\ Newcomer /\ Serving /\ ListMatchesPool /\ Staying /\ Told
  <1>a. Rest /\ Stations /\ Beginnings /\ Phases
    BY DEF IInv
  <1>b. owner.op = "destroyed" \/ owner.op = "returned" =>
            acc.pc = "done" /\ \A c \in Clients : place[c] # 0 => worker[c] = "done"
    BY <1>a DEF Phases, Seen
  <1>c. Managers \subseteq Nat \ {0} /\ Len(managers) \in Nat \ {0}
    BY <1>a DEF Stations, Managers
  <1> HIDE DEF Rest
  <1> USE ClientsAssumption
          DEF Shape, WorkerPCs, Accs, Busy, Adding, Using, Removing, Newcomer, Serving,
              ListMatchesPool, Watched, Staying, Unmet, Fresh, Told
  <1>d. ASSUME NEW c \in Clients, NEW m \in Nat \ {0}, Insert(c, m),
               acc.c = c, acc.pc \in {"add", "insert"}, acc' = [acc EXCEPT !.pc = "greet"],
               UNCHANGED <<owner, listed, conn, met, refused, early, told>>
        PROVE  Rest'
    <2>1. /\ c \in listed /\ place[c] = 0 /\ worker[c] = "none"
          /\ place' = [place EXCEPT ![c] = m]
          /\ worker' = worker \/ worker' = [worker EXCEPT ![c] = "test"]
      BY <1>a, <1>d DEF Rest, Insert
    <2>2. /\ place'[c] = m /\ worker'[c] \in {"none", "test"}
          /\ \A d \in Clients : d # c => place'[d] = place[d] /\ worker'[d] = worker[d]
      BY <1>a, <2>1 DEF Rest
    <2>3. acc'.c = c /\ acc'.pc = "greet" /\ acc' \in Accs
      BY <1>a, <1>d DEF Rest
    <2>4. Shape'
      <3>1. place' \in [Clients -> Nat] /\ worker' \in [Clients -> WorkerPCs]
        BY <1>a, <1>d, <2>1 DEF Rest
      <3> QED
        BY <1>a, <1>d, <2>3, <3>1 DEF Rest
    <2>5. Newcomer'
      BY <1>a, <1>d, <2>1, <2>2, <2>3 DEF Rest
    <2>6. Serving' /\ ListMatchesPool'
      BY <1>a, <1>d, <2>1, <2>2, <2>3 DEF Rest
    <2>7. Staying'
      BY <1>a, <1>d, <2>1, <2>2, <2>3 DEF Rest
    <2>8. Told'
      BY <1>a, <1>d, <2>1, <2>2, <2>3 DEF Rest
    <2> QED
      BY <2>4, <2>5, <2>6, <2>7, <2>8 DEF Rest
  <1>1. CASE AccLoops
    BY <1>a, <1>b, <1>c, <1>1 DEF Rest, AccLoops, AccAt
  <1>2. ASSUME NEW c \in Clients, Accept(c) PROVE Rest'
    BY <1>a, <1>b, <1>c, <1>2 DEF Rest, Accept, Queued
  <1>3. ASSUME NEW c \in Clients, AddRequest(c) \/ InsertNew(c) PROVE Rest'
    <2>1. PICK m \in Managers : Insert(c, m)
      BY <1>3, <1>c DEF AddRequest, InsertNew, Managers
    <2>2. UNCHANGED <<owner, listed, conn, met, refused, early, told>>
      BY <1>3, <2>1 DEF AddRequest, InsertNew, Insert
    <2>3. acc.c = c /\ acc.pc \in {"add", "insert"} /\ acc' = [acc EXCEPT !.pc = "greet"]
      BY <1>3 DEF AddRequest, InsertNew, AccAt
    <2> QED
      BY <1>c, <1>d, <2>1, <2>2, <2>3
  <1>4. ASSUME NEW c \in Clients, GrowRequests(c) PROVE Rest'
    BY <1>a, <1>b, <1>c, <1>4 DEF Rest, GrowRequests, AccAt
  <1>5. ASSUME NEW c \in Clients, ReadRun(c) PROVE Rest'
    BY <1>a, <1>b, <1>c, <1>5 DEF Rest, ReadRun, AccAt
  <1>6. ASSUME NEW c \in Clients, StartNew(c) PROVE Rest'
    BY <1>a, <1>b, <1>c, <1>6 DEF Rest, StartNew, AccAt
  <1>7. ASSUME NEW c \in Clients, TurnAway(c) PROVE Rest'
    <2>1. acc.c = c /\ acc.pc = "add" /\ acc' = [acc EXCEPT !.pc = "refuse"]
      BY <1>7 DEF TurnAway, AccAt
    <2>2. /\ UNCHANGED <<owner, place, listed, worker, conn, met, early, told>>
          /\ refused' = refused \cup {c}
      BY <1>7 DEF TurnAway
    <2>3. acc'.c = c /\ acc'.pc = "refuse" /\ acc' \in Accs
      BY <1>a, <2>1 DEF Rest
    <2>4. Shape' /\ Newcomer'
      BY <1>a, <2>1, <2>2, <2>3 DEF Rest
    <2>5. Serving' /\ ListMatchesPool' /\ Staying'
      BY <1>a, <2>1, <2>2 DEF Rest
    <2>6. Told'
      BY <1>a, <2>1, <2>2 DEF Rest
    <2> QED
      BY <2>4, <2>5, <2>6 DEF Rest
  <1>8. ASSUME NEW c \in Clients, Refuse(c) PROVE Rest'
    BY <1>a, <1>b, <1>c, <1>8 DEF Rest, Refuse
  <1>9. ASSUME NEW c \in Clients, Greet(c) PROVE Rest'
    <2>0. Shape /\ Newcomer /\ Serving /\ ListMatchesPool /\ Staying /\ Told
      BY <1>a DEF Rest
    <2>1. /\ acc.c = c /\ acc.pc = "greet"
          /\ acc'.c = c /\ acc'.pc = "welcome"
          /\ acc' \in Accs
      BY <2>0, <1>9 DEF Greet, AccAt
    <2>2. /\ UNCHANGED <<owner, place, listed, worker, conn, met, refused, early>>
      BY <1>9 DEF Greet
    <2>3. told' = [told EXCEPT ![c] = Append(told[c], "new")]
      BY <1>9 DEF Greet
    <2>4. told' \in [Clients -> Seq({"new", "delete"})]
      BY <2>0, <2>3, AppendType
    <2>5. c \notin early => told'[c] = <<"new">>
      <3>1. c \notin early => told[c] = <<>>
        BY <2>0, <2>1
      <3> QED
        BY <2>0, <2>3, <3>1, AppendNew
    <2>6. \A d \in Clients \ {c} : told'[d] = told[d]
      BY <2>0, <2>3
    <2>7. Shape' /\ Newcomer'
      BY <2>0, <2>1, <2>2, <2>4
    <2>8. Serving' /\ ListMatchesPool' /\ Staying'
      BY <2>0, <2>1, <2>2
    <2>9. Told'
      <3>1. ~Unmet(c)' /\ ~Fresh(c)'
        BY <2>0, <2>1, <2>2
      <3>2. ASSUME NEW d \in Clients \ {c} PROVE (Unmet(d)' <=> Unmet(d)) /\ (Fresh(d)' <=> Fresh(d))
        BY <2>0, <2>1, <2>2
      <3>3. ASSUME NEW d \in Clients PROVE Unmet(d)' => told'[d] = <<>>
        BY <2>0, <2>6, <3>1, <3>2
      <3>4. ASSUME NEW d \in Clients \ early
             PROVE /\ Fresh(d)' => told'[d] = <<>>
                   /\ ~Fresh(d)' => told'[d] \in {<<"new">>, <<"new", "delete">>}
                   /\ ~Fresh(d)' /\ place'[d] # 0 /\ worker'[d] \notin Removing => told'[d] = <<"new">>
        <4>1. CASE d = c
          BY <2>5, <3>1, <4>1
        <4>2. CASE d # c
          <5>1. told'[d] = told[d] /\ (Fresh(d)' <=> Fresh(d)) /\ worker'[d] = worker[d]
            BY <2>0, <2>2, <2>6, <3>2, <4>2
          <5> HIDE DEF Fresh
          <5> QED
            BY <2>0, <2>2, <5>1
        <4> QED
          BY <4>1, <4>2
      <3> QED
        BY <2>2, <3>3, <3>4
    <2> QED
      BY <2>7, <2>8, <2>9 DEF Rest
  <1>10. ASSUME NEW c \in Clients, Welcome(c) PROVE Rest'
    BY <1>a, <1>b, <1>c, <1>10 DEF Rest, Welcome, AccAt
  <1>11. ASSUME NEW c \in Clients, TidyWelcome(c) PROVE Rest'
    BY <1>a, <1>b, <1>c, <1>11 DEF Rest, TidyWelcome
  <1>12. ASSUME NEW m \in Managers, RunMe(m) PROVE Rest'
    <2>0. Shape /\ Newcomer /\ Serving /\ ListMatchesPool /\ Staying /\ Told
      BY <1>a DEF Rest
    <2>1. /\ UNCHANGED <<owner, place, listed, conn, met, refused, early, told>>
          /\ acc' = (IF m = 1 THEN [acc EXCEPT !.pc = "test"] ELSE acc)
          /\ worker' = [c \in Clients |-> IF place[c] = m THEN "test" ELSE worker[c]]
      BY <1>12 DEF RunMe
    <2>2. ~Begun(m)
      BY <1>a, <1>12, RunEffect
    <2>3. \A c \in Clients : \/ worker'[c] = worker[c]
                             \/ place[c] # 0 /\ worker[c] = "none" /\ worker'[c] = "test"
      BY <1>a, <1>c, <2>1, <2>2 DEF Beginnings
    <2>4. /\ acc' \in Accs /\ acc'.c = acc.c
          /\ \/ acc'.pc = acc.pc
             \/ acc.pc = "none" /\ acc'.pc = "test"
      BY <1>a, <2>0, <2>1, <2>2 DEF Beginnings
    <2>5. worker' \in [Clients -> WorkerPCs]
      BY <2>0, <2>1
    <2>6. Shape' /\ Newcomer'
      BY <2>0, <2>1, <2>3, <2>4, <2>5
    <2>7. Serving'
      BY <2>0, <2>1, <2>3
    <2>8. ListMatchesPool' /\ Staying'
      BY <2>0, <2>1, <2>3, <2>4
    <2>9. Told'
      BY <2>0, <2>1, <2>3, <2>4
    <2> QED
      BY <2>6, <2>7, <2>8, <2>9 DEF Rest
  <1>13. CASE StartAccepting
    BY <1>a, <1>b, <1>c, <1>13 DEF Rest, StartAccepting, Doing
  <1>14. CASE StartRequests
    BY <1>a, <1>b, <1>c, <1>14 DEF Rest, StartRequests
  <1>15. CASE StartOne
    BY <1>a, <1>b, <1>c, <1>15 DEF Rest, StartOne
  <1>16. CASE StartReturns
    BY <1>a, <1>b, <1>c, <1>16 DEF Rest, StartReturns, Waits, Doing
  <1>17. CASE Joins
    <2>1. UNCHANGED <<acc, place, listed, worker, conn, met, refused, early, told>>
      BY <1>17 DEF Joins, JoinControl, JoinAcceptor, JoinWorker, WaitReturns, Waits
    <2>2. owner.op \in {"waiting", "joining"}
      BY <1>17 DEF Joins, JoinControl, JoinAcceptor, JoinWorker, WaitReturns
    <2> QED
      BY <1>a, <2>1, <2>2 DEF Rest
  <1>18. CASE Destroy
    BY <1>a, <1>b, <1>c, <1>18 DEF Rest, Destroy, Clearing, Doing
  <1>19. CASE StopAccepting
    BY <1>a, <1>b, <1>c, <1>19 DEF Rest, StopAccepting, StopManager
  <1>20. CASE Stops
    BY <1>a, <1>b, <1>c, <1>20 DEF Rest, Stops, StopRequests, StopOne, StopManager, StopReturns
  <1>21. ASSUME NEW c \in Clients, WorkerLoops(c) PROVE Rest'
    <2>0. Shape /\ Newcomer /\ Serving /\ ListMatchesPool /\ Staying /\ Told
      BY <1>a DEF Rest
    <2>1. PICK pc \in {"test", "select", "done"} :
              /\ worker' = [worker EXCEPT ![c] = pc]
              /\ pc = "select" => place[c] # 0
      BY <1>21 DEF WorkerLoops, At, Allowed
    <2>2. worker[c] \in {"test", "select"} /\ UNCHANGED <<owner, acc, place, listed, conn, met, refused, early, told>>
      BY <1>21 DEF WorkerLoops, At
    <2>3. /\ worker'[c] = pc
          /\ \A d \in Clients \ {c} : worker'[d] = worker[d]
      BY <2>0, <2>1
    <2>4. Shape' /\ Newcomer'
      BY <2>0, <2>1, <2>2, <2>3
    <2>5. Serving' /\ ListMatchesPool' /\ Staying'
      BY <2>0, <2>1, <2>2, <2>3
    <2>6. Told'
      BY <2>0, <2>2, <2>3
    <2> QED
      BY <2>4, <2>5, <2>6 DEF Rest
  <1>22. ASSUME NEW c \in Clients, Receive(c) PROVE Rest'
    BY <1>a, <1>b, <1>c, <1>22 DEF Rest, Receive, At
  <1>23. ASSUME NEW c \in Clients, ReceiveFails(c) PROVE Rest'
    <2>0. Shape /\ Newcomer /\ Serving /\ ListMatchesPool /\ Staying /\ Told
      BY <1>a DEF Rest
    <2>1. /\ worker[c] = "select"
          /\ worker' = [worker EXCEPT ![c] = "lock"]
          /\ conn[c] = "down"
      BY <1>23 DEF ReceiveFails, Gone, At
    <2>2. UNCHANGED <<owner, acc, place, listed, conn, met, refused, early>>
      BY <1>23 DEF ReceiveFails, Gone
    <2>3. told' = [told EXCEPT ![c] = Append(told[c], "delete")]
      BY <1>23 DEF ReceiveFails, Gone
    <2>4. told' \in [Clients -> Seq({"new", "delete"})]
      BY <2>0, <2>3, AppendType
    <2>5. ~Unmet(c)
      BY <2>0, <2>1
    <2>6. c \notin early => ~Fresh(c) /\ told[c] = <<"new">>
      BY <2>0, <2>1, <2>5
    <2>7. c \notin early => told'[c] = <<"new", "delete">>
      <3>1. told'[c] = Append(told[c], "delete")
        BY <2>0, <2>3
      <3> QED
        BY <2>6, <3>1, AppendDelete
    <2>8. \A d \in Clients \ {c} : told'[d] = told[d]
      BY <2>0, <2>3
    <2>9. Shape' /\ Newcomer'
      BY <2>0, <2>1, <2>2, <2>4
    <2>10. Serving' /\ ListMatchesPool' /\ Staying'
      BY <2>0, <2>1, <2>2
    <2>11. Told'
      <3>1. ASSUME NEW d \in Clients PROVE (Unmet(d)' <=> Unmet(d)) /\ (Fresh(d)' <=> Fresh(d))
        BY <2>2
      <3>2. ASSUME NEW d \in Clients PROVE Unmet(d)' => told'[d] = <<>>
        BY <2>0, <2>5, <2>8, <3>1
      <3>3. ASSUME NEW d \in Clients \ early
             PROVE /\ Fresh(d)' => told'[d] = <<>>
                   /\ ~Fresh(d)' => told'[d] \in {<<"new">>, <<"new", "delete">>}
                   /\ ~Fresh(d)' /\ place'[d] # 0 /\ worker'[d] \notin Removing => told'[d] = <<"new">>
        <4>1. CASE d = c
          <5>1. worker'[c] \in Removing
            BY <2>0, <2>1
          <5> QED
            BY <2>5, <2>6, <2>7, <3>1, <4>1, <5>1
        <4>2. CASE d # c
          <5>1. told'[d] = told[d] /\ (Fresh(d)' <=> Fresh(d)) /\ worker'[d] = worker[d]
            BY <2>0, <2>1, <2>8, <3>1, <4>2
          <5> HIDE DEF Fresh
          <5> QED
            BY <2>0, <2>2, <5>1
        <4> QED
          BY <4>1, <4>2
      <3> QED
        BY <2>2, <3>2, <3>3
    <2> QED
      BY <2>9, <2>10, <2>11 DEF Rest
  <1>24. ASSUME NEW c \in Clients, Dispatch(c) PROVE Rest'
    BY <1>a, <1>b, <1>c, <1>24 DEF Rest, Dispatch, At
  <1>25. ASSUME NEW c \in Clients, Answer(c) PROVE Rest'
    BY <1>a, <1>b, <1>c, <1>25 DEF Rest, Answer, At
  <1>26. ASSUME NEW c \in Clients, Lock(c) PROVE Rest'
    BY <1>a, <1>b, <1>c, <1>26 DEF Rest, Lock, At
  <1>27. ASSUME NEW c \in Clients, Unwatch(c) PROVE Rest'
    BY <1>a, <1>b, <1>c, <1>27 DEF Rest, Unwatch, At
  <1>28. ASSUME NEW c \in Clients, Erase(c) PROVE Rest'
    BY <1>a, <1>b, <1>c, <1>28 DEF Rest, Erase, EraseOwn, At
  <1>29. ASSUME NEW c \in Clients, Client(c) PROVE Rest'
    <2>1. CASE Connect(c)
      BY <1>a, <2>1 DEF Rest, Connect
    <2>2. CASE Takes(c) \/ Call(c)
      <3>1. UNCHANGED <<owner, acc, place, listed, worker, conn, met, refused, early, told>>
        BY <2>2 DEF Takes, VerifyIsConnected, SendReturns, Take, Call
      <3> QED
        BY <1>a, <3>1 DEF Rest
    <2>3. CASE Leave(c)
      BY <1>a, <2>3 DEF Rest, Leave
    <2> QED
      BY <1>29, <2>1, <2>2, <2>3 DEF Client
  <1> QED
    BY <1>1, <1>2, <1>3, <1>4, <1>5, <1>6, <1>7, <1>8, <1>9, <1>10, <1>11, <1>12, <1>13, <1>14, <1>15,
       <1>16, <1>17, <1>18, <1>19, <1>20, <1>21, <1>22, <1>23, <1>24, <1>25, <1>26, <1>27, <1>28, <1>29, <1>a
       DEF Next, Acceptor, Control, Owner, Starts, Worker, Rest

LEMMA InitIInv == Init => IInv
  <1> SUFFICES ASSUME Init PROVE IInv
    OBVIOUS
  <1> USE DEF Init
  <1>1. Shape /\ Newcomer /\ Serving /\ ListMatchesPool /\ Staying /\ Told /\ DanglingCases
    BY ClientsAssumption DEF Shape, WorkerPCs, Accs, Busy, Adding, Using, Removing, Newcomer,
       Serving, ListMatchesPool, Watched, Staying, Unmet, Fresh, Told, DanglingCases
  <1>2. Stations /\ Beginnings /\ Phases
    <2>1. managers \in Seq(ManagerStates) /\ Len(managers) = 2 /\ \A m \in Managers : managers[m] = Manager
      <3>1. Manager \in ManagerStates
        BY DEF Manager, ManagerStates
      <3>2. managers = <<Manager, Manager>> /\ Managers = 1..Len(managers)
        BY DEF Managers
      <3> HIDE DEF Manager, Init
      <3>3. managers \in Seq(ManagerStates) /\ Len(managers) = 2
        BY <3>1, <3>2
      <3>4. managers[1] = Manager /\ managers[2] = Manager
        BY <3>2
      <3>5. Managers = {1, 2}
        BY <3>2, <3>3
      <3> QED
        BY <3>3, <3>4, <3>5
    <2> QED
      BY <2>1 DEF Stations, Beginnings, Phases, Manager, Managers, Doing, Stages, Begun, Ended, Seen
  <1> QED
    BY <1>1, <1>2 DEF IInv

LEMMA StepIInv == IInv /\ [Next]_vars => IInv'
  <1> SUFFICES ASSUME IInv, [Next]_vars PROVE IInv'
    OBVIOUS
  <1>1. CASE Next
    BY <1>1, RestStep, StationsStep, BeginningsStep, PhasesStep, DanglingStep DEF IInv
  <1>2. CASE UNCHANGED vars
    BY <1>2 DEF vars, IInv, Shape, Stations, Managers, Beginnings, Begun, Ended, Phases, Seen, Newcomer,
                Serving, ListMatchesPool, Watched, Staying, Unmet, Fresh, Told, DanglingCases
  <1> QED
    BY <1>1, <1>2

THEOREM Invariance == Spec => []IInv
  BY InitIInv, StepIInv, PTL DEF Spec

\* The list of clients, kept under client_mutex, and the sockets request_recv
\* watches agree, whatever accept, the workers and the owner interleave.
THEOREM ListAgreement == Spec => []ListMatchesPool
  BY Invariance, PTL DEF IInv

\* No request is served for a client that was destroyed: a worker destroys only
\* its own, as its last act, and wait() precedes the destructor.
ServedWhileListed ==
    \A c \in Clients :
        worker[c] \in {"dispatch", "answer", "lock", "unwatch"} => c \in listed

\* A worker of onRequestRecv uses only a client that is in the list: it erases
\* none but its own, and the destructor comes after wait().
THEOREM ServiceSafe == Spec => []ServedWhileListed
  <1>1. IInv => ServedWhileListed
    BY DEF IInv, Serving, ListMatchesPool, Watched, Using, ServedWhileListed
  <1> QED
    BY <1>1, Invariance, PTL

\* What was destroyed is used by the accept worker that greets a client that left
\* before its welcome, and then that client only; by a worker that erases its own
\* client when the server has been destroyed; and by wait() after stop().  Nothing
\* else a thread does comes to a destroyed client.
THEOREM DanglingBounded == Spec => []DanglingCases
  BY Invariance, PTL DEF IInv

\* If no client leaves before it is greeted completely, nothing that was destroyed
\* is used as long as nobody calls stop().
THEOREM PatientClientsSafe ==
    ASSUME \A p \in Plans : "leave" \notin p.liberties
    PROVE  Spec => [](dangling # {} => stopper.op # "idle")
  <1> DEFINE Patient == plan \in Plans /\ early = {}
             Safe == dangling # {} => stopper.op # "idle"
  <1>1. Init => Patient
    BY DEF Init
  <1>2. Patient /\ [Next]_vars => Patient'
    <2> SUFFICES ASSUME Patient, [Next]_vars PROVE Patient'
      OBVIOUS
    <2>1. CASE Acceptor \/ Control
      BY <2>1 DEF Acceptor, AccLoops, Accept, AddRequest, Insert, GrowRequests, ReadRun, StartNew,
         InsertNew, TurnAway, Refuse, Greet, Welcome, TidyWelcome, Control, RunMe
    <2>2. CASE Owner
      BY <2>2 DEF Owner, StartAccepting, Starts, StartRequests, StartOne, StartReturns, Joins,
         JoinControl, JoinAcceptor, JoinWorker, WaitReturns, Waits, Destroy, Clearing
    <2>3. CASE StopAccepting \/ Stops
      BY <2>3 DEF StopAccepting, Stops, StopRequests, StopOne, StopManager, StopReturns
    <2>4. ASSUME NEW c \in Clients, Worker(c) PROVE Patient'
      BY <2>4 DEF Worker, WorkerLoops, Receive, ReceiveFails, Gone, Dispatch, Answer, Lock, Unwatch,
         Erase, EraseOwn
    <2>5. ASSUME NEW c \in Clients, Client(c) PROVE Patient'
      BY <2>5 DEF Client, Takes, Take, VerifyIsConnected, SendReturns, Connect, Call, Leave
    <2>6. CASE UNCHANGED vars
      BY <2>6 DEF vars
    <2> QED
      BY <2>1, <2>2, <2>3, <2>4, <2>5, <2>6 DEF Next
  <1>3. IInv /\ Patient => Safe
    <2> SUFFICES ASSUME IInv, early = {}, NEW use \in dangling PROVE stopper.op # "idle"
      OBVIOUS
    <2>1. owner.op = "destroyed" \/ stopper.op # "idle"
      BY DEF IInv, DanglingCases
    <2>2. owner.op = "destroyed" => Ended(1) /\ 1 \in Managers
      BY DEF IInv, Phases, Seen, Stations, Managers
    <2> QED
      BY <2>1, <2>2 DEF IInv, Beginnings
  <1> HIDE DEF Patient
  <1> QED
    BY <1>1, <1>2, <1>3, Invariance, PTL DEF Spec

\* on_new_client and on_delete_client are called once and in this order for every
\* client that stays until its welcome, and never for a refused one.
THEOREM CallbackOrder == Spec => []ToldInOrder
  <1>1. IInv => \A c \in Clients \ early : told[c] \in {<<>>, <<"new">>, <<"new", "delete">>}
    BY DEF IInv, Told
  <1>2. IInv => \A c \in refused : told[c] = <<>>
    BY DEF IInv, Shape, Told, Unmet
  <1> QED
    BY <1>1, <1>2, Invariance, PTL DEF ToldInOrder

-----------------------------------------------------------------------------
(* Types, and the one message a client has on the way.                     *)

Typed ==
    /\ plan \in Plans
    /\ {active, terminated} \subseteq BOOLEAN
    /\ mutex \in Clients \cup {NoClient}
    /\ cli \in [Clients -> {"new", "greeting", "idle", "calling", "gone"}]
    /\ calls \in [Clients -> Nat]
    /\ \A c \in Clients : calls[c] <= plan.calls[c]
    /\ DOMAIN toServer = Clients
    /\ DOMAIN toClient = Clients

\* The accept worker has yet to send its message; a worker has to answer.
Greets(c) == c \notin met \/ (acc.c = c /\ acc.pc # "tidy")
Serves(c) == worker[c] \in {"dispatch", "answer"}

Short(q) == q = <<>> \/ \E x : q = <<x>>
Quiet(c) == ~Greets(c) /\ ~Serves(c) /\ toServer[c] = <<>> /\ toClient[c] = <<>>

\* A greeting, a request being served and a message on the way exclude each
\* other, and a program that is about to call has none of them.
Alone ==
    \A c \in Clients :
        /\ Short(toServer[c]) /\ Short(toClient[c])
        /\ Greets(c) => ~Serves(c) /\ toServer[c] = <<>> /\ toClient[c] = <<>>
        /\ Serves(c) => toServer[c] = <<>> /\ toClient[c] = <<>>
        /\ toServer[c] # <<>> => toClient[c] = <<>>
        /\ cli[c] = "idle" /\ conn[c] = "up" => Quiet(c)
        /\ cli[c] = "new" <=> conn[c] = "none"
        /\ cli[c] = "new" => c \notin met

LEMMA ShortQueues ==
    /\ \A x : Append(<<>>, x) = <<x>> /\ Tail(<<x>>) = <<>> /\ Len(<<x>>) = 1 /\ <<x>> # <<>>
    /\ Len(<<>>) = 0
  <1>1. ASSUME NEW x PROVE Append(<<>>, x) = <<x>> /\ Tail(<<x>>) = <<>> /\ Len(<<x>>) = 1 /\ <<x>> # <<>>
    <2> DEFINE a == Append(<<>>, x)
               t == Tail(<<x>>)
    <2>1. <<>> \in Seq({x}) /\ <<x>> \in Seq({x}) /\ Len(<<x>>) = 1 /\ <<x>>[1] = x /\ <<x>> # <<>>
      OBVIOUS
    <2>2. a \in Seq({x}) /\ Len(a) = 1 /\ a[1] = x
      BY <2>1
    <2>3. t \in Seq({x}) /\ Len(t) = 0
      BY <2>1
    <2> HIDE DEF a, t
    <2>4. a = <<x>>
      BY <2>1, <2>2, SeqEqual
    <2>5. t = <<>>
      BY <2>3, EmptySeq
    <2> QED
      BY <2>1, <2>4, <2>5 DEF a, t
  <1> QED
    BY <1>1, EmptySeq

LEMMA InitAlone == Init => Typed /\ Alone
  <1> SUFFICES ASSUME Init PROVE Typed /\ Alone
    OBVIOUS
  <1>1. calls \in [Clients -> Nat] /\ \A c \in Clients : calls[c] <= plan.calls[c]
    BY PlansAssumption DEF Init
  <1>2. Typed
    BY <1>1 DEF Init, Typed
  <1>3. Alone
    BY DEF Init, Alone, Short, Greets, Serves
  <1> QED
    BY <1>2, <1>3

\* A step that is not about messages.
LEMMA AloneKept ==
    ASSUME Alone, UNCHANGED <<toServer, toClient, cli, conn>>,
           \A c \in Clients : (Greets(c)' => Greets(c)) /\ (Serves(c)' => Serves(c)),
           \A c \in Clients : c \in met' => c \in met \/ conn[c] # "none"
    PROVE  Alone'
  BY DEF Alone, Quiet

LEMMA TypedKeeps ==
    ASSUME Typed, [Next]_vars
    PROVE  Typed'
  <1>1. CASE Acceptor
    <2>1. UNCHANGED <<plan, active, mutex, cli, calls, toServer>> /\ {terminated'} \subseteq BOOLEAN
      BY <1>1 DEF Typed, Acceptor, AccLoops, Accept, AddRequest, Insert, GrowRequests, ReadRun, StartNew,
                  Launch, InsertNew, TurnAway, Refuse, Greet, Welcome, TidyWelcome
    <2>2. DOMAIN toClient' = Clients
      BY <1>1 DEF Typed, Acceptor, AccLoops, Accept, AddRequest, Insert, GrowRequests, ReadRun, StartNew,
                  InsertNew, TurnAway, Refuse, Greet, Welcome, TidyWelcome, SendTo
    <2> QED
      BY <2>1, <2>2 DEF Typed
  <1>2. CASE Control \/ Owner \/ StopAccepting \/ Stops
    <2>1. UNCHANGED <<plan, mutex, cli, calls, toServer, toClient>>
      BY <1>2 DEF Control, RunMe, Owner, StartAccepting, Starts, StartRequests, StartOne, StartReturns,
                  Joins, JoinControl, JoinAcceptor, JoinWorker, WaitReturns, Waits, Destroy, Clearing,
                  StopAccepting, Stops, StopRequests, StopOne, StopManager, StopReturns
    <2>2. {active', terminated'} \subseteq BOOLEAN
      BY <1>2 DEF Typed, Control, RunMe, Owner, StartAccepting, Starts, StartRequests, StartOne,
                  StartReturns, Launch, Joins, JoinControl, JoinAcceptor, JoinWorker, WaitReturns,
                  Waits, Destroy, Clearing, StopAccepting, Stops, StopRequests, StopOne, StopManager,
                  StopReturns
    <2> QED
      BY <2>1, <2>2 DEF Typed
  <1>3. ASSUME NEW c \in Clients, Worker(c) PROVE Typed'
    BY <1>3 DEF Typed, Worker, WorkerLoops, Receive, ReceiveFails, Gone, Dispatch, Answer, Lock, Unwatch,
                Erase, EraseOwn, SendTo
  <1>4. ASSUME NEW c \in Clients, Connect(c) \/ Takes(c) \/ Leave(c) PROVE Typed'
    BY <1>4 DEF Typed, Connect, Takes, VerifyIsConnected, SendReturns, Take, Leave
  <1>5. ASSUME NEW c \in Clients, Call(c) PROVE Typed'
    <2>1. /\ calls' = [calls EXCEPT ![c] = @ + 1] /\ calls[c] < plan.calls[c]
          /\ calls[c] \in Nat /\ plan.calls[c] \in Nat
      BY <1>5, PlansAssumption DEF Call, Typed
    <2>2. UNCHANGED <<plan, active, terminated, mutex, toClient>>
      BY <1>5 DEF Call
    <2>3. calls' \in [Clients -> Nat] /\ \A d \in Clients : calls'[d] <= plan'.calls[d]
      BY <2>1, <2>2 DEF Typed
    <2>4. DOMAIN toServer' = Clients
      BY <1>5 DEF Call, Typed
    <2>5. cli' \in [Clients -> {"new", "greeting", "idle", "calling", "gone"}]
      BY <1>5 DEF Call, Typed
    <2> QED
      BY <2>2, <2>3, <2>4, <2>5 DEF Typed
  <1>6. CASE UNCHANGED vars
    BY <1>6 DEF vars, Typed
  <1> QED
    BY <1>1, <1>2, <1>3, <1>4, <1>5, <1>6 DEF Next, Client

\* A message of the accept worker or of a worker is the only one there is.
LEMMA SentAlone ==
    ASSUME Alone, Typed, NEW c \in Clients, NEW m, SendTo(c, m),
           (Greets(c) \/ Serves(c)),
           ~Greets(c)', ~Serves(c)',
           \A d \in Clients \ {c} : Greets(d)' = Greets(d) /\ Serves(d)' = Serves(d),
           UNCHANGED <<toServer, cli, met>>,
           conn' = conn \/ conn' = [conn EXCEPT ![c] = "down"],
           conn \in [Clients -> {"none", "up", "down"}], conn[c] # "none"
    PROVE  Alone'
  <1>1. toServer[c] = <<>> /\ toClient[c] = <<>> /\ (conn[c] = "up" => cli[c] # "idle")
    BY DEF Alone, Quiet
  <1>2. /\ \A d \in Clients : d # c => toClient'[d] = toClient[d] /\ conn'[d] = conn[d]
        /\ conn[c] = "up" => toClient'[c] = <<m>>
        /\ conn[c] # "up" => toClient'[c] = <<>>
    BY <1>1, ShortQueues DEF SendTo, Typed
  <1>3. conn'[c] # "none" /\ (conn'[c] = "up" => conn[c] = "up")
    OBVIOUS
  <1>4. ASSUME NEW d \in Clients, d # c
        PROVE  /\ toClient'[d] = toClient[d] /\ conn'[d] = conn[d]
               /\ Greets(d)' = Greets(d) /\ Serves(d)' = Serves(d)
    BY <1>2, <1>4
  <1> QED
    BY <1>1, <1>2, <1>3, <1>4 DEF Alone, Short, Quiet

LEMMA AcceptorAlone ==
    ASSUME IInv, Typed, Alone, Acceptor
    PROVE  Alone'
  <1> USE DEF Greets, Serves
  <1>0. /\ acc \in Accs
        /\ acc.pc \in Busy <=> acc.c # NoClient
        /\ acc.c \in Clients => acc.c \in met
        /\ conn \in [Clients -> {"none", "up", "down"}]
        /\ worker \in [Clients -> WorkerPCs]
        /\ NoClient \notin Clients
    BY ClientsAssumption DEF IInv, Shape, Newcomer
  <1>1. CASE AccLoops
    <2>1. acc.c = NoClient /\ acc'.c = NoClient
      BY <1>0, <1>1 DEF AccLoops, AccAt, Busy, Adding, Accs
    <2>2. UNCHANGED <<toServer, toClient, cli, conn, worker, met>>
      BY <1>1 DEF AccLoops
    <2> QED
      BY <1>0, <2>1, <2>2, AloneKept
  <1>2. ASSUME NEW c \in Clients, Accept(c) PROVE Alone'
    <2>1. /\ acc'.c = c /\ acc'.pc = "add" /\ met' = met \cup {c} /\ c \notin met /\ conn[c] # "none"
          /\ UNCHANGED <<toServer, toClient, cli, conn, worker>>
      BY <1>2 DEF Accept, Queued
    <2> QED
      BY <2>1, AloneKept
  <1>3. ASSUME NEW c \in Clients,
               AddRequest(c) \/ GrowRequests(c) \/ ReadRun(c) \/ StartNew(c) \/ InsertNew(c) \/ TurnAway(c)
        PROVE  Alone'
    <2>1. /\ acc.c = c /\ acc.pc # "tidy" /\ acc'.c = c
          /\ UNCHANGED <<toServer, toClient, cli, conn, met>>
      BY <1>0, <1>3 DEF AddRequest, GrowRequests, ReadRun, StartNew, InsertNew, TurnAway, Insert, AccAt, Accs
    <2>2. worker' = worker \/ worker' = [worker EXCEPT ![c] = "test"]
      BY <1>3 DEF AddRequest, GrowRequests, ReadRun, StartNew, InsertNew, TurnAway, Insert
    <2>3. \A d \in Clients : Serves(d)' => Serves(d)
      BY <1>0, <2>2
    <2> QED
      BY <1>0, <2>1, <2>3, AloneKept
  <1>4. ASSUME NEW c \in Clients, Refuse(c) PROVE Alone'
    <2>1. /\ acc.c = c /\ acc.pc = "refuse" /\ acc'.c = NoClient
          /\ SendTo(c, Msg("refusal", 0)) /\ conn' = [conn EXCEPT ![c] = "down"]
          /\ UNCHANGED <<toServer, cli, met, worker>>
      BY <1>4 DEF Refuse
    <2>2. Greets(c) /\ c \in met /\ conn[c] # "none"
      BY <1>0, <2>1 DEF Alone
    <2>3. ~Greets(c)' /\ ~Serves(c)'
      BY <1>0, <2>1, <2>2 DEF Alone
    <2>4. \A d \in Clients \ {c} : Greets(d)' = Greets(d) /\ Serves(d)' = Serves(d)
      BY <1>0, <2>1
    <2> QED
      BY <1>0, <2>1, <2>2, <2>3, <2>4, SentAlone
  <1>5. ASSUME NEW c \in Clients, Greet(c) PROVE Alone'
    <2>1. /\ acc.c = c /\ acc.pc = "greet" /\ acc'.c = c /\ acc'.pc = "welcome"
          /\ UNCHANGED <<toServer, toClient, cli, conn, met, worker>>
      BY <1>0, <1>5 DEF Greet, AccAt, Accs
    <2> QED
      BY <2>1, AloneKept
  <1>6. ASSUME NEW c \in Clients, Welcome(c) PROVE Alone'
    <2>1. /\ acc.c = c /\ acc.pc = "welcome" /\ acc'.c = c /\ acc'.pc = "tidy"
          /\ SendTo(c, buf[c]) /\ conn' = conn
          /\ UNCHANGED <<toServer, cli, met, worker>>
      BY <1>0, <1>6 DEF Welcome, AccAt, Accs
    <2>2. Greets(c) /\ c \in met /\ conn[c] # "none"
      BY <1>0, <2>1 DEF Alone
    <2>3. ~Greets(c)' /\ ~Serves(c)'
      BY <1>0, <2>1, <2>2 DEF Alone
    <2>4. \A d \in Clients \ {c} : Greets(d)' = Greets(d) /\ Serves(d)' = Serves(d)
      BY <1>0, <2>1
    <2> QED
      BY <1>0, <2>1, <2>2, <2>3, <2>4, SentAlone
  <1>7. ASSUME NEW c \in Clients, TidyWelcome(c) PROVE Alone'
    <2>1. /\ acc.c = c /\ acc'.c = NoClient
          /\ UNCHANGED <<toServer, toClient, cli, conn, met, worker>>
      BY <1>7 DEF TidyWelcome
    <2> QED
      BY <1>0, <2>1, AloneKept
  <1> QED
    BY <1>1, <1>2, <1>3, <1>4, <1>5, <1>6, <1>7 DEF Acceptor

LEMMA WorkerAlone ==
    ASSUME IInv, Typed, Alone, NEW c \in Clients, Worker(c)
    PROVE  Alone'
  <1> USE DEF Greets, Serves
  <1>0. /\ conn \in [Clients -> {"none", "up", "down"}] /\ worker \in [Clients -> WorkerPCs]
        /\ worker[c] # "none" => c \in met
    BY DEF IInv, Shape, Serving
  <1>1. CASE WorkerLoops(c) \/ ReceiveFails(c) \/ Dispatch(c) \/ Lock(c) \/ Unwatch(c) \/ Erase(c)
    <2>1. UNCHANGED <<toServer, toClient, cli, conn, met, acc>>
      BY <1>1 DEF WorkerLoops, ReceiveFails, Gone, Dispatch, Lock, Unwatch, Erase, EraseOwn
    <2>2. \A d \in Clients : Serves(d)' => Serves(d)
      BY <1>0, <1>1 DEF At, WorkerLoops, ReceiveFails, Gone, Dispatch, Lock, Unwatch, Erase, EraseOwn
    <2> QED
      BY <2>1, <2>2, AloneKept
  <1>2. CASE Receive(c)
    <2>1. /\ toServer[c] # <<>> /\ worker[c] = "select" /\ worker' = [worker EXCEPT ![c] = "dispatch"]
          /\ toServer' = [toServer EXCEPT ![c] = Tail(@)]
          /\ UNCHANGED <<toClient, cli, conn, met, acc>>
      BY <1>2 DEF Receive, At
    <2>2. toClient[c] = <<>> /\ ~Greets(c) /\ ~(cli[c] = "idle" /\ conn[c] = "up") /\ Short(toServer[c])
      BY <2>1 DEF Alone, Quiet
    <2>3. toServer'[c] = <<>> /\ \A d \in Clients : d # c => toServer'[d] = toServer[d]
      BY <2>1, <2>2, ShortQueues DEF Short, Typed
    <2>4. \A d \in Clients : d # c => worker'[d] = worker[d]
      BY <1>0, <2>1
    <2> QED
      BY <2>1, <2>2, <2>3, <2>4 DEF Alone, Short, Quiet
  <1>3. CASE Answer(c)
    <2>1. /\ worker[c] = "answer" /\ worker' = [worker EXCEPT ![c] = "test"]
          /\ SendTo(c, buf[c]) /\ UNCHANGED <<toServer, cli, conn, met, acc>>
      BY <1>3 DEF Answer, At
    <2>2. Serves(c) /\ ~Greets(c) /\ conn[c] # "none"
      BY <1>0, <2>1 DEF Alone
    <2>3. ~Greets(c)' /\ ~Serves(c)'
      BY <1>0, <2>1, <2>2
    <2>4. \A d \in Clients \ {c} : Greets(d)' = Greets(d) /\ Serves(d)' = Serves(d)
      BY <1>0, <2>1
    <2> QED
      BY <1>0, <2>1, <2>2, <2>3, <2>4, SentAlone
  <1> QED
    BY <1>1, <1>2, <1>3 DEF Worker

LEMMA OwnerAlone ==
    ASSUME IInv, Typed, Alone, Control \/ Owner \/ StopAccepting \/ Stops
    PROVE  Alone'
  <1> USE DEF Greets, Serves
  <1>1. CASE Destroy
    <2>1. /\ conn' = [d \in Clients |-> IF conn[d] # "none" THEN "down" ELSE "none"]
          /\ UNCHANGED <<toServer, toClient, cli, met, acc, worker>>
      BY <1>1 DEF Destroy, Clearing
    <2>2. \A d \in Clients : (conn'[d] = "none" <=> conn[d] = "none") /\ conn'[d] # "up"
      BY <2>1
    <2> QED
      BY <2>1, <2>2 DEF Alone
  <1>2. ASSUME NEW m \in Managers, RunMe(m) PROVE Alone'
    <2>1. /\ UNCHANGED <<toServer, toClient, cli, conn, met>>
          /\ acc' = (IF m = 1 THEN [acc EXCEPT !.pc = "test"] ELSE acc)
          /\ worker' = [c \in Clients |-> IF place[c] = m THEN "test" ELSE worker[c]]
      BY <1>2 DEF RunMe
    <2>2. acc \in Accs /\ Stations /\ Beginnings /\ (acc.pc \in Busy <=> acc.c # NoClient)
      BY DEF IInv, Shape
    <2>3. m = 1 => acc.pc = "none"
      BY <1>2, <2>2, RunEffect DEF Beginnings
    <2>4. acc'.c = acc.c /\ (acc'.pc = acc.pc \/ acc.c = NoClient)
      BY <2>1, <2>2, <2>3 DEF Accs, Busy, Adding
    <2>5. \A d \in Clients : Serves(d)' => Serves(d)
      BY <2>1
    <2>6. \A d \in Clients : Greets(d)' => Greets(d)
      BY <2>1, <2>4, ClientsAssumption
    <2> QED
      BY <2>1, <2>5, <2>6, AloneKept
  <1>3. CASE StartAccepting \/ Starts \/ Joins \/ StopAccepting \/ Stops
    <2>1. UNCHANGED <<toServer, toClient, cli, conn, met, acc, worker>>
      BY <1>3 DEF StartAccepting, Starts, StartRequests, StartOne, StartReturns,
                  Joins, JoinControl, JoinAcceptor, JoinWorker, WaitReturns, Waits,
                  StopAccepting, Stops, StopRequests, StopOne, StopManager, StopReturns
    <2> QED
      BY <2>1, AloneKept
  <1> QED
    BY <1>1, <1>2, <1>3 DEF Control, Owner

LEMMA ClientAlone ==
    ASSUME IInv, Typed, Alone, NEW c \in Clients, Client(c)
    PROVE  Alone'
  <1> USE DEF Greets, Serves
  <1>0. conn \in [Clients -> {"none", "up", "down"}] /\ UNCHANGED <<met, acc, worker>>
    BY DEF IInv, Shape, Client, Takes, VerifyIsConnected, SendReturns, Take, Connect, Call, Leave
  <1>1. CASE Connect(c)
    <2>1. /\ cli[c] = "new" /\ cli' = [cli EXCEPT ![c] = "greeting"]
          /\ conn' = [conn EXCEPT ![c] = "up"] /\ UNCHANGED <<toServer, toClient>>
      BY <1>1 DEF Connect
    <2>2. /\ cli'[c] = "greeting" /\ conn'[c] = "up"
          /\ \A d \in Clients : d # c => cli'[d] = cli[d] /\ conn'[d] = conn[d]
      BY <1>0, <2>1 DEF Typed
    <2> QED
      BY <1>0, <2>1, <2>2 DEF Alone, Quiet
  <1>2. CASE Takes(c)
    <2>1. /\ cli[c] \in {"greeting", "calling"} /\ cli' = [cli EXCEPT ![c] = "idle"]
          /\ UNCHANGED <<conn, toServer>>
          /\ \/ toClient[c] # <<>> /\ toClient' = [toClient EXCEPT ![c] = Tail(@)]
             \/ toClient[c] = <<>> /\ conn[c] = "down" /\ toClient' = toClient
      BY <1>2 DEF Takes, VerifyIsConnected, SendReturns, Take
    <2>2. cli'[c] = "idle" /\ \A d \in Clients : d # c => cli'[d] = cli[d]
      BY <2>1 DEF Typed
    <2>3. CASE toClient[c] # <<>> /\ toClient' = [toClient EXCEPT ![c] = Tail(@)]
      <3>1. Short(toClient[c]) /\ ~Greets(c) /\ ~Serves(c) /\ toServer[c] = <<>>
        BY <2>3 DEF Alone
      <3>2. toClient'[c] = <<>> /\ \A d \in Clients : d # c => toClient'[d] = toClient[d]
        BY <2>3, <3>1, ShortQueues DEF Short, Typed
      <3>3. Quiet(c)'
        BY <1>0, <2>1, <3>1, <3>2 DEF Quiet
      <3>4. cli[c] # "new" /\ conn[c] # "none"
        BY <2>1 DEF Alone
      <3> QED
        BY <1>0, <2>1, <2>2, <3>1, <3>2, <3>3, <3>4 DEF Alone, Short, Quiet
    <2>4. CASE toClient[c] = <<>> /\ conn[c] = "down" /\ toClient' = toClient
      BY <1>0, <2>1, <2>2, <2>4 DEF Alone, Quiet
    <2> QED
      BY <2>1, <2>3, <2>4
  <1>3. CASE Call(c)
    <2>1. /\ cli[c] = "idle" /\ cli' = [cli EXCEPT ![c] = "calling"]
          /\ UNCHANGED <<conn, toClient>>
          /\ \/ conn[c] = "up" /\ \E m : toServer' = [toServer EXCEPT ![c] = Append(@, m)]
             \/ conn[c] # "up" /\ toServer' = toServer
      BY <1>3 DEF Call
    <2>2. cli'[c] = "calling" /\ \A d \in Clients : d # c => cli'[d] = cli[d]
      BY <2>1 DEF Typed
    <2>3. CASE conn[c] = "up"
      <3>1. Quiet(c)
        BY <2>1, <2>3 DEF Alone
      <3>2. (\E m : toServer'[c] = <<m>>) /\ \A d \in Clients : d # c => toServer'[d] = toServer[d]
        BY <2>1, <2>3, <3>1, ShortQueues DEF Quiet, Typed
      <3> QED
        BY <1>0, <2>1, <2>2, <2>3, <3>1, <3>2 DEF Alone, Short, Quiet
    <2>4. CASE conn[c] # "up"
      BY <1>0, <2>1, <2>2, <2>4 DEF Alone, Quiet
    <2> QED
      BY <2>3, <2>4
  <1>4. CASE Leave(c)
    <2>1. /\ cli[c] # "new" /\ cli' = [cli EXCEPT ![c] = "gone"]
          /\ conn' = [conn EXCEPT ![c] = "down"] /\ UNCHANGED toServer
          /\ toClient' = [toClient EXCEPT ![c] = <<>>]
      BY <1>4 DEF Leave
    <2>2. /\ cli'[c] = "gone" /\ conn'[c] = "down" /\ toClient'[c] = <<>>
          /\ \A d \in Clients : /\ d # c => cli'[d] = cli[d] /\ conn'[d] = conn[d]
                                /\ d # c => toClient'[d] = toClient[d]
      BY <1>0, <2>1 DEF Typed
    <2> QED
      BY <1>0, <2>1, <2>2 DEF Alone, Short, Quiet
  <1> QED
    BY <1>1, <1>2, <1>3, <1>4 DEF Client

LEMMA StepAlone == IInv /\ Typed /\ Alone /\ [Next]_vars => Typed' /\ Alone'
  <1> SUFFICES ASSUME IInv, Typed, Alone, [Next]_vars PROVE Alone'
    BY TypedKeeps
  <1>1. CASE UNCHANGED vars
    BY <1>1 DEF vars, Alone, Quiet, Greets, Serves
  <1> QED
    BY <1>1, AcceptorAlone, OwnerAlone, WorkerAlone, ClientAlone DEF Next

LEMMA AloneAlways == Spec => [](Typed /\ Alone)
  BY InitAlone, StepAlone, Invariance, PTL DEF Spec

\* Types, and a connection has at most one message on the way in each direction:
\* nobody sends to a client that has not taken the last one.
THEOREM TypeCorrect == Spec => []TypeOK
  <1>1. IInv /\ Typed /\ Alone => TypeOK
    <2> SUFFICES ASSUME IInv, Typed, Alone PROVE TypeOK
      OBVIOUS
    <2>1. \A c \in Clients : Len(toServer[c]) <= 1 /\ Len(toClient[c]) <= 1
      <3>1. \A q : Short(q) => Len(q) <= 1
        <4> SUFFICES ASSUME NEW q, Short(q) PROVE Len(q) <= 1
          OBVIOUS
        <4>1. CASE Len(q) = 0
          BY <4>1
        <4>2. CASE Len(q) = 1
          BY <4>2
        <4> QED
          BY <4>1, <4>2, ShortQueues DEF Short
      <3>2. \A c \in Clients : Short(toServer[c]) /\ Short(toClient[c])
        BY DEF Alone
      <3> HIDE DEF Short
      <3> QED
        BY <3>1, <3>2
    <2>2. \A c \in Clients : calls[c] \in 0..plan.calls[c]
      BY PlansAssumption DEF Typed
    <2>3. /\ acc.pc \in {"none", "test", "select", "add", "new", "start", "insert", "greet", "refuse",
                         "welcome", "tidy", "done"}
          /\ acc.c \in met \cup {NoClient}
          /\ acc.pc \in {"none", "test", "select", "done"} <=> acc.c = NoClient
      BY DEF IInv, Shape, Accs, Newcomer, Busy, Adding
    <2>4. listed \cup refused \cup early \subseteq Clients /\ listed \subseteq met
      BY DEF IInv, Shape
    <2>5. place \in [Clients -> {0} \cup (Managers \ {1})] /\ \A m \in Managers : managers[m] \in ManagerStates
      BY DEF IInv, Shape, Stations, Managers
    <2>6. /\ owner.op \in Stages /\ stopper.op \in {"idle", "stopping", "stopped"}
          /\ owner.at # NoClient => owner.op = "joining" /\ owner.at \in Clients
      BY DEF IInv, Stations
    <2> QED
      BY <2>1, <2>2, <2>3, <2>4, <2>5, <2>6 DEF IInv, Shape, Typed, Stages, ManagerStates, WorkerPCs, TypeOK
  <1> QED
    BY <1>1, Invariance, AloneAlways, PTL
=============================================================================
