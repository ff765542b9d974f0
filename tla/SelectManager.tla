--------------------------- MODULE SelectManager ---------------------------
(***************************************************************************)
(* ntw::SelectManager (src/Socket/SelectManager.cpp): a list of tuples     *)
(* (socket, thread, bool* ), a control thread started by start() and one   *)
(* worker thread per tuple that blocks in select() and calls onSelect.     *)
(*                                                                         *)
(* The threads are the owner (start, stop, wait, clear), the control       *)
(* thread (run_me), the workers (run), and the rest of the program, which  *)
(* may add, remove and setDelete at any time.  A body that executes under  *)
(* the mutex is one action; what the code does without it is one action    *)
(* per access to shared state.  The heap bool of a tuple is `flag`, with   *)
(* the value "freed" once the worker has deleted it.                       *)
(*                                                                         *)
(* A tuple is named by its socket: each socket is added at most once.  The *)
(* order of the list is abstracted; wait() joins the tuples one at a time, *)
(* in any order.                                                           *)
(***************************************************************************)
EXTENDS Naturals

CONSTANTS Sockets,    \* the SocketSerialized objects of the program
          NoSocket,   \* not a socket
          MaxStops    \* how often stop() is called

ASSUME SocketsAssumption == NoSocket \notin Sockets
ASSUME MaxStopsAssumption == MaxStops \in Nat

VARIABLES
    running,   \* _run
    mutex,     \* "free", or "held" for ever by a call that threw
    datas,     \* the sockets of the tuples in the list
    flag,      \* the bool of each tuple: none, true, false, freed
    thr,       \* its std::thread object: none, joinable, joined, detached
    pc,        \* where the worker of each socket is in run()
    ctl,       \* the control thread: none, entry, loop, done
    owner,     \* what the owner is doing
    at,        \* the tuple whose thread wait() is joining
    doDelete,  \* do_delete
    deleted,   \* how often the socket was deleted
    stops,     \* history: the number of calls of stop()
    wild,      \* history: a bool was written after it was deleted
    taken      \* history: the liberties the program has taken

manager == <<running, mutex, ctl>>
tuples == <<datas, flag, thr, pc>>
waiting == <<owner, at>>
deletion == <<doDelete, deleted>>
history == <<stops, wild, taken>>
vars == <<manager, tuples, waiting, deletion, history>>

\* Calls beyond those the examples show: a stop() before run_me() has taken the
\* mutex, a remove() while the manager is not running, detach() for wait().
Liberties == {"EarlyStop", "IdleRemove", "Detach"}

WorkerPCs == {"none", "fresh", "test", "select", "callback", "unwind", "leave", "done"}
OwnerStates == {"idle", "joinCtl", "joining", "returned", "threw", "lost", "cleared",
                "detaching", "detached"}

TypeOK ==
    /\ running \in BOOLEAN
    /\ mutex \in {"free", "held"}
    /\ datas \subseteq Sockets
    /\ flag \in [Sockets -> {"none", "true", "false", "freed"}]
    /\ thr \in [Sockets -> {"none", "joinable", "joined", "detached"}]
    /\ pc \in [Sockets -> WorkerPCs]
    /\ ctl \in {"none", "entry", "loop", "done"}
    /\ owner \in OwnerStates
    /\ at \in Sockets \cup {NoSocket}
    /\ doDelete \in BOOLEAN
    /\ deleted \in [Sockets -> 0..2]
    /\ stops \in 0..MaxStops
    /\ wild \in BOOLEAN
    /\ taken \subseteq Liberties

Init ==
    /\ running = FALSE
    /\ mutex = "free"
    /\ datas = {}
    /\ flag = [s \in Sockets |-> "none"]
    /\ thr = [s \in Sockets |-> "none"]
    /\ pc = [s \in Sockets |-> "none"]
    /\ ctl = "none"
    /\ owner = "idle"
    /\ at = NoSocket
    /\ doDelete = FALSE
    /\ deleted = [s \in Sockets |-> 0]
    /\ stops = 0
    /\ wild = FALSE
    /\ taken = {}

\* *b = v for the tuples of S: a freed bool stays freed and the write is wild.
WriteFlags(S, v) ==
    /\ flag' = [s \in Sockets |-> IF s \in S /\ flag[s] # "freed" THEN v ELSE flag[s]]
    /\ wild' = (wild \/ \E s \in S : flag[s] = "freed")

\* History: the call at hand takes this liberty under this condition.
Takes(liberty, cond) == taken' = IF cond THEN taken \cup {liberty} ELSE taken

-----------------------------------------------------------------------------
(* Calls of the program.                                                   *)

\* The new tuple, its loop flag set if the manager runs.
Register(s) ==
    /\ mutex = "free"
    /\ flag[s] = "none"
    /\ datas' = datas \cup {s}
    /\ flag' = [flag EXCEPT ![s] = IF running THEN "true" ELSE "false"]
    /\ UNCHANGED <<manager, waiting, deletion, history>>

\* Variant: a tuple added to a running manager gets no thread.
AddNeverStarts(s) == Register(s) /\ UNCHANGED <<thr, pc>>

Add(s) ==
    /\ Register(s)
    /\ thr' = IF running THEN [thr EXCEPT ![s] = "joinable"] ELSE thr
    /\ pc' = IF running THEN [pc EXCEPT ![s] = "fresh"] ELSE pc

\* The thread of a tuple in the list is detached.
LetGo(s) ==
    /\ s \in datas
    /\ thr[s] = "joinable"
    /\ thr' = [thr EXCEPT ![s] = "detached"]
    /\ UNCHANGED <<manager, pc, deletion, stops>>

\* Erasing the tuple wait() stands on leaves it a dead iterator.
EraseTuple(s) ==
    /\ datas' = datas \ {s}
    /\ owner' = IF at = s THEN "lost" ELSE owner
    /\ at' = IF at = s THEN NoSocket ELSE at

\* Variant: the tuple is not erased.
UnregisterKeepsTuple(s) == LetGo(s) /\ WriteFlags({s}, "false") /\ UNCHANGED <<datas, waiting>>

\* Variant: the loop flag is not reset.
UnregisterKeepsFlag(s) == LetGo(s) /\ EraseTuple(s) /\ UNCHANGED <<flag, wild>>

\* The body of remove(s) for a tuple in the list whose thread can be detached.
Unregister(s) == LetGo(s) /\ WriteFlags({s}, "false") /\ EraseTuple(s)

Remove(s) ==
    /\ mutex = "free"
    /\ Unregister(s)
    /\ Takes("IdleRemove", ~running)

\* detach() throws std::system_error when the tuple has no thread to detach,
\* and remove() is left without unlocking.
RemoveThrows(s) ==
    /\ mutex = "free"
    /\ s \in datas
    /\ thr[s] # "joinable"
    /\ Takes("IdleRemove", ~running)
    /\ WriteFlags({s}, "false")
    /\ mutex' = "held"
    /\ UNCHANGED <<running, ctl, datas, thr, pc, waiting, deletion, stops>>

SetDelete(d) ==
    /\ doDelete' = d
    /\ UNCHANGED <<manager, tuples, waiting, deleted, history>>

-----------------------------------------------------------------------------
(* The owner.                                                              *)

Start ==
    /\ ctl = "none"
    /\ ctl' = "entry"
    /\ UNCHANGED <<running, mutex, tuples, waiting, deletion, history>>

StopCalled ==
    /\ mutex = "free"
    /\ stops < MaxStops
    /\ ctl # "none"
    /\ Takes("EarlyStop", ctl = "entry")
    /\ stops' = stops + 1
    /\ UNCHANGED <<mutex, ctl, datas, thr, pc, waiting, deletion>>

\* Variant: the loop flags of the workers are not reset.
StopKeepsFlags == StopCalled /\ running' = FALSE /\ UNCHANGED <<flag, wild>>

\* Variant: _run is not reset.
StopKeepsRun == StopCalled /\ WriteFlags(datas, "false") /\ UNCHANGED running

\* Also while the owner is in wait(): the examples stop from a signal handler.
Stop == StopCalled /\ running' = FALSE /\ WriteFlags(datas, "false")

Wait ==
    /\ owner = "idle"
    /\ ctl # "none"
    /\ owner' = "joinCtl"
    /\ UNCHANGED <<manager, tuples, at, deletion, history>>

JoinCtl ==
    /\ owner = "joinCtl"
    /\ ctl = "done"
    /\ owner' = "joining"
    /\ UNCHANGED <<manager, tuples, at, deletion, history>>

\* The loop of wait() reads the list without the mutex.
Advance(s) ==
    /\ owner = "joining"
    /\ at = NoSocket
    /\ s \in datas
    /\ thr[s] # "joined"
    /\ at' = s
    /\ UNCHANGED <<manager, tuples, owner, deletion, history>>

\* The join of a worker; without the wait for its end also a variant.
JoinWorkerEarly(s) ==
    /\ owner = "joining"
    /\ at = s
    /\ thr[s] = "joinable"
    /\ thr' = [thr EXCEPT ![s] = "joined"]
    /\ at' = NoSocket
    /\ UNCHANGED <<manager, datas, flag, pc, owner, deletion, history>>

JoinWorker(s) == JoinWorkerEarly(s) /\ pc[s] = "done"

\* join() throws on a tuple that was added when the manager did not run.
JoinThrows(s) ==
    /\ owner = "joining"
    /\ at = s
    /\ thr[s] # "joinable"
    /\ owner' = "threw"
    /\ at' = NoSocket
    /\ UNCHANGED <<manager, tuples, deletion, history>>

WaitReturns ==
    /\ owner = "joining"
    /\ at = NoSocket
    /\ \A s \in datas : thr[s] = "joined"
    /\ owner' = "returned"
    /\ UNCHANGED <<manager, tuples, at, deletion, history>>

\* detach(): the control thread, then the list, without the mutex.
Detach ==
    /\ owner = "idle"
    /\ ctl # "none"
    /\ owner' = "detaching"
    /\ Takes("Detach", TRUE)
    /\ UNCHANGED <<manager, tuples, at, deletion, stops, wild>>

DetachWorker(s) ==
    /\ owner = "detaching"
    /\ s \in datas
    /\ thr[s] = "joinable"
    /\ thr' = [thr EXCEPT ![s] = "detached"]
    /\ UNCHANGED <<manager, datas, flag, pc, waiting, deletion, history>>

\* A tuple that has no thread yet.
DetachThrows(s) ==
    /\ owner = "detaching"
    /\ s \in datas
    /\ thr[s] = "none"
    /\ owner' = "threw"
    /\ UNCHANGED <<manager, tuples, at, deletion, history>>

DetachReturns ==
    /\ owner = "detaching"
    /\ \A s \in datas : thr[s] = "detached"
    /\ owner' = "detached"
    /\ UNCHANGED <<manager, tuples, at, deletion, history>>

\* Variant: the list is not emptied, so that the destructor clears it again.
ClearKeepsTuples ==
    /\ owner = "returned"
    /\ deleted' = [s \in Sockets |-> deleted[s] + IF doDelete /\ s \in datas THEN 1 ELSE 0]
    /\ UNCHANGED <<manager, tuples, waiting, doDelete, history>>

\* clear(), also the body of the destructor, called after wait().
Clear ==
    /\ owner = "returned"
    /\ deleted' = [s \in Sockets |-> deleted[s] + IF doDelete /\ s \in datas THEN 1 ELSE 0]
    /\ datas' = {}
    /\ owner' = "cleared"
    /\ UNCHANGED <<manager, flag, thr, pc, at, doDelete, history>>

-----------------------------------------------------------------------------
(* The control thread, run_me().                                           *)

RunMe ==
    /\ ctl = "entry"
    /\ mutex = "free"
    /\ running' = TRUE
    /\ WriteFlags(datas, "true")
    /\ thr' = [s \in Sockets |-> IF s \in datas THEN "joinable" ELSE thr[s]]
    /\ pc' = [s \in Sockets |-> IF s \in datas THEN "fresh" ELSE pc[s]]
    /\ ctl' = "loop"
    /\ UNCHANGED <<mutex, datas, waiting, deletion, stops, taken>>

CtlLeaves ==
    /\ ctl = "loop"
    /\ ~running
    /\ ctl' = "done"
    /\ UNCHANGED <<running, mutex, tuples, waiting, deletion, history>>

-----------------------------------------------------------------------------
(* A worker, run().                                                        *)

Goto(s, from, to) ==
    /\ pc[s] = from
    /\ pc' = [pc EXCEPT ![s] = to]

Moves(s, from, to) ==
    /\ Goto(s, from, to)
    /\ UNCHANGED <<manager, datas, flag, thr, waiting, deletion, history>>

\* Allocate the fd_sets of the selected modes and read the descriptor.
Begin(s) == Moves(s, "fresh", "test")

\* Variant: while (_run), the flag of the manager instead of the worker's own.
TestManager(s) == Moves(s, "test", IF running THEN "select" ELSE "unwind")

\* while (run)
Test(s) == Moves(s, "test", IF flag[s] = "true" THEN "select" ELSE "unwind")

SelectTimeout(s) == Moves(s, "select", "test")

SelectReady(s) == Moves(s, "select", "callback")

\* An error of select(): the worker returns at once and frees nothing.
SelectFails(s) == Moves(s, "select", "done")

\* onSelect removes the socket it was called for, as Server's callbacks do.  If
\* its thread was detached, the exception ends the program: there is no step.
CallbackRemoves(s) ==
    /\ pc[s] = "callback"
    /\ mutex = "free"
    /\ Unregister(s)
    /\ UNCHANGED taken

CallbackReturns(s) == Moves(s, "callback", "test")

\* delete run_ptr
FreeFlag(s) ==
    /\ Goto(s, "unwind", "leave")
    /\ flag' = [flag EXCEPT ![s] = "freed"]
    /\ UNCHANGED <<manager, datas, thr, waiting, deletion, history>>

\* if (do_delete) delete sock_ptr
Leave(s) ==
    /\ Goto(s, "leave", "done")
    /\ deleted' = IF doDelete THEN [deleted EXCEPT ![s] = @ + 1] ELSE deleted
    /\ UNCHANGED <<manager, datas, flag, thr, waiting, doDelete, history>>

-----------------------------------------------------------------------------
Call(s) == Add(s) \/ Remove(s) \/ RemoveThrows(s)

Join(s) == Advance(s) \/ JoinWorker(s) \/ JoinThrows(s)

Detaching == Detach \/ DetachReturns \/ \E s \in Sockets : DetachWorker(s) \/ DetachThrows(s)

Owner ==
    \/ Start \/ Stop \/ Wait \/ JoinCtl \/ WaitReturns \/ Clear \/ Detaching
    \/ \E s \in Sockets : Join(s)

Control == RunMe \/ CtlLeaves

Select(s) == SelectTimeout(s) \/ SelectReady(s) \/ SelectFails(s)

Worker(s) == Begin(s) \/ Test(s) \/ Select(s) \/ CallbackReturns(s) \/ FreeFlag(s) \/ Leave(s)

Next ==
    \/ Owner
    \/ Control
    \/ \E d \in BOOLEAN : SetDelete(d)
    \/ \E s \in Sockets : Call(s) \/ Worker(s) \/ CallbackRemoves(s)

Spec == Init /\ [][Next]_vars

\* Threads are scheduled; select() returns, if only because of its timeout;
\* callbacks return; a wait() that was called goes on.
Fairness ==
    /\ WF_vars(Control)
    /\ WF_vars(JoinCtl \/ WaitReturns \/ \E s \in Sockets : Join(s))
    /\ \A s \in Sockets : WF_vars(Worker(s))

FairSpec == Spec /\ Fairness

-----------------------------------------------------------------------------
(* Properties.                                                             *)

Ended(s) == pc[s] \in {"none", "done"}

\* With one stop() and no remove() of an idle manager, nobody writes a loop
\* flag after the worker has freed it.
NoWildWrite == (stops <= 1 /\ "IdleRemove" \notin taken) => ~wild

\* The mutex is left locked, by a thread's detach() that threw, only in a program
\* that removes a socket from an idle manager or has called detach().
MutexReleased == mutex = "held" => {"IdleRemove", "Detach"} \cap taken # {}

\* "while Stop() is not called": the manager does not run again after a stop(),
\* unless that came before run_me(), which then overwrites it.
StopSticks == stops > 0 /\ "EarlyStop" \notin taken => ~running

\* A socket is deleted only once nobody executes on its behalf any more: the
\* worker deletes it last, and clear() comes after the joins of wait().
NoUseAfterDelete == \A s \in Sockets : deleted[s] > 0 => Ended(s)

\* What the manager promises, with the loop flag read as permission to look.
W == INSTANCE Watch WITH
         watched <- datas,
         active <- running,
         looking <- {s \in Sockets : pc[s] = "select"},
         serving <- {s \in Sockets : pc[s] = "callback"}

RefinesWatch == W!Spec

\* stop() ends every worker, those busy in a callback or a select included, in
\* a program that takes no liberty; remove() that of the socket, in any program.
WorkersEnd ==
    /\ stops > 0 ~> (\A s \in Sockets : Ended(s)) \/ taken # {}
    /\ \A s \in Sockets : (thr[s] = "detached" /\ s \notin datas) ~> (pc[s] = "done")

\* A wait() that follows a stop() comes to an end, though not always a good
\* one: it may have to join a tuple without thread, or lose its place.
WaitEnds ==
    (stops > 0 /\ owner = "joinCtl")
        ~> owner \in {"returned", "threw", "lost", "cleared"} \/ taken # {}

(* Statements of the documentation that the code does not keep.            *)

\* SelectManager.hpp: clear() deletes all the sockets and "need to be call
\* after a wait()"; a socket is then deleted no more than once.
DeletedOnce == \A s \in Sockets : deleted[s] <= 1
=============================================================================
