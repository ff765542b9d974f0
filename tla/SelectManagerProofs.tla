------------------------ MODULE SelectManagerProofs ------------------------
(***************************************************************************)
(* Proofs about SelectManager for every set of sockets and every number of *)
(* stops, whatever liberties the program takes.                            *)
(***************************************************************************)
EXTENDS SelectManager, TLAPS

USE DEF manager, tuples, waiting, deletion, history, Moves, Register, LetGo, EraseTuple,
        StopCalled, JoinWorkerEarly

\* Before run_me() nothing runs; after the control thread has left, neither;
\* wait() gets past its first join only then.
Phases ==
    /\ ctl \in {"none", "entry"} =>
           ~running /\ \A s \in Sockets : thr[s] = "none" /\ pc[s] = "none"
    /\ ctl = "done" => ~running
    /\ owner \in {"joining", "returned", "lost", "cleared"} => ctl = "done"
    /\ owner \in {"joinCtl", "detaching", "detached", "threw"} => ctl # "none"
    /\ owner \in {"detaching", "detached"} => "Detach" \in taken
    /\ at # NoSocket => owner = "joining"

\* A worker's loop flag is set only while its manager runs and its socket is
\* registered (add, remove, run_me and stop keep the two together), and always
\* then unless a remove() that threw has reset it and left the mutex locked.
FlagAgreesWithRun ==
    \A s \in Sockets :
        /\ flag[s] = "true" => running /\ s \in datas
        /\ running /\ s \in datas /\ mutex = "free" => flag[s] = "true"

\* While the manager runs, every registered socket has been given a thread,
\* whether it came before run_me() or after it.
RunningServed == running => \A s \in datas : pc[s] # "none"

\* run_me() never assigns a thread over one that is joinable, which would end
\* the program (std::thread::operator=): before it, no tuple has a thread.
ThreadAssignedOnce == ctl \in {"none", "entry"} => \A s \in datas : thr[s] = "none"

\* The life of a loop flag against the position of its worker.
FlagLife ==
    \A s \in Sockets :
        /\ flag[s] = "none" => pc[s] = "none" /\ s \notin datas /\ thr[s] = "none"
        /\ flag[s] = "freed" => pc[s] \in {"leave", "done"}
        /\ pc[s] \in {"unwind", "leave"} => flag[s] # "true"

\* The worker deletes its socket once, at its end, and clear() once.
Deletions ==
    \A s \in Sockets :
        deleted[s] <= (IF pc[s] = "done" THEN 1 ELSE 0) + (IF owner = "cleared" THEN 1 ELSE 0)

\* A tuple in the list of a running manager has a thread that can be detached.
Detachable ==
    running => \A s \in datas : thr[s] = "joinable" \/ (thr[s] = "detached" /\ "Detach" \in taken)

IInv ==
    /\ TypeOK
    /\ Phases
    /\ FlagLife
    /\ FlagAgreesWithRun
    /\ RunningServed
    /\ Detachable
    /\ Deletions

\* A worker leaves its loop by the flag only after a stop, unless its socket
\* was removed, and no flag of the list is freed before.
LeftByStop ==
    /\ ctl \in {"loop", "done"} /\ ~running => stops > 0
    /\ \A s \in datas : pc[s] \in {"unwind", "leave"} \/ flag[s] = "freed" =>
           stops > 0 \/ mutex = "held"

\* wait() has joined every worker of the list; a joined worker has ended.
Joined ==
    /\ \A s \in Sockets : thr[s] = "joined" => pc[s] = "done"
    /\ owner = "returned" => \A s \in datas : thr[s] = "joined" \/ pc[s] = "none"

\* Who was deleted has ended or never had a worker; the latter takes a clear().
DeletedEnded ==
    \A s \in Sockets :
        deleted[s] > 0 => pc[s] = "done" \/ (pc[s] = "none" /\ ctl = "done")

(* Every action keeps the inductive invariant.                             *)

LEMMA InitIInv == Init => IInv
  <1> SUFFICES ASSUME Init PROVE IInv
    OBVIOUS
  <1>1. TypeOK
    <2>1. stops \in 0..MaxStops
      BY MaxStopsAssumption DEF Init
    <2>2. deleted \in [Sockets -> 0..2]
      BY DEF Init
    <2> QED
      BY <2>1, <2>2 DEF Init, TypeOK, WorkerPCs, OwnerStates
  <1>2. Phases /\ FlagLife /\ FlagAgreesWithRun /\ RunningServed /\ Detachable /\ Deletions
    BY DEF Init, Phases, FlagLife, FlagAgreesWithRun, RunningServed, Detachable, Deletions
  <1> QED
    BY <1>1, <1>2 DEF IInv

LEMMA StepIInv == IInv /\ [Next]_vars => IInv'
  <1> SUFFICES ASSUME IInv, [Next]_vars PROVE IInv'
    OBVIOUS
  <1> USE DEF IInv, TypeOK, Phases, FlagLife, FlagAgreesWithRun, RunningServed,
              Detachable, Deletions, WorkerPCs, OwnerStates
  <1>1. CASE Start
    BY <1>1 DEF Start
  <1>2. CASE Stop
    <2>1. TypeOK'
      <3>1. stops' \in 0..MaxStops
        BY <1>2, MaxStopsAssumption DEF Stop
      <3> QED
        BY <1>2, <3>1 DEF Stop, WriteFlags, Takes, Liberties
    <2>2. Phases' /\ FlagLife'
      BY <1>2 DEF Stop, WriteFlags, Takes
    <2>3. FlagAgreesWithRun' /\ RunningServed' /\ Detachable' /\ Deletions'
      BY <1>2 DEF Stop, WriteFlags
    <2> QED
      BY <2>1, <2>2, <2>3
  <1>3. CASE Wait
    BY <1>3 DEF Wait
  <1>4. CASE JoinCtl
    BY <1>4 DEF JoinCtl
  <1>5. CASE WaitReturns
    BY <1>5 DEF WaitReturns
  <1>6. CASE Clear
    BY <1>6 DEF Clear
  <1>7. CASE RunMe
    BY <1>7 DEF RunMe, WriteFlags
  <1>8. CASE CtlLeaves
    BY <1>8 DEF CtlLeaves
  <1>9. ASSUME NEW d \in BOOLEAN, SetDelete(d) PROVE IInv'
    BY <1>9 DEF SetDelete
  <1>10. ASSUME NEW s \in Sockets, Add(s) PROVE IInv'
    BY <1>10 DEF Add
  <1>11. ASSUME NEW s \in Sockets, Remove(s) PROVE IInv'
    BY <1>11, SocketsAssumption DEF Remove, Unregister, WriteFlags, Takes, Liberties
  <1>12. ASSUME NEW s \in Sockets, RemoveThrows(s) PROVE IInv'
    BY <1>12 DEF RemoveThrows, WriteFlags, Takes, Liberties
  <1>13. ASSUME NEW s \in Sockets, Advance(s) PROVE IInv'
    BY <1>13 DEF Advance
  <1>14. ASSUME NEW s \in Sockets, JoinWorker(s) PROVE IInv'
    BY <1>14 DEF JoinWorker
  <1>15. ASSUME NEW s \in Sockets, JoinThrows(s) PROVE IInv'
    BY <1>15 DEF JoinThrows
  <1>16. ASSUME NEW s \in Sockets, Begin(s) PROVE IInv'
    BY <1>16 DEF Begin, Goto
  <1>17. ASSUME NEW s \in Sockets, Test(s) PROVE IInv'
    BY <1>17 DEF Test, Goto
  <1>18. ASSUME NEW s \in Sockets, SelectTimeout(s) PROVE IInv'
    BY <1>18 DEF SelectTimeout, Goto
  <1>19. ASSUME NEW s \in Sockets, SelectReady(s) PROVE IInv'
    BY <1>19 DEF SelectReady, Goto
  <1>20. ASSUME NEW s \in Sockets, SelectFails(s) PROVE IInv'
    BY <1>20 DEF SelectFails, Goto
  <1>21. ASSUME NEW s \in Sockets, CallbackRemoves(s) PROVE IInv'
    BY <1>21, SocketsAssumption DEF CallbackRemoves, Unregister, WriteFlags
  <1>22. ASSUME NEW s \in Sockets, CallbackReturns(s) PROVE IInv'
    BY <1>22 DEF CallbackReturns, Goto
  <1>23. ASSUME NEW s \in Sockets, FreeFlag(s) PROVE IInv'
    BY <1>23 DEF FreeFlag, Goto
  <1>24. ASSUME NEW s \in Sockets, Leave(s) PROVE IInv'
    BY <1>24 DEF Leave, Goto
  <1>26. CASE Detach
    BY <1>26 DEF Detach, Takes, Liberties
  <1>27. CASE DetachReturns
    BY <1>27 DEF DetachReturns
  <1>28. ASSUME NEW s \in Sockets, DetachWorker(s) PROVE IInv'
    BY <1>28 DEF DetachWorker
  <1>29. ASSUME NEW s \in Sockets, DetachThrows(s) PROVE IInv'
    BY <1>29 DEF DetachThrows
  <1>25. CASE UNCHANGED vars
    BY <1>25 DEF vars
  <1> QED
    BY <1>1, <1>2, <1>3, <1>4, <1>5, <1>6, <1>7, <1>8, <1>9, <1>10, <1>11, <1>12, <1>13, <1>14, <1>15, <1>16, <1>17, <1>18, <1>19, <1>20, <1>21, <1>22, <1>23, <1>24, <1>25, <1>26, <1>27, <1>28, <1>29
       DEF Next, Owner, Detaching, Control, Call, Join, Worker, Select

THEOREM Invariance == Spec => []IInv
  BY InitIInv, StepIInv, PTL DEF Spec

\* Every variable keeps its type; a socket is deleted at most twice, by its
\* worker (run()) and by clear().
THEOREM TypeCorrect == Spec => []TypeOK
  BY Invariance, PTL DEF IInv

\* The loop flags agree with _run and the list, whatever calls interleave.
THEOREM FlagAgreement == Spec => []FlagAgreesWithRun
  BY Invariance, PTL DEF IInv

\* A running manager has started a thread for every socket of its list.
THEOREM Serving == Spec => []RunningServed
  BY Invariance, PTL DEF IInv

\* run_me() only assigns to std::thread objects that hold no thread.
THEOREM ThreadAssignment == Spec => []ThreadAssignedOnce
  <1>1. IInv => ThreadAssignedOnce
    BY DEF IInv, Phases, TypeOK, ThreadAssignedOnce
  <1> QED
    BY <1>1, Invariance, PTL

-----------------------------------------------------------------------------
(* The mutex.                                                              *)

\* remove() throws and leaves the mutex locked only in a program that removes a
\* socket while the manager does not run.
THEOREM MutexSafe == Spec => []MutexReleased
  <1>1. Init => MutexReleased
    BY DEF Init, MutexReleased
  <1>2. IInv /\ MutexReleased /\ [Next]_vars => MutexReleased'
    <2> SUFFICES ASSUME IInv, MutexReleased, [Next]_vars PROVE MutexReleased'
      OBVIOUS
    <2>1. ASSUME NEW s \in Sockets, RemoveThrows(s) PROVE MutexReleased'
      <3>1. ~running \/ "Detach" \in taken
        BY <2>1 DEF RemoveThrows, IInv, Detachable
      <3> QED
        BY <2>1, <3>1 DEF RemoveThrows, Takes, MutexReleased
    <2>2. ASSUME NEW s \in Sockets, Remove(s) PROVE MutexReleased'
      BY <2>2 DEF Remove, Unregister, MutexReleased
    <2>3. CASE Stop
      BY <2>3 DEF Stop, MutexReleased
    <2>4. CASE Detach
      BY <2>4 DEF Detach, Takes, MutexReleased
    <2> QED
      BY <2>1, <2>2, <2>3, <2>4 DEF Next, Owner, Detaching, DetachReturns, DetachWorker,
             DetachThrows, Control, Call, Join, Worker, Select, Start, Wait,
           JoinCtl, WaitReturns, Clear, RunMe, CtlLeaves, SetDelete, Add,
           Unregister, Advance, JoinWorker, JoinThrows, Begin, Test, SelectTimeout,
           SelectReady, SelectFails, CallbackRemoves, CallbackReturns, FreeFlag, Leave,
           vars, MutexReleased
  <1> QED
    BY <1>1, <1>2, Invariance, PTL DEF Spec

-----------------------------------------------------------------------------
(* stop().                                                                 *)

\* A stop() that came after run_me() finds the control thread in its loop.
LateStop == stops > 0 /\ "EarlyStop" \notin taken => ctl \in {"loop", "done"} /\ ~running

\* The manager does not run again after a stop(), unless that came so early
\* that run_me() overwrote it.
THEOREM StopFinal == Spec => []StopSticks
  <1>1. Init => LateStop
    BY DEF Init, LateStop
  <1>2. IInv /\ LateStop /\ [Next]_vars => LateStop'
    <2> SUFFICES ASSUME IInv, LateStop, [Next]_vars PROVE LateStop'
      OBVIOUS
    <2>1. CASE Stop
      BY <2>1 DEF Stop, Takes, LateStop, IInv, TypeOK
    <2>2. CASE RunMe
      BY <2>2 DEF RunMe, LateStop, WriteFlags
    <2>3. CASE Start
      BY <2>3 DEF Start, LateStop
    <2>4. CASE CtlLeaves
      BY <2>4 DEF CtlLeaves, LateStop
    <2>5. ASSUME NEW s \in Sockets, Remove(s) \/ RemoveThrows(s) PROVE LateStop'
      BY <2>5 DEF Remove, RemoveThrows, Unregister, Takes, LateStop
    <2>6. CASE Detach
      BY <2>6 DEF Detach, Takes, LateStop
    <2> QED
      BY <2>1, <2>2, <2>3, <2>4, <2>5, <2>6
      DEF LateStop, Next, Owner, Detaching, DetachReturns, DetachWorker,
             DetachThrows, Control, Call, Join, Worker, Select, Wait, JoinCtl,
          WaitReturns, Clear, SetDelete, Add, Advance, JoinWorker,
          JoinThrows, Begin, Test, SelectTimeout, SelectReady, SelectFails, CallbackRemoves,
          CallbackReturns, FreeFlag, Leave, Unregister, vars
  <1>3. LateStop => StopSticks
    BY DEF LateStop, StopSticks
  <1> QED
    BY <1>1, <1>2, <1>3, Invariance, PTL DEF Spec

-----------------------------------------------------------------------------
(* Deletion of sockets.                                                    *)

LEMMA InitJoined == Init => Joined /\ DeletedEnded
  BY DEF Init, Joined, DeletedEnded

LEMMA StepJoined == IInv /\ Joined /\ [Next]_vars => Joined'
  <1> SUFFICES ASSUME IInv, Joined, [Next]_vars PROVE Joined'
    OBVIOUS
  <1> USE DEF Joined, IInv, TypeOK, Phases, FlagLife, RunningServed
  <1>1. CASE Start
    BY <1>1 DEF Start
  <1>2. CASE Stop
    BY <1>2 DEF Stop, WriteFlags
  <1>3. CASE Wait
    BY <1>3 DEF Wait
  <1>4. CASE JoinCtl
    BY <1>4 DEF JoinCtl
  <1>5. CASE WaitReturns
    BY <1>5 DEF WaitReturns
  <1>6. CASE Clear
    BY <1>6 DEF Clear
  <1>7. CASE RunMe
    BY <1>7 DEF RunMe, WriteFlags
  <1>8. CASE CtlLeaves
    BY <1>8 DEF CtlLeaves
  <1>9. ASSUME NEW d \in BOOLEAN, SetDelete(d) PROVE Joined'
    BY <1>9 DEF SetDelete
  <1>10. ASSUME NEW s \in Sockets, Add(s) PROVE Joined'
    BY <1>10 DEF Add
  <1>11. ASSUME NEW s \in Sockets, Remove(s) PROVE Joined'
    BY <1>11 DEF Remove, Unregister, WriteFlags
  <1>12. ASSUME NEW s \in Sockets, RemoveThrows(s) PROVE Joined'
    BY <1>12 DEF RemoveThrows, WriteFlags
  <1>13. ASSUME NEW s \in Sockets, Advance(s) PROVE Joined'
    BY <1>13 DEF Advance
  <1>14. ASSUME NEW s \in Sockets, JoinWorker(s) PROVE Joined'
    BY <1>14 DEF JoinWorker
  <1>15. ASSUME NEW s \in Sockets, JoinThrows(s) PROVE Joined'
    BY <1>15 DEF JoinThrows
  <1>16. ASSUME NEW s \in Sockets, Begin(s) PROVE Joined'
    BY <1>16 DEF Begin, Goto
  <1>17. ASSUME NEW s \in Sockets, Test(s) PROVE Joined'
    BY <1>17 DEF Test, Goto
  <1>18. ASSUME NEW s \in Sockets, SelectTimeout(s) PROVE Joined'
    BY <1>18 DEF SelectTimeout, Goto
  <1>19. ASSUME NEW s \in Sockets, SelectReady(s) PROVE Joined'
    BY <1>19 DEF SelectReady, Goto
  <1>20. ASSUME NEW s \in Sockets, SelectFails(s) PROVE Joined'
    BY <1>20 DEF SelectFails, Goto
  <1>21. ASSUME NEW s \in Sockets, CallbackRemoves(s) PROVE Joined'
    BY <1>21 DEF CallbackRemoves, Unregister, WriteFlags
  <1>22. ASSUME NEW s \in Sockets, CallbackReturns(s) PROVE Joined'
    BY <1>22 DEF CallbackReturns, Goto
  <1>23. ASSUME NEW s \in Sockets, FreeFlag(s) PROVE Joined'
    BY <1>23 DEF FreeFlag, Goto
  <1>24. ASSUME NEW s \in Sockets, Leave(s) PROVE Joined'
    BY <1>24 DEF Leave, Goto
  <1>26. CASE Detach
    BY <1>26 DEF Detach
  <1>27. CASE DetachReturns
    BY <1>27 DEF DetachReturns
  <1>28. ASSUME NEW s \in Sockets, DetachWorker(s) PROVE Joined'
    BY <1>28 DEF DetachWorker
  <1>29. ASSUME NEW s \in Sockets, DetachThrows(s) PROVE Joined'
    BY <1>29 DEF DetachThrows
  <1>25. CASE UNCHANGED vars
    BY <1>25 DEF vars
  <1> QED
    BY <1>1, <1>2, <1>3, <1>4, <1>5, <1>6, <1>7, <1>8, <1>9, <1>10, <1>11, <1>12, <1>13, <1>14, <1>15, <1>16, <1>17, <1>18, <1>19, <1>20, <1>21, <1>22, <1>23, <1>24, <1>25, <1>26, <1>27, <1>28, <1>29
       DEF Next, Owner, Detaching, Control, Call, Join, Worker, Select

LEMMA StepDeletedEnded == IInv /\ Joined /\ DeletedEnded /\ [Next]_vars => DeletedEnded'
  <1> SUFFICES ASSUME IInv, Joined, DeletedEnded, [Next]_vars PROVE DeletedEnded'
    OBVIOUS
  <1> USE DEF DeletedEnded, Joined, IInv, TypeOK, Phases, FlagLife, Deletions
  <1>1. CASE Start
    BY <1>1 DEF Start
  <1>2. CASE Stop
    BY <1>2 DEF Stop, WriteFlags
  <1>3. CASE Wait
    BY <1>3 DEF Wait
  <1>4. CASE JoinCtl
    BY <1>4 DEF JoinCtl
  <1>5. CASE WaitReturns
    BY <1>5 DEF WaitReturns
  <1>6. CASE Clear
    BY <1>6 DEF Clear
  <1>7. CASE RunMe
    BY <1>7 DEF RunMe, WriteFlags
  <1>8. CASE CtlLeaves
    BY <1>8 DEF CtlLeaves
  <1>9. ASSUME NEW d \in BOOLEAN, SetDelete(d) PROVE DeletedEnded'
    BY <1>9 DEF SetDelete
  <1>10. ASSUME NEW s \in Sockets, Add(s) PROVE DeletedEnded'
    BY <1>10 DEF Add
  <1>11. ASSUME NEW s \in Sockets, Remove(s) PROVE DeletedEnded'
    BY <1>11 DEF Remove, Unregister, WriteFlags
  <1>12. ASSUME NEW s \in Sockets, RemoveThrows(s) PROVE DeletedEnded'
    BY <1>12 DEF RemoveThrows, WriteFlags
  <1>13. ASSUME NEW s \in Sockets, Advance(s) PROVE DeletedEnded'
    BY <1>13 DEF Advance
  <1>14. ASSUME NEW s \in Sockets, JoinWorker(s) PROVE DeletedEnded'
    BY <1>14 DEF JoinWorker
  <1>15. ASSUME NEW s \in Sockets, JoinThrows(s) PROVE DeletedEnded'
    BY <1>15 DEF JoinThrows
  <1>16. ASSUME NEW s \in Sockets, Begin(s) PROVE DeletedEnded'
    BY <1>16 DEF Begin, Goto
  <1>17. ASSUME NEW s \in Sockets, Test(s) PROVE DeletedEnded'
    BY <1>17 DEF Test, Goto
  <1>18. ASSUME NEW s \in Sockets, SelectTimeout(s) PROVE DeletedEnded'
    BY <1>18 DEF SelectTimeout, Goto
  <1>19. ASSUME NEW s \in Sockets, SelectReady(s) PROVE DeletedEnded'
    BY <1>19 DEF SelectReady, Goto
  <1>20. ASSUME NEW s \in Sockets, SelectFails(s) PROVE DeletedEnded'
    BY <1>20 DEF SelectFails, Goto
  <1>21. ASSUME NEW s \in Sockets, CallbackRemoves(s) PROVE DeletedEnded'
    BY <1>21 DEF CallbackRemoves, Unregister, WriteFlags
  <1>22. ASSUME NEW s \in Sockets, CallbackReturns(s) PROVE DeletedEnded'
    BY <1>22 DEF CallbackReturns, Goto
  <1>23. ASSUME NEW s \in Sockets, FreeFlag(s) PROVE DeletedEnded'
    BY <1>23 DEF FreeFlag, Goto
  <1>24. ASSUME NEW s \in Sockets, Leave(s) PROVE DeletedEnded'
    BY <1>24 DEF Leave, Goto
  <1>26. CASE Detach
    BY <1>26 DEF Detach
  <1>27. CASE DetachReturns
    BY <1>27 DEF DetachReturns
  <1>28. ASSUME NEW s \in Sockets, DetachWorker(s) PROVE DeletedEnded'
    BY <1>28 DEF DetachWorker
  <1>29. ASSUME NEW s \in Sockets, DetachThrows(s) PROVE DeletedEnded'
    BY <1>29 DEF DetachThrows
  <1>25. CASE UNCHANGED vars
    BY <1>25 DEF vars
  <1> QED
    BY <1>1, <1>2, <1>3, <1>4, <1>5, <1>6, <1>7, <1>8, <1>9, <1>10, <1>11, <1>12, <1>13, <1>14, <1>15, <1>16, <1>17, <1>18, <1>19, <1>20, <1>21, <1>22, <1>23, <1>24, <1>25, <1>26, <1>27, <1>28, <1>29
       DEF Next, Owner, Detaching, Control, Call, Join, Worker, Select

\* Nobody executes on behalf of a deleted socket: wait() has joined every
\* worker whose socket clear() deletes, and a worker deletes its own last.
THEOREM DeletionSafe == Spec => []NoUseAfterDelete
  <1>1. DeletedEnded => NoUseAfterDelete
    BY DEF DeletedEnded, NoUseAfterDelete, Ended
  <1> QED
    BY <1>1, InitJoined, StepJoined, StepDeletedEnded, Invariance, PTL DEF Spec

-----------------------------------------------------------------------------
(* Writes to freed loop flags.                                             *)

LEMMA InitLeftByStop == Init => LeftByStop
  BY DEF Init, LeftByStop

LEMMA StepLeftByStop == IInv /\ LeftByStop /\ [Next]_vars => LeftByStop'
  <1> SUFFICES ASSUME IInv, LeftByStop, [Next]_vars PROVE LeftByStop'
    OBVIOUS
  <1> USE DEF LeftByStop, IInv, TypeOK, Phases, FlagLife, FlagAgreesWithRun
  <1>1. CASE Start
    BY <1>1 DEF Start
  <1>2. CASE Stop
    BY <1>2, MaxStopsAssumption DEF Stop, WriteFlags
  <1>3. CASE Wait
    BY <1>3 DEF Wait
  <1>4. CASE JoinCtl
    BY <1>4 DEF JoinCtl
  <1>5. CASE WaitReturns
    BY <1>5 DEF WaitReturns
  <1>6. CASE Clear
    BY <1>6 DEF Clear
  <1>7. CASE RunMe
    BY <1>7 DEF RunMe, WriteFlags
  <1>8. CASE CtlLeaves
    BY <1>8 DEF CtlLeaves
  <1>9. ASSUME NEW d \in BOOLEAN, SetDelete(d) PROVE LeftByStop'
    BY <1>9 DEF SetDelete
  <1>10. ASSUME NEW s \in Sockets, Add(s) PROVE LeftByStop'
    BY <1>10 DEF Add
  <1>11. ASSUME NEW s \in Sockets, Remove(s) PROVE LeftByStop'
    BY <1>11 DEF Remove, Unregister, WriteFlags
  <1>12. ASSUME NEW s \in Sockets, RemoveThrows(s) PROVE LeftByStop'
    BY <1>12 DEF RemoveThrows, WriteFlags
  <1>13. ASSUME NEW s \in Sockets, Advance(s) PROVE LeftByStop'
    BY <1>13 DEF Advance
  <1>14. ASSUME NEW s \in Sockets, JoinWorker(s) PROVE LeftByStop'
    BY <1>14 DEF JoinWorker
  <1>15. ASSUME NEW s \in Sockets, JoinThrows(s) PROVE LeftByStop'
    BY <1>15 DEF JoinThrows
  <1>16. ASSUME NEW s \in Sockets, Begin(s) PROVE LeftByStop'
    BY <1>16 DEF Begin, Goto
  <1>17. ASSUME NEW s \in Sockets, Test(s) PROVE LeftByStop'
    BY <1>17 DEF Test, Goto
  <1>18. ASSUME NEW s \in Sockets, SelectTimeout(s) PROVE LeftByStop'
    BY <1>18 DEF SelectTimeout, Goto
  <1>19. ASSUME NEW s \in Sockets, SelectReady(s) PROVE LeftByStop'
    BY <1>19 DEF SelectReady, Goto
  <1>20. ASSUME NEW s \in Sockets, SelectFails(s) PROVE LeftByStop'
    BY <1>20 DEF SelectFails, Goto
  <1>21. ASSUME NEW s \in Sockets, CallbackRemoves(s) PROVE LeftByStop'
    BY <1>21 DEF CallbackRemoves, Unregister, WriteFlags
  <1>22. ASSUME NEW s \in Sockets, CallbackReturns(s) PROVE LeftByStop'
    BY <1>22 DEF CallbackReturns, Goto
  <1>23. ASSUME NEW s \in Sockets, FreeFlag(s) PROVE LeftByStop'
    BY <1>23 DEF FreeFlag, Goto
  <1>24. ASSUME NEW s \in Sockets, Leave(s) PROVE LeftByStop'
    BY <1>24 DEF Leave, Goto
  <1>26. CASE Detach
    BY <1>26 DEF Detach
  <1>27. CASE DetachReturns
    BY <1>27 DEF DetachReturns
  <1>28. ASSUME NEW s \in Sockets, DetachWorker(s) PROVE LeftByStop'
    BY <1>28 DEF DetachWorker
  <1>29. ASSUME NEW s \in Sockets, DetachThrows(s) PROVE LeftByStop'
    BY <1>29 DEF DetachThrows
  <1>25. CASE UNCHANGED vars
    BY <1>25 DEF vars
  <1> QED
    BY <1>1, <1>2, <1>3, <1>4, <1>5, <1>6, <1>7, <1>8, <1>9, <1>10, <1>11, <1>12, <1>13, <1>14, <1>15, <1>16, <1>17, <1>18, <1>19, <1>20, <1>21, <1>22, <1>23, <1>24, <1>25, <1>26, <1>27, <1>28, <1>29
       DEF Next, Owner, Detaching, Control, Call, Join, Worker, Select

\* The program's calls are counted and its liberties kept.
LEMMA StepHistory ==
    IInv /\ [Next]_vars => stops \in Nat /\ stops' \in Nat /\ stops <= stops' /\ taken \subseteq taken'
  <1> SUFFICES ASSUME IInv, [Next]_vars
               PROVE  stops \in Nat /\ stops' \in Nat /\ stops <= stops' /\ taken \subseteq taken'
    OBVIOUS
  <1>1. stops \in Nat
    BY MaxStopsAssumption DEF IInv, TypeOK
  <1>2. CASE Stop
    BY <1>1, <1>2 DEF Stop, Takes
  <1>3. ASSUME NEW s \in Sockets, Remove(s) \/ RemoveThrows(s)
        PROVE  stops' = stops /\ taken \subseteq taken'
    BY <1>3 DEF Remove, RemoveThrows, Unregister, Takes
  <1>4. (stops' = stops /\ taken' = taken)
        \/ Stop \/ Detach \/ \E s \in Sockets : Remove(s) \/ RemoveThrows(s)
    BY DEF Next, Owner, Detaching, DetachReturns, DetachWorker,
             DetachThrows, Control, Call, Join, Worker, Select, Start, Wait, JoinCtl,
           WaitReturns, Clear, RunMe, CtlLeaves, SetDelete, Add, Advance, JoinWorker,
           JoinThrows, Begin, Test, SelectTimeout, SelectReady, SelectFails, CallbackRemoves,
           CallbackReturns, FreeFlag, Leave, Unregister, vars
  <1>5. CASE Detach
    BY <1>1, <1>5 DEF Detach, Takes
  <1> QED
    BY <1>1, <1>2, <1>3, <1>4, <1>5

\* A single stop() and removals from a running manager or from callbacks write
\* only to loop flags that are still allocated.
THEOREM NoWildWrites == Spec => []NoWildWrite
  <1>1. Init => NoWildWrite
    BY DEF Init, NoWildWrite
  <1>2. IInv /\ LeftByStop /\ NoWildWrite /\ [Next]_vars => NoWildWrite'
    <2> SUFFICES ASSUME IInv, LeftByStop, ~wild, [Next]_vars,
                        stops' <= 1, "IdleRemove" \notin taken'
                 PROVE  ~wild'
      BY StepHistory DEF NoWildWrite
    <2> USE DEF WriteFlags
    <2>1. CASE Stop
      <3>1. stops = 0
        BY <2>1, MaxStopsAssumption DEF Stop, IInv, TypeOK
      <3>2. ~ \E s \in datas : flag[s] = "freed"
        BY <2>1, <3>1 DEF LeftByStop, Stop
      <3> QED
        BY <2>1, <3>2 DEF Stop
    <2>2. CASE RunMe
      BY <2>2 DEF RunMe, IInv, TypeOK, Phases, FlagLife
    <2>3. ASSUME NEW s \in Sockets, Remove(s) PROVE ~wild'
      <3>1. running /\ s \in datas
        BY <2>3 DEF Remove, Takes, Unregister
      <3> QED
        BY <2>3, <3>1 DEF Remove, Unregister, IInv, FlagAgreesWithRun
    <2>4. ASSUME NEW s \in Sockets, RemoveThrows(s) PROVE ~wild'
      <3>1. running /\ s \in datas
        BY <2>4 DEF RemoveThrows, Takes
      <3> QED
        BY <2>4, <3>1 DEF RemoveThrows, IInv, FlagAgreesWithRun
    <2>5. ASSUME NEW s \in Sockets, CallbackRemoves(s) PROVE ~wild'
      BY <2>5 DEF CallbackRemoves, Unregister, IInv, FlagLife
    <2> QED
      BY <2>1, <2>2, <2>3, <2>4, <2>5
         DEF Next, Owner, Detaching, Detach, DetachReturns, DetachWorker,
             DetachThrows, Control, Call, Join, Worker, Select, Start, Wait, JoinCtl,
             WaitReturns, Clear, CtlLeaves, SetDelete, Add, Advance, JoinWorker,
             JoinThrows, Begin, Test, SelectTimeout, SelectReady, SelectFails,
             CallbackReturns, FreeFlag, Leave, vars
  <1> QED
    BY <1>1, <1>2, InitLeftByStop, StepLeftByStop, Invariance, PTL DEF Spec

-----------------------------------------------------------------------------
(* Refinement.                                                             *)

LEMMA StepRefines == IInv /\ [Next]_vars => [W!Next]_(W!vars)
  <1> SUFFICES ASSUME IInv, [Next]_vars PROVE W!Next \/ UNCHANGED W!vars
    OBVIOUS
  <1> USE DEF W!vars
  <1>1. ASSUME Start PROVE UNCHANGED W!vars
    BY <1>1 DEF Start
  <1>2. ASSUME Stop PROVE W!Switched(FALSE)
    BY <1>2 DEF Stop, W!Switched
  <1>3. ASSUME Wait PROVE UNCHANGED W!vars
    BY <1>3 DEF Wait
  <1>4. ASSUME JoinCtl PROVE UNCHANGED W!vars
    BY <1>4 DEF JoinCtl
  <1>5. ASSUME WaitReturns PROVE UNCHANGED W!vars
    BY <1>5 DEF WaitReturns
  <1>6. ASSUME Clear PROVE W!AllDropped
    BY <1>6 DEF Clear, W!AllDropped
  <1>7. ASSUME RunMe PROVE W!Switched(TRUE)
    BY <1>7 DEF RunMe, W!Switched, IInv, Phases, TypeOK, WriteFlags
  <1>8. ASSUME CtlLeaves PROVE UNCHANGED W!vars
    BY <1>8 DEF CtlLeaves
  <1>9. ASSUME NEW d \in BOOLEAN, SetDelete(d) PROVE UNCHANGED W!vars
    BY <1>9 DEF SetDelete
  <1>10. ASSUME NEW s \in Sockets, Add(s) PROVE W!Watched(s)
    BY <1>10 DEF Add, W!Watched, IInv, TypeOK, WorkerPCs, FlagLife
  <1>11. ASSUME NEW s \in Sockets, Remove(s) PROVE W!Dropped(s)
    BY <1>11 DEF Remove, W!Dropped, Unregister, IInv, TypeOK, WorkerPCs
  <1>12. ASSUME NEW s \in Sockets, RemoveThrows(s) PROVE UNCHANGED W!vars
    BY <1>12 DEF RemoveThrows, IInv, TypeOK, WorkerPCs
  <1>13. ASSUME NEW s \in Sockets, Advance(s) PROVE UNCHANGED W!vars
    BY <1>13 DEF Advance, IInv, TypeOK, WorkerPCs
  <1>14. ASSUME NEW s \in Sockets, JoinWorker(s) PROVE UNCHANGED W!vars
    BY <1>14 DEF JoinWorker, IInv, TypeOK, WorkerPCs
  <1>15. ASSUME NEW s \in Sockets, JoinThrows(s) PROVE UNCHANGED W!vars
    BY <1>15 DEF JoinThrows, IInv, TypeOK, WorkerPCs
  <1>16. ASSUME NEW s \in Sockets, Begin(s) PROVE UNCHANGED W!vars
    BY <1>16 DEF Begin, Goto, IInv, TypeOK, WorkerPCs
  <1>17. ASSUME NEW s \in Sockets, Test(s) PROVE W!Look(s) \/ UNCHANGED W!vars
    <2>1. CASE flag[s] = "true"
      BY <1>17, <2>1 DEF Test, Goto, W!Look, IInv, TypeOK, WorkerPCs, FlagAgreesWithRun
    <2>2. CASE flag[s] # "true"
      BY <1>17, <2>2 DEF Test, Goto, IInv, TypeOK, WorkerPCs
    <2> QED
      BY <2>1, <2>2
  <1>18. ASSUME NEW s \in Sockets, SelectTimeout(s) PROVE W!LookAway(s)
    BY <1>18 DEF SelectTimeout, Goto, W!LookAway, IInv, TypeOK, WorkerPCs
  <1>19. ASSUME NEW s \in Sockets, SelectReady(s) PROVE W!Serve(s)
    BY <1>19 DEF SelectReady, Goto, W!Serve, IInv, TypeOK, WorkerPCs
  <1>20. ASSUME NEW s \in Sockets, SelectFails(s) PROVE W!LookAway(s)
    BY <1>20 DEF SelectFails, Goto, W!LookAway, IInv, TypeOK, WorkerPCs
  <1>21. ASSUME NEW s \in Sockets, CallbackRemoves(s) PROVE W!Dropped(s)
    BY <1>21 DEF CallbackRemoves, W!Dropped, Unregister, IInv, TypeOK, WorkerPCs
  <1>22. ASSUME NEW s \in Sockets, CallbackReturns(s) PROVE W!Served(s)
    BY <1>22 DEF CallbackReturns, Goto, W!Served, IInv, TypeOK, WorkerPCs
  <1>23. ASSUME NEW s \in Sockets, FreeFlag(s) PROVE UNCHANGED W!vars
    BY <1>23 DEF FreeFlag, Goto, IInv, TypeOK, WorkerPCs
  <1>24. ASSUME NEW s \in Sockets, Leave(s) PROVE UNCHANGED W!vars
    BY <1>24 DEF Leave, Goto, IInv, TypeOK, WorkerPCs
  <1>26. ASSUME Detach PROVE UNCHANGED W!vars
    BY <1>26 DEF Detach
  <1>27. ASSUME DetachReturns PROVE UNCHANGED W!vars
    BY <1>27 DEF DetachReturns
  <1>28. ASSUME NEW s \in Sockets, DetachWorker(s) PROVE UNCHANGED W!vars
    BY <1>28 DEF DetachWorker
  <1>29. ASSUME NEW s \in Sockets, DetachThrows(s) PROVE UNCHANGED W!vars
    BY <1>29 DEF DetachThrows
  <1>25. CASE UNCHANGED vars
    BY <1>25 DEF vars
  <1> QED
    BY <1>1, <1>2, <1>3, <1>4, <1>5, <1>6, <1>7, <1>8, <1>9, <1>10, <1>11, <1>12, <1>13, <1>14, <1>15, <1>16, <1>17, <1>18, <1>19, <1>20, <1>21, <1>22, <1>23, <1>24, <1>25, <1>26, <1>27, <1>28, <1>29
       DEF Next, Owner, Detaching, Control, Call, Join, Worker, Select, W!Next

\* The manager implements Watch: a callback starts only after a look that began
\* while the socket was registered and the manager ran, one callback per look.
THEOREM Refinement == Spec => RefinesWatch
  <1>1. Init => W!Init
    BY DEF Init, W!Init
  <1> QED
    BY <1>1, StepRefines, Invariance, PTL DEF Spec, RefinesWatch, W!Spec
=============================================================================
