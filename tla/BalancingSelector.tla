------------------------- MODULE BalancingSelector -------------------------
(***************************************************************************)
(* ntw::BalancingSelector (src/Socket/BalancingSelector.cpp): a growing    *)
(* list of SelectManagers with a limit on the sockets of each and on their *)
(* number.  It has no lock: add() is executed by one thread (the accept    *)
(* worker of Server), remove() by the worker whose callback removes its    *)
(* socket, start() and wait() by the owner, stop() by any other thread.    *)
(* Every turn of a loop over the list is one action, so is every access to *)
(* _run, and every call of a SelectManager, whose bodies hold its mutex.   *)
(*                                                                         *)
(* A SelectManager is what module SelectManager leaves visible: its list,  *)
(* _run, its control thread, and the place of the worker of each socket.   *)
(***************************************************************************)
EXTENDS Naturals, Sequences, FiniteSets

CONSTANTS Sockets,
          NoSocket,
          Limits,     \* the limits the constructor may be given
          UintMax     \* the largest unsigned int

ASSUME SocketsAssumption == NoSocket \notin Sockets /\ IsFiniteSet(Sockets)
ASSUME LimitsAssumption == Limits \subseteq [perSelector : Nat \ {0}, selectors : Nat]
ASSUME UintAssumption ==
    /\ UintMax \in Nat
    /\ UintMax > Cardinality(Sockets)
    /\ \A l \in Limits : UintMax > l.perSelector

VARIABLES
    limits,     \* max_per_selector, and nb_selector_max with 0 for no limit
    run,        \* _run
    selectors,  \* the list of SelectManagers
    work,       \* the worker of each socket: none, test, select, callback, done
    rem,        \* the next selector remove() looks at for a socket, 0 if not called
    adder,      \* the thread in add(): where it is and its local variables
    owner,      \* the thread in start() or wait(), the next selector, and the
                \* socket whose worker it joins
    stopper,    \* the thread in stop(), and the next selector
    called,     \* history: the sockets add() was called for
    refused,    \* history: those for which it returned false
    removed,    \* history: those a callback removed
    missed,     \* history: the selectors stop() did not end, as they began to
                \* run after it had passed them
    terminated  \* std::terminate(): a thread was assigned over a joinable one

threads == <<work, rem>>
callers == <<owner, stopper>>
calls == <<called, refused, removed>>
ends == <<missed, terminated>>
vars == <<limits, run, selectors, threads, adder, callers, calls, ends>>

Selectors == 1..Len(selectors)

Manager == [datas |-> {}, running |-> FALSE, ctl |-> "none"]

Doing(op, i) == [op |-> op, i |-> i, at |-> NoSocket]

Idle == [pc |-> "idle", sock |-> NoSocket, i |-> 0, charge |-> UintMax, min |-> 0]

Init ==
    /\ limits \in Limits
    /\ run = FALSE
    /\ selectors = <<Manager>>
    /\ work = [s \in Sockets |-> "none"]
    /\ rem = [s \in Sockets |-> 0]
    /\ adder = Idle
    /\ owner = Doing("idle", 0)
    /\ stopper = [op |-> "idle", i |-> 0]
    /\ called = {}
    /\ refused = {}
    /\ removed = {}
    /\ missed = {}
    /\ terminated = FALSE

Size(m) == Cardinality(selectors[m].datas)

-----------------------------------------------------------------------------
(* add()                                                                   *)

Called(s, pc) ==
    /\ adder.pc = "idle"
    /\ s \notin called
    /\ adder' = [Idle EXCEPT !.pc = pc, !.sock = s, !.i = 1]
    /\ called' = called \cup {s}
    /\ UNCHANGED <<limits, run, selectors, threads, callers, refused, removed, ends>>

AddCalled(s) == Called(s, "scan")

\* add(sock, host, port) connects, awaits the greeting, removes the socket
\* whatever came of both, and adds it if it was connected.
AddHost(s, connected) == Called(s, IF connected THEN "purge" ELSE "drop")

\* One turn of the remove() in add(sock, host, port), and its end.
Purge ==
    LET s == adder.sock IN
    /\ adder.pc \in {"purge", "drop"}
    /\ IF adder.i \in Selectors
       THEN /\ adder' = [adder EXCEPT !.i = @ + 1]
            /\ selectors' = [selectors EXCEPT ![adder.i].datas = @ \ {s}]
            /\ UNCHANGED refused
       ELSE /\ adder' = IF adder.pc = "purge" THEN [adder EXCEPT !.pc = "scan", !.i = 1]
                                              ELSE Idle
            /\ refused' = IF adder.pc = "drop" THEN refused \cup {s} ELSE refused
            /\ UNCHANGED selectors
    /\ UNCHANGED <<limits, run, threads, callers, called, removed, ends>>

\* One turn of the search for the least loaded selector, of n sockets.
ScanSize(n) ==
    /\ adder.pc = "scan"
    /\ adder.i \in Selectors
    /\ adder' = IF n < adder.charge
                THEN [adder EXCEPT !.i = @ + 1, !.charge = n, !.min = adder.i]
                ELSE [adder EXCEPT !.i = @ + 1]
    /\ UNCHANGED <<limits, run, selectors, threads, callers, calls, ends>>

\* Variant: the socket to be added is counted already.
ScanCountsNew == ScanSize(Size(adder.i) + 1)

\* size() takes no lock.
Scan == ScanSize(Size(adder.i))

\* SelectManager::add of the adder's socket to selector m.
Insert(m) ==
    LET s == adder.sock IN
    /\ selectors' = [selectors EXCEPT ![m].datas = @ \cup {s}]
    /\ work' = IF selectors[m].running THEN [work EXCEPT ![s] = "test"] ELSE work
    /\ adder' = Idle
    /\ UNCHANGED <<limits, run, rem, callers, calls, ends>>

Scanned == adder.pc = "scan" /\ adder.i \notin Selectors

Place == Scanned /\ adder.charge < limits.perSelector /\ Insert(adder.min)

MayGrow == limits.selectors = 0 \/ Len(selectors) < limits.selectors

GrowTo(m) ==
    /\ Scanned
    /\ adder.charge >= limits.perSelector
    /\ MayGrow
    /\ selectors' = Append(selectors, Manager)
    /\ adder' = [adder EXCEPT !.pc = "new", !.min = m]
    /\ UNCHANGED <<limits, run, threads, callers, calls, ends>>

\* Variant: the socket is put into the selector found by the search.
GrowStale == GrowTo(adder.min)

\* newSelector(): emplace_back and the settings.
Grow == GrowTo(Len(selectors) + 1)

\* if(_run)
ReadRun ==
    /\ adder.pc = "new"
    /\ adder' = [adder EXCEPT !.pc = IF run THEN "start" ELSE "insert"]
    /\ UNCHANGED <<limits, run, selectors, threads, callers, calls, ends>>

\* SelectManager::start: the control thread is assigned to `thread`, which
\* ends the program if that is joinable already.
Launch(m) ==
    /\ selectors' = [selectors EXCEPT ![m].ctl = IF @ = "none" THEN "entry" ELSE @]
    /\ terminated' = (selectors[m].ctl # "none")

\* The loop of stop() has passed selector m.
Passed(m) == stopper.op = "stopped" \/ (stopper.op = "stopping" /\ stopper.i > m)

StartNew ==
    /\ adder.pc = "start"
    /\ Launch(adder.min)
    /\ adder' = [adder EXCEPT !.pc = "insert"]
    /\ missed' = IF Passed(adder.min) THEN missed \cup {adder.min} ELSE missed
    /\ UNCHANGED <<limits, run, threads, callers, calls>>

InsertNew == adder.pc = "insert" /\ Insert(adder.min)

Refuse ==
    /\ Scanned
    /\ adder.charge >= limits.perSelector
    /\ ~MayGrow
    /\ refused' = refused \cup {adder.sock}
    /\ adder' = Idle
    /\ UNCHANGED <<limits, run, selectors, threads, callers, called, removed, ends>>

Adder == Purge \/ Scan \/ Place \/ Grow \/ ReadRun \/ StartNew \/ InsertNew \/ Refuse

-----------------------------------------------------------------------------
(* The owner, and the thread that stops.                                   *)

\* Variant: _run is set after the loop, with the return of start().
StartBeforeRun ==
    /\ owner.op = "idle"
    /\ owner' = Doing("starting", 1)
    /\ UNCHANGED <<limits, run, selectors, threads, adder, stopper, calls, ends>>

Start ==
    /\ owner.op = "idle"
    /\ run' = TRUE
    /\ owner' = Doing("starting", 1)
    /\ UNCHANGED <<limits, selectors, threads, adder, stopper, calls, ends>>

StartOne ==
    /\ owner.op = "starting"
    /\ owner.i \in Selectors
    /\ Launch(owner.i)
    /\ owner' = [owner EXCEPT !.i = @ + 1]
    /\ UNCHANGED <<limits, run, threads, adder, stopper, calls, missed>>

StartReturns ==
    /\ owner.op = "starting"
    /\ owner.i \notin Selectors
    /\ owner' = Doing("started", 0)
    /\ UNCHANGED <<limits, run, selectors, threads, adder, stopper, calls, ends>>

Stop ==
    /\ stopper.op = "idle"
    /\ owner.op \in {"started", "waiting", "joining"}
    /\ run' = FALSE
    /\ stopper' = [op |-> "stopping", i |-> 1]
    /\ UNCHANGED <<limits, selectors, threads, adder, owner, calls, ends>>

\* SelectManager::stop; run_me() overwrites it if it has yet to begin.
StopOne ==
    /\ stopper.op = "stopping"
    /\ stopper.i \in Selectors
    /\ selectors' = [selectors EXCEPT ![stopper.i].running = FALSE]
    /\ missed' = IF selectors[stopper.i].ctl = "entry" THEN missed \cup {stopper.i} ELSE missed
    /\ stopper' = [stopper EXCEPT !.i = @ + 1]
    /\ UNCHANGED <<limits, run, threads, adder, owner, calls, terminated>>

StopReturns ==
    /\ stopper.op = "stopping"
    /\ stopper.i \notin Selectors
    /\ stopper' = [op |-> "stopped", i |-> 0]
    /\ UNCHANGED <<limits, run, selectors, threads, adder, owner, calls, ends>>

Waits == UNCHANGED <<limits, run, selectors, threads, adder, stopper, calls, ends>>

Wait == owner.op = "started" /\ owner' = Doing("waiting", 1) /\ Waits

\* SelectManager::wait joins the control thread; to join what was never started
\* throws.
JoinControl ==
    /\ owner.op = "waiting"
    /\ owner.i \in Selectors
    /\ \/ selectors[owner.i].ctl = "done" /\ owner' = [owner EXCEPT !.op = "joining"]
       \/ selectors[owner.i].ctl = "none" /\ owner' = Doing("threw", 0)
    /\ Waits

\* Then it walks the tuples without the mutex: on to one whose worker has not
\* ended, whose join returns when it has, and on to the next selector when
\* there is none left.
JoinWorker ==
    /\ owner.op = "joining"
    /\ owner.i \in Selectors
    /\ LET sockets == selectors[owner.i].datas IN
       \/ /\ owner.at = NoSocket
          /\ \E s \in sockets :
                 \/ work[s] = "none" /\ owner' = Doing("threw", 0)
                 \/ work[s] \notin {"none", "done"} /\ owner' = [owner EXCEPT !.at = s]
       \/ /\ owner.at = NoSocket
          /\ \A s \in sockets : work[s] = "done"
          /\ owner' = Doing("waiting", owner.i + 1)
       \/ /\ owner.at # NoSocket
          /\ work[owner.at] = "done"
          /\ owner' = [owner EXCEPT !.at = NoSocket]
    /\ Waits

WaitReturns ==
    /\ owner.op = "waiting"
    /\ owner.i \notin Selectors
    /\ owner' = Doing("returned", Len(selectors))
    /\ Waits

\* clear(), by a program that does so after wait(), when nobody is in add() and
\* no worker that remove() detached is left: it destroys the selectors, which
\* ends the program if one that wait() did not see has a thread.
Clear ==
    /\ owner.op = "returned"
    /\ adder.pc = "idle"
    /\ \A s \in Sockets : work[s] \in {"none", "done"}
    /\ terminated' = \E m \in Selectors : m > owner.i /\ selectors[m].ctl # "none"
    /\ selectors' = <<>>
    /\ removed' = called \ refused
    /\ owner' = Doing("cleared", 0)
    /\ UNCHANGED <<limits, run, threads, adder, stopper, called, refused, missed>>

-----------------------------------------------------------------------------
(* The threads of the SelectManagers.                                      *)

RunMe(m) ==
    /\ selectors[m].ctl = "entry"
    /\ selectors' = [selectors EXCEPT ![m].ctl = "loop", ![m].running = TRUE]
    /\ work' = [s \in Sockets |-> IF s \in selectors[m].datas THEN "test" ELSE work[s]]
    /\ UNCHANGED <<limits, run, rem, adder, callers, calls, ends>>

CtlLeaves(m) ==
    /\ selectors[m].ctl = "loop"
    /\ ~selectors[m].running
    /\ selectors' = [selectors EXCEPT ![m].ctl = "done"]
    /\ UNCHANGED <<limits, run, threads, adder, callers, calls, ends>>

\* Variant: it is not reset by stop().
AllowedEver(s) == \E m \in Selectors : s \in selectors[m].datas

\* The loop flag of a worker, by FlagAgreesWithRun of SelectManager.
Allowed(s) == \E m \in Selectors : selectors[m].running /\ s \in selectors[m].datas

\* select() finds nothing, or the socket ready, or fails, which ends the worker.
Worker(s) ==
    /\ \/ /\ work[s] = "test"
          /\ work' = [work EXCEPT ![s] = IF Allowed(s) THEN "select" ELSE "done"]
       \/ /\ work[s] = "select"
          /\ \E result \in {"test", "callback", "done"} : work' = [work EXCEPT ![s] = result]
       \/ work[s] = "callback" /\ rem[s] = 0 /\ work' = [work EXCEPT ![s] = "test"]
    /\ UNCHANGED <<limits, run, selectors, rem, adder, callers, calls, ends>>

\* The callback calls remove() for its own socket.
RemoveCalled(s) ==
    /\ work[s] = "callback"
    /\ rem[s] = 0
    /\ s \notin removed
    /\ rem' = [rem EXCEPT ![s] = 1]
    /\ UNCHANGED <<limits, run, selectors, work, adder, callers, calls, ends>>

\* Variant: remove() ends after the first selector.
RemoveFirstOnly(s) ==
    /\ rem[s] # 0
    /\ selectors' = [selectors EXCEPT ![1].datas = @ \ {s}]
    /\ rem' = [rem EXCEPT ![s] = 0]
    /\ removed' = removed \cup {s}
    /\ UNCHANGED <<limits, run, work, adder, callers, called, refused, ends>>

\* One turn of the loop of remove(), which goes on behind a hit.  If wait() is
\* at the tuple it erases, wait() goes on from freed memory.
RemoveStep(s) ==
    /\ rem[s] # 0
    /\ IF rem[s] \in Selectors
       THEN /\ selectors' = [selectors EXCEPT ![rem[s]].datas = @ \ {s}]
            /\ rem' = [rem EXCEPT ![s] = @ + 1]
            /\ owner' = IF owner.at = s /\ s \in selectors[rem[s]].datas
                        THEN Doing("lost", 0)
                        ELSE owner
            /\ UNCHANGED removed
       ELSE /\ rem' = [rem EXCEPT ![s] = 0]
            /\ removed' = removed \cup {s}
            /\ UNCHANGED <<selectors, owner>>
    /\ UNCHANGED <<limits, run, work, adder, stopper, called, refused, ends>>

-----------------------------------------------------------------------------
Owner ==
    \/ Start \/ StartOne \/ StartReturns
    \/ Wait \/ JoinControl \/ JoinWorker \/ WaitReturns
    \/ Clear

Stopper == Stop \/ StopOne \/ StopReturns

Control == \E m \in Selectors : RunMe(m) \/ CtlLeaves(m)

Serving(s) == Worker(s) \/ RemoveStep(s)

Call(s) == AddCalled(s) \/ (\E connected \in BOOLEAN : AddHost(s, connected)) \/ RemoveCalled(s)

Next ==
    /\ ~terminated
    /\ \/ Adder
       \/ Owner
       \/ Stopper
       \/ Control
       \/ \E s \in Sockets : Call(s) \/ Serving(s)

Spec == Init /\ [][Next]_vars

\* Threads are scheduled, select() and callbacks return; nobody is obliged to
\* call start(), stop(), wait(), add() or remove().
Fairness ==
    /\ WF_vars(~terminated /\ Adder)
    /\ WF_vars(~terminated /\ (StartOne \/ StartReturns))
    /\ WF_vars(~terminated /\ (StopOne \/ StopReturns))
    /\ WF_vars(~terminated /\ Control)
    /\ \A s \in Sockets : WF_vars(~terminated /\ Serving(s))

FairSpec == Spec /\ Fairness

-----------------------------------------------------------------------------
(* Properties.                                                             *)

TypeOK ==
    /\ limits \in Limits
    /\ {run, terminated} \subseteq BOOLEAN
    /\ \A m \in Selectors :
           selectors[m] \in [datas : SUBSET Sockets, running : BOOLEAN,
                             ctl : {"none", "entry", "loop", "done"}]
    /\ work \in [Sockets -> {"none", "test", "select", "callback", "done"}]
    /\ rem \in [Sockets -> 0..(Len(selectors) + 1)]
    /\ adder.pc \in {"idle", "purge", "drop", "scan", "new", "start", "insert"}
    /\ adder.pc \in {"new", "start", "insert"} => adder.min = Len(selectors)
    /\ owner.op \in {"idle", "starting", "started", "waiting", "joining", "returned", "threw",
                    "lost", "cleared"}
    /\ owner.at \in Sockets \/ owner.at = NoSocket
    /\ owner.at # NoSocket => owner.op = "joining"
    /\ stopper.op \in {"idle", "stopping", "stopped"}
    /\ refused \subseteq called
    /\ removed \subseteq called

Watched == UNION {selectors[m].datas : m \in Selectors}

\* A socket is in one selector from the end of add() to its remove(), and in
\* none before and after, while both walk a list that grows under them.
InOnePlace ==
    \A s \in Sockets :
        LET places == {m \in Selectors : s \in selectors[m].datas}
            added == s \in called \ (refused \cup {adder.sock})
        IN  /\ Cardinality(places) <= 1
            /\ ~added \/ s \in removed => places = {}
            /\ added /\ s \notin removed /\ rem[s] = 0 => places # {}

\* The socket a new selector is being made for.
Pending == IF adder.pc \in {"new", "start", "insert"} THEN {adder.sock} ELSE {}

\* No selector is given more than max_per_selector sockets and there are no
\* more than nb_selector_max selectors, though add() decides on sizes it read
\* one after the other; and as long as nothing was removed, a selector is added
\* and a socket refused only if those there were are full.
LimitsUsed ==
    /\ \A m \in Selectors : Size(m) <= limits.perSelector
    /\ limits.selectors = 0 \/ Len(selectors) <= limits.selectors
    /\ removed = {} /\ (\A s \in Sockets : rem[s] = 0) =>
           /\ Len(selectors) > 1 =>
                  Cardinality(Watched \cup Pending) > (Len(selectors) - 1) * limits.perSelector
           /\ adder.pc = "scan" /\ adder.i \notin Selectors /\ adder.charge >= limits.perSelector =>
                  \A m \in Selectors : Size(m) = limits.perSelector

\* stop() ends the worker of every socket, but for those in a selector that
\* began to run after stop() had passed it.
StopEndsAll ==
    \A s \in Sockets :
        (stopper.op = "stopped") ~>
            \/ work[s] \in {"none", "done"}
            \/ \E m \in missed : s \in selectors[m].datas
            \/ terminated

\* Between start() and stop() every socket added is watched by a worker.
AddedServed ==
    \A s \in Sockets :
        (owner.op = "started" /\ s \in Watched) ~>
            (work[s] # "none" \/ stopper.op # "idle" \/ terminated)
=============================================================================
