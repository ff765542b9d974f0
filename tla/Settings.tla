------------------------------ MODULE Settings ------------------------------
(***************************************************************************)
(* How the settings of ntw::BalancingSelector reach the select() of a      *)
(* worker (src/Socket/BalancingSelector.cpp, SelectManager.cpp): the set   *)
(* functions write the BalancingSelector's own copy and then that of each  *)
(* SelectManager; newSelector(), which another thread may be executing,    *)
(* copies its own to the new one; a worker copies the modes when it begins *)
(* and the timeout in every turn, without the mutex.                       *)
(*                                                                         *)
(* Every load and store of a field is an action.  Timeouts are in tenths   *)
(* of a second, so a tv_usec of 100000 is one.  There is one worker at a   *)
(* time, of any SelectManager: it only reads, and none waits for it.       *)
(***************************************************************************)
EXTENDS Integers, Sequences

CONSTANTS ModeOrder,     \* read, write and except, in the order of the code
          Made,          \* the arguments of the constructor: modes and timeout
          Calls,         \* the calls of set functions, see SetArgs and so on
          MaxCalls, MaxSelectors  \* bounds

ASSUME MaxAssumption == MaxCalls \in Nat /\ MaxSelectors \in Nat \ {0}
ASSUME ModesAssumption ==
    /\ ModeOrder \in Seq({"read", "write", "except"}) \ {<<>>}
    /\ \A i, j \in DOMAIN ModeOrder : ModeOrder[i] = ModeOrder[j] => i = j

VARIABLES
    own,        \* the fields of the BalancingSelector
    selectors,  \* those of each SelectManager
    setter,     \* the call of a set function: the stores it makes, and the next
    maker,      \* newSelector(): where it is, and the arguments it has loaded
    worker,     \* where it is, of which selector, its modes and its timeval
    calls,      \* history: how many set functions were called
    overlap,    \* history: the fields a set function and newSelector() raced for
    given,      \* history: the timeouts ever set
    slipped,    \* history: those setDelete() has set since the last setTimout()
    deaf        \* history: how many selectors the last setDelete() did not tell

history == <<overlap, given, slipped, deaf>>
vars == <<own, selectors, setter, maker, worker, calls, history>>

Modes == {ModeOrder[i] : i \in DOMAIN ModeOrder}
Arguments == ModeOrder \o <<"timeout">>

\* The arguments of the constructor and of setArgs().
IsArgs(a) ==
    /\ a = [k \in Modes \cup {"timeout"} |-> a[k]]
    /\ \A k \in Modes : a[k] \in BOOLEAN
    /\ a.timeout \in Int

\* The stores of the modes in a.
ModesOf(a) == [i \in DOMAIN ModeOrder |-> <<ModeOrder[i], a[ModeOrder[i]]>>]

\* (int)timeout_sec, and (int)timeout_sec * 100000: a tenth of the whole seconds.
Seconds(t) == IF t >= 0 THEN t \div 10 ELSE -((-t) \div 10)

\* Variant: a second has ten times as many.
MicrosTen(t) == 10 * Seconds(t)

Micros(t) == Seconds(t)

\* The stores setTimout(), and setArgs(), of a SelectManager make.
Timval(t) == <<<<"sec", Seconds(t)>>, <<"usec", Micros(t)>>>>
Args(a) == ModesOf(a) \o Timval(a.timeout)

\* The set functions: the field of the BalancingSelector, and what they set in
\* every SelectManager.  setArgs() stores its own write before its own read, which
\* nothing here could tell.
SetArgs(a) ==
    [own |-> ModesOf(a) \o <<<<"timeout", a.timeout>>>>, all |-> Args(a), timeout |-> {a.timeout}]
SetMode(k, v) == [own |-> <<<<k, v>>>>, all |-> <<<<k, v>>>>, timeout |-> {}]
SetTimout(t) == [own |-> <<<<"timeout", t>>>>, all |-> Timval(t), timeout |-> {t}]

\* setDelete(d) calls setTimout(d) of the selectors, where true is one second and
\* false none: no selector there is learns of d.
SetDelete(d) ==
    LET t == IF d THEN 10 ELSE 0 IN [own |-> <<<<"delete", d>>>>, all |-> Timval(t), timeout |-> {t}]

ASSUME MadeAssumption == IsArgs(Made)
ASSUME CallsAssumption ==
    \A call \in Calls :
        \/ \E k \in Modes, v \in BOOLEAN : call = SetMode(k, v)
        \/ \E t \in call.timeout : t \in Int /\ call = SetTimout(t)
        \/ \E d \in BOOLEAN : call = SetDelete(d)
        \/ \E t \in call.timeout, on \in SUBSET Modes :
               LET a == [k \in Modes \cup {"timeout"} |-> IF k = "timeout" THEN t ELSE k \in on]
               IN  t \in Int /\ call = SetArgs(a)

Fields(call) == {call.own[i][1] : i \in DOMAIN call.own} \cup {call.all[i][1] : i \in DOMAIN call.all}

NoCall == [own |-> <<>>, all |-> <<>>, timeout |-> {}]
NoSetter == [call |-> NoCall, m |-> 0, j |-> 1]
NoMaker == [pc |-> "idle", j |-> 1, args |-> Made]
NoWorker == [pc |-> "none", m |-> 1, left |-> <<>>, modes |-> {}, sec |-> 0, usec |-> 0]

\* SelectManager(), with a timeout of five seconds, and after setArgs(a).
Selector(on, t) ==
    [f \in Modes \cup {"sec", "usec", "delete"} |->
        IF f = "sec" THEN Seconds(t) ELSE IF f = "usec" THEN Micros(t) ELSE f \in on]
Fresh == Selector({}, 50)
Arranged(a) == Selector({k \in Modes : a[k]}, a.timeout)

\* The constructor has made one selector.
Init ==
    /\ own = [f \in Modes \cup {"timeout", "delete"} |-> IF f = "delete" THEN FALSE ELSE Made[f]]
    /\ selectors = <<Arranged(Made)>>
    /\ setter = NoSetter
    /\ maker = NoMaker
    /\ worker = NoWorker
    /\ calls = 0
    /\ overlap = {}
    /\ given = {Made.timeout}
    /\ slipped = {}
    /\ deaf = 0

Setting == setter # NoSetter
Making == maker # NoMaker

-----------------------------------------------------------------------------
(* The set functions.                                                      *)

Call(call) ==
    /\ ~Setting
    /\ calls < MaxCalls
    /\ setter' = [call |-> call, m |-> 0, j |-> 1]
    /\ calls' = calls + 1
    /\ overlap' = IF Making THEN overlap \cup Fields(call) ELSE overlap
    /\ given' = given \cup call.timeout
    /\ slipped' = IF "delete" \in Fields(call) THEN slipped \cup call.timeout
                  ELSE IF "timeout" \in Fields(call) THEN {} ELSE slipped
    /\ deaf' = IF "delete" \in Fields(call) THEN Len(selectors) ELSE deaf
    /\ UNCHANGED <<own, selectors, maker, worker>>

\* Variant: only the selector the constructor made is told.
LastFirst(m) == m = 1

\* Variant: one turn too many.
LastLate(m) == m > Len(selectors)

\* The loop is at the end of the list, which may have grown meanwhile.
Last(m) == m = Len(selectors)

\* The next store: to the own field, or to that of selector m.
Store ==
    LET stores == IF setter.m = 0 THEN setter.call.own ELSE setter.call.all
        store == stores[setter.j]
    IN  /\ Setting
        /\ IF setter.m = 0
             THEN own' = [own EXCEPT ![store[1]] = store[2]] /\ UNCHANGED selectors
             ELSE selectors' = [selectors EXCEPT ![setter.m][store[1]] = store[2]] /\ UNCHANGED own
        /\ setter' = IF setter.j < Len(stores) THEN [setter EXCEPT !.j = @ + 1]
                     ELSE IF Last(setter.m) THEN NoSetter ELSE [setter EXCEPT !.m = @ + 1, !.j = 1]
        /\ UNCHANGED <<maker, worker, calls, history>>

-----------------------------------------------------------------------------
(* newSelector()                                                           *)

Grow ==
    /\ ~Making
    /\ Len(selectors) < MaxSelectors
    /\ selectors' = Append(selectors, Fresh)
    /\ maker' = [NoMaker EXCEPT !.pc = "load"]
    /\ overlap' = IF Setting THEN overlap \cup Fields(setter.call) ELSE overlap
    /\ UNCHANGED <<own, setter, worker, calls, given, slipped, deaf>>

\* The arguments of setArgs() are loaded from the own fields.
Load ==
    /\ maker.pc = "load"
    /\ LET k == Arguments[maker.j]
           more == maker.j < Len(Arguments)
       IN  maker' = [pc |-> IF more THEN "load" ELSE "store", j |-> IF more THEN maker.j + 1 ELSE 1,
                     args |-> [maker.args EXCEPT ![k] = own[k]]]
    /\ UNCHANGED <<own, selectors, setter, worker, calls, history>>

\* setArgs() of the new selector, and at last its setDelete(do_delete).
Arrange ==
    /\ maker.pc = "store"
    /\ LET stores == Args(maker.args) IN
       IF maker.j \in DOMAIN stores
         THEN /\ selectors' = [selectors EXCEPT ![Len(selectors)][stores[maker.j][1]] = stores[maker.j][2]]
              /\ maker' = [maker EXCEPT !.j = @ + 1]
         ELSE /\ selectors' = [selectors EXCEPT ![Len(selectors)].delete = own.delete]
              /\ maker' = NoMaker
    /\ UNCHANGED <<own, setter, worker, calls, history>>

-----------------------------------------------------------------------------
(* A worker.                                                               *)

\* What a step of the worker leaves alone.
Aside == UNCHANGED <<own, selectors, setter, maker, calls, history>>

\* A socket is in selector m, where add() puts it after newSelector().
Begin(m) ==
    /\ worker.pc = "none"
    /\ ~(Making /\ m = Len(selectors))
    /\ worker' = [NoWorker EXCEPT !.pc = "modes", !.m = m, !.left = ModeOrder]
    /\ Aside

\* readfds, writefds and exceptfds are loaded one after the other.
LoadMode ==
    LET k == Head(worker.left) IN
    /\ worker.pc = "modes"
    /\ worker' = [worker EXCEPT !.left = Tail(@),
                                !.modes = IF selectors[worker.m][k] THEN @ \cup {k} ELSE @,
                                !.pc = IF Len(worker.left) = 1 THEN "test" ELSE "modes"]
    /\ Aside

\* while(run), and on to timeval time = timeout.
Turn ==
    /\ worker.pc = "test"
    /\ worker' = [worker EXCEPT !.pc = "sec"]
    /\ Aside

\* Its two words; a setTimout() in between makes it a mix of two timeouts.
CopyTime(k) ==
    /\ worker.pc = k
    /\ worker' = [worker EXCEPT ![k] = selectors[worker.m][k],
                                !.pc = IF k = "sec" THEN "usec" ELSE "select"]
    /\ Aside

\* Where select() leads.  It refuses a negative time; else it times out, finds
\* the socket ready in a mode it was asked for, or fails all the same: a signal,
\* or a descriptor closed under it.
After(next) ==
    IF worker.sec < 0 \/ worker.usec < 0 THEN {"failed"}
    ELSE {next, "failed"} \cup IF worker.modes = {} THEN {} ELSE {"callback"}

\* Variant: the timeout was copied in front of the loop, where the callback returns.
SelectAgain ==
    /\ \/ /\ worker.pc = "select"
          /\ \E pc \in After("select") : worker' = [worker EXCEPT !.pc = pc]
       \/ worker.pc = "callback" /\ worker' = [worker EXCEPT !.pc = "select"]
    /\ Aside

\* select(), then the test of the loop, the callback and the test, or the end.
Select ==
    /\ worker.pc = "select"
    /\ \E pc \in After("test") : worker' = [worker EXCEPT !.pc = pc, !.sec = 0, !.usec = 0]
    /\ Aside

CallbackReturns == worker.pc = "callback" /\ worker' = [worker EXCEPT !.pc = "test"] /\ Aside

\* The loop flag was reset, or select() had failed; another worker may begin.
End == worker.pc \in {"test", "failed"} /\ worker' = NoWorker /\ Aside

Work ==
    \/ LoadMode
    \/ Turn
    \/ \E k \in {"sec", "usec"} : CopyTime(k)
    \/ Select
    \/ CallbackReturns

Next ==
    \/ \E call \in Calls : Call(call)
    \/ Store
    \/ Grow \/ Load \/ Arrange
    \/ \E m \in DOMAIN selectors : Begin(m)
    \/ Work \/ End

Spec == Init /\ [][Next]_vars

\* Calls return and workers go on, as select() returns within its timeout.
FairSpec ==
    /\ Spec
    /\ WF_vars(Store)
    /\ WF_vars(Load \/ Arrange)
    /\ WF_vars(Work)

-----------------------------------------------------------------------------
(* Properties.                                                             *)

TypeOK ==
    /\ \A k \in Modes \cup {"delete"} : own[k] \in BOOLEAN
    /\ own.timeout \in given
    /\ Len(selectors) \in 1..MaxSelectors
    /\ \A m \in DOMAIN selectors :
           /\ \A k \in Modes \cup {"delete"} : selectors[m][k] \in BOOLEAN
           /\ {selectors[m].sec, selectors[m].usec} \subseteq Int
    /\ setter.m \in 0..Len(selectors)
    /\ maker.pc \in {"idle", "load", "store"}
    /\ worker.pc \in {"none", "modes", "test", "sec", "usec", "select", "callback", "failed"}
    /\ worker.modes \subseteq Modes
    /\ worker.m \in DOMAIN selectors
    /\ calls \in 0..MaxCalls
    /\ deaf \in 0..Len(selectors)

\* The timeval of timeout t.
Holds(v, t) == v.sec = Seconds(t) /\ v.usec = Micros(t)

\* When no call is under way, every selector has the modes and the timeout of the
\* BalancingSelector, those appended meanwhile too, except for a field a set
\* function and newSelector() raced for, and a timeout setDelete() has replaced.
\* Its `delete` reaches only the selectors appended after the last setDelete();
\* those there were keep what they had, the first one false for ever.
SettingsReach ==
    ~Setting /\ ~Making =>
        /\ selectors[1].delete = FALSE
        /\ \A m \in DOMAIN selectors :
               /\ \A k \in Modes \ overlap : selectors[m][k] = own[k]
               /\ {"sec", "usec"} \cap overlap = {} =>
                      \E t \in {own.timeout} \cup slipped : Holds(selectors[m], t)
               /\ m > deaf /\ "delete" \notin overlap => selectors[m].delete = own.delete

\* What select() is given, torn or not: it returns at once, for ever again, only
\* if some timeout was below a second or setDelete(false) was called; it is given
\* a time it refuses, and the worker ends, only if one was minus a second or less;
\* and if it waits at all, then a tenth longer than the longest there was, at most.
WaitBounded ==
    worker.pc = "select" =>
        /\ worker.sec = 0 /\ worker.usec = 0 => \E t \in given : t \in -9..9
        /\ worker.sec < 0 \/ worker.usec < 0 => \E t \in given : t <= -10
        /\ 10 * worker.sec + worker.usec > 0 =>
               \E t \in given : 10 * worker.sec + worker.usec <= t + t \div 10

\* A timeout reaches the worker that is running: once the last set function has
\* returned, it comes to wait for that and nothing else.
TimeoutReaches ==
    (calls = MaxCalls /\ ~Setting /\ ~Making) ~>
        [](worker.pc = "select" => /\ worker.sec = selectors[worker.m].sec
                                   /\ worker.usec = selectors[worker.m].usec)
=============================================================================
