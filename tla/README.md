# Verification of cpp-Socket

TLA+ specifications of the library in `src/`, TLC configurations that check them
on small instances, and TLAPS proofs about all of them, for every
instance.

## The system

cpp-Socket wraps BSD sockets (`Socket`), puts a growing byte buffer next to one
(`Serializer`, `SocketSerialized`), watches sockets with one thread each
(`SelectManager`, several of them behind a `BalancingSelector`) and builds an RPC
server and client on top (`srv::Server`, `cli::Client`, `FuncWrapper`).

| Component | State | Operations | Interacts with |
|---|---|---|---|
| SelectManager | `_run`, list of (socket, thread, `bool*`), mutex, control thread, `do_delete`, select modes, timeout | add, remove, clear, start, stop, wait, detach, set*; threads `run_me`, `run` | calls `onSelect` from a worker thread; callbacks call back into `remove`/`add` |
| BalancingSelector | list of SelectManagers, limits, settings, `_run` | add (3), remove, clear, start, stop, wait, set* | owns SelectManagers; called by the accept thread, the workers and the owner, without a lock |
| Serializer | buffer, its size, two cursors | `<<`, `>>`, write, read, clear, save, load | base of SocketSerialized |
| SocketSerialized | a Serializer, a Socket, a status | send, receive, clear, setStatus | the peer's SocketSerialized over a byte stream or datagrams |
| Socket | descriptor, address, `need_connect` | connect, accept, disconnect, bind, listen, send, receive, move | the descriptor table of the process |
| srv::Server | listening socket, its SelectManager, a BalancingSelector, list of clients, `client_mutex` | start, stop, wait, remove; callbacks onNewClientRecv, onRequestRecv | everything above |
| FuncWrapper, cli::Client | none beyond a SocketSerialized | call, dispatch, exec, msg, verifyIsConnected | the two ends of a connection |

What is hard: each watched socket has a thread that reads a heap `bool` nobody
locks; callbacks on those threads change the list the owner walks in `wait()` and
`detach()` without the mutex; `stop()` can overtake `start()`; sockets are deleted
from two places; settings are copied field by field; the stream cuts messages
anywhere, datagrams are lost and repeated; the buffer of a call is the one the last
response came in; descriptor numbers are reused by other threads. `PROJECT.json`
lists the hazards one by one with the properties that watch over them.

What makes the parts correct: a *SelectManager* starts a callback only for a
socket that was registered when the worker looked, ends its workers after a stop,
and neither leaks its mutex nor touches what was freed. A *Serializer* gives back
the values that went in, in order. A *SocketSerialized* delivers messages intact
and in order and says when the connection is gone; of datagrams, it returns each
that arrives once, with its sender. A *BalancingSelector* respects its limits,
loses no socket and hands on its settings. A *Socket* closes its own descriptor and
no other. A *Server* serves every accepted client until it leaves and ends when
stopped; a *call* reaches the function it names, once, and returns its value.

## Modules

| Module | Models | Abstract specification |
|---|---|---|
| `SelectManager` | `SelectManager.cpp` but for the settings, with the self-removal `Server::onRequestRecv` does from a callback | `Watch` |
| `SelectManagerProofs` | theorems about it | |
| `BalancingSelector` | `BalancingSelector.cpp` but for the settings, with what `SelectManager` shows of itself | |
| `BalancingSelectorProofs` | theorems about it | |
| `Settings` | the set functions of both, `newSelector()` and what a worker makes of them | |
| `SettingsProofs` | theorems about it | |
| `Serializer` | `Serializer.cpp`, `Serializer.tpl` | `ItemQueue` |
| `Framing` | TCP `send()`/`receive()` of `SocketSerialized.cpp` over `Socket.tpl` | `Channel` |
| `FramingProofs` | theorems about it, the refinement of `Channel` among them | |
| `Datagram` | their UDP branches, and those of `Socket.tpl`, as the examples use them | |
| `DatagramProofs` | theorems about it | |
| `Socket` | `Socket.cpp` and the move constructor of `SocketSerialized`: who owns which descriptor | |
| `BasesProofs` | theorems about `Serializer`, its refinement of `ItemQueue` among them, and `Socket`: the two base classes of `SocketSerialized` | |
| `Rpc` | `FuncWrapper`, `cli::Client` and the request worker, with the contents of both buffers | |
| `RpcProofs` | theorems about it | |
| `Server` | `server/Server.cpp`, with `FuncWrapper` and `client/Client` as messages | |
| `ServerProofs` | theorems about it | |
| `MC*` | values of the constants for TLC | |

`PROJECT.json` maps each definition to the lines it stands for; `vars` to the
members of the class. Definitions introduced as "Variant" are altered operations
used to see that each property notices such a change; no specification uses them.

### SelectManager

`running` is `_run`, `datas` the sockets of the list, `flag[s]` the heap `bool`
(with "freed" for a deleted one), `thr[s]` the `std::thread` of the tuple, `pc[s]`
the place of its worker in `run()`, `ctl` the control thread, `owner` and `at` the
thread in `wait()` and the tuple it is joining. A body under the mutex is one
action; unlocked steps (`while(run)`, select, callback, `delete run_ptr`, `delete
sock_ptr`, each join of `wait()`, each detach of `detach()`, `clear()`) are one
action each. `mutex` is "held" only after a call that threw. Callers: one owner
starts, waits or detaches, and clears; any thread stops, adds and removes; a callback
may remove its own socket at any time, then the tuple `wait()` stands on may
vanish (`owner = "lost"`, undefined in C++; nothing is claimed about what follows).
`taken` remembers which calls beyond those the examples show a program has made:
"EarlyStop" (before the control thread has begun), "IdleRemove" (from a manager that
is not running), "Detach". The properties name the ones that break them, so that
one run checks every program.
Abstracted: list order, the descriptor sets and modes (see `Settings`), timeouts (a
select may always return with nothing), what a callback does besides removing its
socket, re-adding a socket.

### BalancingSelector

`selectors` is the list; a `SelectManager` in it is reduced to its sockets, `_run` and
its control thread. There is no lock in this class, so every turn of a
loop over the list, every access to `_run` and every call of a selector is an action:
`Scan` (one `size()`), `Place`, `Grow` (`emplace_back` and the settings), `ReadRun`,
`StartNew`, `InsertNew`; `StartOne`, `StopOne`, `JoinControl`, `JoinWorker`; `RemoveStep`. One thread
adds (in the server the accept worker), a callback removes its own socket, the owner
starts, waits and clears, another thread stops once, after `start()` has returned.
`Launch` sets `terminated` when a `std::thread` would be assigned over a joinable one,
which happens when `add()` overlaps `start()`; nothing is claimed about what follows.
`missed` are the selectors that begin to run after `stop()` has passed them: those
`add()` starts behind its loop, and those whose control thread had not begun.
`owner.at` is the tuple `wait()` is joining; if a callback removes just that one,
`wait()` is "lost" (undefined in C++). A worker whose `select()` fails ends.
Appending to a `std::list` while another thread walks it is a data race; it is taken
by its usual outcome, that the walk sees the new element or ends before it.
Abstracted: the message about `min_per_selector`.

### Settings

A record per `SelectManager` and the BalancingSelector's own copy; every load and
store of a field is an action, a set function is the list of stores it makes
(`own` first, then `all` for each selector), `newSelector()` loads the arguments of
`setArgs()` and stores them (`Load`, `Arrange`), a worker loads the modes once
(`LoadMode`) and the two words of the timeout in every turn (`CopyTime`), without the
mutex. One set function runs at a time; the thread that adds runs next to it. Time is in tenths
of a second, so that `(int)timeout_sec * 100000` microseconds are a tenth of the
whole seconds. `overlap` keeps the fields for which a set function and
`newSelector()` raced, `slipped` the timeouts `setDelete()` has left behind, `deaf` how
many selectors the last `setDelete()` did not tell to delete. `select()` may fail at
any time (a signal, a descriptor closed under it), and the worker ends; it always does
on a negative time.

### Serializer

`mem`, `cap`, `begin`, `end` are `_buffer`, `_buffer_size` and the cursors, unsigned
modulo `Width`. An append is a job: `Grow` is one turn of the doubling loop with
`resize()`, `Commit` the copy. Growth per byte (strings) or per element gives the
same buffer as growth for the whole value. Bytes never written are `Junk`. A byte is
a digit of base `Base` (256 in the code), a count `CountBytes` of them, and `CountOf` the number a count
was written for. Values are integers (byte order swapped), strings (cut at an embedded zero, as `c_str()`
does), counted containers and raw blocks. The reader asks with the right types,
which the code cannot check, or asks an exhausted buffer for anything but a string.

### Framing

One action per `recv()`, any number of bytes at a time; the connection can end at
any byte with the rest lost, inside a header too. A header that comes in pieces
over a live connection needs the liberty "SplitHeader". `Header` has `SizeBytes`
and one status byte; the code has four and two. The run takes one size byte, the
proofs any number of them. `send()` is taken to hand over the
whole message (a blocking socket).

### Datagram

`Serialized` hosts use a `SocketSerialized`, `Plain` ones a `Socket` and a
`Serializer`, each kind on a port of its own. `net` holds every datagram sent; one may
arrive at its host never, once or often, in any order, and then waits in `arrived`,
of which the kernel has handed out the first `read`. `Peek` is the `recvfrom()` with
`MSG_PEEK`, `Read` the second one; other datagrams arrive in between. `PeekFails` and
`ReadFails` are calls a signal interrupts. `other` is the address in the `Socket`
given to `receive(other)`, made anew for each call and preset by the program, as
`broadcast-server.cpp` does; `SendBack` answers to it.

### Socket

`table` is the descriptor table, `sock`, `kind`, `cfg` the members `sock`,
`need_connect` and `sock_cfg` of each object, `at` whether the object is constructed
or inside `disconnect()`, which closes a number that another thread may get before
`::socket()` is called. `lost` counts the times `accept(client)` was given an object
that already had a descriptor. `AcceptThrows` and `DisconnectThrows` are the failing
system calls that leave a changed object behind. `Copy` is the copy constructor that
`Socket.hpp` does not delete: afterwards two objects close one number. `copied`
remembers it, because from then on no object's descriptor is safe, its own copy or not:
`OwnDescriptor`, `LeaksCounted` and the theorems speak of programs that make no copy,
as the library makes none once the copy in the `return` of `accept()` is elided.

### Rpc

Messages are sequences of words in front of which the code may find what an earlier
response left; `cbuf` and `sbuf` are the two buffers. `Functions` says what each id
does: return a value, return none, set `wrong_id`, call `msg()` and return, or be
refused by the dispatch function. A call's argument is its own number, and a function
returns its argument, so that a result in the wrong place is taken for an id.
`asked` remembers whether the program asked for the right type and had cleared what
came with an error (`careful`). `Lose` ends the connection with any part of what was
on the way, and of the last message perhaps only a part: `receive()` returns a
positive count for it and leaves the missing words to what the buffer had (`Garbage`), so
that a torn request is dispatched and a torn answer extracted. `cutRequest` and
`cutAnswer` are the places of these two; `RightCall` excepts them, and no others.

### Server

`managers` are the SelectManagers, the first `new_connexion_recv`, the others the list of
`request_recv`, each with its `_run` and its control thread; `active` is the `_run` of
`request_recv`. `start()` and `stop()` go from one to the next (`StartOne`, `StopOne`), the
control threads begin when they are scheduled and set `_run` again (`RunMe`), `wait()`
joins control thread by control thread and worker by worker (`JoinControl`, `JoinAcceptor`,
`JoinWorker`). `missed` is as in `BalancingSelector`. `request_recv.add()` is `AddRequest` or
`GrowRequests`, `ReadRun`, `StartNew` and `InsertNew`; only its search for a selector, of
which `BalancingSelector` has every turn, is one step here.
`listed` is `clients`, `place[c]` the selector of a client's socket, `mutex` the client whose
worker holds `client_mutex`, `acc` and `worker[c]` the places of the accept worker and
of the request workers, `buf[c]` the buffer of `request_sock`, which both use. A
connection is a queue of whole messages in each direction (`Channel`) and the state
`conn[c]`. Clients connect, take the greeting, call with known and unknown ids,
and leave. A plan is what the program is like: the limits it gives the constructor, the
calls of each client, and `liberties`: "leave" lets a client go before the accept worker is
done with it, "call" lets it call as soon as the welcome has arrived, "stop" lets
`stop()` come before the control threads have begun.
`dangling` is the use of what was destroyed, by a thread at which step and of which
client, `terminated` a `std::thread` assigned over a joinable one; the system stops
there. Abstracted: arguments, results and which function was called (see `Rpc`), the
addresses. `dispatch` answers once, or returns `wrong_id` without answering. The last
turn of a control thread is part of the `JoinControl` that waits for it. `wait()` is
called by the thread that called `start()`, right after it, and `stop()` by another.

## Runs

| Run | Question | Instance |
|---|---|---|
| `manager` | Which programs write a freed flag, lock the mutex for ever or lose a stop; is the callback promise (`RefinesWatch`) kept; do stop, remove and wait come to an end | 2 sockets, 2 stops, every liberty |
| `manager_double_delete` | violation: worker and `clear()` both delete | 2 sockets, 1 stop |
| `serializer` | Values out are values in, across growth, clear and files; cursors in bounds; growth ends | up to 5 bytes; a capacity of 1 that grows to 8 |
| `framing` | Messages arrive intact and in order; all of them, or the receiver is told | 3 messages, bodies of 0, 1 and 3 bytes |
| `framing_split_header` | violation: a split header puts the stream out of step | |
| `datagram` | Is what `receive()` returns a datagram, its sender, in order and once; what does an empty body do | 2 serialized hosts, 1 plain; 2 sent, 2 arrivals each, 1 signal |
| `balancing` | Are the limits kept and used, is each socket in one selector, do start and stop reach every selector | 2 sockets; limits of 1 socket and any number, 1 and 1, 2 and 2 |
| `settings` | Where do settings end up, what is `select()` given, does a timeout reach a running worker | 2 modes, 2 selectors, 2 of 6 calls |
| `server` | Do list and selector agree, when is what was destroyed used, is the application told in order, do calls, departures and stop end | 2 clients, 4 plans: selectors of one client that grow to two; one selector of two, a client that calls twice, once with an unknown id; a full selector with "leave"; one with "stop" |
| `server_wrong_id` | violation: an early call is answered `wrong_id` | 2 clients, "call" |
| `rpc` | Does a call reach its function and get its value, how often is it answered | 3 calls, a function of each kind, an unknown id, a loss with a cut on either side |
| `socket` | Does anybody close another's descriptor, what leaks | 3 objects, 3 descriptors (symmetric), copies |

Bounds. Two sockets are enough for every pair of a socket in `wait()` and one in a
callback; a third only adds symmetric copies. Two stops let one be early or repeated.
Five bytes hold a counted list and another value and make the buffer double three
times; `Width` is 32 so that no arithmetic wraps (`WidthAssumption`). A body of three
bytes is cut in every possible way; three messages let one be on the way while
another is read. Two datagrams let an empty one be in front of another and one be
overtaken; `MaxReturned` of 3 shows one being returned again. Limits of one socket make
the second add grow the list or be refused, limits of two fill a selector first. Two
set functions let the second overwrite what the first has torn; the calls include a
timeout below a second and one below zero. Two clients let one be accepted, refused or
served while the other leaves; each liberty has a plan of its own, because together
they only multiply the states: the four plans have 174,000. A cut message ends in the id of
the function that answers twice, or in nothing, which is enough for every branch of
`dispatch()`. Three calls let the second leave something in the
buffer for the third, or be answered by the second answer to the first. Three objects
let one be moved into while the third takes the number just closed.
Deadlock is not checked: every one of these programs may simply be finished or
wait for input.

Fairness. Threads are scheduled (`WF` of each worker, of the control thread, of a
`wait()`, `detach()`, set function or `add()` that was called). A worker in select is
not stuck there because the timeout passed to `select()` is finite
(`SelectManager.cpp:221`). That a callback returns is an assumption about the
application. In `Server` there is one condition for the accept worker, one for each
request worker, one for control threads, `start()`, `wait()` and `stop()` together and one for
the clients' `receive()`: the last two take finitely many steps in each behaviour, so
that one condition for all of them leaves none waiting. An append of the Serializer runs to its end. A receiver calls
`receive()` again as long as something arrives, as the servers of the examples do.
A client that waits for a message takes it when it comes. Nobody is obliged to stop,
remove, add, send, connect, call or leave. `Rpc` and `Socket` state safety only.

## Findings

1. With `setDelete(true)` a socket is deleted by its worker and by `clear()`.
2. `init_receive()` takes a partial header for a whole one.
3. The welcome is sent from, and clears, a buffer that a request may already be in:
   that call is answered `wrong_id`.

What else the code does that a reader may not expect; where a property has to name
it as its exception, that property stands behind it:

- `stop()` before `run_me()` has begun is overwritten (`SelectManager.cpp:137`), and the
  manager runs on (`StopSticks`, "EarlyStop").
- `remove()` from a manager that does not run, or after `detach()`, throws with the mutex
  locked (`MutexReleased`); a second `stop()` writes freed flags (`NoWildWrite`).
- `wait()` does not join a worker that removed its own socket, so it may still run
  when `wait()` has returned, and with it, in `Server`, when the destructor has
  (`DanglingCases`); if it removes the tuple that `wait()` is joining, `wait()` goes on from
  freed memory (`owner.op = "lost"` in `BalancingSelector`, `DanglingCases` in `Server`); a
  client that leaves before its welcome may be destroyed while the accept worker still
  uses it; a socket added to `request_recv` after its `stop()` makes `wait()` throw
  (`StopEnds`, `owner.op = "threw"`); a refused client stays in `clients` for ever
  (`ListMatchesPool`). A server whose `stop()` comes too early, or passes a selector
  that is being made, runs on, and its `wait()` never returns (`StopEnds`, `missed`).
- A worker whose `select()` fails, by a signal for instance, ends without a word: its client
  is served no more, stays in the list and never gets an answer (`CallReturns`, `LostErased`,
  `Failed`).
- `add()` next to `start()` may start a selector twice, which ends the program
  (`AddedServed`, `terminated`); a selector may miss a `stop()` that passed it before it began
  (`StopEndsAll`, `missed`).
- `BalancingSelector::setDelete()` sets the timeout of the selectors there are, and none of
  them learns to delete, only those appended later (`BalancingSelector.cpp:188`, against
  `BalancingSelector.hpp:118`; `SettingsReach`, `slipped`, `deaf`). A timeout of
  5 s is 5.5 s, more than the "maximum time" of `SelectManager.hpp:92`, one of half a second
  is none at all and the worker polls, one of minus a second ends it (`WaitBounded`). Modes reach only workers that start later.
- `operator>>(std::string&)` on an exhausted buffer moves the begin cursor behind the end,
  and `size()` wraps (`Serializer.cpp:151`; outside what `Serializer` lets the reader do).
- A connection lost in the body of a message leaves the status as it was and makes
  `receive()` return a positive count; the loss shows at the next call
  (`DeliveredOrTold`). Until then the server dispatches a torn request and a call returns the
  value of a torn answer, with the status ok (`RightCall`, `cutRequest`, `cutAnswer`).
- `Socket` can be copied, and the copies close one number twice (`OwnDescriptor`, `copied`).
- A `SocketSerialized` that peeks at a datagram with an empty body never takes it out
  of the queue and returns it for ever (`BlockedForever`); its sender is not set, so that
  an answer goes to the preset address (`AsSent`).
- A response that is not taken out of the buffer goes out in front of the id of the next
  call; a function that calls `msg()` or ends with `wrong_id` is answered twice, and every
  later call gets the answer of an earlier one (`RightCall`, `AnsweredOnce`).
- `accept(client)` overwrites the descriptor `srv::Client` was constructed with: one leaks
  for every connection (`LeaksCounted`).

## Proofs

`SelectManagerProofs` proves, for any set of sockets, number of stops and any program
(unless the statement restricts it):

- `TypeCorrect`, `FlagAgreement`, `Serving`, `ThreadAssignment` from one inductive
  invariant `IInv`. `FlagAgreesWithRun` alone is not inductive: `run_me()` sets all
  bools, which is right only because nobody can have freed one before it
  (`FlagLife`, `Phases`), and a `remove()` that threw would leave a running
  manager with a cleared bool in its list, which `Detachable` excludes. `Deletions`
  bounds the deletions by who has already made his.
- `Refinement`: each action maps to one step of `Watch` or to a stutter; only `Test`
  needs the invariant (a set flag means registered and running).
- `MutexSafe`: without a removal from an idle manager and without `detach()`,
  `Detachable` makes the throwing `remove()` impossible.
- `StopFinal`: after a stop that was not early the control thread has begun and cannot
  begin again.
- `DeletionSafe`: `Joined` (a joined worker has ended; after `wait()` all of the list
  are joined or never had a thread) carries it to `clear()`.
- `NoWildWrites`: `LeftByStop` says a flag of the list is freed only after a stop, so
  the only stop meets none, and a running manager's flags are all "true".

Assumptions used: `SocketsAssumption`, `MaxStopsAssumption`. Each lemma that the
invariant is kept has one step per action; `StepHistory` says what a step may do to the
history variables.

`ServerProofs` proves, for any set of clients and any plans (calls, limits of the request
selectors, liberties):

- `ListAgreement`, `ServiceSafe`, `DanglingBounded` and `CallbackOrder` from one
  inductive invariant `IInv`. `ListMatchesPool` is not inductive alone: a client
  about to be watched must still be in the list (`Newcomer`), a worker about to erase
  its client must have taken it off its selector (`Serving`), and when `wait()` has
  passed a manager, its workers must have ended (`Phases`). For that, `Stations` says which
  managers owner and stopper may be at, and `Beginnings` that nobody works for a manager
  whose control thread has not begun, and that none ends that nobody stops. `Staying`
  carries the case of the accept worker: a client that does not leave early keeps its
  connection up, so that nobody begins to remove it before it is greeted. `Told` ties what the application was told to the place of the worker.
  `DanglingCases` is part of the invariant: a step that uses a client looks at the list.
- `PatientClientsSafe`: under the hypothesis that no plan has the liberty "leave", nothing
  that was destroyed is used before `stop()` is called.

- `TypeCorrect` says that no more than one message is on the way in each direction: the
  accept worker greets, then the worker of the client answers what it asks, and the
  client asks after it has taken the last answer. It needs a second invariant, `Alone`,
  of who may be sending.

Assumptions used: `ClientsAssumption`, `PlansAssumption`.

`BasesProofs` proves of `Serializer`, for any base of the bytes, any sizes of integers and
counts, any values and capacities, empty blocks and lists of any length included:

- `TypeCorrect`, with the cursors in order and inside the buffer.
- `Encodes`: `Contents` says that the bytes between the cursors are the encodings of
  the values owed, one behind the other, `FileContents` the same of the file. "One
  behind the other" is `Laid`: there is a function that gives the place where each value
  ends, so that values are put behind (`LaidBoth`) and taken from the front (`LaidFirst`)
  without an induction over them. `Pending` adds that an append under way brings whole
  values and keeps the bound.
- `ImplementsItemQueue`: `Spec => RefinesItemQueue`. The type invariant alone says
  nothing of what an extraction gives; with `Contents` the front of the buffer is the
  encoding of the oldest value (`FirstIsNext`) and each `Get` undoes its `<<`: the byte
  swap is its own inverse, the first zero byte is the one a string ends with
  (`CStringEnds`), a count is read as the number it was written for (`CountTells`) and the
  elements lie where the loop looks for them (`ElementsInPlace`). The commit of an append is
  the `Put` or `Load` of the queue, growth and failing loads stutter.

Assumptions used: `ByteAssumption`, `WidthAssumption`, `SizesAssumption`,
`CapacitiesAssumption`, `ValuesAssumption`. The last has the counts fit their field; the
bound `MaxEnd` and `Width` are what keeps the unsigned sums from wrapping.

It proves of `Socket`, for any finite sets of objects and descriptors:

- `SocketTypeCorrect`, and for programs that copy no `Socket`, `Ownership` and
  `KindAgreement`, from `SocketIInv`, which adds to them what
  `disconnect()` must remember between closing one descriptor and opening the next
  (`Reopening`).
- `Leaks`, for the same programs: every step leaves the set of open descriptors nobody holds as it is, or adds
  to it the one `accept(client)` overwrites (`StepOrphans`); its cardinality is counted
  by the theorems about finite sets.

Assumptions used: `DescriptorsAssumption` (`ObjectsAssumption` is for TLC).

`FramingProofs` proves, for any messages, width of the size, sizes of the buffer and
pieces in which the bytes come, under the hypothesis `Liberties = {}` (with "SplitHeader"
the run `framing_split_header` refutes it):

- `ImplementsChannel`: `Spec => RefinesChannel`. The delivery of a message is the last
  `recv()` of its body, or of its header if the body is empty; the other steps stutter.
- `TypeCorrect`, with the end cursor inside the buffer.
- The invariant `IInv` says where the receiver is: what was delivered are the first
  messages sent (`Ordered`), the header in its variables and the bytes in its buffer are
  those of the next one (`InBody`), and the wire carries the rest of that body and the
  messages behind it, up to some byte when the connection is gone (`Aligned`, by
  `Carries`). A cut header leaves nothing on the wire (`CutShort`), so that what it is
  taken for is never delivered.
- On the way, `SizeRead`: the size the receiver reads is the one the sender wrote, for
  every size that fits the field, and `NumberBelow`: whatever the bytes, the size is
  below the limit of the field.

Assumptions used: `CapAssumption`, `ByteAssumption`, `BodyAssumption`,
`StatusAssumption`.

`DatagramProofs` proves, for any hosts, bodies and bounds, `TypeCorrect`,
`ReceivedAsSent` and the action property `StaysBlocked`. The invariant adds that the
queue of a host holds datagrams that were sent to it (`Queues`) and that between
the two `recvfrom()` the one looked at is still the next (`Peeked`): other datagrams
arrive behind it. Assumptions used: `HostsAssumption`, `BodiesAssumption`,
`MaxAssumption`.

`RpcProofs` proves, for any functions and number of calls, `TypeCorrect`, `Answered` and
`CallsMatched`. The requests taken and on the way are the calls made, in order
(`Requests`), the answers on the way belong to requests that were run, in order
(`Answers`), as long as no call before was answered twice (`Behind`); a careful program
leaves nothing in the buffer (`Emptied`). When the connection is lost the last request and
the last answer may be torn: they keep their places in those orders but not their words
(`Cutting`, `Matching`), and nothing follows them (`Ending`). Assumptions used:
`FunctionsAssumption`, `CallsAssumption`, `GarbageAssumption`.

`BalancingSelectorProofs` proves, for any finite set of sockets and any limits,
`TypeCorrect`, `OnePlace` and `LimitsKept`. The scan of `add()` goes on while callbacks
take sockets away, so `Scanning` speaks of the selectors already seen, and of their
sockets together (`Together`, by induction) only as long as nothing was removed.
Assumptions used: `SocketsAssumption`, `LimitsAssumption`, `UintAssumption`.

`SettingsProofs` proves, for any modes, calls and number of selectors, `TypeCorrect`,
`SettingsArrive` and `WaitKept`. In the middle of a call the selectors do not agree:
the invariant says for each field how far the stores of the call have come
(`OwnStored`, `AllStored`) and what `newSelector()` has loaded and stored (`Loaded`,
`Stored`), or that the two raced (`Raced`). `Timed` bounds both halves of a timeval on
their own, which is enough because a turn may pair halves of two calls; that `select()`
may fail for reasons of its own is no part of the claim. `Untold` says which selectors
have not learnt of `delete`. The
proof found `WaitBounded` wrong as first stated: if there is no timeout but ones between
minus a second and zero, `select()` is given zero, more than any of them; the bound
holds where it waits at all.
Assumptions used: `MaxAssumption`, `ModesAssumption`, `MadeAssumption`,
`CallsAssumption`.

Induction. The induction theorems of the library cannot be instantiated here, so
where one is needed (`Power`, `Number`, `Count`, the sockets of several selectors) it is
made on a set of naturals: `SetInduction` follows from the well-founded order of the
naturals, and `Recursion` gives from it the functions that `Power` and `Number`
define.

Only model-checked: the liveness properties (`StopEnds`, `GrowthEnds` and the others
stated with `~>` or under fairness), which are outside the prover. Every safety
property of a passing run is stated by a theorem. Of `Framing` nothing is proved about
behaviours with "SplitHeader": there only its violation is of interest.

## Not modelled

- What ends the program by an exception in a thread: `accept()` failing in the worker
  of the listening socket (`Server.cpp:67`), a second `start()` over a joinable thread.
  A `start()` after `wait()` writes the freed flags of the tuples still in the list
  (`SelectManager.cpp:142`), after which C++ promises nothing.
- A buffer of size 0 and one beyond 2^31 bytes (`CapacitiesAssumption`,
  `WidthAssumption`); `max_per_selector = 0` (`LimitsAssumption`).
- `save()` goes on after a failing `fwrite()` and returns true (`Serializer.cpp:82-93`); a
  file of the model has all that was saved.
- `(int)*size` in `init_receive()` (`SocketSerialized.cpp:250-254`), which turns sizes beyond
  2 GiB negative: the sizes of the model stay below the bound of the buffer.
- A `recv()` that fails, or is interrupted, on a connection that is up
  (`SocketSerialized.cpp:258`, `280`): of `Framing`'s calls only those on a connection that has
  ended fail. `Datagram` has interrupted calls.
- `Socket::receive(Serializer&)` on a connection (`Socket.tpl`), one `recv()` without a
  loop, whose message may come in pieces nobody joins; `Datagram` has its other branch.
- Ports: the kinds of hosts in `Datagram` have a port each, where the examples
  (`socket_serializer.cpp:7`, `broadcast-server.cpp:7`, `broadcast-client.cpp:7`) all use 5001
  and could not be run side by side.
- The order in which `BalancingSelector::setArgs()` stores its own modes (write before read,
  `BalancingSelector.cpp:148-149`), which nothing in `Settings` could tell; the load and store
  of the `setDelete(do_delete)` in `newSelector()`, one step.
- Address resolution and socket options, printing, reading the terminal in the
  examples, build files.
