------------------------------- MODULE Socket -------------------------------
(***************************************************************************)
(* ntw::Socket (src/Socket/Socket.cpp) as the owner of a descriptor.  The  *)
(* objects of a program share the descriptor table of their process: each  *)
(* constructor, connect(), accept(), disconnect(), move and destructor     *)
(* takes, hands on or gives back a number that another thread may be given *)
(* the next moment.  An object is used by one thread at a time; threads    *)
(* that use different objects interleave at every system call.             *)
(*                                                                         *)
(* An object is a place in memory that may be constructed, destroyed and   *)
(* constructed again.  What throws before it changed anything is no step.  *)
(*                                                                         *)
(* Socket and Serializer are the bases of SocketSerialized and are proved  *)
(* about in one module: names both would have begin with Socket here.      *)
(***************************************************************************)
EXTENDS Naturals, FiniteSets

CONSTANTS Objects,
          Descriptors,  \* the numbers the process may have open
          Invalid       \* INVALID_SOCKET

ASSUME ObjectsAssumption == IsFiniteSet(Objects)
ASSUME DescriptorsAssumption == IsFiniteSet(Descriptors) /\ Invalid \notin Descriptors

VARIABLES
    table,  \* the open descriptors: what the kernel has under each number
    at,     \* each object: none, live, or reopening (inside disconnect())
    sock,   \* its member sock
    kind,   \* its type, which need_connect remembers
    cfg,    \* its sock_cfg: junk, or one whose address family is set
    type,   \* the local variable of disconnect(), TCP when it is not inside
    lost,   \* history: how often, before any copy, accept() was given an object
            \* with a descriptor
    copied  \* history: the program has copied a Socket

socketVars == <<table, at, sock, kind, cfg, type, lost, copied>>

Kinds == {"TCP", "UDP"}

States == {"fresh", "bound", "listening", "connected", "down"}

Closed == [type |-> "none", state |-> "closed"]

File(k, state) == [type |-> k, state |-> state]

SocketInit ==
    /\ table = [fd \in Descriptors |-> Closed]
    /\ at = [o \in Objects |-> "none"]
    /\ sock = [o \in Objects |-> Invalid]
    /\ kind = [o \in Objects |-> "TCP"]
    /\ cfg = [o \in Objects |-> "junk"]
    /\ type = [o \in Objects |-> "TCP"]
    /\ lost = 0
    /\ copied = FALSE

Free == {fd \in Descriptors : table[fd] = Closed}

Holds(o) == at[o] = "live" /\ sock[o] # Invalid

\* The system calls on the socket of o, if the kernel has one in that state.
InState(o, states) == Holds(o) /\ table[sock[o]].state \in states

Becomes(o, state) ==
    /\ table' = [table EXCEPT ![sock[o]] = File(@.type, state)]
    /\ UNCHANGED <<at, sock, kind, cfg, type, lost, copied>>

-----------------------------------------------------------------------------
\* Socket(domain, type, protocole)
Construct(o, k) ==
    /\ at[o] = "none"
    /\ \E fd \in Free :
           /\ table' = [table EXCEPT ![fd] = File(k, "fresh")]
           /\ sock' = [sock EXCEPT ![o] = fd]
    /\ at' = [at EXCEPT ![o] = "live"]
    /\ kind' = [kind EXCEPT ![o] = k]
    /\ cfg' = [cfg EXCEPT ![o] = "known"]
    /\ UNCHANGED <<type, lost, copied>>

\* Variant: the number is copied and stays with s as well.
MoveCopies(o, s) ==
    /\ at[o] = "none"
    /\ at[s] = "live"
    /\ at' = [at EXCEPT ![o] = "live"]
    /\ sock' = [sock EXCEPT ![o] = sock[s]]
    /\ kind' = [kind EXCEPT ![o] = kind[s]]
    /\ cfg' = [cfg EXCEPT ![o] = cfg[s], ![s] = "junk"]
    /\ UNCHANGED <<table, type, lost, copied>>

\* SocketSerialized(Socket&& s): starts with nothing and swaps with s, which
\* is left without a descriptor and with an uninitialised sock_cfg.
Move(o, s) ==
    /\ at[o] = "none"
    /\ at[s] = "live"
    /\ at' = [at EXCEPT ![o] = "live"]
    /\ sock' = [sock EXCEPT ![o] = sock[s], ![s] = Invalid]
    /\ kind' = [kind EXCEPT ![o] = kind[s]]
    /\ cfg' = [cfg EXCEPT ![o] = cfg[s], ![s] = "junk"]
    /\ UNCHANGED <<table, type, lost, copied>>

\* Socket(const Socket&), which nobody wrote and only the assignment is deleted
\* beside: o has the number of s, and both will close it.
Copy(o, s) ==
    /\ at[o] = "none"
    /\ at[s] = "live"
    /\ at' = [at EXCEPT ![o] = "live"]
    /\ sock' = [sock EXCEPT ![o] = sock[s]]
    /\ kind' = [kind EXCEPT ![o] = kind[s]]
    /\ cfg' = [cfg EXCEPT ![o] = cfg[s]]
    /\ copied' = TRUE
    /\ UNCHANGED <<table, type, lost>>

\* _close() of the number o has.
Close(o) ==
    table' = IF sock[o] # Invalid THEN [table EXCEPT ![sock[o]] = Closed] ELSE table

\* The destructor; the members are gone.
Destroy(o) ==
    /\ at[o] = "live"
    /\ Close(o)
    /\ at' = [at EXCEPT ![o] = "none"]
    /\ sock' = [sock EXCEPT ![o] = Invalid]
    /\ cfg' = [cfg EXCEPT ![o] = "junk"]
    /\ kind' = [kind EXCEPT ![o] = "TCP"]
    /\ UNCHANGED <<type, lost, copied>>

\* connect(): only what needs a connection calls the kernel.
Connect(o) ==
    /\ kind[o] = "TCP"
    /\ InState(o, {"fresh", "bound"})
    /\ Becomes(o, "connected")

Bind(o) == InState(o, {"fresh"}) /\ Becomes(o, "bound")

Listen(o) ==
    /\ InState(o, {"fresh", "bound"})
    /\ table[sock[o]].type = "TCP"
    /\ Becomes(o, "listening")

\* bind() and listen(), the second of which throws for UDP.
ServerMode(o) ==
    /\ InState(o, {"fresh"})
    /\ Becomes(o, IF table[sock[o]].type = "TCP" THEN "listening" ELSE "bound")

Shutdown(o) == InState(o, {"connected", "listening"}) /\ Becomes(o, "down")

\* ::accept() on o: a connection under a number of its own.
Accepted(o, fd) ==
    /\ InState(o, {"listening"})
    /\ fd \in Free
    /\ table' = [table EXCEPT ![fd] = File("TCP", "connected")]

\* Socket accept(), whose local variable is the object returned: compilers elide
\* the copy the return asks for.  One that does not takes this step, Copy and
\* Destroy of the variable.
AcceptNew(o, c) ==
    /\ at[c] = "none"
    /\ \E fd \in Free : Accepted(o, fd) /\ sock' = [sock EXCEPT ![c] = fd]
    /\ at' = [at EXCEPT ![c] = "live"]
    /\ kind' = [kind EXCEPT ![c] = "TCP"]
    /\ cfg' = [cfg EXCEPT ![c] = "known"]
    /\ UNCHANGED <<type, lost, copied>>

\* accept(client) into a TCP socket: a number that client had is overwritten.
Accept(o, c) ==
    /\ at[c] = "live"
    /\ kind[c] = "TCP"
    /\ c # o
    /\ \E fd \in Free : Accepted(o, fd) /\ sock' = [sock EXCEPT ![c] = fd]
    /\ cfg' = [cfg EXCEPT ![c] = "known"]
    /\ lost' = IF sock[c] # Invalid /\ ~copied THEN lost + 1 ELSE lost
    /\ UNCHANGED <<at, kind, type, copied>>

\* ::accept() fails, on whatever o has; client has lost its number all the same.
AcceptThrows(o, c) ==
    /\ at[o] = "live"
    /\ at[c] = "live"
    /\ kind[c] = "TCP"
    /\ c # o
    /\ sock' = [sock EXCEPT ![c] = Invalid]
    /\ lost' = IF sock[c] # Invalid /\ ~copied THEN lost + 1 ELSE lost
    /\ UNCHANGED <<table, at, kind, cfg, type, copied>>

-----------------------------------------------------------------------------
\* Variant: only the new socket is made.
DisconnectKeeps(o) ==
    /\ InState(o, States)
    /\ type' = [type EXCEPT ![o] = table[sock[o]].type]
    /\ at' = [at EXCEPT ![o] = "reopening"]
    /\ UNCHANGED <<table, sock, kind, cfg, lost, copied>>

\* Variant: the result of getsockopt() is not looked at.
DisconnectUnasked(o) ==
    /\ Holds(o)
    /\ type' = [type EXCEPT ![o] = table[sock[o]].type]
    /\ Close(o)
    /\ at' = [at EXCEPT ![o] = "reopening"]
    /\ UNCHANGED <<sock, kind, cfg, lost, copied>>

\* disconnect(), which only returns false if getsockopt() fails.
DisconnectCloses(o) ==
    /\ InState(o, States)
    /\ type' = [type EXCEPT ![o] = table[sock[o]].type]
    /\ Close(o)
    /\ at' = [at EXCEPT ![o] = "reopening"]
    /\ UNCHANGED <<sock, kind, cfg, lost, copied>>

DisconnectOpens(o) ==
    /\ at[o] = "reopening"
    /\ \E fd \in Free :
           /\ table' = [table EXCEPT ![fd] = File(type[o], "fresh")]
           /\ sock' = [sock EXCEPT ![o] = fd]
    /\ at' = [at EXCEPT ![o] = "live"]
    /\ type' = [type EXCEPT ![o] = "TCP"]
    /\ UNCHANGED <<kind, cfg, lost, copied>>

\* ::socket() fails, perhaps because the number has gone to another thread.
DisconnectThrows(o) ==
    /\ at[o] = "reopening"
    /\ sock' = [sock EXCEPT ![o] = Invalid]
    /\ at' = [at EXCEPT ![o] = "live"]
    /\ type' = [type EXCEPT ![o] = "TCP"]
    /\ UNCHANGED <<table, kind, cfg, lost, copied>>

Disconnect(o) == DisconnectCloses(o) \/ DisconnectOpens(o) \/ DisconnectThrows(o)

SocketNext ==
    \E o \in Objects :
        \/ \E k \in Kinds : Construct(o, k)
        \/ Destroy(o) \/ Connect(o) \/ Bind(o) \/ Listen(o) \/ ServerMode(o) \/ Shutdown(o)
        \/ Disconnect(o)
        \/ \E c \in Objects :
              \/ Move(c, o) \/ Copy(c, o)
              \/ AcceptNew(o, c) \/ Accept(o, c) \/ AcceptThrows(o, c)

SocketSpec == SocketInit /\ [][SocketNext]_socketVars

-----------------------------------------------------------------------------
(* Properties.                                                             *)

SocketTypeOK ==
    /\ table \in [Descriptors -> [type : Kinds, state : States] \cup {Closed}]
    /\ at \in [Objects -> {"none", "live", "reopening"}]
    /\ sock \in [Objects -> Descriptors \cup {Invalid}]
    /\ kind \in [Objects -> Kinds]
    /\ cfg \in [Objects -> {"junk", "known"}]
    /\ type \in [Objects -> Kinds]
    /\ lost \in Nat
    /\ copied \in BOOLEAN

\* In a program that copies no Socket, a number an object holds is open, and held
\* by it alone: no destructor and no disconnect() closes what another object, or
\* another thread, has been given in the meantime.  Inside disconnect() the object
\* still shows the old number.  One copy endangers every object: the number two of
\* them close may have become that of a third.
OwnDescriptor ==
    ~copied => \A o \in Objects : Holds(o) =>
        /\ table[sock[o]] # Closed
        /\ \A p \in Objects : Holds(p) /\ sock[p] = sock[o] => p = o

\* The open descriptors no object holds.
Orphans == {fd \in Descriptors : table[fd] # Closed /\ \A o \in Objects : Holds(o) => sock[o] # fd}

\* In a program that copies no Socket, every descriptor that leaks was overwritten
\* by accept(client), and each such accept leaks one: a Server, whose clients are
\* constructed with a descriptor of their own, can accept no more connections in
\* its life than the process may have descriptors.
LeaksCounted == ~copied => Cardinality(Orphans) = lost
=============================================================================
