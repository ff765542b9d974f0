------------------------------ MODULE Datagram ------------------------------
(***************************************************************************)
(* UDP between ntw sockets, as the programs of src/examples/broadcast and  *)
(* src/examples/socket_serializer use it.  A datagram is received by two   *)
(* calls of recvfrom(): the first peeks at the header for the size, the    *)
(* second takes the datagram.  Serialized hosts use a SocketSerialized,    *)
(* plain hosts a Socket and a Serializer, with another header and on a     *)
(* port of their own.                                                      *)
(*                                                                         *)
(* The network loses, repeats and reorders datagrams; what has arrived     *)
(* waits in the queue of the socket.  One system call is one action.       *)
(* receive() is receive(other) with an other nobody looks at.              *)
(***************************************************************************)
EXTENDS Naturals, Sequences

CONSTANTS Serialized, Plain,  \* the hosts, by the class they use
          Bodies, Empty,      \* what is sent; Empty has no bytes
          Junk,               \* bytes nobody sent
          Ok, Stop,           \* Status::ok, Status::stop
          MaxSent, MaxArrivals, MaxReturned, MaxSignals  \* bounds

ASSUME HostsAssumption == Serialized \cap Plain = {}
ASSUME BodiesAssumption == Empty \in Bodies /\ Junk \notin Bodies
ASSUME StatusAssumption == Ok # Stop
ASSUME MaxAssumption == {MaxSent, MaxArrivals, MaxReturned, MaxSignals} \subseteq Nat

Hosts == Serialized \cup Plain

VARIABLES
    net,       \* every datagram sent: it may arrive never, once or often
    sent,      \* how many
    arrived,   \* per host: the datagrams that have arrived, in order
    read,      \* how many of them the kernel has handed out
    step,      \* idle, or peeked: between the two calls of receive()
    content,   \* its buffer: body and status, and whose they are
    other,     \* the address in the Socket given to receive()
    result,    \* of the last receive(): none yet, got or failed
    signals,   \* the calls a signal has interrupted
    last,      \* history: which arrival the last receive() has returned
    returned   \* history: how often receive() has returned a datagram

vars == <<net, sent, arrived, read, step, content, other, result, signals, last, returned>>

Content(body, status, of) == [body |-> body, status |-> status, of |-> of]

Init ==
    /\ net = {}
    /\ sent = 0
    /\ arrived = [h \in Hosts |-> <<>>]
    /\ read = [h \in Hosts |-> 0]
    /\ step = [h \in Hosts |-> "idle"]
    /\ content = [h \in Hosts |-> Content(Empty, Ok, h)]
    /\ other = [h \in Hosts |-> h]
    /\ result = [h \in Hosts |-> "none"]
    /\ signals = 0
    /\ last = [h \in Hosts |-> 0]
    /\ returned = [h \in Hosts |-> 0]

-----------------------------------------------------------------------------
(* Sending.                                                                *)

\* The hosts a broadcast of h is for: those on its port, h among them.
Port(h) == IF h \in Serialized THEN Serialized ELSE Plain

\* sendto() one address or all of them; the header says size and status.
SendTo(h, dests, c) ==
    /\ step[h] = "idle"
    /\ sent < MaxSent
    /\ sent' = sent + 1
    /\ net' = net \cup {[src |-> h, dst |-> g, body |-> c.body, status |-> c.status] : g \in dests}
    /\ UNCHANGED <<arrived, read, step, other, signals, last, returned>>

\* A message is put in the buffer, and send() after setBroadcast() sends it.
Send(h, body) ==
    /\ content' = [content EXCEPT ![h] = Content(body, Ok, h)]
    /\ result' = [result EXCEPT ![h] = "none"]
    /\ SendTo(h, Port(h), content'[h])

\* send(other): back to the address receive(other) has set.  The buffer is the
\* one receive() has filled, and so is its status.
SendBack(h) ==
    /\ result[h] # "none"
    /\ SendTo(h, {other[h]}, content[h])
    /\ UNCHANGED <<content, result>>

\* The network.
Arrive(d) ==
    /\ Len(arrived[d.dst]) < MaxArrivals
    /\ arrived' = [arrived EXCEPT ![d.dst] = Append(@, d)]
    /\ UNCHANGED <<net, sent, read, step, content, other, result, signals, last, returned>>

-----------------------------------------------------------------------------
(* Receiving.                                                              *)

Waiting(h) == read[h] < Len(arrived[h])

Front(h) == arrived[h][read[h] + 1]

\* Variant: the flag MSG_PEEK forgotten.
PeekConsumes(n) == n + 1

\* What the kernel has handed out after the first call.
AfterPeek(n) == n

\* Variant: the test of the size dropped.
WantedAlways(h, d) == TRUE

\* Variant: only the header is ever read.
WantedNever(h, d) == FALSE

\* Is there a second call?  SocketSerialized makes it if the body has bytes.
Wanted(h, d) == h \in Plain \/ d.body # Empty

\* Variant: the second call without other.
Unnamed(h, d) == h

\* The address recvfrom() sets.
Source(h, d) == d.src

\* receive() returns the datagram d.
Returns(h, d) ==
    /\ returned[h] < MaxReturned
    /\ content' = [content EXCEPT ![h] =
                       Content(d.body, IF h \in Serialized THEN d.status ELSE Ok, d.src)]
    /\ result' = [result EXCEPT ![h] = "got"]
    /\ last' = [last EXCEPT ![h] = read[h] + 1]
    /\ returned' = [returned EXCEPT ![h] = @ + 1]

\* receive() with an other made for this call, whose address the program has
\* preset: the first recvfrom(), which knows no other.  The status and the
\* cursors are set; the bytes between them are the old ones.
Peek(h) ==
    /\ step[h] = "idle"
    /\ Waiting(h)
    /\ read' = [read EXCEPT ![h] = AfterPeek(@)]
    /\ other' = [other EXCEPT ![h] = h]
    /\ IF Wanted(h, Front(h))
         THEN /\ step' = [step EXCEPT ![h] = "peeked"]
              /\ result' = [result EXCEPT ![h] = "none"]
              /\ content' = [content EXCEPT ![h] = Content(Junk, Front(h).status, Front(h).src)]
              /\ UNCHANGED <<last, returned>>
         ELSE Returns(h, Front(h)) /\ UNCHANGED step
    /\ UNCHANGED <<net, sent, arrived, signals>>

\* The second call.
Read(h) ==
    /\ step[h] = "peeked"
    /\ Waiting(h)
    /\ read' = [read EXCEPT ![h] = @ + 1]
    /\ other' = [other EXCEPT ![h] = Source(h, Front(h))]
    /\ step' = [step EXCEPT ![h] = "idle"]
    /\ Returns(h, Front(h))
    /\ UNCHANGED <<net, sent, arrived, signals>>

\* The first call fails: clear() and the status stop, or nothing in the stream.
PeekFails(h) ==
    /\ step[h] = "idle"
    /\ signals < MaxSignals
    /\ signals' = signals + 1
    /\ other' = [other EXCEPT ![h] = h]
    /\ result' = [result EXCEPT ![h] = "failed"]
    /\ content' = [content EXCEPT ![h] = Content(Empty, IF h \in Serialized THEN Stop ELSE Ok, h)]
    /\ UNCHANGED <<net, sent, arrived, read, step, last, returned>>

\* The second call fails: what was on the stack becomes the body all the same,
\* and nothing but the result tells it from a datagram.
ReadFails(h) ==
    /\ step[h] = "peeked"
    /\ signals < MaxSignals
    /\ signals' = signals + 1
    /\ step' = [step EXCEPT ![h] = "idle"]
    /\ result' = [result EXCEPT ![h] = "failed"]
    /\ UNCHANGED <<net, sent, arrived, read, content, other, last, returned>>

Receive(h) == Peek(h) \/ Read(h)

Next ==
    \/ \E h \in Hosts :
           \/ \E b \in Bodies : Send(h, b)
           \/ SendBack(h) \/ Receive(h) \/ PeekFails(h) \/ ReadFails(h)
    \/ \E d \in net : Arrive(d)

Spec == Init /\ [][Next]_vars

\* Every host receives in a loop, as the servers of the examples do.
FairSpec == Spec /\ \A h \in Hosts : WF_vars(Receive(h))

-----------------------------------------------------------------------------
(* Properties.                                                             *)

\* Types; and the second call never blocks: what was peeked is still there.
TypeOK ==
    /\ net \subseteq [src : Hosts, dst : Hosts, body : Bodies \cup {Junk}, status : {Ok, Stop}]
    /\ sent \in 0..MaxSent
    /\ \A h \in Hosts : \A i \in DOMAIN arrived[h] : arrived[h][i] \in net /\ arrived[h][i].dst = h
    /\ read \in [Hosts -> 0..MaxArrivals]
    /\ step \in [Hosts -> {"idle", "peeked"}]
    /\ \A h \in Hosts : step[h] = "peeked" => Waiting(h)
    /\ content \in [Hosts -> [body : Bodies \cup {Junk}, status : {Ok, Stop}, of : Hosts]]
    /\ other \in [Hosts -> Hosts]
    /\ result \in [Hosts -> {"none", "got", "failed"}]
    /\ signals \in 0..MaxSignals
    /\ last \in [Hosts -> 0..MaxArrivals]
    /\ returned \in [Hosts -> 0..MaxReturned]

\* The queue has a datagram in front that receive() never takes out of it.
Blocked(h) == h \in Serialized /\ Waiting(h) /\ Front(h).body = Empty

\* What a successful receive() leaves in the buffer is the datagram its result
\* stands for, with its status, and an answer goes to its sender; and datagrams
\* are returned in the order of arrival, each once, however the calls fail in
\* between.  The exception is a SocketSerialized that receives an empty body:
\* other is as it was made, so that the answer goes to the address the program
\* preset, and every later receive() returns that datagram again.
AsSent ==
    \A h \in Hosts :
        /\ result[h] = "got" =>
               LET d == arrived[h][last[h]]
               IN  /\ content[h] =
                          Content(d.body, IF h \in Serialized THEN d.status ELSE Ok, d.src)
                   /\ other[h] = IF h \in Serialized /\ d.body = Empty THEN h ELSE d.src
        /\ \/ last[h] = read[h] /\ returned[h] = last[h]
           \/ Blocked(h) /\ last[h] = read[h] + 1 /\ returned[h] >= last[h]

\* That queue is blocked for ever: no call of SocketSerialized takes it further.
BlockedForever == [][\A h \in Hosts : Blocked(h) => Blocked(h)' /\ read'[h] = read[h]]_vars

\* All that arrives is returned, unless it is behind such a datagram.
Delivered ==
    \A h \in Hosts, n \in 1..MaxArrivals :
        (Len(arrived[h]) = n) ~> (last[h] >= n \/ Blocked(h))
=============================================================================
