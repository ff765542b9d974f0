--------------------------- MODULE DatagramProofs ---------------------------
(***************************************************************************)
(* Proofs about Datagram, for any hosts, bodies and bounds.  IInv adds to  *)
(* the invariants where the cursors of a queue are, and what the second    *)
(* call of a receive() relies on: that the datagram the first one peeked   *)
(* at, which is still in front, is one that a second call is made for.     *)
(***************************************************************************)
EXTENDS Datagram, SequenceTheorems, TLAPS

Packets == [src : Hosts, dst : Hosts, body : Bodies \cup {Junk}, status : {Ok, Stop}]

Queues ==
    /\ arrived \in [Hosts -> Seq(Packets)]
    /\ \A h \in Hosts :
           /\ Len(arrived[h]) <= MaxArrivals
           /\ read[h] <= Len(arrived[h])
           /\ last[h] <= Len(arrived[h])
           /\ result[h] = "got" => last[h] # 0

Peeked == \A h \in Hosts : step[h] = "peeked" => Wanted(h, Front(h))

IInv == TypeOK /\ Queues /\ Peeked /\ AsSent

LEMMA InitIInv == Init => IInv
  <1> SUFFICES ASSUME Init PROVE IInv
    OBVIOUS
  <1>1. TypeOK
    BY BodiesAssumption, MaxAssumption DEF Init, TypeOK, Content
  <1>2. Queues
    BY MaxAssumption DEF Init, Queues
  <1>3. Peeked /\ AsSent
    BY DEF Init, Peeked, AsSent
  <1> QED
    BY <1>1, <1>2, <1>3 DEF IInv

-----------------------------------------------------------------------------
\* A host that sends leaves its queue and what it received alone.
LEMMA SendKeeps ==
    ASSUME IInv, NEW h \in Hosts, NEW b \in Bodies, Send(h, b) \/ SendBack(h)
    PROVE  IInv'
  <1>1. /\ net \subseteq net' /\ net' \subseteq Packets /\ sent' \in 0..MaxSent
        /\ content' \in [Hosts -> [body : Bodies \cup {Junk}, status : {Ok, Stop}, of : Hosts]]
        /\ result' \in [Hosts -> {"none", "got", "failed"}]
    <2>1. CASE Send(h, b)
      BY <2>1, MaxAssumption DEF IInv, TypeOK, Packets, Send, SendTo, Content, Port, Hosts
    <2>2. CASE SendBack(h)
      BY <2>2, MaxAssumption DEF IInv, TypeOK, Packets, SendBack, SendTo
    <2> QED
      BY <2>1, <2>2
  <1>2. UNCHANGED <<arrived, read, step, other, signals, last, returned>>
    BY DEF Send, SendBack, SendTo
  <1>3. \A g \in Hosts : result'[g] = "got" => result[g] = "got" /\ content'[g] = content[g]
    BY DEF IInv, TypeOK, Send, SendBack, SendTo
  <1>4. TypeOK'
    BY <1>1, <1>2 DEF IInv, TypeOK, Packets, Waiting
  <1>5. Queues' /\ Peeked'
    BY <1>2, <1>3 DEF IInv, Queues, Peeked, Wanted, Front
  <1>6. AsSent'
    BY <1>2, <1>3 DEF IInv, AsSent, Blocked, Waiting, Front
  <1> QED
    BY <1>4, <1>5, <1>6 DEF IInv

\* What an arrival does to the queues: it is put behind what waits.
LEMMA ArriveQueues ==
    ASSUME IInv, NEW d \in net, Arrive(d), NEW h \in Hosts
    PROVE  /\ arrived'[h] \in Seq(Packets)
           /\ Len(arrived'[h]) >= Len(arrived[h]) /\ Len(arrived'[h]) <= MaxArrivals
           /\ \A i \in 1..Len(arrived[h]) : arrived'[h][i] = arrived[h][i]
           /\ \A i \in 1..Len(arrived'[h]) : arrived'[h][i] \in net /\ arrived'[h][i].dst = h
           /\ Len(arrived[h]) \in Nat /\ Len(arrived'[h]) \in Nat
           /\ read[h] \in 0..Len(arrived[h]) /\ last[h] \in 0..Len(arrived[h])
  <1>1. d \in Packets /\ d.dst \in Hosts
    BY DEF IInv, TypeOK, Packets
  <1>2. /\ arrived'[h] \in Seq(Packets)
        /\ Len(arrived'[h]) >= Len(arrived[h]) /\ Len(arrived'[h]) <= MaxArrivals
        /\ \A i \in 1..Len(arrived[h]) : arrived'[h][i] = arrived[h][i]
        /\ \A i \in 1..Len(arrived'[h]) : arrived'[h][i] \in net /\ arrived'[h][i].dst = h
    <2>1. CASE h = d.dst
      BY <1>1, <2>1, MaxAssumption, SMTT(30) DEF Arrive, IInv, TypeOK, Queues
    <2>2. CASE h # d.dst
      BY <1>1, <2>2, SMTT(30) DEF Arrive, IInv, TypeOK, Queues
    <2> QED
      BY <2>1, <2>2
  <1>3. arrived[h] \in Seq(Packets)
    BY DEF IInv, Queues
  <1>4. read[h] \in Nat /\ last[h] \in Nat
    BY MaxAssumption DEF IInv, TypeOK
  <1> QED
    BY <1>2, <1>3, <1>4 DEF IInv, Queues

LEMMA ArriveWaiting ==
    ASSUME IInv, NEW d \in net, Arrive(d), NEW h \in Hosts, Waiting(h)
    PROVE  Waiting(h)' /\ Front(h)' = Front(h)
  <1>1. read[h] < Len(arrived'[h]) /\ read[h] + 1 \in 1..Len(arrived[h])
    BY ArriveQueues DEF Waiting
  <1>2. read' = read
    BY DEF Arrive
  <1> QED
    BY <1>1, <1>2, ArriveQueues DEF Waiting, Front

\* An arrival keeps the invariant.
LEMMA ArriveKeeps ==
    ASSUME IInv, NEW d \in net, Arrive(d)
    PROVE  IInv'
  <1>1. UNCHANGED <<net, sent, read, step, content, other, result, signals, last, returned>>
    BY DEF Arrive
  <1>2. arrived' \in [Hosts -> Seq(Packets)]
    BY ArriveQueues DEF Arrive, IInv, Queues
  <1>3. TypeOK'
    <2>1. \A h \in Hosts : \A i \in DOMAIN arrived'[h] : arrived'[h][i] \in net' /\ arrived'[h][i].dst = h
      BY <1>1, ArriveQueues
    <2>2. \A h \in Hosts : step'[h] = "peeked" => Waiting(h)'
      BY <1>1, ArriveWaiting DEF IInv, TypeOK
    <2> QED
      BY <1>1, <2>1, <2>2 DEF IInv, TypeOK
  <1>4. Queues'
    <2>1. ASSUME NEW h \in Hosts PROVE read'[h] <= Len(arrived'[h]) /\ last'[h] <= Len(arrived'[h])
      BY <1>1, ArriveQueues
    <2> QED
      BY <1>1, ArriveQueues, <1>2, <2>1 DEF IInv, Queues
  <1>5. Peeked'
    BY <1>1, ArriveWaiting DEF IInv, TypeOK, Peeked, Wanted
  <1>6. ASSUME NEW h \in Hosts
         PROVE  /\ result[h] = "got" => arrived'[h][last[h]] = arrived[h][last[h]]
                /\ Blocked(h) => Blocked(h)'
    <2>1. result[h] = "got" => last[h] \in 1..Len(arrived[h])
      BY ArriveQueues DEF IInv, Queues
    <2> QED
      BY ArriveQueues, ArriveWaiting, <2>1 DEF Blocked
  <1>7. AsSent'
    BY <1>1, <1>6 DEF IInv, AsSent
  <1> QED
    BY <1>3, <1>4, <1>5, <1>7 DEF IInv

-----------------------------------------------------------------------------
\* The front of a queue that waits, and what a peek means for Blocked.
LEMMA FrontType ==
    ASSUME IInv, NEW h \in Hosts, Waiting(h)
    PROVE  /\ Front(h) \in Packets
           /\ read[h] + 1 \in 1..Len(arrived[h])
           /\ Wanted(h, Front(h)) <=> ~Blocked(h)
  <1>1. /\ arrived[h] \in Seq(Packets) /\ Len(arrived[h]) \in Nat
        /\ read[h] \in Nat
    BY MaxAssumption DEF IInv, TypeOK, Queues
  <1>2. read[h] + 1 \in 1..Len(arrived[h])
    BY <1>1 DEF Waiting
  <1>3. Front(h) \in Packets
    BY <1>1, <1>2, ElementOfSeq DEF Front
  <1>4. Wanted(h, Front(h)) <=> ~Blocked(h)
    BY HostsAssumption DEF Wanted, Blocked, Hosts
  <1> QED
    BY <1>2, <1>3, <1>4

\* A step of h that touches nothing but the variables of h keeps what IInv
\* says of the other hosts.
Only(h) ==
    /\ UNCHANGED <<net, sent, arrived>>
    /\ \A g \in Hosts \ {h} :
           /\ read'[g] = read[g] /\ step'[g] = step[g] /\ content'[g] = content[g]
           /\ other'[g] = other[g] /\ result'[g] = result[g] /\ last'[g] = last[g]
           /\ returned'[g] = returned[g]

LEMMA OthersKept ==
    ASSUME IInv, NEW h \in Hosts, Only(h), TypeOK',
           read'[h] <= Len(arrived[h]), last'[h] <= Len(arrived[h]),
           result'[h] = "got" => last'[h] # 0,
           step'[h] = "peeked" => Wanted(h, Front(h))',
           result'[h] = "got" =>
               LET d == arrived[h][last'[h]]
               IN  /\ content'[h] = Content(d.body, IF h \in Serialized THEN d.status ELSE Ok, d.src)
                   /\ other'[h] = IF h \in Serialized /\ d.body = Empty THEN h ELSE d.src,
           \/ last'[h] = read'[h] /\ returned'[h] = last'[h]
           \/ Blocked(h)' /\ last'[h] = read'[h] + 1 /\ returned'[h] >= last'[h]
    PROVE  IInv'
  <1>1. Queues'
    BY DEF IInv, Queues, Only
  <1>2. ASSUME NEW g \in Hosts \ {h}
        PROVE  /\ Wanted(g, Front(g))' <=> Wanted(g, Front(g))
               /\ Blocked(g)' <=> Blocked(g)
    BY DEF Only, Wanted, Front, Blocked, Waiting
  <1>3. Peeked'
    BY <1>2 DEF IInv, Peeked, Only
  <1>4. AsSent'
    BY <1>2 DEF IInv, AsSent, Only
  <1> QED
    BY <1>1, <1>3, <1>4 DEF IInv

-----------------------------------------------------------------------------
\* The first call of a receive() that will make a second.
LEMMA PeekKeeps ==
    ASSUME IInv, NEW h \in Hosts, Peek(h)
    PROVE  IInv'
  <1>1. /\ Front(h) \in Packets /\ read[h] + 1 \in 1..Len(arrived[h])
        /\ Wanted(h, Front(h)) <=> ~Blocked(h)
    BY FrontType DEF Peek
  <1>2. read' = read /\ UNCHANGED <<net, sent, arrived, signals>>
    BY DEF Peek, AfterPeek, IInv, TypeOK
  <1>3. Front(h)' = Front(h) /\ Waiting(h)' /\ (Blocked(h)' <=> Blocked(h))
    BY <1>2 DEF Peek, Front, Waiting, Blocked
  <1>4. CASE Wanted(h, Front(h))
    <2> DEFINE c == Content(Junk, Front(h).status, Front(h).src)
    <2>0. /\ c \in [body : Bodies \cup {Junk}, status : {Ok, Stop}, of : Hosts]
          /\ content' = [content EXCEPT ![h] = c]
          /\ step' = [step EXCEPT ![h] = "peeked"] /\ other' = [other EXCEPT ![h] = h]
          /\ result' = [result EXCEPT ![h] = "none"] /\ last' = last /\ returned' = returned
      BY <1>1, <1>4 DEF Peek, Content, Packets
    <2> HIDE DEF c
    <2>1. TypeOK'
      BY <1>2, <1>3, <2>0 DEF IInv, TypeOK, Waiting
    <2>2. Only(h)
      BY <1>2, <1>4 DEF Only, Peek, IInv, TypeOK
    <2>3. /\ result'[h] = "none" /\ last' = last /\ returned' = returned
          /\ last[h] = read[h] /\ returned[h] = last[h]
      BY <1>1, <1>4 DEF Peek, IInv, TypeOK, AsSent
    <2>4. Wanted(h, Front(h))'
      BY <1>3, <1>4 DEF Wanted
    <2>5. read[h] <= Len(arrived[h]) /\ last[h] <= Len(arrived[h])
      BY DEF IInv, Queues
    <2> QED
      BY <1>2, <2>1, <2>2, <2>3, <2>4, <2>5, OthersKept
  <1>5. CASE ~Wanted(h, Front(h))
    <2>1. /\ Returns(h, Front(h)) /\ UNCHANGED step
          /\ Blocked(h) /\ h \in Serialized /\ Front(h).body = Empty
          /\ step[h] = "idle" /\ other' = [other EXCEPT ![h] = h]
      BY <1>1, <1>5 DEF Peek, Blocked
    <2>2. read[h] + 1 \in 0..MaxArrivals /\ returned[h] + 1 \in 0..MaxReturned
      BY <1>1, <2>1, MaxAssumption DEF Returns, IInv, TypeOK, Queues
    <2>3. TypeOK'
      BY <1>1, <1>2, <1>3, <2>1, <2>2 DEF Returns, Content, IInv, TypeOK, Packets, Waiting
    <2>4. Only(h)
      BY <1>2, <2>1 DEF Only, Returns, IInv, TypeOK
    <2>5. /\ result'[h] = "got" /\ last'[h] = read[h] + 1 /\ returned'[h] = returned[h] + 1
          /\ content'[h] = Content(Front(h).body, Front(h).status, Front(h).src) /\ other'[h] = h
      BY <2>1 DEF Returns, IInv, TypeOK
    <2>6. returned[h] + 1 >= last'[h]
      BY <2>1, <2>5 DEF IInv, TypeOK, AsSent
    <2>7. arrived[h][last'[h]] = Front(h)
      BY <2>5 DEF Front
    <2>8. step'[h] # "peeked" /\ Blocked(h)' /\ last'[h] # 0 /\ last'[h] <= Len(arrived[h])
      BY <1>1, <1>3, <2>1, <2>5
    <2>9. read'[h] <= Len(arrived[h])
      BY <1>2 DEF IInv, Queues
    <2> QED
      BY <1>2, <2>1, <2>3, <2>4, <2>5, <2>6, <2>7, <2>8, <2>9, OthersKept
  <1> QED
    BY <1>4, <1>5

\* The second call takes the datagram out of the queue and returns it.
LEMMA ReadKeeps ==
    ASSUME IInv, NEW h \in Hosts, Read(h)
    PROVE  IInv'
  <1>1. /\ Front(h) \in Packets /\ read[h] + 1 \in 1..Len(arrived[h])
        /\ ~Blocked(h) /\ Wanted(h, Front(h))
    BY FrontType DEF Read, IInv, Peeked
  <1>2. /\ read' = [read EXCEPT ![h] = read[h] + 1]
        /\ step' = [step EXCEPT ![h] = "idle"]
        /\ other' = [other EXCEPT ![h] = Front(h).src]
        /\ UNCHANGED <<net, sent, arrived, signals>> /\ Returns(h, Front(h))
    BY DEF Read, Source
  <1>3. /\ last[h] = read[h] /\ returned[h] = last[h]
    BY <1>1 DEF IInv, AsSent
  <1>4. read[h] + 1 \in 0..MaxArrivals /\ returned[h] + 1 \in 0..MaxReturned
    BY <1>1, <1>2, MaxAssumption DEF Returns, IInv, TypeOK, Queues
  <1>5. TypeOK'
    BY <1>1, <1>2, <1>4 DEF Returns, Content, IInv, TypeOK, Packets, Waiting
  <1>6. Only(h)
    BY <1>2 DEF Only, Returns, IInv, TypeOK
  <1>7. /\ result'[h] = "got" /\ last'[h] = read[h] + 1 /\ returned'[h] = returned[h] + 1
        /\ content'[h] = Content(Front(h).body, IF h \in Serialized THEN Front(h).status ELSE Ok, Front(h).src)
        /\ other'[h] = Front(h).src /\ read'[h] = read[h] + 1 /\ step'[h] = "idle"
    BY <1>2 DEF Returns, IInv, TypeOK
  <1>8. arrived[h][last'[h]] = Front(h)
    BY <1>7 DEF Front
  <1>9. ~(h \in Serialized /\ Front(h).body = Empty)
    BY <1>1, HostsAssumption DEF Wanted
  <1>10. last'[h] = read'[h] /\ returned'[h] = last'[h] /\ last'[h] # 0 /\ last'[h] <= Len(arrived[h])
    BY <1>1, <1>3, <1>7
  <1> QED
    BY <1>5, <1>6, <1>7, <1>8, <1>9, <1>10, OthersKept

\* A call that fails takes nothing out of the queue.
LEMMA FailsKeeps ==
    ASSUME IInv, NEW h \in Hosts, PeekFails(h) \/ ReadFails(h)
    PROVE  IInv'
  <1>1. /\ UNCHANGED <<net, sent, arrived, read, last, returned>>
        /\ step'[h] = "idle" /\ result'[h] = "failed" /\ signals' \in 0..MaxSignals
        /\ step' \in [Hosts -> {"idle", "peeked"}] /\ result' \in [Hosts -> {"none", "got", "failed"}]
        /\ \A g \in Hosts : step'[g] = "peeked" => step[g] = "peeked"
    BY MaxAssumption, SMTT(30) DEF PeekFails, ReadFails, IInv, TypeOK
  <1>2. /\ content' \in [Hosts -> [body : Bodies \cup {Junk}, status : {Ok, Stop}, of : Hosts]]
        /\ other' \in [Hosts -> Hosts]
    <2>1. CASE PeekFails(h)
      BY <2>1, BodiesAssumption DEF PeekFails, IInv, TypeOK, Content
    <2>2. CASE ReadFails(h)
      BY <2>2 DEF ReadFails, IInv, TypeOK
    <2> QED
      BY <2>1, <2>2
  <1>3. TypeOK'
    BY <1>1, <1>2 DEF IInv, TypeOK, Waiting
  <1>4. Only(h)
    BY <1>1 DEF Only, PeekFails, ReadFails, IInv, TypeOK
  <1>5. read'[h] <= Len(arrived[h]) /\ last'[h] <= Len(arrived[h])
    BY <1>1 DEF IInv, Queues
  <1>6. \/ last'[h] = read'[h] /\ returned'[h] = last'[h]
        \/ Blocked(h)' /\ last'[h] = read'[h] + 1 /\ returned'[h] >= last'[h]
    BY <1>1 DEF IInv, AsSent, Blocked, Waiting, Front
  <1> QED
    BY <1>1, <1>3, <1>4, <1>5, <1>6, OthersKept

LEMMA StepIInv == IInv /\ [Next]_vars => IInv'
  <1> SUFFICES ASSUME IInv, [Next]_vars PROVE IInv'
    OBVIOUS
  <1>1. CASE UNCHANGED vars
    BY <1>1 DEF vars, IInv, TypeOK, Queues, Peeked, AsSent, Wanted, Blocked, Waiting, Front
  <1>2. ASSUME NEW h \in Hosts, NEW b \in Bodies, Send(h, b) PROVE IInv'
    BY <1>2, SendKeeps
  <1>3. ASSUME NEW h \in Hosts, SendBack(h) PROVE IInv'
    BY <1>3, BodiesAssumption, SendKeeps
  <1>4. ASSUME NEW h \in Hosts, Receive(h) PROVE IInv'
    BY <1>4, PeekKeeps, ReadKeeps DEF Receive
  <1>5. ASSUME NEW h \in Hosts, PeekFails(h) \/ ReadFails(h) PROVE IInv'
    BY <1>5, FailsKeeps
  <1>6. ASSUME NEW d \in net, Arrive(d) PROVE IInv'
    BY <1>6, ArriveKeeps
  <1> QED
    BY <1>1, <1>2, <1>3, <1>4, <1>5, <1>6 DEF Next

LEMMA SpecIInv == Spec => []IInv
  BY InitIInv, StepIInv, PTL DEF Spec

\* Types, and the second recvfrom() of a receive() always finds a datagram.
THEOREM TypeCorrect == Spec => []TypeOK
  BY SpecIInv, PTL DEF IInv

\* What receive() hands out is a datagram that arrived, whole, with its sender,
\* each once and in order, unless one with an empty body blocks the queue.
THEOREM ReceivedAsSent == Spec => []AsSent
  BY SpecIInv, PTL DEF IInv

\* A SocketSerialized in front of a datagram with an empty body stays there.
THEOREM StaysBlocked == Spec => BlockedForever
  <1> DEFINE Stays == \A h \in Hosts : Blocked(h) => Blocked(h)' /\ read'[h] = read[h]
  <1>1. IInv /\ [Next]_vars => [Stays]_vars
    <2> SUFFICES ASSUME IInv, Next, NEW h \in Hosts, Blocked(h)
                 PROVE  Blocked(h)' /\ read'[h] = read[h]
      OBVIOUS
    <2>1. step[h] # "peeked"
      BY FrontType DEF IInv, Peeked, Blocked
    <2>2. read'[h] = read[h]
      BY <2>1 DEF Next, Receive, Send, SendBack, SendTo, Peek, AfterPeek, Read, PeekFails, ReadFails, Arrive, IInv, TypeOK
    <2>3. Waiting(h)' /\ Front(h)' = Front(h)
      <3>1. CASE arrived' = arrived
        BY <2>2, <3>1 DEF Blocked, Waiting, Front
      <3>2. ASSUME NEW d \in net, Arrive(d) PROVE Waiting(h)' /\ Front(h)' = Front(h)
        BY <3>2, ArriveWaiting DEF Blocked
      <3> QED
        BY <3>1, <3>2 DEF Next, Receive, Send, SendBack, SendTo, Peek, Read, PeekFails, ReadFails
    <2> QED
      BY <2>2, <2>3 DEF Blocked
  <1> QED
    BY <1>1, SpecIInv, PTL DEF Spec, BlockedForever
=============================================================================
