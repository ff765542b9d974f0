------------------------------ MODULE Framing ------------------------------
(***************************************************************************)
(* One direction of a TCP connection between two ntw::SocketSerialized     *)
(* (src/Socket/SocketSerialized.cpp): send() puts a header of size and     *)
(* status in front of the stored bytes, receive() reads a header with one  *)
(* recv() and then the body with as many as it takes.                      *)
(*                                                                         *)
(* The stream is a sequence of bytes, each recv() returns some of them.    *)
(* The connection may be lost at any point, with bytes still on the way.   *)
(* One recv() of the receiver is one action.                               *)
(***************************************************************************)
EXTENDS Naturals, Sequences

CONSTANTS Bodies,     \* the payloads the sender sends
          Statuses,   \* the status codes it sends
          Stop,       \* Status::stop
          Base,       \* bytes are 0 .. Base - 1
          SizeBytes,  \* the bytes of the size in the header
          InitCap,    \* buffer size of the constructor
          ClearCap,   \* buffer size of Serializer::clear()
          MaxSent,    \* bound on the number of messages
          Junk,       \* a byte never written
          Liberties   \* behaviours of the network beyond the usual ones

Header == SizeBytes + 1  \* HEADER_SIZE, the status is one byte here
Bytes == 0..(Base - 1)

\* Base to the i-th.
Power[i \in Nat] == IF i = 0 THEN 1 ELSE Base * Power[i - 1]

\* "SplitHeader": a recv() may return a part of a header though the connection
\* is up; without it only the loss of the connection can cut a header.
ASSUME LibertiesAssumption == Liberties \subseteq {"SplitHeader"}
ASSUME CapAssumption == {InitCap, ClearCap} \subseteq Nat /\ InitCap >= Header /\ ClearCap >= Header
ASSUME ByteAssumption == Base \in Nat \ {0, 1} /\ SizeBytes \in Nat \ {0} /\ Junk \notin Bytes
ASSUME BodyAssumption == \A b \in Bodies : b \in Seq(Bytes) /\ Len(b) < Power[SizeBytes]
ASSUME StatusAssumption == Statuses \subseteq Bytes /\ Stop \notin Statuses

VARIABLES
    wire,      \* the bytes on the way
    open,      \* the connection is up
    buffer,    \* _buffer of the receiver
    begin,     \* its _cursor_begin
    end,       \* its _cursor_end
    status,    \* its status
    pc,        \* the receiver: idle (before init_receive), body (in the loop)
    res,       \* the result receive() has or will have
    left,      \* recv_left
    broken,    \* the last recv() of a receive() returned 0 or less
    short,     \* the header of the message came incomplete
    sent,      \* history: the messages sent
    delivered, \* history: those receive() returned whole
    torn       \* history: receive() returned a message cut in its header or body

cursors == <<begin, end>>
turns == <<res, left>>
faults == <<broken, short>>
returned == <<delivered, torn>>
vars == <<wire, open, buffer, cursors, status, pc, turns, faults, sent, returned>>

Message == [status : Statuses, body : Bodies]

\* The size in network order, and back.
SizeField(n) == [i \in 1..SizeBytes |-> (n \div Power[SizeBytes - i]) % Base]
Number(bs, junk) ==
    LET first[i \in 0..Len(bs)] ==
            IF i = 0 THEN 0 ELSE Base * first[i - 1] + (IF bs[i] = Junk THEN junk ELSE bs[i])
    IN  first[Len(bs)]

Fresh(c) == [i \in 0..(c - 1) |-> Junk]

Init ==
    /\ wire = <<>>
    /\ open = TRUE
    /\ buffer = Fresh(InitCap)
    /\ begin = Header
    /\ end = Header
    /\ status \in Statuses
    /\ pc = "idle"
    /\ res = 0
    /\ left = 0
    /\ broken = FALSE
    /\ short = FALSE
    /\ sent = <<>>
    /\ delivered = <<>>
    /\ torn = FALSE

-----------------------------------------------------------------------------
(* The sender and the network.                                             *)

\* send(): init_send() writes size and status into the bytes before the data.
\* On a lost connection it throws, which send() turns into its result.
Send(m) ==
    /\ Len(sent) < MaxSent
    /\ open
    /\ wire' = wire \o SizeField(Len(m.body)) \o <<m.status>> \o m.body
    /\ sent' = Append(sent, m)
    /\ UNCHANGED <<open, buffer, cursors, status, pc, turns, faults, returned>>

\* The connection ends; what was on the way arrives up to some byte.
Lose ==
    /\ open
    /\ open' = FALSE
    /\ \E n \in 0..Len(wire) : wire' = SubSeq(wire, 1, n)
    /\ UNCHANGED <<buffer, cursors, status, pc, turns, faults, sent, returned>>

-----------------------------------------------------------------------------
(* The receiver.                                                           *)

\* recv() of up to n bytes returns k of them.
Arrives(k, n) == k \in 1..n /\ k <= Len(wire)

\* ... or 0, or an error, on a connection that has nothing left to deliver.
Ends == ~open /\ wire = <<>>

\* The bytes of the buffer b from p on, the first k bytes of the wire copied in.
Filled(b, p, k) ==
    [i \in DOMAIN b |-> IF i \in p..(p + k - 1) THEN wire[i - p + 1] ELSE b[i]]

\* Variant: the buffer keeps its size.
KeptSize(b, n) == b

Resized(b, n) ==
    IF \E i \in DOMAIN b : i >= n - 1 THEN b
    ELSE [i \in 0..(n - 1) |-> IF i \in DOMAIN b THEN b[i] ELSE Junk]

Body(b, from, to) == [i \in 1..(to - from) |-> b[from + i - 1]]

\* receive() returns to its caller with the buffer b.
Returns(b) ==
    LET m == [status |-> status', body |-> Body(b, begin', end')]
    IN  IF broken' \/ short' THEN torn' = TRUE /\ UNCHANGED delivered
        ELSE delivered' = Append(delivered, m) /\ UNCHANGED torn

\* init_receive() gets k bytes of the header; it takes the whole of size and
\* status from the buffer however few they were, junk where it is unwritten.
InitReceive(k, junk) ==
    /\ pc = "idle"
    /\ Arrives(k, Header)
    /\ k = Header \/ "SplitHeader" \in Liberties \/ (~open /\ k = Len(wire))
    /\ LET got == Filled(buffer, 0, k)
           size == Number([i \in 1..SizeBytes |-> got[i - 1]], junk)
       IN  /\ buffer' = Resized(got, Header + size)
           /\ status' = Number(<<got[SizeBytes]>>, junk)
           /\ begin' = Header
           /\ end' = Header + size
           /\ left' = size
    /\ broken' = FALSE
    /\ short' = (k < Header)
    /\ res' = k
    /\ wire' = SubSeq(wire, k + 1, Len(wire))
    /\ IF left' > 0 THEN pc' = "body" /\ UNCHANGED <<returned>>
                    ELSE pc' = "idle" /\ Returns(buffer')
    /\ UNCHANGED <<open, sent>>

HeaderFails ==
    /\ pc = "idle"
    /\ Ends
    /\ buffer' = Fresh(ClearCap)
    /\ begin' = Header
    /\ end' = Header
    /\ broken' = TRUE
    /\ res' = 0
    /\ UNCHANGED <<wire, open, pc, left, short, sent, returned>>

\* Variant: the status is left as it was.
InitReceiveFailsSilently == HeaderFails /\ UNCHANGED status

\* The header does not come: clear() and the status stop.
InitReceiveFails == HeaderFails /\ status' = Stop

BodyTo(p, k) ==
    /\ pc = "body"
    /\ Arrives(k, left)
    /\ buffer' = Filled(buffer, p, k)
    /\ res' = res + k
    /\ left' = left - k
    /\ wire' = SubSeq(wire, k + 1, Len(wire))
    /\ UNCHANGED <<open, cursors, status, faults, sent>>
    /\ IF left' > 0 THEN UNCHANGED <<pc, returned>> ELSE pc' = "idle" /\ Returns(buffer')

\* Variant: every recv() writes to the start of the body.
ReceiveBodyAtStart(k) == BodyTo(Header, k)

\* One turn of the loop over the body; the bytes go to _buffer + res.
ReceiveBody(k) == BodyTo(res, k)

\* The break of the loop; receive() returns what it has counted.
ReceiveBodyFails ==
    /\ pc = "body"
    /\ Ends
    /\ pc' = "idle"
    /\ broken' = TRUE
    /\ UNCHANGED <<wire, open, buffer, cursors, status, turns, short, sent>>
    /\ Returns(buffer)

\* clear() between two calls.
Clear ==
    /\ pc = "idle"
    /\ buffer' = Fresh(ClearCap)
    /\ begin' = Header
    /\ end' = Header
    /\ UNCHANGED <<wire, open, status, pc, turns, faults, sent, returned>>

Receive ==
    \/ \E k \in 1..Header : \E junk \in (IF k < Header THEN Bytes ELSE {0}) :
           InitReceive(k, junk)
    \/ InitReceiveFails
    \/ \E k \in 1..left : ReceiveBody(k)
    \/ ReceiveBodyFails

Next == Receive \/ Clear \/ Lose \/ \E m \in Message : Send(m)

Spec == Init /\ [][Next]_vars

\* The receiver calls receive() again and again, as a worker of a SelectManager
\* does for a socket that is ready, and recv() returns what has arrived.
FairSpec == Spec /\ WF_vars(Receive)

-----------------------------------------------------------------------------
(* Properties.                                                             *)

TypeOK ==
    /\ wire \in Seq(Bytes)
    /\ open \in BOOLEAN
    /\ \E c \in {InitCap, ClearCap} \cup Header..(Header + Power[SizeBytes]) :
           buffer \in [0..(c - 1) -> Bytes \cup {Junk}]
    /\ begin = Header
    /\ end >= begin
    /\ end - 1 \in DOMAIN buffer
    /\ status \in Bytes \cup {Stop}
    /\ pc \in {"idle", "body"}
    /\ res \in Nat
    /\ left \in Nat
    /\ {broken, short, torn} \subseteq BOOLEAN
    /\ sent \in Seq(Message)
    /\ delivered \in Seq(Message)

\* What receive() returns is what was sent, in order, but for a message that a
\* lost connection tore.
C == INSTANCE Channel WITH Messages <- Message, up <- open
RefinesChannel == C!Spec

\* Every message sent is delivered, unless the connection is lost; then a caller
\* that goes on receiving is told.
DeliveredOrTold ==
    \A n \in 1..MaxSent : (Len(sent) = n) ~> (Len(delivered) >= n \/ (status = Stop /\ res = 0))
=============================================================================
