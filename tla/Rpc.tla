-------------------------------- MODULE Rpc --------------------------------
(***************************************************************************)
(* Calls of a ntw::cli::Client and what a request worker of the server     *)
(* does with them (src/Socket/FuncWrapper.cpp, include/Socket/FuncWrapper  *)
(* .tpl, client/Client.tpl), with the contents of both buffers: what a     *)
(* call leaves in the client's buffer goes out in front of the next one,   *)
(* and a function may answer by itself.                                    *)
(*                                                                         *)
(* A connection is two queues of messages, as module Channel promises, and *)
(* may be lost, with a last message cut on either side, for which receive()*)
(* returns more than zero all the same.  Messages are sequences of words;  *)
(* each function takes one argument.  The argument of a call is its number,*)
(* and a function with a result returns its argument, so that results may  *)
(* be taken for ids.                                                       *)
(***************************************************************************)
EXTENDS Integers, Sequences

CONSTANTS Functions,  \* from ids to what the function does, see Kinds
          Ids,        \* the ids a client may ask for
          Garbage,    \* words there may be in the buffer where none has arrived
          MaxCalls    \* bound on the calls

\* value: returns a value.  void: returns none.  wrong: returns none, and sets
\* the status wrong_id.  tells: calls msg(), then returns a value.  refused: the
\* dispatch function calls msg() in place of exec().
Kinds == {"value", "void", "wrong", "tells", "refused"}

ASSUME FunctionsAssumption ==
    /\ DOMAIN Functions \subseteq Ids
    /\ Ids \subseteq Nat
    /\ \A id \in DOMAIN Functions : Functions[id] \in Kinds
ASSUME CallsAssumption == MaxCalls \in Nat
ASSUME GarbageAssumption == Garbage \subseteq Int

VARIABLES
    toServer, toClient,  \* the messages on the way
    up,       \* the connection is there
    cutRequest, cutAnswer,  \* history: the places, among all requests and among
              \* all answers, of those the loss has cut, 0 if none
    cbuf,     \* the words in the client's buffer
    cstatus,  \* its status
    waiting,  \* the client is in send_f(), at receive()
    sbuf,     \* the server's buffer
    sstatus,  \* its status
    srv,      \* the worker: idle, dispatch, tell, reply or again, and the id
    owes,     \* history: the program has to clear what an error left
    asked,    \* history: per call the id, the type of result, the program's care
    run,      \* history: per call the id dispatch() found and the argument
    answers,  \* history: per call how many messages the server has sent
    taken     \* history: per call the message it took, and what it returned

vars == <<toServer, toClient, up, cutRequest, cutAnswer, cbuf, cstatus, waiting, sbuf, sstatus,
          srv, owes, asked, run, answers, taken>>

link == <<up, cutRequest, cutAnswer>>
client == <<cbuf, cstatus, waiting, owes, asked, taken>>
server == <<sbuf, sstatus, srv, run, answers>>

UNKNOW == -1  \* FUNCTONS_ID::UNKNOW
Text == -2    \* a piece of text, read as a number
Unset == -3   \* a variable nobody has set

Statuses == {"ok", "wrong_id", "user", "stop"}

Init ==
    /\ toServer = <<>>
    /\ toClient = <<>>
    /\ up = TRUE
    /\ cutRequest = 0
    /\ cutAnswer = 0
    /\ cbuf = <<>>
    /\ cstatus = "ok"
    /\ waiting = FALSE
    /\ sbuf = <<>>
    /\ sstatus = "ok"
    /\ srv = [pc |-> "idle", id |-> UNKNOW]
    /\ owes = FALSE
    /\ asked = <<>>
    /\ run = <<>>
    /\ answers = <<>>
    /\ taken = <<>>

\* operator>> of an int: a buffer without one leaves the variable as it is.
First(words, default) == IF words = <<>> THEN default ELSE Head(words)

\* Variant: the cursor stays in front of the value.
RestAll(words) == words

Rest(words) == IF words = <<>> THEN words ELSE Tail(words)

-----------------------------------------------------------------------------
(* The client.                                                             *)

\* The type of result a function has, and a program should ask for.
Fits(id, ret) ==
    id \in DOMAIN Functions => ret = IF Functions[id] \in {"void", "wrong"} THEN "void" ELSE "value"

\* Variant: a call without a result waits for none.
AwaitedIfValue(ret) == ret = "value"

\* Does send_f() receive?
Awaited(ret) == TRUE

\* call<ret>(id, n): id and argument behind what the buffer has, sendCl(), and
\* on to receive().  A lost connection is noticed there.
Call(id, ret) ==
    LET n == Len(asked) + 1 IN
    /\ ~waiting
    /\ n <= MaxCalls
    /\ toServer' = IF up THEN Append(toServer, cbuf \o <<id, n>>) ELSE toServer
    /\ cstatus' = "ok"
    /\ cbuf' = <<>>
    /\ waiting' = Awaited(ret)
    /\ owes' = FALSE
    /\ asked' = Append(asked, [id |-> id, ret |-> ret, careful |-> ~owes /\ Fits(id, ret)])
    /\ UNCHANGED <<toClient, link, taken, server>>

\* Variant: the test the other way round.
ExtractsIfWrong(ret, status) == ret = "value" /\ status = "wrong_id"

\* What send_f() takes out of a response.
Extracts(ret, status) == ret = "value" /\ status # "wrong_id"

\* send_f(): the response, and its value.  A cut one is taken as a whole one is.
Receive ==
    /\ waiting
    /\ toClient # <<>>
    /\ LET m == Head(toClient)
           ret == asked[Len(asked)].ret
           value == Extracts(ret, m.status)
       IN  /\ cstatus' = m.status
           /\ cbuf' = IF value THEN Rest(m.words) ELSE m.words
           /\ owes' = (m.status # "ok")
           /\ taken' = Append(taken, [of |-> m.of, status |-> m.status,
                                      val |-> IF value THEN First(m.words, Unset) ELSE Unset])
    /\ toClient' = Tail(toClient)
    /\ waiting' = FALSE
    /\ UNCHANGED <<toServer, link, asked, server>>

\* receive() on a lost connection: clear() and the status stop.
ReceiveFails ==
    /\ waiting
    /\ ~up
    /\ toClient = <<>>
    /\ cbuf' = <<>>
    /\ cstatus' = "stop"
    /\ owes' = FALSE
    /\ taken' = Append(taken, [of |-> 0, status |-> "stop", val |-> Unset])
    /\ waiting' = FALSE
    /\ UNCHANGED <<toServer, toClient, link, asked, server>>

\* The clear() of a program that looks at the status, as the example's does.
Clear ==
    /\ ~waiting
    /\ cbuf' = <<>>
    /\ owes' = FALSE
    /\ UNCHANGED <<toServer, toClient, link, cstatus, waiting, asked, taken, server>>

\* The requests the worker has taken.
Got == IF srv.pc = "dispatch" THEN Len(run) + 1 ELSE Len(run)

\* What receive() makes of a message that ends in its body: its length is known
\* from the header, and the words that have not come are what the buffer had.
CutBody(words) ==
    UNION {{SubSeq(words, 1, k) \o rest : rest \in [1..(Len(words) - k) -> Garbage]} :
               k \in 0..(Len(words) - 1)}

\* Of one that ends in its header: the length and the status are what the buffer
\* had.  Nobody takes more than two words.
CutHeader == UNION {[1..k -> Garbage] : k \in 0..2}

\* The connection ends; some of what was on the way arrives, and of the last
\* message perhaps a part.
Lose ==
    /\ up
    /\ up' = FALSE
    /\ \E i \in 0..Len(toServer) :
           \/ toServer' = SubSeq(toServer, 1, i) /\ UNCHANGED cutRequest
           \/ /\ i > 0
              /\ \E words \in CutBody(toServer[i]) \cup CutHeader :
                     toServer' = [SubSeq(toServer, 1, i) EXCEPT ![i] = words]
              /\ cutRequest' = Got + i
    /\ \E i \in 0..Len(toClient) :
           \/ toClient' = SubSeq(toClient, 1, i) /\ UNCHANGED cutAnswer
           \/ /\ i > 0
              /\ \/ \E words \in CutBody(toClient[i].words) :
                        toClient' = [SubSeq(toClient, 1, i) EXCEPT ![i].words = words]
                 \/ \E words \in CutHeader, status \in Statuses :
                        toClient' = [SubSeq(toClient, 1, i) EXCEPT ![i].words = words,
                                                                   ![i].status = status]
              /\ cutAnswer' = Len(taken) + i
    /\ UNCHANGED <<client, server>>

-----------------------------------------------------------------------------
(* The worker of the server.                                               *)

Current == Len(run)

\* A cut request is dispatched as a whole one is.
SrvReceive ==
    /\ srv.pc = "idle"
    /\ toServer # <<>>
    /\ sbuf' = Head(toServer)
    /\ sstatus' = "ok"
    /\ toServer' = Tail(toServer)
    /\ srv' = [srv EXCEPT !.pc = "dispatch"]
    /\ UNCHANGED <<toClient, link, client, run, answers>>

\* dispatch() and the function it leads to: exec() takes the argument, clears
\* the buffer, sets the status ok and calls it.
Dispatch ==
    LET id == First(sbuf, UNKNOW)
        arg == First(Rest(sbuf), Unset)
        kind == IF id \in DOMAIN Functions THEN Functions[id] ELSE "unknown"
    IN  /\ srv.pc = "dispatch"
        /\ srv' = [id |-> id, pc |-> IF kind = "unknown" THEN "again"
                                     ELSE IF kind \in {"tells", "refused"} THEN "tell" ELSE "reply"]
        /\ sstatus' = IF kind = "wrong" THEN "wrong_id" ELSE "ok"
        /\ sbuf' = IF kind = "value" THEN <<arg>> ELSE IF kind = "unknown" THEN Rest(sbuf) ELSE <<>>
        /\ run' = Append(run, [id |-> id, arg |-> arg])
        /\ answers' = Append(answers, 0)
        /\ UNCHANGED <<toServer, toClient, link, client>>

\* A message of the worker, which is lost if the connection is.
Sends(status, words) ==
    /\ toClient' = IF up THEN Append(toClient, [status |-> status, words |-> words, of |-> Current])
                         ELSE toClient
    /\ answers' = [answers EXCEPT ![Current] = @ + 1]
    /\ sbuf' = <<>>
    /\ UNCHANGED <<toServer, link, client, run>>

\* msg() with a code of the program's own; a function returns its value behind
\* it, with the code still in the status.
Tell ==
    /\ srv.pc = "tell"
    /\ Sends("user", <<Text, Text>>)
    /\ sstatus' = "user"
    /\ srv' = [srv EXCEPT !.pc = IF Functions[srv.id] = "refused" THEN "idle" ELSE "reply"]

\* Variant: any status but ok is answered again.
AgainIfNotOk(status) == status # "ok"

\* if(callback_dispatch(id, request) == Status::wrong_id)
Again(status) == status = "wrong_id"

\* The end of exec(): the result is stored and sent, the status returned.
Reply ==
    /\ srv.pc = "reply"
    /\ Sends(sstatus, IF Functions[srv.id] = "tells" THEN <<run[Current].arg>> ELSE sbuf)
    /\ srv' = [srv EXCEPT !.pc = IF Again(sstatus) THEN "again" ELSE "idle"]
    /\ UNCHANGED sstatus

\* The answer of dispatch() itself.
SendWrongId ==
    /\ srv.pc = "again"
    /\ Sends("wrong_id", <<>>)
    /\ sstatus' = "wrong_id"
    /\ srv' = [srv EXCEPT !.pc = "idle"]

Worker == SrvReceive \/ Dispatch \/ Tell \/ Reply \/ SendWrongId

Next ==
    \/ \E id \in Ids, ret \in {"value", "void"} : Call(id, ret)
    \/ Receive \/ ReceiveFails \/ Clear
    \/ Worker
    \/ Lose

Spec == Init /\ [][Next]_vars

-----------------------------------------------------------------------------
(* Properties.                                                             *)

TypeOK ==
    /\ \A i \in DOMAIN toServer : toServer[i] \in Seq(Int)
    /\ \A i \in DOMAIN toClient :
           toClient[i] \in [status : Statuses, words : Seq(Int), of : 1..MaxCalls]
    /\ up \in BOOLEAN
    /\ {cutRequest, cutAnswer} \subseteq Nat
    /\ {cbuf, sbuf} \subseteq Seq(Int)
    /\ {cstatus, sstatus} \subseteq Statuses
    /\ waiting \in BOOLEAN
    /\ srv.pc \in {"idle", "dispatch", "tell", "reply", "again"}
    /\ srv.pc \in {"tell", "reply"} => srv.id \in DOMAIN Functions
    /\ owes \in BOOLEAN
    /\ Len(asked) \in 0..MaxCalls
    /\ Len(answers) = Len(run)
    /\ Len(taken) = Len(asked) - (IF waiting THEN 1 ELSE 0)

\* How often the server answers what it took for a call of id.
Expected(id) ==
    IF id \in DOMAIN Functions /\ Functions[id] \in {"tells", "wrong"} THEN 2 ELSE 1

\* Each request is answered, and answered once; twice only if the function calls
\* msg() itself or ends with the status wrong_id.
AnsweredOnce ==
    \A n \in DOMAIN run :
        IF n = Current /\ srv.pc \in {"tell", "reply", "again"} THEN answers[n] < Expected(run[n].id)
                                                    ELSE answers[n] = Expected(run[n].id)

\* The calls that come behind one answered twice.
Behind(n) == \E m \in 1..(n - 1) : m \in DOMAIN run /\ Expected(run[m].id) = 2

\* A cut message is the last of a lost connection: no request was dispatched behind
\* it, and every later receive() has returned with the status stop.
CutLast ==
    /\ cutRequest > 0 => ~up /\ Len(run) <= cutRequest
    /\ cutAnswer > 0 => ~up /\ \A n \in DOMAIN taken : n > cutAnswer => taken[n].status = "stop"

\* A program that asks for the type a function has and clears what comes with
\* an error always reaches the function it asked for, with its argument: nothing
\* is in front of its id.  It takes the answer of its own call, and with the
\* status ok "the function called return value"; with another status the value
\* may be text, or not be set at all.  It is out of step for ever behind a call
\* that was answered twice, whose second answer the next one takes.  And one
\* request and one answer of a connection are no good, those the loss has cut: the
\* worker runs any function with any argument, the call returns any value, with
\* the status ok, too.
RightCall ==
    /\ CutLast
    /\ \A n \in 1..Len(asked) :
           (\A m \in 1..n : asked[m].careful) /\ ~Behind(n) =>
               /\ n \in DOMAIN run /\ n # cutRequest => run[n] = [id |-> asked[n].id, arg |-> n]
               /\ n \in DOMAIN taken /\ taken[n].status # "stop" =>
                      /\ taken[n].of = n
                      /\ asked[n].ret = "value" /\ taken[n].status = "ok" /\ n # cutAnswer =>
                             taken[n].val = n
=============================================================================
