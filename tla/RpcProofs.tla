----------------------------- MODULE RpcProofs -----------------------------
(***************************************************************************)
(* Proofs about Rpc for any functions, ids and number of calls.  IInv says *)
(* which call each message on the way belongs to: a request by its place   *)
(* behind those the server has taken, an answer by its place behind those  *)
(* the client has taken, as long as no call before it is answered twice.   *)
(***************************************************************************)
EXTENDS Rpc, SequenceTheorems, TLAPS

USE DEF client, server, link

\* The types of what is queued and remembered.
Asked == [id : Ids, ret : {"value", "void"}, careful : BOOLEAN]
Message == [status : Statuses, words : Seq(Int), of : 1..MaxCalls]

Shape ==
    /\ toServer \in Seq(Seq(Int))
    /\ toClient \in Seq(Message)
    /\ srv \in [pc : {"idle", "dispatch", "tell", "reply", "again"}, id : Int]
    /\ asked \in Seq(Asked)
    /\ run \in Seq([id : Int, arg : Int])
    /\ answers \in Seq(Nat)
    /\ taken \in Seq([of : 0..MaxCalls, status : Statuses, val : Int])

Kind(id) == IF id \in DOMAIN Functions THEN Functions[id] ELSE "unknown"

\* What the worker has done for the call it is at, and will do.
Doing ==
    srv.pc \in {"tell", "reply", "again"} =>
        LET kind == Kind(srv.id) n == Current
        IN  /\ n > 0
            /\ run[n].id = srv.id
            /\ srv.pc = "tell" => kind \in {"tells", "refused"} /\ answers[n] = 0
            /\ srv.pc = "reply" =>
                   \/ kind = "value" /\ answers[n] = 0 /\ sstatus = "ok" /\ sbuf = <<run[n].arg>>
                   \/ kind = "void" /\ answers[n] = 0 /\ sstatus = "ok" /\ sbuf = <<>>
                   \/ kind = "wrong" /\ answers[n] = 0 /\ sstatus = "wrong_id"
                   \/ kind = "tells" /\ answers[n] = 1 /\ sstatus = "user"
            /\ srv.pc = "again" =>
                   \/ kind = "unknown" /\ answers[n] = 0
                   \/ kind = "wrong" /\ answers[n] = 1

\* A careful program asks for the type of result the function has.
Fitting == \A n \in 1..Len(asked) : asked[n].careful => Fits(asked[n].id, asked[n].ret)

Careful(n) == \A m \in 1..n : asked[m].careful

Requests ==
    /\ Got + Len(toServer) <= Len(asked)
    /\ up => Got + Len(toServer) = Len(asked)
    /\ \A n \in 1..Len(asked) :
           Careful(n) /\ ~Behind(n) /\ n # cutRequest =>
               /\ n - Got \in 1..Len(toServer) => toServer[n - Got] = <<asked[n].id, n>>
               /\ srv.pc = "dispatch" /\ n = Got => sbuf = <<asked[n].id, n>>

\* What an answer with the status ok brings.
Right(m) ==
    m.status = "ok" =>
        \/ Kind(run[m.of].id) = "value" /\ m.words = <<run[m.of].arg>>
        \/ Kind(run[m.of].id) = "void" /\ m.words = <<>>

Sent == Len(taken) + Len(toClient)

Answers ==
    /\ \A k \in 1..Len(toClient) :
           /\ toClient[k].of \in 1..Len(run)
           /\ Len(taken) + k # cutAnswer => Right(toClient[k])
           /\ ~Behind(Len(taken) + k) => toClient[k].of = Len(taken) + k
    /\ up /\ Current = 0 => Sent = 0
    /\ up /\ Current > 0 =>
           /\ Sent >= Current - 1 + answers[Current]
           /\ ~Behind(Current) => Sent = Current - 1 + answers[Current]

\* Nothing is left in the client's buffer while the connection is there.
Emptied ==
    up /\ ~waiting /\ ~owes /\ Careful(Len(asked)) /\ ~Behind(Len(asked) + 1) => cbuf = <<>>

\* What the loss has cut is the end of its queue; the request was not taken before,
\* so no answer there is belongs to it.
Cutting ==
    /\ up => cutRequest = 0 /\ cutAnswer = 0
    /\ cutRequest # 0 => /\ Got + Len(toServer) = cutRequest
                         /\ \A k \in 1..Len(toClient) : toClient[k].of < cutRequest
    /\ cutAnswer # 0 /\ Len(toClient) > 0 => Sent = cutAnswer

\* The calls and the answers of RightCall, and the answers behind the last.
Matching ==
    \A n \in 1..Len(asked) :
        Careful(n) /\ ~Behind(n) =>
            /\ n \in DOMAIN run /\ n # cutRequest => run[n] = [id |-> asked[n].id, arg |-> n]
            /\ n \in DOMAIN taken /\ taken[n].status # "stop" =>
                   /\ taken[n].of = n
                   /\ asked[n].ret = "value" /\ taken[n].status = "ok" /\ n # cutAnswer => taken[n].val = n

Ending == cutAnswer # 0 => \A n \in DOMAIN taken : n > cutAnswer => taken[n].status = "stop"

IInv ==
    /\ TypeOK
    /\ Shape
    /\ Doing
    /\ AnsweredOnce
    /\ Fitting
    /\ Requests
    /\ Answers
    /\ Emptied
    /\ Cutting
    /\ Matching
    /\ Ending

-----------------------------------------------------------------------------
LEMMA WordsType ==
    ASSUME NEW w \in Seq(Int), NEW d \in Int
    PROVE  First(w, d) \in Int /\ Rest(w) \in Seq(Int)
  BY HeadTailProperties DEF First, Rest

LEMMA OneWord ==
    ASSUME NEW a \in Int
    PROVE  First(<<a>>, Unset) = a /\ Rest(<<a>>) = <<>>
  <1>1. Tail(<<a>>) \in Seq(Int) /\ Len(Tail(<<a>>)) = 0
    OBVIOUS
  <1>2. Tail(<<a>>) = <<>>
    BY <1>1, EmptySeq
  <1> QED
    BY <1>2 DEF First, Rest

LEMMA TwoWords ==
    ASSUME NEW a \in Int, NEW b \in Int
    PROVE  First(<<a, b>>, UNKNOW) = a /\ First(Rest(<<a, b>>), Unset) = b
  <1>1. Tail(<<a, b>>) = <<b>> /\ <<a, b>> # <<>> /\ <<b>> # <<>>
    OBVIOUS
  <1> QED
    BY <1>1 DEF First, Rest

LEMMA AskedId ==
    ASSUME IInv, NEW n \in 1..Len(asked)
    PROVE  asked[n].id \in Int
  <1>1. asked[n] \in Asked
    BY ElementOfSeq DEF IInv, Shape
  <1> PICK id \in Ids : id = asked[n].id
    BY <1>1 DEF Asked
  <1>2. id \in Int
    BY FunctionsAssumption
  <1> QED
    BY <1>2

LEMMA BehindNext ==
    ASSUME NEW n \in Nat, ~Behind(n + 1)
    PROVE  ~Behind(n)
  BY DEF Behind

LEMMA ExpectedIs ==
    ASSUME NEW id
    PROVE  Expected(id) = IF Kind(id) \in {"tells", "wrong"} THEN 2 ELSE 1
  BY DEF Expected, Kind

LEMMA InitIInv == Init => IInv
  <1> SUFFICES ASSUME Init PROVE IInv
    OBVIOUS
  <1>1. TypeOK
    <2>1. <<>> \in Seq(Int) /\ Len(<<>>) = 0 /\ DOMAIN <<>> = {}
      OBVIOUS
    <2>2. Len(asked) \in 0..MaxCalls /\ Len(taken) = Len(asked) - 0
      BY <2>1, CallsAssumption DEF Init
    <2>3. DOMAIN toServer = {} /\ DOMAIN toClient = {}
      BY <2>1 DEF Init
    <2>4. {cutRequest, cutAnswer} \subseteq Nat
      BY DEF Init
    <2>5. {cbuf, sbuf} \subseteq Seq(Int) /\ {cstatus, sstatus} \subseteq Statuses
      BY <2>1 DEF Init, Statuses
    <2>6. /\ srv.pc = "idle" /\ Len(answers) = Len(run) /\ ~waiting
          /\ up \in BOOLEAN /\ waiting \in BOOLEAN /\ owes \in BOOLEAN
      BY DEF Init
    <2> QED
      BY <2>2, <2>3, <2>4, <2>5, <2>6 DEF TypeOK
  <1>2. Shape
    BY DEF Init, Shape, UNKNOW
  <1>3. Doing /\ AnsweredOnce /\ Fitting /\ Requests /\ Answers /\ Emptied /\ Matching /\ Cutting /\ Ending
    BY DEF Init, Cutting, Ending, Fitting, Doing, AnsweredOnce, Requests, Answers, Emptied, Matching, Got, Current, Sent
  <1> QED
    BY <1>1, <1>2, <1>3 DEF IInv

-----------------------------------------------------------------------------
(* The client.                                                             *)

\* What the server has stays as it is.
Elsewhere == UNCHANGED <<sbuf, sstatus, srv, run, answers>>

LEMMA ServerKept ==
    ASSUME IInv, Elsewhere
    PROVE  Doing' /\ AnsweredOnce' /\ \A n : Behind(n)' <=> Behind(n)
  BY DEF IInv, Elsewhere, Doing, Kind, Current, AnsweredOnce, Expected, Behind

LEMMA CallKeeps ==
    ASSUME IInv, NEW id \in Ids, NEW ret \in {"value", "void"}, Call(id, ret)
    PROVE  IInv'
  <1>0. Len(asked) \in Nat
    BY DEF IInv, Shape
  <1> PICK n \in Nat : n = Len(asked) + 1
    BY <1>0
  <1> DEFINE a == [id |-> id, ret |-> ret, careful |-> ~owes /\ Fits(id, ret)]
  <1>1. /\ Len(asked) \in Nat /\ n \in 1..MaxCalls /\ id \in Int
        /\ a \in Asked /\ asked' = Append(asked, a)
        /\ ~waiting /\ waiting' = TRUE /\ cbuf' = <<>> /\ owes' = FALSE /\ cstatus' = "ok"
        /\ UNCHANGED <<toClient, link, taken>> /\ Elsewhere
    BY FunctionsAssumption DEF Call, Elsewhere, Awaited, IInv, Shape, TypeOK, Asked
  <1>2. /\ asked' \in Seq(Asked) /\ Len(asked') = n /\ asked'[n] = a
        /\ \A m \in 1..Len(asked) : asked'[m] = asked[m]
    BY <1>1 DEF IInv, Shape
  <1>3. \A m \in 1..Len(asked) : Careful(m)' <=> Careful(m)
    BY <1>1, <1>2 DEF Careful
  <1>4. Doing' /\ AnsweredOnce' /\ \A m : Behind(m)' <=> Behind(m)
    BY <1>1, ServerKept
  <1>5. /\ cbuf \o <<id, n>> \in Seq(Int)
        /\ toServer' = IF up THEN Append(toServer, cbuf \o <<id, n>>) ELSE toServer
        /\ toServer' \in Seq(Seq(Int))
    <2>1. cbuf \in Seq(Int) /\ <<id, n>> \in Seq(Int) /\ toServer \in Seq(Seq(Int))
      BY <1>1 DEF IInv, TypeOK, Shape
    <2>2. cbuf \o <<id, n>> \in Seq(Int)
      BY <2>1, ConcatProperties
    <2> QED
      BY <2>1, <2>2 DEF Call
  <1>6. TypeOK'
    <2>1. Len(taken) = n - 1 /\ n \in 0..MaxCalls
      BY <1>1 DEF IInv, TypeOK
    <2>2. \A i \in DOMAIN toServer' : toServer'[i] \in Seq(Int)
      BY <1>5
    <2>3. /\ Len(asked') \in 0..MaxCalls /\ Len(answers') = Len(run')
          /\ Len(taken') = Len(asked') - (IF waiting' THEN 1 ELSE 0)
      BY <1>1, <1>2, <2>1 DEF IInv, TypeOK, Elsewhere
    <2>4. /\ up' \in BOOLEAN /\ waiting' \in BOOLEAN /\ owes' \in BOOLEAN
          /\ {cutRequest, cutAnswer}' \subseteq Nat
          /\ cbuf' \in Seq(Int) /\ sbuf' \in Seq(Int)
          /\ cstatus' \in Statuses /\ sstatus' \in Statuses
      BY <1>1, EmptySeq DEF IInv, TypeOK, Elsewhere, Statuses
    <2>5. /\ srv'.pc \in {"idle", "dispatch", "tell", "reply", "again"}
          /\ srv'.pc \in {"tell", "reply"} => srv'.id \in DOMAIN Functions
          /\ \A i \in DOMAIN toClient' :
                 toClient'[i] \in [status : Statuses, words : Seq(Int), of : 1..MaxCalls]
      BY <1>1 DEF IInv, TypeOK, Elsewhere
    <2> QED
      BY <2>2, <2>3, <2>4, <2>5 DEF TypeOK
  <1>7. Shape'
    BY <1>1, <1>2, <1>5 DEF IInv, Shape, Elsewhere
  <1>8. /\ Got' = Got /\ Got \in Nat /\ Len(run) \in Nat /\ Len(run) <= Got
        /\ Len(toServer) \in Nat /\ Len(toServer') = IF up THEN Len(toServer) + 1 ELSE Len(toServer)
    <2>1. Got' = Got /\ Len(run) \in Nat /\ Len(run) <= Got /\ Got \in Nat
      BY <1>1 DEF Got, Elsewhere, IInv, Shape
    <2>2. Len(toServer) \in Nat /\ Len(toServer') = IF up THEN Len(toServer) + 1 ELSE Len(toServer)
      BY <1>5 DEF IInv, Shape
    <2> QED
      BY <2>1, <2>2
  <1> Got + Len(toServer) <= Len(asked) /\ (up => Got + Len(toServer) = Len(asked))
    BY DEF IInv, Requests
  <1>9. Requests'
    <2>1. Got' + Len(toServer') <= Len(asked') /\ (up' => Got' + Len(toServer') = Len(asked'))
      BY <1>1, <1>2, <1>8
    <2>2. ASSUME NEW m \in 1..Len(asked), Careful(m), ~Behind(m), m # cutRequest
          PROVE  /\ m - Got \in 1..Len(toServer') => toServer'[m - Got] = <<asked[m].id, m>>
                 /\ srv.pc = "dispatch" /\ m = Got => sbuf = <<asked[m].id, m>>
      <3>1. m - Got \in 1..Len(toServer') => m - Got \in 1..Len(toServer) /\ toServer'[m - Got] = toServer[m - Got]
        BY <1>1, <1>5, <1>8, <2>2 DEF IInv, Requests, Shape
      <3> QED
        BY <2>2, <3>1 DEF IInv, Requests
    <2>3. ASSUME \A i \in 1..n : asked'[i].careful, ~Behind(n)
          PROVE  /\ n - Got \in 1..Len(toServer') => toServer'[n - Got] = <<id, n>>
                 /\ n # Got
      <3>1. up => cbuf = <<>>
        <4>1. a.careful /\ Careful(Len(asked))
          BY <1>1, <1>2, <2>3 DEF Careful
        <4> QED
          BY <1>1, <2>3, <4>1 DEF IInv, Emptied
      <3>2. up => cbuf \o <<id, n>> = <<id, n>>
        BY <1>1, <3>1, ConcatEmptySeq
      <3>3. CASE up
        <4>1. n - Got = Len(toServer) + 1
          BY <1>1, <1>8, <3>3
        <4>2. toServer' = Append(toServer, <<id, n>>) /\ toServer \in Seq(Seq(Int))
          BY <1>5, <3>2, <3>3 DEF IInv, Shape
        <4>3. toServer'[Len(toServer) + 1] = <<id, n>>
          BY <4>2
        <4> QED
          BY <1>8, <4>1, <4>3
      <3>4. CASE ~up
        BY <1>1, <1>5, <1>8, <3>4 DEF IInv, Requests
      <3> QED
        BY <3>3, <3>4
    <2>4. ASSUME NEW m \in 1..Len(asked'), Careful(m)', ~Behind(m)', m # cutRequest'
          PROVE  /\ m - Got' \in 1..Len(toServer') => toServer'[m - Got'] = <<asked'[m].id, m>>
                 /\ srv'.pc = "dispatch" /\ m = Got' => sbuf' = <<asked'[m].id, m>>
      <3>1. CASE m = n
        <4>1. (\A i \in 1..n : asked'[i].careful) /\ ~Behind(n)
          BY <1>4, <2>4, <3>1 DEF Careful
        <4>2. asked'[n].id = id
          BY <1>2
        <4>3. /\ n - Got \in 1..Len(toServer') => toServer'[n - Got] = <<id, n>>
              /\ n # Got
          BY <2>3, <4>1
        <4> QED
          BY <1>8, <3>1, <4>2, <4>3
      <3>2. CASE m # n
        <4>1. m \in 1..Len(asked)
          BY <1>1, <1>2, <3>2
        <4> QED
          BY <1>1, <1>2, <1>3, <1>4, <1>8, <2>2, <2>4, <4>1 DEF Elsewhere
      <3> QED
        BY <3>1, <3>2
    <2> QED
      BY <2>1, <2>4 DEF Requests
  <1>10. Answers'
    BY <1>1, <1>4 DEF IInv, Answers, Right, Sent, Current, Elsewhere
  <1>11. Emptied'
    BY <1>1 DEF Emptied
  <1>12. Matching'
    <2>1. n \notin DOMAIN run /\ n \notin DOMAIN taken
      <3>1. DOMAIN run = 1..Len(run) /\ DOMAIN taken = 1..Len(taken) /\ Len(taken) = n - 1
        BY <1>1 DEF IInv, Shape, TypeOK
      <3>2. Len(run) < n
        BY <1>1, <1>8 DEF IInv, Requests
      <3>3. n \notin 1..Len(run) /\ n \notin 1..(n - 1)
        BY <1>8, <3>2
      <3> QED
        BY <3>1, <3>3
    <2>2. \A m \in 1..Len(asked) : Careful(m)' /\ ~Behind(m)' =>
              /\ m \in DOMAIN run /\ m # cutRequest => run[m] = [id |-> asked[m].id, arg |-> m]
              /\ m \in DOMAIN taken /\ taken[m].status # "stop" =>
                     /\ taken[m].of = m
                     /\ asked[m].ret = "value" /\ taken[m].status = "ok" /\ m # cutAnswer => taken[m].val = m
      BY <1>3, <1>4 DEF IInv, Matching, Careful
    <2> QED
      BY <1>1, <1>2, <2>1, <2>2 DEF Matching, Careful, Elsewhere
  <1>13. Fitting'
    <2>1. a.careful => Fits(a.id, a.ret)
      OBVIOUS
    <2> HIDE DEF a
    <2>2. \A i \in 1..n : i = n \/ i \in 1..Len(asked)
      BY <1>0
    <2> QED
      BY <1>2, <2>1, <2>2 DEF IInv, Fitting, Fits
  <1>14. Cutting' /\ Ending'
    BY <1>1, <1>8 DEF IInv, Cutting, Ending, Sent
  <1> QED
    BY <1>4, <1>6, <1>7, <1>9, <1>10, <1>11, <1>12, <1>13, <1>14 DEF IInv

\* Nothing but the client's end of the connection, its buffer and what it took.
ClientOnly == Elsewhere /\ UNCHANGED <<toServer, link, asked>>

LEMMA ClientOnlyKeeps ==
    ASSUME IInv, ClientOnly
    PROVE  /\ Doing' /\ AnsweredOnce' /\ Fitting' /\ Requests' /\ Got' = Got
           /\ \A n : (Behind(n)' <=> Behind(n)) /\ (Careful(n)' <=> Careful(n))
  <1>1. Doing' /\ AnsweredOnce' /\ \A n : Behind(n)' <=> Behind(n)
    BY ServerKept DEF ClientOnly
  <1>2. \A n : Careful(n)' <=> Careful(n)
    BY DEF ClientOnly, Careful
  <1>3. Got' = Got
    BY DEF ClientOnly, Elsewhere, Got
  <1>4. Requests'
    BY <1>1, <1>2, <1>3 DEF IInv, Requests, ClientOnly, Elsewhere
  <1>5. Fitting'
    BY DEF IInv, Fitting, Fits, ClientOnly
  <1> QED
    BY <1>1, <1>2, <1>3, <1>4, <1>5

LEMMA ReceiveKeeps ==
    ASSUME IInv, Receive
    PROVE  IInv'
  <1>1. /\ ClientOnly /\ waiting /\ waiting' = FALSE
        /\ toClient # <<>> /\ toClient' = Tail(toClient)
    BY DEF Receive, ClientOnly, Elsewhere
  <1>2. /\ Doing' /\ AnsweredOnce' /\ Fitting' /\ Requests'
        /\ \A i : (Behind(i)' <=> Behind(i)) /\ (Careful(i)' <=> Careful(i))
    BY <1>1, ClientOnlyKeeps
  <1>3. /\ toClient' \in Seq(Message) /\ Len(toClient) > 0 /\ Len(toClient') = Len(toClient) - 1
        /\ Head(toClient) \in Message /\ Head(toClient) = toClient[1]
        /\ \A k \in 1..Len(toClient') : toClient'[k] = toClient[k + 1]
        /\ Len(toClient) \in Nat
    BY <1>1, HeadTailProperties, EmptySeq DEF IInv, Shape
  <1> PICK n \in Nat : n = Len(asked)
    BY DEF IInv, Shape
  <1>4. Len(taken) = n - 1 /\ n \in 1..MaxCalls /\ asked[n] \in Asked
    BY <1>1, ElementOfSeq DEF IInv, TypeOK, Shape
  <1> PICK m \in Message : m = Head(toClient)
    BY <1>3
  <1> DEFINE value == Extracts(asked[n].ret, m.status)
             val == IF value THEN First(m.words, Unset) ELSE Unset
             t == [of |-> m.of, status |-> m.status, val |-> val]
  <1>5. /\ val \in Int /\ Rest(m.words) \in Seq(Int) /\ m.words \in Seq(Int)
    BY WordsType DEF Message, Unset
  <1>6. /\ cbuf' = IF value THEN Rest(m.words) ELSE m.words
        /\ cstatus' = m.status /\ owes' = (m.status # "ok") /\ taken' = Append(taken, t)
    BY DEF Receive
  <1>7. /\ t \in [of : 0..MaxCalls, status : Statuses, val : Int]
        /\ cbuf' \in Seq(Int) /\ m.status \in Statuses
    BY <1>5, <1>6, CallsAssumption DEF Message
  <1>8. /\ taken' \in Seq([of : 0..MaxCalls, status : Statuses, val : Int])
        /\ Len(taken') = n /\ taken'[n] = t
        /\ \A i \in 1..(n - 1) : taken'[i] = taken[i]
    <2>1. taken \in Seq([of : 0..MaxCalls, status : Statuses, val : Int])
      BY DEF IInv, Shape
    <2> HIDE DEF t
    <2> QED
      BY <1>4, <1>6, <1>7, <2>1
  <1>9. TypeOK'
    <2>1. \A i \in DOMAIN toClient' : toClient'[i] \in Message
      BY <1>3
    <2>2. Len(taken') = Len(asked') - (IF waiting' THEN 1 ELSE 0) /\ owes' \in BOOLEAN
      BY <1>1, <1>4, <1>6, <1>8 DEF ClientOnly
    <2> QED
      BY <1>1, <1>6, <1>7, <2>1, <2>2 DEF IInv, TypeOK, ClientOnly, Elsewhere, Message
  <1>10. Shape'
    BY <1>1, <1>3, <1>8 DEF IInv, Shape, ClientOnly, Elsewhere
  <1>11. Sent' = Sent
    BY <1>3, <1>4, <1>8 DEF Sent
  <1>12. Answers'
    <2>1. ASSUME NEW k \in 1..Len(toClient')
          PROVE  /\ toClient'[k].of \in 1..Len(run)
                 /\ n + k # cutAnswer => Right(toClient'[k])
                 /\ ~Behind(n + k) => toClient'[k].of = n + k
      <3>1. k + 1 \in 1..Len(toClient) /\ toClient'[k] = toClient[k + 1] /\ Len(taken) + (k + 1) = n + k
        BY <1>3, <1>4
      <3> QED
        BY <3>1 DEF IInv, Answers
    <2>2. \A x : Right(x)' <=> Right(x)
      BY <1>1 DEF Right, ClientOnly, Elsewhere
    <2>3. /\ Current' = Current /\ run' = run /\ answers' = answers /\ up' = up
          /\ cutAnswer' = cutAnswer /\ Len(taken') = n
      BY <1>1, <1>8 DEF Current, ClientOnly, Elsewhere
    <2>4. /\ up /\ Current = 0 => Sent = 0
          /\ up /\ Current > 0 =>
                 /\ Sent >= Current - 1 + answers[Current]
                 /\ ~Behind(Current) => Sent = Current - 1 + answers[Current]
      BY DEF IInv, Answers
    <2> HIDE DEF value, val, t
    <2>5. ASSUME NEW k \in 1..Len(toClient')
          PROVE  (/\ toClient[k].of \in 1..Len(run)
                  /\ Len(taken) + k # cutAnswer => Right(toClient[k])
                  /\ ~Behind(Len(taken) + k) => toClient[k].of = Len(taken) + k)'
      <3> PICK x \in Message : x = toClient'[k]
        BY <1>3
      <3> PICK i \in Nat : i = n + k
        OBVIOUS
      <3>1. x.of \in 1..Len(run) /\ (i # cutAnswer => Right(x)) /\ (~Behind(i) => x.of = i)
        BY <2>1
      <3>2. i # cutAnswer => Right(x)'
        BY <2>2, <3>1
      <3>3. ~Behind(i)' => x.of = i
        BY <1>2, <3>1
      <3> QED
        BY <2>3, <3>1, <3>2, <3>3
    <2>6. (/\ up /\ Current = 0 => Sent = 0
           /\ up /\ Current > 0 =>
                  /\ Sent >= Current - 1 + answers[Current]
                  /\ ~Behind(Current) => Sent = Current - 1 + answers[Current])'
      <3> PICK c : c = Current
        OBVIOUS
      <3>1. ~Behind(c)' <=> ~Behind(c)
        BY <1>2
      <3> QED
        BY <1>11, <2>3, <2>4, <3>1
    <2> QED
      BY <2>5, <2>6 DEF Answers
  <1>13. /\ m.of \in 1..Len(run)
         /\ n # cutAnswer => Right(m)
         /\ ~Behind(n) => m.of = n
    <2>1. 1 \in 1..Len(toClient) /\ Len(taken) + 1 = n
      BY <1>3, <1>4
    <2> QED
      BY <1>3, <2>1 DEF IInv, Answers
  <1>17. cutRequest # 0 => m.of < cutRequest
    <2>1. 1 \in 1..Len(toClient)
      BY <1>3
    <2> QED
      BY <1>3, <2>1 DEF IInv, Cutting
  <1>14. ASSUME Careful(n), ~Behind(n), m.status = "ok", n # cutAnswer
         PROVE  /\ asked[n].ret = "value" => val = n
                /\ cbuf' = <<>>
    <2>1. /\ run[n] = [id |-> asked[n].id, arg |-> n] /\ m.of = n
          /\ asked[n].careful
      <3>1. n \in DOMAIN run /\ n \in 1..Len(asked) /\ n \in 1..n
        BY <1>4, <1>13, <1>14 DEF IInv, Shape
      <3>2. n # cutRequest
        BY <1>4, <1>13, <1>14, <1>17
      <3> QED
        BY <1>13, <1>14, <3>1, <3>2 DEF IInv, Matching, Careful
    <2>2. Fits(asked[n].id, asked[n].ret)
      BY <1>4, <2>1 DEF IInv, Fitting
    <2>4. CASE Kind(asked[n].id) = "value" /\ m.words = <<n>>
      <3>1. asked[n].ret = "value"
        BY <2>2, <2>4 DEF Kind, Fits
      <3>2. value
        BY <1>14, <3>1 DEF Extracts
      <3>3. First(m.words, Unset) = n /\ Rest(m.words) = <<>>
        <4>1. First(<<n>>, Unset) = n /\ Rest(<<n>>) = <<>>
          BY OneWord
        <4> QED
          BY <2>4, <4>1
      <3> HIDE DEF value
      <3> QED
        BY <1>6, <3>2, <3>3
    <2>5. CASE Kind(asked[n].id) = "void" /\ m.words = <<>>
      <3>1. asked[n].ret = "void"
        BY <2>2, <2>5 DEF Kind, Fits
      <3> QED
        BY <1>6, <2>5, <3>1 DEF Extracts
    <2> QED
      BY <1>13, <1>14, <2>1, <2>4, <2>5 DEF Right
  <1>15. Emptied'
    <2> SUFFICES ASSUME up, ~owes', Careful(n), ~Behind(n + 1) PROVE cbuf' = <<>>
      BY <1>1, <1>2 DEF Emptied, ClientOnly
    <2>1. ~Behind(n)
      BY BehindNext
    <2>2. m.status = "ok"
      BY <1>6
    <2>3. n # cutAnswer
      BY <1>4 DEF IInv, Cutting
    <2> QED
      BY <1>14, <2>1, <2>2, <2>3
  <1>16. Matching'
    <2> SUFFICES ASSUME NEW i \in 1..n, Careful(i), ~Behind(i)
                 PROVE  /\ i \in DOMAIN run /\ i # cutRequest => run[i] = [id |-> asked[i].id, arg |-> i]
                        /\ i \in DOMAIN taken' /\ taken'[i].status # "stop" =>
                               /\ taken'[i].of = i
                               /\ asked[i].ret = "value" /\ taken'[i].status = "ok" /\ i # cutAnswer =>
                                      taken'[i].val = i
      BY <1>1, <1>2 DEF Matching, ClientOnly, Elsewhere, Careful
    <2>1. CASE i = n
      BY <1>4, <1>8, <1>13, <1>14, <2>1 DEF IInv, Matching, Careful
    <2>2. CASE i # n
      <3>1. i \in 1..(n - 1)
        BY <2>2
      <3>2. DOMAIN taken = 1..(n - 1)
        BY <1>4 DEF IInv, Shape
      <3> QED
        BY <1>8, <3>1, <3>2, ZenonT(30) DEF IInv, Matching, Careful
    <2> QED
      BY <2>1, <2>2
  <1>18. Cutting'
    <2>1. Got' = Got /\ \A k \in 1..Len(toClient') : k + 1 \in 1..Len(toClient)
      BY <1>1, <1>3, ClientOnlyKeeps
    <2>2. \A k \in 1..Len(toClient') :
              toClient'[k] = toClient[k + 1] /\ (cutRequest # 0 => toClient[k + 1].of < cutRequest)
      BY <1>3, <2>1 DEF IInv, Cutting
    <2>3. /\ up => cutRequest = 0 /\ cutAnswer = 0
          /\ cutRequest # 0 => Got + Len(toServer) = cutRequest
          /\ cutAnswer # 0 => Sent = cutAnswer
      BY <1>3 DEF IInv, Cutting
    <2> QED
      BY <1>1, <1>11, <2>1, <2>2, <2>3 DEF Cutting, ClientOnly
  <1>19. Ending'
    <2>1. cutAnswer # 0 => n <= cutAnswer
      BY <1>3, <1>4 DEF IInv, Cutting, Sent
    <2>2. DOMAIN taken' = 1..n /\ DOMAIN taken = 1..(n - 1) /\ cutAnswer \in Nat
      BY <1>4, <1>8 DEF IInv, Shape, TypeOK
    <2> QED
      BY <1>1, <1>8, <2>1, <2>2 DEF IInv, Ending, ClientOnly
  <1> QED
    BY <1>2, <1>9, <1>10, <1>12, <1>15, <1>16, <1>18, <1>19 DEF IInv

\* The client's other steps leave what it took to the calls alone, or end one
\* with the status stop.
LEMMA ReceiveFailsKeeps ==
    ASSUME IInv, ReceiveFails
    PROVE  IInv'
  <1> DEFINE t == [of |-> 0, status |-> "stop", val |-> Unset]
  <1>1. /\ ClientOnly /\ waiting /\ waiting' = FALSE /\ ~up
        /\ toClient = <<>> /\ toClient' = <<>> /\ cbuf' = <<>> /\ owes' = FALSE
        /\ cstatus' = "stop" /\ taken' = Append(taken, t)
    BY DEF ReceiveFails, ClientOnly, Elsewhere
  <1>2. /\ Doing' /\ AnsweredOnce' /\ Fitting' /\ Requests'
        /\ \A i : (Behind(i)' <=> Behind(i)) /\ (Careful(i)' <=> Careful(i))
    BY <1>1, ClientOnlyKeeps
  <1> PICK n \in Nat : n = Len(asked)
    BY DEF IInv, Shape
  <1>3. Len(taken) = n - 1 /\ n \in 1..MaxCalls
    BY <1>1 DEF IInv, TypeOK, Shape
  <1>4. /\ taken' \in Seq([of : 0..MaxCalls, status : Statuses, val : Int])
        /\ Len(taken') = n /\ taken'[n].status = "stop"
        /\ \A i \in 1..(n - 1) : taken'[i] = taken[i]
    <2>1. /\ taken \in Seq([of : 0..MaxCalls, status : Statuses, val : Int])
          /\ t \in [of : 0..MaxCalls, status : Statuses, val : Int] /\ t.status = "stop"
      BY CallsAssumption DEF IInv, Shape, Statuses, Unset
    <2> HIDE DEF t
    <2> QED
      BY <1>1, <1>3, <2>1
  <1>5. TypeOK'
    <2>1. Len(taken') = Len(asked') - (IF waiting' THEN 1 ELSE 0)
      BY <1>1, <1>4 DEF ClientOnly
    <2>2. DOMAIN toClient' = {} /\ <<>> \in Seq(Int)
      BY <1>1
    <2> QED
      BY <1>1, <2>1, <2>2 DEF IInv, TypeOK, ClientOnly, Elsewhere, Statuses
  <1>6. Shape'
    BY <1>1, <1>4 DEF IInv, Shape, ClientOnly, Elsewhere
  <1>7. Answers'
    <2>1. Len(toClient') = 0 /\ ~up'
      BY <1>1 DEF ClientOnly
    <2> QED
      BY <2>1 DEF Answers
  <1>8. Emptied'
    BY <1>1 DEF Emptied
  <1>9. Matching'
    <2> SUFFICES ASSUME NEW i \in 1..n, Careful(i), ~Behind(i)
                 PROVE  /\ i \in DOMAIN run /\ i # cutRequest => run[i] = [id |-> asked[i].id, arg |-> i]
                        /\ i \in DOMAIN taken' /\ taken'[i].status # "stop" =>
                               /\ taken'[i].of = i
                               /\ asked[i].ret = "value" /\ taken'[i].status = "ok" /\ i # cutAnswer =>
                                      taken'[i].val = i
      BY <1>1, <1>2 DEF Matching, ClientOnly, Elsewhere, Careful
    <2>1. CASE i = n
      BY <1>4, <2>1 DEF IInv, Matching, Careful
    <2>2. CASE i # n
      <3>1. i \in 1..(n - 1)
        BY <2>2
      <3>2. DOMAIN taken = 1..(n - 1)
        BY <1>3 DEF IInv, Shape
      <3> QED
        BY <1>4, <3>1, <3>2, ZenonT(30) DEF IInv, Matching, Careful
    <2> QED
      BY <2>1, <2>2
  <1>10. Cutting'
    <2>1. Got' = Got /\ Len(toClient') = 0
      BY <1>1, ClientOnlyKeeps
    <2> QED
      BY <1>1, <2>1 DEF IInv, Cutting, ClientOnly
  <1>11. Ending'
    <2>1. DOMAIN taken' = 1..n /\ DOMAIN taken = 1..(n - 1)
      BY <1>3, <1>4 DEF IInv, Shape
    <2> QED
      BY <1>1, <1>4, <2>1 DEF IInv, Ending, ClientOnly
  <1> QED
    BY <1>2, <1>5, <1>6, <1>7, <1>8, <1>9, <1>10, <1>11 DEF IInv

LEMMA ClearKeeps ==
    ASSUME IInv, Clear
    PROVE  IInv'
  <1>1. ClientOnly /\ cbuf' = <<>> /\ owes' = FALSE /\ UNCHANGED <<toClient, taken, waiting, cstatus>>
    BY DEF Clear, ClientOnly, Elsewhere
  <1>2. /\ Doing' /\ AnsweredOnce' /\ Fitting' /\ Requests'
        /\ \A i : (Behind(i)' <=> Behind(i)) /\ (Careful(i)' <=> Careful(i))
    BY <1>1, ClientOnlyKeeps
  <1>3. TypeOK'
    BY <1>1, EmptySeq DEF IInv, TypeOK, ClientOnly, Elsewhere
  <1>4. Shape'
    BY <1>1 DEF IInv, Shape, ClientOnly, Elsewhere
  <1>5. Answers'
    BY <1>1, <1>2 DEF IInv, Answers, Right, Kind, Sent, Current, ClientOnly, Elsewhere
  <1>6. Emptied' /\ Matching'
    BY <1>1, <1>2 DEF IInv, Emptied, Matching, Careful, ClientOnly, Elsewhere
  <1>7. Cutting' /\ Ending'
    <2>1. Got' = Got
      BY <1>1, ClientOnlyKeeps
    <2> QED
      BY <1>1, <2>1 DEF IInv, Cutting, Ending, Sent, ClientOnly
  <1> QED
    BY <1>2, <1>3, <1>4, <1>5, <1>6, <1>7 DEF IInv

\* Words there are in the buffer are words.
LEMMA GarbageFunctions ==
    ASSUME NEW S, NEW f \in [S -> Garbage]
    PROVE  f \in [S -> Int]
  <1>1. \A x \in S : f[x] \in Int
    BY GarbageAssumption
  <1> QED
    BY <1>1

\* The words of a cut message.
LEMMA CutWords ==
    /\ \A words \in Seq(Int) : CutBody(words) \subseteq Seq(Int)
    /\ CutHeader \subseteq Seq(Int)
  <1>1. ASSUME NEW words \in Seq(Int), NEW k \in 0..(Len(words) - 1),
               NEW rest \in [1..(Len(words) - k) -> Garbage]
        PROVE  SubSeq(words, 1, k) \o rest \in Seq(Int)
    <2>1. Len(words) - k \in Nat /\ k \in 0..Len(words)
      BY LenProperties
    <2>2. rest \in [1..(Len(words) - k) -> Int]
      BY GarbageFunctions
    <2>3. rest \in Seq(Int)
      <3>1. \E n \in Nat : rest \in [1..n -> Int]
        BY <2>1, <2>2
      <3> QED
        BY <3>1, SeqDef
    <2>4. SubSeq(words, 1, k) \in Seq(Int)
      BY <2>1, SubSeqProperties
    <2> QED
      BY <2>3, <2>4, ConcatProperties
  <1>2. ASSUME NEW k \in 0..2, NEW words \in [1..k -> Garbage]
        PROVE  words \in Seq(Int)
    <2>1. words \in [1..k -> Int] /\ k \in Nat
      BY GarbageFunctions
    <2> QED
      BY <2>1, SeqDef
  <1>3. ASSUME NEW words \in Seq(Int), NEW cut \in CutBody(words)
        PROVE  cut \in Seq(Int)
    <2>1. PICK k \in 0..(Len(words) - 1) :
              \E rest \in [1..(Len(words) - k) -> Garbage] : cut = SubSeq(words, 1, k) \o rest
      BY Zenon DEF CutBody
    <2> QED
      BY <1>1, <2>1, Zenon
  <1>4. ASSUME NEW cut \in CutHeader
        PROVE  cut \in Seq(Int)
    <2>1. PICK k \in 0..2 : cut \in [1..k -> Garbage]
      BY Zenon DEF CutHeader
    <2> QED
      BY <1>2, <2>1, Zenon
  <1> QED
    BY <1>3, <1>4

\* What a queue is cut to.
Cut(q, i, m) == [SubSeq(q, 1, i) EXCEPT ![i] = m]

IsCut(c, q, i, m, T) ==
    /\ c \in Seq(T)
    /\ Len(c) = i
    /\ \A k \in 1..i : c[k] = IF k = i THEN m ELSE q[k]

LEMMA CutQueue ==
    ASSUME NEW T, NEW q \in Seq(T), NEW i \in 1..Len(q), NEW m \in T
    PROVE  IsCut(Cut(q, i, m), q, i, m, T)
  <1>1. ASSUME NEW s \in Seq(T), i \in 1..Len(s)
        PROVE  /\ [s EXCEPT ![i] = m] \in Seq(T)
               /\ Len([s EXCEPT ![i] = m]) = Len(s)
               /\ \A k \in 1..Len(s) : [s EXCEPT ![i] = m][k] = IF k = i THEN m ELSE s[k]
    BY <1>1, ExceptSeq
  <1>2. /\ SubSeq(q, 1, i) \in Seq(T) /\ Len(SubSeq(q, 1, i)) = i
        /\ \A k \in 1..i : SubSeq(q, 1, i)[k] = q[k]
    BY SubSeqProperties
  <1>3. i \in 1..Len(SubSeq(q, 1, i))
    BY <1>2
  <1>4. /\ Cut(q, i, m) \in Seq(T)
        /\ Len(Cut(q, i, m)) = Len(SubSeq(q, 1, i))
        /\ \A k \in 1..Len(SubSeq(q, 1, i)) :
               Cut(q, i, m)[k] = IF k = i THEN m ELSE SubSeq(q, 1, i)[k]
    BY <1>1, <1>2, <1>3, Zenon DEF Cut
  <1> QED
    BY <1>2, <1>4 DEF IsCut

\* What is lost is the end of both queues; the last message of each may be cut.
LEMMA LoseKeeps ==
    ASSUME IInv, Lose
    PROVE  IInv'
  <1>1. Elsewhere /\ UNCHANGED <<cbuf, cstatus, waiting, owes, asked, taken>> /\ ~up' /\ up' \in BOOLEAN
    BY DEF Lose, Elsewhere
  <1>2. /\ Doing' /\ AnsweredOnce' /\ \A n : (Behind(n)' <=> Behind(n)) /\ (Careful(n)' <=> Careful(n))
    BY <1>1, ServerKept DEF Careful
  <1>3. /\ toServer \in Seq(Seq(Int)) /\ toClient \in Seq(Message)
        /\ Len(toServer) \in Nat /\ Len(toClient) \in Nat
        /\ cutRequest = 0 /\ cutAnswer = 0
    BY DEF IInv, Shape, Lose, Cutting
  <1>8. Got' = Got /\ Got \in Nat /\ Len(run) <= Got /\ Len(run) \in Nat /\ Len(asked) \in Nat /\ Len(taken) \in Nat
    BY <1>1 DEF Got, Elsewhere, IInv, Shape
  <1>4. /\ toServer' \in Seq(Seq(Int)) /\ Len(toServer') \in 0..Len(toServer)
        /\ cutRequest' # 0 => Got + Len(toServer') = cutRequest' /\ Len(toServer') > 0
        /\ cutRequest' \in Nat
        /\ \A i \in 1..Len(toServer') : Got + i # cutRequest' => toServer'[i] = toServer[i]
    <2>1. CASE \E i \in 0..Len(toServer) : toServer' = SubSeq(toServer, 1, i) /\ UNCHANGED cutRequest
      BY <1>3, <2>1, SubSeqProperties
    <2>2. ASSUME NEW i \in 1..Len(toServer), NEW words \in CutBody(toServer[i]) \cup CutHeader,
                 toServer' = [SubSeq(toServer, 1, i) EXCEPT ![i] = words], cutRequest' = Got + i
          PROVE  /\ toServer' \in Seq(Seq(Int)) /\ Len(toServer') \in 0..Len(toServer)
                 /\ cutRequest' # 0 => Got + Len(toServer') = cutRequest' /\ Len(toServer') > 0
                 /\ cutRequest' \in Nat
                 /\ \A k \in 1..Len(toServer') : Got + k # cutRequest' => toServer'[k] = toServer[k]
      <3>1. words \in Seq(Int)
        BY <1>3, CutWords
      <3>2. /\ toServer' \in Seq(Seq(Int)) /\ Len(toServer') = i
            /\ \A k \in 1..i : k # i => toServer'[k] = toServer[k]
        <4> PICK q : q = toServer
          OBVIOUS
        <4>1. q \in Seq(Seq(Int)) /\ i \in 1..Len(q)
          BY <1>3
        <4>2. toServer' = Cut(q, i, words)
          BY <2>2, Zenon DEF Cut
        <4>3. IsCut(toServer', q, i, words, Seq(Int))
          BY <3>1, <4>1, <4>2, CutQueue, Zenon
        <4> QED
          BY <4>3 DEF IsCut
      <3> QED
        BY <1>3, <1>8, <2>2, <3>2
    <2>3. \A i \in 0..Len(toServer) : i > 0 => i \in 1..Len(toServer)
      BY <1>3
    <2> QED
      BY <2>1, <2>2, <2>3 DEF Lose
  <1>5. /\ toClient' \in Seq(Message) /\ Len(toClient') \in 0..Len(toClient)
        /\ cutAnswer' # 0 => Len(taken) + Len(toClient') = cutAnswer' /\ Len(toClient') > 0
        /\ cutAnswer' \in Nat
        /\ \A i \in 1..Len(toClient') :
               /\ toClient'[i].of = toClient[i].of
               /\ Len(taken) + i # cutAnswer' => toClient'[i] = toClient[i]
    <2>1. CASE \E i \in 0..Len(toClient) : toClient' = SubSeq(toClient, 1, i) /\ UNCHANGED cutAnswer
      BY <1>3, <2>1, SubSeqProperties
    <2>2. ASSUME NEW i \in 1..Len(toClient), NEW m \in Message, m.of = toClient[i].of,
                 toClient' = [SubSeq(toClient, 1, i) EXCEPT ![i] = m], cutAnswer' = Len(taken) + i
          PROVE  /\ toClient' \in Seq(Message) /\ Len(toClient') \in 0..Len(toClient)
                 /\ cutAnswer' # 0 => Len(taken) + Len(toClient') = cutAnswer' /\ Len(toClient') > 0
                 /\ cutAnswer' \in Nat
                 /\ \A k \in 1..Len(toClient') :
                        /\ toClient'[k].of = toClient[k].of
                        /\ Len(taken) + k # cutAnswer' => toClient'[k] = toClient[k]
      <3>1. /\ toClient' \in Seq(Message) /\ Len(toClient') = i /\ toClient'[i] = m
            /\ \A k \in 1..i : k # i => toClient'[k] = toClient[k]
        <4> PICK q : q = toClient
          OBVIOUS
        <4>1. q \in Seq(Message) /\ i \in 1..Len(q)
          BY <1>3
        <4>2. toClient' = Cut(q, i, m)
          BY <2>2, Zenon DEF Cut
        <4>3. IsCut(toClient', q, i, m, Message)
          BY <4>1, <4>2, CutQueue, Zenon
        <4> QED
          BY <4>3 DEF IsCut
      <3> QED
        BY <1>3, <1>8, <2>2, <3>1
    <2>3. ASSUME NEW i \in 0..Len(toClient), i > 0,
                 \/ \E words \in CutBody(toClient[i].words) :
                        toClient' = [SubSeq(toClient, 1, i) EXCEPT ![i].words = words]
                 \/ \E words \in CutHeader, status \in Statuses :
                        toClient' = [SubSeq(toClient, 1, i) EXCEPT ![i].words = words,
                                                                   ![i].status = status]
          PROVE  \E m \in Message : /\ m.of = toClient[i].of
                                    /\ toClient' = [SubSeq(toClient, 1, i) EXCEPT ![i] = m]
      <3>1. i \in 1..Len(toClient) /\ toClient[i] \in Message
        BY <1>3, <2>3
      <3>2. SubSeq(toClient, 1, i)[i] = toClient[i] /\ i \in DOMAIN SubSeq(toClient, 1, i)
        BY <1>3, <3>1, SubSeqProperties
      <3>3. toClient[i].words \in Seq(Int)
        BY <3>1 DEF Message
      <3> DEFINE Made(status, words) == [status |-> status, words |-> words, of |-> toClient[i].of]
      <3>4. \A status \in Statuses, words \in Seq(Int) : Made(status, words) \in Message
        BY <3>1 DEF Message
      <3>5. toClient[i] = [status |-> toClient[i].status, words |-> toClient[i].words, of |-> toClient[i].of]
            /\ toClient[i].status \in Statuses
        BY <3>1 DEF Message
      <3>6. ASSUME NEW words \in CutBody(toClient[i].words),
                   toClient' = [SubSeq(toClient, 1, i) EXCEPT ![i].words = words]
            PROVE  \E m \in Message : /\ m.of = toClient[i].of
                                      /\ toClient' = [SubSeq(toClient, 1, i) EXCEPT ![i] = m]
        <4>1. words \in Seq(Int)
          BY <3>3, CutWords
        <4>2. [toClient[i] EXCEPT !.words = words] = Made(toClient[i].status, words)
          BY <3>5
        <4>3. toClient' = [SubSeq(toClient, 1, i) EXCEPT ![i] = Made(toClient[i].status, words)]
          BY <3>2, <3>6, <4>2
        <4> QED
          BY <3>4, <3>5, <4>1, <4>3
      <3>7. ASSUME NEW words \in CutHeader, NEW status \in Statuses,
                   toClient' = [SubSeq(toClient, 1, i) EXCEPT ![i].words = words, ![i].status = status]
            PROVE  \E m \in Message : /\ m.of = toClient[i].of
                                      /\ toClient' = [SubSeq(toClient, 1, i) EXCEPT ![i] = m]
        <4>1. words \in Seq(Int)
          BY CutWords
        <4> PICK one : one = [toClient[i] EXCEPT !.words = words]
          OBVIOUS
        <4>2. one = Made(toClient[i].status, words)
          BY <3>5
        <4>3. [one EXCEPT !.status = status] = Made(status, words)
          <5> PICK st, of : st = toClient[i].status /\ of = toClient[i].of
            OBVIOUS
          <5>1. one = [status |-> st, words |-> words, of |-> of]
            BY <4>2
          <5>2. [[status |-> st, words |-> words, of |-> of] EXCEPT !.status = status]
                    = [status |-> status, words |-> words, of |-> of]
            OBVIOUS
          <5> QED
            BY <5>1, <5>2, Zenon
        <4> PICK s : s = SubSeq(toClient, 1, i)
          OBVIOUS
        <4>4. [s EXCEPT ![i].words = words] = [s EXCEPT ![i] = one]
          BY <3>2
        <4>5. toClient' = [[s EXCEPT ![i] = one] EXCEPT ![i].status = status]
          BY <3>7, <4>4
        <4>6. toClient' = [s EXCEPT ![i] = Made(status, words)]
          BY <3>2, <4>3, <4>5
        <4> QED
          BY <3>4, <4>1, <4>6
      <3> QED
        BY <2>3, <3>6, <3>7
    <2>4. PICK i \in 0..Len(toClient) :
              \/ toClient' = SubSeq(toClient, 1, i) /\ UNCHANGED cutAnswer
              \/ /\ i > 0
                 /\ \/ \E words \in CutBody(toClient[i].words) :
                           toClient' = [SubSeq(toClient, 1, i) EXCEPT ![i].words = words]
                    \/ \E words \in CutHeader, status \in Statuses :
                           toClient' = [SubSeq(toClient, 1, i) EXCEPT ![i].words = words,
                                                                      ![i].status = status]
                 /\ cutAnswer' = Len(taken) + i
      BY Zenon DEF Lose
    <2>5. CASE toClient' = SubSeq(toClient, 1, i) /\ UNCHANGED cutAnswer
      BY <2>1, <2>5
    <2>6. ASSUME i > 0, cutAnswer' = Len(taken) + i,
                 \/ \E words \in CutBody(toClient[i].words) :
                        toClient' = [SubSeq(toClient, 1, i) EXCEPT ![i].words = words]
                 \/ \E words \in CutHeader, status \in Statuses :
                        toClient' = [SubSeq(toClient, 1, i) EXCEPT ![i].words = words,
                                                                   ![i].status = status]
          PROVE  \E m \in Message : /\ i \in 1..Len(toClient) /\ m.of = toClient[i].of
                                    /\ toClient' = [SubSeq(toClient, 1, i) EXCEPT ![i] = m]
      <3>1. i \in 1..Len(toClient)
        BY <1>3, <2>6
      <3> QED
        BY <2>3, <2>6, <3>1, Zenon
    <2> QED
      BY <2>2, <2>4, <2>5, <2>6, Zenon
  <1>6. TypeOK'
    <2>1. (\A i \in DOMAIN toServer' : toServer'[i] \in Seq(Int)) /\ \A i \in DOMAIN toClient' : toClient'[i] \in Message
      BY <1>4, <1>5
    <2> QED
      BY <1>1, <1>4, <1>5, <2>1 DEF IInv, TypeOK, Elsewhere, Message
  <1>7. Shape'
    BY <1>1, <1>4, <1>5 DEF IInv, Shape, Elsewhere
  <1>9. Requests'
    <2>1. Got + Len(toServer') <= Len(asked)
      BY <1>3, <1>4, <1>8 DEF IInv, Requests
    <2>2. ASSUME NEW n \in 1..Len(asked), n # cutRequest', n - Got \in 1..Len(toServer')
          PROVE  n - Got \in 1..Len(toServer) /\ toServer'[n - Got] = toServer[n - Got]
      <3>1. Got + (n - Got) = n /\ n - Got \in 1..Len(toServer)
        BY <1>3, <1>4, <1>8, <2>2
      <3> QED
        BY <1>4, <2>2, <3>1
    <2>3. ASSUME NEW n \in 1..Len(asked), Careful(n), ~Behind(n), n # cutRequest'
          PROVE  /\ n - Got \in 1..Len(toServer') => toServer'[n - Got] = <<asked[n].id, n>>
                 /\ srv.pc = "dispatch" /\ n = Got => sbuf = <<asked[n].id, n>>
      <3>1. n # cutRequest
        BY <1>3
      <3>2. /\ n - Got \in 1..Len(toServer) => toServer[n - Got] = <<asked[n].id, n>>
            /\ srv.pc = "dispatch" /\ n = Got => sbuf = <<asked[n].id, n>>
        BY <2>3, <3>1 DEF IInv, Requests
      <3> QED
        BY <2>2, <2>3, <3>2
    <2> QED
      BY <1>1, <1>2, <1>8, <2>1, <2>3 DEF Requests, Elsewhere
  <1>10. Answers'
    <2>1. \A k \in 1..Len(toClient') : k \in 1..Len(toClient)
      BY <1>3, <1>5
    <2>2. \A m : Right(m)' <=> Right(m)
      BY <1>1 DEF Right, Elsewhere
    <2>3. ASSUME NEW k \in 1..Len(toClient')
          PROVE  /\ toClient'[k].of \in 1..Len(run)
                 /\ Len(taken) + k # cutAnswer' => Right(toClient'[k])
                 /\ ~Behind(Len(taken) + k) => toClient'[k].of = Len(taken) + k
      <3>1. /\ toClient[k].of \in 1..Len(run) /\ Right(toClient[k])
            /\ ~Behind(Len(taken) + k) => toClient[k].of = Len(taken) + k
        <4>1. Len(taken) + k # cutAnswer
          BY <1>3, <1>8, <2>1
        <4> QED
          BY <2>1, <4>1 DEF IInv, Answers
      <3> QED
        BY <1>5, <3>1
    <2> QED
      BY <1>1, <1>2, <2>2, <2>3 DEF Answers, Elsewhere
  <1>11. Emptied' /\ Fitting'
    BY <1>1, <1>2 DEF IInv, Emptied, Fitting, Fits, Elsewhere
  <1>12. Matching'
    <2> SUFFICES ASSUME NEW n \in 1..Len(asked), Careful(n), ~Behind(n)
                 PROVE  /\ n \in DOMAIN run => run[n] = [id |-> asked[n].id, arg |-> n]
                        /\ n \in DOMAIN taken /\ taken[n].status # "stop" =>
                               /\ taken[n].of = n
                               /\ asked[n].ret = "value" /\ taken[n].status = "ok" => taken[n].val = n
      BY <1>1, <1>2 DEF Matching, Elsewhere, Careful
    <2>1. n # cutRequest /\ n # cutAnswer
      BY <1>3
    <2> QED
      BY <2>1 DEF IInv, Matching
  <1>13. Cutting'
    <2>1. \A k \in 1..Len(toClient') : toClient'[k].of = toClient[k].of /\ toClient[k].of \in 1..Len(run)
      BY <1>3, <1>5 DEF IInv, Answers
    <2>2. cutRequest' # 0 => cutRequest' > Len(run)
      BY <1>4, <1>8
    <2>3. Sent' = Len(taken) + Len(toClient')
      BY <1>1 DEF Sent
    <2>4. ASSUME NEW k \in 1..Len(toClient'), cutRequest' # 0
          PROVE  toClient'[k].of < cutRequest'
      <3> PICK c \in Nat : c = cutRequest'
        BY <1>4
      <3> PICK x \in 1..Len(run) : x = toClient'[k].of
        BY <2>1
      <3> QED
        BY <1>8, <2>2, <2>4
    <2> QED
      BY <1>1, <1>4, <1>5, <1>8, <2>3, <2>4 DEF Cutting
  <1>14. Ending'
    <2>1. ASSUME cutAnswer' # 0, NEW n \in DOMAIN taken PROVE ~(n > cutAnswer')
      BY <1>5, <1>8, <2>1 DEF IInv, Shape
    <2> QED
      BY <1>1, <2>1 DEF Ending
  <1> QED
    BY <1>2, <1>6, <1>7, <1>9, <1>10, <1>11, <1>12, <1>13, <1>14 DEF IInv

-----------------------------------------------------------------------------
(* The worker of the server.                                               *)

\* What the client has stays as it is.
ClientKept == UNCHANGED <<cbuf, cstatus, waiting, owes, asked, taken, link>>

LEMMA SrvReceiveKeeps ==
    ASSUME IInv, SrvReceive
    PROVE  IInv'
  <1>1. /\ ClientKept /\ UNCHANGED <<toClient, run, answers>> /\ srv.pc = "idle" /\ toServer # <<>>
        /\ sbuf' = Head(toServer) /\ sstatus' = "ok" /\ toServer' = Tail(toServer)
        /\ srv' = [srv EXCEPT !.pc = "dispatch"]
    BY DEF SrvReceive, ClientKept
  <1>2. /\ toServer' \in Seq(Seq(Int)) /\ Len(toServer) > 0 /\ Len(toServer') = Len(toServer) - 1
        /\ sbuf' = toServer[1] /\ sbuf' \in Seq(Int) /\ Len(toServer) \in Nat
        /\ \A k \in 1..Len(toServer') : toServer'[k] = toServer[k + 1]
    BY <1>1, HeadTailProperties, EmptySeq DEF IInv, Shape
  <1>3. srv'.pc = "dispatch" /\ srv' \in [pc : {"idle", "dispatch", "tell", "reply", "again"}, id : Int]
    BY <1>1 DEF IInv, Shape
  <1>4. \A n : (Behind(n)' <=> Behind(n)) /\ (Careful(n)' <=> Careful(n))
    BY <1>1 DEF Behind, Careful, ClientKept
  <1>5. Doing' /\ AnsweredOnce'
    BY <1>1, <1>3 DEF IInv, Doing, AnsweredOnce, Current
  <1>6. TypeOK'
    <2>1. \A i \in DOMAIN toServer' : toServer'[i] \in Seq(Int)
      BY <1>2
    <2> QED
      BY <1>1, <1>2, <1>3, <2>1 DEF IInv, TypeOK, ClientKept, Statuses
  <1>7. Shape'
    BY <1>1, <1>2, <1>3 DEF IInv, Shape, ClientKept
  <1>8. Got' = Got + 1 /\ Got \in Nat /\ Got = Len(run) /\ Len(asked) \in Nat
    BY <1>1, <1>3 DEF Got, IInv, Shape
  <1>9. Requests'
    <2>1. Got' + Len(toServer') = Got + Len(toServer)
      BY <1>2, <1>8
    <2>2. ASSUME NEW n \in 1..Len(asked), Careful(n), ~Behind(n), n # cutRequest
          PROVE  /\ n - Got' \in 1..Len(toServer') => toServer'[n - Got'] = <<asked[n].id, n>>
                 /\ n = Got' => sbuf' = <<asked[n].id, n>>
      <3>1. n - Got \in 1..Len(toServer) => toServer[n - Got] = <<asked[n].id, n>>
        BY <2>2 DEF IInv, Requests
      <3>2. n - Got' \in 1..Len(toServer') =>
                n - Got \in 1..Len(toServer) /\ toServer'[n - Got'] = toServer[n - Got]
        <4> SUFFICES ASSUME n - Got' \in 1..Len(toServer')
                     PROVE  n - Got \in 1..Len(toServer) /\ toServer'[n - Got'] = toServer[n - Got]
          OBVIOUS
        <4> PICK k \in 1..Len(toServer') : k = n - Got'
          OBVIOUS
        <4>1. n - Got = k + 1 /\ k + 1 \in 1..Len(toServer)
          BY <1>2, <1>8
        <4> QED
          BY <1>2, <4>1
      <3>3. n = Got' => n - Got = 1 /\ 1 \in 1..Len(toServer)
        BY <1>2, <1>8
      <3> QED
        BY <1>2, <3>1, <3>2, <3>3
    <2> QED
      BY <1>1, <1>4, <2>1, <2>2 DEF IInv, Requests, ClientKept
  <1>10. Answers'
    BY <1>1, <1>4 DEF IInv, Answers, Right, Kind, Sent, Current, ClientKept
  <1>11. Emptied' /\ Matching' /\ Fitting'
    BY <1>1, <1>4 DEF IInv, Emptied, Matching, Fitting, Fits, Careful, ClientKept
  <1>12. Cutting' /\ Ending'
    <2>1. Got' + Len(toServer') = Got + Len(toServer)
      BY <1>2, <1>8
    <2> QED
      BY <1>1, <2>1 DEF IInv, Cutting, Ending, Sent, ClientKept
  <1> QED
    BY <1>5, <1>6, <1>7, <1>9, <1>10, <1>11, <1>12 DEF IInv

LEMMA DispatchKeeps ==
    ASSUME IInv, Dispatch
    PROVE  IInv'
  <1> DEFINE id == First(sbuf, UNKNOW)
             arg == First(Rest(sbuf), Unset)
             kind == Kind(id)
             r == [id |-> id, arg |-> arg]
             BehindNow(x) == \E m \in 1..(x - 1) : m \in DOMAIN run' /\ Expected(run'[m].id) = 2
  <1> PICK n \in Nat : n = Len(run) + 1
    BY DEF IInv, Shape
  <1>1. /\ ClientKept /\ UNCHANGED <<toServer, toClient>> /\ srv.pc = "dispatch"
        /\ srv' = [id |-> id, pc |-> IF kind = "unknown" THEN "again"
                                     ELSE IF kind \in {"tells", "refused"} THEN "tell" ELSE "reply"]
        /\ sstatus' = IF kind = "wrong" THEN "wrong_id" ELSE "ok"
        /\ sbuf' = IF kind = "value" THEN <<arg>> ELSE IF kind = "unknown" THEN Rest(sbuf) ELSE <<>>
        /\ run' = Append(run, r) /\ answers' = Append(answers, 0)
    BY DEF Dispatch, Kind, ClientKept
  <1>2. id \in Int /\ arg \in Int /\ sbuf' \in Seq(Int)
    <2>1. sbuf \in Seq(Int)
      BY DEF IInv, TypeOK
    <2>a. UNKNOW \in Int /\ Unset \in Int
      BY DEF UNKNOW, Unset
    <2>b. id \in Int /\ Rest(sbuf) \in Seq(Int)
      BY <2>1, <2>a, WordsType
    <2>2. id \in Int /\ Rest(sbuf) \in Seq(Int) /\ arg \in Int
      BY <2>a, <2>b, WordsType
    <2>3. <<arg>> \in Seq(Int) /\ <<>> \in Seq(Int)
      BY <2>2
    <2> HIDE DEF kind, id, arg
    <2> QED
      BY <1>1, <2>2, <2>3
  <1>3. kind # "unknown" => id \in DOMAIN Functions /\ kind = Functions[id] /\ kind \in Kinds
    BY FunctionsAssumption DEF Kind, Kinds
  <1>4. /\ Len(run) \in Nat /\ Len(answers) = Len(run)
        /\ run \in Seq([id : Int, arg : Int]) /\ answers \in Seq(Nat) /\ r \in [id : Int, arg : Int]
    BY <1>2 DEF IInv, TypeOK, Shape
  <1> HIDE DEF id, arg, kind
  <1>5. /\ run' \in Seq([id : Int, arg : Int]) /\ Len(run') = n /\ run'[n] = r
        /\ answers' \in Seq(Nat) /\ Len(answers') = n /\ answers'[n] = 0
        /\ \A m \in 1..Len(run) : run'[m] = run[m] /\ answers'[m] = answers[m]
    BY <1>1, <1>4
  <1>6. srv' \in [pc : {"tell", "reply", "again"}, id : Int] /\ srv'.pc # "dispatch" /\ Current' = n
    BY <1>1, <1>2, <1>5 DEF Current
  <1>7. \A x : (Careful(x)' <=> Careful(x)) /\ (Behind(x) => Behind(x)') /\ (Behind(x) => BehindNow(x))
    <2>1. DOMAIN run = 1..Len(run) /\ DOMAIN run' = 1..n /\ 1..Len(run) \subseteq 1..n
      BY <1>4, <1>5
    <2> QED
      BY <1>1, <1>5, <2>1 DEF Careful, Behind, ClientKept
  <1>8. TypeOK'
    <2>1. srv'.pc \in {"tell", "reply"} => srv'.id \in DOMAIN Functions
      BY <1>1, <1>3
    <2>2. Len(answers') = Len(run') /\ sstatus' \in Statuses
      BY <1>1, <1>5 DEF Statuses
    <2> QED
      BY <1>1, <1>2, <1>6, <2>1, <2>2 DEF IInv, TypeOK, ClientKept
  <1>9. Shape'
    BY <1>1, <1>5, <1>6 DEF IInv, Shape, ClientKept
  <1>10. Doing'
    <2>1. srv'.id = id /\ Kind(srv'.id) = kind /\ run'[n].id = id /\ run'[n].arg = arg
      BY <1>1, <1>5 DEF kind
    <2>2. CASE kind = "unknown"
      BY <1>1, <1>5, <1>6, <2>1, <2>2 DEF Doing
    <2>3. CASE kind \in {"tells", "refused"}
      BY <1>1, <1>5, <1>6, <2>1, <2>3 DEF Doing
    <2>4. CASE kind \in {"value", "void", "wrong"}
      BY <1>1, <1>5, <1>6, <2>1, <2>4 DEF Doing
    <2> QED
      BY <1>3, <2>2, <2>3, <2>4 DEF Kinds
  <1>11. AnsweredOnce'
    <2>1. ASSUME NEW m \in 1..Len(run) PROVE answers'[m] = Expected(run'[m].id)
      <3>1. m \in DOMAIN run
        BY <1>4
      <3>2. answers'[m] = answers[m] /\ run'[m] = run[m]
        BY <1>5
      <3> QED
        BY <1>1, <3>1, <3>2 DEF IInv, AnsweredOnce
    <2>2. answers'[n] < Expected(run'[n].id)
      BY <1>5 DEF Expected
    <2>3. \A m \in DOMAIN run' : m = n \/ (m \in 1..Len(run) /\ m # n)
      BY <1>4, <1>5, SMTT(30)
    <2> QED
      BY <1>6, <2>1, <2>2, <2>3 DEF AnsweredOnce, Expected
  <1>12. Fitting' /\ Emptied'
    BY <1>1, <1>7 DEF IInv, Fitting, Fits, Emptied, ClientKept
  <1>13. Got' = Got /\ Got = n
    BY <1>1, <1>5, <1>6 DEF Got
  <1>14. Requests'
    BY <1>1, <1>6, <1>7, <1>13 DEF IInv, Requests, ClientKept
  <1>15. Answers'
    <2>1. ASSUME NEW k \in 1..Len(toClient)
          PROVE  /\ toClient[k].of \in 1..n
                 /\ Len(taken) + k # cutAnswer => Right(toClient[k])'
                 /\ ~BehindNow(Len(taken) + k) => toClient[k].of = Len(taken) + k
      <3>1. toClient[k].of \in 1..Len(run) /\ (Len(taken) + k # cutAnswer => Right(toClient[k]))
        BY DEF IInv, Answers
      <3>2. toClient[k].of \in 1..n /\ run'[toClient[k].of] = run[toClient[k].of]
        <4>1. 1..Len(run) \subseteq 1..n
          BY <1>4
        <4> QED
          BY <1>5, <3>1, <4>1
      <3>3. Len(taken) + k # cutAnswer => Right(toClient[k])'
        BY <1>1, <3>1, <3>2 DEF Right, Kind
      <3> QED
        BY <1>7, <3>2, <3>3 DEF IInv, Answers
    <2>2. Sent' = Sent /\ Sent \in Nat
      BY <1>1 DEF Sent, ClientKept, IInv, Shape
    <2>3. ASSUME up PROVE Sent >= n - 1 /\ (~Behind(n)' => Sent = n - 1)
      <3>1. CASE Len(run) = 0
        BY <2>3, <3>1 DEF IInv, Answers, Current
      <3>2. CASE Len(run) > 0
        <4> PICK m \in 1..Len(run) : m = Len(run) /\ m = n - 1
          BY <1>4, <3>2
        <4>1. answers[m] = Expected(run[m].id)
          BY <1>1, <1>4 DEF IInv, AnsweredOnce
        <4>2. Sent >= m - 1 + answers[m] /\ (~Behind(m) => Sent = m - 1 + answers[m])
          BY <2>3, <3>2 DEF IInv, Answers, Current
        <4>3. ~Behind(n)' => ~Behind(m) /\ Expected(run[m].id) = 1
          <5>1. ASSUME ~Behind(n)' PROVE Expected(run'[m].id) = 1 /\ ~Behind(m)'
            <6>1. m \in 1..(n - 1) /\ m \in DOMAIN run'
              BY <1>5
            <6> QED
              BY <5>1, <6>1 DEF Behind, Expected
          <5> QED
            BY <1>5, <1>7, <5>1
        <4> QED
          BY <2>2, <4>1, <4>2, <4>3 DEF Expected
      <3> QED
        BY <1>4, <3>1, <3>2
    <2>4. \A k \in 1..Len(toClient') :
              /\ toClient'[k].of \in 1..Len(run')
              /\ Len(taken') + k # cutAnswer' => Right(toClient[k])'
              /\ ~BehindNow(Len(taken') + k) => toClient'[k].of = Len(taken') + k
      <3> HIDE DEF BehindNow
      <3>1. toClient' = toClient /\ taken' = taken /\ cutAnswer' = cutAnswer /\ Len(run') = n
        BY <1>1, <1>5 DEF ClientKept
      <3> QED
        BY <2>1, <3>1
    <2>5. up' => Current' > 0 /\ Sent' >= Current' - 1 + answers'[Current']
                 /\ (~Behind(n)' => Sent' = Current' - 1 + answers'[Current'])
      BY <1>1, <1>4, <1>5, <1>6, <2>2, <2>3 DEF ClientKept
    <2> HIDE DEF BehindNow
    <2>6. \A x : Behind(x)' <=> BehindNow(x)
      BY DEF Behind, BehindNow
    <2> QED
      BY <1>6, <2>4, <2>5 DEF Answers, Behind, BehindNow
  <1>16. Matching'
    <2> SUFFICES ASSUME NEW i \in 1..Len(asked), Careful(i), ~Behind(i), i \in DOMAIN run',
                        i # cutRequest
                 PROVE  run'[i] = [id |-> asked[i].id, arg |-> i]
      BY <1>1, <1>7 DEF IInv, Matching, Careful, ClientKept
    <2>1. CASE i = n
      <3>1. sbuf = <<asked[n].id, n>>
        BY <1>1, <1>13, <2>1 DEF IInv, Requests
      <3>2. asked[n].id \in Int
        BY <2>1, AskedId
      <3> QED
        BY <1>5, <2>1, <3>1, <3>2, TwoWords DEF id, arg
    <2>2. CASE i # n
      <3>1. DOMAIN run' = 1..n /\ DOMAIN run = 1..Len(run)
        BY <1>4, <1>5
      <3>2. i \in 1..Len(run)
        BY <1>4, <2>2, <3>1
      <3> QED
        BY <1>5, <3>1, <3>2 DEF IInv, Matching, Careful
    <2> QED
      BY <2>1, <2>2
  <1>17. Cutting' /\ Ending'
    BY <1>1, <1>13 DEF IInv, Cutting, Ending, Sent, ClientKept
  <1> QED
    BY <1>8, <1>9, <1>10, <1>11, <1>12, <1>14, <1>15, <1>16, <1>17 DEF IInv

\* A message of the worker takes the place in the queue that belongs to its
\* call, unless an earlier call was answered twice.
LEMMA SendsKeeps ==
    ASSUME IInv, NEW status \in Statuses, NEW words \in Seq(Int), Sends(status, words),
           cbuf' = cbuf, cstatus' = cstatus, waiting' = waiting, owes' = owes,
           asked' = asked, taken' = taken,
           srv.pc \in {"tell", "reply", "again"},
           srv' \in [pc : {"idle", "reply", "again"}, id : Int],
           srv'.pc = "reply" => srv'.id \in DOMAIN Functions,
           sstatus' \in Statuses,
           status = "ok" =>
               \/ Kind(run[Current].id) = "value" /\ words = <<run[Current].arg>>
               \/ Kind(run[Current].id) = "void" /\ words = <<>>
    PROVE  /\ TypeOK' /\ Shape' /\ Fitting' /\ Requests' /\ Answers' /\ Emptied' /\ Matching'
           /\ Cutting' /\ Ending' /\ Current \in DOMAIN answers /\ Current \in Nat
           /\ answers' = [answers EXCEPT ![Current] = @ + 1]
           /\ answers' \in Seq(Nat)
  <1> DEFINE msg == [status |-> status, words |-> words, of |-> Current]
  <1> PICK n \in Nat : n = Current
    BY DEF IInv, Shape, Current
  <1>1. /\ toClient' = IF up THEN Append(toClient, msg) ELSE toClient
        /\ answers' = [answers EXCEPT ![n] = @ + 1] /\ sbuf' = <<>>
        /\ UNCHANGED <<toServer, link, run>> /\ ClientKept
    BY DEF Sends, ClientKept
  <1>2. /\ n > 0 /\ n = Len(run) /\ Len(answers) = n /\ answers \in Seq(Nat) /\ run \in Seq([id : Int, arg : Int])
        /\ answers[n] \in {0, 1} /\ (answers[n] = 1 => Expected(run[n].id) = 2)
        /\ n \in DOMAIN answers
    <2>1. n > 0 /\ n = Len(run) /\ Len(answers) = n /\ answers \in Seq(Nat) /\ run \in Seq([id : Int, arg : Int])
      BY DEF IInv, TypeOK, Shape, Doing, Current
    <2>2. answers[n] \in {0, 1} /\ (answers[n] = 1 => Kind(run[n].id) \in {"tells", "wrong"})
      BY DEF IInv, Doing, Current
    <2>3. n \in DOMAIN answers
      BY <2>1
    <2> QED
      BY <2>1, <2>2, <2>3, ExpectedIs
  <1>3. /\ answers' \in Seq(Nat) /\ Len(answers') = n /\ answers'[n] = answers[n] + 1
        /\ \A m \in 1..n : m # n => answers'[m] = answers[m]
    <2>1. answers[n] + 1 \in Nat /\ n \in 1..Len(answers)
      BY <1>2
    <2> QED
      BY <1>1, <1>2, <2>1, ExceptSeq
  <1>4. \A x : (Careful(x)' <=> Careful(x)) /\ (Behind(x)' <=> Behind(x))
    BY <1>1 DEF Careful, Behind, ClientKept
  <1>5. Got = n /\ Got' = n /\ n <= Len(asked) /\ n <= MaxCalls
    <2>1. Got = n /\ Got' = n
      BY <1>1, <1>2 DEF Got
    <2>2. Got + Len(toServer) <= Len(asked) /\ Len(asked) \in 0..MaxCalls
      BY DEF IInv, Requests, TypeOK
    <2>3. Len(toServer) \in Nat
      BY DEF IInv, Shape
    <2> QED
      BY <1>2, <2>1, <2>2, <2>3, CallsAssumption, SMTT(30)
  <1>6. msg \in Message /\ toClient \in Seq(Message) /\ Len(toClient) \in Nat
    BY <1>2, <1>5, CallsAssumption, SMTT(30) DEF IInv, Shape, Message
  <1> HIDE DEF msg
  <1>7. /\ toClient' \in Seq(Message)
        /\ Len(toClient') = IF up THEN Len(toClient) + 1 ELSE Len(toClient)
        /\ \A k \in 1..Len(toClient) : toClient'[k] = toClient[k]
        /\ up => toClient'[Len(toClient) + 1] = msg
    BY <1>1, <1>6
  <1>8. TypeOK'
    <2>1. \A i \in DOMAIN toClient' : toClient'[i] \in Message
      BY <1>7
    <2>2. Len(answers') = Len(run')
      BY <1>1, <1>2, <1>3
    <2>3. sbuf' \in Seq(Int)
      BY <1>1, EmptySeq
    <2>4. /\ srv'.pc \in {"idle", "dispatch", "tell", "reply", "again"}
          /\ srv'.pc \in {"tell", "reply"} => srv'.id \in DOMAIN Functions
      OBVIOUS
    <2>5. /\ \A i \in DOMAIN toServer' : toServer'[i] \in Seq(Int)
          /\ up' \in BOOLEAN /\ {cbuf, sbuf}' \subseteq Seq(Int)
          /\ {cstatus, sstatus}' \subseteq Statuses /\ waiting' \in BOOLEAN /\ owes' \in BOOLEAN
          /\ {cutRequest, cutAnswer}' \subseteq Nat
      BY <1>1, <2>3 DEF IInv, TypeOK, ClientKept
    <2>6. /\ Len(asked)' \in 0..MaxCalls
          /\ Len(taken)' = Len(asked)' - (IF waiting' THEN 1 ELSE 0)
      BY <1>1 DEF IInv, TypeOK, ClientKept
    <2> QED
      BY <2>1, <2>2, <2>4, <2>5, <2>6 DEF TypeOK, Message
  <1>9. Shape'
    BY <1>1, <1>3, <1>7 DEF IInv, Shape, ClientKept
  <1>10. Fitting' /\ Emptied' /\ Matching'
    BY <1>1, <1>4 DEF IInv, Fitting, Fits, Emptied, Matching, Careful, ClientKept
  <1>11. Requests'
    BY <1>1, <1>4, <1>5, SMTT(30) DEF IInv, Requests, ClientKept
  <1>12. Answers'
    <2>1. Sent \in Nat /\ Sent' = IF up THEN Sent + 1 ELSE Sent
      BY <1>1, <1>6, <1>7 DEF Sent, ClientKept, IInv, Shape
    <2>2. up => Sent >= n - 1 + answers[n] /\ (~Behind(n) => Sent = n - 1 + answers[n])
      BY <1>2 DEF IInv, Answers
    <2>3. up' => Sent' >= n - 1 + answers'[n] /\ (~Behind(n)' => Sent' = n - 1 + answers'[n])
      BY <1>1, <1>2, <1>3, <1>4, <2>1, <2>2, SMTT(30)
    <2>4. \A x : Right(x)' <=> Right(x)
      BY <1>1 DEF Right
    <2>5. ASSUME NEW k \in 1..Len(toClient')
          PROVE  /\ toClient'[k].of \in 1..Len(run)
                 /\ Len(taken) + k # cutAnswer => Right(toClient'[k])
                 /\ ~Behind(Len(taken) + k) => toClient'[k].of = Len(taken) + k
      <3>1. CASE k \in 1..Len(toClient)
        BY <1>7, <3>1 DEF IInv, Answers
      <3>2. CASE k = Len(toClient) + 1 /\ up
        <4>1. toClient'[k] = msg /\ msg.of = n /\ msg.status = status /\ msg.words = words
          BY <1>7, <3>2 DEF msg
        <4>2. Right(msg)
          BY <4>1 DEF Right
        <4> PICK x \in Nat : x = Len(taken) + k
          BY <1>6, <3>2 DEF IInv, Shape
        <4>3. x = Sent + 1 /\ Sent >= n - 1 + answers[n]
          BY <1>6, <2>2, <3>2 DEF Sent, IInv, Shape
        <4>4. ASSUME ~Behind(x) PROVE x = n
          <5>1. CASE answers[n] = 0
            <6>1. CASE x = n
              BY <6>1
            <6>2. CASE x # n
              <7>1. x > n
                BY <1>2, <2>1, <4>3, <5>1, <6>2
              <7>2. \A m \in 1..(n - 1) : m \in 1..(x - 1)
                BY <7>1
              <7>3. ~Behind(n)
                BY <4>4, <7>2 DEF Behind
              <7> QED
                BY <1>2, <2>1, <2>2, <3>2, <4>3, <5>1, <7>3
            <6> QED
              BY <6>1, <6>2
          <5>2. CASE answers[n] = 1
            <6>1. n \in 1..(x - 1) /\ n \in DOMAIN run /\ Expected(run[n].id) = 2
              BY <1>2, <2>1, <4>3, <5>2, SMTT(30)
            <6> QED
              BY <4>4, <6>1 DEF Behind
          <5> QED
            BY <1>2, <5>1, <5>2
        <4> QED
          BY <1>2, <4>1, <4>2, <4>4
      <3> QED
        BY <1>6, <1>7, <3>1, <3>2
    <2>6. Len(run') = Len(run) /\ Len(taken') = Len(taken) /\ Current' = n
      BY <1>1, <1>2 DEF ClientKept, Current
    <2>7. \A k \in 1..Len(toClient') : Len(taken) + k # cutAnswer => Right(toClient[k])'
      BY <1>1, <2>5 DEF Right
    <2>8. cutAnswer' = cutAnswer /\ taken' = taken
      BY <1>1 DEF ClientKept
    <2>9. \A k \in 1..Len(toClient') : Behind(Len(taken) + k)' <=> Behind(Len(taken) + k)
      BY <1>1, <2>6 DEF Behind
    <2> QED
      <3>1. \A k \in 1..Len(toClient') :
                /\ toClient'[k].of \in 1..Len(run')
                /\ Len(taken') + k # cutAnswer' => Right(toClient[k])'
                /\ ~Behind(Len(taken) + k)' => toClient'[k].of = Len(taken') + k
        BY <2>5, <2>6, <2>7, <2>8, <2>9
      <3>2. Current' = n /\ n # 0
        BY <1>2, <2>6
      <3>3. up' => Sent' >= n - 1 + answers'[n] /\ (~Behind(n)' => Sent' = n - 1 + answers'[n])
        BY <2>3
      <3>4. up' /\ Current' = 0 => Sent' = 0
        BY <3>2
      <3>5. up' /\ Current' > 0 =>
                /\ Sent' >= Current' - 1 + answers'[Current']
                /\ ~Behind(Current)' => Sent' = Current' - 1 + answers'[Current']
        BY <3>2, <3>3 DEF Behind
      <3> QED
        BY <3>1, <3>4, <3>5 DEF Answers
  <1>13. Cutting' /\ Ending'
    <2>1. ~up => toClient' = toClient /\ toServer' = toServer /\ taken' = taken
      BY <1>1 DEF ClientKept
    <2>2. /\ up' = up /\ cutRequest' = cutRequest /\ cutAnswer' = cutAnswer /\ taken' = taken
          /\ toServer' = toServer
      BY <1>1 DEF ClientKept
    <2> QED
      BY <1>5, <2>1, <2>2 DEF IInv, Cutting, Ending, Sent
  <1> QED
    BY <1>1, <1>2, <1>3, <1>8, <1>9, <1>10, <1>11, <1>12, <1>13

LEMMA TellKeeps ==
    ASSUME IInv, Tell
    PROVE  IInv'
  <1> DEFINE pc == IF Functions[srv.id] = "refused" THEN "idle" ELSE "reply"
  <1>1. /\ Sends("user", <<Text, Text>>) /\ ClientKept /\ run' = run /\ srv.pc = "tell"
        /\ sstatus' = "user" /\ srv' = [srv EXCEPT !.pc = pc]
    BY DEF Tell, Sends, ClientKept
  <1>2. /\ srv.id \in DOMAIN Functions /\ Kind(srv.id) = Functions[srv.id]
        /\ srv' = [pc |-> pc, id |-> srv.id] /\ srv.id \in Int
    BY <1>1 DEF IInv, TypeOK, Shape, Kind
  <1>3. <<Text, Text>> \in Seq(Int) /\ "user" \in Statuses /\ "user" # "ok"
    BY DEF Text, Statuses
  <1>4. /\ TypeOK' /\ Shape' /\ Fitting' /\ Requests' /\ Answers' /\ Emptied' /\ Matching'
        /\ Cutting' /\ Ending' /\ Current \in DOMAIN answers /\ Current \in Nat
        /\ answers' = [answers EXCEPT ![Current] = @ + 1]
    BY <1>1, <1>2, <1>3, SendsKeeps DEF ClientKept
  <1>5. /\ Current' = Current /\ Current > 0 /\ run[Current].id = srv.id /\ answers[Current] = 0
        /\ Kind(srv.id) \in {"tells", "refused"}
    BY <1>1 DEF IInv, Doing, Current
  <1>6. Doing'
    BY <1>1, <1>2, <1>4, <1>5 DEF Doing
  <1>7. AnsweredOnce'
    BY <1>1, <1>2, <1>4, <1>5, ExpectedIs DEF IInv, AnsweredOnce
  <1> QED
    BY <1>4, <1>6, <1>7 DEF IInv

LEMMA ReplyKeeps ==
    ASSUME IInv, Reply
    PROVE  IInv'
  <1> DEFINE pc == IF sstatus = "wrong_id" THEN "again" ELSE "idle"
             words == IF Functions[srv.id] = "tells" THEN <<run[Current].arg>> ELSE sbuf
  <1>1. /\ Sends(sstatus, words) /\ ClientKept /\ run' = run /\ srv.pc = "reply"
        /\ sstatus' = sstatus /\ srv' = [srv EXCEPT !.pc = pc]
    BY DEF Reply, Sends, ClientKept, Again
  <1>2. /\ srv.id \in DOMAIN Functions /\ Kind(srv.id) = Functions[srv.id]
        /\ srv' = [pc |-> pc, id |-> srv.id] /\ srv.id \in Int
    BY <1>1 DEF IInv, TypeOK, Shape, Kind
  <1>3. /\ Current' = Current /\ Current > 0 /\ run[Current].id = srv.id
        /\ \/ Kind(srv.id) = "value" /\ answers[Current] = 0 /\ sstatus = "ok" /\ sbuf = <<run[Current].arg>>
           \/ Kind(srv.id) = "void" /\ answers[Current] = 0 /\ sstatus = "ok" /\ sbuf = <<>>
           \/ Kind(srv.id) = "wrong" /\ answers[Current] = 0 /\ sstatus = "wrong_id"
           \/ Kind(srv.id) = "tells" /\ answers[Current] = 1 /\ sstatus = "user"
    BY <1>1 DEF IInv, Doing, Current
  <1>4. words \in Seq(Int) /\ sstatus \in Statuses
    <2>1. sbuf \in Seq(Int) /\ sstatus \in Statuses
      BY DEF IInv, TypeOK
    <2>2. run[Current].arg \in Int
      <3>1. run \in Seq([id : Int, arg : Int]) /\ Len(run) \in 1..Len(run)
        BY <1>3 DEF IInv, Shape, Current
      <3>2. run[Len(run)] \in [id : Int, arg : Int]
        BY <3>1, ElementOfSeq
      <3> QED
        BY <3>2 DEF Current
    <2> QED
      BY <2>1, <2>2
  <1>5. sstatus = "ok" => \/ Kind(run[Current].id) = "value" /\ words = <<run[Current].arg>>
                          \/ Kind(run[Current].id) = "void" /\ words = <<>>
    BY <1>2, <1>3
  <1> HIDE DEF words
  <1>6. /\ TypeOK' /\ Shape' /\ Fitting' /\ Requests' /\ Answers' /\ Emptied' /\ Matching'
        /\ Cutting' /\ Ending' /\ Current \in DOMAIN answers /\ Current \in Nat
        /\ answers' = [answers EXCEPT ![Current] = @ + 1]
    BY <1>1, <1>2, <1>4, <1>5, SendsKeeps DEF ClientKept
  <1>7. Doing'
    BY <1>1, <1>2, <1>3, <1>6 DEF Doing
  <1>8. AnsweredOnce'
    BY <1>1, <1>2, <1>3, <1>6, ExpectedIs DEF IInv, AnsweredOnce
  <1> QED
    BY <1>6, <1>7, <1>8 DEF IInv

LEMMA SendWrongIdKeeps ==
    ASSUME IInv, SendWrongId
    PROVE  IInv'
  <1>1. /\ Sends("wrong_id", <<>>) /\ ClientKept /\ run' = run /\ srv.pc = "again"
        /\ sstatus' = "wrong_id" /\ srv' = [srv EXCEPT !.pc = "idle"]
    BY DEF SendWrongId, Sends, ClientKept
  <1>2. srv' = [pc |-> "idle", id |-> srv.id] /\ srv.id \in Int
    BY <1>1 DEF IInv, Shape
  <1>3. <<>> \in Seq(Int) /\ "wrong_id" \in Statuses
    BY EmptySeq DEF Statuses
  <1>4. /\ TypeOK' /\ Shape' /\ Fitting' /\ Requests' /\ Answers' /\ Emptied' /\ Matching'
        /\ Cutting' /\ Ending' /\ Current \in DOMAIN answers /\ Current \in Nat
        /\ answers' = [answers EXCEPT ![Current] = @ + 1]
    BY <1>1, <1>2, <1>3, SendsKeeps DEF ClientKept
  <1>5. /\ Current' = Current /\ run[Current].id = srv.id
        /\ \/ Kind(srv.id) = "unknown" /\ answers[Current] = 0
           \/ Kind(srv.id) = "wrong" /\ answers[Current] = 1
    BY <1>1 DEF IInv, Doing, Current
  <1>6. Doing'
    BY <1>2 DEF Doing
  <1>7. AnsweredOnce'
    BY <1>1, <1>2, <1>4, <1>5, ExpectedIs DEF IInv, AnsweredOnce
  <1> QED
    BY <1>4, <1>6, <1>7 DEF IInv

-----------------------------------------------------------------------------
LEMMA StepIInv == IInv /\ [Next]_vars => IInv'
  <1> SUFFICES ASSUME IInv, [Next]_vars PROVE IInv'
    OBVIOUS
  <1>1. ASSUME NEW id \in Ids, NEW ret \in {"value", "void"}, Call(id, ret) PROVE IInv'
    BY <1>1, CallKeeps
  <1>2. CASE Receive \/ ReceiveFails \/ Clear \/ Lose
    BY <1>2, ReceiveKeeps, ReceiveFailsKeeps, ClearKeeps, LoseKeeps
  <1>3. CASE Worker
    BY <1>3, SrvReceiveKeeps, DispatchKeeps, TellKeeps, ReplyKeeps, SendWrongIdKeeps DEF Worker
  <1>4. CASE UNCHANGED vars
    <2>1. ClientOnly /\ UNCHANGED <<toClient, taken, waiting, cstatus, cbuf, owes>>
      BY <1>4 DEF vars, ClientOnly, Elsewhere
    <2>2. Doing' /\ AnsweredOnce' /\ Fitting' /\ Requests'
          /\ \A i : (Behind(i)' <=> Behind(i)) /\ (Careful(i)' <=> Careful(i))
      BY <2>1, ClientOnlyKeeps
    <2>3. TypeOK' /\ Shape'
      BY <1>4 DEF vars, IInv, TypeOK, Shape
    <2>4. Answers'
      BY <2>1, <2>2 DEF IInv, Answers, Right, Kind, Sent, Current, ClientOnly, Elsewhere
    <2>5. Emptied' /\ Matching'
      BY <2>1, <2>2 DEF IInv, Emptied, Matching, Careful, ClientOnly, Elsewhere
    <2>6. Cutting' /\ Ending'
      <3>1. Got' = Got
        BY <2>1, ClientOnlyKeeps
      <3> QED
        BY <2>1, <3>1 DEF IInv, Cutting, Ending, Sent, ClientOnly
    <2> QED
      BY <2>2, <2>3, <2>4, <2>5, <2>6 DEF IInv
  <1> QED
    BY <1>1, <1>2, <1>3, <1>4 DEF Next

LEMMA SpecIInv == Spec => []IInv
  BY InitIInv, StepIInv, PTL DEF Spec

\* Types; every request the server took is counted among the calls.
THEOREM TypeCorrect == Spec => []TypeOK
  BY SpecIInv, PTL DEF IInv

\* The worker answers each request exactly as often as its function says.
THEOREM Answered == Spec => []AnsweredOnce
  BY SpecIInv, PTL DEF IInv

\* A careful program's call reaches its function with its argument, and takes
\* its own answer and value, until a call before it was answered twice; but for
\* the one request and the one answer a lost connection has cut, which are taken
\* as if they were whole, and are the last.
THEOREM CallsMatched == Spec => []RightCall
  <1>1. IInv => RightCall
    <2> SUFFICES ASSUME IInv PROVE RightCall
      OBVIOUS
    <2>1. CutLast
      <3>1. cutRequest > 0 => ~up /\ Len(run) <= cutRequest
        <4>1. Len(run) \in Nat /\ Len(toServer) \in Nat /\ cutRequest \in Nat
          BY DEF IInv, TypeOK, Shape
        <4>2. Len(run) <= Got /\ Got \in Nat
          BY <4>1 DEF Got
        <4> QED
          BY <4>1, <4>2 DEF IInv, Cutting
      <3>2. cutAnswer > 0 => ~up /\ \A n \in DOMAIN taken : n > cutAnswer => taken[n].status = "stop"
        BY DEF IInv, Cutting, Ending, TypeOK
      <3> QED
        BY <3>1, <3>2 DEF CutLast
    <2> QED
      BY <2>1 DEF IInv, Matching, Careful, RightCall
  <1> QED
    BY <1>1, SpecIInv, PTL
=============================================================================
