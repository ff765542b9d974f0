--------------------------- MODULE SettingsProofs ---------------------------
(***************************************************************************)
(* Proofs about Settings for any order of the modes, any calls of the set  *)
(* functions and any timeouts.  IInv says which stores have been made:     *)
(* those of a set function behind its loop, those of newSelector() behind  *)
(* its setArgs(); and that the fields the two have raced for, and no       *)
(* others, are in overlap.                                                 *)
(***************************************************************************)
EXTENDS Settings, SequenceTheorems, TLAPS

OwnNames == Modes \cup {"timeout", "delete"}
Names == Modes \cup {"sec", "usec", "delete"}

Views ==
    {v \in [Names -> BOOLEAN \cup Int] :
        (\A k \in Modes \cup {"delete"} : v[k] \in BOOLEAN) /\ v.sec \in Int /\ v.usec \in Int}

\* The fields a set function stores in each SelectManager.
AllFields(call) == {call.all[i][1] : i \in DOMAIN call.all}

\* The stores a set function makes in selector m; 0 is the BalancingSelector.
Stores(call, m) == IF m = 0 THEN call.own ELSE call.all

\* The selector newSelector() is not busy with.
Settled(m) == ~(Making /\ m = Len(selectors))

Shape ==
    /\ own \in [OwnNames -> BOOLEAN \cup Int]
    /\ \A k \in Modes \cup {"delete"} : own[k] \in BOOLEAN
    /\ own.timeout \in given
    /\ selectors \in Seq(Views)
    /\ Len(selectors) \in 1..MaxSelectors
    /\ \/ setter = NoSetter
       \/ /\ setter \in [call : Calls, m : 0..Len(selectors), j : Nat \ {0}]
          /\ setter.j <= Len(Stores(setter.call, setter.m))
          /\ setter.call.timeout \subseteq given
    /\ maker \in [pc : {"idle", "load", "store"}, j : Nat \ {0}, args : {a \in [Modes \cup {"timeout"} -> BOOLEAN \cup Int] : IsArgs(a)}]
    /\ maker.pc = "idle" => maker = NoMaker
    /\ maker.pc = "load" => maker.j <= Len(Arguments)
    /\ maker.pc = "store" => maker.j <= Len(Args(maker.args)) + 1
    /\ maker.args.timeout \in given
    /\ calls \in 0..MaxCalls
    /\ given \subseteq Int /\ Made.timeout \in given

Working ==
    /\ worker \in [pc : {"none", "modes", "test", "sec", "usec", "select", "callback", "failed"},
                   m : 1..Len(selectors), left : Seq(Modes), modes : SUBSET Modes,
                   sec : Int, usec : Int]
    /\ worker.pc = "modes" => worker.left # <<>>
    /\ worker.pc # "none" => Settled(worker.m)

\* The stores a set function is done with.
OwnStored ==
    Setting =>
        \A i \in DOMAIN setter.call.own :
            setter.m > 0 \/ i < setter.j => own[setter.call.own[i][1]] = setter.call.own[i][2]

AllStored ==
    Setting =>
        \A m \in DOMAIN selectors, i \in DOMAIN setter.call.all :
            /\ m < setter.m \/ (m = setter.m /\ i < setter.j)
            /\ setter.call.all[i][1] \notin overlap
            => selectors[m][setter.call.all[i][1]] = setter.call.all[i][2]

\* The loads and stores newSelector() is done with.
Loaded ==
    Making =>
        \A i \in DOMAIN Arguments :
            /\ maker.pc = "store" \/ i < maker.j
            /\ Arguments[i] \notin overlap
            => maker.args[Arguments[i]] = own[Arguments[i]]

Stored ==
    maker.pc = "store" =>
        \A i \in DOMAIN Args(maker.args) :
            /\ i < maker.j
            /\ Args(maker.args)[i][1] \notin overlap
            => selectors[Len(selectors)][Args(maker.args)[i][1]] = Args(maker.args)[i][2]

Raced ==
    /\ Setting /\ Making => Fields(setter.call) \subseteq overlap
    /\ "timeout" \in overlap => "sec" \in overlap
    /\ "sec" \in overlap <=> "usec" \in overlap
    /\ Setting /\ "delete" \in Fields(setter.call) => setter.call.timeout \subseteq slipped

\* A field that is not being set agrees everywhere.
ModesAgree ==
    \A m \in DOMAIN selectors, k \in Modes \ overlap :
        Settled(m) /\ ~(Setting /\ k \in Fields(setter.call)) => selectors[m][k] = own[k]

TimesAgree ==
    "sec" \notin overlap /\ ~(Setting /\ "sec" \in Fields(setter.call)) =>
        \A m \in DOMAIN selectors :
            Settled(m) => \E t \in {own.timeout} \cup slipped : Holds(selectors[m], t)

\* The `delete` of the selectors: the first has never any, those that setDelete()
\* did not find there have that of the BalancingSelector.
Untold ==
    /\ deaf \in 0..Len(selectors)
    /\ Making => Len(selectors) > 1
    /\ selectors[1]["delete"] = FALSE
    /\ "delete" \notin overlap =>
           IF Setting /\ "delete" \in Fields(setter.call) THEN deaf = Len(selectors)
           ELSE \A m \in DOMAIN selectors :
                    Settled(m) /\ m > deaf => selectors[m]["delete"] = own["delete"]

\* The timevals there are, torn or not.
Secs == {Seconds(t) : t \in given}

Timed ==
    /\ \A m \in DOMAIN selectors : Settled(m) => {selectors[m].sec, selectors[m].usec} \subseteq Secs
    /\ maker.pc = "store" /\ maker.j > Len(ModeOrder) + 1 => selectors[Len(selectors)].sec \in Secs
    /\ maker.pc = "store" /\ maker.j > Len(ModeOrder) + 2 => selectors[Len(selectors)].usec \in Secs
    /\ worker.pc \in {"usec", "select"} => worker.sec \in Secs
    /\ worker.pc = "select" => worker.usec \in Secs

Agree == OwnStored /\ AllStored /\ Loaded /\ Stored /\ Raced /\ ModesAgree /\ TimesAgree /\ Untold

IInv == Shape /\ Working /\ Agree /\ Timed
-----------------------------------------------------------------------------
(* The modes, the arguments and the calls.                                 *)

L == Len(ModeOrder)

LEMMA ModeFacts ==
    /\ L \in Nat \ {0}
    /\ DOMAIN ModeOrder = 1..L
    /\ \A i \in 1..L : ModeOrder[i] \in Modes
    /\ Modes \cap {"timeout", "delete", "sec", "usec"} = {}
    /\ ModeOrder \in Seq(Modes)
  <1>1. ModeOrder \in Seq({"read", "write", "except"}) /\ ModeOrder # <<>>
    BY ModesAssumption
  <1>2. L \in Nat \ {0} /\ DOMAIN ModeOrder = 1..L
    BY <1>1 DEF L
  <1>3. \A i \in 1..L : ModeOrder[i] \in Modes /\ ModeOrder[i] \in {"read", "write", "except"}
    BY <1>1, <1>2 DEF Modes
  <1>4. Modes \cap {"timeout", "delete", "sec", "usec"} = {}
    BY <1>2, <1>3 DEF Modes
  <1>5. ModeOrder \in Seq(Modes)
    BY <1>1, <1>2, <1>3
  <1> QED
    BY <1>2, <1>3, <1>4, <1>5

LEMMA ArgumentsFacts ==
    /\ Len(Arguments) = L + 1
    /\ DOMAIN Arguments = 1..(L + 1)
    /\ \A i \in 1..L : Arguments[i] = ModeOrder[i]
    /\ Arguments[L + 1] = "timeout"
    /\ \A i \in DOMAIN Arguments : Arguments[i] \in Modes \cup {"timeout"}
    /\ \A k \in Modes \cup {"timeout"} : \E i \in DOMAIN Arguments : Arguments[i] = k
  <1>1. /\ ModeOrder \in Seq({"read", "write", "except"}) /\ L = Len(ModeOrder)
        /\ L \in Nat \ {0} /\ DOMAIN ModeOrder = 1..L
    BY ModesAssumption, ModeFacts DEF L
  <1>2. /\ Len(Arguments) = L + 1
        /\ DOMAIN Arguments = 1..(L + 1)
        /\ \A i \in 1..L : Arguments[i] = ModeOrder[i]
        /\ Arguments[L + 1] = "timeout"
    BY <1>1 DEF Arguments
  <1>3. \A i \in DOMAIN Arguments : Arguments[i] \in Modes \cup {"timeout"}
    BY <1>1, <1>2, ModeFacts
  <1>4. ASSUME NEW k \in Modes \cup {"timeout"} PROVE \E i \in DOMAIN Arguments : Arguments[i] = k
    <2>1. CASE k = "timeout"
      BY <1>1, <1>2, <2>1
    <2>2. CASE k \in Modes
      <3>1. PICK i \in 1..L : ModeOrder[i] = k
        BY <1>1, <2>2 DEF Modes
      <3> QED
        BY <1>1, <1>2, <3>1
    <2> QED
      BY <2>1, <2>2
  <1>5. 1 \in 1..1
    OBVIOUS
  <1> QED
    BY <1>2, <1>3, <1>4, <1>5, Zenon

\* The modes, and some stores behind them.
ModesFirst(a, t) ==
    /\ Len(ModesOf(a) \o t) = L + Len(t)
    /\ DOMAIN (ModesOf(a) \o t) = 1..(L + Len(t))
    /\ \A i \in 1..L : (ModesOf(a) \o t)[i] = <<ModeOrder[i], a[ModeOrder[i]]>>
    /\ \A i \in 1..Len(t) : (ModesOf(a) \o t)[L + i] = t[i]

LEMMA ModesThen == ASSUME NEW a, NEW T, NEW t \in Seq(T) PROVE ModesFirst(a, t)
  <1> DEFINE S == T \cup {<<k, a[k]>> : k \in Modes}
             s == ModesOf(a)
  <1>1. s \in [1..L -> S] /\ L \in Nat
    <2>1. \A i \in 1..L : <<ModeOrder[i], a[ModeOrder[i]]>> \in S
      BY ModeFacts
    <2> HIDE DEF S
    <2> QED
      BY <2>1, ModeFacts DEF ModesOf
  <1>2. \A i \in 1..L : s[i] = <<ModeOrder[i], a[ModeOrder[i]]>>
    BY ModeFacts DEF ModesOf
  <1> HIDE DEF S, s
  <1>3. s \in Seq(S)
    BY <1>1, SeqDef
  <1>4. Len(s) = L
    BY <1>1, <1>3, LenProperties
  <1>5. t \in Seq(S)
    <2>1. T \subseteq S
      BY DEF S
    <2> QED
      BY <2>1, SeqMonotonic
  <1>6. /\ s \o t \in Seq(S)
        /\ Len(s \o t) = L + Len(t)
        /\ \A i \in 1..(L + Len(t)) : (s \o t)[i] = IF i <= L THEN s[i] ELSE t[i - L]
    BY <1>3, <1>4, <1>5, ConcatProperties
  <1>7. Len(t) \in Nat
    BY LenProperties
  <1>8. DOMAIN (s \o t) = 1..(L + Len(t))
    BY <1>6, LenProperties
  <1>9. ASSUME NEW i \in 1..Len(t) PROVE (s \o t)[L + i] = t[i]
    <2>1. L + i \in 1..(L + Len(t)) /\ ~(L + i <= L) /\ (L + i) - L = i
      BY <1>1, <1>7
    <2> QED
      BY <1>6, <2>1
  <1>10. ASSUME NEW i \in 1..L PROVE (s \o t)[i] = s[i]
    BY <1>1, <1>6, <1>7
  <1> QED
    BY <1>2, <1>6, <1>8, <1>9, <1>10 DEF s, ModesFirst

\* What setArgs() stores: each mode, and the two words of the timeout.
LEMMA ArgsFacts ==
    ASSUME NEW a
    PROVE  /\ Len(Args(a)) = L + 2
           /\ DOMAIN Args(a) = 1..(L + 2)
           /\ \A i \in 1..L : Args(a)[i] = <<ModeOrder[i], a[ModeOrder[i]]>>
           /\ Args(a)[L + 1] = <<"sec", Seconds(a.timeout)>>
           /\ Args(a)[L + 2] = <<"usec", Micros(a.timeout)>>
  <1> DEFINE t == Timval(a.timeout)
  <1>1. PICK T : t \in Seq(T)
    <2>1. t \in Seq({<<"sec", Seconds(a.timeout)>>, <<"usec", Micros(a.timeout)>>})
      BY DEF Timval
    <2> QED
      BY <2>1
  <1>2. Len(t) = 2 /\ t[1] = <<"sec", Seconds(a.timeout)>> /\ t[2] = <<"usec", Micros(a.timeout)>>
    BY DEF Timval
  <1> HIDE DEF t
  <1>3. /\ Len(ModesOf(a) \o t) = L + 2
        /\ DOMAIN (ModesOf(a) \o t) = 1..(L + 2)
        /\ \A i \in 1..L : (ModesOf(a) \o t)[i] = <<ModeOrder[i], a[ModeOrder[i]]>>
        /\ \A i \in 1..2 : (ModesOf(a) \o t)[L + i] = t[i]
    <2>1. ModesFirst(a, t)
      BY <1>1, ModesThen
    <2> QED
      BY <1>2, <2>1, Zenon DEF ModesFirst
  <1>4. 1 \in 1..2 /\ 2 \in 1..2
    OBVIOUS
  <1> QED
    BY <1>2, <1>3, <1>4, Zenon DEF Args, t

\* The same of the own fields.
LEMMA OwnFacts ==
    ASSUME NEW a
    PROVE  /\ Len(SetArgs(a).own) = L + 1
           /\ DOMAIN SetArgs(a).own = 1..(L + 1)
           /\ \A i \in 1..L : SetArgs(a).own[i] = <<ModeOrder[i], a[ModeOrder[i]]>>
           /\ SetArgs(a).own[L + 1] = <<"timeout", a.timeout>>
  <1> DEFINE t == <<<<"timeout", a.timeout>>>>
  <1>1. PICK T : t \in Seq(T)
    <2>1. t \in Seq({<<"timeout", a.timeout>>})
      OBVIOUS
    <2> QED
      BY <2>1
  <1>2. Len(t) = 1 /\ t[1] = <<"timeout", a.timeout>>
    OBVIOUS
  <1>3. SetArgs(a).own = ModesOf(a) \o t
    BY DEF SetArgs
  <1> HIDE DEF t
  <1>4. /\ Len(ModesOf(a) \o t) = L + 1
        /\ DOMAIN (ModesOf(a) \o t) = 1..(L + 1)
        /\ \A i \in 1..L : (ModesOf(a) \o t)[i] = <<ModeOrder[i], a[ModeOrder[i]]>>
        /\ \A i \in 1..1 : (ModesOf(a) \o t)[L + i] = t[i]
    <2>1. ModesFirst(a, t)
      BY <1>1, ModesThen
    <2> QED
      BY <1>2, <2>1, Zenon DEF ModesFirst
  <1>5. 1 \in 1..1
    OBVIOUS
  <1> QED
    BY <1>2, <1>3, <1>4, <1>5, Zenon

\* What the stores of a set function are: no field twice, a mode for all if for
\* the BalancingSelector, both words of a timeout or none.
WellMade(call) ==
    /\ call.own # <<>> /\ DOMAIN call.own = 1..Len(call.own) /\ Len(call.own) \in Nat \ {0}
    /\ call.all # <<>> /\ DOMAIN call.all = 1..Len(call.all) /\ Len(call.all) \in Nat \ {0}
    /\ call.timeout \subseteq Int
    /\ \A i \in DOMAIN call.own :
           /\ call.own[i][1] \in OwnNames
           /\ call.own[i][1] \in Modes \cup {"delete"} => call.own[i][2] \in BOOLEAN
           /\ call.own[i][1] = "timeout" => call.own[i][2] \in call.timeout
    /\ \A i \in DOMAIN call.all :
           /\ call.all[i][1] \in Modes \cup {"sec", "usec"}
           /\ call.all[i][1] \in Modes => call.all[i][2] \in BOOLEAN
           /\ call.all[i][1] \in {"sec", "usec"} =>
                  \E t \in call.timeout : call.all[i][2] = Seconds(t)
    /\ \A i, j \in DOMAIN call.own : call.own[i][1] = call.own[j][1] => i = j
    /\ \A i, j \in DOMAIN call.all : call.all[i][1] = call.all[j][1] => i = j
    /\ \A k \in Modes \cap Fields(call) :
           \E i \in DOMAIN call.own, j \in DOMAIN call.all :
               call.own[i][1] = k /\ call.all[j] = call.own[i]
    /\ \/ Fields(call) \cap {"timeout", "delete", "sec", "usec"} = {}
       \/ \E t \in call.timeout :
              /\ \E i, j \in DOMAIN call.all :
                     call.all[i] = <<"sec", Seconds(t)>> /\ call.all[j] = <<"usec", Micros(t)>>
              /\ \/ "delete" \in Fields(call)
                 \/ \E i \in DOMAIN call.own : call.own[i] = <<"timeout", t>>

LEMMA ModeMade == ASSUME NEW k \in Modes, NEW v \in BOOLEAN PROVE WellMade(SetMode(k, v))
  <1>1. SetMode(k, v).own = <<<<k, v>>>> /\ SetMode(k, v).all = <<<<k, v>>>> /\ SetMode(k, v).timeout = {}
    BY DEF SetMode
  <1>2. Fields(SetMode(k, v)) = {k}
    BY <1>1 DEF Fields
  <1> QED
    BY <1>1, <1>2, ModeFacts DEF WellMade, OwnNames

LEMMA TimeMade == ASSUME NEW t \in Int PROVE WellMade(SetTimout(t))
  <1> DEFINE call == SetTimout(t)
  <1>1. /\ call.own = <<<<"timeout", t>>>> /\ call.timeout = {t}
        /\ call.all = <<<<"sec", Seconds(t)>>, <<"usec", Micros(t)>>>>
    BY DEF SetTimout, Timval
  <1>2. Fields(call) = {"timeout", "sec", "usec"}
    BY <1>1 DEF Fields
  <1> HIDE DEF call
  <1>3. /\ DOMAIN call.own = 1..1 /\ Len(call.own) = 1 /\ call.own[1] = <<"timeout", t>>
        /\ DOMAIN call.all = 1..2 /\ Len(call.all) = 2
        /\ call.all[1] = <<"sec", Seconds(t)>> /\ call.all[2] = <<"usec", Micros(t)>>
    BY <1>1
  <1>4. WellMade(call)
    <2>1. /\ call.own # <<>> /\ DOMAIN call.own = 1..Len(call.own) /\ Len(call.own) \in Nat \ {0}
          /\ call.all # <<>> /\ DOMAIN call.all = 1..Len(call.all) /\ Len(call.all) \in Nat \ {0}
          /\ call.timeout \subseteq Int
      BY <1>1, <1>3
    <2>2. \A i \in DOMAIN call.own : i = 1
      BY <1>3
    <2>3. \A i \in DOMAIN call.all : i = 1 \/ i = 2
      BY <1>3
    <2>4. 1 \in DOMAIN call.own /\ {1, 2} \subseteq DOMAIN call.all
      BY <1>3
    <2>5. \A i, j \in DOMAIN call.all : call.all[i][1] = call.all[j][1] => i = j
      BY <1>3, <2>3
    <2>6. \A i \in DOMAIN call.own :
             /\ call.own[i][1] \in OwnNames
             /\ call.own[i][1] \in Modes \cup {"delete"} => call.own[i][2] \in BOOLEAN
             /\ call.own[i][1] = "timeout" => call.own[i][2] \in call.timeout
      BY <1>1, <1>3, <2>2, ModeFacts DEF OwnNames
    <2>7. \A i \in DOMAIN call.all :
             /\ call.all[i][1] \in Modes \cup {"sec", "usec"}
             /\ call.all[i][1] \in Modes => call.all[i][2] \in BOOLEAN
             /\ call.all[i][1] \in {"sec", "usec"} =>
                    \E x \in call.timeout : call.all[i][2] = Seconds(x)
      BY <1>1, <1>3, <2>3, ModeFacts DEF Micros
    <2>8. Modes \cap Fields(call) = {}
      BY <1>2, ModeFacts
    <2>9. \E x \in call.timeout :
              /\ \E i, j \in DOMAIN call.all :
                     call.all[i] = <<"sec", Seconds(x)>> /\ call.all[j] = <<"usec", Micros(x)>>
              /\ \/ "delete" \in Fields(call)
                 \/ \E i \in DOMAIN call.own : call.own[i] = <<"timeout", x>>
      BY <1>1, <1>2, <1>3, <2>4
    <2> QED
      BY <2>1, <2>2, <2>5, <2>6, <2>7, <2>8, <2>9 DEF WellMade
  <1> QED
    BY <1>4 DEF call

LEMMA DeleteMade == ASSUME NEW d \in BOOLEAN PROVE WellMade(SetDelete(d))
  <1> DEFINE call == SetDelete(d)
             t == IF d THEN 10 ELSE 0
  <1>1. /\ call.own = <<<<"delete", d>>>> /\ call.timeout = {t} /\ t \in Int
        /\ call.all = <<<<"sec", Seconds(t)>>, <<"usec", Micros(t)>>>>
    BY DEF SetDelete, Timval
  <1>2. Fields(call) = {"delete", "sec", "usec"}
    BY <1>1 DEF Fields
  <1> HIDE DEF call, t
  <1>3. /\ DOMAIN call.own = 1..1 /\ Len(call.own) = 1 /\ call.own[1] = <<"delete", d>>
        /\ DOMAIN call.all = 1..2 /\ Len(call.all) = 2
        /\ call.all[1] = <<"sec", Seconds(t)>> /\ call.all[2] = <<"usec", Micros(t)>>
    BY <1>1
  <1>4. WellMade(call)
    <2>1. /\ call.own # <<>> /\ DOMAIN call.own = 1..Len(call.own) /\ Len(call.own) \in Nat \ {0}
          /\ call.all # <<>> /\ DOMAIN call.all = 1..Len(call.all) /\ Len(call.all) \in Nat \ {0}
          /\ call.timeout \subseteq Int
      BY <1>1, <1>3
    <2>2. \A i \in DOMAIN call.own : i = 1
      BY <1>3
    <2>3. \A i \in DOMAIN call.all : i = 1 \/ i = 2
      BY <1>3
    <2>4. 1 \in DOMAIN call.own /\ {1, 2} \subseteq DOMAIN call.all
      BY <1>3
    <2>5. \A i, j \in DOMAIN call.all : call.all[i][1] = call.all[j][1] => i = j
      BY <1>3, <2>3
    <2>6. \A i \in DOMAIN call.own :
             /\ call.own[i][1] \in OwnNames
             /\ call.own[i][1] \in Modes \cup {"delete"} => call.own[i][2] \in BOOLEAN
             /\ call.own[i][1] = "timeout" => call.own[i][2] \in call.timeout
      BY <1>1, <1>3, <2>2, ModeFacts DEF OwnNames
    <2>7. \A i \in DOMAIN call.all :
             /\ call.all[i][1] \in Modes \cup {"sec", "usec"}
             /\ call.all[i][1] \in Modes => call.all[i][2] \in BOOLEAN
             /\ call.all[i][1] \in {"sec", "usec"} =>
                    \E x \in call.timeout : call.all[i][2] = Seconds(x)
      BY <1>1, <1>3, <2>3, ModeFacts DEF Micros
    <2>8. Modes \cap Fields(call) = {}
      BY <1>2, ModeFacts
    <2>9. \E x \in call.timeout :
              /\ \E i, j \in DOMAIN call.all :
                     call.all[i] = <<"sec", Seconds(x)>> /\ call.all[j] = <<"usec", Micros(x)>>
              /\ \/ "delete" \in Fields(call)
                 \/ \E i \in DOMAIN call.own : call.own[i] = <<"timeout", x>>
      BY <1>1, <1>2, <1>3, <2>4
    <2> QED
      BY <2>1, <2>2, <2>5, <2>6, <2>7, <2>8, <2>9 DEF WellMade
  <1> QED
    BY <1>4 DEF call

LEMMA ArgsMade == ASSUME NEW a, IsArgs(a) PROVE WellMade(SetArgs(a))
  <1> DEFINE call == SetArgs(a)
  <1>0. (\A k \in Modes : a[k] \in BOOLEAN) /\ a.timeout \in Int
    BY DEF IsArgs
  <1>1. /\ Len(call.own) = L + 1
        /\ DOMAIN call.own = 1..(L + 1)
        /\ \A i \in 1..L : call.own[i] = <<ModeOrder[i], a[ModeOrder[i]]>>
        /\ call.own[L + 1] = <<"timeout", a.timeout>>
    BY OwnFacts
  <1>2. call.all = Args(a) /\ call.timeout = {a.timeout}
    BY DEF SetArgs
  <1>3. /\ Len(call.all) = L + 2
        /\ DOMAIN call.all = 1..(L + 2)
        /\ \A i \in 1..L : call.all[i] = <<ModeOrder[i], a[ModeOrder[i]]>>
        /\ call.all[L + 1] = <<"sec", Seconds(a.timeout)>>
        /\ call.all[L + 2] = <<"usec", Micros(a.timeout)>>
    BY <1>2, ArgsFacts
  <1>4. L \in Nat \ {0} /\ \A i \in 1..L : ModeOrder[i] \in Modes
    BY ModeFacts
  <1> HIDE DEF call
  <1>5. \A i \in DOMAIN call.own : i \in 1..L \/ i = L + 1
    BY <1>1, <1>4
  <1>6. \A i \in DOMAIN call.all : i \in 1..L \/ i = L + 1 \/ i = L + 2
    BY <1>3, <1>4
  <1>7. L + 1 \in DOMAIN call.own /\ {L + 1, L + 2} \subseteq DOMAIN call.all
        /\ 1..L \subseteq DOMAIN call.own /\ 1..L \subseteq DOMAIN call.all
    BY <1>1, <1>3, <1>4
  <1>9. \A i, j \in 1..L : ModeOrder[i] = ModeOrder[j] => i = j
    BY ModeFacts, ModesAssumption
  <1>10. \A i, j \in DOMAIN call.own : call.own[i][1] = call.own[j][1] => i = j
    BY <1>1, <1>4, <1>5, <1>9, ModeFacts
  <1>11. \A i, j \in DOMAIN call.all : call.all[i][1] = call.all[j][1] => i = j
    BY <1>3, <1>4, <1>6, <1>9, ModeFacts
  <1>12. \A i \in DOMAIN call.own :
           /\ call.own[i][1] \in OwnNames
           /\ call.own[i][1] \in Modes \cup {"delete"} => call.own[i][2] \in BOOLEAN
           /\ call.own[i][1] = "timeout" => call.own[i][2] \in call.timeout
    BY <1>0, <1>1, <1>2, <1>4, <1>5, ModeFacts DEF OwnNames
  <1>13. \A i \in DOMAIN call.all :
           /\ call.all[i][1] \in Modes \cup {"sec", "usec"}
           /\ call.all[i][1] \in Modes => call.all[i][2] \in BOOLEAN
           /\ call.all[i][1] \in {"sec", "usec"} =>
                  \E t \in call.timeout : call.all[i][2] = Seconds(t)
    BY <1>2, <1>3, <1>4, <1>6, <1>0, ModeFacts DEF Micros
  <1>14. ASSUME NEW k \in Modes
         PROVE  \E i \in DOMAIN call.own, j \in DOMAIN call.all :
                    call.own[i][1] = k /\ call.all[j] = call.own[i]
    <2>1. PICK i \in 1..L : ModeOrder[i] = k
      BY ModeFacts DEF Modes
    <2> QED
      BY <1>1, <1>3, <1>7, <2>1, SMTT(30)
  <1>15. \E t \in call.timeout :
              /\ \E i, j \in DOMAIN call.all :
                     call.all[i] = <<"sec", Seconds(t)>> /\ call.all[j] = <<"usec", Micros(t)>>
              /\ \E i \in DOMAIN call.own : call.own[i] = <<"timeout", t>>
    BY <1>1, <1>2, <1>3, <1>7
  <1>16. call.own # <<>> /\ call.all # <<>> /\ Len(call.own) \in Nat \ {0} /\ Len(call.all) \in Nat \ {0}
    BY <1>1, <1>3, <1>4
  <1>17. call.timeout \subseteq Int
    BY <1>2 DEF IsArgs
  <1>18. WellMade(call)
    BY <1>1, <1>3, <1>10, <1>11, <1>12, <1>13, <1>14, <1>15, <1>16, <1>17 DEF WellMade
  <1> QED
    BY <1>18 DEF call

LEMMA CallMade == ASSUME NEW call \in Calls PROVE WellMade(call)
  <1>1. CASE \E k \in Modes, v \in BOOLEAN : call = SetMode(k, v)
    BY <1>1, ModeMade
  <1>2. CASE \E t \in call.timeout : t \in Int /\ call = SetTimout(t)
    BY <1>2, TimeMade
  <1>3. CASE \E d \in BOOLEAN : call = SetDelete(d)
    BY <1>3, DeleteMade
  <1>4. ASSUME NEW t \in Int, NEW on \in SUBSET Modes,
               call = SetArgs([k \in Modes \cup {"timeout"} |-> IF k = "timeout" THEN t ELSE k \in on])
        PROVE  WellMade(call)
    <2> DEFINE a == [k \in Modes \cup {"timeout"} |-> IF k = "timeout" THEN t ELSE k \in on]
    <2>1. a = [k \in Modes \cup {"timeout"} |-> a[k]] /\ a["timeout"] = t
      BY ModeFacts
    <2>2. \A k \in Modes : k # "timeout"
      BY ModeFacts
    <2>3. \A k \in Modes : a[k] \in BOOLEAN
      <3> TAKE k \in Modes
      <3>1. k \in Modes \cup {"timeout"} /\ k # "timeout"
        BY <2>2
      <3>2. a[k] = (k \in on)
        BY <3>1, Zenon
      <3>3. (k \in on) \in BOOLEAN
        OBVIOUS
      <3> QED
        BY <3>2, <3>3, Zenon
    <2> HIDE DEF a
    <2>4. IsArgs(a)
      BY <2>1, <2>3 DEF IsArgs
    <2> QED
      BY <1>4, <2>4, ArgsMade DEF a
  <1> QED
    BY <1>1, <1>2, <1>3, <1>4, CallsAssumption
-----------------------------------------------------------------------------
(* The initial state, and a store into a selector.                         *)

Fits(f, x) ==
    /\ f \in Names
    /\ f \in Modes \cup {"delete"} => x \in BOOLEAN
    /\ f \in {"sec", "usec"} => x \in Int

LEMMA SecondsInt == \A t \in Int : Seconds(t) \in Int
  BY DEF Seconds

LEMMA SelectorFacts ==
    ASSUME NEW on \in SUBSET Modes, NEW t \in Int
    PROVE  /\ Selector(on, t) \in Views
           /\ Selector(on, t).sec = Seconds(t) /\ Selector(on, t).usec = Micros(t)
           /\ \A k \in Modes : Selector(on, t)[k] = (k \in on)
           /\ Selector(on, t)["delete"] = FALSE
  <1> DEFINE v == Selector(on, t)
  <1>1. DOMAIN v = Names
    BY DEF Selector, Names
  <1>2. v.sec = Seconds(t) /\ v.usec = Micros(t) /\ v.sec \in Int /\ v.usec \in Int
    BY SecondsInt DEF Selector, Names, Micros
  <1>3. ASSUME NEW k \in Modes \cup {"delete"} PROVE v[k] = (k \in on) /\ v[k] \in BOOLEAN
    <2>1. k \in Names /\ k # "sec" /\ k # "usec"
      BY ModeFacts DEF Names
    <2>2. v[k] = (k \in on)
      BY <2>1, Zenon DEF Selector, Names
    <2>3. (k \in on) \in BOOLEAN
      OBVIOUS
    <2> QED
      BY <2>2, <2>3, Zenon
  <1>6. v["delete"] = FALSE
    <2>1. v["delete"] = ("delete" \in on)
      BY <1>3
    <2>2. ("delete" \in on) = FALSE
      BY ModeFacts
    <2> QED
      BY <2>1, <2>2, Zenon
  <1> HIDE DEF v
  <1>4. v \in [Names -> BOOLEAN \cup Int]
    <2>1. \A k \in Names : v[k] \in BOOLEAN \cup Int
      BY <1>2, <1>3 DEF Names
    <2>2. v = [k \in Names |-> v[k]]
      BY <1>1 DEF v, Selector, Names
    <2> QED
      BY <2>1, <2>2
  <1>5. v \in Views
    BY <1>2, <1>3, <1>4 DEF Views
  <1> QED
    BY <1>2, <1>3, <1>5, <1>6 DEF v

LEMMA ViewStore ==
    ASSUME NEW v \in Views, NEW f, NEW x, Fits(f, x)
    PROVE  [v EXCEPT ![f] = x] \in Views
  <1> DEFINE w == [v EXCEPT ![f] = x]
  <1>1. w \in [Names -> BOOLEAN \cup Int] /\ w[f] = x /\ \A g \in Names : g # f => w[g] = v[g]
    BY DEF Views, Fits, Names
  <1>2. {"sec", "usec", "delete"} \subseteq Names /\ Modes \subseteq Names
    BY DEF Names
  <1>3. \A k \in Modes \cup {"delete"} : v[k] \in BOOLEAN
    BY DEF Views
  <1>4. v.sec \in Int /\ v.usec \in Int
    BY DEF Views
  <1> HIDE DEF w
  <1>5. ASSUME NEW k \in Modes \cup {"delete"} PROVE w[k] \in BOOLEAN
    BY <1>1, <1>2, <1>3 DEF Fits
  <1>6. w.sec \in Int /\ w.usec \in Int
    BY <1>1, <1>2, <1>4 DEF Fits
  <1>7. w \in Views
    BY <1>1, <1>5, <1>6 DEF Views
  <1> QED
    BY <1>7 DEF w

\* u is s but for the field f of selector m.
StoredIn(u, s, m, f, x) ==
    /\ u \in Seq(Views) /\ Len(u) = Len(s)
    /\ u[m][f] = x
    /\ \A g \in Names : g # f => u[m][g] = s[m][g]
    /\ \A n \in DOMAIN s : n # m => u[n] = s[n]

LEMMA SelectorStore ==
    ASSUME NEW s \in Seq(Views), NEW m \in DOMAIN s, NEW f, NEW x, Fits(f, x)
    PROVE  StoredIn([s EXCEPT ![m][f] = x], s, m, f, x)
  <1> DEFINE u == [s EXCEPT ![m][f] = x]
  <1>1. s[m] \in Views /\ m \in 1..Len(s) /\ DOMAIN s = 1..Len(s)
    OBVIOUS
  <1>2. [s[m] EXCEPT ![f] = x] \in Views
    BY <1>1, ViewStore
  <1>3. u = [s EXCEPT ![m] = [s[m] EXCEPT ![f] = x]]
    OBVIOUS
  <1>4. u \in Seq(Views) /\ Len(u) = Len(s) /\ u[m] = [s[m] EXCEPT ![f] = x]
        /\ \A n \in DOMAIN s : n # m => u[n] = s[n]
    BY <1>1, <1>2, <1>3
  <1>5. s[m] \in [Names -> BOOLEAN \cup Int]
    BY <1>1 DEF Views
  <1> HIDE DEF u
  <1>6. u[m][f] = x /\ \A g \in Names : g # f => u[m][g] = s[m][g]
    BY <1>4, <1>5 DEF Fits
  <1> QED
    BY <1>4, <1>6 DEF StoredIn, u

LEMMA MadeFacts ==
    /\ IsArgs(Made) /\ Made.timeout \in Int
    /\ Made \in [Modes \cup {"timeout"} -> BOOLEAN \cup Int]
  <1>1. IsArgs(Made)
    BY MadeAssumption
  <1>2. Made \in [Modes \cup {"timeout"} -> BOOLEAN \cup Int]
    BY MadeAssumption, ModeFacts DEF IsArgs
  <1> QED
    BY <1>1, <1>2 DEF IsArgs
LEMMA InitInv == Init => IInv
  <1> SUFFICES ASSUME Init PROVE IInv
    OBVIOUS
  <1> DEFINE on == {k \in Modes : Made[k]}
             v == Selector(on, Made.timeout)
  <1>1. IsArgs(Made) /\ Made.timeout \in Int /\ \A k \in Modes : Made[k] \in BOOLEAN
    BY MadeFacts DEF IsArgs
  <1>2. /\ v \in Views /\ v.sec = Seconds(Made.timeout) /\ v.usec = Micros(Made.timeout)
        /\ \A k \in Modes : v[k] = (k \in on)
        /\ v["delete"] = FALSE
    BY <1>1, SelectorFacts
  <1>3. selectors = <<v>>
    BY DEF Init, Arranged
  <1>4. DOMAIN own = OwnNames /\ own.timeout = Made.timeout /\ own["delete"] = FALSE
        /\ (\A k \in Modes : own[k] = Made[k])
    BY ModeFacts DEF Init, OwnNames
  <1>5. own \in [OwnNames -> BOOLEAN \cup Int]
    <2>1. \A f \in OwnNames : own[f] \in BOOLEAN \cup Int
      BY <1>1, <1>4 DEF OwnNames
    <2>2. own = [f \in OwnNames |-> own[f]]
      BY DEF Init, OwnNames
    <2> QED
      BY <2>1, <2>2
  <1>6. ASSUME NEW k \in Modes PROVE v[k] = own[k]
    <2>1. v[k] = (k \in on) /\ own[k] = Made[k] /\ Made[k] \in BOOLEAN
      BY <1>1, <1>2, <1>4
    <2>2. k \in on <=> Made[k]
      OBVIOUS
    <2>3. CASE k \in on
      <3>1. (k \in on) = TRUE
        BY <2>3
      <3>2. Made[k] = TRUE
        BY <2>1, <2>2, <2>3
      <3> QED
        BY <2>1, <3>1, <3>2, Zenon
    <2>4. CASE k \notin on
      <3>1. (k \in on) = FALSE
        BY <2>4
      <3>2. Made[k] = FALSE
        BY <2>1, <2>2, <2>4
      <3> QED
        BY <2>1, <3>1, <3>2, Zenon
    <2> QED
      BY <2>3, <2>4
  <1> HIDE DEF v, on
  <1>7. selectors \in Seq(Views) /\ Len(selectors) = 1 /\ selectors[1] = v /\ DOMAIN selectors = 1..1
    BY <1>2, <1>3
  <1>8. ~Setting /\ ~Making /\ setter = NoSetter /\ maker = NoMaker /\ worker = NoWorker
        /\ calls = 0 /\ overlap = {} /\ given = {Made.timeout} /\ slipped = {} /\ deaf = 0
    BY DEF Init, Setting, Making
  <1>9. maker.pc = "idle" /\ maker.j = 1 /\ maker.args = Made
        /\ maker \in [pc : {"idle", "load", "store"}, j : Nat \ {0}, args : {a \in [Modes \cup {"timeout"} -> BOOLEAN \cup Int] : IsArgs(a)}]
    BY <1>8, MadeFacts DEF NoMaker
  <1>10. Shape
    <2>1. /\ \A k \in Modes \cup {"delete"} : own[k] \in BOOLEAN
          /\ own.timeout \in given /\ maker.args.timeout \in given
          /\ given \subseteq Int /\ Made.timeout \in given
      BY <1>1, <1>4, <1>8, <1>9
    <2>2. Len(selectors) \in 1..MaxSelectors /\ calls \in 0..MaxCalls
      BY <1>7, <1>8, MaxAssumption
    <2> QED
      BY <1>5, <1>7, <1>8, <1>9, <2>1, <2>2 DEF Shape
  <1>11. Working
    BY <1>7, <1>8 DEF Working, NoWorker, Settled
  <1>12. OwnStored /\ AllStored /\ Loaded /\ Stored /\ Raced
    BY <1>8, <1>9 DEF OwnStored, AllStored, Loaded, Stored, Raced
  <1>13. ModesAgree
    BY <1>6, <1>7 DEF ModesAgree
  <1>14. TimesAgree
    BY <1>2, <1>4, <1>7 DEF TimesAgree, Holds
  <1>15. Timed
    BY <1>2, <1>7, <1>8, <1>9 DEF Timed, Secs, NoWorker, Micros
  <1>16. Untold
    <2>1. deaf \in 0..Len(selectors) /\ selectors[1]["delete"] = FALSE
      BY <1>2, <1>7, <1>8
    <2>2. \A m \in DOMAIN selectors : selectors[m]["delete"] = own["delete"]
      <3>1. v["delete"] = own["delete"]
        BY <1>2, <1>4, Zenon
      <3>2. \A m \in DOMAIN selectors : selectors[m] = v
        BY <1>7
      <3> QED
        BY <3>1, <3>2, Zenon
    <2> QED
      BY <1>8, <2>1, <2>2 DEF Untold
  <1> QED
    BY <1>10, <1>11, <1>12, <1>13, <1>14, <1>15, <1>16 DEF IInv, Agree

-----------------------------------------------------------------------------
(* The steps of a worker.                                                  *)

LEMMA SecsInt == Shape => Secs \subseteq Int
  BY SecondsInt DEF Shape, Secs

LEMMA AsideKeeps ==
    Shape /\ Agree /\ Aside =>
        /\ Shape' /\ Agree'
        /\ Secs' = Secs /\ selectors' = selectors /\ maker' = maker /\ given' = given
        /\ \A m : Settled(m)' <=> Settled(m)
  <1> SUFFICES ASSUME Shape, Agree, Aside
               PROVE  /\ Shape' /\ Agree'
                      /\ Secs' = Secs /\ selectors' = selectors /\ maker' = maker /\ given' = given
                      /\ \A m : Settled(m)' <=> Settled(m)
    OBVIOUS
  <1>1. /\ own' = own /\ selectors' = selectors /\ setter' = setter /\ maker' = maker
        /\ calls' = calls /\ overlap' = overlap /\ given' = given /\ slipped' = slipped /\ deaf' = deaf
    BY DEF Aside, history
  <1>2. (Setting' <=> Setting) /\ (Making' <=> Making) /\ Secs' = Secs
    BY <1>1 DEF Setting, Making, Secs
  <1>3. \A m : Settled(m)' <=> Settled(m)
    BY <1>1, <1>2 DEF Settled
  <1>4. Shape'
    BY <1>1 DEF Shape
  <1>5. OwnStored' /\ AllStored' /\ Loaded' /\ Stored'
    BY <1>1, <1>2 DEF Agree, OwnStored, AllStored, Loaded, Stored
  <1>6. Raced'
    BY <1>1, <1>2 DEF Agree, Raced
  <1>7. ModesAgree'
    BY <1>1, <1>2, <1>3 DEF Agree, ModesAgree
  <1>8. TimesAgree'
    BY <1>1, <1>2, <1>3 DEF Agree, TimesAgree, Holds
  <1>9. Untold'
    BY <1>1, <1>2, <1>3 DEF Agree, Untold
  <1> QED
    BY <1>1, <1>2, <1>3, <1>4, <1>5, <1>6, <1>7, <1>8, <1>9 DEF Agree

\* What a step of the worker has to show.
LEMMA WorkerKeeps ==
    ASSUME IInv, Aside, Working',
           worker'.pc \in {"usec", "select"} => worker'.sec \in Secs,
           worker'.pc = "select" => worker'.usec \in Secs
    PROVE  IInv'
  <1>1. /\ Shape' /\ Agree'
        /\ Secs' = Secs /\ selectors' = selectors /\ maker' = maker /\ given' = given
        /\ \A m : Settled(m)' <=> Settled(m)
    BY AsideKeeps DEF IInv
  <1>2. Timed'
    BY <1>1 DEF IInv, Timed
  <1> QED
    BY <1>1, <1>2 DEF IInv

LEMMA WorkStep == IInv /\ (Work \/ End \/ \E m \in DOMAIN selectors : Begin(m)) => IInv'
  <1> SUFFICES ASSUME IInv, Work \/ End \/ \E m \in DOMAIN selectors : Begin(m) PROVE IInv'
    OBVIOUS
  <1>0. Aside
    BY DEF Work, End, Begin, LoadMode, Turn, CopyTime, Select, CallbackReturns
  <1>1. /\ selectors' = selectors /\ maker' = maker /\ given' = given
        /\ \A m : Settled(m)' <=> Settled(m)
    BY <1>0, AsideKeeps DEF IInv
  <1>2. /\ worker \in [pc : {"none", "modes", "test", "sec", "usec", "select", "callback", "failed"},
                       m : 1..Len(selectors), left : Seq(Modes), modes : SUBSET Modes,
                       sec : Int, usec : Int]
        /\ worker.pc = "modes" => worker.left # <<>>
        /\ worker.pc # "none" => Settled(worker.m)
    BY DEF IInv, Working
  <1>3. /\ selectors \in Seq(Views) /\ DOMAIN selectors = 1..Len(selectors) /\ Len(selectors) \in Nat \ {0}
        /\ Secs \subseteq Int /\ given \subseteq Int
    BY SecsInt, MaxAssumption DEF IInv, Shape
  <1>4. ASSUME NEW m \in DOMAIN selectors, Begin(m) PROVE IInv'
    <2>1. worker' = [pc |-> "modes", m |-> m, left |-> ModeOrder, modes |-> {}, sec |-> 0, usec |-> 0]
      BY <1>4 DEF Begin, NoWorker
    <2>2. ModeOrder \in Seq(Modes) /\ ModeOrder # <<>>
      BY ModeFacts, ModesAssumption
    <2>3. Settled(m)
      BY <1>4 DEF Begin, Settled
    <2>4. Working'
      BY <1>1, <1>3, <2>1, <2>2, <2>3 DEF Working
    <2> QED
      BY <1>0, <2>1, <2>4, WorkerKeeps
  <1>5. CASE LoadMode
    <2>1. worker.left \in Seq(Modes) /\ worker.left # <<>>
      BY <1>2, <1>5 DEF LoadMode
    <2>2. Head(worker.left) \in Modes /\ Tail(worker.left) \in Seq(Modes)
          /\ (Len(worker.left) # 1 => Tail(worker.left) # <<>>)
      <3>1. Head(worker.left) \in Modes /\ Tail(worker.left) \in Seq(Modes)
        BY <2>1
      <3>2. Len(Tail(worker.left)) = Len(worker.left) - 1 /\ Len(worker.left) \in Nat
        BY <2>1, HeadTailProperties, LenProperties
      <3>3. Tail(worker.left) = <<>> => Len(Tail(worker.left)) = 0
        <4>1. Len(<<>>) = 0
          OBVIOUS
        <4> QED
          BY <4>1, Zenon
      <3>4. Len(worker.left) # 1 => Len(worker.left) - 1 # 0
        BY <3>2
      <3>5. Len(worker.left) # 1 => Tail(worker.left) # <<>>
        BY <3>2, <3>3, <3>4, Zenon
      <3> QED
        BY <3>1, <3>5, Zenon
    <2> DEFINE k == Head(worker.left)
               modes == IF selectors[worker.m][k] THEN worker.modes \cup {k} ELSE worker.modes
               pc == IF Len(worker.left) = 1 THEN "test" ELSE "modes"
    <2>3. /\ worker' = [worker EXCEPT !.left = Tail(worker.left), !.modes = modes, !.pc = pc]
          /\ modes \in SUBSET Modes /\ pc \in {"test", "modes"}
          /\ pc = "modes" => Len(worker.left) # 1
      <3>1. worker' = [worker EXCEPT !.left = Tail(worker.left), !.modes = modes, !.pc = pc]
        BY <1>5 DEF LoadMode
      <3>2. worker.modes \in SUBSET Modes
        BY <1>2
      <3> QED
        BY <2>2, <3>1, <3>2
    <2> HIDE DEF modes, pc
    <2>4. worker.pc # "none"
      BY <1>5 DEF LoadMode
    <2>5. Working'
      BY <1>1, <1>2, <2>2, <2>3, <2>4 DEF Working
    <2> QED
      BY <1>0, <1>2, <2>3, <2>5, WorkerKeeps
  <1>6. CASE Turn
    <2>1. worker' = [worker EXCEPT !.pc = "sec"] /\ worker.pc = "test"
      BY <1>6 DEF Turn
    <2>2. Working'
      BY <1>1, <1>2, <2>1 DEF Working
    <2> QED
      BY <1>0, <1>2, <2>1, <2>2, WorkerKeeps
  <1>7. ASSUME NEW k \in {"sec", "usec"}, CopyTime(k) PROVE IInv'
    <2>1. worker.pc = k /\ worker.m \in DOMAIN selectors /\ Settled(worker.m)
      BY <1>2, <1>3, <1>7 DEF CopyTime
    <2>2. {selectors[worker.m].sec, selectors[worker.m].usec} \subseteq Secs
      BY <2>1 DEF IInv, Timed
    <2>3. CASE k = "sec"
      <3>1. worker' = [worker EXCEPT !.sec = selectors[worker.m].sec, !.pc = "usec"]
        BY <1>7, <2>3 DEF CopyTime
      <3>2. Working'
        BY <1>1, <1>2, <1>3, <2>1, <2>2, <2>3, <3>1 DEF Working
      <3>3. worker'.pc = "usec" /\ worker'.sec \in Secs
        BY <1>2, <2>2, <3>1
      <3> QED
        BY <1>0, <3>2, <3>3, WorkerKeeps
    <2>4. CASE k = "usec"
      <3>1. worker' = [worker EXCEPT !.usec = selectors[worker.m].usec, !.pc = "select"]
        BY <1>7, <2>4 DEF CopyTime
      <3>2. Working'
        BY <1>1, <1>2, <1>3, <2>1, <2>2, <2>4, <3>1 DEF Working
      <3>3. worker.sec \in Secs
        BY <2>1, <2>4 DEF IInv, Timed
      <3>4. worker'.pc = "select" /\ worker'.sec \in Secs /\ worker'.usec \in Secs
        BY <1>2, <2>2, <3>1, <3>3
      <3> QED
        BY <1>0, <3>2, <3>4, WorkerKeeps
    <2> QED
      BY <2>3, <2>4
  <1>8. CASE Select
    <2>1. PICK pc \in {"failed", "test", "callback"} :
              worker' = [worker EXCEPT !.pc = pc, !.sec = 0, !.usec = 0]
      BY <1>8 DEF Select, After
    <2>2. worker.pc = "select"
      BY <1>8 DEF Select
    <2>3. Working'
      <3>1. worker' \in [pc : {"none", "modes", "test", "sec", "usec", "select", "callback", "failed"},
                         m : 1..Len(selectors), left : Seq(Modes), modes : SUBSET Modes,
                         sec : Int, usec : Int]
            /\ worker'.pc = pc /\ worker'.m = worker.m
        <4>1. worker' = [pc |-> pc, m |-> worker.m, left |-> worker.left, modes |-> worker.modes,
                         sec |-> 0, usec |-> 0]
          BY <1>2, <2>1
        <4>2. worker.m \in 1..Len(selectors) /\ worker.left \in Seq(Modes) /\ worker.modes \in SUBSET Modes
          BY <1>2
        <4> QED
          BY <2>1, <4>1, <4>2
      <3> QED
        BY <1>1, <1>2, <2>2, <3>1 DEF Working
    <2>4. worker'.pc = pc
      BY <1>2, <2>1
    <2> QED
      BY <1>0, <2>3, <2>4, WorkerKeeps
  <1>9. CASE CallbackReturns
    <2>1. worker' = [worker EXCEPT !.pc = "test"] /\ worker.pc = "callback"
      BY <1>9 DEF CallbackReturns
    <2>2. Working'
      BY <1>1, <1>2, <2>1 DEF Working
    <2> QED
      BY <1>0, <1>2, <2>1, <2>2, WorkerKeeps
  <1>10. CASE End
    <2>1. worker' = [pc |-> "none", m |-> 1, left |-> <<>>, modes |-> {}, sec |-> 0, usec |-> 0]
      BY <1>10 DEF End, NoWorker
    <2>2. Working'
      BY <1>1, <1>3, <2>1 DEF Working
    <2> QED
      BY <1>0, <2>1, <2>2, WorkerKeeps
  <1> QED
    BY <1>4, <1>5, <1>6, <1>7, <1>8, <1>9, <1>10 DEF Work
-----------------------------------------------------------------------------
(* The steps of a set function.                                            *)

\* The call that is under way, and its next store.
LEMMA Underway ==
    ASSUME IInv, Setting
    PROVE  /\ setter \in [call : Calls, m : 0..Len(selectors), j : Nat \ {0}]
           /\ WellMade(setter.call)
           /\ setter.j \in DOMAIN Stores(setter.call, setter.m)
           /\ setter.j <= Len(Stores(setter.call, setter.m))
           /\ setter.call.timeout \subseteq given
  <1>1. /\ setter \in [call : Calls, m : 0..Len(selectors), j : Nat \ {0}]
        /\ setter.j <= Len(Stores(setter.call, setter.m))
        /\ setter.call.timeout \subseteq given
    BY DEF IInv, Shape, Setting
  <1>2. WellMade(setter.call)
    BY <1>1, CallMade
  <1>3. /\ DOMAIN setter.call.own = 1..Len(setter.call.own) /\ Len(setter.call.own) \in Nat
        /\ DOMAIN setter.call.all = 1..Len(setter.call.all) /\ Len(setter.call.all) \in Nat
    BY <1>2 DEF WellMade
  <1>4. setter.j \in DOMAIN Stores(setter.call, setter.m)
    BY <1>1, <1>3 DEF Stores
  <1> QED
    BY <1>1, <1>2, <1>4

LEMMA Lists == Shape =>
    /\ selectors \in Seq(Views) /\ DOMAIN selectors = 1..Len(selectors) /\ Len(selectors) \in Nat \ {0}
    /\ own \in [OwnNames -> BOOLEAN \cup Int]
  BY MaxAssumption DEF Shape

\* A call that is setting is none that has just begun.
LEMMA CallSetting ==
    ASSUME NEW call \in Calls, NEW m, NEW j
    PROVE  [call |-> call, m |-> m, j |-> j] # NoSetter
  <1>1. call.own # <<>>
    BY CallMade DEF WellMade
  <1>2. call # NoCall
    BY <1>1 DEF NoCall
  <1> QED
    BY <1>2 DEF NoSetter

\* The fields of a call, those of the timeout together.
LEMMA CallFields ==
    ASSUME NEW call \in Calls
    PROVE  /\ \A i \in DOMAIN call.own : call.own[i][1] \in Fields(call)
           /\ \A i \in DOMAIN call.all : call.all[i][1] \in Fields(call)
           /\ "timeout" \in Fields(call) => "sec" \in Fields(call)
           /\ "delete" \in Fields(call) => "sec" \in Fields(call)
           /\ "sec" \in Fields(call) <=> "usec" \in Fields(call)
  <1>1. /\ \A i \in DOMAIN call.own : call.own[i][1] \in Fields(call)
        /\ \A i \in DOMAIN call.all : call.all[i][1] \in Fields(call)
    BY DEF Fields
  <1>2. \/ Fields(call) \cap {"timeout", "delete", "sec", "usec"} = {}
        \/ \E t \in call.timeout, i, j \in DOMAIN call.all :
               call.all[i] = <<"sec", Seconds(t)>> /\ call.all[j] = <<"usec", Micros(t)>>
    BY CallMade DEF WellMade
  <1>3. CASE Fields(call) \cap {"timeout", "delete", "sec", "usec"} = {}
    BY <1>1, <1>3
  <1>4. ASSUME NEW t, NEW i \in DOMAIN call.all, NEW j \in DOMAIN call.all,
               call.all[i] = <<"sec", Seconds(t)>>, call.all[j] = <<"usec", Micros(t)>>
        PROVE  "sec" \in Fields(call) /\ "usec" \in Fields(call)
    <2>1. call.all[i][1] = "sec" /\ call.all[j][1] = "usec"
      BY <1>4
    <2> QED
      BY <1>1, <2>1
  <1> QED
    BY <1>1, <1>2, <1>3, <1>4

LEMMA CallStep == ASSUME IInv, NEW call \in Calls, Call(call) PROVE IInv'
  <1>1. /\ ~Setting /\ calls < MaxCalls
        /\ setter' = [call |-> call, m |-> 0, j |-> 1] /\ calls' = calls + 1
        /\ overlap' = IF Making THEN overlap \cup Fields(call) ELSE overlap
        /\ given' = given \cup call.timeout
        /\ slipped' = IF "delete" \in Fields(call) THEN slipped \cup call.timeout
                      ELSE IF "timeout" \in Fields(call) THEN {} ELSE slipped
        /\ deaf' = IF "delete" \in Fields(call) THEN Len(selectors) ELSE deaf
        /\ own' = own /\ selectors' = selectors /\ maker' = maker /\ worker' = worker
    BY DEF Call
  <1>2. WellMade(call)
    BY CallMade
  <1>3. /\ Setting' /\ setter'.call = call /\ setter'.m = 0 /\ setter'.j = 1
        /\ (Making' <=> Making) /\ \A m : Settled(m)' <=> Settled(m)
    BY <1>1, CallSetting DEF Setting, Making, Settled
  <1>4. /\ \A i \in DOMAIN call.own : call.own[i][1] \in Fields(call)
        /\ \A i \in DOMAIN call.all : call.all[i][1] \in Fields(call)
        /\ "timeout" \in Fields(call) => "sec" \in Fields(call)
        /\ "delete" \in Fields(call) => "sec" \in Fields(call)
        /\ "sec" \in Fields(call) <=> "usec" \in Fields(call)
    BY CallFields
  <1>5. overlap \subseteq overlap'
    BY <1>1
  <1>6. DOMAIN call.own = 1..Len(call.own) /\ DOMAIN call.all = 1..Len(call.all)
        /\ Len(call.own) \in Nat \ {0} /\ Len(call.all) \in Nat \ {0} /\ call.timeout \subseteq Int
    BY <1>2 DEF WellMade
  <1>7. Len(selectors) \in Nat \ {0} /\ DOMAIN selectors = 1..Len(selectors)
    BY Lists DEF IInv
  <1>8. Shape'
    <2>1. /\ setter' \in [call : Calls, m : 0..Len(selectors), j : Nat \ {0}]
          /\ setter'.j <= Len(Stores(setter'.call, setter'.m))
          /\ setter'.call.timeout \subseteq given'
      BY <1>1, <1>3, <1>6, <1>7 DEF Stores
    <2>2. calls' \in 0..MaxCalls
      BY <1>1, MaxAssumption DEF IInv, Shape
    <2>3. given' \subseteq Int /\ given \subseteq given'
      BY <1>1, <1>6 DEF IInv, Shape
    <2> QED
      BY <1>1, <2>1, <2>2, <2>3 DEF IInv, Shape
  <1>9. Working'
    BY <1>1, <1>3 DEF IInv, Working
  <1>10. OwnStored' /\ AllStored'
    BY <1>1, <1>3, <1>6, <1>7 DEF OwnStored, AllStored
  <1>11. Loaded' /\ Stored'
    BY <1>1, <1>3, <1>5 DEF IInv, Agree, Loaded, Stored
  <1>12. Raced'
    BY <1>1, <1>3, <1>4 DEF IInv, Agree, Raced
  <1>13. ModesAgree'
    BY <1>1, <1>3, <1>5 DEF IInv, Agree, ModesAgree
  <1>14. TimesAgree'
    <2> SUFFICES ASSUME "sec" \notin overlap', "sec" \notin Fields(call), NEW m \in DOMAIN selectors, Settled(m)
                 PROVE  \E t \in {own.timeout} \cup slipped' : Holds(selectors[m], t)
      BY <1>1, <1>3 DEF TimesAgree, Holds
    <2>1. slipped' = slipped /\ "sec" \notin overlap
      BY <1>1, <1>4, <1>5
    <2> QED
      BY <1>1, <2>1 DEF IInv, Agree, TimesAgree
  <1>15. Timed'
    <2>1. Secs \subseteq Secs'
      BY <1>1 DEF Secs
    <2>2. given \subseteq given'
      BY <1>1
    <2> QED
      BY <1>1, <1>3, <2>1, <2>2 DEF IInv, Timed
  <1>16. Untold'
    <2>1. deaf \in 0..Len(selectors) /\ (Making => Len(selectors) > 1) /\ selectors[1]["delete"] = FALSE
      BY DEF IInv, Agree, Untold
    <2>2. deaf' \in 0..Len(selectors)
      BY <1>1, <1>7, <2>1
    <2>3. CASE "delete" \in Fields(call)
      BY <1>1, <1>3, <2>1, <2>2, <2>3 DEF Untold
    <2>4. CASE "delete" \notin Fields(call)
      <3>1. "delete" \notin overlap' =>
                \A m \in DOMAIN selectors :
                    Settled(m) /\ m > deaf => selectors[m]["delete"] = own["delete"]
        BY <1>1, <1>5 DEF IInv, Agree, Untold
      <3>2. deaf' = deaf
        BY <1>1, <2>4
      <3> QED
        BY <1>1, <1>3, <2>1, <2>2, <2>4, <3>1, <3>2 DEF Untold
    <2> QED
      BY <2>3, <2>4
  <1> QED
    BY <1>8, <1>9, <1>10, <1>11, <1>12, <1>13, <1>14, <1>15, <1>16 DEF IInv, Agree

\* Where the loops of a set function go on.
LEMMA StoreGoesOn ==
    ASSUME IInv, Store
    PROVE  /\ Setting
           /\ \/ /\ Setting' /\ setter'.call = setter.call /\ setter'.m = setter.m
                 /\ setter'.j = setter.j + 1 /\ setter.j < Len(Stores(setter.call, setter.m))
              \/ /\ Setting' /\ setter'.call = setter.call /\ setter'.m = setter.m + 1
                 /\ setter'.j = 1 /\ setter.j = Len(Stores(setter.call, setter.m))
                 /\ setter.m < Len(selectors)
              \/ /\ setter' = NoSetter
                 /\ setter.j = Len(Stores(setter.call, setter.m)) /\ setter.m = Len(selectors)
           /\ setter' # NoSetter => setter' \in [call : Calls, m : 0..Len(selectors), j : Nat \ {0}]
                                    /\ setter'.j <= Len(Stores(setter'.call, setter'.m))
  <1>0. Setting
    BY DEF Store
  <1>1. /\ setter \in [call : Calls, m : 0..Len(selectors), j : Nat \ {0}]
        /\ WellMade(setter.call) /\ setter.j <= Len(Stores(setter.call, setter.m))
    BY <1>0, Underway
  <1>2. Len(setter.call.own) \in Nat \ {0} /\ Len(setter.call.all) \in Nat \ {0}
    BY <1>1 DEF WellMade
  <1>3. Len(Stores(setter.call, setter.m)) \in Nat
    BY <1>2 DEF Stores
  <1>4. Len(selectors) \in Nat \ {0}
    BY Lists DEF IInv
  <1>5. setter' = IF setter.j < Len(Stores(setter.call, setter.m)) THEN [setter EXCEPT !.j = @ + 1]
                  ELSE IF setter.m = Len(selectors) THEN NoSetter ELSE [setter EXCEPT !.m = @ + 1, !.j = 1]
    BY DEF Store, Stores, Last
  <1>6. CASE setter.j < Len(Stores(setter.call, setter.m))
    <2>1. setter' = [call |-> setter.call, m |-> setter.m, j |-> setter.j + 1]
      BY <1>1, <1>5, <1>6
    <2> QED
      BY <1>0, <1>1, <1>3, <1>6, <2>1, CallSetting DEF Setting
  <1>7. CASE setter.j = Len(Stores(setter.call, setter.m)) /\ setter.m = Len(selectors)
    BY <1>0, <1>5, <1>7, <1>1, <1>3
  <1>8. CASE setter.j = Len(Stores(setter.call, setter.m)) /\ setter.m # Len(selectors)
    <2>1. setter' = [call |-> setter.call, m |-> setter.m + 1, j |-> 1]
      <3>1. ~(setter.j < Len(Stores(setter.call, setter.m)))
        BY <1>3, <1>8
      <3>2. setter' = [setter EXCEPT !.m = setter.m + 1, !.j = 1]
        BY <1>5, <1>8, <3>1
      <3> QED
        BY <1>1, <3>2
    <2>2. setter.m < Len(selectors) /\ setter.m + 1 # 0
      BY <1>1, <1>4, <1>8
    <2>3. Stores(setter.call, setter.m + 1) = setter.call.all
      BY <2>2 DEF Stores
    <2> QED
      BY <1>0, <1>1, <1>2, <1>4, <1>8, <2>1, <2>2, <2>3, CallSetting DEF Setting
  <1> QED
    BY <1>1, <1>3, <1>6, <1>7, <1>8
LEMMA StoreOwnStep == ASSUME IInv, Store, setter.m = 0 PROVE IInv'
  <1> DEFINE call == setter.call
             f == call.own[setter.j][1]
             x == call.own[setter.j][2]
  <1>1. /\ Setting
        /\ \/ Setting' /\ setter'.call = call /\ setter'.m = 0 /\ setter'.j = setter.j + 1
           \/ Setting' /\ setter'.call = call /\ setter'.m = 1 /\ setter'.j = 1 /\ setter.j = Len(call.own)
        /\ setter' # NoSetter => setter' \in [call : Calls, m : 0..Len(selectors), j : Nat \ {0}]
                                 /\ setter'.j <= Len(Stores(setter'.call, setter'.m))
    <2>1. Len(selectors) \in Nat \ {0}
      BY Lists DEF IInv
    <2> QED
      BY <2>1, StoreGoesOn DEF Stores
  <1>2. /\ call \in Calls /\ setter.j \in Nat \ {0} /\ WellMade(call) /\ setter.j \in DOMAIN call.own
        /\ call.timeout \subseteq given
    BY <1>1, Underway DEF Stores
  <1>3. /\ own' = [own EXCEPT ![f] = x] /\ selectors' = selectors
        /\ maker' = maker /\ worker' = worker /\ calls' = calls
        /\ overlap' = overlap /\ given' = given /\ slipped' = slipped /\ deaf' = deaf
    BY DEF Store, history
  <1>4. own \in [OwnNames -> BOOLEAN \cup Int] /\ DOMAIN selectors = 1..Len(selectors) /\ Len(selectors) \in Nat \ {0}
    BY Lists DEF IInv
  <1>5. /\ f \in OwnNames /\ f \in Fields(call)
        /\ (f \in Modes \cup {"delete"} => x \in BOOLEAN)
        /\ (f = "timeout" => x \in call.timeout)
    BY <1>2, CallFields DEF WellMade
  <1>6. /\ \A i, k \in DOMAIN call.own : call.own[i][1] = call.own[k][1] => i = k
        /\ \A i \in DOMAIN call.own : call.own[i][1] \in OwnNames
        /\ DOMAIN call.own = 1..Len(call.own) /\ Len(call.own) \in Nat
    BY <1>2 DEF WellMade
  <1> HIDE DEF f, x
  <1>7. own'[f] = x /\ \A g \in OwnNames : g # f => own'[g] = own[g]
    BY <1>3, <1>4, <1>5
  <1>8. (Making' <=> Making) /\ (\A m : Settled(m)' <=> Settled(m)) /\ Secs' = Secs
    BY <1>3 DEF Making, Settled, Secs
  <1>9. Modes \cup {"delete", "timeout"} \subseteq OwnNames
    BY DEF OwnNames
  <1>10. given \subseteq Int
    BY DEF IInv, Shape
  <1>11. Shape'
    <2>1. own' \in [OwnNames -> BOOLEAN \cup Int]
      <3>1. x \in BOOLEAN \cup Int
        BY <1>2, <1>5, <1>10 DEF OwnNames
      <3> QED
        BY <1>3, <1>4, <3>1
    <2>2. \A k \in Modes \cup {"delete"} : own'[k] \in BOOLEAN
      BY <1>5, <1>7, <1>9 DEF IInv, Shape
    <2>3. own'.timeout \in given
      BY <1>2, <1>5, <1>7, <1>9 DEF IInv, Shape
    <2>4. \/ setter' = NoSetter
          \/ /\ setter' \in [call : Calls, m : 0..Len(selectors), j : Nat \ {0}]
             /\ setter'.j <= Len(Stores(setter'.call, setter'.m))
             /\ setter'.call.timeout \subseteq given
      BY <1>1, <1>2
    <2> QED
      BY <1>3, <2>1, <2>2, <2>3, <2>4 DEF IInv, Shape
  <1>12. Working'
    BY <1>3, <1>8 DEF IInv, Working
  <1>13. OwnStored'
    <2> SUFFICES ASSUME NEW i \in DOMAIN call.own, i <= setter.j
                 PROVE  own'[call.own[i][1]] = call.own[i][2]
      BY <1>1, <1>2, <1>6 DEF OwnStored
    <2>1. CASE i = setter.j
      BY <1>7, <2>1 DEF f, x
    <2>2. CASE i # setter.j
      <3>1. i < setter.j
        BY <1>2, <1>6, <2>2
      <3>2. own[call.own[i][1]] = call.own[i][2]
        BY <1>1, <3>1 DEF IInv, Agree, OwnStored
      <3>3. call.own[i][1] # f
        BY <1>2, <1>6, <2>2 DEF f
      <3> QED
        BY <1>6, <1>7, <3>2, <3>3
    <2> QED
      BY <2>1, <2>2
  <1>14. AllStored'
    <2> SUFFICES ASSUME NEW m \in DOMAIN selectors, NEW i \in DOMAIN call.all,
                        m < setter'.m \/ (m = setter'.m /\ i < setter'.j)
                 PROVE  FALSE
      BY <1>1, <1>3 DEF AllStored
    <2>1. DOMAIN call.all = 1..Len(call.all)
      BY <1>2 DEF WellMade
    <2> QED
      BY <1>1, <1>4, <2>1
  <1>15. Making => f \in overlap
    BY <1>1, <1>5 DEF IInv, Agree, Raced
  <1>16. Loaded'
    <2> SUFFICES ASSUME Making, NEW i \in DOMAIN Arguments, maker.pc = "store" \/ i < maker.j,
                        Arguments[i] \notin overlap
                 PROVE  maker.args[Arguments[i]] = own'[Arguments[i]]
      BY <1>3, <1>8 DEF Loaded
    <2>1. maker.args[Arguments[i]] = own[Arguments[i]]
      BY DEF IInv, Agree, Loaded
    <2>2. Arguments[i] # f /\ Arguments[i] \in OwnNames
      BY <1>9, <1>15, ArgumentsFacts
    <2> QED
      BY <1>7, <2>1, <2>2
  <1>17. Stored'
    BY <1>3 DEF IInv, Agree, Stored
  <1>18. Setting' /\ setter'.call = call
    BY <1>1
  <1>19. Raced'
    BY <1>1, <1>3, <1>8, <1>18 DEF IInv, Agree, Raced
  <1>20. ModesAgree'
    <2> SUFFICES ASSUME NEW m \in DOMAIN selectors, NEW k \in Modes \ overlap, Settled(m),
                        k \notin Fields(call)
                 PROVE  selectors[m][k] = own'[k]
      BY <1>3, <1>8, <1>18 DEF ModesAgree
    <2>1. selectors[m][k] = own[k]
      BY DEF IInv, Agree, ModesAgree
    <2> QED
      BY <1>5, <1>7, <1>9, <2>1
  <1>21. TimesAgree'
    <2> SUFFICES ASSUME "sec" \notin overlap, "sec" \notin Fields(call), NEW m \in DOMAIN selectors, Settled(m)
                 PROVE  \E t \in {own'.timeout} \cup slipped : Holds(selectors[m], t)
      BY <1>3, <1>8, <1>18 DEF TimesAgree, Holds
    <2>1. \E t \in {own.timeout} \cup slipped : Holds(selectors[m], t)
      BY DEF IInv, Agree, TimesAgree
    <2>2. "timeout" # f
      BY <1>2, <1>5, CallFields
    <2>3. own'.timeout = own.timeout
      BY <1>7, <1>9, <2>2
    <2> QED
      BY <2>1, <2>3
  <1>22. Timed'
    BY <1>3, <1>8 DEF IInv, Timed
  <1>23. Untold'
    <2>1. "delete" \notin Fields(call) => own'["delete"] = own["delete"]
      BY <1>5, <1>7, <1>9
    <2> QED
      BY <1>1, <1>3, <1>8, <1>18, <2>1 DEF IInv, Agree, Untold
  <1> QED
    BY <1>11, <1>12, <1>13, <1>14, <1>16, <1>17, <1>19, <1>20, <1>21, <1>22, <1>23 DEF IInv, Agree

LEMMA StoreAllStep == ASSUME IInv, Store, setter.m # 0 PROVE IInv'
  <1> DEFINE call == setter.call
             f == call.all[setter.j][1]
             x == call.all[setter.j][2]
  <1>1. /\ Setting
        /\ \/ Setting' /\ setter'.call = call /\ setter'.m = setter.m /\ setter'.j = setter.j + 1
           \/ /\ Setting' /\ setter'.call = call /\ setter'.m = setter.m + 1 /\ setter'.j = 1
              /\ setter.j = Len(call.all)
           \/ ~Setting' /\ setter.j = Len(call.all) /\ setter.m = Len(selectors)
        /\ setter' # NoSetter => setter' \in [call : Calls, m : 0..Len(selectors), j : Nat \ {0}]
                                 /\ setter'.j <= Len(Stores(setter'.call, setter'.m))
        /\ setter' # NoSetter => setter'.call = call
    BY StoreGoesOn DEF Stores, Setting
  <1>2. /\ call \in Calls /\ setter.j \in Nat \ {0} /\ setter.m \in 1..Len(selectors)
        /\ WellMade(call) /\ setter.j \in DOMAIN call.all /\ call.timeout \subseteq given
    BY <1>1, Underway DEF Stores
  <1>3. /\ selectors' = [selectors EXCEPT ![setter.m][f] = x] /\ own' = own
        /\ maker' = maker /\ worker' = worker /\ calls' = calls
        /\ overlap' = overlap /\ given' = given /\ slipped' = slipped /\ deaf' = deaf
    BY DEF Store, history
  <1>4. /\ selectors \in Seq(Views) /\ DOMAIN selectors = 1..Len(selectors)
        /\ Len(selectors) \in Nat \ {0} /\ given \subseteq Int
    BY Lists DEF IInv, Shape
  <1>5. /\ f \in Modes \cup {"sec", "usec"} /\ f \in Fields(call)
        /\ (f \in Modes => x \in BOOLEAN)
        /\ (f \in {"sec", "usec"} => \E t \in call.timeout : x = Seconds(t))
    BY <1>2, CallFields DEF WellMade
  <1>6. /\ \A i, k \in DOMAIN call.all : call.all[i][1] = call.all[k][1] => i = k
        /\ \A i \in DOMAIN call.all : call.all[i][1] \in Modes \cup {"sec", "usec"}
        /\ DOMAIN call.all = 1..Len(call.all) /\ Len(call.all) \in Nat
    BY <1>2 DEF WellMade
  <1> HIDE DEF f, x
  <1>7. /\ Secs' = Secs /\ Secs \subseteq Int
        /\ f \in {"sec", "usec"} => x \in Secs
    BY <1>2, <1>3, <1>5, SecsInt DEF Secs, IInv
  <1>8. Fits(f, x)
    <2>1. f # "delete" /\ f \in Names
      BY <1>5, ModeFacts DEF Names
    <2> QED
      BY <1>5, <1>7, <2>1 DEF Fits
  <1>9. /\ selectors' \in Seq(Views) /\ Len(selectors') = Len(selectors)
        /\ DOMAIN selectors' = DOMAIN selectors
        /\ selectors'[setter.m][f] = x
        /\ \A g \in Names : g # f => selectors'[setter.m][g] = selectors[setter.m][g]
        /\ \A n \in DOMAIN selectors : n # setter.m => selectors'[n] = selectors[n]
    <2>1. setter.m \in DOMAIN selectors
      BY <1>2, <1>4
    <2>2. /\ selectors' \in Seq(Views) /\ Len(selectors') = Len(selectors)
          /\ selectors'[setter.m][f] = x
          /\ \A g \in Names : g # f => selectors'[setter.m][g] = selectors[setter.m][g]
          /\ \A n \in DOMAIN selectors : n # setter.m => selectors'[n] = selectors[n]
      <3>1. selectors \in Seq(Views)
        BY <1>4
      <3>2. StoredIn([selectors EXCEPT ![setter.m][f] = x], selectors, setter.m, f, x)
        BY <3>1, <1>8, <2>1, SelectorStore, Zenon
      <3> QED
        BY <1>3, <3>2, Zenon DEF StoredIn
    <2>3. DOMAIN selectors' = 1..Len(selectors')
      BY <2>2
    <2> QED
      BY <1>4, <2>2, <2>3
  <1>10. Modes \cup {"sec", "usec"} \subseteq Names
    BY DEF Names
  <1>11. \A n \in DOMAIN selectors, g \in Names : g # f => selectors'[n][g] = selectors[n][g]
    BY <1>9
  <1>12. (Making' <=> Making) /\ (\A m : Settled(m)' <=> Settled(m))
    BY <1>3, <1>9 DEF Making, Settled
  <1>13. Making => f \in overlap
    BY <1>1, <1>5 DEF IInv, Agree, Raced
  \* What is stored now.
  <1>14. ASSUME NEW n \in DOMAIN selectors, NEW i \in DOMAIN call.all, call.all[i][1] \notin overlap,
                n < setter.m \/ (n = setter.m /\ i <= setter.j)
         PROVE  selectors'[n][call.all[i][1]] = call.all[i][2]
    <2>1. CASE n = setter.m /\ i = setter.j
      BY <1>9, <2>1 DEF f, x
    <2>2. CASE n = setter.m /\ i # setter.j
      <3>1. i < setter.j
        BY <1>2, <1>6, <1>14, <2>2
      <3>2. selectors[n][call.all[i][1]] = call.all[i][2]
        BY <1>1, <1>14, <2>2, <3>1 DEF IInv, Agree, AllStored
      <3>3. call.all[i][1] # f
        BY <1>2, <1>6, <2>2 DEF f
      <3> QED
        BY <1>6, <1>10, <1>11, <3>2, <3>3
    <2>3. CASE n # setter.m
      <3>1. selectors[n][call.all[i][1]] = call.all[i][2]
        BY <1>1, <1>14, <2>3 DEF IInv, Agree, AllStored
      <3> QED
        BY <1>9, <2>3, <3>1
    <2> QED
      BY <2>1, <2>2, <2>3
  <1>15. Shape'
    BY <1>1, <1>2, <1>3, <1>9 DEF IInv, Shape
  <1>16. Working'
    BY <1>3, <1>9, <1>12 DEF IInv, Working
  <1>17. OwnStored'
    BY <1>1, <1>2, <1>3, <1>4 DEF IInv, Agree, OwnStored
  <1>18. AllStored'
    <2> SUFFICES ASSUME Setting', NEW n \in DOMAIN selectors, NEW i \in DOMAIN call.all,
                        call.all[i][1] \notin overlap,
                        n < setter'.m \/ (n = setter'.m /\ i < setter'.j)
                 PROVE  selectors'[n][call.all[i][1]] = call.all[i][2]
      BY <1>1, <1>3, <1>9 DEF AllStored, Setting
    <2>1. n < setter.m \/ (n = setter.m /\ i <= setter.j)
      BY <1>1, <1>2, <1>4, <1>6
    <2> QED
      BY <1>14, <2>1
  <1>19. Loaded'
    BY <1>3, <1>12 DEF IInv, Agree, Loaded
  <1>20. Stored'
    <2> SUFFICES ASSUME maker.pc = "store", NEW i \in DOMAIN Args(maker.args), i < maker.j,
                        Args(maker.args)[i][1] \notin overlap
                 PROVE  selectors'[Len(selectors)][Args(maker.args)[i][1]] = Args(maker.args)[i][2]
      BY <1>3, <1>9 DEF Stored
    <2>1. selectors[Len(selectors)][Args(maker.args)[i][1]] = Args(maker.args)[i][2]
      BY DEF IInv, Agree, Stored
    <2>2. Making
      BY DEF Making, NoMaker
    <2>3. Args(maker.args)[i][1] \in Modes \cup {"sec", "usec"}
      <3>1. i \in 1..L \/ i = L + 1 \/ i = L + 2
        BY ArgsFacts, ModeFacts
      <3> QED
        BY <3>1, ArgsFacts, ModeFacts
    <2>4. Args(maker.args)[i][1] # f /\ Len(selectors) \in DOMAIN selectors
      BY <1>4, <1>13, <2>2
    <2> QED
      BY <1>10, <1>11, <2>1, <2>3, <2>4
  <1>21. Raced'
    BY <1>1, <1>3, <1>12 DEF IInv, Agree, Raced, Setting
  \* The last store is that to the last selector.
  <1>22. ASSUME ~Setting', NEW n \in DOMAIN selectors, NEW i \in DOMAIN call.all, call.all[i][1] \notin overlap
         PROVE  selectors'[n][call.all[i][1]] = call.all[i][2]
    <2>1. n < setter.m \/ (n = setter.m /\ i <= setter.j)
      BY <1>1, <1>4, <1>6, <1>22
    <2> QED
      BY <1>14, <1>22, <2>1
  <1>23. ModesAgree'
    <2> SUFFICES ASSUME NEW m \in DOMAIN selectors, NEW k \in Modes \ overlap, Settled(m),
                        ~(Setting' /\ k \in Fields(call))
                 PROVE  selectors'[m][k] = own[k]
      BY <1>1, <1>3, <1>9, <1>12 DEF ModesAgree, Setting
    <2>1. CASE k \notin Fields(call)
      <3>1. selectors[m][k] = own[k]
        BY <2>1 DEF IInv, Agree, ModesAgree
      <3> QED
        BY <1>5, <1>10, <1>11, <2>1, <3>1
    <2>2. CASE k \in Fields(call)
      <3>1. PICK i \in DOMAIN call.own, j \in DOMAIN call.all :
                call.own[i][1] = k /\ call.all[j] = call.own[i]
        BY <1>2, <2>2, SMTT(30) DEF WellMade
      <3>2. own[k] = call.own[i][2]
        BY <1>1, <1>2, <1>4, <3>1 DEF IInv, Agree, OwnStored
      <3>3. selectors'[m][call.all[j][1]] = call.all[j][2]
        BY <1>22, <2>2, <3>1
      <3> QED
        BY <3>1, <3>2, <3>3
    <2> QED
      BY <2>1, <2>2
  <1>24. TimesAgree'
    <2> SUFFICES ASSUME "sec" \notin overlap, ~(Setting' /\ "sec" \in Fields(call)),
                        NEW m \in DOMAIN selectors, Settled(m)
                 PROVE  \E t \in {own.timeout} \cup slipped : Holds(selectors'[m], t)
      BY <1>1, <1>3, <1>9, <1>12 DEF TimesAgree, Holds, Setting
    <2>0. "usec" \notin overlap
      BY DEF IInv, Agree, Raced
    <2>1. CASE "sec" \notin Fields(call)
      <3>1. PICK t \in {own.timeout} \cup slipped : Holds(selectors[m], t)
        BY <2>1 DEF IInv, Agree, TimesAgree
      <3>2. f # "sec" /\ f # "usec"
        BY <1>2, <1>5, <2>1, CallFields
      <3>3. selectors'[m]["sec"] = selectors[m]["sec"] /\ selectors'[m]["usec"] = selectors[m]["usec"]
        BY <1>10, <1>11, <3>2
      <3> QED
        BY <3>1, <3>3 DEF Holds
    <2>2. CASE "sec" \in Fields(call)
      <3>1. PICK t \in call.timeout :
              /\ \E i, j \in DOMAIN call.all :
                     call.all[i] = <<"sec", Seconds(t)>> /\ call.all[j] = <<"usec", Micros(t)>>
              /\ \/ "delete" \in Fields(call)
                 \/ \E i \in DOMAIN call.own : call.own[i] = <<"timeout", t>>
        BY <1>2, <2>2 DEF WellMade
      <3>2. PICK i \in DOMAIN call.all, j \in DOMAIN call.all :
                call.all[i] = <<"sec", Seconds(t)>> /\ call.all[j] = <<"usec", Micros(t)>>
        BY <3>1
      <3>3. selectors'[m][call.all[i][1]] = call.all[i][2] /\ selectors'[m][call.all[j][1]] = call.all[j][2]
        BY <1>22, <2>0, <2>2, <3>2
      <3>4. Holds(selectors'[m], t)
        BY <3>2, <3>3 DEF Holds
      <3>5. CASE "delete" \in Fields(call)
        BY <1>1, <3>4, <3>5 DEF IInv, Agree, Raced
      <3>6. ASSUME NEW k \in DOMAIN call.own, call.own[k] = <<"timeout", t>> PROVE t = own.timeout
        <4>1. own[call.own[k][1]] = call.own[k][2]
          BY <1>1, <1>2, <1>4 DEF IInv, Agree, OwnStored
        <4> QED
          BY <3>6, <4>1
      <3> QED
        BY <3>1, <3>4, <3>5, <3>6
    <2> QED
      BY <2>1, <2>2
  <1>25. Timed'
    <2>1. ASSUME NEW n \in DOMAIN selectors, NEW g \in {"sec", "usec"}, selectors[n][g] \in Secs
          PROVE  selectors'[n][g] \in Secs
      BY <1>7, <1>9, <1>10, <1>11, <2>1
    <2>2. \A m \in DOMAIN selectors : Settled(m) => selectors'[m].sec \in Secs /\ selectors'[m].usec \in Secs
      BY <2>1 DEF IInv, Timed
    <2>3. /\ maker.pc = "store" /\ maker.j > Len(ModeOrder) + 1 => selectors'[Len(selectors)].sec \in Secs
          /\ maker.pc = "store" /\ maker.j > Len(ModeOrder) + 2 => selectors'[Len(selectors)].usec \in Secs
      <3>1. Len(selectors) \in DOMAIN selectors
        BY <1>4
      <3> QED
        BY <2>1, <3>1 DEF IInv, Timed
    <2>4. /\ worker.pc \in {"usec", "select"} => worker.sec \in Secs
          /\ worker.pc = "select" => worker.usec \in Secs
      BY DEF IInv, Timed
    <2> QED
      BY <1>3, <1>7, <1>9, <1>12, <2>2, <2>3, <2>4 DEF Timed
  <1>26. Untold'
    <2>1. \A n \in DOMAIN selectors : selectors'[n]["delete"] = selectors[n]["delete"]
      <3>1. "delete" \in Names /\ f # "delete"
        BY <1>5, ModeFacts DEF Names
      <3> QED
        BY <1>11, <3>1
    <2>2. deaf \in 0..Len(selectors) /\ (Making => Len(selectors) > 1) /\ selectors[1]["delete"] = FALSE
      BY DEF IInv, Agree, Untold
    <2>3. 1 \in DOMAIN selectors
      BY <1>4
    <2>4. CASE Setting' /\ "delete" \in Fields(call)
      <3>1. "delete" \notin overlap => deaf = Len(selectors)
        BY <1>1, <2>4 DEF IInv, Agree, Untold
      <3>2. setter'.call = call
        BY <1>1, <2>4 DEF Setting
      <3> QED
        BY <1>3, <1>9, <1>12, <2>1, <2>2, <2>3, <2>4, <3>1, <3>2 DEF Untold
    <2>5. CASE ~(Setting' /\ "delete" \in Fields(call))
      <3>1. "delete" \notin overlap =>
                \A m \in DOMAIN selectors :
                    Settled(m) /\ m > deaf => selectors[m]["delete"] = own["delete"]
        <4>1. CASE "delete" \in Fields(call)
          <5>1. "delete" \notin overlap => deaf = Len(selectors)
            BY <1>1, <4>1 DEF IInv, Agree, Untold
          <5> QED
            BY <1>4, <5>1
        <4>2. CASE "delete" \notin Fields(call)
          BY <4>2 DEF IInv, Agree, Untold
        <4> QED
          BY <4>1, <4>2
      <3>2. ~(Setting' /\ "delete" \in Fields(setter'.call))
        BY <1>1, <2>5 DEF Setting
      <3> QED
        BY <1>3, <1>9, <1>12, <2>1, <2>2, <2>3, <3>1, <3>2 DEF Untold
    <2> QED
      BY <2>4, <2>5
  <1> QED
    BY <1>15, <1>16, <1>17, <1>18, <1>19, <1>20, <1>21, <1>23, <1>24, <1>25, <1>26 DEF IInv, Agree
-----------------------------------------------------------------------------
(* The steps of newSelector().                                             *)

LEMMA GrowStep == ASSUME IInv, Grow PROVE IInv'
  <1>1. /\ ~Making /\ Len(selectors) < MaxSelectors
        /\ selectors' = Append(selectors, Fresh)
        /\ maker' = [pc |-> "load", j |-> 1, args |-> Made]
        /\ overlap' = IF Setting THEN overlap \cup Fields(setter.call) ELSE overlap
        /\ own' = own /\ setter' = setter /\ worker' = worker /\ calls' = calls
        /\ given' = given /\ slipped' = slipped /\ deaf' = deaf
    BY DEF Grow, NoMaker
  <1>2. /\ selectors \in Seq(Views) /\ DOMAIN selectors = 1..Len(selectors) /\ Len(selectors) \in Nat \ {0}
    BY Lists DEF IInv
  <1>3. Fresh \in Views
    <2>1. {} \in SUBSET Modes /\ 50 \in Int
      OBVIOUS
    <2> QED
      BY <2>1, SelectorFacts, Zenon DEF Fresh
  <1>4. /\ selectors' \in Seq(Views) /\ Len(selectors') = Len(selectors) + 1
        /\ DOMAIN selectors' = 1..(Len(selectors) + 1)
        /\ \A n \in DOMAIN selectors : selectors'[n] = selectors[n]
    BY <1>1, <1>2, <1>3
  <1>5. Making' /\ maker'.pc = "load" /\ maker'.j = 1 /\ maker'.args = Made
    BY <1>1 DEF Making, NoMaker
  <1>6. /\ (Setting' <=> Setting)
        /\ \A n \in DOMAIN selectors : n \in DOMAIN selectors' /\ Settled(n) /\ Settled(n)'
        /\ \A n \in DOMAIN selectors' : Settled(n)' => n \in DOMAIN selectors
        /\ Secs' = Secs
    BY <1>1, <1>2, <1>4, <1>5 DEF Setting, Settled, Secs
  <1>7. overlap \subseteq overlap'
    BY <1>1
  <1>8. Setting => /\ setter.call \in Calls /\ setter.m \in 0..Len(selectors)
                   /\ \A i \in DOMAIN setter.call.all : setter.call.all[i][1] \in Fields(setter.call)
                   /\ "timeout" \in Fields(setter.call) => "sec" \in Fields(setter.call)
                   /\ "sec" \in Fields(setter.call) <=> "usec" \in Fields(setter.call)
    BY Underway, CallFields
  <1>9. Shape'
    <2>1. Len(selectors') \in 1..MaxSelectors
      BY <1>1, <1>2, <1>4, MaxAssumption
    <2>2. \/ setter = NoSetter
          \/ /\ setter \in [call : Calls, m : 0..Len(selectors'), j : Nat \ {0}]
             /\ setter.j <= Len(Stores(setter.call, setter.m))
             /\ setter.call.timeout \subseteq given
      BY <1>2, <1>4 DEF IInv, Shape
    <2>3. maker' \in [pc : {"idle", "load", "store"}, j : Nat \ {0}, args : {a \in [Modes \cup {"timeout"} -> BOOLEAN \cup Int] : IsArgs(a)}]
      BY <1>1, MadeFacts
    <2>4. 1 <= Len(Arguments)
      BY ArgumentsFacts, ModeFacts
    <2> QED
      BY <1>1, <1>4, <1>5, <2>1, <2>2, <2>3, <2>4 DEF IInv, Shape
  <1>10. Working'
    <2>1. worker.m \in DOMAIN selectors /\ worker.m \in 1..Len(selectors')
      BY <1>2, <1>4 DEF IInv, Working
    <2>2. worker \in [pc : {"none", "modes", "test", "sec", "usec", "select", "callback", "failed"},
                      m : 1..Len(selectors'), left : Seq(Modes), modes : SUBSET Modes,
                      sec : Int, usec : Int]
      BY <2>1 DEF IInv, Working
    <2> QED
      BY <1>1, <1>6, <2>1, <2>2 DEF IInv, Working
  <1>11. OwnStored'
    BY <1>1, <1>6 DEF IInv, Agree, OwnStored
  <1>12. AllStored'
    <2> SUFFICES ASSUME Setting, NEW n \in DOMAIN selectors', NEW i \in DOMAIN setter.call.all,
                        n < setter.m \/ (n = setter.m /\ i < setter.j),
                        setter.call.all[i][1] \notin overlap'
                 PROVE  selectors'[n][setter.call.all[i][1]] = setter.call.all[i][2]
      BY <1>1, <1>6 DEF AllStored
    <2>1. n \in DOMAIN selectors
      BY <1>2, <1>4, <1>8
    <2> QED
      BY <1>4, <1>7, <2>1 DEF IInv, Agree, AllStored
  <1>13. Loaded' /\ Stored'
    BY <1>5, ArgumentsFacts, ModeFacts DEF Loaded, Stored
  <1>14. Raced'
    BY <1>1, <1>6, <1>8 DEF IInv, Agree, Raced
  <1>15. ModesAgree'
    <2> SUFFICES ASSUME NEW m \in DOMAIN selectors, NEW k \in Modes \ overlap',
                        ~(Setting /\ k \in Fields(setter.call))
                 PROVE  selectors'[m][k] = own[k]
      BY <1>1, <1>6 DEF ModesAgree
    <2>1. selectors[m][k] = own[k]
      BY <1>6, <1>7 DEF IInv, Agree, ModesAgree
    <2> QED
      BY <1>4, <2>1
  <1>16. TimesAgree'
    <2> SUFFICES ASSUME "sec" \notin overlap', ~(Setting /\ "sec" \in Fields(setter.call)),
                        NEW m \in DOMAIN selectors
                 PROVE  \E t \in {own.timeout} \cup slipped : Holds(selectors'[m], t)
      BY <1>1, <1>6 DEF TimesAgree, Holds
    <2>1. \E t \in {own.timeout} \cup slipped : Holds(selectors[m], t)
      BY <1>6, <1>7 DEF IInv, Agree, TimesAgree
    <2> QED
      BY <1>4, <2>1
  <1>17. Timed'
    <2>1. \A m \in DOMAIN selectors : selectors'[m].sec \in Secs /\ selectors'[m].usec \in Secs
      BY <1>4, <1>6 DEF IInv, Timed
    <2>2. /\ worker.pc \in {"usec", "select"} => worker.sec \in Secs
          /\ worker.pc = "select" => worker.usec \in Secs
      BY DEF IInv, Timed
    <2> QED
      BY <1>1, <1>5, <1>6, <2>1, <2>2 DEF Timed
  <1>18. Untold'
    <2>1. deaf \in 0..Len(selectors) /\ selectors[1]["delete"] = FALSE
      BY DEF IInv, Agree, Untold
    <2>2. /\ deaf' \in 0..Len(selectors') /\ Len(selectors') > 1
          /\ selectors'[1]["delete"] = FALSE
      BY <1>1, <1>2, <1>4, <2>1
    <2>3. ASSUME "delete" \notin overlap'
          PROVE  /\ ~(Setting /\ "delete" \in Fields(setter.call))
                 /\ \A m \in DOMAIN selectors : m > deaf => selectors[m]["delete"] = own["delete"]
      <3>1. "delete" \notin overlap /\ ~(Setting /\ "delete" \in Fields(setter.call))
        BY <1>1, <2>3
      <3> QED
        BY <1>6, <3>1 DEF IInv, Agree, Untold
    <2>4. "delete" \notin overlap' =>
              \A m \in DOMAIN selectors' :
                  Settled(m)' /\ m > deaf => selectors'[m]["delete"] = own["delete"]
      BY <1>4, <1>6, <2>3
    <2> QED
      BY <1>1, <1>5, <1>6, <2>2, <2>3, <2>4 DEF Untold
  <1> QED
    BY <1>9, <1>10, <1>11, <1>12, <1>13, <1>14, <1>15, <1>16, <1>17, <1>18 DEF IInv, Agree

LEMMA LoadStep == ASSUME IInv, Load PROVE IInv'
  <1> DEFINE k == Arguments[maker.j]
             args == [maker.args EXCEPT ![k] = own[k]]
  <1>0. /\ maker.pc = "load" /\ maker.j \in 1..Len(Arguments) /\ Making
        /\ Len(Arguments) \in Nat
        /\ maker.args \in [Modes \cup {"timeout"} -> BOOLEAN \cup Int] /\ IsArgs(maker.args)
        /\ maker.args.timeout \in given /\ given \subseteq Int
    <2>1. Len(Arguments) \in Nat
      BY ArgumentsFacts, ModeFacts
    <2> QED
      BY <2>1 DEF Load, IInv, Shape, Making, NoMaker
  <1>1. /\ maker' = [pc |-> IF maker.j < Len(Arguments) THEN "load" ELSE "store",
                     j |-> IF maker.j < Len(Arguments) THEN maker.j + 1 ELSE 1, args |-> args]
        /\ own' = own /\ selectors' = selectors /\ setter' = setter /\ worker' = worker
        /\ calls' = calls /\ overlap' = overlap /\ given' = given /\ slipped' = slipped /\ deaf' = deaf
    BY DEF Load, history
  <1>2. k \in Modes \cup {"timeout"} /\ DOMAIN Arguments = 1..Len(Arguments)
    BY <1>0, ArgumentsFacts
  <1>3. (k \in Modes => own[k] \in BOOLEAN) /\ own.timeout \in given /\ own.timeout \in Int
    BY <1>0 DEF IInv, Shape
  <1> HIDE DEF k
  <1>4. /\ args \in [Modes \cup {"timeout"} -> BOOLEAN \cup Int]
        /\ args[k] = own[k] /\ \A g \in Modes \cup {"timeout"} : g # k => args[g] = maker.args[g]
    BY <1>0, <1>2, <1>3
  <1> HIDE DEF args
  <1>5. IsArgs(args) /\ args.timeout \in given
    <2>1. \A g \in Modes : args[g] \in BOOLEAN
      BY <1>0, <1>3, <1>4, ModeFacts DEF IsArgs
    <2>2. args.timeout \in given
      BY <1>0, <1>3, <1>4
    <2>3. args = [g \in Modes \cup {"timeout"} |-> args[g]]
      BY <1>4
    <2> QED
      BY <1>0, <2>1, <2>2, <2>3 DEF IsArgs
  <1>6. /\ maker'.args = args /\ maker'.pc \in {"load", "store"} /\ Making'
        /\ maker'.pc = "load" => maker'.j = maker.j + 1 /\ maker.j < Len(Arguments)
        /\ maker'.pc = "store" => maker'.j = 1 /\ maker.j = Len(Arguments)
        /\ maker'.j \in Nat \ {0}
    BY <1>0, <1>1 DEF Making, NoMaker
  <1>7. (Setting' <=> Setting) /\ (\A n : Settled(n)' <=> Settled(n)) /\ Secs' = Secs
    BY <1>0, <1>1, <1>6 DEF Setting, Settled, Secs
  <1>8. Shape'
    <2>1. maker' \in [pc : {"idle", "load", "store"}, j : Nat \ {0}, args : {a \in [Modes \cup {"timeout"} -> BOOLEAN \cup Int] : IsArgs(a)}]
      BY <1>1, <1>4, <1>5, <1>6
    <2>2. /\ maker'.pc = "load" => maker'.j <= Len(Arguments)
          /\ maker'.pc = "store" => maker'.j <= Len(Args(maker'.args)) + 1
      BY <1>0, <1>6, ArgsFacts, ModeFacts
    <2> QED
      BY <1>1, <1>5, <1>6, <2>1, <2>2 DEF IInv, Shape
  <1>9. Working'
    BY <1>1, <1>7 DEF IInv, Working
  <1>10. OwnStored' /\ AllStored'
    BY <1>1, <1>7 DEF IInv, Agree, OwnStored, AllStored
  <1>11. Loaded'
    <2> SUFFICES ASSUME NEW i \in DOMAIN Arguments, maker'.pc = "store" \/ i < maker'.j,
                        Arguments[i] \notin overlap
                 PROVE  args[Arguments[i]] = own[Arguments[i]]
      BY <1>1, <1>6 DEF Loaded
    <2>1. i <= maker.j /\ i \in Nat
      BY <1>0, <1>2, <1>6
    <2>2. CASE Arguments[i] = k
      BY <1>4, <2>2
    <2>3. CASE Arguments[i] # k
      <3>1. i < maker.j
        BY <1>0, <2>1, <2>3 DEF k
      <3>2. maker.args[Arguments[i]] = own[Arguments[i]]
        BY <1>0, <3>1 DEF IInv, Agree, Loaded
      <3>3. Arguments[i] \in Modes \cup {"timeout"}
        BY ArgumentsFacts
      <3> QED
        BY <1>4, <2>3, <3>2, <3>3
    <2> QED
      BY <2>2, <2>3
  <1>12. Stored'
    BY <1>6, ArgsFacts, ModeFacts DEF Stored
  <1>13. Raced'
    BY <1>0, <1>1, <1>7 DEF IInv, Agree, Raced
  <1>14. ModesAgree'
    BY <1>1, <1>7 DEF IInv, Agree, ModesAgree
  <1>15. TimesAgree'
    BY <1>1, <1>7 DEF IInv, Agree, TimesAgree, Holds
  <1>16. Timed'
    <2>1. ~(maker'.pc = "store" /\ maker'.j > Len(ModeOrder) + 1)
          /\ ~(maker'.pc = "store" /\ maker'.j > Len(ModeOrder) + 2)
      BY <1>6, ModeFacts DEF L
    <2> QED
      BY <1>1, <1>7, <2>1 DEF IInv, Timed
  <1>17. Untold'
    BY <1>0, <1>1, <1>6, <1>7 DEF IInv, Agree, Untold
  <1> QED
    BY <1>8, <1>9, <1>10, <1>11, <1>12, <1>13, <1>14, <1>15, <1>16, <1>17 DEF IInv, Agree
LEMMA MakerFacts ==
    ASSUME IInv, maker.pc = "store"
    PROVE  /\ Making /\ IsArgs(maker.args) /\ maker.args.timeout \in given
           /\ maker.args.timeout \in Int
           /\ \A k \in Modes : maker.args[k] \in BOOLEAN
           /\ maker.j \in 1..(L + 3) /\ L \in Nat \ {0}
           /\ maker \in [pc : {"idle", "load", "store"}, j : Nat \ {0}, args : {a \in [Modes \cup {"timeout"} -> BOOLEAN \cup Int] : IsArgs(a)}]
  <1>1. Making
    BY DEF Making, NoMaker
  <1>2. /\ maker \in [pc : {"idle", "load", "store"}, j : Nat \ {0}, args : {a \in [Modes \cup {"timeout"} -> BOOLEAN \cup Int] : IsArgs(a)}]
        /\ maker.j <= Len(Args(maker.args)) + 1 /\ maker.args.timeout \in given
    BY DEF IInv, Shape
  <1>3. IsArgs(maker.args)
    BY <1>2
  <1>4. Len(Args(maker.args)) = L + 2 /\ L \in Nat \ {0}
    BY ArgsFacts, ModeFacts
  <1>5. maker.j \in 1..(L + 3)
    BY <1>2, <1>4
  <1>6. maker.args.timeout \in Int /\ \A k \in Modes : maker.args[k] \in BOOLEAN
    BY <1>3 DEF IsArgs
  <1> QED
    BY <1>1, <1>2, <1>3, <1>4, <1>5, <1>6

\* setArgs() of the new selector.
LEMMA ArrangeStores ==
    ASSUME IInv, Arrange, maker.j \in DOMAIN Args(maker.args) PROVE IInv'
  <1> DEFINE last == Len(selectors)
             f == Args(maker.args)[maker.j][1]
             x == Args(maker.args)[maker.j][2]
  <1>1. /\ maker.pc = "store"
        /\ selectors' = [selectors EXCEPT ![last][f] = x]
        /\ maker' = [maker EXCEPT !.j = @ + 1]
        /\ own' = own /\ setter' = setter /\ worker' = worker
        /\ calls' = calls /\ overlap' = overlap /\ given' = given /\ slipped' = slipped /\ deaf' = deaf
    BY DEF Arrange, history
  <1>2. /\ Making /\ IsArgs(maker.args) /\ maker.args.timeout \in given
        /\ maker.args.timeout \in Int
        /\ \A k \in Modes : maker.args[k] \in BOOLEAN
        /\ L \in Nat \ {0}
        /\ maker \in [pc : {"idle", "load", "store"}, j : Nat \ {0}, args : {a \in [Modes \cup {"timeout"} -> BOOLEAN \cup Int] : IsArgs(a)}]
    BY <1>1, MakerFacts
  <1>3. /\ maker'.pc = "store" /\ maker'.j = maker.j + 1 /\ maker'.args = maker.args /\ Making'
        /\ maker' \in [pc : {"idle", "load", "store"}, j : Nat \ {0}, args : {a \in [Modes \cup {"timeout"} -> BOOLEAN \cup Int] : IsArgs(a)}]
    BY <1>1, <1>2 DEF Making, NoMaker
  <1>4. /\ DOMAIN Args(maker.args) = 1..(L + 2) /\ Len(Args(maker.args)) = L + 2
        /\ maker.j \in 1..(L + 2)
        /\ \A i \in 1..L : Args(maker.args)[i] = <<ModeOrder[i], maker.args[ModeOrder[i]]>>
        /\ Args(maker.args)[L + 1] = <<"sec", Seconds(maker.args.timeout)>>
        /\ Args(maker.args)[L + 2] = <<"usec", Micros(maker.args.timeout)>>
        /\ \A i \in 1..L : ModeOrder[i] \in Modes
    BY ArgsFacts, ModeFacts
  <1>5. \A i, k \in DOMAIN Args(maker.args) : Args(maker.args)[i][1] = Args(maker.args)[k][1] => i = k
    <2>1. \A i, k \in 1..L : ModeOrder[i] = ModeOrder[k] => i = k
      BY ModeFacts, ModesAssumption
    <2>2. \A i \in 1..(L + 2) : i \in 1..L \/ i = L + 1 \/ i = L + 2
      BY <1>2
    <2> QED
      BY <1>4, <2>1, <2>2, ModeFacts
  <1>6. Seconds(maker.args.timeout) \in Secs /\ Micros(maker.args.timeout) \in Secs
    BY <1>2 DEF Secs, Micros
  <1>7. /\ maker.j = L + 1 => f = "sec" /\ x \in Secs
        /\ maker.j = L + 2 => f = "usec" /\ x \in Secs
        /\ maker.j \in 1..L => f \in Modes /\ x \in BOOLEAN
    BY <1>2, <1>4, <1>6
  <1>8. maker.j \in 1..L \/ maker.j = L + 1 \/ maker.j = L + 2
    BY <1>2, <1>4
  <1> HIDE DEF f, x
  <1>9. Fits(f, x)
    <2>1. Secs \subseteq Int
      BY SecsInt DEF IInv
    <2> QED
      BY <1>7, <1>8, <2>1, ModeFacts DEF Fits, Names
  <1>10. /\ selectors \in Seq(Views) /\ DOMAIN selectors = 1..last /\ last \in Nat \ {0}
         /\ last \in DOMAIN selectors
    BY Lists DEF IInv
  <1>11. StoredIn(selectors', selectors, last, f, x)
    <2>1. StoredIn([selectors EXCEPT ![last][f] = x], selectors, last, f, x)
      BY <1>9, <1>10, SelectorStore, Zenon
    <2> QED
      BY <1>1, <2>1
  <1> HIDE DEF last
  <1>12. /\ selectors' \in Seq(Views) /\ Len(selectors') = Len(selectors)
         /\ DOMAIN selectors' = DOMAIN selectors
         /\ selectors'[last][f] = x
         /\ \A g \in Names : g # f => selectors'[last][g] = selectors[last][g]
         /\ \A n \in DOMAIN selectors : n # last => selectors'[n] = selectors[n]
    <2>1. DOMAIN selectors' = 1..Len(selectors') /\ Len(selectors') = Len(selectors)
      BY <1>11 DEF StoredIn
    <2> QED
      BY <1>10, <1>11, <2>1 DEF StoredIn, last
  <1>13. /\ Secs' = Secs /\ (Setting' <=> Setting)
         /\ \A n : Settled(n)' <=> Settled(n)
         /\ \A n : Settled(n) <=> n # last
    BY <1>1, <1>2, <1>3, <1>12 DEF Secs, Setting, Settled, last
  <1>14. Modes \cup {"sec", "usec"} \subseteq Names /\ Len(selectors) = last
    BY DEF Names, last
  <1>15. Shape'
    <2>1. maker'.j <= Len(Args(maker'.args)) + 1
      BY <1>2, <1>3, <1>4
    <2> QED
      BY <1>1, <1>2, <1>3, <1>12, <2>1 DEF IInv, Shape
  <1>16. Working'
    BY <1>1, <1>12, <1>13 DEF IInv, Working
  <1>17. OwnStored'
    BY <1>1, <1>13 DEF IInv, Agree, OwnStored
  <1>18. AllStored'
    <2> SUFFICES ASSUME Setting, NEW n \in DOMAIN selectors, NEW i \in DOMAIN setter.call.all,
                        setter.call.all[i][1] \notin overlap
                 PROVE  FALSE
      BY <1>1, <1>12, <1>13 DEF AllStored
    <2>1. setter.call.all[i][1] \in Fields(setter.call)
      BY Underway, CallFields
    <2> QED
      BY <1>2, <2>1 DEF IInv, Agree, Raced
  <1>19. Loaded'
    BY <1>1, <1>2, <1>3 DEF IInv, Agree, Loaded
  <1>20. Stored'
    <2> SUFFICES ASSUME NEW i \in DOMAIN Args(maker.args), i < maker.j + 1,
                        Args(maker.args)[i][1] \notin overlap
                 PROVE  selectors'[last][Args(maker.args)[i][1]] = Args(maker.args)[i][2]
      BY <1>1, <1>3, <1>12, <1>14 DEF Stored
    <2>1. CASE i = maker.j
      BY <1>12, <2>1 DEF f, x
    <2>2. CASE i # maker.j
      <3>1. i < maker.j
        BY <1>4, <2>2
      <3>2. selectors[last][Args(maker.args)[i][1]] = Args(maker.args)[i][2]
        BY <1>1, <1>14, <3>1 DEF IInv, Agree, Stored
      <3>3. Args(maker.args)[i][1] # f
        BY <1>4, <1>5, <2>2 DEF f
      <3>4. Args(maker.args)[i][1] \in Names
        <4>1. i \in 1..L \/ i = L + 1 \/ i = L + 2
          BY <1>2, <1>4
        <4> QED
          BY <1>4, <1>14, <4>1
      <3> QED
        BY <1>12, <3>2, <3>3, <3>4
    <2> QED
      BY <2>1, <2>2
  <1>21. Raced'
    BY <1>1, <1>2, <1>3, <1>13 DEF IInv, Agree, Raced
  <1>22. ModesAgree'
    <2> SUFFICES ASSUME NEW m \in DOMAIN selectors, NEW k \in Modes \ overlap, m # last,
                        ~(Setting /\ k \in Fields(setter.call))
                 PROVE  selectors'[m][k] = own[k]
      BY <1>1, <1>12, <1>13 DEF ModesAgree
    <2>1. selectors[m][k] = own[k]
      BY <1>13 DEF IInv, Agree, ModesAgree
    <2> QED
      BY <1>12, <2>1
  <1>23. TimesAgree'
    <2> SUFFICES ASSUME "sec" \notin overlap, ~(Setting /\ "sec" \in Fields(setter.call)),
                        NEW m \in DOMAIN selectors, m # last
                 PROVE  \E t \in {own.timeout} \cup slipped : Holds(selectors'[m], t)
      BY <1>1, <1>12, <1>13 DEF TimesAgree, Holds
    <2>1. \E t \in {own.timeout} \cup slipped : Holds(selectors[m], t)
      BY <1>13 DEF IInv, Agree, TimesAgree
    <2> QED
      BY <1>12, <2>1
  <1>24. Timed'
    <2>1. \A m \in DOMAIN selectors : m # last => selectors'[m].sec \in Secs /\ selectors'[m].usec \in Secs
      BY <1>12, <1>13 DEF IInv, Timed
    <2>2. L = Len(ModeOrder) /\ "sec" \in Names /\ "usec" \in Names
      BY DEF L, Names
    <2>3. maker'.j > L + 1 => selectors'[last].sec \in Secs
      <3>1. CASE maker.j = L + 1
        BY <1>7, <1>12, <3>1
      <3>2. CASE maker.j # L + 1
        <4>1. maker'.j > L + 1 => maker.j > L + 1
          BY <1>2, <1>3, <1>4, <3>2
        <4>2. maker.j > L + 1 => selectors[last].sec \in Secs
          BY <1>1, <1>14, <2>2 DEF IInv, Timed
        <4>3. f # "sec"
          BY <1>7, <1>8, <3>2, ModeFacts
        <4> QED
          BY <1>12, <2>2, <4>1, <4>2, <4>3
      <3> QED
        BY <3>1, <3>2
    <2>4. maker'.j > L + 2 => selectors'[last].usec \in Secs
      <3>1. CASE maker.j = L + 2
        BY <1>7, <1>12, <3>1
      <3>2. CASE maker.j # L + 2
        BY <1>2, <1>3, <1>4, <3>2
      <3> QED
        BY <3>1, <3>2
    <2>5. /\ worker.pc \in {"usec", "select"} => worker.sec \in Secs
          /\ worker.pc = "select" => worker.usec \in Secs
      BY DEF IInv, Timed
    <2> QED
      BY <1>1, <1>12, <1>13, <1>14, <2>1, <2>2, <2>3, <2>4, <2>5 DEF Timed
  <1>25. Untold'
    <2>1. last > 1 /\ deaf \in 0..Len(selectors) /\ selectors[1]["delete"] = FALSE
      BY <1>2, <1>14 DEF IInv, Agree, Untold
    <2>2. 1 \in DOMAIN selectors /\ 1 # last
      BY <1>10, <2>1
    <2>3. "delete" \notin overlap =>
              IF Setting /\ "delete" \in Fields(setter.call) THEN deaf = Len(selectors)
              ELSE \A m \in DOMAIN selectors :
                       m # last /\ m > deaf => selectors[m]["delete"] = own["delete"]
      BY <1>13 DEF IInv, Agree, Untold
    <2>4. selectors'[1]["delete"] = FALSE
      BY <1>12, <2>1, <2>2
    <2>5. \A m \in DOMAIN selectors : m # last => selectors'[m]["delete"] = selectors[m]["delete"]
      BY <1>12
    <2>6. Len(selectors') > 1 /\ deaf \in 0..Len(selectors')
      BY <1>12, <1>14, <2>1
    <2> QED
      BY <1>1, <1>12, <1>13, <2>3, <2>4, <2>5, <2>6 DEF Untold
  <1> QED
    BY <1>15, <1>16, <1>17, <1>18, <1>19, <1>20, <1>21, <1>22, <1>23, <1>24, <1>25 DEF IInv, Agree

\* Its setDelete(), and newSelector() returns.
LEMMA ArrangeEnds ==
    ASSUME IInv, Arrange, maker.j \notin DOMAIN Args(maker.args) PROVE IInv'
  <1> DEFINE last == Len(selectors)
             x == own.delete
  <1>1. /\ maker.pc = "store"
        /\ selectors' = [selectors EXCEPT ![last]["delete"] = x]
        /\ maker' = NoMaker
        /\ own' = own /\ setter' = setter /\ worker' = worker
        /\ calls' = calls /\ overlap' = overlap /\ given' = given /\ slipped' = slipped /\ deaf' = deaf
    BY DEF Arrange, history
  <1>2. /\ Making /\ maker.args.timeout \in given /\ maker.args.timeout \in Int
        /\ maker.j \in 1..(L + 3) /\ L \in Nat \ {0}
    BY <1>1, MakerFacts
  <1>3. maker'.pc = "idle" /\ maker'.j = 1 /\ maker'.args = Made /\ ~Making'
    BY <1>1 DEF Making, NoMaker
  <1>4. /\ DOMAIN Args(maker.args) = 1..(L + 2)
        /\ \A i \in 1..L : Args(maker.args)[i] = <<ModeOrder[i], maker.args[ModeOrder[i]]>>
        /\ Args(maker.args)[L + 1] = <<"sec", Seconds(maker.args.timeout)>>
        /\ Args(maker.args)[L + 2] = <<"usec", Micros(maker.args.timeout)>>
        /\ \A i \in 1..L : ModeOrder[i] \in Modes
    BY ArgsFacts, ModeFacts
  <1>5. maker.j = L + 3
    BY <1>2, <1>4
  <1>6. Fits("delete", x)
    <2>1. x \in BOOLEAN
      BY DEF IInv, Shape
    <2>2. "delete" \in Names
      BY DEF Names
    <2> QED
      BY <2>1, <2>2 DEF Fits
  <1> HIDE DEF x
  <1>7. /\ selectors \in Seq(Views) /\ DOMAIN selectors = 1..last /\ last \in Nat \ {0}
        /\ last \in DOMAIN selectors
    BY Lists DEF IInv
  <1>8. StoredIn(selectors', selectors, last, "delete", x)
    <2>1. StoredIn([selectors EXCEPT ![last]["delete"] = x], selectors, last, "delete", x)
      BY <1>6, <1>7, SelectorStore, Zenon
    <2> QED
      BY <1>1, <2>1
  <1> HIDE DEF last
  <1>9. /\ selectors' \in Seq(Views) /\ Len(selectors') = Len(selectors)
        /\ DOMAIN selectors' = DOMAIN selectors
        /\ \A n \in DOMAIN selectors, g \in Names : g # "delete" => selectors'[n][g] = selectors[n][g]
    <2>1. DOMAIN selectors' = 1..Len(selectors') /\ Len(selectors') = Len(selectors)
      BY <1>8 DEF StoredIn
    <2>2. ASSUME NEW n \in DOMAIN selectors, NEW g \in Names, g # "delete"
          PROVE  selectors'[n][g] = selectors[n][g]
      BY <1>8, <2>2 DEF StoredIn
    <2> QED
      BY <1>7, <1>8, <2>1, <2>2 DEF StoredIn, last
  <1>10. \A k \in Modes \cup {"sec", "usec"} : k \in Names /\ k # "delete"
    BY ModeFacts DEF Names
  <1>11. /\ Secs' = Secs /\ (Setting' <=> Setting) /\ Len(selectors) = last
         /\ \A n : Settled(n)'
         /\ \A n : n # last => Settled(n)
    BY <1>1, <1>3 DEF Secs, Setting, Settled, last
  <1>12. Shape'
    <2>1. maker' \in [pc : {"idle", "load", "store"}, j : Nat \ {0}, args : {a \in [Modes \cup {"timeout"} -> BOOLEAN \cup Int] : IsArgs(a)}]
      BY <1>1, MadeFacts DEF NoMaker
    <2> QED
      BY <1>1, <1>3, <1>9, <2>1 DEF IInv, Shape
  <1>13. Working'
    BY <1>1, <1>9, <1>11 DEF IInv, Working
  <1>14. OwnStored'
    BY <1>1, <1>11 DEF IInv, Agree, OwnStored
  <1>15. AllStored'
    <2> SUFFICES ASSUME Setting, NEW n \in DOMAIN selectors, NEW i \in DOMAIN setter.call.all,
                        setter.call.all[i][1] \notin overlap
                 PROVE  FALSE
      BY <1>1, <1>9, <1>11 DEF AllStored
    <2>1. setter.call.all[i][1] \in Fields(setter.call)
      BY Underway, CallFields
    <2> QED
      BY <1>2, <2>1 DEF IInv, Agree, Raced
  <1>16. Loaded' /\ Stored' /\ Raced'
    BY <1>1, <1>3, <1>11 DEF IInv, Agree, Loaded, Stored, Raced
  \* The new selector has what the BalancingSelector has.
  <1>17. ASSUME NEW k \in Modes \ overlap PROVE selectors[last][k] = own[k]
    <2>1. PICK i \in 1..L : ModeOrder[i] = k
      BY ModeFacts DEF Modes
    <2>2. i \in DOMAIN Args(maker.args) /\ i < maker.j /\ Args(maker.args)[i] = <<k, maker.args[k]>>
      BY <1>2, <1>4, <1>5, <2>1
    <2>3. selectors[last][k] = maker.args[k]
      BY <1>1, <1>11, <2>2 DEF IInv, Agree, Stored
    <2>4. i \in DOMAIN Arguments /\ Arguments[i] = k
      BY <1>2, <2>1, ArgumentsFacts
    <2> QED
      BY <1>1, <1>2, <2>3, <2>4 DEF IInv, Agree, Loaded
  <1>18. ASSUME "sec" \notin overlap PROVE Holds(selectors[last], own.timeout)
    <2>1. "usec" \notin overlap /\ "timeout" \notin overlap
      BY <1>18 DEF IInv, Agree, Raced
    <2>2. L + 1 \in DOMAIN Args(maker.args) /\ L + 1 < maker.j /\ L + 2 \in DOMAIN Args(maker.args) /\ L + 2 < maker.j
      BY <1>2, <1>4, <1>5
    <2>3. Args(maker.args)[L + 1][1] = "sec" /\ Args(maker.args)[L + 2][1] = "usec"
      BY <1>4
    <2>4. /\ selectors[last]["sec"] = Seconds(maker.args.timeout)
          /\ selectors[last]["usec"] = Micros(maker.args.timeout)
      BY <1>1, <1>4, <1>11, <1>18, <2>1, <2>2, <2>3 DEF IInv, Agree, Stored
    <2>5. L + 1 \in DOMAIN Arguments /\ Arguments[L + 1] = "timeout"
      BY <1>2, ArgumentsFacts
    <2>6. maker.args["timeout"] = own["timeout"]
      BY <1>1, <1>2, <2>1, <2>5 DEF IInv, Agree, Loaded
    <2> QED
      BY <2>4, <2>6 DEF Holds
  <1>19. ModesAgree'
    <2> SUFFICES ASSUME NEW m \in DOMAIN selectors, NEW k \in Modes \ overlap,
                        ~(Setting /\ k \in Fields(setter.call))
                 PROVE  selectors'[m][k] = own[k]
      BY <1>1, <1>9, <1>11 DEF ModesAgree
    <2>1. m # last => selectors[m][k] = own[k]
      BY <1>11 DEF IInv, Agree, ModesAgree
    <2> QED
      BY <1>9, <1>10, <1>17, <2>1
  <1>20. TimesAgree'
    <2> SUFFICES ASSUME "sec" \notin overlap, ~(Setting /\ "sec" \in Fields(setter.call)),
                        NEW m \in DOMAIN selectors
                 PROVE  \E t \in {own.timeout} \cup slipped : Holds(selectors'[m], t)
      BY <1>1, <1>9, <1>11 DEF TimesAgree, Holds
    <2>1. PICK t \in {own.timeout} \cup slipped : Holds(selectors[m], t)
      BY <1>11, <1>18 DEF IInv, Agree, TimesAgree
    <2>2. selectors'[m]["sec"] = selectors[m]["sec"] /\ selectors'[m]["usec"] = selectors[m]["usec"]
      BY <1>9, <1>10
    <2> QED
      BY <2>1, <2>2 DEF Holds
  <1>21. Timed'
    <2>1. selectors[last].sec \in Secs /\ selectors[last].usec \in Secs
      BY <1>1, <1>2, <1>5, <1>11 DEF IInv, Timed, L
    <2>2. \A m \in DOMAIN selectors : selectors[m].sec \in Secs /\ selectors[m].usec \in Secs
      BY <1>11, <2>1 DEF IInv, Timed
    <2>3. \A m \in DOMAIN selectors : selectors'[m]["sec"] \in Secs /\ selectors'[m]["usec"] \in Secs
      BY <1>9, <1>10, <2>2
    <2>4. /\ worker.pc \in {"usec", "select"} => worker.sec \in Secs
          /\ worker.pc = "select" => worker.usec \in Secs
      BY DEF IInv, Timed
    <2> QED
      BY <1>1, <1>3, <1>9, <1>11, <2>3, <2>4 DEF Timed
  <1>22. Untold'
    <2>1. last > 1 /\ deaf \in 0..Len(selectors) /\ selectors[1]["delete"] = FALSE
      BY <1>2, <1>11 DEF IInv, Agree, Untold
    <2>2. 1 \in DOMAIN selectors /\ 1 # last
      BY <1>7, <2>1
    <2>3. "delete" \notin overlap =>
              IF Setting /\ "delete" \in Fields(setter.call) THEN deaf = Len(selectors)
              ELSE \A m \in DOMAIN selectors :
                       m # last /\ m > deaf => selectors[m]["delete"] = own["delete"]
      BY <1>11 DEF IInv, Agree, Untold
    <2>4. \A m \in DOMAIN selectors : m # last => selectors'[m] = selectors[m]
      BY <1>8 DEF StoredIn
    <2>5. selectors'[last]["delete"] = own["delete"]
      BY <1>8 DEF StoredIn, x
    <2>6. selectors'[1]["delete"] = FALSE
      BY <2>1, <2>2, <2>4
    <2>7. "delete" \notin overlap =>
              IF Setting /\ "delete" \in Fields(setter.call) THEN deaf = Len(selectors)
              ELSE \A m \in DOMAIN selectors : m > deaf => selectors'[m]["delete"] = own["delete"]
      BY <2>3, <2>4, <2>5
    <2> QED
      BY <1>1, <1>3, <1>9, <1>11, <2>1, <2>6, <2>7 DEF Untold
  <1> QED
    BY <1>12, <1>13, <1>14, <1>15, <1>16, <1>19, <1>20, <1>21, <1>22 DEF IInv, Agree
-----------------------------------------------------------------------------
(* The theorems.                                                           *)

LEMMA StepInv == IInv /\ [Next]_vars => IInv'
  <1> SUFFICES ASSUME IInv, [Next]_vars PROVE IInv'
    OBVIOUS
  <1>1. ASSUME NEW call \in Calls, Call(call) PROVE IInv'
    BY <1>1, CallStep
  <1>2. CASE Store
    BY <1>2, StoreOwnStep, StoreAllStep
  <1>3. CASE Grow
    BY <1>3, GrowStep
  <1>4. CASE Load
    BY <1>4, LoadStep
  <1>5. CASE Arrange
    BY <1>5, ArrangeStores, ArrangeEnds
  <1>6. CASE Work \/ End \/ \E m \in DOMAIN selectors : Begin(m)
    BY <1>6, WorkStep
  <1>7. CASE UNCHANGED vars
    <2>1. Aside /\ worker' = worker
      BY <1>7 DEF vars, Aside, history
    <2>2. /\ Shape' /\ Agree' /\ Secs' = Secs /\ selectors' = selectors /\ given' = given
          /\ \A m : Settled(m)' <=> Settled(m)
      BY <2>1, AsideKeeps DEF IInv
    <2>3. Working'
      BY <2>1, <2>2 DEF IInv, Working
    <2> QED
      BY <2>1, <2>3, WorkerKeeps DEF IInv, Timed
  <1> QED
    BY <1>1, <1>2, <1>3, <1>4, <1>5, <1>6, <1>7 DEF Next

LEMMA InvAlways == Spec => []IInv
  BY InitInv, StepInv, PTL DEF Spec

\* Types: whatever loads and stores interleave, the loop of a set function stays
\* on the selectors there are, and a worker on one that is ready.
THEOREM TypeCorrect == Spec => []TypeOK
  <1>1. IInv => TypeOK
    <2> SUFFICES ASSUME IInv PROVE TypeOK
      OBVIOUS
    <2>1. /\ \A k \in Modes \cup {"delete"} : own[k] \in BOOLEAN
          /\ own.timeout \in given /\ Len(selectors) \in 1..MaxSelectors /\ calls \in 0..MaxCalls
          /\ maker.pc \in {"idle", "load", "store"} /\ deaf \in 0..Len(selectors)
      BY DEF IInv, Shape, Agree, Untold
    <2>2. selectors \in Seq(Views) /\ DOMAIN selectors = 1..Len(selectors) /\ Len(selectors) \in Nat \ {0}
      BY Lists DEF IInv
    <2>3. ASSUME NEW m \in DOMAIN selectors
          PROVE  /\ \A k \in Modes \cup {"delete"} : selectors[m][k] \in BOOLEAN
                 /\ {selectors[m].sec, selectors[m].usec} \subseteq Int
      <3>1. selectors[m] \in Views
        BY <2>2
      <3> QED
        BY <3>1 DEF Views
    <2>4. setter.m \in 0..Len(selectors)
      BY <2>2 DEF IInv, Shape, NoSetter
    <2>5. /\ worker.pc \in {"none", "modes", "test", "sec", "usec", "select", "callback", "failed"}
          /\ worker.modes \subseteq Modes /\ worker.m \in DOMAIN selectors
      BY <2>2 DEF IInv, Working
    <2> QED
      BY <2>1, <2>3, <2>4, <2>5 DEF TypeOK
  <1> QED
    BY <1>1, InvAlways, PTL

\* When no call is under way, each SelectManager has the modes and the timeout of
\* the BalancingSelector, for a field that no set function and newSelector() have
\* raced for, and up to the timeouts setDelete() has set; and its `delete`, if it
\* was appended after the last setDelete(), which the first never was.
THEOREM SettingsArrive == Spec => []SettingsReach
  <1>1. IInv => SettingsReach
    <2> SUFFICES ASSUME IInv, ~Setting, ~Making
                 PROVE  /\ selectors[1].delete = FALSE
                        /\ \A m \in DOMAIN selectors :
                              /\ \A k \in Modes \ overlap : selectors[m][k] = own[k]
                              /\ {"sec", "usec"} \cap overlap = {} =>
                                     \E t \in {own.timeout} \cup slipped : Holds(selectors[m], t)
                              /\ m > deaf /\ "delete" \notin overlap => selectors[m].delete = own.delete
      BY DEF SettingsReach
    <2>1. \A m \in DOMAIN selectors : Settled(m)
      BY DEF Settled
    <2>2. \A m \in DOMAIN selectors, k \in Modes \ overlap : selectors[m][k] = own[k]
      BY <2>1 DEF IInv, Agree, ModesAgree
    <2>3. "sec" \notin overlap =>
              \A m \in DOMAIN selectors : \E t \in {own.timeout} \cup slipped : Holds(selectors[m], t)
      BY <2>1 DEF IInv, Agree, TimesAgree
    <2>4. /\ selectors[1].delete = FALSE
          /\ "delete" \notin overlap =>
                 \A m \in DOMAIN selectors : m > deaf => selectors[m].delete = own.delete
      BY <2>1 DEF IInv, Agree, Untold
    <2> QED
      BY <2>2, <2>3, <2>4
  <1> QED
    BY <1>1, InvAlways, PTL

\* select() never waits more than a tenth above the longest timeout ever set; it
\* is given zero only by a timeout below one second, and a time it refuses only by
\* one of minus a second or less: for a timeval of halves set by different calls,
\* too.
THEOREM WaitKept == Spec => []WaitBounded
  <1>1. IInv => WaitBounded
    <2> SUFFICES ASSUME IInv PROVE WaitBounded
      OBVIOUS
    <2>1. given \subseteq Int
      BY DEF IInv, Shape
    <2>2. worker.pc = "select" =>
              \E t, u \in given : worker.sec = Seconds(t) /\ worker.usec = Seconds(u)
      BY DEF IInv, Timed, Secs
    <2>3. ASSUME NEW t \in Int, Seconds(t) = 0 PROVE t \in -9..9
      BY <2>3 DEF Seconds
    <2>4. worker.pc = "select" /\ worker.sec = 0 /\ worker.usec = 0 => \E t \in given : t \in -9..9
      BY <2>1, <2>2, <2>3
    <2>5. worker.pc = "select" /\ (worker.sec < 0 \/ worker.usec < 0) => \E t \in given : t <= -10
      <3>1. ASSUME NEW t \in Int, Seconds(t) < 0 PROVE t <= -10
        BY <3>1 DEF Seconds
      <3> QED
        BY <2>1, <2>2, <3>1
    <2>6. ASSUME NEW t \in Int, NEW u \in Int, 10 * Seconds(t) + Seconds(u) > 0
          PROVE  \/ 10 * Seconds(t) + Seconds(u) <= t + t \div 10
                 \/ 10 * Seconds(t) + Seconds(u) <= u + u \div 10
      <3>1. CASE t >= 0 /\ u >= 0
        BY <2>6, <3>1 DEF Seconds
      <3>2. CASE t >= 0 /\ u < 0
        BY <2>6, <3>2 DEF Seconds
      <3>3. CASE t < 0 /\ u >= 0
        BY <2>6, <3>3 DEF Seconds
      <3>4. CASE t < 0 /\ u < 0
        BY <2>6, <3>4 DEF Seconds
      <3> QED
        BY <3>1, <3>2, <3>3, <3>4
    <2>7. worker.pc = "select" /\ 10 * worker.sec + worker.usec > 0 =>
              \E t \in given : 10 * worker.sec + worker.usec <= t + t \div 10
      BY <2>1, <2>2, <2>6
    <2> QED
      BY <2>4, <2>5, <2>7 DEF WaitBounded
  <1> QED
    BY <1>1, InvAlways, PTL
=============================================================================
