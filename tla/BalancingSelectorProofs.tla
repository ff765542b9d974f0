----------------------- MODULE BalancingSelectorProofs -----------------------
(***************************************************************************)
(* Proofs about BalancingSelector for any sockets, limits and width of an  *)
(* unsigned int.  IInv says where the loops of add() and remove() are: the *)
(* search of add() has seen at least `charge` sockets in each selector     *)
(* behind it as long as nothing is taken off, and a socket remove() is     *)
(* called for is in no selector its loop has passed.                       *)
(***************************************************************************)
EXTENDS BalancingSelector, SequenceTheorems, FiniteSetTheorems, WellFoundedInduction,
        NaturalsInduction, TLAPS

USE DEF threads, callers, calls, ends, Selectors

Managers == [datas : SUBSET Sockets, running : BOOLEAN, ctl : {"none", "entry", "loop", "done"}]

Owners ==
    {o \in [op : {"idle", "starting", "started", "waiting", "joining", "returned", "threw", "lost",
                  "cleared"},
            i : Nat, at : Sockets \cup {NoSocket}] :
        o.at # NoSocket => o.op = "joining"}

\* Where add() is with a new selector.
New == {"new", "start", "insert"}

Shape ==
    /\ limits \in Limits
    /\ run \in BOOLEAN
    /\ selectors \in Seq(Managers)
    /\ work \in [Sockets -> {"none", "test", "select", "callback", "done"}]
    /\ rem \in [Sockets -> Nat]
    /\ \A s \in Sockets : rem[s] <= Len(selectors) + 1
    /\ adder \in [pc : {"idle", "purge", "drop", "scan"} \cup New, sock : Sockets \cup {NoSocket},
                  i : Nat, charge : Nat, min : Nat]
    /\ owner \in Owners
    /\ stopper \in [op : {"idle", "stopping", "stopped"}, i : Nat]
    /\ called \subseteq Sockets
    /\ refused \subseteq called
    /\ terminated \in BOOLEAN

\* The sockets add() was done with, and did not refuse.
Added == called \ (refused \cup {adder.sock})

\* An added socket is in one selector at most, and in one for certain until
\* remove() is called for it.
Placed ==
    /\ removed \subseteq Added
    /\ \A s \in Sockets, m, k \in Selectors :
           s \in selectors[m].datas /\ s \in selectors[k].datas => m = k
    /\ \A m \in Selectors : selectors[m].datas \subseteq Added \ removed
    /\ \A s \in Added \ removed : rem[s] = 0 => \E m \in Selectors : s \in selectors[m].datas

\* A worker serves an added socket; behind the loop of its remove() the socket
\* is gone.
Working ==
    \A s \in Sockets :
        /\ work[s] # "none" => s \in Added
        /\ rem[s] # 0 =>
               /\ work[s] = "callback"
               /\ s \notin removed
               /\ \A m \in Selectors : s \in selectors[m].datas => m >= rem[s]

\* A selector whose control thread has yet to begin has no workers.
Begun ==
    \A m \in Selectors :
        selectors[m].ctl \in {"none", "entry"} =>
            ~selectors[m].running /\ \A s \in selectors[m].datas : work[s] = "none"

\* What add() knows: the selector it has found, or the empty one it has made.
Adding ==
    /\ adder.pc = "idle" => adder.sock = NoSocket
    /\ adder.pc # "idle" => adder.sock \in called \ refused /\ adder.i > 0
    /\ adder.pc \in {"purge", "drop", "scan"} =>
           \/ adder.charge = UintMax
           \/ adder.min \in Selectors /\ Size(adder.min) <= adder.charge
    /\ adder.pc \in New =>
           adder.min = Len(selectors) /\ adder.min > 0 /\ selectors[adder.min].datas = {}

NothingTaken == removed = {} /\ \A s \in Sockets : rem[s] = 0

\* The selectors the search has passed have no less than the least it has seen.
Scanning ==
    adder.pc = "scan" /\ NothingTaken =>
        \A m \in Selectors : m < adder.i => adder.charge <= Size(m)

\* The parts of LimitsUsed.
Room == \A m \in Selectors : Size(m) <= limits.perSelector
Number == limits.selectors = 0 \/ Len(selectors) <= limits.selectors
Filled ==
    NothingTaken /\ Len(selectors) > 1 =>
        Cardinality(Watched \cup Pending) > (Len(selectors) - 1) * limits.perSelector

IInv ==
    /\ Shape
    /\ Placed
    /\ Working
    /\ Begun
    /\ Adding
    /\ Scanning
    /\ Room
    /\ Number
    /\ Filled

-----------------------------------------------------------------------------
(* Induction, and what is counted.                                         *)

LEMMA SetInduction ==
    ASSUME NEW S \in SUBSET Nat, 0 \in S, \A n \in S : n + 1 \in S
    PROVE  S = Nat
  <1> DEFINE R == OpToRel(<, Nat)
             T == Nat \ S
  <1>1. SUFFICES ASSUME T # {} PROVE FALSE
    OBVIOUS
  <1>2. IsWellFoundedOn(R, Nat)
    BY NatLessThanWellFounded
  <1>3. \A a, b \in Nat : a < b => <<a, b>> \in R
    BY DEF OpToRel
  <1> HIDE DEF R
  <1>4. PICK x \in T : \A y \in T : <<y, x>> \notin R
    <2>1. T \subseteq Nat
      OBVIOUS
    <2> HIDE DEF T
    <2> QED
      BY <1>1, <1>2, <2>1, WFMin
  <1>5. x \in Nat /\ x # 0
    BY <1>4
  <1>6. x - 1 \in Nat /\ x - 1 < x /\ (x - 1) + 1 = x
    BY <1>5
  <1>7. x - 1 \in S
    BY <1>3, <1>4, <1>5, <1>6
  <1> QED
    BY <1>4, <1>6, <1>7

LEMMA LimitsType == limits \in Limits =>
    limits.perSelector \in Nat \ {0} /\ limits.selectors \in Nat /\ UintMax > limits.perSelector
  BY LimitsAssumption, UintAssumption

LEMMA SubsetCount ==
    ASSUME NEW S \in SUBSET Sockets
    PROVE  IsFiniteSet(S) /\ Cardinality(S) \in Nat
  BY SocketsAssumption, FS_Subset, FS_CardinalityType

LEMMA Disjoint ==
    ASSUME NEW S, NEW T, IsFiniteSet(S), IsFiniteSet(T), S \cap T = {}
    PROVE  IsFiniteSet(S \cup T) /\ Cardinality(S \cup T) = Cardinality(S) + Cardinality(T)
  BY FS_Union, FS_EmptySet, FS_CardinalityType

\* Pairwise disjoint selectors of n sockets each have together n times their number.
LEMMA Together ==
    ASSUME NEW k \in Nat, NEW n \in Nat, NEW f \in [1..k -> SUBSET Sockets],
           \A m \in 1..k : Cardinality(f[m]) = n,
           \A l, m \in 1..k : l # m => f[l] \cap f[m] = {}
    PROVE  Cardinality(UNION {f[m] : m \in 1..k}) = k * n
  <1> DEFINE U(j) == UNION {f[m] : m \in 1..j}
             S == {j \in Nat : j <= k => Cardinality(U(j)) = j * n}
  <1>1. 0 \in S
    <2>1. U(0) = {}
      OBVIOUS
    <2> HIDE DEF U
    <2>2. Cardinality(U(0)) = 0 /\ 0 * n = 0
      BY <2>1, FS_EmptySet
    <2> QED
      BY <2>2
  <1>2. ASSUME NEW j \in S, j + 1 <= k PROVE Cardinality(U(j + 1)) = (j + 1) * n
    <2>1. j \in Nat /\ Cardinality(U(j)) = j * n /\ j + 1 \in 1..k /\ 1..j \subseteq 1..k
      BY <1>2
    <2>2. U(j + 1) = U(j) \cup f[j + 1]
      <3>1. 1..(j + 1) = (1..j) \cup {j + 1}
        BY <2>1
      <3> QED
        BY <3>1
    <2>3. U(j) \in SUBSET Sockets /\ f[j + 1] \in SUBSET Sockets
      BY <2>1
    <2>4. U(j) \cap f[j + 1] = {}
      <3>1. \A m \in 1..j : m \in 1..k /\ m # j + 1
        BY <2>1
      <3> QED
        BY <2>1, <3>1
    <2> HIDE DEF U
    <2>5. Cardinality(U(j + 1)) = Cardinality(U(j)) + Cardinality(f[j + 1])
      BY <2>2, <2>3, <2>4, SubsetCount, Disjoint
    <2>6. Cardinality(f[j + 1]) = n
      BY <2>1
    <2> QED
      BY <2>1, <2>5, <2>6
  <1> HIDE DEF U
  <1>3. \A j \in S : j + 1 \in S
    BY <1>2
  <1>4. S = Nat
    <2>1. S \in SUBSET Nat
      OBVIOUS
    <2> HIDE DEF S
    <2> QED
      BY <1>1, <1>3, <2>1, SetInduction
  <1> QED
    BY <1>4 DEF U

-----------------------------------------------------------------------------
(* What IInv says of the sizes, and of the properties.                     *)

LEMMA Sizes ==
    ASSUME Shape, NEW m \in Selectors
    PROVE  selectors[m] \in Managers /\ IsFiniteSet(selectors[m].datas) /\ Size(m) \in Nat
  <1>1. selectors[m] \in Managers
    BY ElementOfSeq DEF Shape
  <1>2. selectors[m].datas \in SUBSET Sockets
    BY <1>1 DEF Managers
  <1> QED
    BY <1>1, <1>2, SubsetCount DEF Size

LEMMA WatchedCount ==
    ASSUME Shape
    PROVE  /\ Watched \in SUBSET Sockets /\ IsFiniteSet(Watched \cup Pending)
           /\ Cardinality(Watched \cup Pending) \in Nat
  <1>1. Watched \in SUBSET Sockets
    BY Sizes DEF Watched, Managers
  <1>2. IsFiniteSet(Watched)
    BY <1>1, SubsetCount
  <1>3. Pending = {} \/ Pending = {adder.sock}
    BY DEF Pending
  <1>4. IsFiniteSet(Watched \cup Pending)
    BY <1>2, <1>3, FS_AddElement
  <1> QED
    BY <1>1, <1>4, FS_CardinalityType

LEMMA NoSocketIsNone == NoSocket \notin Sockets
  BY SocketsAssumption

\* The adder's socket is nowhere yet.
LEMMA Newcomer ==
    ASSUME IInv, adder.pc # "idle"
    PROVE  /\ adder.sock \in Sockets /\ adder.sock \notin Added /\ adder.sock \notin removed
           /\ adder.sock \in called /\ adder.sock \notin refused
           /\ work[adder.sock] = "none" /\ rem[adder.sock] = 0
           /\ \A m \in Selectors : adder.sock \notin selectors[m].datas
  <1>1. adder.sock \in called /\ adder.sock \notin refused /\ called \subseteq Sockets
    BY DEF IInv, Adding, Shape
  <1>2. adder.sock \in Sockets /\ adder.sock \notin Added
    BY <1>1 DEF Added
  <1>3. adder.sock \notin removed /\ \A m \in Selectors : adder.sock \notin selectors[m].datas
    BY <1>2 DEF IInv, Placed
  <1>4. work[adder.sock] = "none" /\ rem[adder.sock] = 0
    BY <1>2 DEF IInv, Working
  <1> QED
    BY <1>1, <1>2, <1>3, <1>4

\* The owner, and what it does next.
LEMMA OwnerIs ==
    ASSUME owner \in Owners
    PROVE  /\ owner = [op |-> owner.op, i |-> owner.i, at |-> owner.at]
           /\ owner.i \in Nat /\ owner.at \in Sockets \cup {NoSocket}
           /\ owner.op \in {"idle", "starting", "started", "waiting", "joining", "returned", "threw",
                           "lost", "cleared"}
           /\ owner.at # NoSocket => owner.op = "joining"
  BY DEF Owners

LEMMA DoingOwners ==
    \A i \in Nat :
        \A op \in {"idle", "starting", "started", "waiting", "joining", "returned", "threw", "lost",
                   "cleared"} : Doing(op, i) \in Owners
  BY DEF Doing, Owners

LEMMA JoiningOwners ==
    \A i \in Nat : \A s \in Sockets : [op |-> "joining", i |-> i, at |-> s] \in Owners
  BY DEF Owners

LEMMA InvTypeOK == IInv => TypeOK
  <1> SUFFICES ASSUME IInv PROVE TypeOK
    OBVIOUS
  <1>1. \A m \in Selectors : selectors[m] \in Managers
    BY Sizes DEF IInv
  <1>2. rem \in [Sockets -> 0..(Len(selectors) + 1)]
    BY DEF IInv, Shape
  <1>3. removed \subseteq called
    BY DEF IInv, Placed, Added
  <1>4. adder.pc \in New => adder.min = Len(selectors)
    BY DEF IInv, Adding
  <1>5. adder.pc \in {"idle", "purge", "drop", "scan"} \cup New
    BY DEF IInv, Shape
  <1>6. owner \in Owners
    BY DEF IInv, Shape
  <1> QED
    BY <1>1, <1>2, <1>3, <1>4, <1>5, <1>6, OwnerIs DEF IInv, Shape, TypeOK, Managers, New

LEMMA InvInOnePlace == IInv => InOnePlace
  <1> SUFFICES ASSUME IInv, NEW s \in Sockets
               PROVE  LET places == {m \in Selectors : s \in selectors[m].datas}
                          added == s \in called \ (refused \cup {adder.sock})
                      IN  /\ Cardinality(places) <= 1
                          /\ ~added \/ s \in removed => places = {}
                          /\ added /\ s \notin removed /\ rem[s] = 0 => places # {}
    BY DEF InOnePlace
  <1> DEFINE places == {m \in Selectors : s \in selectors[m].datas}
  <1>1. Cardinality(places) <= 1
    <2>1. \A m \in places : places = {m}
      BY DEF IInv, Placed
    <2> HIDE DEF places
    <2>2. Cardinality(places) \in {0, 1}
      BY <2>1, FS_EmptySet, FS_Singleton
    <2> QED
      BY <2>2
  <1>2. s \notin Added \/ s \in removed => places = {}
    BY DEF IInv, Placed
  <1>3. s \in Added /\ s \notin removed /\ rem[s] = 0 => places # {}
    BY DEF IInv, Placed
  <1> QED
    BY <1>1, <1>2, <1>3 DEF Added

LEMMA InvLimitsUsed == IInv => LimitsUsed
  <1> SUFFICES ASSUME IInv PROVE LimitsUsed
    OBVIOUS
  <1>1. ASSUME NothingTaken, adder.pc = "scan", adder.i \notin Selectors,
               adder.charge >= limits.perSelector, NEW m \in Selectors
        PROVE  Size(m) = limits.perSelector
    <2>1. adder.i \in Nat /\ adder.i > 0 /\ Len(selectors) \in Nat /\ adder.charge \in Nat
      BY <1>1 DEF IInv, Adding, Shape
    <2>2. m < adder.i
      BY <1>1, <2>1
    <2>3. adder.charge <= Size(m) /\ Size(m) <= limits.perSelector
      BY <1>1, <2>2 DEF IInv, Scanning, Room
    <2> QED
      BY <1>1, <2>1, <2>3, LimitsType, Sizes DEF IInv, Shape
  <1> QED
    BY <1>1 DEF LimitsUsed, IInv, Room, Number, Filled, NothingTaken

-----------------------------------------------------------------------------
(* Steps that leave the sockets where they are.                            *)

LEMMA InitIInv == Init => IInv
  <1> SUFFICES ASSUME Init PROVE IInv
    OBVIOUS
  <1>1. /\ selectors = <<Manager>> /\ Manager \in Managers /\ Manager.datas = {}
        /\ Manager.ctl = "none" /\ ~Manager.running
    BY DEF Init, Manager, Managers
  <1>2. selectors \in Seq(Managers) /\ Len(selectors) = 1 /\ selectors[1] = Manager
    BY <1>1
  <1> HIDE DEF Manager
  <1>3. Selectors = {1}
    BY <1>2
  <1>4. limits \in Limits
    BY DEF Init
  <1>a. adder \in [pc : {"idle", "purge", "drop", "scan"} \cup New, sock : Sockets \cup {NoSocket},
                  i : Nat, charge : Nat, min : Nat]
    BY UintAssumption DEF Init, Idle
  <1>b. /\ rem \in [Sockets -> Nat] /\ \A s \in Sockets : rem[s] <= Len(selectors) + 1
        /\ work \in [Sockets -> {"none", "test", "select", "callback", "done"}]
    BY <1>2 DEF Init
  <1>c. owner \in Owners
    BY DoingOwners DEF Init
  <1>5. Shape
    BY <1>2, <1>4, <1>a, <1>b, <1>c DEF Init, Shape
  <1>6. Placed /\ Working /\ Begun /\ Adding /\ Scanning
    BY <1>1, <1>2, <1>3, NoSocketIsNone
       DEF Init, Placed, Working, Begun, Adding, Scanning, Added, Idle, New
  <1>7. Size(1) = 0
    BY <1>1, <1>2, FS_EmptySet DEF Size
  <1>8. Room /\ Number /\ Filled
    BY <1>2, <1>3, <1>4, <1>7, LimitsType DEF Room, Number, Filled
  <1> QED
    BY <1>5, <1>6, <1>8 DEF IInv

\* The sockets of each selector stay, and nothing more is taken off.
Kept ==
    /\ Len(selectors') = Len(selectors)
    /\ \A m \in Selectors : selectors'[m].datas = selectors[m].datas
    /\ UNCHANGED <<limits, removed>>
    /\ \A s \in Sockets : rem'[s] = 0 => rem[s] = 0
    /\ Added' = Added

LEMMA KeptKeeps ==
    ASSUME IInv, Kept
    PROVE  /\ Placed' /\ Room' /\ Number' /\ (Pending' = Pending => Filled')
           /\ Selectors' = Selectors /\ (NothingTaken' => NothingTaken)
           /\ \A m \in Selectors : Size(m)' = Size(m)
  <1>1. Selectors' = Selectors
    BY DEF Kept
  <1>2. \A m \in Selectors : Size(m)' = Size(m)
    BY DEF Kept, Size
  <1>3. NothingTaken' => NothingTaken
    BY DEF Kept, NothingTaken
  <1>4. Placed'
    <2>1. \A m \in Selectors' : selectors'[m].datas = selectors[m].datas
      BY <1>1 DEF Kept
    <2>2. removed' \subseteq Added'
      BY DEF Kept, IInv, Placed
    <2>3. \A s \in Sockets, m, k \in Selectors' :
              s \in selectors'[m].datas /\ s \in selectors'[k].datas => m = k
      BY <1>1, <2>1 DEF IInv, Placed
    <2>4. \A m \in Selectors' : selectors'[m].datas \subseteq Added' \ removed'
      BY <1>1, <2>1 DEF Kept, IInv, Placed
    <2>5. ASSUME NEW s \in Added' \ removed', rem'[s] = 0
          PROVE  \E m \in Selectors' : s \in selectors'[m].datas
      <3>1. s \in Added \ removed /\ s \in Sockets
        BY <2>5 DEF Kept, Added, IInv, Shape
      <3>2. rem[s] = 0
        BY <2>5, <3>1 DEF Kept
      <3> QED
        BY <1>1, <2>1, <3>1, <3>2 DEF IInv, Placed
    <2> QED
      BY <2>2, <2>3, <2>4, <2>5 DEF Placed
  <1>5. Room' /\ Number'
    BY <1>1, <1>2 DEF Kept, IInv, Room, Number
  <1>6. Watched' = Watched
    BY <1>1 DEF Kept, Watched
  <1>7. Pending' = Pending => Filled'
    BY <1>3, <1>6 DEF Kept, IInv, Filled
  <1> QED
    BY <1>1, <1>2, <1>3, <1>4, <1>5, <1>7

\* A step of add(), or of a thread that looks at nothing but its own variables.
LEMMA LocalKeeps ==
    ASSUME IInv, UNCHANGED <<limits, selectors, work, rem, removed>>,
           Added' = Added, Pending' = Pending, Shape', Adding', Scanning'
    PROVE  IInv'
  <1>1. Kept
    BY DEF Kept
  <1>2. Working' /\ Begun'
    BY DEF IInv, Working, Begun
  <1> QED
    BY <1>1, <1>2, KeptKeeps DEF IInv

LEMMA QuietKeeps ==
    ASSUME IInv, UNCHANGED <<limits, selectors, work, rem, adder, called, refused, removed>>,
           run' \in BOOLEAN, terminated' \in BOOLEAN,
           owner' \in Owners,
           stopper' \in [op : {"idle", "stopping", "stopped"}, i : Nat]
    PROVE  IInv'
  <1>1. Shape'
    BY DEF IInv, Shape
  <1>2. Adding' /\ Scanning'
    BY DEF IInv, Adding, Scanning, Size, NothingTaken
  <1>3. Added' = Added /\ Pending' = Pending
    BY DEF Added, Pending
  <1> QED
    BY <1>1, <1>2, <1>3, LocalKeeps

-----------------------------------------------------------------------------
(* The steps of add() that look only.                                      *)

LEMMA CalledKeeps ==
    ASSUME IInv, NEW s \in Sockets, NEW pc \in {"purge", "drop", "scan"}, Called(s, pc)
    PROVE  IInv'
  <1>1. /\ adder.pc = "idle" /\ adder.sock = NoSocket /\ s \notin called
        /\ adder' = [pc |-> pc, sock |-> s, i |-> 1, charge |-> UintMax, min |-> 0]
        /\ called' = called \cup {s}
    BY DEF Called, Idle, IInv, Adding
  <1>2. UNCHANGED <<limits, run, selectors, work, rem, owner, stopper, refused, removed, missed, terminated>>
    BY DEF Called
  <1>3. Added' = Added
    BY <1>1, <1>2, NoSocketIsNone DEF Added, IInv, Shape
  <1>4. Pending' = Pending
    BY <1>1 DEF Pending
  <1>5. Shape'
    BY <1>1, <1>2, UintAssumption DEF IInv, Shape
  <1>6. Adding'
    BY <1>1, <1>2 DEF Adding, New, IInv, Shape
  <1>7. Scanning'
    BY <1>1 DEF Scanning
  <1> QED
    BY <1>2, <1>3, <1>4, <1>5, <1>6, <1>7, LocalKeeps

\* A step of add() with its socket, in front of the new selector.
LEMMA AddingKeeps ==
    ASSUME IInv, UNCHANGED <<limits, run, selectors, work, rem, owner, stopper, called, refused,
                             removed, terminated>>,
           adder.pc # "idle", adder.pc \notin New,
           NEW pc \in {"purge", "drop", "scan"}, NEW i \in Nat \ {0}, NEW c \in Nat, NEW m \in Nat,
           adder' = [pc |-> pc, sock |-> adder.sock, i |-> i, charge |-> c, min |-> m],
           c = UintMax \/ (m \in Selectors /\ Size(m) <= c),
           Scanning'
    PROVE  IInv'
  <1>1. adder.sock \in Sockets /\ adder.sock \in called \ refused
    BY Newcomer
  <1>2. Added' = Added /\ Pending' = Pending
    BY DEF Added, Pending, New
  <1>3. Shape'
    BY <1>1 DEF IInv, Shape
  <1>4. Adding'
    BY <1>1 DEF Adding, New, Size
  <1> QED
    BY <1>2, <1>3, <1>4, LocalKeeps

\* The end of an add() that returned false.
LEMMA RefusedKeeps ==
    ASSUME IInv, UNCHANGED <<limits, run, selectors, work, rem, owner, stopper, called, removed,
                             terminated>>,
           adder.pc # "idle", adder.pc \notin New,
           adder' = Idle, refused' = refused \cup {adder.sock}
    PROVE  IInv'
  <1>1. adder.sock \in called /\ called \subseteq Sockets /\ refused \subseteq called
    BY Newcomer DEF IInv, Shape
  <1>2. adder'.pc = "idle" /\ adder'.sock = NoSocket
    BY DEF Idle
  <1>3. Added' = Added
    BY <1>1, <1>2, NoSocketIsNone DEF Added
  <1>4. Pending' = Pending
    BY <1>2 DEF Pending, New
  <1>5. Idle \in [pc : {"idle"}, sock : {NoSocket}, i : Nat, charge : Nat, min : Nat]
    BY UintAssumption DEF Idle
  <1>6. Shape'
    BY <1>1, <1>5 DEF IInv, Shape
  <1>7. Adding' /\ Scanning'
    BY <1>2 DEF Adding, Scanning, New
  <1> QED
    BY <1>3, <1>4, <1>6, <1>7, LocalKeeps

LEMMA AdderIs ==
    ASSUME Shape
    PROVE  /\ adder = [pc |-> adder.pc, sock |-> adder.sock, i |-> adder.i, charge |-> adder.charge,
                       min |-> adder.min]
           /\ adder.i \in Nat /\ adder.charge \in Nat /\ adder.min \in Nat
           /\ adder.pc \in {"idle", "purge", "drop", "scan"} \cup New
  BY DEF Shape

\* The remove() in add(sock, host, port) finds nothing.
LEMMA PurgeKeeps ==
    ASSUME IInv, Purge
    PROVE  IInv'
  <1>1. adder.pc \in {"purge", "drop"} /\ adder.i > 0
    BY DEF Purge, IInv, Adding
  <1>2. /\ adder = [pc |-> adder.pc, sock |-> adder.sock, i |-> adder.i, charge |-> adder.charge,
                    min |-> adder.min]
        /\ adder.i \in Nat /\ adder.charge \in Nat /\ adder.min \in Nat
    BY AdderIs DEF IInv
  <1>3. UNCHANGED <<limits, run, work, rem, owner, stopper, called, removed, terminated>>
    BY DEF Purge
  <1>4. CASE adder.i \in Selectors
    <2>1. /\ adder' = [adder EXCEPT !.i = @ + 1] /\ refused' = refused
          /\ selectors' = [selectors EXCEPT ![adder.i].datas = @ \ {adder.sock}]
      BY <1>4 DEF Purge
    <2>2. selectors' = selectors
      <3>1. selectors \in Seq(Managers) /\ selectors[adder.i] \in Managers
        BY <1>4, Sizes DEF IInv, Shape
      <3>2. selectors[adder.i].datas \ {adder.sock} = selectors[adder.i].datas
        BY <1>1, <1>4, Newcomer
      <3>3. [selectors[adder.i] EXCEPT !.datas = @ \ {adder.sock}] = selectors[adder.i]
        BY <3>1, <3>2 DEF Managers
      <3> QED
        BY <1>4, <2>1, <3>1, <3>3
    <2>3. adder' = [pc |-> adder.pc, sock |-> adder.sock, i |-> adder.i + 1, charge |-> adder.charge,
                    min |-> adder.min]
      BY <1>2, <2>1
    <2>4. Scanning'
      BY <1>1, <2>3 DEF Scanning
    <2>5. adder.charge = UintMax \/ (adder.min \in Selectors /\ Size(adder.min) <= adder.charge)
      BY <1>1 DEF IInv, Adding
    <2>6. adder.i + 1 \in Nat \ {0}
      BY <1>2
    <2> QED
      BY <1>1, <1>2, <1>3, <2>1, <2>2, <2>3, <2>4, <2>5, <2>6, AddingKeeps DEF New
  <1>5. CASE adder.i \notin Selectors /\ adder.pc = "purge"
    <2>1. /\ adder' = [adder EXCEPT !.pc = "scan", !.i = 1] /\ refused' = refused
          /\ selectors' = selectors
      BY <1>5 DEF Purge
    <2>2. adder' = [pc |-> "scan", sock |-> adder.sock, i |-> 1, charge |-> adder.charge,
                    min |-> adder.min]
      BY <1>2, <2>1
    <2>3. Scanning'
      BY <2>1, <2>2 DEF Scanning, IInv, Shape
    <2>4. adder.charge = UintMax \/ (adder.min \in Selectors /\ Size(adder.min) <= adder.charge)
      BY <1>5 DEF IInv, Adding
    <2>5. adder.pc # "idle" /\ adder.pc \notin New /\ 1 \in Nat \ {0}
      BY <1>5 DEF New
    <2> QED
      BY <1>2, <1>3, <2>1, <2>2, <2>3, <2>4, <2>5, AddingKeeps
  <1>6. CASE adder.i \notin Selectors /\ adder.pc = "drop"
    <2>1. adder' = Idle /\ refused' = refused \cup {adder.sock} /\ selectors' = selectors
      BY <1>6 DEF Purge
    <2> QED
      BY <1>3, <1>6, <2>1, RefusedKeeps DEF New
  <1> QED
    BY <1>1, <1>4, <1>5, <1>6

LEMMA RefuseKeeps ==
    ASSUME IInv, Refuse
    PROVE  IInv'
  BY RefusedKeeps DEF Refuse, Scanned, New

LEMMA ScanKeeps ==
    ASSUME IInv, Scan
    PROVE  IInv'
  <1> DEFINE n == Size(adder.i)
             less == n < adder.charge
             c == IF less THEN n ELSE adder.charge
             m == IF less THEN adder.i ELSE adder.min
  <1>1. /\ adder.pc = "scan" /\ adder.i \in Selectors
        /\ adder' = IF less THEN [adder EXCEPT !.i = @ + 1, !.charge = n, !.min = adder.i]
                            ELSE [adder EXCEPT !.i = @ + 1]
        /\ UNCHANGED <<limits, run, selectors, work, rem, owner, stopper, called, refused, removed,
                       terminated>>
    BY DEF Scan, ScanSize
  <1>2. /\ adder = [pc |-> adder.pc, sock |-> adder.sock, i |-> adder.i, charge |-> adder.charge,
                    min |-> adder.min]
        /\ adder.i \in Nat /\ adder.charge \in Nat /\ adder.min \in Nat /\ adder.i > 0
    BY <1>1, AdderIs DEF IInv, Adding
  <1>3. n \in Nat
    BY <1>1, Sizes DEF IInv
  <1> HIDE DEF n
  <1>4. adder' = [pc |-> "scan", sock |-> adder.sock, i |-> adder.i + 1, charge |-> c, min |-> m]
    BY <1>1, <1>2
  <1>5. c \in Nat /\ m \in Nat /\ (c = UintMax \/ (m \in Selectors /\ Size(m) <= c))
    BY <1>1, <1>2, <1>3 DEF IInv, Adding, n
  <1>6. Scanning'
    <2>1. c <= adder.charge /\ c <= n
      BY <1>2, <1>3
    <2>2. ASSUME NothingTaken', NEW k \in Selectors, k < adder.i + 1 PROVE c <= Size(k)
      <3>1. NothingTaken
        BY <1>1, <2>2 DEF NothingTaken
      <3>2. k = adder.i \/ k < adder.i
        BY <1>2, <2>2
      <3>3. CASE k = adder.i
        BY <2>1, <3>3 DEF n
      <3>4. CASE k < adder.i
        <4>1. adder.charge <= Size(k) /\ Size(k) \in Nat
          BY <1>1, <3>1, <3>4, Sizes DEF IInv, Scanning
        <4> QED
          BY <1>2, <1>5, <2>1, <4>1
      <3> QED
        BY <3>2, <3>3, <3>4
    <2>3. Selectors' = Selectors /\ \A k \in Selectors : Size(k)' = Size(k)
      BY <1>1 DEF Size
    <2>4. adder'.charge = c /\ adder'.i = adder.i + 1
      BY <1>4
    <2> HIDE DEF c
    <2> QED
      BY <2>2, <2>3, <2>4 DEF Scanning
  <1> HIDE DEF c, m
  <1> QED
    BY <1>1, <1>2, <1>4, <1>5, <1>6, AddingKeeps DEF New

LEMMA ReadRunKeeps ==
    ASSUME IInv, ReadRun
    PROVE  IInv'
  <1> DEFINE pc == IF run THEN "start" ELSE "insert"
  <1>1. /\ adder.pc = "new" /\ adder' = [adder EXCEPT !.pc = pc]
        /\ UNCHANGED <<limits, run, selectors, work, rem, owner, stopper, called, refused, removed,
                       terminated>>
    BY DEF ReadRun
  <1>2. pc \in {"start", "insert"}
    OBVIOUS
  <1> HIDE DEF pc
  <1>3. /\ adder' = [pc |-> pc, sock |-> adder.sock, i |-> adder.i, charge |-> adder.charge,
                     min |-> adder.min]
        /\ adder' \in [pc : New, sock : Sockets \cup {NoSocket}, i : Nat, charge : Nat, min : Nat]
    BY <1>1, <1>2 DEF IInv, Shape, New
  <1>4. Added' = Added /\ Pending' = Pending
    BY <1>1, <1>2, <1>3 DEF Added, Pending
  <1>5. Shape'
    BY <1>1, <1>3 DEF IInv, Shape
  <1>6. Adding' /\ Scanning'
    BY <1>1, <1>2, <1>3 DEF IInv, Adding, Scanning, New
  <1> QED
    BY <1>1, <1>4, <1>5, <1>6, LocalKeeps

-----------------------------------------------------------------------------
(* The threads of the selectors.                                           *)

LEMMA Changed ==
    ASSUME Shape, NEW m \in Selectors, NEW e \in Managers,
           selectors' = [selectors EXCEPT ![m] = e]
    PROVE  /\ selectors' \in Seq(Managers) /\ Len(selectors') = Len(selectors)
           /\ Selectors' = Selectors /\ selectors'[m] = e
           /\ \A k \in Selectors : k # m => selectors'[k] = selectors[k]
  <1>1. selectors \in Seq(Managers)
    BY DEF Shape
  <1> QED
    BY <1>1, ExceptSeq

LEMMA Fields ==
    ASSUME NEW e, DOMAIN e = {"datas", "running", "ctl"}, NEW r
    PROVE  /\ [e EXCEPT !.running = r] = [datas |-> e.datas, running |-> r, ctl |-> e.ctl]
           /\ [e EXCEPT !.datas = r] = [datas |-> r, running |-> e.running, ctl |-> e.ctl]
  OBVIOUS

LEMMA Written ==
    ASSUME NEW e \in Managers, NEW r, NEW c \in {"none", "entry", "loop", "done"}
    PROVE  /\ [e EXCEPT !.running = r] = [datas |-> e.datas, running |-> r, ctl |-> e.ctl]
           /\ [[e EXCEPT !.ctl = c] EXCEPT !.running = r]
                  = [datas |-> e.datas, running |-> r, ctl |-> c]
  <1>1. DOMAIN e = {"datas", "running", "ctl"}
    BY DEF Managers
  <1> DEFINE f == [e EXCEPT !.ctl = c]
  <1>2. f.datas = e.datas /\ f.ctl = c
    BY <1>1
  <1>3. DOMAIN f = {"datas", "running", "ctl"}
    BY <1>1
  <1> HIDE DEF f
  <1>4. [f EXCEPT !.running = r] = [datas |-> e.datas, running |-> r, ctl |-> c]
    <2>1. [f EXCEPT !.running = r] = [datas |-> f.datas, running |-> r, ctl |-> f.ctl]
      BY <1>3, Fields
    <2> QED
      BY <1>2, <2>1
  <1>5. [e EXCEPT !.running = r] = [datas |-> e.datas, running |-> r, ctl |-> e.ctl]
    BY <1>1, Fields
  <1> QED
    BY <1>4, <1>5, Zenon DEF f

\* A thread of selector m, start() or stop() writes its _run and its control.
LEMMA ControlKeeps ==
    ASSUME IInv, NEW m \in Selectors, NEW r \in BOOLEAN,
           NEW c \in {"none", "entry", "loop", "done"},
           selectors' = [selectors EXCEPT ![m] = [datas |-> selectors[m].datas, running |-> r, ctl |-> c]],
           UNCHANGED <<limits, rem, called, refused, removed>>,
           work' \in [Sockets -> {"none", "test", "select", "callback", "done"}],
           \A s \in Sockets : work'[s] # work[s] =>
               s \in selectors[m].datas /\ rem[s] = 0 /\ c \notin {"none", "entry"},
           c \in {"none", "entry"} => ~r /\ selectors[m].ctl \in {"none", "entry"},
           UNCHANGED adder \/ (adder.pc = "start" /\ adder' = [adder EXCEPT !.pc = "insert"]),
           run' \in BOOLEAN, terminated' \in BOOLEAN,
           owner' \in Owners,
           stopper' \in [op : {"idle", "stopping", "stopped"}, i : Nat]
    PROVE  IInv'
  <1> DEFINE e == [datas |-> selectors[m].datas, running |-> r, ctl |-> c]
  <1>1. selectors[m] \in Managers /\ e \in Managers
    BY Sizes DEF IInv, Managers
  <1>2. /\ selectors' \in Seq(Managers) /\ Len(selectors') = Len(selectors)
        /\ Selectors' = Selectors /\ selectors'[m] = e
        /\ \A k \in Selectors : k # m => selectors'[k] = selectors[k]
    BY <1>1, Changed DEF IInv
  <1>3. \A k \in Selectors : selectors'[k].datas = selectors[k].datas
    BY <1>2
  <1>4. /\ adder'.sock = adder.sock /\ adder'.i = adder.i /\ adder'.min = adder.min
        /\ adder'.charge = adder.charge
        /\ adder'.pc = adder.pc \/ (adder.pc = "start" /\ adder'.pc = "insert")
        /\ adder' \in [pc : {"idle", "purge", "drop", "scan"} \cup New,
                       sock : Sockets \cup {NoSocket}, i : Nat, charge : Nat, min : Nat]
    BY DEF IInv, Shape, New
  <1>5. Added' = Added /\ Pending' = Pending
    BY <1>4 DEF Added, Pending
  <1>6. Kept
    BY <1>2, <1>3, <1>5 DEF Kept
  <1>7. \A k \in Selectors : Size(k)' = Size(k)
    BY <1>6, KeptKeeps
  <1>8. Shape'
    BY <1>2, <1>4 DEF IInv, Shape
  <1>9. Working'
    <2> SUFFICES ASSUME NEW s \in Sockets
                 PROVE  /\ work'[s] # "none" => s \in Added
                        /\ rem[s] # 0 => /\ work'[s] = "callback"
                                         /\ s \notin removed
                                         /\ \A k \in Selectors : s \in selectors[k].datas => k >= rem[s]
      BY <1>2, <1>3, <1>5 DEF Working
    <2>1. CASE work'[s] = work[s]
      BY <2>1 DEF IInv, Working
    <2>2. CASE work'[s] # work[s]
      BY <2>2 DEF IInv, Placed
    <2> QED
      BY <2>1, <2>2
  <1>10. Begun'
    <2> SUFFICES ASSUME NEW k \in Selectors, selectors'[k].ctl \in {"none", "entry"}
                 PROVE  ~selectors'[k].running /\ \A s \in selectors[k].datas : work'[s] = "none"
      BY <1>2, <1>3 DEF Begun
    <2>1. selectors[k].ctl \in {"none", "entry"} /\ ~selectors'[k].running
      BY <1>2 DEF IInv, Begun
    <2>2. ASSUME NEW s \in selectors[k].datas PROVE work'[s] = "none"
      <3>1. s \in Sockets /\ work[s] = "none"
        BY <2>1, Sizes DEF IInv, Begun, Managers
      <3>2. CASE work'[s] = work[s]
        BY <3>1, <3>2
      <3>3. CASE work'[s] # work[s]
        <4>1. s \in selectors[m].datas /\ c \notin {"none", "entry"}
          BY <3>1, <3>3
        <4>2. k = m
          BY <3>1, <4>1 DEF IInv, Placed
        <4> QED
          BY <1>2, <4>1, <4>2
      <3> QED
        BY <3>2, <3>3
    <2> QED
      BY <2>1, <2>2
  <1>11. Adding'
    BY <1>2, <1>3, <1>4, <1>7 DEF IInv, Adding, New
  <1>12. Scanning'
    BY <1>2, <1>4, <1>6, <1>7, KeptKeeps DEF IInv, Scanning
  <1> QED
    BY <1>5, <1>6, <1>8, <1>9, <1>10, <1>11, <1>12, KeptKeeps DEF IInv

LEMMA LaunchIs ==
    ASSUME IInv, NEW m \in Selectors, Launch(m)
    PROVE  \E c \in {"none", "entry", "loop", "done"} :
               /\ selectors' = [selectors EXCEPT ![m] = [datas |-> selectors[m].datas,
                                                   running |-> selectors[m].running, ctl |-> c]]
               /\ c \in {"none", "entry"} =>
                      ~selectors[m].running /\ selectors[m].ctl \in {"none", "entry"}
               /\ terminated' \in BOOLEAN
  <1> DEFINE old == selectors[m].ctl
             c == IF old = "none" THEN "entry" ELSE old
  <1>1. selectors[m] \in Managers
    BY Sizes DEF IInv
  <1>2. /\ selectors' = [selectors EXCEPT ![m].ctl = c] /\ terminated' \in BOOLEAN
    BY DEF Launch
  <1>3. c \in {"none", "entry", "loop", "done"} /\ (c \in {"none", "entry"} => old \in {"none", "entry"})
    BY <1>1 DEF Managers
  <1> HIDE DEF c
  <1>4. [selectors[m] EXCEPT !.ctl = c]
            = [datas |-> selectors[m].datas, running |-> selectors[m].running, ctl |-> c]
    BY <1>1 DEF Managers
  <1>5. c \in {"none", "entry"} => ~selectors[m].running
    BY <1>3 DEF IInv, Begun
  <1> QED
    BY <1>2, <1>3, <1>4, <1>5

LEMMA StartNewKeeps ==
    ASSUME IInv, StartNew
    PROVE  IInv'
  <1> PICK m \in Selectors : m = adder.min /\ adder.pc = "start"
    BY DEF StartNew, IInv, Adding, New, Shape
  <1>1. /\ Launch(m) /\ adder' = [adder EXCEPT !.pc = "insert"]
        /\ UNCHANGED <<limits, run, work, rem, owner, stopper, called, refused, removed>>
    BY DEF StartNew
  <1>2. selectors[m].running \in BOOLEAN
    BY Sizes DEF IInv, Managers
  <1>3. /\ work' \in [Sockets -> {"none", "test", "select", "callback", "done"}] /\ run' \in BOOLEAN
        /\ owner' \in Owners
        /\ stopper' \in [op : {"idle", "stopping", "stopped"}, i : Nat]
    BY <1>1 DEF IInv, Shape
  <1> QED
    BY <1>1, <1>2, <1>3, LaunchIs, ControlKeeps

LEMMA StartOneKeeps ==
    ASSUME IInv, StartOne
    PROVE  IInv'
  <1> PICK m \in Selectors : m = owner.i
    BY DEF StartOne
  <1>1. /\ Launch(m) /\ owner.op = "starting" /\ owner' = [owner EXCEPT !.i = @ + 1]
        /\ owner \in Owners
        /\ UNCHANGED <<limits, run, work, rem, adder, stopper, called, refused, removed>>
    BY DEF StartOne, IInv, Shape
  <1>2. selectors[m].running \in BOOLEAN
    BY Sizes DEF IInv, Managers
  <1>3. /\ work' \in [Sockets -> {"none", "test", "select", "callback", "done"}] /\ run' \in BOOLEAN
        /\ stopper' \in [op : {"idle", "stopping", "stopped"}, i : Nat]
    BY <1>1 DEF IInv, Shape
  <1>4. owner' \in Owners
    <2>1. owner.i + 1 \in Nat /\ owner' = [op |-> owner.op, i |-> owner.i + 1, at |-> owner.at]
      BY <1>1, OwnerIs
    <2>2. owner.at = NoSocket
      BY <1>1, OwnerIs
    <2> QED
      BY <1>1, <2>1, <2>2, DoingOwners DEF Doing
  <1> QED
    BY <1>1, <1>2, <1>3, <1>4, LaunchIs, ControlKeeps

LEMMA StopOneKeeps ==
    ASSUME IInv, StopOne
    PROVE  IInv'
  <1> PICK m \in Selectors : m = stopper.i
    BY DEF StopOne
  <1> DEFINE c == selectors[m].ctl
  <1>1. /\ selectors' = [selectors EXCEPT ![m].running = FALSE]
        /\ stopper.op = "stopping" /\ stopper' = [stopper EXCEPT !.i = @ + 1]
        /\ UNCHANGED <<limits, run, work, rem, adder, owner, called, refused, removed, terminated>>
    BY DEF StopOne
  <1>2. selectors[m] \in Managers /\ c \in {"none", "entry", "loop", "done"}
    BY Sizes DEF IInv, Managers
  <1>3. [selectors[m] EXCEPT !.running = FALSE]
            = [datas |-> selectors[m].datas, running |-> FALSE, ctl |-> c]
    BY <1>2, Written
  <1>4. selectors' = [selectors EXCEPT ![m] = [datas |-> selectors[m].datas, running |-> FALSE, ctl |-> c]]
    BY <1>1, <1>3
  <1>a. stopper' \in [op : {"idle", "stopping", "stopped"}, i : Nat]
    <2>1. stopper' = [stopper EXCEPT !.i = @ + 1]
      BY DEF StopOne
    <2> QED
      BY <2>1, SMTT(30) DEF IInv, Shape
  <1>5. /\ work' \in [Sockets -> {"none", "test", "select", "callback", "done"}] /\ run' \in BOOLEAN
        /\ owner' \in Owners
        /\ stopper' \in [op : {"idle", "stopping", "stopped"}, i : Nat]
        /\ terminated' \in BOOLEAN
    BY <1>1, <1>a DEF IInv, Shape
  <1>6. UNCHANGED <<limits, work, rem, adder, called, refused, removed>>
    BY DEF StopOne
  <1> PICK r \in BOOLEAN : r = FALSE
    OBVIOUS
  <1>7. selectors' = [selectors EXCEPT ![m] = [datas |-> selectors[m].datas, running |-> r, ctl |-> c]]
    BY <1>4
  <1>8. c \in {"none", "entry"} => ~r /\ selectors[m].ctl \in {"none", "entry"}
    OBVIOUS
  <1> HIDE DEF c
  <1> QED
    BY <1>2, <1>5, <1>6, <1>7, <1>8, ControlKeeps

LEMMA CtlLeavesKeeps ==
    ASSUME IInv, NEW m \in Selectors, CtlLeaves(m)
    PROVE  IInv'
  <1> DEFINE r == selectors[m].running
  <1>1. /\ selectors' = [selectors EXCEPT ![m].ctl = "done"]
        /\ UNCHANGED <<limits, run, work, rem, adder, owner, stopper, called, refused, removed, terminated>>
    BY DEF CtlLeaves
  <1>2. selectors[m] \in Managers /\ r \in BOOLEAN
    BY Sizes DEF IInv, Managers
  <1>3. [selectors[m] EXCEPT !.ctl = "done"]
            = [datas |-> selectors[m].datas, running |-> r, ctl |-> "done"]
    BY <1>2 DEF Managers
  <1>4. selectors' = [selectors EXCEPT ![m] = [datas |-> selectors[m].datas, running |-> r, ctl |-> "done"]]
    BY <1>1, <1>3
  <1>5. /\ work' \in [Sockets -> {"none", "test", "select", "callback", "done"}] /\ run' \in BOOLEAN
        /\ owner' \in Owners
        /\ stopper' \in [op : {"idle", "stopping", "stopped"}, i : Nat]
        /\ terminated' \in BOOLEAN
    BY <1>1 DEF IInv, Shape
  <1> HIDE DEF r
  <1> QED
    BY <1>1, <1>2, <1>4, <1>5, ControlKeeps

LEMMA RunMeKeeps ==
    ASSUME IInv, NEW m \in Selectors, RunMe(m)
    PROVE  IInv'
  <1>1. /\ selectors[m].ctl = "entry"
        /\ selectors' = [selectors EXCEPT ![m].ctl = "loop", ![m].running = TRUE]
        /\ work' = [s \in Sockets |-> IF s \in selectors[m].datas THEN "test" ELSE work[s]]
        /\ UNCHANGED <<limits, run, rem, adder, owner, stopper, called, refused, removed, terminated>>
    BY DEF RunMe
  <1>2. selectors[m] \in Managers
    BY Sizes DEF IInv
  <1>3. selectors' = [selectors EXCEPT ![m] = [datas |-> selectors[m].datas, running |-> TRUE, ctl |-> "loop"]]
    <2>1. [[selectors[m] EXCEPT !.ctl = "loop"] EXCEPT !.running = TRUE]
              = [datas |-> selectors[m].datas, running |-> TRUE, ctl |-> "loop"]
      BY <1>2, Written
    <2> QED
      BY <1>1, <2>1
  <1>4. \A s \in Sockets : work'[s] # work[s] => s \in selectors[m].datas /\ rem[s] = 0
    <2> SUFFICES ASSUME NEW s \in Sockets, work'[s] # work[s]
                 PROVE  s \in selectors[m].datas /\ rem[s] = 0
      OBVIOUS
    <2>1. s \in selectors[m].datas
      BY <1>1
    <2>2. work[s] = "none"
      BY <1>1, <2>1 DEF IInv, Begun
    <2> QED
      BY <2>1, <2>2 DEF IInv, Working
  <1>5. /\ work' \in [Sockets -> {"none", "test", "select", "callback", "done"}] /\ run' \in BOOLEAN
        /\ owner' \in Owners
        /\ stopper' \in [op : {"idle", "stopping", "stopped"}, i : Nat]
        /\ terminated' \in BOOLEAN
    BY <1>1 DEF IInv, Shape
  <1> QED
    BY <1>1, <1>3, <1>4, <1>5, ControlKeeps

-----------------------------------------------------------------------------
(* The workers, and remove().                                              *)

LEMMA WorkerKeeps ==
    ASSUME IInv, NEW s \in Sockets, Worker(s)
    PROVE  IInv'
  <1>1. /\ UNCHANGED <<limits, run, selectors, rem, adder, owner, stopper, called, refused, removed,
                       terminated>>
        /\ work[s] \in {"test", "select", "callback"}
        /\ work[s] = "callback" => rem[s] = 0
        /\ \E x \in {"test", "select", "callback", "done"} : work' = [work EXCEPT ![s] = x]
    BY DEF Worker
  <1>2. /\ work' \in [Sockets -> {"none", "test", "select", "callback", "done"}]
        /\ \A t \in Sockets : t # s => work'[t] = work[t]
    BY <1>1 DEF IInv, Shape
  <1>3. s \in Added /\ rem[s] = 0
    BY <1>1 DEF IInv, Working
  <1>4. Shape'
    BY <1>1, <1>2 DEF IInv, Shape
  <1>5. Added' = Added /\ Pending' = Pending
    BY <1>1 DEF Added, Pending
  <1>6. Working'
    BY <1>1, <1>2, <1>3, <1>5 DEF IInv, Working
  <1>7. Begun'
    <2> SUFFICES ASSUME NEW m \in Selectors, selectors[m].ctl \in {"none", "entry"},
                        NEW t \in selectors[m].datas
                 PROVE  work'[t] = "none"
      BY <1>1 DEF IInv, Begun
    <2>1. t \in Sockets /\ work[t] = "none"
      BY Sizes DEF IInv, Begun, Managers
    <2> QED
      BY <1>1, <1>2, <2>1
  <1>8. Adding' /\ Scanning'
    BY <1>1 DEF IInv, Adding, Scanning, Size, NothingTaken
  <1>9. Kept
    BY <1>1, <1>5 DEF Kept
  <1> QED
    BY <1>4, <1>5, <1>6, <1>7, <1>8, <1>9, KeptKeeps DEF IInv

LEMMA RemoveCalledKeeps ==
    ASSUME IInv, NEW s \in Sockets, RemoveCalled(s)
    PROVE  IInv'
  <1>1. /\ UNCHANGED <<limits, run, selectors, work, adder, owner, stopper, called, refused, removed,
                       terminated>>
        /\ work[s] = "callback" /\ rem[s] = 0 /\ s \notin removed /\ rem' = [rem EXCEPT ![s] = 1]
    BY DEF RemoveCalled
  <1>2. rem' \in [Sockets -> Nat] /\ rem'[s] = 1 /\ \A t \in Sockets : t # s => rem'[t] = rem[t]
    BY <1>1 DEF IInv, Shape
  <1>3. Shape'
    BY <1>1, <1>2 DEF IInv, Shape
  <1>4. Added' = Added /\ Pending' = Pending
    BY <1>1 DEF Added, Pending
  <1>5. Working'
    BY <1>1, <1>2, <1>4 DEF IInv, Working
  <1>6. ~NothingTaken'
    BY <1>2 DEF NothingTaken
  <1>7. Begun' /\ Adding' /\ Scanning'
    BY <1>1, <1>6 DEF IInv, Begun, Adding, Scanning, Size
  <1>8. Kept
    BY <1>1, <1>2, <1>4 DEF Kept
  <1> QED
    BY <1>3, <1>4, <1>5, <1>7, <1>8, KeptKeeps DEF IInv

LEMMA RemoveStepKeeps ==
    ASSUME IInv, NEW s \in Sockets, RemoveStep(s)
    PROVE  IInv'
  <1>1. /\ UNCHANGED <<limits, run, work, adder, stopper, called, refused, terminated>>
        /\ owner' \in Owners
    <2>1. owner \in Owners /\ (owner' = owner \/ owner' = Doing("lost", 0))
      BY DEF RemoveStep, IInv, Shape
    <2> QED
      BY <2>1, DoingOwners DEF RemoveStep
  <1>2. /\ rem[s] # 0 /\ rem[s] \in Nat /\ s \in Added /\ s \notin removed /\ work[s] = "callback"
        /\ \A m \in Selectors : s \in selectors[m].datas => m >= rem[s]
    BY DEF RemoveStep, IInv, Shape, Working
  <1>3. Added' = Added
    BY <1>1 DEF Added
  <1>4. CASE rem[s] \in Selectors
    <2> PICK m \in Selectors : m = rem[s]
      BY <1>4
    <2> DEFINE left == selectors[m].datas \ {s}
               e == [datas |-> left, running |-> selectors[m].running, ctl |-> selectors[m].ctl]
    <2>1. /\ selectors' = [selectors EXCEPT ![m].datas = left]
          /\ rem' = [rem EXCEPT ![s] = m + 1] /\ removed' = removed
      BY <1>4 DEF RemoveStep
    <2>2. /\ rem' \in [Sockets -> Nat] /\ rem'[s] = m + 1 /\ rem'[s] # 0 /\ m + 1 <= Len(selectors) + 1
          /\ \A t \in Sockets : t # s => rem'[t] = rem[t]
      BY <2>1 DEF IInv, Shape
    <2>3. selectors[m] \in Managers /\ e \in Managers
      BY Sizes DEF IInv, Managers
    <2>4. selectors' = [selectors EXCEPT ![m] = e]
      <3>1. DOMAIN selectors[m] = {"datas", "running", "ctl"}
        BY <2>3 DEF Managers
      <3>2. [selectors[m] EXCEPT !.datas = left] = e
        BY <3>1, Fields
      <3> QED
        BY <2>1, <3>2
    <2>5. /\ selectors' \in Seq(Managers) /\ Len(selectors') = Len(selectors)
          /\ Selectors' = Selectors /\ selectors'[m] = e
          /\ \A k \in Selectors : k # m => selectors'[k] = selectors[k]
      BY <2>3, <2>4, Changed DEF IInv
    <2>6. \A k \in Selectors :
              /\ selectors'[k].datas = selectors[k].datas \ (IF k = m THEN {s} ELSE {})
              /\ selectors'[k].running = selectors[k].running /\ selectors'[k].ctl = selectors[k].ctl
      BY <2>5
    <2>7. Shape'
      <3>1. \A t \in Sockets : rem'[t] <= Len(selectors') + 1
        BY <2>2, <2>5 DEF IInv, Shape
      <3>2. selectors' \in Seq(Managers) /\ rem' \in [Sockets -> Nat]
        BY <2>2, <2>5
      <3>3. Shape
        BY DEF IInv
      <3> QED
        BY <1>1, <3>1, <3>2, <3>3 DEF Shape
    <2>8. Placed'
      <3>1. ASSUME NEW t \in Added \ removed, rem'[t] = 0
            PROVE  \E k \in Selectors : t \in selectors'[k].datas
        <4>1. t # s /\ t \in Sockets /\ rem[t] = 0
          BY <2>2, <3>1 DEF Added, IInv, Shape
        <4> QED
          BY <2>6, <3>1, <4>1 DEF IInv, Placed
      <3>2. \A k \in Selectors : selectors'[k].datas \subseteq selectors[k].datas
        BY <2>6
      <3> QED
        BY <1>3, <2>1, <2>5, <3>1, <3>2 DEF IInv, Placed
    <2>9. Working'
      <3>1. \A k \in Selectors : s \in selectors'[k].datas => k >= m + 1
        BY <1>2, <2>6 DEF IInv, Shape
      <3>2. \A t \in Sockets, k \in Selectors : t \in selectors'[k].datas => t \in selectors[k].datas
        BY <2>6
      <3> QED
        BY <1>1, <1>2, <1>3, <2>1, <2>2, <2>5, <3>1, <3>2 DEF IInv, Working
    <2>10. Begun'
      BY <1>1, <2>5, <2>6 DEF IInv, Begun
    <2> DEFINE now(k) == Cardinality(selectors'[k].datas)
    <2>11. \A k \in Selectors : now(k) <= Size(k) /\ now(k) \in Nat /\ Size(k) \in Nat
      <3> TAKE k \in Selectors
      <3>1. selectors'[k].datas \in SUBSET selectors[k].datas
        BY <2>6
      <3>2. IsFiniteSet(selectors[k].datas)
        BY Sizes DEF IInv
      <3> QED
        BY <3>1, <3>2, FS_Subset, FS_CardinalityType DEF Size
    <2>12. Adding'
      <3>1. adder.charge \in Nat
        BY DEF IInv, Shape
      <3>2. adder.min \in Selectors /\ Size(adder.min) <= adder.charge => now(adder.min) <= adder.charge
        BY <2>11, <3>1
      <3>3. adder.pc \in New => adder.min \in Selectors /\ selectors'[adder.min].datas = {}
        <4>1. adder.pc \in New => adder.min \in Selectors /\ selectors[adder.min].datas = {}
          BY DEF IInv, Adding, Shape
        <4> QED
          BY <2>6, <4>1
      <3> QED
        BY <1>1, <2>5, <3>2, <3>3 DEF IInv, Adding, Size
    <2>13. Room' /\ Number'
      <3>1. limits.perSelector \in Nat
        BY LimitsType DEF IInv, Shape
      <3>2. \A k \in Selectors : now(k) <= limits.perSelector
        BY <2>11, <3>1 DEF IInv, Room
      <3> QED
        BY <1>1, <2>5, <3>2 DEF IInv, Room, Number, Size
    <2>14. ~NothingTaken'
      BY <2>2 DEF NothingTaken
    <2> QED
      BY <2>7, <2>8, <2>9, <2>10, <2>12, <2>13, <2>14 DEF IInv, Scanning, Filled
  <1>5. CASE rem[s] \notin Selectors
    <2>1. /\ selectors' = selectors /\ rem' = [rem EXCEPT ![s] = 0] /\ removed' = removed \cup {s}
      BY <1>5 DEF RemoveStep
    <2>2. rem' \in [Sockets -> Nat] /\ rem'[s] = 0 /\ \A t \in Sockets : t # s => rem'[t] = rem[t]
      BY <2>1 DEF IInv, Shape
    <2>3. \A m \in Selectors : s \notin selectors[m].datas
      BY <1>2, <1>5 DEF IInv, Shape
    <2>4. Shape'
      BY <1>1, <2>1, <2>2 DEF IInv, Shape
    <2>5. Placed'
      <3>1. ASSUME NEW t \in Added \ (removed \cup {s}), rem'[t] = 0
            PROVE  \E k \in Selectors : t \in selectors[k].datas
        BY <2>2, <3>1 DEF Added, IInv, Shape, Placed
      <3>2. \A k \in Selectors : selectors[k].datas \subseteq Added \ (removed \cup {s})
        BY <2>3 DEF IInv, Placed
      <3> QED
        BY <1>2, <1>3, <2>1, <3>1, <3>2 DEF IInv, Placed
    <2>6. Working'
      BY <1>1, <1>3, <2>1, <2>2 DEF IInv, Working
    <2>7. Begun' /\ Adding' /\ Room' /\ Number'
      BY <1>1, <2>1 DEF IInv, Begun, Adding, Room, Number, Size
    <2>8. ~NothingTaken'
      BY <2>1 DEF NothingTaken
    <2> QED
      BY <2>4, <2>5, <2>6, <2>7, <2>8 DEF IInv, Scanning, Filled
  <1> QED
    BY <1>4, <1>5

-----------------------------------------------------------------------------
(* The steps that give a socket, or a selector, and Clear.                 *)

LEMMA InsertKeeps ==
    ASSUME IInv, NEW m \in Selectors, adder.pc # "idle", Size(m) < limits.perSelector, Insert(m)
    PROVE  IInv'
  <1> PICK s \in Sockets : s = adder.sock
    BY Newcomer
  <1> DEFINE e == [datas |-> selectors[m].datas \cup {s}, running |-> selectors[m].running,
                   ctl |-> selectors[m].ctl]
  <1>1. /\ selectors' = [selectors EXCEPT ![m].datas = @ \cup {s}]
        /\ work' = IF selectors[m].running THEN [work EXCEPT ![s] = "test"] ELSE work
        /\ adder' = Idle
        /\ UNCHANGED <<limits, run, rem, owner, stopper, called, refused, removed, terminated>>
    BY DEF Insert
  <1>2. /\ s \notin Added /\ s \notin removed /\ s \in called /\ s \notin refused
        /\ work[s] = "none" /\ rem[s] = 0 /\ \A k \in Selectors : s \notin selectors[k].datas
    BY Newcomer
  <1>3. selectors[m] \in Managers /\ e \in Managers /\ selectors' = [selectors EXCEPT ![m] = e]
    <2>1. selectors[m] \in Managers
      BY Sizes DEF IInv
    <2>2. DOMAIN selectors[m] = {"datas", "running", "ctl"}
      BY <2>1 DEF Managers
    <2>3. [selectors[m] EXCEPT !.datas = @ \cup {s}] = e
      BY <2>2, Fields
    <2>4. e \in Managers
      BY <2>1 DEF Managers
    <2> QED
      BY <1>1, <2>1, <2>3, <2>4
  <1>4. /\ selectors' \in Seq(Managers) /\ Len(selectors') = Len(selectors)
        /\ Selectors' = Selectors /\ selectors'[m] = e
        /\ \A k \in Selectors : k # m => selectors'[k] = selectors[k]
    BY <1>3, Changed DEF IInv
  <1>5. \A k \in Selectors :
            /\ selectors'[k].datas = selectors[k].datas \cup (IF k = m THEN {s} ELSE {})
            /\ selectors'[k].running = selectors[k].running /\ selectors'[k].ctl = selectors[k].ctl
    BY <1>4
  <1>6. adder'.pc = "idle" /\ adder'.sock = NoSocket
        /\ adder' \in [pc : {"idle"}, sock : {NoSocket}, i : Nat, charge : Nat, min : Nat]
    BY <1>1, UintAssumption DEF Idle
  <1>7. Added' = Added \cup {s}
    <2>1. refused \subseteq called /\ called \subseteq Sockets
      BY DEF IInv, Shape
    <2> QED
      BY <1>1, <1>2, <1>6, <2>1, NoSocketIsNone DEF Added
  <1>8. /\ work' \in [Sockets -> {"none", "test", "select", "callback", "done"}]
        /\ \A t \in Sockets : t # s => work'[t] = work[t]
        /\ ~selectors[m].running => work'[s] = "none"
    BY <1>1, <1>2 DEF IInv, Shape
  <1>9. Shape'
    <2>1. \A t \in Sockets : rem'[t] <= Len(selectors') + 1
      BY <1>1, <1>4 DEF IInv, Shape
    <2> QED
      BY <1>1, <1>4, <1>6, <1>8, <2>1 DEF IInv, Shape
  <1>10. Placed'
    <2>1. removed' \subseteq Added'
      BY <1>1, <1>7 DEF IInv, Placed
    <2>2. \A t \in Sockets, j, k \in Selectors :
              t \in selectors'[j].datas /\ t \in selectors'[k].datas => j = k
      BY <1>2, <1>5 DEF IInv, Placed
    <2>3. \A k \in Selectors : selectors'[k].datas \subseteq Added' \ removed'
      BY <1>1, <1>2, <1>5, <1>7 DEF IInv, Placed
    <2>4. ASSUME NEW t \in Added' \ removed', rem'[t] = 0
          PROVE  \E k \in Selectors : t \in selectors'[k].datas
      <3>1. CASE t = s
        BY <1>5, <3>1
      <3>2. CASE t # s
        BY <1>1, <1>5, <1>7, <2>4, <3>2 DEF IInv, Placed
      <3> QED
        BY <3>1, <3>2
    <2> QED
      BY <1>4, <2>1, <2>2, <2>3, <2>4 DEF Placed
  <1>11. Working'
    <2>1. \A t \in Sockets, k \in Selectors :
              t # s /\ t \in selectors'[k].datas => t \in selectors[k].datas
      BY <1>5
    <2> QED
      BY <1>1, <1>2, <1>4, <1>7, <1>8, <2>1 DEF IInv, Working
  <1>12. Begun'
    <2> SUFFICES ASSUME NEW k \in Selectors, selectors[k].ctl \in {"none", "entry"}
                 PROVE  ~selectors[k].running /\ \A t \in selectors'[k].datas : work'[t] = "none"
      BY <1>4, <1>5 DEF Begun
    <2>1. ~selectors[k].running /\ \A t \in selectors[k].datas : work[t] = "none"
      BY DEF IInv, Begun
    <2>2. selectors[k].datas \subseteq Sockets
      BY Sizes DEF IInv, Managers
    <2> QED
      BY <1>2, <1>5, <1>8, <2>1, <2>2
  <1>13. Adding' /\ Scanning'
    BY <1>6 DEF Adding, Scanning, New
  <1>14. Room'
    <2> DEFINE now(k) == Cardinality(selectors'[k].datas)
    <2>1. IsFiniteSet(selectors[m].datas) /\ Size(m) \in Nat
      BY Sizes DEF IInv
    <2>2. now(m) = Size(m) + 1
      <3>1. Cardinality(selectors[m].datas \cup {s}) = Cardinality(selectors[m].datas) + 1
        BY <1>2, <2>1, FS_AddElement
      <3> QED
        BY <1>4, <3>1 DEF Size
    <2>3. now(m) <= limits.perSelector
      BY <2>1, <2>2, LimitsType DEF IInv, Shape
    <2>4. \A k \in Selectors : k # m => now(k) = Size(k)
      BY <1>4 DEF Size
    <2> HIDE DEF now
    <2>5. \A k \in Selectors : now(k) <= limits.perSelector
      BY <2>3, <2>4 DEF IInv, Room
    <2> QED
      BY <1>1, <1>4, <2>5 DEF Room, Size, now
  <1>15. Number'
    BY <1>1, <1>4 DEF IInv, Number
  <1>16. Filled'
    <2>1. /\ Watched \cup Pending \subseteq Watched' \cup Pending'
          /\ Watched' \cup Pending' \in SUBSET Sockets
      <3>1. Watched' = Watched \cup {s}
        BY <1>4, <1>5 DEF Watched
      <3>2. Pending \subseteq {s} /\ Pending' = {}
        BY <1>6 DEF Pending
      <3>3. Watched \in SUBSET Sockets
        BY WatchedCount DEF IInv
      <3> QED
        BY <3>1, <3>2, <3>3
    <2>2. IsFiniteSet(Watched' \cup Pending') /\ Cardinality(Watched' \cup Pending') \in Nat
      BY <2>1, SubsetCount
    <2>3. Cardinality(Watched \cup Pending) <= Cardinality(Watched' \cup Pending')
      BY <2>1, <2>2, FS_Subset
    <2>4. Cardinality(Watched \cup Pending) \in Nat
      BY WatchedCount DEF IInv
    <2>5. NothingTaken' <=> NothingTaken
      BY <1>1 DEF NothingTaken
    <2>6. (Len(selectors) - 1) * limits.perSelector \in Int
      BY LimitsType DEF IInv, Shape
    <2> QED
      BY <1>1, <1>4, <2>2, <2>3, <2>4, <2>5, <2>6 DEF IInv, Filled
  <1> QED
    BY <1>9, <1>10, <1>11, <1>12, <1>13, <1>14, <1>15, <1>16 DEF IInv

LEMMA PlaceKeeps ==
    ASSUME IInv, Place
    PROVE  IInv'
  <1>1. adder.pc = "scan" /\ adder.charge < limits.perSelector /\ Insert(adder.min)
    BY DEF Place, Scanned
  <1>2. adder.charge # UintMax
    BY <1>1, LimitsType DEF IInv, Shape
  <1>3. adder.min \in Selectors /\ Size(adder.min) <= adder.charge
    BY <1>1, <1>2 DEF IInv, Adding
  <1>4. Size(adder.min) < limits.perSelector
    BY <1>1, <1>3, LimitsType, Sizes DEF IInv, Shape
  <1> QED
    BY <1>1, <1>3, <1>4, InsertKeeps

LEMMA InsertNewKeeps ==
    ASSUME IInv, InsertNew
    PROVE  IInv'
  <1>1. adder.pc = "insert" /\ Insert(adder.min)
    BY DEF InsertNew
  <1>2. adder.min \in Selectors /\ selectors[adder.min].datas = {}
    BY <1>1 DEF IInv, Adding, Shape, New
  <1>3. Size(adder.min) < limits.perSelector
    BY <1>2, FS_EmptySet, LimitsType DEF IInv, Shape, Size
  <1> QED
    BY <1>1, <1>2, <1>3, InsertKeeps

\* A selector is added only when all there are are full; the new one is empty.
LEMMA GrowKeeps ==
    ASSUME IInv, Grow
    PROVE  IInv'
  <1> DEFINE last == Len(selectors) + 1
             per == limits.perSelector
  <1>1. /\ adder.pc = "scan" /\ adder.i \notin Selectors /\ adder.charge >= per /\ MayGrow
        /\ selectors' = Append(selectors, Manager)
        /\ adder' = [adder EXCEPT !.pc = "new", !.min = last]
        /\ UNCHANGED <<limits, run, work, rem, owner, stopper, called, refused, removed, terminated>>
    BY DEF Grow, GrowTo, Scanned
  <1>2. /\ Manager \in Managers /\ Manager.datas = {} /\ Manager.ctl = "none" /\ ~Manager.running
    BY DEF Manager, Managers
  <1>3. selectors \in Seq(Managers) /\ Len(selectors) \in Nat
    BY DEF IInv, Shape
  <1> HIDE DEF Manager
  <1>4. /\ selectors' \in Seq(Managers) /\ Len(selectors') = last
        /\ Selectors' = Selectors \cup {last} /\ last \notin Selectors
        /\ selectors'[last] = Manager
        /\ \A k \in Selectors : selectors'[k] = selectors[k]
    BY <1>1, <1>2, <1>3
  <1>5. /\ adder' = [pc |-> "new", sock |-> adder.sock, i |-> adder.i, charge |-> adder.charge,
                     min |-> last]
        /\ adder' \in [pc : New, sock : Sockets, i : Nat, charge : Nat, min : Nat]
    <2>1. /\ adder = [pc |-> adder.pc, sock |-> adder.sock, i |-> adder.i, charge |-> adder.charge,
                      min |-> adder.min]
          /\ adder.i \in Nat /\ adder.charge \in Nat /\ adder.min \in Nat
      BY AdderIs DEF IInv
    <2>2. adder.sock \in Sockets /\ last \in Nat
      BY <1>1, <1>3, Newcomer
    <2> HIDE DEF last
    <2> QED
      BY <1>1, <2>1, <2>2 DEF New
  <1>6. Added' = Added
    BY <1>1, <1>5 DEF Added
  <1>7. Shape'
    <2>1. \A t \in Sockets : rem'[t] <= Len(selectors') + 1
      <3> TAKE t \in Sockets
      <3>1. rem[t] \in Nat /\ rem[t] <= Len(selectors) + 1
        BY DEF IInv, Shape
      <3> QED
        BY <1>1, <1>3, <1>4, <3>1
    <2>2. adder' \in [pc : {"idle", "purge", "drop", "scan"} \cup New, sock : Sockets \cup {NoSocket},
                      i : Nat, charge : Nat, min : Nat]
      BY <1>5
    <2> QED
      BY <1>1, <1>4, <2>1, <2>2 DEF IInv, Shape
  <1>8. \A k \in Selectors' :
            \/ k = last /\ selectors'[k] = Manager
            \/ k \in Selectors /\ k # last /\ selectors'[k] = selectors[k]
    BY <1>4
  <1>9. Placed'
    <2>1. \A t \in Sockets, j, k \in Selectors' :
              t \in selectors'[j].datas /\ t \in selectors'[k].datas => j = k
      BY <1>2, <1>8 DEF IInv, Placed
    <2>2. \A k \in Selectors' : selectors'[k].datas \subseteq Added \ removed
      BY <1>2, <1>8 DEF IInv, Placed
    <2>3. \A t \in Added \ removed : rem[t] = 0 => \E k \in Selectors' : t \in selectors'[k].datas
      BY <1>4 DEF IInv, Placed
    <2> QED
      BY <1>1, <1>6, <2>1, <2>2, <2>3 DEF IInv, Placed
  <1>10. Working'
    <2>1. \A t \in Sockets, k \in Selectors' :
              t \in selectors'[k].datas => k \in Selectors /\ t \in selectors[k].datas
      BY <1>2, <1>8
    <2> QED
      BY <1>1, <1>6, <2>1 DEF IInv, Working
  <1>11. Begun'
    BY <1>1, <1>2, <1>8 DEF IInv, Begun
  <1>12. Adding'
    <2>1. adder.sock \in called \ refused /\ adder.i > 0
      BY <1>1 DEF IInv, Adding
    <2>2. last > 0 /\ Len(selectors') = last /\ selectors'[last].datas = {}
      BY <1>2, <1>3, <1>4
    <2> HIDE DEF last
    <2> QED
      BY <1>1, <1>5, <2>1, <2>2 DEF Adding, New
  <1>13. Scanning'
    BY <1>5 DEF Scanning
  <1>14. per \in Nat \ {0} /\ limits.selectors \in Nat
    BY LimitsType DEF IInv, Shape
  <1>15. Room'
    <2> DEFINE now(k) == Cardinality(selectors'[k].datas)
    <2>1. \A k \in Selectors' : now(k) = 0 \/ (k \in Selectors /\ now(k) = Size(k))
      BY <1>2, <1>8, FS_EmptySet DEF Size
    <2> HIDE DEF now
    <2>2. \A k \in Selectors' : now(k) <= per
      BY <1>14, <2>1 DEF IInv, Room
    <2> QED
      BY <1>1, <2>2 DEF Room, Size, now
  <1>16. Number'
    BY <1>1, <1>3, <1>4, <1>14 DEF MayGrow, Number
  <1>17. Filled'
    <2> SUFFICES ASSUME NothingTaken
                 PROVE  Cardinality(Watched' \cup Pending') > Len(selectors) * per
      <3>1. NothingTaken' <=> NothingTaken
        BY <1>1 DEF NothingTaken
      <3>2. Len(selectors') - 1 = Len(selectors)
        BY <1>3, <1>4
      <3> QED
        BY <1>1, <3>1, <3>2 DEF Filled
    <2>1. \A m \in Selectors : Size(m) = per
      BY <1>1, InvLimitsUsed DEF LimitsUsed, NothingTaken
    <2> DEFINE f == [m \in 1..Len(selectors) |-> selectors[m].datas]
    <2>2. f \in [1..Len(selectors) -> SUBSET Sockets]
      BY Sizes DEF IInv, Managers
    <2>3. \A m \in 1..Len(selectors) : Cardinality(f[m]) = per
      BY <2>1 DEF Size
    <2>4. \A l, m \in 1..Len(selectors) : l # m => f[l] \cap f[m] = {}
      <3>1. \A m \in Selectors : f[m] = selectors[m].datas /\ f[m] \subseteq Sockets
        BY <2>2
      <3> QED
        BY <3>1 DEF IInv, Placed
    <2>5. Watched = UNION {f[m] : m \in 1..Len(selectors)}
      BY DEF Watched
    <2> HIDE DEF f
    <2>6. Cardinality(Watched) = Len(selectors) * per
      BY <1>3, <1>14, <2>2, <2>3, <2>4, <2>5, Together
    <2>7. Watched' = Watched
      BY <1>2, <1>4, <1>8 DEF Watched
    <2>8. Pending' = {adder.sock} /\ adder.sock \notin Watched
      BY <1>1, <1>5, Newcomer DEF Pending, Watched, New
    <2>9. IsFiniteSet(Watched)
      BY WatchedCount, SubsetCount DEF IInv
    <2>10. Cardinality(Watched \cup {adder.sock}) = Cardinality(Watched) + 1
      BY <2>8, <2>9, FS_AddElement
    <2>11. Cardinality(Watched) \in Nat
      BY <2>9, FS_CardinalityType
    <2> QED
      BY <2>6, <2>7, <2>8, <2>10, <2>11
  <1> QED
    BY <1>7, <1>9, <1>10, <1>11, <1>12, <1>13, <1>15, <1>16, <1>17 DEF IInv

LEMMA ClearKeeps ==
    ASSUME IInv, Clear
    PROVE  IInv'
  <1>1. /\ adder.pc = "idle" /\ \A s \in Sockets : work[s] \in {"none", "done"}
        /\ terminated' = \E m \in Selectors : m > owner.i /\ selectors[m].ctl # "none"
        /\ selectors' = <<>> /\ removed' = called \ refused
        /\ owner' = Doing("cleared", 0)
        /\ UNCHANGED <<limits, run, work, rem, adder, stopper, called, refused>>
    BY DEF Clear
  <1>2. terminated' \in BOOLEAN
    BY <1>1
  <1>3. adder.sock = NoSocket /\ called \subseteq Sockets
    BY <1>1 DEF IInv, Adding, Shape
  <1>4. \A s \in Sockets : rem[s] = 0
    BY <1>1 DEF IInv, Working
  <1>5. selectors' \in Seq(Managers) /\ Len(selectors') = 0 /\ Selectors' = {}
    BY <1>1
  <1>6. Added' = Added /\ Added = called \ refused
    BY <1>1, <1>3, NoSocketIsNone DEF Added
  <1>7. Shape'
    <2>1. \A s \in Sockets : rem'[s] <= Len(selectors') + 1
      BY <1>1, <1>4, <1>5
    <2>2. owner' \in Owners
      BY <1>1, DoingOwners
    <2> QED
      BY <1>1, <1>2, <1>5, <2>1, <2>2 DEF IInv, Shape
  <1>8. Placed'
    BY <1>1, <1>5, <1>6 DEF Placed
  <1>9. Working'
    BY <1>1, <1>4, <1>5, <1>6 DEF IInv, Working
  <1>10. Begun' /\ Adding' /\ Scanning' /\ Room'
    BY <1>1, <1>3, <1>5 DEF Begun, Adding, Scanning, Room, New
  <1>11. Number' /\ Filled'
    BY <1>1, <1>5, LimitsType DEF IInv, Shape, Number, Filled
  <1> QED
    BY <1>7, <1>8, <1>9, <1>10, <1>11 DEF IInv

-----------------------------------------------------------------------------
LEMMA AdderKeeps == IInv /\ Adder => IInv'
  BY PurgeKeeps, ScanKeeps, PlaceKeeps, GrowKeeps, ReadRunKeeps, StartNewKeeps, InsertNewKeeps,
     RefuseKeeps DEF Adder

LEMMA OwnerKeeps ==
    ASSUME IInv, Owner
    PROVE  IInv'
  <1>1. CASE StartOne
    BY <1>1, StartOneKeeps
  <1>2. CASE Clear
    BY <1>2, ClearKeeps
  <1>3. CASE Start \/ StartReturns \/ Wait \/ JoinControl \/ JoinWorker \/ WaitReturns
    <2>1. /\ UNCHANGED <<limits, selectors, work, rem, adder, called, refused, removed, stopper,
                         terminated>>
          /\ run' = run \/ run' = TRUE
      BY <1>3 DEF Start, StartReturns, Wait, JoinControl, JoinWorker, WaitReturns, Waits
    <2>2. run' \in BOOLEAN /\ terminated' \in BOOLEAN
          /\ stopper' \in [op : {"idle", "stopping", "stopped"}, i : Nat]
      BY <2>1 DEF IInv, Shape
    <2>3. owner \in Owners /\ Len(selectors) \in Nat
      BY DEF IInv, Shape
    <2>4. owner' \in Owners
      <3>1. CASE JoinControl
        <4>1. \/ owner.op = "waiting" /\ owner' = [owner EXCEPT !.op = "joining"]
              \/ owner' = Doing("threw", 0)
          BY <3>1 DEF JoinControl
        <4>2. owner.op = "waiting" => [owner EXCEPT !.op = "joining"] = Doing("joining", owner.i)
          BY <2>3, OwnerIs DEF Doing
        <4> QED
          BY <2>3, <4>1, <4>2, OwnerIs, DoingOwners
      <3>2. CASE JoinWorker
        <4>1. owner.op = "joining" /\ owner.i \in Selectors /\ owner.i \in Nat
          BY <2>3, <3>2, OwnerIs DEF JoinWorker
        <4>2. selectors[owner.i].datas \subseteq Sockets
          BY <4>1, Sizes DEF IInv, Managers
        <4>3. \/ \E s \in Sockets : owner' = [owner EXCEPT !.at = s]
              \/ owner' = [owner EXCEPT !.at = NoSocket]
              \/ owner' = Doing("waiting", owner.i + 1) \/ owner' = Doing("threw", 0)
          BY <3>2, <4>2 DEF JoinWorker
        <4>4. \A t : [owner EXCEPT !.at = t] = [op |-> "joining", i |-> owner.i, at |-> t]
          BY <2>3, <4>1, OwnerIs
        <4>5. [op |-> "joining", i |-> owner.i, at |-> NoSocket] = Doing("joining", owner.i)
          BY DEF Doing
        <4>6. [owner EXCEPT !.at = NoSocket] \in Owners
              /\ \A s \in Sockets : [owner EXCEPT !.at = s] \in Owners
          BY <4>1, <4>4, <4>5, DoingOwners, JoiningOwners
        <4>7. Doing("waiting", owner.i + 1) \in Owners /\ Doing("threw", 0) \in Owners
          BY <4>1, DoingOwners
        <4> QED
          BY <4>3, <4>6, <4>7
      <3>3. CASE Start \/ StartReturns \/ Wait \/ WaitReturns
        <4>1. \/ owner' = Doing("starting", 1) \/ owner' = Doing("started", 0)
              \/ owner' = Doing("waiting", 1) \/ owner' = Doing("returned", Len(selectors))
          BY <3>3 DEF Start, StartReturns, Wait, WaitReturns
        <4> QED
          BY <2>3, <4>1, DoingOwners
      <3> QED
        BY <1>3, <3>1, <3>2, <3>3
    <2> QED
      BY <2>1, <2>2, <2>4, QuietKeeps
  <1> QED
    BY <1>1, <1>2, <1>3 DEF Owner

LEMMA StopperKeeps ==
    ASSUME IInv, Stopper
    PROVE  IInv'
  <1>1. CASE StopOne
    BY <1>1, StopOneKeeps
  <1>2. CASE Stop \/ StopReturns
    <2>1. /\ UNCHANGED <<limits, selectors, work, rem, adder, called, refused, removed, owner,
                         terminated>>
          /\ run' = run \/ run' = FALSE
          /\ stopper' = [op |-> "stopping", i |-> 1] \/ stopper' = [op |-> "stopped", i |-> 0]
      BY <1>2 DEF Stop, StopReturns
    <2>2. /\ run' \in BOOLEAN /\ terminated' \in BOOLEAN
          /\ owner' \in Owners
      BY <2>1 DEF IInv, Shape
    <2>3. stopper' \in [op : {"idle", "stopping", "stopped"}, i : Nat]
      BY <2>1
    <2> QED
      BY <2>1, <2>2, <2>3, QuietKeeps
  <1> QED
    BY <1>1, <1>2 DEF Stopper

LEMMA StepIInv == IInv /\ [Next]_vars => IInv'
  <1> SUFFICES ASSUME IInv, [Next]_vars PROVE IInv'
    OBVIOUS
  <1>1. CASE Adder
    BY <1>1, AdderKeeps
  <1>2. CASE Owner \/ Stopper
    BY <1>2, OwnerKeeps, StopperKeeps
  <1>3. CASE Control
    BY <1>3, RunMeKeeps, CtlLeavesKeeps DEF Control
  <1>4. ASSUME NEW s \in Sockets, Call(s) PROVE IInv'
    <2>1. CASE AddCalled(s) \/ \E connected \in BOOLEAN : AddHost(s, connected)
      <3>1. Called(s, "scan") \/ Called(s, "purge") \/ Called(s, "drop")
        BY <2>1 DEF AddCalled, AddHost
      <3> QED
        BY <3>1, CalledKeeps
    <2>2. CASE RemoveCalled(s)
      BY <2>2, RemoveCalledKeeps
    <2> QED
      BY <1>4, <2>1, <2>2 DEF Call
  <1>5. ASSUME NEW s \in Sockets, Serving(s) PROVE IInv'
    BY <1>5, WorkerKeeps, RemoveStepKeeps DEF Serving
  <1>6. CASE UNCHANGED vars
    BY <1>6, QuietKeeps DEF vars, IInv, Shape
  <1> QED
    BY <1>1, <1>2, <1>3, <1>4, <1>5, <1>6 DEF Next

LEMMA SpecIInv == Spec => []IInv
  BY InitIInv, StepIInv, PTL DEF Spec

\* Types; add() puts the socket into the selector it made last.
THEOREM TypeCorrect == Spec => []TypeOK
  BY SpecIInv, InvTypeOK, PTL

\* A socket is in one selector between add() and remove(), in none otherwise.
THEOREM OnePlace == Spec => []InOnePlace
  BY SpecIInv, InvInOnePlace, PTL

\* No selector has more than max_per_selector sockets, there are no more than
\* nb_selector_max of them, and while nothing is removed a selector is added and
\* a socket refused only if all there are are full.
THEOREM LimitsKept == Spec => []LimitsUsed
  BY SpecIInv, InvLimitsUsed, PTL
=============================================================================
