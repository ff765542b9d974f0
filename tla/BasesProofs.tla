----------------------------- MODULE BasesProofs -----------------------------
(***************************************************************************)
(* Proofs about the two base classes of SocketSerialized.                  *)
(*                                                                         *)
(* Of Serializer, for any base of the bytes, sizes, values and capacities: *)
(* the bytes between the cursors are at all times the encodings of the     *)
(* values owed, one behind the other, so that each extraction finds its    *)
(* value and nothing else.                                                 *)
(*                                                                         *)
(* Of Socket, for any number of objects and descriptors.  SocketIInv adds  *)
(* to its invariants what disconnect() relies on between its halves: that  *)
(* the type it read before it closed is the one the object is for.         *)
(***************************************************************************)
EXTENDS Serializer, Socket, SequenceTheorems, FiniteSetTheorems, WellFoundedInduction, TLAPS

-----------------------------------------------------------------------------
(* Induction, and functions defined by recursion.                          *)

LEMMA SetInduction ==
    ASSUME NEW S \in SUBSET Nat, 0 \in S, \A n \in S : n + 1 \in S
    PROVE  S = Nat
  <1> DEFINE R == OpToRel(<, Nat)
             T == Nat \ S
  <1>1. SUFFICES ASSUME T # {} PROVE FALSE
    OBVIOUS
  <1>2. IsWellFoundedOn(R, Nat)
    BY NatLessThanWellFounded
  <1>3. \A a, b \in Nat : a < b => <<a, b>> \in R
    BY DEF OpToRel
  <1> HIDE DEF R
  <1>4. PICK x \in T : \A y \in T : <<y, x>> \notin R
    <2>1. T \subseteq Nat
      OBVIOUS
    <2> HIDE DEF T
    <2> QED
      BY <1>1, <1>2, <2>1, WFMin
  <1>5. x \in Nat /\ x # 0
    BY <1>4
  <1>6. x - 1 \in Nat /\ x - 1 < x /\ (x - 1) + 1 = x
    BY <1>5
  <1>7. x - 1 \in S
    BY <1>3, <1>4, <1>5, <1>6
  <1> QED
    BY <1>4, <1>6, <1>7

\* h begins with b and goes on by F, up to n.
Follows(h, n, S, b, F) ==
    /\ h \in [0..n -> S]
    /\ h[0] = b
    /\ \A i \in 0..(n - 1) : h[i + 1] = F[<<i, h[i]>>]

LEMMA Beginnings ==
    ASSUME NEW S, NEW b \in S, NEW F \in [Nat \X S -> S], NEW n \in Nat
    PROVE  \E h : Follows(h, n, S, b, F)
  <1> DEFINE T == {i \in Nat : \E h : Follows(h, i, S, b, F)}
  <1>1. 0 \in T
    <2>1. Follows([i \in 0..0 |-> b], 0, S, b, F)
      BY DEF Follows
    <2> QED
      BY <2>1
  <1>2. ASSUME NEW i \in T PROVE i + 1 \in T
    <2>1. PICK h : Follows(h, i, S, b, F)
      OBVIOUS
    <2> DEFINE g == [j \in 0..(i + 1) |-> IF j <= i THEN h[j] ELSE F[<<i, h[i]>>]]
    <2>2. i \in Nat /\ h \in [0..i -> S] /\ h[0] = b /\ \A j \in 0..(i - 1) : h[j + 1] = F[<<j, h[j]>>]
      BY <2>1 DEF Follows
    <2>3. i \in 0..i /\ F[<<i, h[i]>>] \in S
      BY <2>2
    <2>4. g \in [0..(i + 1) -> S]
      BY <2>2, <2>3
    <2>5. g[0] = b
      BY <2>2
    <2>6. ASSUME NEW j \in 0..((i + 1) - 1) PROVE g[j + 1] = F[<<j, g[j]>>]
      <3>1. j \in 0..i /\ j \in 0..(i + 1) /\ j + 1 \in 0..(i + 1)
        BY <2>2
      <3>2. g[j] = h[j]
        BY <3>1
      <3>3. CASE j = i
        BY <2>2, <3>1, <3>2, <3>3
      <3>4. CASE j # i
        <4>1. j \in 0..(i - 1) /\ j + 1 <= i
          BY <2>2, <3>1, <3>4
        <4> QED
          BY <2>2, <3>1, <3>2, <4>1
      <3> QED
        BY <3>3, <3>4
    <2> HIDE DEF g
    <2>7. Follows(g, i + 1, S, b, F)
      BY <2>4, <2>5, <2>6 DEF Follows
    <2> QED
      BY <2>2, <2>7
  <1>3. T = Nat
    <2>1. T \subseteq Nat
      OBVIOUS
    <2> HIDE DEF T
    <2> QED
      BY <1>1, <1>2, <2>1, SetInduction
  <1> QED
    BY <1>3

\* g begins with b and goes on by F for ever.
Goes(g, S, b, F) ==
    /\ g \in [Nat -> S]
    /\ g[0] = b
    /\ \A n \in Nat : g[n + 1] = F[<<n, g[n]>>]

LEMMA Recursion ==
    ASSUME NEW S, NEW b \in S, NEW F \in [Nat \X S -> S]
    PROVE  \E g : Goes(g, S, b, F)
  <1> DEFINE h == [n \in Nat |-> CHOOSE x : Follows(x, n, S, b, F)]
             g == [n \in Nat |-> h[n][n]]
  <1>1. \A n \in Nat : Follows(h[n], n, S, b, F)
    BY Beginnings
  <1> HIDE DEF h
  <1>2. g \in [Nat -> S]
    <2>1. \A n \in Nat : h[n][n] \in S
      BY <1>1 DEF Follows
    <2> QED
      BY <2>1
  <1>3. g[0] = b
    BY <1>1 DEF Follows
  <1>4. ASSUME NEW n \in Nat PROVE g[n + 1] = F[<<n, g[n]>>]
    <2>1. n + 1 \in Nat /\ n <= n + 1 /\ n <= n /\ n \in 0..((n + 1) - 1)
      OBVIOUS
    <2>2. Follows(h[n], n, S, b, F) /\ Follows(h[n + 1], n + 1, S, b, F)
      BY <1>1, <2>1
    <2> DEFINE x == h[n]
               y == h[n + 1]
               T == {j \in Nat : j <= n => y[j] = x[j]}
    <2>3. y[n] = x[n]
      <3>1. 0 \in T
        BY <2>2 DEF Follows
      <3>2. ASSUME NEW j \in T PROVE j + 1 \in T
        <4> SUFFICES ASSUME j + 1 <= n PROVE y[j + 1] = x[j + 1]
          OBVIOUS
        <4>1. j \in 0..(n - 1) /\ j \in 0..((n + 1) - 1) /\ y[j] = x[j]
          OBVIOUS
        <4>2. x[j + 1] = F[<<j, x[j]>>] /\ y[j + 1] = F[<<j, y[j]>>]
          BY <2>2, <4>1 DEF Follows
        <4> QED
          BY <4>1, <4>2
      <3>3. T = Nat
        <4>1. T \subseteq Nat
          OBVIOUS
        <4> HIDE DEF T
        <4> QED
          BY <3>1, <3>2, <4>1, SetInduction
      <3> QED
        BY <3>3
    <2>4. h[n + 1][n + 1] = F[<<n, h[n + 1][n]>>]
      BY <2>1, <2>2 DEF Follows
    <2> QED
      BY <2>1, <2>3, <2>4
  <1> HIDE DEF g
  <1> QED
    BY <1>2, <1>3, <1>4 DEF Goes

-----------------------------------------------------------------------------
(* The count in front of a container.                                     *)

Powers(P) ==
    /\ P[0] = 1
    /\ \A i \in Nat : P[i] \in Nat \ {0} /\ P[i + 1] = Base * P[i]

LEMMA PowerFacts == Powers(Power)
  <1> DEFINE F == [x \in Nat \X Nat |-> Base * x[2]]
             E(f) == f = [i \in Nat |-> IF i = 0 THEN 1 ELSE Base * f[i - 1]]
  <1>0. Base \in Nat \ {0, 1}
    BY ByteAssumption
  <1>1. F \in [Nat \X Nat -> Nat]
    BY <1>0
  <1>2. PICK g : Goes(g, Nat, 1, F)
    <2>1. 1 \in Nat
      OBVIOUS
    <2> HIDE DEF F
    <2> QED
      BY <1>1, <2>1, Recursion
  <1>3. g \in [Nat -> Nat] /\ g[0] = 1 /\ \A n \in Nat : g[n + 1] = Base * g[n]
    BY <1>2 DEF Goes
  <1>4. \A i \in Nat : g[i] = IF i = 0 THEN 1 ELSE Base * g[i - 1]
    <2> TAKE i \in Nat
    <2>1. CASE i = 0
      BY <1>3, <2>1
    <2>2. CASE i # 0
      <3>1. i - 1 \in Nat /\ (i - 1) + 1 = i
        BY <2>2
      <3> QED
        BY <1>3, <2>2, <3>1
    <2> QED
      BY <2>1, <2>2
  <1>5. E(g)
    BY <1>3, <1>4
  <1>6. E(Power)
    <2>1. Power = CHOOSE f : E(f)
      BY DEF Power
    <2> HIDE DEF E
    <2> QED
      BY <1>5, <2>1
  <1>7. Power[0] = 1 /\ \A i \in Nat : Power[i + 1] = Base * Power[i]
    <2>1. \A i \in Nat : Power[i] = IF i = 0 THEN 1 ELSE Base * Power[i - 1]
      BY <1>6
    <2>2. \A i \in Nat : i + 1 \in Nat /\ i + 1 # 0 /\ (i + 1) - 1 = i
      OBVIOUS
    <2>3. Power[0] = 1
      BY <2>1
    <2>4. ASSUME NEW i \in Nat PROVE Power[i + 1] = Base * Power[i]
      BY <2>1, <2>2
    <2> QED
      BY <2>3, <2>4
  <1> DEFINE T == {i \in Nat : Power[i] \in Nat \ {0}}
  <1>8. 0 \in T
    BY <1>7
  <1>9. ASSUME NEW i \in T PROVE i + 1 \in T
    BY <1>0, <1>7
  <1>10. T = Nat
    <2>1. T \subseteq Nat
      OBVIOUS
    <2> HIDE DEF T
    <2> QED
      BY <1>8, <1>9, <2>1, SetInduction
  <1>11. \A i \in Nat : Power[i] \in Nat \ {0}
    BY <1>10
  <1> QED
    BY <1>7, <1>11 DEF Powers

LEMMA CountIsBytes ==
    ASSUME NEW n \in Nat
    PROVE  Count(n) \in Seq(Byte) /\ Len(Count(n)) = CountBytes
  <1>1. CountBytes \in Nat /\ Base \in Nat \ {0, 1} /\ Byte = 0..(Base - 1)
    BY ByteAssumption, SizesAssumption, WidthAssumption DEF Byte
  <1>2. \A i \in 1..CountBytes : Power[CountBytes - i] \in Nat \ {0}
    BY <1>1, PowerFacts DEF Powers
  <1>3. \A p \in Nat \ {0} : n \div p \in Nat
    OBVIOUS
  <1>4. \A m \in Nat : (m % Base) \in Byte
    BY <1>1
  <1>5. \A i \in 1..CountBytes : ((n \div Power[CountBytes - i]) % Base) \in Byte
    BY <1>2, <1>3, <1>4
  <1> QED
    BY <1>1, <1>5 DEF Count

\* m without its last i digits.
Leading(m, i) == m \div Power[CountBytes - i]

LEMMA LeadingNext ==
    ASSUME NEW m \in Nat, NEW i \in 0..(CountBytes - 1)
    PROVE  Leading(m, i + 1) = Base * Leading(m, i) + Count(m)[i + 1]
  <1> DEFINE p == Power[CountBytes - (i + 1)]
             q == m \div p
  <1>1. CountBytes \in Nat /\ Base \in Nat \ {0, 1}
    BY ByteAssumption, SizesAssumption, WidthAssumption
  <1>2. CountBytes - (i + 1) \in Nat /\ (CountBytes - (i + 1)) + 1 = CountBytes - i
    BY <1>1
  <1>3. p \in Nat \ {0} /\ Power[CountBytes - i] = Base * p
    BY <1>2, PowerFacts DEF Powers
  <1>4. Leading(m, i) = m \div (Base * p) /\ Leading(m, i + 1) = q
    BY <1>3 DEF Leading
  <1>5. Count(m)[i + 1] = (q % Base)
    BY <1>1 DEF Count
  <1> HIDE DEF p
  <1>6. m \div (Base * p) = q \div Base
    BY <1>1, <1>3, SMTT(30)
  <1>7. q \in Nat
    BY <1>3
  <1> HIDE DEF q
  <1>8. q = Base * (q \div Base) + (q % Base)
    BY <1>1, <1>7
  <1> QED
    BY <1>4, <1>5, <1>6, <1>8

\* Different numbers have different counts, as far as the digits go.
LEMMA CountTells ==
    ASSUME NEW m \in 0..(Power[CountBytes] - 1), NEW n \in 0..(Power[CountBytes] - 1),
           Count(m) = Count(n)
    PROVE  m = n
  <1>1. CountBytes \in Nat
    BY SizesAssumption, WidthAssumption
  <1>2. Power[0] = 1 /\ Power[CountBytes] \in Nat \ {0} /\ m \in Nat /\ n \in Nat
    BY <1>1, PowerFacts DEF Powers
  <1> DEFINE T == {i \in Nat : i <= CountBytes => Leading(m, i) = Leading(n, i)}
  <1>3. 0 \in T
    <2>1. \A k \in Nat, q \in Nat \ {0} : k < q => k \div q = 0
      OBVIOUS
    <2>2. CountBytes - 0 = CountBytes /\ m < Power[CountBytes] /\ n < Power[CountBytes]
      BY <1>1, <1>2
    <2> QED
      BY <1>2, <2>1, <2>2 DEF Leading
  <1>4. ASSUME NEW i \in T PROVE i + 1 \in T
    <2> SUFFICES ASSUME i + 1 <= CountBytes PROVE Leading(m, i + 1) = Leading(n, i + 1)
      OBVIOUS
    <2>1. i \in 0..(CountBytes - 1) /\ Leading(m, i) = Leading(n, i)
      BY <1>1
    <2> QED
      BY <1>2, <2>1, LeadingNext
  <1>5. T = Nat
    <2>1. T \subseteq Nat
      OBVIOUS
    <2> HIDE DEF T
    <2> QED
      BY <1>3, <1>4, <2>1, SetInduction
  <1>6. Leading(m, CountBytes) = Leading(n, CountBytes)
    BY <1>1, <1>5
  <1>7. CountBytes - CountBytes = 0 /\ m \div 1 = m /\ n \div 1 = n
    BY <1>1, <1>2
  <1> QED
    BY <1>2, <1>6, <1>7 DEF Leading

\* What is written as a count is read back.
LEMMA CountRead ==
    ASSUME NEW n \in 0..(Power[CountBytes] - 1)
    PROVE  CountOf(Count(n)) = n
  BY CountTells DEF CountOf

-----------------------------------------------------------------------------
(* The representation of values.                                           *)

\* p is the first zero of s.
FirstZero(s, p) == p \in 1..Len(s) /\ s[p] = 0 /\ \A i \in 1..(p - 1) : s[i] # 0

LEMMA FirstZeroIs ==
    ASSUME NEW s \in Seq(Byte), NEW z \in 1..Len(s), s[z] = 0
    PROVE  \E p : FirstZero(s, p)
  <1> DEFINE None == {i \in Nat : i <= Len(s) => \A j \in 1..i : s[j] # 0}
  <1> SUFFICES ASSUME \A p : ~FirstZero(s, p) PROVE FALSE
    OBVIOUS
  <1>1. 0 \in None
    OBVIOUS
  <1>2. ASSUME NEW i \in None PROVE i + 1 \in None
    <2> SUFFICES ASSUME i + 1 <= Len(s) PROVE \A j \in 1..(i + 1) : s[j] # 0
      OBVIOUS
    <2>1. \A j \in 1..i : s[j] # 0
      OBVIOUS
    <2>2. ~FirstZero(s, i + 1) /\ i + 1 \in 1..Len(s) /\ (i + 1) - 1 = i
      OBVIOUS
    <2>3. s[i + 1] # 0
      BY <2>1, <2>2 DEF FirstZero
    <2> QED
      BY <2>1, <2>3
  <1>3. None = Nat
    <2>1. None \subseteq Nat
      OBVIOUS
    <2> HIDE DEF None
    <2> QED
      BY <1>1, <1>2, <2>1, SetInduction
  <1>4. z \in None /\ z \in 1..z /\ z <= Len(s)
    BY <1>3
  <1> QED
    BY <1>4

\* A string without zeros, and the zero behind it.
Ended(s, w) ==
    /\ w \in Seq(Byte)
    /\ \A i \in 1..Len(w) : w[i] # 0
    /\ CString(s) = Append(w, 0)
    /\ SubSeq(CString(s), 1, Len(CString(s)) - 1) = w

LEMMA CStringEnds ==
    ASSUME NEW s \in Seq(Byte)
    PROVE  \E w : Ended(s, w)
  <1>0. 0 \in Byte
    BY ByteAssumption DEF Byte
  <1> DEFINE zeros == {i \in 1..Len(s) : s[i] = 0}
  <1>1. CASE zeros = {}
    <2>1. CString(s) = Append(s, 0)
      BY <1>1 DEF CString
    <2>2. SubSeq(Append(s, 0), 1, Len(Append(s, 0)) - 1) = s
      BY <1>0
    <2>3. \A i \in 1..Len(s) : s[i] # 0
      BY <1>1
    <2>4. Ended(s, s)
      BY <2>1, <2>2, <2>3 DEF Ended
    <2> QED
      BY <2>4
  <1>2. CASE zeros # {}
    <2>1. PICK p : FirstZero(s, p)
      BY <1>2, FirstZeroIs
    <2>2. p \in 1..Len(s) /\ s[p] = 0 /\ \A i \in 1..(p - 1) : s[i] # 0
      BY <2>1 DEF FirstZero
    <2>3. p \in zeros /\ \A j \in zeros : p <= j
      BY <2>2
    <2>4. \A i \in zeros : (\A j \in zeros : i <= j) => i = p
      BY <2>3
    <2>5. (CHOOSE i \in zeros : \A j \in zeros : i <= j) = p
      <3> HIDE DEF zeros
      <3> QED
        BY <2>3, <2>4
    <2>6. CString(s) = SubSeq(s, 1, p)
      BY <1>2, <2>5 DEF CString
    <2> DEFINE w == SubSeq(s, 1, p - 1)
    <2>7. w \in Seq(Byte) /\ Len(w) = p - 1 /\ \A i \in 1..(p - 1) : w[i] = s[i]
      BY <2>2
    <2>8. Append(w, 0) = SubSeq(s, 1, p)
      <3>1. /\ SubSeq(s, 1, p) \in Seq(Byte) /\ Len(SubSeq(s, 1, p)) = p
            /\ \A i \in 1..p : SubSeq(s, 1, p)[i] = s[i]
        BY <2>2
      <3>2. Append(w, 0) \in Seq(Byte) /\ Len(Append(w, 0)) = p
        BY <1>0, <2>2, <2>7
      <3>3. \A i \in 1..p : Append(w, 0)[i] = s[i]
        BY <2>2, <2>7
      <3> HIDE DEF w
      <3> QED
        BY <3>1, <3>2, <3>3, SeqEqual
    <2> HIDE DEF w
    <2>9. SubSeq(Append(w, 0), 1, Len(Append(w, 0)) - 1) = w
      BY <1>0, <2>7
    <2>10. Ended(s, w)
      BY <2>2, <2>6, <2>7, <2>8, <2>9 DEF Ended
    <2> QED
      BY <2>10
  <1> QED
    BY <1>1, <1>2

LEMMA SwapTwice ==
    ASSUME NEW v \in [1..IntBytes -> Byte]
    PROVE  /\ v \in Seq(Byte) /\ Len(v) = IntBytes
           /\ SwapBytes(v) \in [1..IntBytes -> Byte]
           /\ SwapBytes(SwapBytes(v)) = v
  <1>0. IntBytes \in Nat
    BY SizesAssumption, WidthAssumption
  <1>1. v \in Seq(Byte) /\ Len(v) = IntBytes
    BY <1>0
  <1>2. \A i \in 1..IntBytes : IntBytes + 1 - i \in 1..IntBytes
                               /\ IntBytes + 1 - (IntBytes + 1 - i) = i
    BY <1>0
  <1>3. SwapBytes(v) = [i \in 1..IntBytes |-> v[IntBytes + 1 - i]]
    BY <1>1 DEF SwapBytes
  <1>4. SwapBytes(v) \in [1..IntBytes -> Byte]
    BY <1>2, <1>3
  <1>5. Len(SwapBytes(v)) = IntBytes
    BY <1>0, <1>4
  <1>6. SwapBytes(SwapBytes(v)) = [i \in 1..IntBytes |-> SwapBytes(v)[IntBytes + 1 - i]]
    BY <1>5 DEF SwapBytes
  <1>7. \A i \in 1..IntBytes : SwapBytes(v)[IntBytes + 1 - i] = v[i]
    BY <1>2, <1>3
  <1>8. SwapBytes(SwapBytes(v)) = [i \in 1..IntBytes |-> v[i]]
    BY <1>6, <1>7
  <1> QED
    BY <1>1, <1>4, <1>8

LEMMA Divided ==
    ASSUME NEW d \in Nat \ {0}, NEW q \in Nat, NEW r \in 0..(d - 1)
    PROVE  ((q * d + r) \div d) = q /\ ((q * d + r) % d) = r
  <1> DEFINE x == q * d + r
             y == x \div d
             z == x % d
  <1>1. x \in Nat /\ q * d \in Nat
    OBVIOUS
  <1>2. y \in Nat /\ z \in 0..(d - 1) /\ x = y * d + z
    <2> HIDE DEF x
    <2> QED
      BY <1>1
  <1>3. \A a, b \in Nat : a < b => (a + 1) * d <= b * d
    OBVIOUS
  <1>4. \A a \in Nat : (a + 1) * d = a * d + d /\ a * d \in Nat
    OBVIOUS
  <1>5. x = q * d + r
    OBVIOUS
  <1> HIDE DEF x, y, z
  <1>6. ~(y < q)
    <2> SUFFICES ASSUME y < q PROVE FALSE
      OBVIOUS
    <2>1. y * d + d <= q * d /\ y * d \in Nat /\ q * d \in Nat
      BY <1>2, <1>3, <1>4
    <2> QED
      BY <1>2, <1>5, <2>1
  <1>7. ~(q < y)
    <2> SUFFICES ASSUME q < y PROVE FALSE
      OBVIOUS
    <2>1. q * d + d <= y * d /\ y * d \in Nat /\ q * d \in Nat
      BY <1>2, <1>3, <1>4
    <2> QED
      BY <1>2, <1>5, <2>1
  <1>8. y = q
    BY <1>2, <1>6, <1>7
  <1>9. z = r
    BY <1>2, <1>4, <1>5, <1>8
  <1> QED
    BY <1>8, <1>9 DEF x, y, z

\* The elements of a list are where the loop over them looks.
InPlace(bs, list) ==
    /\ bs \in Seq(Byte)
    /\ Len(bs) = Len(list) * IntBytes
    /\ \A i \in 1..Len(list), b \in 1..IntBytes :
           /\ (i - 1) * IntBytes + b \in 1..Len(bs)
           /\ bs[(i - 1) * IntBytes + b] = SwapBytes(list[i])[b]

LEMMA ElementsInPlace ==
    ASSUME NEW list \in Seq([1..IntBytes -> Byte])
    PROVE  InPlace(Elements(list), list)
  <1> DEFINE d == IntBytes
             n == Len(list)
  <1>0. d \in Nat \ {0} /\ n \in Nat
    BY SizesAssumption, WidthAssumption
  <1> HIDE DEF d, n
  <1>1. n * d \in Nat
    BY <1>0
  <1>2. ASSUME NEW p \in 1..(n * d)
        PROVE  1 + ((p - 1) \div d) \in 1..n /\ 1 + ((p - 1) % d) \in 1..d
    <2> DEFINE q == (p - 1) \div d
               r == (p - 1) % d
    <2>1. p - 1 \in Nat /\ p - 1 < n * d
      BY <1>1
    <2>2. q \in Nat /\ r \in 0..(d - 1) /\ p - 1 = q * d + r
      BY <1>0, <2>1
    <2> HIDE DEF q, r
    <2>3. q * d < n * d
      <3>1. q * d \in Nat /\ r \in Nat
        BY <1>0, <2>2
      <3>2. \A a, c, e \in Nat : a + c < e => a < e
        OBVIOUS
      <3>3. q * d + r < n * d
        BY <2>1, <2>2
      <3> HIDE DEF d
      <3> QED
        BY <1>1, <3>1, <3>2, <3>3
    <2>4. q < n
      <3>1. n <= q => n * d <= q * d
        BY <1>0, <2>2
      <3>2. q * d \in Nat
        BY <1>0, <2>2
      <3> QED
        BY <1>0, <1>1, <2>2, <2>3, <3>1, <3>2
    <2>5. 1 + q \in 1..n /\ 1 + r \in 1..d
      BY <1>0, <2>2, <2>4
    <2> QED
      BY <2>5 DEF q, r
  <1>3. \A i \in 1..n : SwapBytes(list[i]) \in [1..d -> Byte]
    BY SwapTwice DEF d, n
  <1>4. Elements(list) = [p \in 1..(n * d) |->
                             SwapBytes(list[1 + ((p - 1) \div d)])[1 + ((p - 1) % d)]]
    BY DEF Elements, d, n
  <1>5. Elements(list) \in [1..(n * d) -> Byte]
    <2>1. \A i \in 1..n, b \in 1..d : SwapBytes(list[i])[b] \in Byte
      BY <1>3
    <2>2. \A p \in 1..(n * d) : SwapBytes(list[1 + ((p - 1) \div d)])[1 + ((p - 1) % d)] \in Byte
      BY <1>2, <2>1
    <2> QED
      BY <1>4, <2>2
  <1>6. Elements(list) \in Seq(Byte) /\ Len(Elements(list)) = n * d
    BY <1>1, <1>5
  <1>7. ASSUME NEW i \in 1..n, NEW b \in 1..d
        PROVE  (i - 1) * d + b \in 1..(n * d)
               /\ Elements(list)[(i - 1) * d + b] = SwapBytes(list[i])[b]
    <2> DEFINE p == (i - 1) * d + b
    <2>1. i - 1 \in Nat /\ b - 1 \in 0..(d - 1) /\ (i - 1) * d \in Nat
      BY <1>0
    <2>2. i * d = (i - 1) * d + d /\ i * d <= n * d /\ i * d \in Nat
      BY <1>0
    <2>3. p \in 1..(n * d) /\ p - 1 = (i - 1) * d + (b - 1)
      BY <1>0, <1>1, <2>1, <2>2
    <2>4. ((p - 1) \div d) = i - 1 /\ ((p - 1) % d) = b - 1
      BY <1>0, <2>1, <2>3, Divided
    <2>5. 1 + (i - 1) = i /\ 1 + (b - 1) = b
      BY <1>0
    <2> HIDE DEF p
    <2>6. Elements(list)[p] = SwapBytes(list[i])[b]
      BY <1>4, <2>3, <2>4, <2>5
    <2> QED
      BY <2>3, <2>6 DEF p
  <1> QED
    BY <1>6, <1>7 DEF InPlace, d, n

\* The values as the buffer gives them back, with their bytes.
IsInt(v) ==
    v.kind = "int" /\ v.val \in [1..IntBytes -> Byte] /\ Encode(v) = SwapBytes(v.val)
IsString(v) ==
    /\ v.kind = "string"
    /\ v.val \in Seq(Byte) /\ \A i \in 1..Len(v.val) : v.val[i] # 0
    /\ Encode(v) = Append(v.val, 0)
IsList(v) ==
    /\ v.kind = "list"
    /\ v.val \in Seq([1..IntBytes -> Byte]) /\ Len(v.val) < Power[CountBytes]
    /\ Encode(v) = Count(Len(v.val)) \o Elements(v.val)
IsBlock(v) == v.kind = "block" /\ v.val \in Seq(Byte) /\ Encode(v) = v.val

Encoded(v) ==
    /\ v = [kind |-> v.kind, val |-> v.val]
    /\ IsInt(v) \/ IsString(v) \/ IsList(v) \/ IsBlock(v)
    /\ Encode(v) \in Seq(Byte)

LEMMA ItemStored ==
    ASSUME NEW item \in Item
    PROVE  Encode(Stored(item)) = Encode(item) /\ Encoded(Stored(item))
  <1>1. CASE item \in [kind : {"int"}, val : Ints]
    <2>1. item.kind = "int" /\ item.val \in [1..IntBytes -> Byte] /\ item = [kind |-> item.kind, val |-> item.val]
      BY <1>1, ValuesAssumption
    <2>2. Stored(item) = item /\ Encode(item) = SwapBytes(item.val)
      BY <2>1 DEF Stored, Encode
    <2>3. IntBytes \in Nat /\ SwapBytes(item.val) \in [1..IntBytes -> Byte]
      BY <2>1, SwapTwice, SizesAssumption, WidthAssumption
    <2>4. Encode(item) \in Seq(Byte)
      BY <2>2, <2>3
    <2> QED
      BY <2>1, <2>2, <2>4 DEF Encoded, IsInt
  <1>2. CASE item \in [kind : {"string"}, val : Strings]
    <2>1. item.kind = "string" /\ item.val \in Seq(Byte)
      BY <1>2, ValuesAssumption
    <2>2. PICK w : Ended(item.val, w)
      BY <2>1, CStringEnds
    <2>3. /\ w \in Seq(Byte) /\ \A i \in 1..Len(w) : w[i] # 0
          /\ CString(item.val) = Append(w, 0)
          /\ SubSeq(CString(item.val), 1, Len(CString(item.val)) - 1) = w
      BY <2>2 DEF Ended
    <2> DEFINE v == [kind |-> "string", val |-> w]
    <2>4. Stored(item) = v
      BY <1>2, <2>1, <2>3 DEF Stored
    <2>5. CString(w) = Append(w, 0)
      BY <2>3 DEF CString
    <2>6. Encode(v) = Append(w, 0) /\ Encode(item) = Append(w, 0)
      BY <2>1, <2>3, <2>5 DEF Encode
    <2>7. Append(w, 0) \in Seq(Byte)
      BY <2>3, ByteAssumption DEF Byte
    <2>8. v.kind = "string" /\ v.val = w /\ v = [kind |-> v.kind, val |-> v.val]
      OBVIOUS
    <2> HIDE DEF v
    <2>9. Encoded(v)
      BY <2>3, <2>6, <2>7, <2>8 DEF Encoded, IsString
    <2> QED
      BY <2>4, <2>6, <2>9
  <1>3. CASE item \in [kind : {"list"}, val : Lists]
    <2>1. /\ item.kind = "list" /\ item.val \in Seq(Ints) /\ Len(item.val) < Power[CountBytes]
          /\ item = [kind |-> item.kind, val |-> item.val]
      BY <1>3, ValuesAssumption
    <2>2. item.val \in Seq([1..IntBytes -> Byte])
      BY <2>1, ValuesAssumption
    <2>3. Stored(item) = item /\ Encode(item) = Count(Len(item.val)) \o Elements(item.val)
      BY <2>1 DEF Stored, Encode
    <2>4. Count(Len(item.val)) \in Seq(Byte) /\ Elements(item.val) \in Seq(Byte)
      BY <2>2, CountIsBytes, ElementsInPlace DEF InPlace
    <2>5. Encode(item) \in Seq(Byte)
      BY <2>3, <2>4
    <2> QED
      BY <2>1, <2>2, <2>3, <2>5 DEF Encoded, IsList
  <1>4. CASE item \in [kind : {"block"}, val : Blocks]
    <2>1. item.kind = "block" /\ item.val \in Seq(Byte) /\ item = [kind |-> item.kind, val |-> item.val]
      BY <1>4, ValuesAssumption
    <2>2. Stored(item) = item /\ Encode(item) = item.val
      BY <2>1 DEF Stored, Encode
    <2> QED
      BY <2>1, <2>2 DEF Encoded, IsBlock
  <1> QED
    BY <1>1, <1>2, <1>3, <1>4 DEF Item

LEMMA ValuesEncoded == \A v \in Value : Encoded(v)
  <1> TAKE v \in Value
  <1>1. PICK item \in Item : v = Stored(item)
    BY DEF Value
  <1> QED
    BY <1>1, ItemStored

-----------------------------------------------------------------------------
(* Values laid out one behind the other.                                   *)

\* The bytes e are those of bs behind `from`, up to `to`.
Part(bs, from, to, e) == to = from + Len(e) /\ \A k \in 1..Len(e) : bs[from + k] = e[k]

\* The i-th value ends at cut[i].
CutAt(cut, bs, values) ==
    /\ cut \in [0..Len(values) -> 0..Len(bs)]
    /\ cut[0] = 0 /\ cut[Len(values)] = Len(bs)
    /\ \A i, j \in 0..Len(values) : i <= j => cut[i] <= cut[j]
    /\ \A i \in 1..Len(values) : Part(bs, cut[i - 1], cut[i], Encode(values[i]))

\* bs is the encoding of the values.
Laid(bs, values) == bs \in Seq(Byte) /\ values \in Seq(Value) /\ \E cut : CutAt(cut, bs, values)

LEMMA LaidNone == Laid(<<>>, <<>>)
  <1> DEFINE cut == [i \in 0..0 |-> 0]
  <1>1. CutAt(cut, <<>>, <<>>)
    BY DEF CutAt
  <1> QED
    BY <1>1 DEF Laid

LEMMA LaidOnlyNone == ASSUME NEW bs, Laid(bs, <<>>) PROVE bs = <<>>
  <1>1. PICK cut : CutAt(cut, bs, <<>>)
    BY DEF Laid
  <1>2. bs \in Seq(Byte) /\ Len(bs) = 0
    BY <1>1 DEF Laid, CutAt
  <1> QED
    BY <1>2

LEMMA LaidOne == ASSUME NEW v \in Value PROVE Laid(Encode(v), <<v>>)
  <1> DEFINE e == Encode(v)
             cut == [i \in 0..1 |-> IF i = 0 THEN 0 ELSE Len(e)]
  <1>1. e \in Seq(Byte)
    BY ValuesEncoded DEF Encoded
  <1>2. Len(<<v>>) = 1 /\ <<v>>[1] = v /\ <<v>> \in Seq(Value)
    OBVIOUS
  <1>3. Part(e, cut[0], cut[1], Encode(v))
    BY <1>1 DEF Part
  <1>4. CutAt(cut, e, <<v>>)
    <2>1. cut \in [0..1 -> 0..Len(e)] /\ cut[0] = 0 /\ cut[1] = Len(e)
      BY <1>1
    <2>2. \A i, j \in 0..1 : i <= j => cut[i] <= cut[j]
      BY <1>1, <2>1
    <2>3. \A i \in 1..1 : i = 1 /\ i - 1 = 0
      OBVIOUS
    <2> HIDE DEF cut, e
    <2> QED
      BY <1>2, <1>3, <2>1, <2>2, <2>3 DEF CutAt
  <1> HIDE DEF e, cut
  <1>5. Laid(e, <<v>>)
    BY <1>1, <1>2, <1>4 DEF Laid
  <1> QED
    BY <1>5 DEF e

\* The bytes e of bs between two cuts lie within it.
Within(bs, from, to, e) ==
    /\ from \in Nat /\ to \in 0..Len(bs)
    /\ Len(e) \in Nat /\ to = from + Len(e)
    /\ \A k \in 1..Len(e) : from + k \in 1..Len(bs) /\ bs[from + k] = e[k]

LEMMA PartWithin ==
    ASSUME NEW bs \in Seq(Byte), NEW values \in Seq(Value), NEW cut, CutAt(cut, bs, values),
           NEW i \in 1..Len(values)
    PROVE  Within(bs, cut[i - 1], cut[i], Encode(values[i]))
  <1> DEFINE n == Len(values)
             e == Encode(values[i])
  <1>1. n \in Nat /\ i - 1 \in 0..n /\ i \in 0..n /\ Len(bs) \in Nat /\ values[i] \in Value
    OBVIOUS
  <1>2. e \in Seq(Byte)
    BY <1>1, ValuesEncoded DEF Encoded
  <1>3. Len(e) \in Nat
    BY <1>2
  <1> HIDE DEF e
  <1>4. cut[i - 1] \in 0..Len(bs) /\ cut[i] \in 0..Len(bs)
    BY <1>1 DEF CutAt
  <1>5. cut[i] = cut[i - 1] + Len(e) /\ \A k \in 1..Len(e) : bs[cut[i - 1] + k] = e[k]
    BY DEF CutAt, Part, e
  <1>6. \A k \in 1..Len(e) : cut[i - 1] + k \in 1..Len(bs)
    BY <1>1, <1>3, <1>4, <1>5
  <1> QED
    BY <1>1, <1>3, <1>4, <1>5, <1>6 DEF Within, e

LEMMA LaidBoth ==
    ASSUME NEW a, NEW xs, NEW b, NEW ys, Laid(a, xs), Laid(b, ys)
    PROVE  Laid(a \o b, xs \o ys)
  <1> DEFINE n == Len(xs)
             m == Len(ys)
             la == Len(a)
             lb == Len(b)
             bs == a \o b
             zs == xs \o ys
  <1>1. PICK c : CutAt(c, a, xs)
    BY DEF Laid
  <1>2. PICK d : CutAt(d, b, ys)
    BY DEF Laid
  <1>3. a \in Seq(Byte) /\ b \in Seq(Byte) /\ xs \in Seq(Value) /\ ys \in Seq(Value)
    BY DEF Laid
  <1>4. n \in Nat /\ m \in Nat /\ la \in Nat /\ lb \in Nat
    BY <1>3
  <1>5. /\ bs \in Seq(Byte) /\ Len(bs) = la + lb
        /\ \A i \in 1..la : bs[i] = a[i]
        /\ \A i \in 1..lb : bs[la + i] = b[i]
    BY <1>3
  <1>6. /\ zs \in Seq(Value) /\ Len(zs) = n + m
        /\ \A i \in 1..n : zs[i] = xs[i]
        /\ \A i \in 1..m : zs[n + i] = ys[i]
    BY <1>3
  <1>7. /\ c \in [0..n -> 0..la] /\ c[0] = 0 /\ c[n] = la
        /\ \A i, j \in 0..n : i <= j => c[i] <= c[j]
    BY <1>1 DEF CutAt
  <1>8. /\ d \in [0..m -> 0..lb] /\ d[0] = 0 /\ d[m] = lb
        /\ \A i, j \in 0..m : i <= j => d[i] <= d[j]
    BY <1>2 DEF CutAt
  <1>9. ASSUME NEW i \in 1..n PROVE Part(bs, c[i - 1], c[i], Encode(xs[i]))
    <2> DEFINE e == Encode(xs[i])
               p == c[i - 1]
               q == c[i]
    <2>1. Within(a, p, q, e)
      BY <1>1, <1>3, PartWithin
    <2> HIDE DEF p, q, e, bs
    <2> QED
      BY <1>5, <2>1 DEF Within, Part, p, q, e
  <1>10. ASSUME NEW i \in 1..m PROVE Part(bs, la + d[i - 1], la + d[i], Encode(ys[i]))
    <2> DEFINE e == Encode(ys[i])
               p == d[i - 1]
               q == d[i]
    <2>0. Within(b, p, q, e)
      BY <1>2, <1>3, PartWithin
    <2> HIDE DEF p, q, e, bs
    <2>1. /\ p \in Nat /\ q \in 0..lb /\ Len(e) \in Nat /\ q = p + Len(e)
          /\ \A k \in 1..Len(e) : p + k \in 1..lb /\ b[p + k] = e[k]
      BY <2>0 DEF Within
    <2> HIDE DEF la, lb
    <2>2. ASSUME NEW k \in 1..Len(e) PROVE (la + p) + k = la + (p + k) /\ bs[(la + p) + k] = e[k]
      <3>1. (la + p) + k = la + (p + k)
        BY <1>4, <2>1
      <3>2. bs[la + (p + k)] = b[p + k] /\ b[p + k] = e[k]
        BY <1>5, <2>1
      <3> QED
        BY <3>1, <3>2
    <2>3. la + q = (la + p) + Len(e)
      BY <1>4, <2>1
    <2>4. Part(bs, la + p, la + q, e)
      BY <2>2, <2>3 DEF Part
    <2> QED
      BY <2>4 DEF p, q, e
  <1> DEFINE cut == [i \in 0..(n + m) |-> IF i <= n THEN c[i] ELSE la + d[i - n]]
  <1> HIDE DEF n, m, la, lb, bs, zs
  <1>11. \A i \in 0..n : cut[i] = c[i]
    BY <1>4
  <1>12. \A i \in 0..m : n + i \in 0..(n + m) /\ cut[n + i] = la + d[i]
    <2> TAKE i \in 0..m
    <2>1. n + i \in 0..(n + m) /\ (n + i) - n = i
      BY <1>4
    <2>2. CASE i = 0
      BY <1>4, <1>7, <1>8, <2>2
    <2>3. CASE i # 0
      BY <1>4, <2>1, <2>3
    <2> QED
      BY <2>2, <2>3
  <1>13. \A i \in 0..(n + m) : i \in 0..n \/ \E j \in 1..m : i = n + j
    <2> TAKE i \in 0..(n + m)
    <2>1. i <= n \/ (i - n \in 1..m /\ i = n + (i - n))
      BY <1>4
    <2> QED
      BY <1>4, <2>1
  <1> HIDE DEF cut
  <1>14. cut \in [0..(n + m) -> 0..(la + lb)]
    <2>1. \A i \in 0..n : cut[i] \in 0..(la + lb)
      BY <1>4, <1>7, <1>11
    <2>2. ASSUME NEW i \in 1..m PROVE cut[n + i] \in 0..(la + lb)
      <3>1. i \in 0..m /\ d[i] \in 0..lb
        BY <1>4, <1>8
      <3>2. cut[n + i] = la + d[i]
        BY <1>12, <3>1
      <3> QED
        BY <1>4, <3>1, <3>2
    <2>3. \A i \in 0..(n + m) : cut[i] \in 0..(la + lb)
      BY <1>13, <2>1, <2>2
    <2> QED
      BY <2>3 DEF cut
  <1>15. cut[0] = 0 /\ cut[n + m] = la + lb
    BY <1>4, <1>7, <1>8, <1>11, <1>12
  <1>16. ASSUME NEW i \in 0..(n + m), NEW j \in 0..(n + m), i <= j PROVE cut[i] <= cut[j]
    <2>1. CASE j \in 0..n
      <3>1. i \in 0..n
        BY <1>4, <1>16, <2>1
      <3> QED
        BY <1>7, <1>11, <1>16, <2>1, <3>1
    <2>2. ASSUME NEW y \in 1..m, j = n + y PROVE cut[i] <= cut[j]
      <3>1. cut[j] = la + d[y] /\ d[y] \in Nat
        BY <1>4, <1>8, <1>12, <2>2
      <3>2. CASE i \in 0..n
        BY <1>4, <1>7, <1>11, <3>1, <3>2
      <3>3. ASSUME NEW x \in 1..m, i = n + x PROVE cut[i] <= cut[j]
        <4>1. cut[i] = la + d[x] /\ d[x] \in Nat
          BY <1>4, <1>8, <1>12, <3>3
        <4>2. x <= y
          BY <1>4, <1>16, <2>2, <3>3
        <4>3. d[x] <= d[y]
          BY <1>4, <1>8, <4>2
        <4> QED
          BY <1>4, <3>1, <4>1, <4>3
      <3> QED
        BY <1>13, <3>2, <3>3
    <2> QED
      BY <1>13, <2>1, <2>2
  <1>17. ASSUME NEW i \in 1..(n + m) PROVE Part(bs, cut[i - 1], cut[i], Encode(zs[i]))
    <2>1. CASE i \in 1..n
      <3>1. i - 1 \in 0..n /\ i \in 0..n
        BY <1>4, <2>1
      <3> QED
        BY <1>6, <1>9, <1>11, <2>1, <3>1
    <2>2. ASSUME NEW j \in 1..m, i = n + j PROVE Part(bs, cut[i - 1], cut[i], Encode(zs[i]))
      <3>1. j - 1 \in 0..m /\ j \in 0..m /\ i - 1 = n + (j - 1)
        BY <1>4, <2>2
      <3>2. cut[i - 1] = la + d[j - 1] /\ cut[i] = la + d[j] /\ zs[i] = ys[j]
        BY <1>6, <1>12, <2>2, <3>1
      <3> QED
        BY <1>10, <3>2
    <2>3. i \in 0..(n + m) /\ (i \in 0..n => i \in 1..n)
      BY <1>4
    <2> QED
      BY <1>13, <2>1, <2>2, <2>3
  <1>18. CutAt(cut, bs, zs)
    BY <1>5, <1>6, <1>14, <1>15, <1>16, <1>17 DEF CutAt
  <1>19. Laid(bs, zs)
    BY <1>5, <1>6, <1>18 DEF Laid
  <1> QED
    BY <1>19 DEF bs, zs

\* What remains of bs behind its first n bytes.
Behind(bs, n) == [i \in 1..(Len(bs) - n) |-> bs[n + i]]

\* The first of the values begins bs, the others follow.
LEMMA LaidFirst ==
    ASSUME NEW bs, NEW values, Laid(bs, values), values # <<>>
    PROVE  LET e == Encode(Head(values))
           IN  /\ Len(e) <= Len(bs) /\ \A k \in 1..Len(e) : bs[k] = e[k]
               /\ Laid(Behind(bs, Len(e)), Tail(values))
  <1> DEFINE e == Encode(Head(values))
             n == Len(values)
             l == Len(bs)
             rest == Behind(bs, Len(e))
             zs == Tail(values)
  <1>1. PICK c : CutAt(c, bs, values)
    BY DEF Laid
  <1>2. bs \in Seq(Byte) /\ values \in Seq(Value) /\ l \in Nat
    BY DEF Laid
  <1>3. /\ n \in Nat \ {0} /\ Head(values) = values[1] /\ 1 \in 1..n
        /\ zs \in Seq(Value) /\ Len(zs) = n - 1 /\ \A i \in 1..(n - 1) : zs[i] = values[i + 1]
    BY <1>2
  <1>4. /\ c \in [0..n -> 0..l] /\ c[0] = 0 /\ c[n] = l
        /\ \A i, j \in 0..n : i <= j => c[i] <= c[j]
    BY <1>1 DEF CutAt
  <1>5. /\ e \in Seq(Byte) /\ Len(e) \in Nat /\ c[1] = Len(e) /\ Len(e) <= l
        /\ \A k \in 1..Len(e) : bs[k] = e[k]
    <2>1. 1 - 1 = 0
      OBVIOUS
    <2>2. Part(bs, c[0], c[1], e)
      BY <1>1, <1>3, <2>1 DEF CutAt
    <2>3. e \in Seq(Byte)
      BY <1>2, <1>3, ValuesEncoded DEF Encoded
    <2>4. c[1] \in 0..l
      BY <1>3, <1>4
    <2> HIDE DEF e, l
    <2>5. Len(e) \in Nat
      BY <2>3
    <2>6. c[1] = 0 + Len(e) /\ \A k \in 1..Len(e) : bs[0 + k] = e[k]
      BY <1>4, <2>2 DEF Part
    <2> QED
      BY <2>3, <2>4, <2>5, <2>6
  <1> DEFINE le == Len(e)
  <1> HIDE DEF e, le
  <1>6. /\ rest \in Seq(Byte) /\ Len(rest) = l - le
        /\ \A i \in 1..(l - le) : rest[i] = bs[le + i]
    <2>1. \A i \in 1..(l - le) : le + i \in 1..l
      BY <1>2, <1>5 DEF le
    <2>2. \A i \in 1..(l - le) : bs[le + i] \in Byte
      BY <1>2, <2>1
    <2>3. l - le \in Nat
      BY <1>2, <1>5 DEF le
    <2> QED
      BY <2>2, <2>3 DEF Behind, le
  <1> DEFINE cut == [i \in 0..(n - 1) |-> c[i + 1] - le]
  <1> HIDE DEF rest, zs, l, n
  <1>7. \A i \in 0..(n - 1) : i + 1 \in 0..n /\ c[i + 1] \in 0..l /\ le <= c[i + 1]
    <2> TAKE i \in 0..(n - 1)
    <2>1. i + 1 \in 0..n /\ 1 \in 0..n /\ 1 <= i + 1
      BY <1>3
    <2>2. c[i + 1] \in 0..l /\ c[1] <= c[i + 1]
      BY <1>4, <2>1
    <2> QED
      BY <1>5, <2>1, <2>2 DEF le
  <1>8. le \in Nat /\ l \in Nat
    BY <1>2, <1>5 DEF le
  <1>9. cut \in [0..(n - 1) -> 0..(l - le)]
    BY <1>7, <1>8
  <1>10. cut[0] = 0 /\ cut[n - 1] = l - le
    <2>1. 0 \in 0..(n - 1) /\ n - 1 \in 0..(n - 1) /\ 0 + 1 = 1 /\ (n - 1) + 1 = n
      BY <1>3
    <2>2. cut[0] = c[1] - le /\ cut[n - 1] = c[n] - le
      BY <2>1
    <2> QED
      BY <1>4, <1>5, <1>8, <2>2 DEF le
  <1>11. \A i, j \in 0..(n - 1) : i <= j => cut[i] <= cut[j]
    <2> TAKE i, j \in 0..(n - 1)
    <2> HAVE i <= j
    <2>1. i + 1 \in 0..n /\ j + 1 \in 0..n /\ i + 1 <= j + 1
      BY <1>3
    <2>2. c[i + 1] <= c[j + 1]
      BY <1>4, <2>1
    <2> QED
      BY <1>7, <1>8, <2>2
  <1>12. ASSUME NEW i \in 1..(n - 1) PROVE Part(rest, cut[i - 1], cut[i], Encode(zs[i]))
    <2> DEFINE f == Encode(values[i + 1])
               p == c[i]
               q == c[i + 1]
    <2>1. i + 1 \in 1..n /\ (i + 1) - 1 = i /\ (i - 1) + 1 = i /\ i - 1 \in 0..(n - 1) /\ i \in 0..(n - 1)
      BY <1>3
    <2>0. Within(bs, p, q, f)
      BY <1>1, <1>2, <2>1, PartWithin DEF n
    <2>2. /\ p \in Nat /\ q \in 0..l /\ Len(f) \in Nat /\ q = p + Len(f)
          /\ \A k \in 1..Len(f) : p + k \in 1..l /\ bs[p + k] = f[k]
      <3> HIDE DEF p, q, f
      <3> QED
        BY <2>0 DEF Within, l
    <2>3. cut[i - 1] = p - le /\ cut[i] = q - le /\ zs[i] = values[i + 1] /\ le <= p
      BY <1>3, <1>7, <2>1
    <2> HIDE DEF f, p, q
    <2>4. q - le = (p - le) + Len(f)
      BY <1>8, <2>2
    <2>5. ASSUME NEW k \in 1..Len(f) PROVE rest[(p - le) + k] = f[k]
      <3>1. (p - le) + k \in 1..(l - le) /\ le + ((p - le) + k) = p + k
        BY <1>8, <2>2, <2>3
      <3> QED
        BY <1>6, <2>2, <3>1
    <2> QED
      BY <2>3, <2>4, <2>5 DEF Part, f
  <1> HIDE DEF cut
  <1>13. CutAt(cut, rest, zs)
    BY <1>3, <1>6, <1>9, <1>10, <1>11, <1>12 DEF CutAt
  <1>14. Laid(rest, zs)
    BY <1>3, <1>6, <1>13 DEF Laid
  <1> QED
    BY <1>5, <1>14 DEF e, le, l, rest, zs

-----------------------------------------------------------------------------
(* The invariant.                                                          *)

\* What lies between the cursors is the encoding of what is owed, whatever the
\* growth, extractions and loads before (push, pop, write, read, resize).
Contents == Laid(Window, owed)

\* The file is that of what was saved.
FileContents == Laid(file, saved)

\* An append under way has room within the bound and brings whole values: one
\* put, or those of the file.
Pending ==
    job # Nothing =>
        /\ end + Len(job.bytes) <= MaxEnd
        /\ Laid(job.bytes, job.items)
        /\ IF job.load THEN job.items = saved ELSE \E v \in Value : job.items = <<v>>

IInv == TypeOK /\ Contents /\ FileContents /\ Pending

LEMMA Narrow == ASSUME NEW n \in 0..(2 * MaxEnd) PROVE U(n) = n
  <1>1. Width \in Nat /\ n \in Nat /\ n < Width
    BY WidthAssumption
  <1> QED
    BY <1>1 DEF U

\* The bytes of the memory m between two cursors.
Between(m, from, to) == [i \in 1..(to - from) |-> m[from + i - 1]]

LEMMA Cursors ==
    ASSUME TypeOK
    PROVE  /\ begin \in Nat /\ end \in Nat /\ cap \in Nat /\ MaxEnd \in Nat
           /\ begin <= end /\ end <= cap /\ end <= MaxEnd
           /\ Window = Between(mem, begin, end)
           /\ Len(Window) = end - begin
  <1>1. /\ begin \in Nat /\ end \in Nat /\ cap \in Nat /\ MaxEnd \in Nat
        /\ begin <= end /\ end <= cap /\ end <= MaxEnd
    BY WidthAssumption DEF TypeOK
  <1>2. end - begin \in 0..(2 * MaxEnd) /\ end - begin \in Nat
    BY <1>1
  <1>3. Size = end - begin
    BY <1>2, Narrow DEF Size
  <1>4. Window = [i \in 1..(end - begin) |-> mem[begin + i - 1]]
    BY <1>3 DEF Window, Slice
  <1>5. Len(Window) = end - begin
    BY <1>2, <1>4
  <1> QED
    BY <1>1, <1>4, <1>5 DEF Between

\* The same of the next state.
LEMMA NextWindow ==
    ASSUME begin' \in Nat, end' \in Nat, begin' <= end', end' <= MaxEnd, MaxEnd \in Nat
    PROVE  Window' = Between(mem', begin', end')
  <1>1. end' - begin' \in 0..(2 * MaxEnd)
    <2>1. \A a, b, n \in Nat : a <= b /\ b <= n => b - a \in 0..(2 * n)
      OBVIOUS
    <2> QED
      BY <2>1
  <1>2. U(end' - begin') = end' - begin'
    BY <1>1, Narrow
  <1>3. Size' = end' - begin'
    BY <1>2 DEF Size
  <1> QED
    BY <1>3 DEF Window, Slice, Between

LEMMA SameWindow == ASSUME UNCHANGED <<mem, begin, end>> PROVE Window' = Window
  BY DEF Window, Slice, Size

LEMMA InitIInv == Init => IInv
  <1> SUFFICES ASSUME Init PROVE IInv
    OBVIOUS
  <1>1. PICK c \in Capacities : cap = c /\ mem = Fresh(c)
    BY DEF Init
  <1>2. begin = 0 /\ end = 0 /\ job = Nothing /\ ok = TRUE /\ file = <<>> /\ owed = <<>> /\ saved = <<>>
    BY DEF Init
  <1>3. c \in Nat /\ c <= MaxEnd /\ MaxEnd \in Nat /\ Width \in Nat /\ MaxEnd < Width
    BY CapacitiesAssumption, WidthAssumption
  <1>4. mem \in [0..(cap - 1) -> Byte \cup {Junk}]
    BY <1>1 DEF Fresh
  <1>5. TypeOK
    BY <1>1, <1>2, <1>3, <1>4 DEF TypeOK
  <1>6. Window = <<>>
    BY <1>2, <1>5, Cursors
  <1> QED
    BY <1>2, <1>5, <1>6, LaidNone DEF IInv, Contents, FileContents, Pending

-----------------------------------------------------------------------------
(* Appending.                                                              *)

LEMMA PutKeeps == ASSUME IInv, NEW item \in Item, Put(item) PROVE IInv'
  <1> DEFINE v == Stored(item)
             e == Encode(item)
  <1>1. v \in Value /\ Encode(v) = e /\ e \in Seq(Byte)
    BY ItemStored DEF Value, Encoded
  <1>2. Laid(e, <<v>>)
    BY <1>1, LaidOne
  <1>3. <<v>> \in Seq(Value)
    BY <1>1
  <1> HIDE DEF v, e
  <1>4. /\ end + Len(e) <= MaxEnd
        /\ job' = [bytes |-> e, items |-> <<v>>, load |-> FALSE]
        /\ UNCHANGED <<mem, cap, begin, end, ok, file, saved, owed>>
    BY DEF Put, v, e, buffer, results, files
  <1>5. TypeOK'
    BY <1>1, <1>3, <1>4 DEF IInv, TypeOK
  <1>6. Contents' /\ FileContents'
    BY <1>4, SameWindow DEF IInv, Contents, FileContents
  <1>7. Pending'
    BY <1>1, <1>2, <1>4 DEF Pending
  <1> QED
    BY <1>5, <1>6, <1>7 DEF IInv

\* A job has its type, and its bytes their place.
LEMMA JobTyped ==
    ASSUME IInv, job # Nothing
    PROVE  /\ job.bytes \in Seq(Byte) /\ job.items \in Seq(Value) /\ job.load \in BOOLEAN
           /\ Len(job.bytes) \in Nat /\ end + Len(job.bytes) <= MaxEnd
           /\ U(end + Len(job.bytes)) = end + Len(job.bytes)
  <1>1. job \in [bytes : Seq(Byte), items : Seq(Value), load : BOOLEAN]
    BY DEF IInv, TypeOK
  <1>2. Len(job.bytes) \in Nat /\ end + Len(job.bytes) <= MaxEnd
    BY <1>1 DEF IInv, Pending
  <1>3. end \in Nat /\ MaxEnd \in Nat
    BY Cursors DEF IInv
  <1>4. end + Len(job.bytes) \in 0..(2 * MaxEnd)
    BY <1>2, <1>3
  <1> QED
    BY <1>1, <1>2, <1>4, Narrow

LEMMA GrowKeeps == ASSUME IInv, Grow PROVE IInv'
  <1>1. /\ job # Nothing /\ cap < U(end + Len(job.bytes))
        /\ cap' = U(cap * 2)
        /\ mem' = [i \in 0..(cap' - 1) |-> IF i < cap THEN mem[i] ELSE Junk]
        /\ UNCHANGED <<begin, end, job, ok, file, saved, owed>>
    <2>1. cap \in Nat /\ U(end + Len(job.bytes)) \in Nat
      BY JobTyped, Cursors DEF IInv, Grow
    <2> QED
      BY <2>1 DEF Grow, Fits, results, files
  <1>2. /\ begin \in Nat /\ end \in Nat /\ cap \in Nat /\ MaxEnd \in Nat
        /\ begin <= end /\ end <= cap /\ end <= MaxEnd
    BY Cursors DEF IInv
  <1>3. cap < MaxEnd
    BY <1>1, <1>2, JobTyped
  <1>4. cap * 2 \in 0..(2 * MaxEnd) /\ cap <= cap * 2
    BY <1>2, <1>3
  <1>5. cap' = cap * 2
    BY <1>1, <1>4, Narrow
  <1>6. cap' \in 0..(Width - 1) /\ cap <= cap' /\ cap' \in Nat
    BY <1>4, <1>5, WidthAssumption
  <1>7. mem \in [0..(cap - 1) -> Byte \cup {Junk}]
    BY DEF IInv, TypeOK
  <1>8. mem' \in [0..(cap' - 1) -> Byte \cup {Junk}]
    BY <1>1, <1>2, <1>6, <1>7
  <1>9. TypeOK'
    BY <1>1, <1>2, <1>6, <1>8 DEF IInv, TypeOK
  <1>10. Window' = Window
    <2>1. Window = Between(mem, begin, end)
      BY Cursors DEF IInv
    <2>2. Window' = Between(mem', begin, end)
      BY <1>1, <1>2, NextWindow
    <2>3. \A i \in 1..(end - begin) : begin + i - 1 \in 0..(cap' - 1) /\ begin + i - 1 < cap
      <3>1. \A a, b, c, d \in Nat : a <= b /\ b <= c /\ c <= d =>
              \A i \in 1..(b - a) : a + i - 1 \in 0..(d - 1) /\ a + i - 1 < c
        OBVIOUS
      <3> QED
        BY <1>2, <1>6, <3>1
    <2>4. \A i \in 1..(end - begin) : mem'[begin + i - 1] = mem[begin + i - 1]
      BY <1>1, <2>3
    <2> QED
      BY <2>1, <2>2, <2>4 DEF Between
  <1>11. Contents' /\ FileContents' /\ Pending'
    BY <1>1, <1>10 DEF IInv, Contents, FileContents, Pending
  <1> QED
    BY <1>9, <1>11 DEF IInv

LEMMA CommitKeeps == ASSUME IInv, Commit PROVE IInv'
  <1> DEFINE bytes == job.bytes
             n == Len(bytes)
             w == Window
             z == w \o bytes
  <1>1. /\ bytes \in Seq(Byte) /\ job.items \in Seq(Value) /\ n \in Nat /\ end + n <= MaxEnd
        /\ U(end + n) = end + n /\ Laid(bytes, job.items)
    BY JobTyped DEF Commit, IInv, Pending
  <1>2. /\ begin \in Nat /\ end \in Nat /\ cap \in Nat /\ MaxEnd \in Nat
        /\ begin <= end /\ end <= cap /\ end <= MaxEnd
        /\ w = Between(mem, begin, end) /\ Len(w) = end - begin
    BY Cursors DEF IInv
  <1>3. end + n <= cap
    <2>1. cap >= U(end + n)
      BY DEF Commit, Fits
    <2> QED
      BY <1>1, <1>2, <2>1
  <1>4. /\ mem' = [i \in DOMAIN mem |-> IF i \in end..(end + n - 1)
                                        THEN bytes[i - end + 1] ELSE mem[i]]
        /\ end' = end + n
        /\ job' = Nothing /\ ok' \in BOOLEAN
        /\ owed' = owed \o job.items
        /\ UNCHANGED <<cap, begin, file, saved>>
    <2>1. ok \in BOOLEAN
      BY DEF IInv, TypeOK
    <2> QED
      BY <1>1, <2>1 DEF Commit, files
  <1>5. mem \in [0..(cap - 1) -> Byte \cup {Junk}] /\ owed \in Seq(Value) /\ w \in Seq(Byte) /\ Laid(w, owed)
    BY DEF IInv, TypeOK, Contents, Laid
  <1> HIDE DEF bytes, n, w
  <1>6. ASSUME NEW i \in 0..(cap - 1) PROVE mem'[i] \in Byte \cup {Junk}
    <2>1. CASE i \in end..(end + n - 1)
      <3>1. i - end + 1 \in 1..n
        BY <1>1, <1>2, <2>1
      <3> QED
        BY <1>1, <1>4, <1>5, <2>1, <3>1 DEF n
    <2>2. CASE i \notin end..(end + n - 1)
      BY <1>4, <1>5, <2>2
    <2> QED
      BY <2>1, <2>2
  <1>7. mem' \in [0..(cap - 1) -> Byte \cup {Junk}]
    BY <1>4, <1>5, <1>6
  <1>8. owed \o job.items \in Seq(Value)
    BY <1>1, <1>5
  <1>9. TypeOK'
    <2>1. begin' \in Nat /\ end' \in 0..MaxEnd /\ begin' <= end' /\ end' <= cap'
      BY <1>1, <1>2, <1>3, <1>4
    <2>2. mem' \in [0..(cap' - 1) -> Byte \cup {Junk}]
      BY <1>4, <1>7
    <2> QED
      BY <1>4, <1>8, <2>1, <2>2 DEF IInv, TypeOK
  <1>10. /\ z \in Seq(Byte) /\ Len(z) = (end - begin) + n
         /\ \A i \in 1..(end - begin) : z[i] = w[i]
         /\ \A i \in 1..n : z[(end - begin) + i] = bytes[i]
    <2>1. /\ z \in Seq(Byte) /\ Len(z) = Len(w) + Len(bytes)
          /\ \A i \in 1..Len(w) : z[i] = w[i]
          /\ \A i \in 1..Len(bytes) : z[Len(w) + i] = bytes[i]
      BY <1>1, <1>5
    <2> HIDE DEF z
    <2> QED
      BY <1>2, <2>1 DEF n
  <1> HIDE DEF z
  <1>11. ASSUME NEW i \in 1..((end + n) - begin) PROVE mem'[begin + i - 1] = z[i]
    <2> DEFINE p == begin + i - 1
    <2>1. CASE i \in 1..(end - begin)
      <3>1. p \in 0..(cap - 1) /\ p \notin end..(end + n - 1)
        BY <1>1, <1>2, <2>1
      <3>2. mem'[p] = mem[p]
        <4> HIDE DEF p
        <4> QED
          BY <1>4, <1>5, <3>1
      <3>3. z[i] = mem[p]
        BY <1>2, <1>10, <2>1 DEF Between
      <3> QED
        BY <3>2, <3>3
    <2>2. CASE i \notin 1..(end - begin)
      <3> DEFINE j == i - (end - begin)
      <3>1. /\ p \in 0..(cap - 1) /\ p \in end..(end + n - 1) /\ p - end + 1 = j
            /\ j \in 1..n /\ (end - begin) + j = i
        BY <1>1, <1>2, <1>3, <2>2
      <3> HIDE DEF j, p
      <3>2. mem'[p] = bytes[j]
        BY <1>4, <1>5, <3>1
      <3> QED
        BY <1>10, <3>1, <3>2 DEF p
    <2> QED
      BY <2>1, <2>2
  <1>12. Window' = z
    <2>1. Window' = Between(mem', begin, end + n)
      BY <1>1, <1>2, <1>4, NextWindow
    <2>2. (end + n) - begin = (end - begin) + n
      BY <1>1, <1>2
    <2>3. z = [i \in 1..((end + n) - begin) |-> z[i]]
      BY <1>10, <2>2
    <2>4. Between(mem', begin, end + n) = [i \in 1..((end + n) - begin) |-> z[i]]
      BY <1>11 DEF Between
    <2> QED
      BY <2>1, <2>3, <2>4
  <1>13. Laid(z, owed \o job.items)
    BY <1>1, <1>5, LaidBoth DEF z
  <1>14. Contents' /\ FileContents' /\ Pending'
    BY <1>4, <1>12, <1>13 DEF IInv, Contents, FileContents, Pending
  <1> QED
    BY <1>9, <1>14 DEF IInv

LEMMA ClearKeeps == ASSUME IInv, NEW c \in Capacities, Clear(c) PROVE IInv'
  <1>1. /\ job = Nothing /\ begin' = 0 /\ end' = 0 /\ cap' = c /\ mem' = Fresh(c) /\ owed' = <<>>
        /\ UNCHANGED <<job, ok, file, saved>>
    BY DEF Clear, results, files
  <1>2. c \in Nat /\ c <= MaxEnd /\ MaxEnd \in Nat /\ Width \in Nat /\ MaxEnd < Width
    BY CapacitiesAssumption, WidthAssumption
  <1>3. Fresh(c) \in [0..(c - 1) -> Byte \cup {Junk}]
    BY DEF Fresh
  <1>4. TypeOK'
    BY <1>1, <1>2, <1>3 DEF IInv, TypeOK
  <1>5. Window' = <<>>
    <2>1. Window' = Between(mem', 0, 0)
      BY <1>1, <1>2, NextWindow
    <2> QED
      BY <2>1 DEF Between
  <1>6. Contents' /\ FileContents' /\ Pending'
    BY <1>1, <1>5, LaidNone DEF IInv, Contents, FileContents, Pending
  <1> QED
    BY <1>4, <1>6 DEF IInv

-----------------------------------------------------------------------------
(* Extracting.                                                             *)

\* The first value owed has been handed out, and the cursor is behind it.
Extracted ==
    /\ owed # <<>>
    /\ begin' = begin + Len(Encode(Head(owed)))
    /\ got' = Head(owed)
    /\ owed' = Tail(owed)
    /\ UNCHANGED <<mem, cap, end, job, ok, file, saved>>

\* Nothing is owed, and nothing has changed but the result.
Missed ==
    /\ owed = <<>>
    /\ got' \in {Nothing} \cup [kind : {"list", "block"}, val : {<<>>}]
    /\ UNCHANGED <<mem, cap, begin, end, job, ok, file, saved, owed>>

\* The bytes of the first value are those behind the cursor.
ComesNext(e) ==
    /\ e \in Seq(Byte) /\ Len(e) \in Nat
    /\ begin + Len(e) \in begin..end
    /\ \A k \in 1..Len(e) : begin + k - 1 \in begin..(end - 1) /\ mem[begin + k - 1] = e[k]

LEMMA FirstIsNext ==
    ASSUME IInv, owed # <<>>
    PROVE  /\ Head(owed) \in Value /\ Tail(owed) \in Seq(Value)
           /\ Encoded(Head(owed)) /\ ComesNext(Encode(Head(owed)))
           /\ Laid(Behind(Window, Len(Encode(Head(owed)))), Tail(owed))
  <1> DEFINE v == Head(owed)
             e == Encode(v)
             w == Window
  <1>1. owed \in Seq(Value) /\ Laid(w, owed)
    BY DEF IInv, TypeOK, Contents
  <1>2. v \in Value /\ Tail(owed) \in Seq(Value)
    BY <1>1
  <1>3. Encoded(v) /\ e \in Seq(Byte) /\ Len(e) \in Nat
    BY <1>2, ValuesEncoded DEF Encoded
  <1>4. Len(e) <= Len(w) /\ (\A k \in 1..Len(e) : w[k] = e[k]) /\ Laid(Behind(w, Len(e)), Tail(owed))
    BY <1>1, LaidFirst
  <1>5. begin \in Nat /\ end \in Nat /\ begin <= end /\ w = Between(mem, begin, end) /\ Len(w) = end - begin
    BY Cursors DEF IInv
  <1> HIDE DEF v, e, w
  <1>6. begin + Len(e) \in begin..end
    BY <1>3, <1>4, <1>5
  <1>7. ASSUME NEW k \in 1..Len(e) PROVE begin + k - 1 \in begin..(end - 1) /\ mem[begin + k - 1] = e[k]
    <2>1. k \in 1..(end - begin) /\ w[k] = e[k]
      BY <1>3, <1>4, <1>5
    <2>2. w[k] = mem[begin + k - 1]
      BY <1>5, <2>1 DEF Between
    <2> QED
      BY <1>5, <2>1, <2>2
  <1>8. ComesNext(e)
    BY <1>3, <1>6, <1>7 DEF ComesNext
  <1> QED
    BY <1>2, <1>3, <1>4, <1>8 DEF v, e, w

LEMMA NothingOwed == ASSUME IInv, owed = <<>> PROVE begin = end
  <1>1. Window = <<>>
    BY LaidOnlyNone DEF IInv, Contents
  <1> QED
    BY <1>1, Cursors DEF IInv

LEMMA ExtractedKeeps == ASSUME IInv, Extracted PROVE IInv'
  <1> DEFINE e == Encode(Head(owed))
             n == Len(e)
             rest == Behind(Window, n)
  <1>1. /\ owed # <<>> /\ begin' = begin + n /\ owed' = Tail(owed)
        /\ UNCHANGED <<mem, cap, end, job, ok, file, saved>>
    BY DEF Extracted
  <1>2. Tail(owed) \in Seq(Value) /\ ComesNext(e) /\ Laid(rest, Tail(owed))
    BY <1>1, FirstIsNext
  <1>3. /\ begin \in Nat /\ end \in Nat /\ cap \in Nat /\ MaxEnd \in Nat
        /\ begin <= end /\ end <= cap /\ end <= MaxEnd
        /\ Window = Between(mem, begin, end) /\ Len(Window) = end - begin
    BY Cursors DEF IInv
  <1> HIDE DEF e
  <1>4. n \in Nat /\ begin + n \in begin..end
    BY <1>2 DEF ComesNext
  <1>5. end <= MaxEnd /\ Width \in Nat /\ MaxEnd < Width
    BY <1>3, WidthAssumption
  <1> HIDE DEF n
  <1>6. begin' \in Nat /\ begin' <= end /\ begin' \in 0..(Width - 1)
    BY <1>1, <1>3, <1>4, <1>5
  <1>7. TypeOK'
    BY <1>1, <1>2, <1>6 DEF IInv, TypeOK
  <1>8. Window' = rest
    <2>1. Window' = Between(mem, begin + n, end)
      <3>1. begin' \in Nat /\ end' \in Nat /\ begin' <= end' /\ end' <= MaxEnd
        BY <1>1, <1>3, <1>6
      <3> QED
        BY <1>1, <1>3, <3>1, NextWindow
    <2>2. end - (begin + n) = (end - begin) - n
      BY <1>3, <1>4
    <2>3. ASSUME NEW i \in 1..((end - begin) - n) PROVE Window[n + i] = mem[(begin + n) + i - 1]
      <3>1. n + i \in 1..(end - begin) /\ begin + (n + i) - 1 = (begin + n) + i - 1
        BY <1>3, <1>4
      <3> QED
        BY <1>3, <3>1 DEF Between
    <2> QED
      BY <1>3, <2>1, <2>2, <2>3 DEF Behind, Between
  <1>9. Contents' /\ FileContents' /\ Pending'
    BY <1>1, <1>2, <1>8 DEF IInv, Contents, FileContents, Pending
  <1> QED
    BY <1>7, <1>9 DEF IInv

LEMMA MissedKeeps == ASSUME IInv, Missed PROVE IInv'
  <1>1. UNCHANGED <<mem, cap, begin, end, job, ok, file, saved, owed>>
    BY DEF Missed
  <1>2. TypeOK'
    BY <1>1 DEF IInv, TypeOK
  <1>3. Contents' /\ FileContents' /\ Pending'
    BY <1>1, SameWindow DEF IInv, Contents, FileContents, Pending
  <1> QED
    BY <1>2, <1>3 DEF IInv

LEMMA SlicePart ==
    ASSUME IInv, NEW e, ComesNext(e), NEW a \in Nat, NEW n \in Nat, a + n <= Len(e)
    PROVE  Slice(begin + a, n) = [k \in 1..n |-> e[a + k]]
  <1>1. begin \in Nat /\ Len(e) \in Nat
    BY Cursors DEF IInv, ComesNext
  <1>2. ASSUME NEW k \in 1..n PROVE mem[(begin + a) + k - 1] = e[a + k]
    <2>1. a + k \in 1..Len(e) /\ begin + (a + k) - 1 = (begin + a) + k - 1
      BY <1>1
    <2> QED
      BY <2>1 DEF ComesNext
  <1> QED
    BY <1>2 DEF Slice

LEMMA SliceFirst ==
    ASSUME IInv, NEW e, ComesNext(e), NEW n \in Nat, n <= Len(e)
    PROVE  Slice(begin, n) = [k \in 1..n |-> e[k]]
  <1>1. Slice(begin + 0, n) = [k \in 1..n |-> e[0 + k]]
    <2>1. 0 \in Nat /\ 0 + n <= Len(e)
      OBVIOUS
    <2> QED
      BY <2>1, SlicePart
  <1>2. begin + 0 = begin /\ \A k \in 1..n : 0 + k = k
    BY Cursors DEF IInv
  <1> QED
    BY <1>1, <1>2

\* Without wrapping around: whether n bytes are there, and where they end.
LEMMA HasBytes ==
    ASSUME IInv, NEW n \in 0..MaxEnd
    PROVE  U(begin + n) = begin + n /\ (Has(n) <=> begin + n <= end)
  <1>1. begin + n \in 0..(2 * MaxEnd)
    BY Cursors DEF IInv
  <1>2. U(begin + n) = begin + n
    BY <1>1, Narrow
  <1> QED
    BY <1>2 DEF Has

LEMMA SettleExtracts ==
    ASSUME IInv, owed # <<>>, Settle, begin' = begin + Len(Encode(Head(owed))), got' = Head(owed)
    PROVE  Extracted
  BY DEF Settle, Extracted, buffer, files

LEMMA SettleMisses ==
    ASSUME owed = <<>>, Settle, begin' = begin,
           got' \in {Nothing} \cup [kind : {"list", "block"}, val : {<<>>}]
    PROVE  Missed
  BY DEF Settle, Missed, buffer, files

LEMMA GetIntExtracts == ASSUME IInv, GetInt PROVE Extracted \/ Missed
  <1> DEFINE v == Head(owed)
             e == Encode(v)
             s == Slice(begin, IntBytes)
  <1>1. /\ owed # <<>> => v.kind = "int"
        /\ Settle
        /\ Take(IntBytes, "int", SwapBytes(s))
    BY DEF GetInt, Asks
  <1>2. IntBytes \in 0..MaxEnd /\ IntBytes \in Nat \ {0} /\ begin \in Nat /\ end \in Nat
    BY SizesAssumption, Cursors, WidthAssumption DEF IInv
  <1>3. U(begin + IntBytes) = begin + IntBytes /\ (Has(IntBytes) <=> begin + IntBytes <= end)
    BY <1>2, HasBytes
  <1>4. CASE owed = <<>>
    <2>1. begin = end
      BY <1>4, NothingOwed
    <2>2. ~Has(IntBytes)
      BY <1>2, <1>3, <2>1
    <2>3. got' = Nothing /\ begin' = begin
      BY <1>1, <2>2 DEF Take
    <2> QED
      BY <1>1, <1>4, <2>3, SettleMisses
  <1>5. CASE owed # <<>>
    <2>1. Encoded(v) /\ ComesNext(e)
      BY <1>5, FirstIsNext
    <2>2. v = [kind |-> "int", val |-> v.val] /\ v.val \in [1..IntBytes -> Byte] /\ e = SwapBytes(v.val)
      BY <1>1, <1>5, <2>1 DEF Encoded, IsInt, IsString, IsList, IsBlock
    <2>3. e \in [1..IntBytes -> Byte] /\ SwapBytes(e) = v.val
      BY <2>2, SwapTwice
    <2> HIDE DEF v, e
    <2>4. Len(e) = IntBytes
      BY <1>2, <2>3
    <2>5. s = e
      <3>1. IntBytes \in Nat /\ IntBytes <= Len(e)
        BY <1>2, <2>4
      <3>2. s = [k \in 1..IntBytes |-> e[k]]
        BY <2>1, <3>1, SliceFirst
      <3> HIDE DEF s
      <3> QED
        BY <2>3, <3>2
    <2> HIDE DEF s
    <2>6. Has(IntBytes)
      BY <1>3, <2>1, <2>4 DEF ComesNext
    <2>7. got' = [kind |-> "int", val |-> SwapBytes(s)] /\ begin' = begin + IntBytes
      BY <1>1, <1>3, <2>6 DEF Take
    <2>8. got' = v /\ begin' = begin + Len(e)
      BY <2>2, <2>3, <2>4, <2>5, <2>7
    <2> QED
      BY <1>1, <1>5, <2>8, SettleExtracts DEF v, e
  <1> QED
    BY <1>4, <1>5

LEMMA GetBlockExtracts ==
    ASSUME IInv, NEW b \in Blocks, GetBlock(Len(b)) PROVE Extracted \/ Missed
  <1> DEFINE v == Head(owed)
             e == Encode(v)
             n == Len(b)
             s == Slice(begin, n)
  <1>1. /\ owed # <<>> => v.kind = "block" /\ n = Len(v.val)
        /\ Settle
        /\ Take(n, "block", s)
    BY DEF GetBlock, Asks
  <1>2. n \in 0..MaxEnd /\ n \in Nat /\ begin \in Nat /\ end \in Nat
    <2>1. b \in Seq(Byte) /\ Len(b) <= MaxEnd
      BY ValuesAssumption
    <2> QED
      BY <2>1, Cursors DEF IInv
  <1> HIDE DEF n
  <1>3. U(begin + n) = begin + n /\ (Has(n) <=> begin + n <= end)
    BY <1>2, HasBytes
  <1>4. CASE owed = <<>>
    <2>1. begin = end
      BY <1>4, NothingOwed
    <2>2. CASE Has(n)
      <3>1. n = 0
        BY <1>2, <1>3, <2>1, <2>2
      <3>2. s = <<>>
        BY <3>1 DEF Slice
      <3> HIDE DEF s
      <3>3. got' = [kind |-> "block", val |-> s] /\ begin' = begin + n
        BY <1>1, <1>3, <2>2 DEF Take
      <3>4. got' \in [kind : {"list", "block"}, val : {<<>>}] /\ begin' = begin
        BY <1>2, <3>1, <3>2, <3>3
      <3> QED
        BY <1>1, <1>4, <3>4, SettleMisses
    <2>3. CASE ~Has(n)
      <3>1. got' = Nothing /\ begin' = begin
        BY <1>1, <2>3 DEF Take
      <3> QED
        BY <1>1, <1>4, <3>1, SettleMisses
    <2> QED
      BY <2>2, <2>3
  <1>5. CASE owed # <<>>
    <2>1. Encoded(v) /\ ComesNext(e)
      BY <1>5, FirstIsNext
    <2>2. v = [kind |-> "block", val |-> v.val] /\ v.val \in Seq(Byte) /\ e = v.val
      BY <1>1, <1>5, <2>1 DEF Encoded, IsInt, IsString, IsList, IsBlock
    <2>3. Len(e) = n
      BY <1>1, <1>5, <2>2
    <2> HIDE DEF v, e
    <2>4. s = e
      <3>1. n <= Len(e)
        BY <1>2, <2>3
      <3>2. s = [k \in 1..n |-> e[k]]
        BY <1>2, <2>1, <3>1, SliceFirst
      <3>3. e = [k \in 1..n |-> e[k]]
        BY <2>2, <2>3
      <3> HIDE DEF s
      <3> QED
        BY <3>2, <3>3
    <2> HIDE DEF s
    <2>5. Has(n)
      BY <1>3, <2>1, <2>3 DEF ComesNext
    <2>6. got' = [kind |-> "block", val |-> s] /\ begin' = begin + n
      BY <1>1, <1>3, <2>5 DEF Take
    <2>7. got' = v /\ begin' = begin + Len(e)
      BY <2>2, <2>3, <2>4, <2>6
    <2> QED
      BY <1>1, <1>5, <2>7, SettleExtracts DEF v, e
  <1> QED
    BY <1>4, <1>5

LEMMA GetStringExtracts == ASSUME IInv, GetString PROVE Extracted
  <1> DEFINE v == Head(owed)
             e == Encode(v)
             w == v.val
             stops == {i \in begin..(end - 1) : mem[i] = 0}
             stop == IF stops # {} THEN CHOOSE i \in stops : \A j \in stops : i <= j
                     ELSE IF begin < end THEN end ELSE begin
             p == begin + Len(w)
  <1>1. owed # <<>> /\ v.kind = "string" /\ Settle
    BY DEF GetString, Asks
  <1>2. got' = [kind |-> "string", val |-> Slice(begin, stop - begin)] /\ begin' = U(stop + 1)
    BY DEF GetString
  <1>3. Encoded(v) /\ ComesNext(e)
    BY <1>1, FirstIsNext
  <1>4. /\ v = [kind |-> "string", val |-> w] /\ w \in Seq(Byte)
        /\ \A i \in 1..Len(w) : w[i] # 0
        /\ e = Append(w, 0)
    BY <1>1, <1>3 DEF Encoded, IsInt, IsString, IsList, IsBlock
  <1> HIDE DEF v, e
  <1>5. /\ Len(w) \in Nat /\ Len(e) = Len(w) + 1 /\ e[Len(w) + 1] = 0
        /\ \A k \in 1..Len(w) : e[k] = w[k]
    BY <1>4
  <1> HIDE DEF w
  <1>6. begin \in Nat /\ end \in Nat /\ MaxEnd \in Nat /\ end <= MaxEnd
    BY Cursors DEF IInv
  <1>7. p \in Nat /\ p \in begin..(end - 1) /\ mem[p] = 0 /\ p + 1 = begin + Len(e) /\ p + 1 <= end
    <2>1. Len(w) + 1 \in 1..Len(e)
      BY <1>5
    <2>2. begin + (Len(w) + 1) - 1 = p
      BY <1>5, <1>6
    <2>3. p \in begin..(end - 1) /\ mem[p] = e[Len(w) + 1]
      <3> HIDE DEF p
      <3> QED
        BY <1>3, <2>1, <2>2 DEF ComesNext
    <2>4. p + 1 = begin + Len(e) /\ begin + Len(e) <= end
      BY <1>3, <1>5, <1>6 DEF ComesNext
    <2> QED
      BY <1>5, <1>6, <2>3, <2>4
  <1>8. ASSUME NEW i \in begin..(p - 1) PROVE mem[i] # 0
    <2> DEFINE k == i - begin + 1
    <2>1. k \in 1..Len(w) /\ begin + k - 1 = i /\ k \in 1..Len(e)
      BY <1>5, <1>6
    <2> HIDE DEF k
    <2>2. mem[i] = e[k] /\ e[k] = w[k] /\ w[k] # 0
      BY <1>3, <1>4, <1>5, <2>1 DEF ComesNext, w
    <2> QED
      BY <2>2
  <1> HIDE DEF p
  <1>9. p \in stops /\ \A i \in stops : p <= i
    <2>1. p \in stops
      BY <1>7
    <2>2. ASSUME NEW i \in stops PROVE p <= i
      <3>1. i \in begin..(end - 1) /\ mem[i] = 0
        OBVIOUS
      <3>2. i \notin begin..(p - 1)
        BY <1>8, <3>1
      <3> QED
        BY <1>6, <1>7, <3>1, <3>2
    <2> QED
      BY <2>1, <2>2
  <1>10. stop = p
    <2>1. \A i \in stops : i \in Nat
      BY <1>6
    <2>2. \A i \in stops : (\A j \in stops : i <= j) => i = p
      BY <1>9, <1>7, <2>1
    <2> HIDE DEF stops
    <2>3. stops # {} /\ (CHOOSE i \in stops : \A j \in stops : i <= j) = p
      BY <1>9, <2>2
    <2> QED
      BY <2>3
  <1> HIDE DEF stop
  <1>11. Slice(begin, stop - begin) = w
    <2>1. stop - begin = Len(w) /\ Len(w) <= Len(e)
      BY <1>5, <1>6, <1>10 DEF p
    <2>2. Slice(begin, Len(w)) = [k \in 1..Len(w) |-> e[k]]
      BY <1>3, <1>5, <2>1, SliceFirst
    <2>3. w = [k \in 1..Len(w) |-> w[k]]
      BY <1>4
    <2> QED
      BY <1>5, <2>1, <2>2, <2>3
  <1>12. begin' = begin + Len(e)
    <2>1. p + 1 \in 0..(2 * MaxEnd)
      BY <1>6, <1>7
    <2>2. U(p + 1) = p + 1
      BY <2>1, Narrow
    <2> QED
      BY <1>2, <1>7, <1>10, <2>2
  <1>13. got' = v
    BY <1>2, <1>4, <1>11
  <1> QED
    BY <1>1, <1>12, <1>13, SettleExtracts DEF v, e

LEMMA GetListExtracts == ASSUME IInv, GetList PROVE Extracted \/ Missed
  <1> DEFINE counted == Has(CountBytes)
             n == IF counted THEN CountOf(Slice(begin, CountBytes)) ELSE 0
             first == IF counted THEN U(begin + CountBytes) ELSE begin
             held == IF first < end THEN (end - first) \div IntBytes ELSE 0
             Element(i) == IF i <= held
                           THEN SwapBytes(Slice(first + (i - 1) * IntBytes, IntBytes))
                           ELSE [b \in 1..IntBytes |-> Junk]
  <1>1. /\ owed # <<>> => Head(owed).kind = "list"
        /\ Settle
        /\ got' = [kind |-> "list", val |-> [i \in 1..n |-> Element(i)]]
        /\ begin' = U(first + (IF n <= held THEN n ELSE held) * IntBytes)
    BY DEF GetList, Asks
  <1>2. /\ IntBytes \in Nat \ {0} /\ CountBytes \in 0..MaxEnd /\ CountBytes \in Nat \ {0}
        /\ MaxEnd \in Nat /\ begin \in Nat /\ end \in Nat /\ end <= MaxEnd
    BY SizesAssumption, WidthAssumption, Cursors DEF IInv
  <1>3. U(begin + CountBytes) = begin + CountBytes /\ (counted <=> begin + CountBytes <= end)
    BY <1>2, HasBytes
  <1>4. CASE owed = <<>>
    <2>1. begin = end
      BY <1>4, NothingOwed
    <2>2. ~counted
      BY <1>2, <1>3, <2>1
    <2> HIDE DEF counted
    <2>3. n = 0 /\ first = begin /\ held = 0
      BY <1>2, <2>1, <2>2
    <2> HIDE DEF n, first, held, Element
    <2>4. [i \in 1..n |-> Element(i)] = <<>>
      BY <2>3
    <2>5. first + (IF n <= held THEN n ELSE held) * IntBytes = begin /\ begin \in 0..(2 * MaxEnd)
      BY <1>2, <2>1, <2>3
    <2>6. begin' = begin
      BY <1>1, <2>5, Narrow
    <2>7. got' \in [kind : {"list", "block"}, val : {<<>>}]
      BY <1>1, <2>4
    <2> QED
      BY <1>1, <1>4, <2>6, <2>7, SettleMisses
  <1>5. CASE owed # <<>>
    <2> DEFINE v == Head(owed)
               e == Encode(v)
               l == v.val
               c == Count(Len(l))
               s == Elements(l)
    <2>1. Encoded(v) /\ ComesNext(e)
      BY <1>5, FirstIsNext
    <2>2. /\ v = [kind |-> "list", val |-> l]
          /\ l \in Seq([1..IntBytes -> Byte]) /\ Len(l) < Power[CountBytes]
          /\ e = c \o s
      BY <1>1, <1>5, <2>1 DEF Encoded, IsInt, IsString, IsList, IsBlock
    <2> HIDE DEF v, e, l
    <2> DEFINE N == Len(l)
               m == N * IntBytes
    <2>3. N \in Nat /\ m \in Nat
      BY <1>2, <2>2
    <2>4. c \in Seq(Byte) /\ Len(c) = CountBytes
      BY <2>3, CountIsBytes
    <2>5. InPlace(s, l)
      BY <2>2, ElementsInPlace
    <2>6. s \in Seq(Byte) /\ Len(s) = m
      BY <2>5 DEF InPlace
    <2> HIDE DEF c, s
    <2>7. /\ Len(e) = CountBytes + m
          /\ \A k \in 1..CountBytes : e[k] = c[k]
          /\ \A k \in 1..m : e[CountBytes + k] = s[k]
      <3>1. /\ Len(c \o s) = Len(c) + Len(s)
            /\ \A k \in 1..Len(c) : (c \o s)[k] = c[k]
            /\ \A k \in 1..Len(s) : (c \o s)[Len(c) + k] = s[k]
        BY <2>4, <2>6
      <3> HIDE DEF m
      <3> QED
        BY <2>2, <2>4, <2>6, <3>1
    <2> HIDE DEF N, m
    <2>8. begin + (CountBytes + m) <= end
      <3>1. begin + Len(e) <= end
        BY <1>2, <2>1 DEF ComesNext
      <3> QED
        BY <2>7, <3>1
    <2>9. counted
      BY <1>2, <1>3, <2>3, <2>8
    <2>10. n = N
      <3>1. CountBytes <= Len(e)
        BY <1>2, <2>3, <2>7
      <3>2. Slice(begin, CountBytes) = [k \in 1..CountBytes |-> e[k]]
        BY <1>2, <2>1, <3>1, SliceFirst
      <3>3. c = [k \in 1..CountBytes |-> c[k]]
        BY <1>2, <2>4
      <3>4. Slice(begin, CountBytes) = c
        BY <2>7, <3>2, <3>3
      <3>5. Power[CountBytes] \in Nat
        BY <1>2, PowerFacts DEF Powers
      <3>6. N \in 0..(Power[CountBytes] - 1)
        BY <2>2, <2>3, <3>5 DEF N
      <3>7. CountOf(Count(N)) = N
        BY <3>6, CountRead
      <3>8. c = Count(N)
        BY DEF c, N
      <3> HIDE DEF counted
      <3> QED
        BY <2>9, <3>4, <3>7, <3>8
    <2>11. first = begin + CountBytes
      <3> HIDE DEF counted
      <3> QED
        BY <1>3, <2>9
    <2> HIDE DEF counted, n, first
    <2>12. held \in Nat /\ N <= held
      <3>1. first \in Nat /\ first + m <= end
        BY <1>2, <2>3, <2>8, <2>11
      <3>2. CASE N = 0
        <4>1. first < end => end - first \in Nat
          BY <1>2, <3>1
        <4>2. \A x \in Nat, d \in Nat \ {0} : x \div d \in Nat
          OBVIOUS
        <4>3. held \in Nat
          BY <1>2, <4>1, <4>2
        <4> QED
          BY <3>2, <4>3
      <3>3. CASE N # 0
        <4>1. m > 0
          BY <1>2, <2>3, <3>3 DEF m
        <4>2. first < end /\ end - first \in Nat /\ m <= end - first
          BY <1>2, <2>3, <3>1, <4>1
        <4>3. \A x, a \in Nat, d \in Nat \ {0} : a * d <= x => x \div d \in Nat /\ a <= x \div d
          <5> TAKE x, a \in Nat, d \in Nat \ {0}
          <5> HAVE a * d <= x
          <5> DEFINE q == x \div d
                     r == x % d
          <5>1. q \in Nat /\ r \in 0..(d - 1) /\ x = q * d + r
            OBVIOUS
          <5> HIDE DEF q, r
          <5>2. q < a => (q + 1) * d <= a * d
            BY <5>1
          <5>3. (q + 1) * d = q * d + d /\ q * d \in Nat /\ a * d \in Nat
            BY <5>1
          <5>4. ~(q < a)
            BY <5>1, <5>2, <5>3
          <5> QED
            BY <5>1, <5>4 DEF q
        <4>4. (end - first) \div IntBytes \in Nat /\ N <= (end - first) \div IntBytes
          BY <1>2, <2>3, <4>2, <4>3 DEF m
        <4> QED
          BY <4>2, <4>4
      <3> QED
        BY <3>2, <3>3
    <2> HIDE DEF held
    <2>13. begin' = begin + Len(e)
      <3>1. first + (IF n <= held THEN n ELSE held) * IntBytes = begin + (CountBytes + m)
        BY <1>2, <2>3, <2>10, <2>11, <2>12 DEF m
      <3>2. begin + (CountBytes + m) \in 0..(2 * MaxEnd)
        BY <1>2, <2>3, <2>8
      <3>3. U(begin + (CountBytes + m)) = begin + (CountBytes + m)
        BY <3>2, Narrow
      <3> QED
        BY <1>1, <2>7, <3>1, <3>3
    <2>14. ASSUME NEW i \in 1..N PROVE Element(i) = l[i]
      <3> DEFINE a == CountBytes + (i - 1) * IntBytes
      <3>1. (i - 1) * IntBytes \in Nat /\ i * IntBytes = (i - 1) * IntBytes + IntBytes
        BY <1>2, <2>3
      <3>2. i * IntBytes <= m
        BY <1>2, <2>3 DEF m
      <3>3. a \in Nat /\ a + IntBytes <= Len(e) /\ first + (i - 1) * IntBytes = begin + a
        BY <1>2, <2>3, <2>7, <2>11, <3>1, <3>2
      <3>4. \A k \in 1..IntBytes : a + k = CountBytes + ((i - 1) * IntBytes + k)
                                   /\ (i - 1) * IntBytes + k \in 1..m
        BY <1>2, <2>3, <3>1, <3>2
      <3>5. \A k \in 1..IntBytes : s[(i - 1) * IntBytes + k] = SwapBytes(l[i])[k]
        BY <2>5 DEF InPlace, N
      <3> HIDE DEF a
      <3>6. Slice(begin + a, IntBytes) = [k \in 1..IntBytes |-> e[a + k]]
        <4>1. a \in Nat /\ IntBytes \in Nat /\ a + IntBytes <= Len(e) /\ ComesNext(e)
          BY <1>2, <2>1, <3>3
        <4> QED
          BY <4>1, SlicePart
      <3>7. \A k \in 1..IntBytes : e[a + k] = SwapBytes(l[i])[k]
        BY <2>7, <3>4, <3>5
      <3>8. l[i] \in [1..IntBytes -> Byte]
        BY <2>2 DEF N
      <3>9. SwapBytes(l[i]) \in [1..IntBytes -> Byte] /\ SwapBytes(SwapBytes(l[i])) = l[i]
        BY <3>8, SwapTwice
      <3>10. Slice(begin + a, IntBytes) = SwapBytes(l[i])
        BY <3>6, <3>7, <3>9
      <3>11. i <= held
        BY <2>3, <2>12
      <3> QED
        BY <3>3, <3>9, <3>10, <3>11
    <2> HIDE DEF Element
    <2>15. got' = v
      <3>1. [i \in 1..n |-> Element(i)] = [i \in 1..N |-> l[i]]
        BY <2>10, <2>14
      <3>2. l = [i \in 1..N |-> l[i]]
        BY <2>2 DEF N
      <3> QED
        BY <1>1, <2>2, <3>1, <3>2
    <2> QED
      BY <1>1, <1>5, <2>13, <2>15, SettleExtracts DEF v, e
  <1> QED
    BY <1>4, <1>5

LEMMA ExtractGives == ASSUME IInv, Extract PROVE Extracted \/ Missed
  <1>1. ASSUME NEW n \in {Len(b) : b \in Blocks}, GetBlock(n) PROVE Extracted \/ Missed
    <2>1. PICK b \in Blocks : n = Len(b)
      OBVIOUS
    <2> QED
      BY <1>1, <2>1, GetBlockExtracts
  <1> QED
    BY <1>1, GetIntExtracts, GetStringExtracts, GetListExtracts DEF Extract

-----------------------------------------------------------------------------
(* Files.                                                                  *)

LEMMA SaveKeeps == ASSUME IInv, NEW append \in BOOLEAN, Save(append) PROVE IInv'
  <1>1. /\ job = Nothing
        /\ file' = (IF append THEN file ELSE <<>>) \o Window
        /\ saved' = (IF append THEN saved ELSE <<>>) \o owed
        /\ ok' = TRUE
        /\ UNCHANGED <<mem, cap, begin, end, job, owed>>
    BY DEF Save, buffer
  <1>2. Laid(Window, owed) /\ Laid(file, saved)
    BY DEF IInv, Contents, FileContents
  <1>3. Laid(file', saved')
    <2>1. CASE append
      BY <1>1, <1>2, <2>1, LaidBoth
    <2>2. CASE ~append
      BY <1>1, <1>2, <2>2, LaidBoth, LaidNone
    <2> QED
      BY <2>1, <2>2
  <1>4. file' \in Seq(Byte) /\ saved' \in Seq(Value)
    BY <1>3 DEF Laid
  <1>5. TypeOK'
    BY <1>1, <1>4 DEF IInv, TypeOK
  <1>6. Contents' /\ FileContents' /\ Pending'
    BY <1>1, <1>2, <1>3, SameWindow DEF Contents, FileContents, Pending
  <1> QED
    BY <1>5, <1>6 DEF IInv

\* load(), and what fails: nothing but the job and the result changes.
LEMMA FilesKeep == ASSUME IInv, FileFails \/ Load \/ LoadFails PROVE IInv'
  <1>1. /\ UNCHANGED <<mem, cap, begin, end, file, saved, owed>>
        /\ ok' \in BOOLEAN
        /\ \/ job' = Nothing
           \/ job' = [bytes |-> file, items |-> saved, load |-> TRUE] /\ end + Len(file) <= MaxEnd
    BY DEF IInv, TypeOK, FileFails, Load, LoadFails, buffer, files, results
  <1>2. Laid(file, saved) /\ file \in Seq(Byte) /\ saved \in Seq(Value)
    BY DEF IInv, FileContents, Laid
  <1>3. TypeOK'
    <2>1. job' \in [bytes : Seq(Byte), items : Seq(Value), load : BOOLEAN] \cup {Nothing}
      <3>1. [bytes |-> file, items |-> saved, load |-> TRUE]
            \in [bytes : Seq(Byte), items : Seq(Value), load : BOOLEAN]
        BY <1>2
      <3> QED
        BY <1>1, <3>1, Zenon
    <2> QED
      BY <1>1, <2>1 DEF IInv, TypeOK
  <1>4. Contents' /\ FileContents'
    BY <1>1, SameWindow DEF IInv, Contents, FileContents
  <1>5. Pending'
    BY <1>1, <1>2 DEF Pending
  <1> QED
    BY <1>3, <1>4, <1>5 DEF IInv

LEMMA NextKeeps == IInv /\ [Next]_vars => IInv'
  <1> SUFFICES ASSUME IInv, [Next]_vars PROVE IInv'
    OBVIOUS
  <1>1. CASE AppendStep
    BY <1>1, PutKeeps, GrowKeeps, CommitKeeps, ClearKeeps DEF AppendStep
  <1>2. CASE Extract
    BY <1>2, ExtractGives, ExtractedKeeps, MissedKeeps
  <1>3. CASE Files
    BY <1>3, SaveKeeps, FilesKeep DEF Files
  <1>4. CASE UNCHANGED vars
    <2>1. UNCHANGED <<mem, cap, begin, end, job, ok, file, saved, owed>>
      BY <1>4 DEF vars, buffer, results, files
    <2>2. TypeOK'
      BY <2>1 DEF IInv, TypeOK
    <2>3. Contents' /\ FileContents' /\ Pending'
      BY <2>1, SameWindow DEF IInv, Contents, FileContents, Pending
    <2> QED
      BY <2>2, <2>3 DEF IInv
  <1> QED
    BY <1>1, <1>2, <1>3, <1>4 DEF Next

LEMMA SpecIInv == Spec => []IInv
BY InitIInv, NextKeeps, PTL DEF Spec

-----------------------------------------------------------------------------
(* Theorems about Serializer.                                              *)

\* The cursors stay in order and in the buffer, and the buffer within the width
\* of unsigned int, through any growth, extraction, clear and load.
THEOREM TypeCorrect == Spec => []TypeOK
BY SpecIInv, PTL DEF IInv

\* What lies between the cursors, and in the file, is always the encoding of
\* the values put and not yet extracted, or saved: one behind the other.
THEOREM Encodes == Spec => [](Contents /\ FileContents)
BY SpecIInv, PTL DEF IInv

\* Every step of the buffer is a step of the queue of values, or changes
\* nothing a caller sees.
LEMMA StepQueue == ASSUME IInv, [Next]_vars PROVE [Q!Next]_(Q!vars)
  <1> DEFINE Same == UNCHANGED <<owed, saved, got>>
  <1>1. ASSUME Same PROVE [Q!Next]_(Q!vars)
    BY <1>1 DEF Q!vars
  <1>2. CASE AppendStep
    <2>1. ASSUME NEW item \in Item, Put(item) PROVE Same
      BY <2>1 DEF Put, results, files
    <2>2. CASE Grow
      BY <1>1, <2>2 DEF Grow, results, files
    <2>3. CASE Commit
      <3>1. owed' = owed \o job.items /\ UNCHANGED <<saved, got>> /\ job # Nothing
        BY <2>3 DEF Commit, files
      <3>2. CASE job.load
        <4>1. job.items = saved
          BY <3>1, <3>2 DEF IInv, Pending
        <4>2. Q!Load
          BY <3>1, <4>1 DEF Q!Load
        <4> QED
          BY <4>2 DEF Q!Next
      <3>3. CASE ~job.load
        <4>1. PICK v \in Value : job.items = <<v>>
          BY <3>1, <3>3 DEF IInv, Pending
        <4>2. owed \in Seq(Value) /\ owed \o <<v>> = Append(owed, v)
          BY DEF IInv, TypeOK
        <4>3. Q!Put(v)
          BY <3>1, <4>1, <4>2 DEF Q!Put
        <4> QED
          BY <4>3 DEF Q!Next
      <3> QED
        BY <3>2, <3>3
    <2>4. ASSUME NEW c \in Capacities, Clear(c) PROVE Q!Forget
      BY <2>4 DEF Clear, results, files, Q!Forget
    <2> QED
      BY <1>1, <1>2, <2>1, <2>2, <2>3, <2>4 DEF AppendStep, Q!Next
  <1>3. CASE Extract
    <2>1. ASSUME Extracted PROVE Q!Take
      BY <2>1 DEF Extracted, Q!Take
    <2>2. ASSUME Missed PROVE Q!Miss
      BY <2>2 DEF Missed, Q!Miss
    <2> QED
      BY <1>3, <2>1, <2>2, ExtractGives DEF Q!Next
  <1>4. CASE Files
    <2>1. ASSUME NEW append \in BOOLEAN, Save(append) PROVE Q!Save(append)
      BY <2>1 DEF Save, Q!Save
    <2>2. CASE FileFails \/ Load \/ LoadFails
      BY <1>1, <2>2 DEF FileFails, Load, LoadFails, files, results
    <2> QED
      BY <1>4, <2>1, <2>2 DEF Files, Q!Next
  <1>5. CASE UNCHANGED vars
    BY <1>1, <1>5 DEF vars, files, results
  <1> QED
    BY <1>2, <1>3, <1>4, <1>5 DEF Next

\* What comes out of a Serializer is what went in, in that order, and a file
\* gives back what was saved: whatever the values, the growth of the buffer and
\* the sizes of the integers.
THEOREM ImplementsItemQueue == Spec => RefinesItemQueue
  <1>1. Init => Q!Init
    BY DEF Init, Q!Init
  <1> QED
    BY <1>1, StepQueue, SpecIInv, PTL DEF Spec, RefinesItemQueue, Q!Spec

-----------------------------------------------------------------------------
(* Socket.                                                                 *)

\* need_connect, which decides between the TCP and the UDP branches of
\* SocketSerialized, is right about the descriptor, and sock_cfg has the domain
\* disconnect() will ask for: after any moves, accepts and disconnects, unless a
\* Socket was copied.
KindAgrees ==
    ~copied => \A o \in Objects : Holds(o) => table[sock[o]].type = kind[o] /\ cfg[o] = "known"

\* What disconnect() has to remember between its two halves.
Reopening ==
    ~copied => \A o \in Objects : at[o] = "reopening" => type[o] = kind[o] /\ cfg[o] = "known"

SocketIInv == SocketTypeOK /\ OwnDescriptor /\ KindAgrees /\ Reopening

LEMMA SocketInitIInv == SocketInit => SocketIInv
<1> SUFFICES ASSUME SocketInit PROVE SocketIInv
  OBVIOUS
<1>1. SocketTypeOK
  BY DEF SocketInit, SocketTypeOK, Kinds
<1>2. \A o \in Objects : ~Holds(o) /\ at[o] # "reopening"
  BY DEF SocketInit, Holds
<1>3. QED
  BY <1>1, <1>2 DEF SocketIInv, OwnDescriptor, KindAgrees, Reopening

LEMMA ClosedIsNoFile ==
    \A k \in Kinds, s \in States : File(k, s) # Closed /\ File(k, s) \in [type : Kinds, state : States]
BY DEF Kinds, States, File, Closed

LEMMA SocketStepIInv == SocketIInv /\ [SocketNext]_socketVars => SocketIInv'
<1> SUFFICES ASSUME SocketIInv, [SocketNext]_socketVars PROVE SocketIInv'
  OBVIOUS
<1> USE DescriptorsAssumption
<1>1. ASSUME NEW o \in Objects, NEW k \in Kinds, Construct(o, k) PROVE SocketIInv'
  BY <1>1, ClosedIsNoFile DEF SocketIInv, SocketTypeOK, Kinds, Closed, States, OwnDescriptor, KindAgrees, Reopening, Holds, Construct, Free, File
<1>2. ASSUME NEW o \in Objects, Destroy(o) PROVE SocketIInv'
  BY <1>2 DEF SocketIInv, SocketTypeOK, Kinds, Closed, States, OwnDescriptor, KindAgrees, Reopening, Holds, Destroy, Close
<1>3. ASSUME NEW o \in Objects, NEW s \in States, Becomes(o, s), InState(o, States) PROVE SocketIInv'
  BY <1>3 DEF SocketIInv, SocketTypeOK, Kinds, Closed, States, OwnDescriptor, KindAgrees, Reopening, Holds, InState, Becomes, File
<1>4. ASSUME NEW o \in Objects, DisconnectCloses(o) PROVE SocketIInv'
  BY <1>4 DEF SocketIInv, SocketTypeOK, Kinds, Closed, States, OwnDescriptor, KindAgrees, Reopening, Holds, InState, DisconnectCloses, Close
<1>5. ASSUME NEW o \in Objects, DisconnectOpens(o) PROVE SocketIInv'
  BY <1>5, ClosedIsNoFile DEF SocketIInv, SocketTypeOK, Kinds, Closed, States, OwnDescriptor, KindAgrees, Reopening, Holds, DisconnectOpens, Free, File
<1>6. ASSUME NEW o \in Objects, DisconnectThrows(o) PROVE SocketIInv'
  BY <1>6 DEF SocketIInv, SocketTypeOK, Kinds, Closed, States, OwnDescriptor, KindAgrees, Reopening, Holds, DisconnectThrows
<1>7. ASSUME NEW o \in Objects, NEW c \in Objects, Move(c, o) PROVE SocketIInv'
  BY <1>7 DEF SocketIInv, SocketTypeOK, Kinds, Closed, States, OwnDescriptor, KindAgrees, Reopening, Holds, Move
<1>7a. ASSUME NEW o \in Objects, NEW c \in Objects, Copy(c, o) PROVE SocketIInv'
  BY <1>7a DEF SocketIInv, SocketTypeOK, Kinds, Closed, States, OwnDescriptor, KindAgrees, Reopening, Holds, Copy
<1>8. ASSUME NEW o \in Objects, NEW c \in Objects, AcceptNew(o, c) PROVE SocketIInv'
  BY <1>8, ClosedIsNoFile DEF SocketIInv, SocketTypeOK, Kinds, Closed, States, OwnDescriptor, KindAgrees, Reopening, Holds, AcceptNew, Accepted, Free, InState, File
<1>9. ASSUME NEW o \in Objects, NEW c \in Objects, Accept(o, c) PROVE SocketIInv'
  BY <1>9, ClosedIsNoFile DEF SocketIInv, SocketTypeOK, Kinds, Closed, States, OwnDescriptor, KindAgrees, Reopening, Holds, Accept, Accepted, Free, InState, File
<1>10. ASSUME NEW o \in Objects, NEW c \in Objects, AcceptThrows(o, c) PROVE SocketIInv'
  BY <1>10 DEF SocketIInv, SocketTypeOK, Kinds, Closed, States, OwnDescriptor, KindAgrees, Reopening, Holds, AcceptThrows
<1>11. CASE UNCHANGED socketVars
  BY <1>11 DEF SocketIInv, SocketTypeOK, Kinds, Closed, States, OwnDescriptor, KindAgrees, Reopening, Holds, socketVars
<1>12. ASSUME NEW o \in Objects, Connect(o) \/ Bind(o) \/ Listen(o) \/ ServerMode(o) \/ Shutdown(o)
       PROVE SocketIInv'
  BY <1>3, <1>12 DEF Connect, Bind, Listen, ServerMode, Shutdown, InState, States
<1>13. QED
  BY <1>1, <1>2, <1>4, <1>5, <1>6, <1>7, <1>7a, <1>8, <1>9, <1>10, <1>11, <1>12 DEF SocketNext, Disconnect

LEMMA SocketSpecIInv == SocketSpec => []SocketIInv
BY SocketInitIInv, SocketStepIInv, PTL DEF SocketSpec

\* The variables of every object have their types: a number is one of the
\* process or INVALID_SOCKET, and what is open has a type and a state.
THEOREM SocketTypeCorrect == SocketSpec => []SocketTypeOK
BY SocketSpecIInv, PTL DEF SocketIInv

\* close() in a destructor or in disconnect() never closes a descriptor that is
\* another object's, whatever threads were given in between, as long as the
\* program copies no Socket.
THEOREM Ownership == SocketSpec => []OwnDescriptor
BY SocketSpecIInv, PTL DEF SocketIInv

\* The branch SocketSerialized takes, and the domain disconnect() asks for, fit
\* the descriptor the object has.
THEOREM KindAgreement == SocketSpec => []KindAgrees
BY SocketSpecIInv, PTL DEF SocketIInv

-----------------------------------------------------------------------------
\* Accept and AcceptThrows: c lets go of what it had.
LetsGo(c) ==
    /\ ~copied
    /\ lost' = IF sock[c] # Invalid THEN lost + 1 ELSE lost
    /\ Orphans' = IF sock[c] # Invalid THEN Orphans \cup {sock[c]} ELSE Orphans

LEMMA OrphansCounted ==
    ASSUME SocketIInv, LeaksCounted, NEW c \in Objects, at[c] = "live", LetsGo(c)
    PROVE  LeaksCounted'
<1>1. IsFiniteSet(Orphans)
  BY DescriptorsAssumption, FS_Subset DEF Orphans
<1>2. CASE sock[c] = Invalid
  BY <1>2 DEF LeaksCounted, LetsGo
<1>3. CASE sock[c] # Invalid
  <2>1. sock[c] \notin Orphans
    BY <1>3 DEF Orphans, Holds
  <2>2. Cardinality(Orphans \cup {sock[c]}) = Cardinality(Orphans) + 1
    BY <1>1, <2>1, FS_AddElement
  <2>3. QED
    BY <1>3, <2>2 DEF LeaksCounted, LetsGo
<1>4. QED
  BY <1>2, <1>3

LEMMA StepOrphans ==
    ASSUME SocketIInv, [SocketNext]_socketVars
    PROVE  \/ copied'
           \/ Orphans' = Orphans /\ lost' = lost /\ copied' = copied
           \/ \E c \in Objects : at[c] = "live" /\ LetsGo(c)
<1> SUFFICES ASSUME ~copied'
             PROVE  \/ Orphans' = Orphans /\ lost' = lost /\ copied' = copied
                    \/ \E c \in Objects : at[c] = "live" /\ LetsGo(c)
  OBVIOUS
<1> DEFINE Same == Orphans' = Orphans /\ lost' = lost /\ copied' = copied
<1> USE DescriptorsAssumption
<1>1. ASSUME NEW o \in Objects, NEW k \in Kinds, Construct(o, k) PROVE Same
  BY <1>1 DEF SocketIInv, SocketTypeOK, Orphans, OwnDescriptor, Holds, Construct, Free, File, Kinds, Closed
<1>2. ASSUME NEW o \in Objects, Destroy(o) PROVE Same
  BY <1>2 DEF SocketIInv, SocketTypeOK, Orphans, OwnDescriptor, Holds, Destroy, Close
<1>3. ASSUME NEW o \in Objects, NEW s \in States, Becomes(o, s), InState(o, States) PROVE Same
  BY <1>3 DEF SocketIInv, SocketTypeOK, Orphans, OwnDescriptor, Holds, InState, Becomes, File, Closed, States
<1>4. ASSUME NEW o \in Objects, DisconnectCloses(o) PROVE Same
  BY <1>4 DEF SocketIInv, SocketTypeOK, Orphans, OwnDescriptor, Holds, InState, DisconnectCloses, Close
<1>5. ASSUME NEW o \in Objects, DisconnectOpens(o) PROVE Same
  BY <1>5 DEF SocketIInv, SocketTypeOK, Orphans, OwnDescriptor, Holds, DisconnectOpens, Free, File, Kinds, Closed
<1>6. ASSUME NEW o \in Objects, DisconnectThrows(o) PROVE Same
  BY <1>6 DEF SocketIInv, SocketTypeOK, Orphans, Holds, DisconnectThrows
<1>7. ASSUME NEW o \in Objects, NEW c \in Objects, Move(c, o) PROVE Same
  BY <1>7 DEF SocketIInv, SocketTypeOK, Orphans, Holds, Move
<1>7a. ASSUME NEW o \in Objects, NEW c \in Objects, Copy(c, o) PROVE Same
  BY <1>7a DEF Copy
<1>8. ASSUME NEW o \in Objects, NEW c \in Objects, AcceptNew(o, c) PROVE Same
  BY <1>8 DEF SocketIInv, SocketTypeOK, Orphans, OwnDescriptor, Holds, AcceptNew, Accepted, Free, File, Closed
<1>9. ASSUME NEW o \in Objects, NEW c \in Objects, Accept(o, c) PROVE at[c] = "live" /\ LetsGo(c)
  BY <1>9 DEF SocketIInv, SocketTypeOK, LetsGo, Orphans, OwnDescriptor, Holds, Accept, Accepted, Free, File, Closed
<1>10. ASSUME NEW o \in Objects, NEW c \in Objects, AcceptThrows(o, c) PROVE at[c] = "live" /\ LetsGo(c)
  BY <1>10 DEF SocketIInv, SocketTypeOK, LetsGo, Orphans, OwnDescriptor, Holds, AcceptThrows
<1>11. CASE UNCHANGED socketVars
  BY <1>11 DEF Orphans, Holds, socketVars
<1>12. ASSUME NEW o \in Objects, Connect(o) \/ Bind(o) \/ Listen(o) \/ ServerMode(o) \/ Shutdown(o)
       PROVE Same
  BY <1>3, <1>12 DEF Connect, Bind, Listen, ServerMode, Shutdown, InState, States
<1>13. QED
  BY <1>1, <1>2, <1>4, <1>5, <1>6, <1>7, <1>7a, <1>8, <1>9, <1>10, <1>11, <1>12 DEF SocketNext, Disconnect

\* Leaks come from accept(client) alone, one each, where no Socket is copied.
THEOREM Leaks == SocketSpec => []LeaksCounted
<1>1. SocketInit => LeaksCounted
  <2>1. SocketInit => Orphans = {}
    BY DEF SocketInit, Orphans
  <2>2. QED
    BY <2>1, FS_EmptySet DEF SocketInit, LeaksCounted
<1>2. SocketIInv /\ LeaksCounted /\ [SocketNext]_socketVars => LeaksCounted'
  BY StepOrphans, OrphansCounted DEF LeaksCounted
<1>3. QED
  BY <1>1, <1>2, SocketSpecIInv, PTL DEF SocketSpec
=============================================================================
