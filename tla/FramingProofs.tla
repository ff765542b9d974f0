---------------------------- MODULE FramingProofs ----------------------------
(***************************************************************************)
(* Proofs about Framing for any bodies, width of the size, capacity and    *)
(* loss, where a header is only cut by the loss of the connection.         *)
(***************************************************************************)
EXTENDS Framing, Integers, SequenceTheorems, WellFoundedInduction, TLAPS

-----------------------------------------------------------------------------
(* Induction, and functions defined by recursion.                          *)

LEMMA SetInduction ==
    ASSUME NEW S \in SUBSET Nat, 0 \in S, \A n \in S : n + 1 \in S
    PROVE  S = Nat
  <1> DEFINE R == OpToRel(<, Nat)
             T == Nat \ S
  <1>1. SUFFICES ASSUME T # {} PROVE FALSE
    OBVIOUS
  <1>2. IsWellFoundedOn(R, Nat)
    BY NatLessThanWellFounded
  <1>3. \A a, b \in Nat : a < b => <<a, b>> \in R
    BY DEF OpToRel
  <1> HIDE DEF R
  <1>4. PICK x \in T : \A y \in T : <<y, x>> \notin R
    <2>1. T \subseteq Nat
      OBVIOUS
    <2> HIDE DEF T
    <2> QED
      BY <1>1, <1>2, <2>1, WFMin
  <1>5. x \in Nat /\ x # 0
    BY <1>4
  <1>6. x - 1 \in Nat /\ x - 1 < x /\ (x - 1) + 1 = x
    BY <1>5
  <1>7. x - 1 \in S
    BY <1>3, <1>4, <1>5, <1>6
  <1> QED
    BY <1>4, <1>6, <1>7

\* h begins with b and goes on by F, up to n.
Follows(h, n, S, b, F) ==
    /\ h \in [0..n -> S]
    /\ h[0] = b
    /\ \A i \in 0..(n - 1) : h[i + 1] = F[<<i, h[i]>>]

LEMMA Beginnings ==
    ASSUME NEW S, NEW b \in S, NEW F \in [Nat \X S -> S], NEW n \in Nat
    PROVE  \E h : Follows(h, n, S, b, F)
  <1> DEFINE T == {i \in Nat : \E h : Follows(h, i, S, b, F)}
  <1>1. 0 \in T
    <2>1. Follows([i \in 0..0 |-> b], 0, S, b, F)
      BY DEF Follows
    <2> QED
      BY <2>1
  <1>2. ASSUME NEW i \in T PROVE i + 1 \in T
    <2>1. PICK h : Follows(h, i, S, b, F)
      OBVIOUS
    <2> DEFINE g == [j \in 0..(i + 1) |-> IF j <= i THEN h[j] ELSE F[<<i, h[i]>>]]
    <2>2. i \in Nat /\ h \in [0..i -> S] /\ h[0] = b /\ \A j \in 0..(i - 1) : h[j + 1] = F[<<j, h[j]>>]
      BY <2>1 DEF Follows
    <2>3. i \in 0..i /\ F[<<i, h[i]>>] \in S
      BY <2>2
    <2>4. g \in [0..(i + 1) -> S]
      BY <2>2, <2>3
    <2>5. g[0] = b
      BY <2>2
    <2>6. ASSUME NEW j \in 0..((i + 1) - 1) PROVE g[j + 1] = F[<<j, g[j]>>]
      <3>1. j \in 0..i /\ j \in 0..(i + 1) /\ j + 1 \in 0..(i + 1)
        BY <2>2
      <3>2. g[j] = h[j]
        BY <3>1
      <3>3. CASE j = i
        BY <2>2, <3>1, <3>2, <3>3
      <3>4. CASE j # i
        <4>1. j \in 0..(i - 1) /\ j + 1 <= i
          BY <2>2, <3>1, <3>4
        <4> QED
          BY <2>2, <3>1, <3>2, <4>1
      <3> QED
        BY <3>3, <3>4
    <2> HIDE DEF g
    <2>7. Follows(g, i + 1, S, b, F)
      BY <2>4, <2>5, <2>6 DEF Follows
    <2> QED
      BY <2>2, <2>7
  <1>3. T = Nat
    <2>1. T \subseteq Nat
      OBVIOUS
    <2> HIDE DEF T
    <2> QED
      BY <1>1, <1>2, <2>1, SetInduction
  <1> QED
    BY <1>3

\* g begins with b and goes on by F for ever.
Goes(g, S, b, F) ==
    /\ g \in [Nat -> S]
    /\ g[0] = b
    /\ \A n \in Nat : g[n + 1] = F[<<n, g[n]>>]

LEMMA Recursion ==
    ASSUME NEW S, NEW b \in S, NEW F \in [Nat \X S -> S]
    PROVE  \E g : Goes(g, S, b, F)
  <1> DEFINE h == [n \in Nat |-> CHOOSE x : Follows(x, n, S, b, F)]
             g == [n \in Nat |-> h[n][n]]
  <1>1. \A n \in Nat : Follows(h[n], n, S, b, F)
    BY Beginnings
  <1> HIDE DEF h
  <1>2. g \in [Nat -> S]
    <2>1. \A n \in Nat : h[n][n] \in S
      BY <1>1 DEF Follows
    <2> QED
      BY <2>1
  <1>3. g[0] = b
    BY <1>1 DEF Follows
  <1>4. ASSUME NEW n \in Nat PROVE g[n + 1] = F[<<n, g[n]>>]
    <2>1. n + 1 \in Nat /\ n <= n + 1 /\ n <= n /\ n \in 0..((n + 1) - 1)
      OBVIOUS
    <2>2. Follows(h[n], n, S, b, F) /\ Follows(h[n + 1], n + 1, S, b, F)
      BY <1>1, <2>1
    <2> DEFINE x == h[n]
               y == h[n + 1]
               T == {j \in Nat : j <= n => y[j] = x[j]}
    <2>3. y[n] = x[n]
      <3>1. 0 \in T
        BY <2>2 DEF Follows
      <3>2. ASSUME NEW j \in T PROVE j + 1 \in T
        <4> SUFFICES ASSUME j + 1 <= n PROVE y[j + 1] = x[j + 1]
          OBVIOUS
        <4>1. j \in 0..(n - 1) /\ j \in 0..((n + 1) - 1) /\ y[j] = x[j]
          OBVIOUS
        <4>2. x[j + 1] = F[<<j, x[j]>>] /\ y[j + 1] = F[<<j, y[j]>>]
          BY <2>2, <4>1 DEF Follows
        <4> QED
          BY <4>1, <4>2
      <3>3. T = Nat
        <4>1. T \subseteq Nat
          OBVIOUS
        <4> HIDE DEF T
        <4> QED
          BY <3>1, <3>2, <4>1, SetInduction
      <3> QED
        BY <3>3
    <2>4. h[n + 1][n + 1] = F[<<n, h[n + 1][n]>>]
      BY <2>1, <2>2 DEF Follows
    <2> QED
      BY <2>1, <2>3, <2>4
  <1> HIDE DEF g
  <1> QED
    BY <1>2, <1>3, <1>4 DEF Goes

-----------------------------------------------------------------------------
(* The size in the header.                                                 *)

Powers(P) ==
    /\ P[0] = 1
    /\ \A i \in Nat : P[i] \in Nat \ {0} /\ P[i + 1] = Base * P[i]

LEMMA PowerFacts == Powers(Power)
  <1> DEFINE F == [x \in Nat \X Nat |-> Base * x[2]]
             E(f) == f = [i \in Nat |-> IF i = 0 THEN 1 ELSE Base * f[i - 1]]
  <1>0. Base \in Nat \ {0, 1}
    BY ByteAssumption
  <1>1. F \in [Nat \X Nat -> Nat]
    BY <1>0
  <1>2. PICK g : Goes(g, Nat, 1, F)
    <2>1. 1 \in Nat
      OBVIOUS
    <2> HIDE DEF F
    <2> QED
      BY <1>1, <2>1, Recursion
  <1>3. g \in [Nat -> Nat] /\ g[0] = 1 /\ \A n \in Nat : g[n + 1] = Base * g[n]
    BY <1>2 DEF Goes
  <1>4. \A i \in Nat : g[i] = IF i = 0 THEN 1 ELSE Base * g[i - 1]
    <2> TAKE i \in Nat
    <2>1. CASE i = 0
      BY <1>3, <2>1
    <2>2. CASE i # 0
      <3>1. i - 1 \in Nat /\ (i - 1) + 1 = i
        BY <2>2
      <3> QED
        BY <1>3, <2>2, <3>1
    <2> QED
      BY <2>1, <2>2
  <1>5. E(g)
    BY <1>3, <1>4
  <1>6. E(Power)
    <2>1. Power = CHOOSE f : E(f)
      BY DEF Power
    <2> HIDE DEF E
    <2> QED
      BY <1>5, <2>1
  <1>7. Power[0] = 1 /\ \A i \in Nat : Power[i + 1] = Base * Power[i]
    <2>1. \A i \in Nat : Power[i] = IF i = 0 THEN 1 ELSE Base * Power[i - 1]
      BY <1>6
    <2>2. \A i \in Nat : i + 1 \in Nat /\ i + 1 # 0 /\ (i + 1) - 1 = i
      OBVIOUS
    <2>3. Power[0] = 1
      BY <2>1
    <2>4. ASSUME NEW i \in Nat PROVE Power[i + 1] = Base * Power[i]
      BY <2>1, <2>2
    <2> QED
      BY <2>3, <2>4
  <1> DEFINE T == {i \in Nat : Power[i] \in Nat \ {0}}
  <1>8. 0 \in T
    BY <1>7
  <1>9. ASSUME NEW i \in T PROVE i + 1 \in T
    BY <1>0, <1>7
  <1>10. T = Nat
    <2>1. T \subseteq Nat
      OBVIOUS
    <2> HIDE DEF T
    <2> QED
      BY <1>8, <1>9, <2>1, SetInduction
  <1>11. \A i \in Nat : Power[i] \in Nat \ {0}
    BY <1>10
  <1> QED
    BY <1>7, <1>11 DEF Powers
\* The byte b of memory, junk where nothing was written.
Value(b, junk) == IF b = Junk THEN junk ELSE b

\* f holds the numbers the first bytes of bs stand for.
Reads(f, bs, junk) ==
    /\ f \in [0..Len(bs) -> Nat]
    /\ f[0] = 0
    /\ \A i \in 1..Len(bs) : f[i] = Base * f[i - 1] + Value(bs[i], junk)
    /\ f[Len(bs)] = Number(bs, junk)

LEMMA Reading ==
    ASSUME NEW bs \in Seq(Bytes \cup {Junk}), NEW junk \in Bytes
    PROVE  \E f : Reads(f, bs, junk)
  <1> DEFINE n == Len(bs)
             F == [x \in Nat \X Nat |->
                     Base * x[2] + (IF x[1] + 1 \in 1..n THEN Value(bs[x[1] + 1], junk) ELSE 0)]
             E(f) == f = [i \in 0..n |->
                            IF i = 0 THEN 0
                            ELSE Base * f[i - 1] + (IF bs[i] = Junk THEN junk ELSE bs[i])]
  <1>0. Base \in Nat /\ Bytes \subseteq Nat /\ n \in Nat
    BY ByteAssumption DEF Bytes
  <1>1. \A i \in 1..n : Value(bs[i], junk) \in Bytes
    BY DEF Value
  <1>2. F \in [Nat \X Nat -> Nat]
    <2>1. \A m, v \in Nat : Base * m + v \in Nat
      BY <1>0
    <2>2. \A x \in Nat \X Nat : x[2] \in Nat
      OBVIOUS
    <2>3. \A x \in Nat \X Nat :
             (IF x[1] + 1 \in 1..n THEN Value(bs[x[1] + 1], junk) ELSE 0) \in Nat
      BY <1>0, <1>1
    <2> QED
      BY <2>1, <2>2, <2>3
  <1>3. PICK g : Goes(g, Nat, 0, F)
    <2>1. 0 \in Nat
      OBVIOUS
    <2> HIDE DEF F
    <2> QED
      BY <1>2, <2>1, Recursion
  <1>4. g \in [Nat -> Nat] /\ g[0] = 0 /\ \A i \in Nat : g[i + 1] = F[<<i, g[i]>>]
    BY <1>3 DEF Goes
  <1> DEFINE h == [i \in 0..n |-> g[i]]
  <1>5. h \in [0..n -> Nat] /\ h[0] = 0
    BY <1>0, <1>4
  <1>6. ASSUME NEW i \in 1..n PROVE h[i] = Base * h[i - 1] + Value(bs[i], junk)
    <2>1. i - 1 \in Nat /\ (i - 1) + 1 = i /\ i \in 0..n /\ i - 1 \in 0..n
      BY <1>0
    <2>2. g[i] = F[<<i - 1, g[i - 1]>>]
      BY <1>4, <2>1
    <2>3. F[<<i - 1, g[i - 1]>>] = Base * g[i - 1] + Value(bs[i], junk)
      BY <1>4, <2>1
    <2> QED
      BY <2>1, <2>2, <2>3
  <1>7. E(h)
    <2>1. \A i \in 0..n : i # 0 => i \in 1..n
      BY <1>0
    <2> HIDE DEF h
    <2>2. \A i \in 0..n : h[i] = IF i = 0 THEN 0
                                 ELSE Base * h[i - 1] + (IF bs[i] = Junk THEN junk ELSE bs[i])
      BY <1>5, <1>6, <2>1 DEF Value
    <2> QED
      BY <1>5, <2>2
  <1> DEFINE first == CHOOSE f : E(f)
  <1>8. E(first)
    <2> HIDE DEF E, h
    <2> QED
      BY <1>7
  <1>9. Number(bs, junk) = first[n]
    BY DEF Number
  <1> HIDE DEF first
  <1>10. first = [i \in 0..n |-> first[i]] /\ 0 \in 0..n /\ n \in 0..n
    BY <1>0, <1>8
  <1>11. first[0] = 0 /\ \A i \in 1..n : first[i] = Base * first[i - 1] + Value(bs[i], junk)
    BY <1>0, <1>8 DEF Value
  <1> DEFINE T == {i \in Nat : i <= n => first[i] \in Nat}
  <1>12. 0 \in T
    BY <1>11
  <1>13. ASSUME NEW i \in T PROVE i + 1 \in T
    <2> SUFFICES ASSUME i + 1 <= n PROVE first[i + 1] \in Nat
      OBVIOUS
    <2>1. i + 1 \in 1..n /\ (i + 1) - 1 = i /\ first[i] \in Nat
      BY <1>0
    <2>2. first[i + 1] = Base * first[i] + Value(bs[i + 1], junk)
      BY <1>11, <2>1
    <2>3. \A m, v \in Nat : Base * m + v \in Nat
      BY <1>0
    <2>4. Value(bs[i + 1], junk) \in Nat
      BY <1>0, <1>1, <2>1
    <2> QED
      BY <2>1, <2>2, <2>3, <2>4
  <1>14. T = Nat
    <2>1. T \subseteq Nat
      OBVIOUS
    <2> HIDE DEF T
    <2> QED
      BY <1>12, <1>13, <2>1, SetInduction
  <1>15. \A i \in 0..n : first[i] \in Nat
    BY <1>0, <1>14
  <1>16. first \in [0..n -> Nat]
    BY <1>10, <1>15
  <1> QED
    BY <1>9, <1>11, <1>16 DEF Reads

\* Value is a byte.
LEMMA ValueIsByte ==
    ASSUME NEW bs \in Seq(Bytes \cup {Junk}), NEW junk \in Bytes, NEW i \in 1..Len(bs)
    PROVE  Value(bs[i], junk) \in Bytes
  BY DEF Value

\* A number of so many bytes has no more digits.
LEMMA NumberBelow ==
    ASSUME NEW bs \in Seq(Bytes \cup {Junk}), NEW junk \in Bytes
    PROVE  Number(bs, junk) \in Nat /\ Number(bs, junk) < Power[Len(bs)]
  <1> DEFINE n == Len(bs)
  <1>0. Base \in Nat \ {0, 1} /\ Bytes = 0..(Base - 1) /\ n \in Nat
    BY ByteAssumption DEF Bytes
  <1>1. PICK f : Reads(f, bs, junk)
    BY Reading
  <1>2. /\ f \in [0..n -> Nat] /\ f[0] = 0 /\ f[n] = Number(bs, junk)
        /\ \A i \in 1..n : f[i] = Base * f[i - 1] + Value(bs[i], junk)
    BY <1>1 DEF Reads
  <1>3. Power[0] = 1 /\ \A i \in Nat : Power[i] \in Nat /\ Power[i + 1] = Base * Power[i]
    BY PowerFacts DEF Powers
  <1> DEFINE T == {i \in Nat : i <= n => f[i] < Power[i]}
  <1>4. 0 \in T
    BY <1>2, <1>3
  <1>5. ASSUME NEW i \in T PROVE i + 1 \in T
    <2> SUFFICES ASSUME i + 1 <= n PROVE f[i + 1] < Power[i + 1]
      OBVIOUS
    <2>1. i + 1 \in 1..n /\ (i + 1) - 1 = i /\ i \in 0..n /\ f[i] \in Nat /\ f[i] < Power[i]
      BY <1>0, <1>2
    <2>2. Value(bs[i + 1], junk) \in 0..(Base - 1)
      BY <1>0, <2>1, ValueIsByte
    <2>3. \A p, q \in Nat, v \in 0..(Base - 1) : q < p => Base * q + v < Base * p
      <3> TAKE p, q \in Nat, v \in 0..(Base - 1)
      <3> HAVE q < p
      <3>1. Base * q + Base = Base * (q + 1)
        BY <1>0
      <3>2. Base * (q + 1) <= Base * p
        BY <1>0
      <3>3. Base * q \in Nat /\ Base * p \in Nat
        BY <1>0
      <3> QED
        BY <1>0, <3>1, <3>2, <3>3
    <2>4. f[i + 1] = Base * f[i] + Value(bs[i + 1], junk)
      BY <1>2, <2>1
    <2>5. Base * f[i] + Value(bs[i + 1], junk) < Base * Power[i]
      <3> DEFINE q == f[i]
                 p == Power[i]
                 v == Value(bs[i + 1], junk)
      <3>1. p \in Nat /\ q \in Nat /\ v \in 0..(Base - 1) /\ q < p
        BY <1>3, <2>1, <2>2
      <3> HIDE DEF p, q, v
      <3>2. Base * q + v < Base * p
        BY <2>3, <3>1
      <3> QED
        BY <3>2 DEF p, q, v
    <2> QED
      BY <1>3, <2>4, <2>5
  <1>6. T = Nat
    <2>1. T \subseteq Nat
      OBVIOUS
    <2> HIDE DEF T
    <2> QED
      BY <1>4, <1>5, <2>1, SetInduction
  <1> QED
    BY <1>0, <1>2, <1>6

\* The number of one byte is the byte.
LEMMA NumberOfOne ==
    ASSUME NEW b \in Bytes \cup {Junk}, NEW junk \in Bytes
    PROVE  Number(<<b>>, junk) = Value(b, junk)
  <1> DEFINE bs == <<b>>
  <1>1. bs \in Seq(Bytes \cup {Junk}) /\ Len(bs) = 1 /\ bs[1] = b
    OBVIOUS
  <1> HIDE DEF bs
  <1>2. PICK f : Reads(f, bs, junk)
    BY <1>1, Reading
  <1>3. f[1] = Number(bs, junk) /\ f[1] = Base * f[0] + Value(b, junk) /\ f[0] = 0
    BY <1>1, <1>2 DEF Reads
  <1>4. Value(b, junk) \in Nat /\ Base \in Nat
    BY ByteAssumption DEF Value, Bytes
  <1> QED
    BY <1>3, <1>4 DEF bs

\* What is written as a size is read back.
LEMMA SizeFieldIsBytes ==
    ASSUME NEW n \in Nat
    PROVE  SizeField(n) \in Seq(Bytes) /\ Len(SizeField(n)) = SizeBytes
  <1>1. SizeBytes \in Nat /\ Base \in Nat \ {0, 1} /\ Bytes = 0..(Base - 1)
    BY ByteAssumption DEF Bytes
  <1>2. \A i \in 1..SizeBytes : Power[SizeBytes - i] \in Nat \ {0}
    BY <1>1, PowerFacts DEF Powers
  <1>3. \A p \in Nat \ {0} : n \div p \in Nat
    OBVIOUS
  <1>4. \A m \in Nat : (m % Base) \in Bytes
    BY <1>1
  <1>5. \A i \in 1..SizeBytes : ((n \div Power[SizeBytes - i]) % Base) \in Bytes
    BY <1>2, <1>3, <1>4
  <1> QED
    BY <1>1, <1>5 DEF SizeField

LEMMA SizeRead ==
    ASSUME NEW v \in Nat, v < Power[SizeBytes], NEW junk \in Bytes
    PROVE  Number(SizeField(v), junk) = v
  <1> DEFINE S == SizeBytes
             bs == SizeField(v)
  <1>0. Base \in Nat \ {0, 1} /\ Bytes = 0..(Base - 1) /\ S \in Nat \ {0} /\ Junk \notin Bytes
    BY ByteAssumption DEF Bytes
  <1>1. bs \in Seq(Bytes) /\ Len(bs) = S /\ bs \in Seq(Bytes \cup {Junk})
    BY SizeFieldIsBytes
  <1>2. \A i \in 1..S : bs[i] = ((v \div Power[S - i]) % Base)
    BY DEF SizeField
  <1> HIDE DEF bs
  <1>3. PICK f : Reads(f, bs, junk)
    BY <1>1, Reading
  <1>4. /\ f \in [0..S -> Nat] /\ f[0] = 0 /\ f[S] = Number(bs, junk)
        /\ \A i \in 1..S : f[i] = Base * f[i - 1] + bs[i]
    <2>1. \A i \in 1..S : Value(bs[i], junk) = bs[i]
      <3> TAKE i \in 1..S
      <3>1. bs[i] \in Bytes
        BY <1>1
      <3> QED
        BY <1>0, <3>1 DEF Value
    <2> QED
      BY <1>0, <1>1, <1>3, <2>1 DEF Reads
  <1>5. Power[0] = 1 /\ \A i \in Nat : Power[i] \in Nat \ {0} /\ Power[i + 1] = Base * Power[i]
    BY PowerFacts DEF Powers
  <1> DEFINE T == {i \in Nat : i <= S => f[i] = v \div Power[S - i]}
  <1>6. 0 \in T
    <2>1. \A q \in Nat \ {0} : v < q => v \div q = 0
      OBVIOUS
    <2>2. S - 0 = S /\ Power[S] \in Nat \ {0}
      BY <1>0, <1>5
    <2>3. v \div Power[S - 0] = 0
      BY <2>1, <2>2
    <2> QED
      BY <1>4, <2>3
  <1>7. ASSUME NEW i \in T PROVE i + 1 \in T
    <2> SUFFICES ASSUME i + 1 <= S PROVE f[i + 1] = v \div Power[S - (i + 1)]
      OBVIOUS
    <2> DEFINE p == Power[S - (i + 1)]
               m == v \div p
    <2>1. i + 1 \in 1..S /\ (i + 1) - 1 = i /\ S - (i + 1) \in Nat /\ (S - (i + 1)) + 1 = S - i
      BY <1>0
    <2>2. p \in Nat \ {0} /\ Power[S - i] = Base * p
      BY <1>5, <2>1
    <2>3. f[i] = v \div (Base * p)
      <3>1. f[i] = v \div Power[S - i]
        BY <1>0
      <3> QED
        BY <2>2, <3>1
    <2>4. f[i + 1] = Base * f[i] + (m % Base)
      BY <1>2, <1>4, <2>1
    <2> HIDE DEF p
    <2>5. v \div (Base * p) = m \div Base
      BY <1>0, <2>2, SMTT(30)
    <2>6. m \in Nat
      BY <2>2
    <2> HIDE DEF m
    <2>7. m = Base * (m \div Base) + (m % Base)
      BY <1>0, <2>6
    <2> QED
      BY <2>3, <2>4, <2>5, <2>7 DEF m, p
  <1>8. T = Nat
    <2>1. T \subseteq Nat
      OBVIOUS
    <2> HIDE DEF T
    <2> QED
      BY <1>6, <1>7, <2>1, SetInduction
  <1>9. f[S] = v \div Power[0]
    BY <1>0, <1>8
  <1> QED
    BY <1>4, <1>5, <1>9 DEF bs

-----------------------------------------------------------------------------
(* Sequences of bytes.                                                     *)

\* w is a beginning of s.
Begins(w, s) == Len(w) <= Len(s) /\ \A i \in 1..Len(w) : w[i] = s[i]

LEMMA Shortened ==
    ASSUME NEW S, NEW w \in Seq(S), NEW s \in Seq(S), Begins(w, s), NEW n \in 0..Len(w)
    PROVE  SubSeq(w, 1, n) \in Seq(S) /\ Begins(SubSeq(w, 1, n), s)
  <1> DEFINE x == SubSeq(w, 1, n)
  <1>1. x \in Seq(S) /\ Len(x) = n /\ \A i \in 1..n : x[i] = w[i]
    OBVIOUS
  <1> HIDE DEF x
  <1>2. Begins(x, s)
    BY <1>1 DEF Begins
  <1> QED
    BY <1>1, <1>2 DEF x

\* What is behind the first bytes of w.
Behind(w, k) == SubSeq(w, k + 1, Len(w))

LEMMA BehindFacts ==
    ASSUME NEW S, NEW w \in Seq(S), NEW k \in 0..Len(w)
    PROVE  /\ Behind(w, k) \in Seq(S)
           /\ Len(Behind(w, k)) = Len(w) - k
           /\ \A i \in 1..(Len(w) - k) : Behind(w, k)[i] = w[k + i]
  BY DEF Behind

\* w has a in front; behind it b begins, whole if w is a \o b.
Drops(w, a, b) ==
    /\ \A i \in 1..Len(a) : w[i] = a[i]
    /\ Behind(w, Len(a)) \in Seq(Bytes)
    /\ Begins(Behind(w, Len(a)), b)
    /\ w = a \o b => Behind(w, Len(a)) = b

LEMMA Dropped ==
    ASSUME NEW w \in Seq(Bytes), NEW a \in Seq(Bytes), NEW b \in Seq(Bytes),
           Begins(w, a \o b), Len(a) <= Len(w)
    PROVE  Drops(w, a, b)
  <1> DEFINE s == a \o b
             k == Len(a)
  <1>1. /\ s \in Seq(Bytes) /\ Len(s) = k + Len(b) /\ k \in Nat /\ Len(b) \in Nat
        /\ \A i \in 1..k : s[i] = a[i]
        /\ \A i \in 1..Len(b) : s[k + i] = b[i]
    OBVIOUS
  <1>2. Begins(w, s)
    OBVIOUS
  <1> HIDE DEF s
  <1>3. Len(w) <= Len(s) /\ Len(w) \in Nat /\ \A i \in 1..Len(w) : w[i] = s[i]
    BY <1>2 DEF Begins
  <1>4. k \in 0..Len(w)
    BY <1>1, <1>3
  <1> DEFINE x == Behind(w, k)
  <1>5. x \in Seq(Bytes) /\ Len(x) = Len(w) - k /\ \A i \in 1..(Len(w) - k) : x[i] = w[k + i]
    BY <1>4, BehindFacts
  <1> HIDE DEF x
  <1>6. \A i \in 1..k : w[i] = a[i]
    BY <1>1, <1>3, <1>4
  <1>7. Begins(x, b)
    <2>1. Len(x) <= Len(b)
      BY <1>1, <1>3, <1>5
    <2>2. ASSUME NEW i \in 1..Len(x) PROVE x[i] = b[i]
      <3>1. k + i \in 1..Len(w) /\ i \in 1..Len(b) /\ i \in 1..(Len(w) - k)
        BY <1>1, <1>3, <1>5, <2>1
      <3> QED
        BY <1>1, <1>3, <1>5, <3>1
    <2> QED
      BY <2>1, <2>2 DEF Begins
  <1>8. ASSUME w = s PROVE x = b
    <2>1. Len(x) = Len(b)
      BY <1>1, <1>5, <1>8
    <2>2. \A i \in 1..Len(x) : x[i] = b[i]
      BY <1>7 DEF Begins
    <2> QED
      BY <1>5, <2>1, <2>2, SeqEqual
  <1> QED
    BY <1>5, <1>6, <1>7, <1>8 DEF x, s, Drops

LEMMA Whole ==
    ASSUME NEW S, NEW w \in Seq(S)
    PROVE  Begins(w, w) /\ Behind(w, 0) = w /\ Behind(w, Len(w)) = <<>>
  <1>1. Begins(w, w)
    BY DEF Begins
  <1>2. Behind(w, 0) = w
    BY SubSeqFull DEF Behind
  <1>3. Behind(w, Len(w)) = <<>>
    BY SubSeqEmpty DEF Behind
  <1> QED
    BY <1>1, <1>2, <1>3

\* The rest of a body, cut once more.
Cuts(w, j, k) ==
    /\ SubSeq(w, j + 1, j + k) \in Seq(Bytes) /\ Len(SubSeq(w, j + 1, j + k)) = k
    /\ \A i \in 1..k : SubSeq(w, j + 1, j + k)[i] = w[j + i]
    /\ Behind(w, j + k) \in Seq(Bytes)
    /\ Behind(w, j) = SubSeq(w, j + 1, j + k) \o Behind(w, j + k)

LEMMA CutAgain ==
    ASSUME NEW w \in Seq(Bytes), NEW j \in Nat, NEW k \in Nat, j + k <= Len(w)
    PROVE  Cuts(w, j, k)
  <1> DEFINE a == SubSeq(w, j + 1, j + k)
             b == Behind(w, j + k)
             c == Behind(w, j)
             n == Len(w)
  <1>0. n \in Nat /\ j + k \in 0..n /\ j \in 0..n
    OBVIOUS
  <1>1. a \in Seq(Bytes) /\ Len(a) = k /\ \A i \in 1..k : a[i] = w[j + i]
    BY <1>0
  <1>2. b \in Seq(Bytes) /\ Len(b) = n - (j + k) /\ \A i \in 1..(n - (j + k)) : b[i] = w[j + k + i]
    BY <1>0, BehindFacts
  <1>3. c \in Seq(Bytes) /\ Len(c) = n - j /\ \A i \in 1..(n - j) : c[i] = w[j + i]
    BY <1>0, BehindFacts
  <1> HIDE DEF a, b, c, Cuts
  <1>4. /\ a \o b \in Seq(Bytes) /\ Len(a \o b) = n - j
        /\ \A i \in 1..k : (a \o b)[i] = a[i]
        /\ \A i \in (k + 1)..(n - j) : (a \o b)[i] = b[i - k]
    BY <1>0, <1>1, <1>2
  <1>5. ASSUME NEW i \in 1..(n - j) PROVE c[i] = (a \o b)[i]
    <2>1. CASE i <= k
      BY <1>1, <1>3, <1>4, <2>1
    <2>2. CASE i > k
      <3>1. i \in (k + 1)..(n - j) /\ i - k \in 1..(n - (j + k)) /\ j + k + (i - k) = j + i
        BY <1>0, <2>2
      <3> QED
        BY <1>2, <1>3, <1>4, <3>1
    <2>3. i <= k \/ i > k
      BY <1>0
    <2> QED
      BY <2>1, <2>2, <2>3, Zenon
  <1>6. c = a \o b
    BY <1>3, <1>4, <1>5, SeqEqual
  <1> QED
    BY <1>1, <1>2, <1>6 DEF a, b, c, Cuts

-----------------------------------------------------------------------------
(* What is on the way.                                                     *)

\* A message on the wire.
Wired(m) == SizeField(Len(m.body)) \o <<m.status>> \o m.body

\* r[i] is what is left of the stream behind the first i messages of s.
Remaining(r, at, s) ==
    /\ r \in [at..Len(s) -> Seq(Bytes)]
    /\ r[Len(s)] = <<>>
    /\ \A i \in at..(Len(s) - 1) : r[i] = Wired(s[i + 1]) \o r[i + 1]

\* The wire w has the rest of a body and the messages of s behind the first at,
\* to the end while the connection is up and to some byte afterwards.
Carries(w, up, rest, at, s) ==
    /\ w \in Seq(Bytes) /\ rest \in Seq(Bytes) /\ at \in 0..Len(s)
    /\ \E r : /\ Remaining(r, at, s)
              /\ Begins(w, rest \o r[at])
              /\ up => w = rest \o r[at]

LEMMA Joined ==
    \A x, y, z \in Seq(Bytes) : (x \o y) \o z = x \o (y \o z)
  <1> TAKE x, y, z \in Seq(Bytes)
  <1> QED
    BY ConcatAssociative

\* Four sequences are one behind the other, however they are joined.
InARow(w, f, e, b) == w \o f \o e \o b = w \o (f \o e \o b)

LEMMA JoinedTwice ==
    ASSUME NEW w \in Seq(Bytes), NEW f \in Seq(Bytes), NEW e \in Seq(Bytes), NEW b \in Seq(Bytes)
    PROVE  InARow(w, f, e, b)
  <1> DEFINE h == f \o e
  <1>1. h \in Seq(Bytes) /\ (w \o f) \o e = w \o h
    BY Joined
  <1> HIDE DEF h
  <1>2. (w \o h) \o b = w \o (h \o b)
    BY <1>1, Joined
  <1>3. ((w \o f) \o e) \o b = (w \o h) \o b
    BY <1>1
  <1> QED
    BY <1>2, <1>3 DEF h, InARow

LEMMA MessageParts ==
    ASSUME NEW m \in Message
    PROVE  /\ m.body \in Seq(Bytes) /\ m.body \in Bodies /\ Len(m.body) \in Nat
           /\ Len(m.body) < Power[SizeBytes]
           /\ m.status \in Bytes /\ m.status \in Statuses
           /\ SizeField(Len(m.body)) \in Seq(Bytes) /\ Len(SizeField(Len(m.body))) = SizeBytes
  <1>1. m.body \in Bodies /\ m.status \in Statuses
    BY DEF Message
  <1>2. m.body \in Seq(Bytes) /\ Len(m.body) < Power[SizeBytes] /\ m.status \in Bytes
    BY <1>1, BodyAssumption, StatusAssumption
  <1>3. Len(m.body) \in Nat
    BY <1>2
  <1> QED
    BY <1>1, <1>2, <1>3, SizeFieldIsBytes

\* The header of a message, and its body behind it.
LEMMA WiredFacts ==
    ASSUME NEW m \in Message
    PROVE  /\ SizeField(Len(m.body)) \o <<m.status>> \in Seq(Bytes)
           /\ Len(SizeField(Len(m.body)) \o <<m.status>>) = Header
           /\ \A i \in 1..SizeBytes :
                 (SizeField(Len(m.body)) \o <<m.status>>)[i] = SizeField(Len(m.body))[i]
           /\ (SizeField(Len(m.body)) \o <<m.status>>)[Header] = m.status
           /\ Wired(m) = (SizeField(Len(m.body)) \o <<m.status>>) \o m.body
           /\ Wired(m) \in Seq(Bytes)
           /\ Len(Wired(m)) = Header + Len(m.body)
  <1> DEFINE f == SizeField(Len(m.body))
             st == m.status
             b == m.body
  <1>1. /\ f \in Seq(Bytes) /\ Len(f) = SizeBytes /\ st \in Bytes /\ b \in Seq(Bytes)
        /\ SizeBytes \in Nat \ {0} /\ Header = SizeBytes + 1
    BY MessageParts, ByteAssumption DEF Header
  <1>2. Wired(m) = (f \o <<st>>) \o b
    BY DEF Wired
  <1> HIDE DEF f, st, b
  <1>3. /\ f \o <<st>> \in Seq(Bytes) /\ Len(f \o <<st>>) = Header
        /\ \A i \in 1..SizeBytes : (f \o <<st>>)[i] = f[i]
        /\ (f \o <<st>>)[Header] = st
    BY <1>1
  <1>4. (f \o <<st>>) \o b \in Seq(Bytes) /\ Len((f \o <<st>>) \o b) = Header + Len(b)
    BY <1>1, <1>3
  <1> QED
    BY <1>2, <1>3, <1>4 DEF f, st, b

LEMMA CarriesLess ==
    ASSUME NEW w, NEW up \in BOOLEAN, NEW rest, NEW at, NEW s, Carries(w, up, rest, at, s),
           NEW n \in 0..Len(w)
    PROVE  Carries(SubSeq(w, 1, n), FALSE, rest, at, s)
  <1>1. PICK r : Remaining(r, at, s) /\ Begins(w, rest \o r[at])
    BY DEF Carries
  <1>2. w \in Seq(Bytes) /\ rest \in Seq(Bytes) /\ at \in 0..Len(s)
    BY DEF Carries
  <1>3. r[at] \in Seq(Bytes)
    BY <1>1, <1>2 DEF Remaining
  <1> DEFINE x == rest \o r[at]
             y == SubSeq(w, 1, n)
  <1>4. x \in Seq(Bytes)
    BY <1>2, <1>3
  <1> HIDE DEF x
  <1>5. y \in Seq(Bytes) /\ Begins(y, x)
    BY <1>1, <1>2, <1>4, Shortened DEF x
  <1> HIDE DEF y
  <1> QED
    BY <1>1, <1>2, <1>5 DEF Carries, x, y

LEMMA CarriesMore ==
    ASSUME NEW w, NEW rest, NEW at, NEW s \in Seq(Message), Carries(w, TRUE, rest, at, s),
           NEW m \in Message
    PROVE  Carries(w \o SizeField(Len(m.body)) \o <<m.status>> \o m.body,
                   TRUE, rest, at, Append(s, m))
  <1>1. PICK r : Remaining(r, at, s) /\ w = rest \o r[at]
    BY DEF Carries
  <1>2. w \in Seq(Bytes) /\ rest \in Seq(Bytes) /\ at \in 0..Len(s)
    BY DEF Carries
  <1> DEFINE n == Len(s)
             t == Append(s, m)
             x == Wired(m)
             g == [i \in at..(n + 1) |-> IF i = n + 1 THEN <<>> ELSE r[i] \o x]
  <1>3. /\ n \in Nat /\ at \in 0..n
        /\ t \in Seq(Message) /\ Len(t) = n + 1 /\ t[n + 1] = m
        /\ \A i \in 1..n : t[i] = s[i] /\ s[i] \in Message
    BY <1>2
  <1>4. /\ r \in [at..n -> Seq(Bytes)] /\ r[n] = <<>>
        /\ \A i \in at..(n - 1) : r[i] = Wired(s[i + 1]) \o r[i + 1]
    BY <1>1 DEF Remaining
  <1>5. x \in Seq(Bytes)
    BY WiredFacts
  <1>6. w \o SizeField(Len(m.body)) \o <<m.status>> \o m.body = w \o x
    <2> DEFINE f == SizeField(Len(m.body))
    <2>1. f \in Seq(Bytes) /\ <<m.status>> \in Seq(Bytes) /\ m.body \in Seq(Bytes)
      BY MessageParts
    <2> DEFINE e == <<m.status>>
               b == m.body
    <2>2. w \in Seq(Bytes) /\ f \in Seq(Bytes) /\ e \in Seq(Bytes) /\ b \in Seq(Bytes)
      BY <1>2, <2>1
    <2> HIDE DEF f, e, b
    <2>3. InARow(w, f, e, b)
      BY <2>2, JoinedTwice
    <2> QED
      BY <2>3 DEF InARow, Wired, f, e, b
  <1> HIDE DEF n, t, x
  <1>7. g \in [at..(n + 1) -> Seq(Bytes)]
    <2>1. \A i \in at..(n + 1) : i # n + 1 => r[i] \in Seq(Bytes)
      BY <1>3, <1>4
    <2>2. \A i \in at..(n + 1) : i # n + 1 => r[i] \o x \in Seq(Bytes)
      BY <1>5, <2>1
    <2>3. <<>> \in Seq(Bytes)
      OBVIOUS
    <2> QED
      BY <2>2, <2>3
  <1>8. g[n + 1] = <<>> /\ \A i \in at..n : g[i] = r[i] \o x
    BY <1>3
  <1> HIDE DEF g
  <1>9. ASSUME NEW i \in at..((n + 1) - 1) PROVE g[i] = Wired(t[i + 1]) \o g[i + 1]
    <2>1. CASE i = n
      <3>1. g[i] = <<>> \o x
        <4>1. n \in at..n
          BY <1>3
        <4>2. g[n] = r[n] \o x
          BY <1>8, <4>1
        <4> QED
          BY <1>4, <2>1, <4>2
      <3>2. <<>> \o x = x /\ x \o <<>> = x
        BY <1>5
      <3> QED
        BY <1>3, <1>8, <2>1, <3>1, <3>2 DEF x
    <2>2. CASE i # n
      <3>1. i \in at..(n - 1) /\ i \in at..n /\ i + 1 \in at..n /\ i + 1 \in 1..n
        BY <1>3, <2>2
      <3>2. g[i] = (Wired(s[i + 1]) \o r[i + 1]) \o x /\ g[i + 1] = r[i + 1] \o x
        BY <1>4, <1>8, <3>1
      <3>3. Wired(s[i + 1]) \in Seq(Bytes) /\ r[i + 1] \in Seq(Bytes)
        BY <1>3, <1>4, <3>1, WiredFacts
      <3>4. (Wired(s[i + 1]) \o r[i + 1]) \o x = Wired(s[i + 1]) \o (r[i + 1] \o x)
        BY <1>5, <3>3, Joined
      <3> QED
        BY <1>3, <3>1, <3>2, <3>4
    <2> QED
      BY <2>1, <2>2
  <1>10. Remaining(g, at, t)
    BY <1>3, <1>7, <1>8, <1>9 DEF Remaining
  <1>11. w \o x = rest \o g[at]
    <2>1. r[at] \in Seq(Bytes) /\ g[at] = r[at] \o x
      BY <1>3, <1>4, <1>8, SMTT(30)
    <2>2. (rest \o r[at]) \o x = rest \o (r[at] \o x)
      BY <1>2, <1>5, <2>1, Joined
    <2> QED
      BY <1>1, <2>1, <2>2
  <1> DEFINE v == w \o x
  <1>12. v \in Seq(Bytes) /\ Begins(v, v)
    <2>1. v \in Seq(Bytes)
      BY <1>2, <1>5
    <2> HIDE DEF v
    <2> QED
      BY <2>1, Whole
  <1>13. at \in 0..Len(t)
    BY <1>3
  <1>14. Carries(v, TRUE, rest, at, t)
    <2>1. v = rest \o g[at]
      BY <1>11
    <2> HIDE DEF v
    <2> QED
      BY <1>2, <1>10, <1>12, <1>13, <2>1 DEF Carries
  <1> QED
    BY <1>6, <1>14 DEF t

\* What is on the way behind a body belongs to a message not yet received.
LEMMA CarriesSome ==
    ASSUME NEW w, NEW up \in BOOLEAN, NEW at, NEW s \in Seq(Message),
           Carries(w, up, <<>>, at, s), w # <<>>
    PROVE  at < Len(s)
  <1>1. PICK r : Remaining(r, at, s) /\ Begins(w, <<>> \o r[at])
    BY DEF Carries
  <1>2. w \in Seq(Bytes) /\ at \in 0..Len(s) /\ Len(s) \in Nat
    BY DEF Carries
  <1>3. ASSUME at = Len(s) PROVE FALSE
    <2>1. r[at] = <<>>
      BY <1>1, <1>3 DEF Remaining
    <2>2. <<>> \o r[at] = <<>>
      BY <2>1
    <2>3. Len(w) <= 0
      BY <1>1, <2>2 DEF Begins
    <2> QED
      BY <1>2, <2>3
  <1> QED
    BY <1>2, <1>3

\* A whole header is that of the next message, and its body is behind it.
LEMMA CarriesHeader ==
    ASSUME NEW w, NEW up \in BOOLEAN, NEW at, NEW s \in Seq(Message),
           Carries(w, up, <<>>, at, s), Header <= Len(w)
    PROVE  /\ at < Len(s) /\ s[at + 1] \in Message
           /\ \A i \in 1..SizeBytes : w[i] = SizeField(Len(s[at + 1].body))[i]
           /\ w[Header] = s[at + 1].status
           /\ Carries(Behind(w, Header), up, s[at + 1].body, at + 1, s)
  <1>0. SizeBytes \in Nat \ {0} /\ Header = SizeBytes + 1
    BY ByteAssumption DEF Header
  <1>1. w \in Seq(Bytes) /\ at \in 0..Len(s) /\ Len(s) \in Nat
    BY DEF Carries
  <1>2. at < Len(s)
    <2>1. w # <<>>
      BY <1>0, <1>1
    <2> QED
      BY <2>1, CarriesSome
  <1>3. PICK r : Remaining(r, at, s) /\ Begins(w, <<>> \o r[at]) /\ (up => w = <<>> \o r[at])
    BY DEF Carries
  <1> DEFINE m == s[at + 1]
             h == SizeField(Len(m.body)) \o <<m.status>>
             n == Len(s)
  <1>4. m \in Message
    BY <1>1, <1>2
  <1>5. /\ r \in [at..n -> Seq(Bytes)] /\ r[n] = <<>>
        /\ \A i \in at..(n - 1) : r[i] = Wired(s[i + 1]) \o r[i + 1]
    BY <1>3 DEF Remaining
  <1>6. r[at] \in Seq(Bytes) /\ r[at + 1] \in Seq(Bytes) /\ r[at] = Wired(m) \o r[at + 1]
    <2>1. at \in at..n /\ at + 1 \in at..n /\ at \in at..(n - 1)
      BY <1>1, <1>2
    <2> QED
      BY <1>5, <2>1
  <1> HIDE DEF m
  <1>7. /\ h \in Seq(Bytes) /\ Len(h) = Header /\ h[Header] = m.status
        /\ \A i \in 1..SizeBytes : h[i] = SizeField(Len(m.body))[i]
        /\ Wired(m) = h \o m.body /\ m.body \in Seq(Bytes)
    BY <1>4, WiredFacts, MessageParts
  <1> HIDE DEF h
  <1> DEFINE y == m.body \o r[at + 1]
  <1>8. y \in Seq(Bytes)
    BY <1>6, <1>7
  <1>9. <<>> \o r[at] = h \o y
    <2>1. <<>> \o r[at] = r[at]
      BY <1>6
    <2>2. (h \o m.body) \o r[at + 1] = h \o y
      BY <1>6, <1>7, Joined
    <2> QED
      BY <1>6, <1>7, <2>1, <2>2
  <1> HIDE DEF y
  <1>10. Begins(w, h \o y) /\ (up => w = h \o y)
    BY <1>3, <1>9
  <1>11. /\ \A i \in 1..Header : w[i] = h[i]
         /\ Behind(w, Header) \in Seq(Bytes)
         /\ Begins(Behind(w, Header), y)
         /\ up => Behind(w, Header) = y
    <2>1. Len(h) <= Len(w)
      BY <1>7
    <2>2. Drops(w, h, y)
      BY <1>1, <1>7, <1>8, <1>10, <2>1, Dropped
    <2> QED
      BY <1>7, <1>10, <2>2 DEF Drops
  <1> DEFINE g == [i \in (at + 1)..n |-> r[i]]
  <1>13. Remaining(g, at + 1, s)
    <2>1. g \in [(at + 1)..n -> Seq(Bytes)] /\ g[n] = <<>>
      BY <1>1, <1>2, <1>5
    <2>2. ASSUME NEW i \in (at + 1)..(n - 1) PROVE g[i] = Wired(s[i + 1]) \o g[i + 1]
      <3>1. i \in (at + 1)..n /\ i + 1 \in (at + 1)..n /\ i \in at..(n - 1)
        BY <1>1, <1>2
      <3> QED
        BY <1>5, <3>1
    <2> HIDE DEF g
    <2> QED
      BY <2>1, <2>2 DEF Remaining
  <1>14. g[at + 1] = r[at + 1] /\ at + 1 \in 0..n
    BY <1>1, <1>2
  <1> HIDE DEF g
  <1>15. Carries(Behind(w, Header), up, m.body, at + 1, s)
    <2> DEFINE x == Behind(w, Header)
               b == m.body
               k == at + 1
    <2>1. x \in Seq(Bytes) /\ b \in Seq(Bytes) /\ k \in 0..n /\ Remaining(g, k, s)
      BY <1>7, <1>11, <1>13, <1>14
    <2>2. Begins(x, b \o g[k]) /\ (up => x = b \o g[k])
      BY <1>11, <1>14 DEF y
    <2> HIDE DEF x, b, k
    <2>3. Carries(x, up, b, k, s)
      BY <2>1, <2>2 DEF Carries
    <2> QED
      BY <2>3 DEF x, b, k
  <1>16. \A i \in 1..SizeBytes : i \in 1..Header
    BY <1>0
  <1>17. Header \in 1..Header
    BY <1>0
  <1> QED
    BY <1>2, <1>4, <1>7, <1>11, <1>15, <1>16, <1>17 DEF m

\* The next bytes are the next bytes of the body, and its rest is behind them.
LEMMA CarriesBody ==
    ASSUME NEW w, NEW up \in BOOLEAN, NEW b \in Seq(Bytes), NEW j \in Nat, NEW k \in Nat,
           NEW at, NEW s, Carries(w, up, Behind(b, j), at, s), k <= Len(w), j + k <= Len(b)
    PROVE  /\ \A i \in 1..k : w[i] = b[j + i]
           /\ Carries(Behind(w, k), up, Behind(b, j + k), at, s)
  <1>1. PICK r : /\ Remaining(r, at, s)
                 /\ Begins(w, Behind(b, j) \o r[at])
                 /\ up => w = Behind(b, j) \o r[at]
    BY DEF Carries
  <1>2. w \in Seq(Bytes) /\ at \in 0..Len(s)
    BY DEF Carries
  <1>3. r[at] \in Seq(Bytes)
    BY <1>1, <1>2 DEF Remaining
  <1> DEFINE a == SubSeq(b, j + 1, j + k)
             c == Behind(b, j + k)
             y == c \o r[at]
  <1>4. /\ a \in Seq(Bytes) /\ Len(a) = k /\ \A i \in 1..k : a[i] = b[j + i]
        /\ c \in Seq(Bytes)
        /\ Behind(b, j) = a \o c
    <2>1. Cuts(b, j, k)
      BY CutAgain
    <2> QED
      BY <2>1 DEF Cuts
  <1> HIDE DEF a, c
  <1>5. (a \o c) \o r[at] = a \o y /\ y \in Seq(Bytes)
    <2> DEFINE z == r[at]
    <2>1. z \in Seq(Bytes)
      BY <1>3
    <2> HIDE DEF z
    <2>2. a \in Seq(Bytes) /\ c \in Seq(Bytes)
      BY <1>4
    <2>3. (a \o c) \o z = a \o (c \o z)
      BY <2>1, <2>2, Joined, SMTT(30)
    <2>4. c \o z \in Seq(Bytes)
      BY <2>1, <2>2
    <2> QED
      BY <2>3, <2>4 DEF z
  <1> HIDE DEF y
  <1>6. Begins(w, a \o y) /\ (up => w = a \o y)
    BY <1>1, <1>4, <1>5
  <1>7. /\ \A i \in 1..k : w[i] = a[i]
        /\ Behind(w, k) \in Seq(Bytes)
        /\ Begins(Behind(w, k), y)
        /\ up => Behind(w, k) = y
    <2>1. Len(a) <= Len(w)
      BY <1>4
    <2>2. Drops(w, a, y)
      BY <1>2, <1>4, <1>5, <1>6, <2>1, Dropped
    <2> QED
      BY <1>4, <1>6, <2>2 DEF Drops
  <1>8. Carries(Behind(w, k), up, c, at, s)
    BY <1>1, <1>2, <1>4, <1>7 DEF Carries, y
  <1> QED
    BY <1>4, <1>7, <1>8 DEF c

-----------------------------------------------------------------------------
(* The invariant.                                                          *)

Done == Len(delivered)

\* receive() is in the body of a message whose header was cut.
Cut == pc = "body" /\ short

\* The messages whose header the receiver has taken off the wire.
At == IF pc = "body" THEN Done + 1 ELSE Done

\* The bytes of the body being received that are not yet in the buffer.
Rest ==
    IF pc = "body" THEN Behind(sent[Done + 1].body, Len(sent[Done + 1].body) - left) ELSE <<>>

\* What was delivered are the first messages sent.
Ordered == Done <= Len(sent) /\ \A i \in 1..Done : delivered[i] = sent[i]

\* A torn message was the last.
Over == torn => pc = "idle" /\ ~open /\ wire = <<>>

Turning == pc = "body" => Done < Len(sent) /\ ~torn /\ ~broken /\ left > 0

CutShort == Cut => ~open /\ wire = <<>>

\* The header in the receiver's variables is that of the next message, what is
\* in the buffer the beginning of its body, and res the place of the rest.
Received(m) ==
    /\ status = m.status
    /\ end = Header + Len(m.body)
    /\ left <= Len(m.body)
    /\ res = Header + (Len(m.body) - left)
    /\ \A i \in 1..(Len(m.body) - left) : buffer[Header + i - 1] = m.body[i]

InBody == pc = "body" /\ ~short => Received(sent[Done + 1])

\* The receiver reads at the boundaries of the messages.
Aligned == ~torn /\ ~Cut => Carries(wire, open, Rest, At, sent)

IInv == TypeOK /\ Ordered /\ Over /\ Turning /\ CutShort /\ InBody /\ Aligned

-----------------------------------------------------------------------------
(* The buffer of the receiver.                                             *)

Caps == {InitCap, ClearCap} \cup Header..(Header + Power[SizeBytes])
Memory(b) == \E c \in Caps : b \in [0..(c - 1) -> Bytes \cup {Junk}]

LEMMA Sizes ==
    /\ SizeBytes \in Nat \ {0} /\ Header = SizeBytes + 1 /\ Header \in Nat
    /\ Power[SizeBytes] \in Nat \ {0}
    /\ Caps \subseteq Nat /\ \A c \in Caps : c >= Header
  <1>1. SizeBytes \in Nat \ {0} /\ Header = SizeBytes + 1 /\ Header \in Nat
    BY ByteAssumption DEF Header
  <1>2. Power[SizeBytes] \in Nat \ {0}
    BY <1>1, PowerFacts DEF Powers
  <1> QED
    BY <1>1, <1>2, CapAssumption DEF Caps

LEMMA FreshIsMemory ==
    ASSUME NEW c \in Caps
    PROVE  Memory(Fresh(c)) /\ Header - 1 \in DOMAIN Fresh(c)
  BY Sizes DEF Memory, Fresh

\* The bytes of a recv() in the memory b.
Got(b, g, p, k, w) ==
    /\ Memory(g) /\ DOMAIN g = DOMAIN b
    /\ \A i \in DOMAIN b : g[i] = IF i \in p..(p + k - 1) THEN w[i - p + 1] ELSE b[i]

LEMMA FilledIsMemory ==
    ASSUME NEW b, Memory(b), wire \in Seq(Bytes), NEW p \in Nat, NEW k \in Nat, k <= Len(wire)
    PROVE  Got(b, Filled(b, p, k), p, k, wire)
  <1>1. PICK c \in Caps : b \in [0..(c - 1) -> Bytes \cup {Junk}]
    BY DEF Memory
  <1>2. c \in Nat
    BY Sizes
  <1> DEFINE g == Filled(b, p, k)
  <1>3. /\ DOMAIN g = DOMAIN b
        /\ \A i \in DOMAIN b : g[i] = IF i \in p..(p + k - 1) THEN wire[i - p + 1] ELSE b[i]
    BY DEF Filled
  <1>4. g \in [0..(c - 1) -> Bytes \cup {Junk}]
    <2>1. ASSUME NEW i \in 0..(c - 1), i \in p..(p + k - 1) PROVE wire[i - p + 1] \in Bytes
      <3>1. i - p + 1 \in 1..Len(wire)
        BY <2>1
      <3> QED
        BY <3>1
    <2> QED
      BY <1>1, <2>1 DEF Filled
  <1> HIDE DEF g
  <1> QED
    BY <1>3, <1>4 DEF Got, g, Memory

LEMMA ResizedIsMemory ==
    ASSUME NEW b, Memory(b), NEW size \in Nat, size < Power[SizeBytes],
           NEW x, x = Resized(b, Header + size)
    PROVE  Memory(x) /\ (Header + size) - 1 \in DOMAIN x
  <1>1. PICK c \in Caps : b \in [0..(c - 1) -> Bytes \cup {Junk}]
    BY DEF Memory
  <1> DEFINE n == Header + size
             g == [i \in 0..(n - 1) |-> IF i \in DOMAIN b THEN b[i] ELSE Junk]
  <1>2. c \in Nat /\ n \in Nat /\ n > 0 /\ n \in Caps
    BY Sizes DEF Caps
  <1>3. CASE \E i \in DOMAIN b : i >= n - 1
    <2>1. n - 1 \in DOMAIN b
      BY <1>1, <1>2, <1>3
    <2>2. x = b
      BY <1>3 DEF Resized
    <2> QED
      BY <2>1, <2>2
  <1>4. CASE ~ \E i \in DOMAIN b : i >= n - 1
    <2>1. g \in [0..(n - 1) -> Bytes \cup {Junk}]
      BY <1>1
    <2>2. n - 1 \in DOMAIN g
      BY <1>2
    <2>3. x = g
      BY <1>4 DEF Resized
    <2> HIDE DEF g, n
    <2>4. Memory(g)
      BY <1>2, <2>1 DEF Memory
    <2> QED
      BY <2>2, <2>3, <2>4 DEF n
  <1> QED
    BY <1>3, <1>4

-----------------------------------------------------------------------------
(* Every step keeps it.                                                    *)

LEMMA Initially == Init => IInv
  <1> SUFFICES ASSUME Init PROVE IInv
    OBVIOUS
  <1>0. InitCap \in Caps /\ 0 \in Nat
    BY DEF Caps
  <1>1. TypeOK
    <2>1. Memory(buffer) /\ Header - 1 \in DOMAIN buffer
      BY <1>0, FreshIsMemory DEF Init
    <2>2. begin = Header /\ end >= begin /\ end - 1 \in DOMAIN buffer
      BY <2>1, Sizes DEF Init
    <2>3. status \in Bytes \cup {Stop}
      BY StatusAssumption DEF Init
    <2>4. /\ wire \in Seq(Bytes) /\ sent \in Seq(Message) /\ delivered \in Seq(Message)
          /\ open \in BOOLEAN /\ {broken, short, torn} \subseteq BOOLEAN
          /\ pc \in {"idle", "body"} /\ res \in Nat /\ left \in Nat
      <3>1. wire = <<>> /\ sent = <<>> /\ delivered = <<>>
        BY DEF Init
      <3>2. wire \in Seq(Bytes) /\ sent \in Seq(Message) /\ delivered \in Seq(Message)
        BY <3>1
      <3>3. open = TRUE /\ broken = FALSE /\ short = FALSE /\ torn = FALSE /\ pc = "idle" /\ res = 0 /\ left = 0
        BY DEF Init
      <3> QED
        BY <3>2, <3>3
    <2> QED
      BY <2>1, <2>2, <2>3, <2>4 DEF TypeOK, Memory, Caps
  <1>2. Ordered /\ Over /\ Turning /\ CutShort /\ InBody
    BY DEF Init, Ordered, Over, Turning, CutShort, InBody, Done, Cut
  <1>3. Aligned
    <2> DEFINE r == [i \in 0..0 |-> <<>>]
               e == <<>>
    <2>1. e \in Seq(Bytes) /\ e \o e = e /\ Len(e) = 0 /\ 0 \in 0..Len(e)
      OBVIOUS
    <2>2. r \in [0..0 -> Seq(Bytes)] /\ r[0] = e
      OBVIOUS
    <2>3. sent = e /\ wire = e /\ Rest = e /\ At = 0
      BY DEF Init, Rest, At, Done
    <2>4. Begins(e, e)
      BY DEF Begins
    <2> HIDE DEF r, e
    <2>5. Remaining(r, 0, e)
      BY <2>1, <2>2 DEF Remaining
    <2>6. Begins(e, e \o r[0]) /\ e = e \o r[0]
      BY <2>1, <2>2, <2>4
    <2>7. Carries(e, open, e, 0, e)
      BY <2>1, <2>5, <2>6 DEF Carries, e
    <2> QED
      BY <2>3, <2>7 DEF Aligned
  <1> QED
    BY <1>1, <1>2, <1>3 DEF IInv

LEMMA SendKeeps ==
    ASSUME IInv, NEW m \in Message, Send(m)
    PROVE  IInv'
  <1>1. /\ wire' = wire \o SizeField(Len(m.body)) \o <<m.status>> \o m.body
        /\ sent' = Append(sent, m) /\ open
        /\ open' = open /\ buffer' = buffer /\ begin' = begin /\ end' = end /\ status' = status
        /\ pc' = pc /\ res' = res /\ left' = left /\ broken' = broken /\ short' = short
        /\ delivered' = delivered /\ torn' = torn
    BY DEF Send, cursors, turns, faults, returned
  <1>2. wire \in Seq(Bytes) /\ sent \in Seq(Message) /\ delivered \in Seq(Message)
    BY DEF IInv, TypeOK
  <1>3. ~torn /\ ~Cut
    BY <1>1 DEF IInv, Over, CutShort
  <1>4. Done \in Nat /\ Len(sent) \in Nat /\ Done' = Done
    BY <1>1, <1>2 DEF Done
  <1>5. /\ sent' \in Seq(Message) /\ Len(sent') = Len(sent) + 1
        /\ \A i \in 1..Len(sent) : sent'[i] = sent[i]
    BY <1>1, <1>2
  <1>6. wire' \in Seq(Bytes)
    BY <1>1, <1>2, MessageParts
  <1>7. TypeOK'
    BY <1>1, <1>5, <1>6 DEF IInv, TypeOK
  <1>8. Ordered'
    BY <1>1, <1>4, <1>5 DEF IInv, Ordered
  <1>9. Over' /\ Turning' /\ CutShort'
    BY <1>1, <1>3, <1>4, <1>5 DEF IInv, Over, Turning, CutShort, Cut
  <1>10. pc = "body" => sent'[Done' + 1] = sent[Done + 1]
    BY <1>4, <1>5 DEF IInv, Turning
  <1>11. InBody'
    BY <1>1, <1>10 DEF IInv, InBody, Received
  <1>12. Aligned'
    <2>1. Carries(wire, open, Rest, At, sent)
      BY <1>3 DEF IInv, Aligned
    <2>2. open = TRUE
      BY <1>1 DEF IInv, TypeOK
    <2>3. Rest' = Rest /\ At' = At
      BY <1>1, <1>4, <1>10 DEF Rest, At
    <2>4. Carries(wire', TRUE, Rest, At, sent')
      BY <1>1, <1>2, <2>1, <2>2, CarriesMore
    <2> QED
      BY <1>1, <2>2, <2>3, <2>4 DEF Aligned
  <1> QED
    BY <1>7, <1>8, <1>9, <1>11, <1>12 DEF IInv

LEMMA LoseKeeps ==
    ASSUME IInv, Lose
    PROVE  IInv'
  <1>1. PICK n \in 0..Len(wire) : wire' = SubSeq(wire, 1, n)
    BY DEF Lose
  <1>2. /\ open /\ open' = FALSE
        /\ buffer' = buffer /\ begin' = begin /\ end' = end /\ status' = status
        /\ pc' = pc /\ res' = res /\ left' = left /\ broken' = broken /\ short' = short
        /\ sent' = sent /\ delivered' = delivered /\ torn' = torn
    BY DEF Lose, cursors, turns, faults, returned
  <1>3. ~torn /\ ~Cut
    BY <1>2 DEF IInv, Over, CutShort
  <1>4. wire' \in Seq(Bytes)
    BY <1>1 DEF IInv, TypeOK
  <1>5. TypeOK'
    BY <1>2, <1>4 DEF IInv, TypeOK
  <1>6. Ordered' /\ Over' /\ Turning' /\ CutShort' /\ InBody'
    BY <1>2, <1>3 DEF IInv, Ordered, Over, Turning, CutShort, Cut, InBody, Received, Done
  <1>7. Aligned'
    <2>1. Carries(wire, open, Rest, At, sent) /\ open \in BOOLEAN
      BY <1>3 DEF IInv, Aligned, TypeOK
    <2>2. Rest' = Rest /\ At' = At
      BY <1>2 DEF Rest, At, Done
    <2>3. Carries(wire', FALSE, Rest, At, sent)
      BY <1>1, <2>1, CarriesLess
    <2> QED
      BY <1>2, <2>2, <2>3 DEF Aligned
  <1> QED
    BY <1>5, <1>6, <1>7 DEF IInv

\* Between two receive() the buffer may be cleared.
LEMMA ClearedKeeps ==
    ASSUME IInv, pc = "idle", pc' = pc, buffer' = Fresh(ClearCap), begin' = Header, end' = Header,
           wire' = wire, open' = open, sent' = sent, delivered' = delivered, torn' = torn,
           res' \in Nat, left' \in Nat, broken' \in BOOLEAN, short' \in BOOLEAN,
           status' \in Bytes \cup {Stop}
    PROVE  IInv'
  <1>0. ClearCap \in Caps
    BY DEF Caps
  <1>1. Memory(buffer') /\ Header - 1 \in DOMAIN buffer'
    BY <1>0, FreshIsMemory
  <1>2. TypeOK'
    <2>1. begin' = Header /\ end' >= begin' /\ end' - 1 \in DOMAIN buffer'
      BY <1>1, Sizes
    <2> QED
      BY <1>1, <2>1 DEF IInv, TypeOK, Memory, Caps
  <1>3. Ordered' /\ Over' /\ Turning' /\ CutShort' /\ InBody'
    BY DEF IInv, Ordered, Over, Turning, CutShort, Cut, InBody, Done
  <1>4. Aligned'
    <2>1. Rest' = Rest /\ At' = At /\ ~Cut
      BY DEF Rest, At, Done, Cut
    <2> QED
      BY <2>1 DEF IInv, Aligned
  <1> QED
    BY <1>2, <1>3, <1>4 DEF IInv

LEMMA ClearKeeps == IInv /\ Clear => IInv'
  <1> SUFFICES ASSUME IInv, Clear PROVE IInv'
    OBVIOUS
  <1>1. /\ pc = "idle" /\ pc' = pc /\ buffer' = Fresh(ClearCap) /\ begin' = Header /\ end' = Header
        /\ wire' = wire /\ open' = open /\ sent' = sent /\ delivered' = delivered /\ torn' = torn
        /\ res' = res /\ left' = left /\ broken' = broken /\ short' = short /\ status' = status
    BY DEF Clear, turns, faults, returned
  <1>2. /\ res' \in Nat /\ left' \in Nat /\ broken' \in BOOLEAN /\ short' \in BOOLEAN
        /\ status' \in Bytes \cup {Stop}
    BY <1>1 DEF IInv, TypeOK
  <1> QED
    BY <1>1, <1>2, ClearedKeeps

LEMMA FailsKeeps == IInv /\ InitReceiveFails => IInv'
  <1> SUFFICES ASSUME IInv, InitReceiveFails PROVE IInv'
    OBVIOUS
  <1>1. /\ pc = "idle" /\ pc' = pc /\ buffer' = Fresh(ClearCap) /\ begin' = Header /\ end' = Header
        /\ wire' = wire /\ open' = open /\ sent' = sent /\ delivered' = delivered /\ torn' = torn
        /\ res' = 0 /\ left' = left /\ broken' = TRUE /\ short' = short /\ status' = Stop
    BY DEF InitReceiveFails, HeaderFails, returned
  <1>2. /\ res' \in Nat /\ left' \in Nat /\ broken' \in BOOLEAN /\ short' \in BOOLEAN
        /\ status' \in Bytes \cup {Stop}
    BY <1>1 DEF IInv, TypeOK
  <1> QED
    BY <1>1, <1>2, ClearedKeeps

\* What init_receive() makes of the header it gets.
LEMMA HeaderTaken ==
    ASSUME IInv, NEW k \in 1..Header, NEW junk \in Bytes, InitReceive(k, junk)
    PROVE  /\ pc = "idle" /\ ~torn /\ Done < Len(sent) /\ sent[Done + 1] \in Message
           /\ Memory(buffer') /\ end' - 1 \in DOMAIN buffer'
           /\ begin' = Header /\ end' = Header + left' /\ left' \in Nat
           /\ status' \in Bytes
           /\ wire' = Behind(wire, k) /\ wire' \in Seq(Bytes) /\ k <= Len(wire)
           /\ k = Header => /\ status' = sent[Done + 1].status
                            /\ left' = Len(sent[Done + 1].body)
                            /\ Carries(wire', open, sent[Done + 1].body, Done + 1, sent)
  <1> DEFINE got == Filled(buffer, 0, k)
             bs == [i \in 1..SizeBytes |-> got[i - 1]]
             size == Number(bs, junk)
             m == sent[Done + 1]
  <1>0. /\ SizeBytes \in Nat \ {0} /\ Header = SizeBytes + 1
        /\ wire \in Seq(Bytes) /\ sent \in Seq(Message) /\ delivered \in Seq(Message)
        /\ open \in BOOLEAN
    BY Sizes DEF IInv, TypeOK
  <1>1. /\ pc = "idle" /\ k <= Len(wire)
        /\ buffer' = Resized(got, Header + size)
        /\ status' = Number(<<got[SizeBytes]>>, junk)
        /\ begin' = Header /\ end' = Header + size /\ left' = size
        /\ wire' = Behind(wire, k)
    BY DEF InitReceive, Arrives, Behind
  <1>2. wire # <<>>
    BY <1>0, <1>1
  <1>3. ~torn /\ Carries(wire, open, <<>>, Done, sent)
    BY <1>1, <1>2 DEF IInv, Over, Aligned, Cut, Rest, At
  <1>4. Done < Len(sent) /\ Done \in Nat
    BY <1>0, <1>2, <1>3, CarriesSome DEF Done
  <1>5. m \in Message
    BY <1>0, <1>4
  <1>6. Memory(buffer)
    BY DEF IInv, TypeOK, Memory, Caps
  <1>7. Got(buffer, got, 0, k, wire)
    BY <1>0, <1>1, <1>6, FilledIsMemory
  <1>8. PICK c \in Caps : got \in [0..(c - 1) -> Bytes \cup {Junk}]
    BY <1>7 DEF Got, Memory
  <1>9. c \in Nat /\ c >= Header /\ 0..(Header - 1) \subseteq 0..(c - 1)
    BY Sizes
  <1> HIDE DEF got
  <1>10. \A i \in 0..(Header - 1) : got[i] \in Bytes \cup {Junk}
    BY <1>8, <1>9
  <1>11. bs \in Seq(Bytes \cup {Junk}) /\ Len(bs) = SizeBytes /\ \A i \in 1..SizeBytes : bs[i] = got[i - 1]
    <2>1. \A i \in 1..SizeBytes : got[i - 1] \in Bytes \cup {Junk}
      BY <1>0, <1>10
    <2> QED
      BY <1>0, <2>1
  <1> HIDE DEF bs
  <1>12. size \in Nat /\ size < Power[SizeBytes]
    BY <1>11, NumberBelow
  <1>13. got[SizeBytes] \in Bytes \cup {Junk}
    BY <1>0, <1>10
  <1>14. status' = Value(got[SizeBytes], junk)
    BY <1>1, <1>13, NumberOfOne
  <1>15. status' \in Bytes
    BY <1>13, <1>14 DEF Value
  <1>16. Memory(buffer') /\ (Header + size) - 1 \in DOMAIN buffer'
    <2>1. Memory(got)
      BY <1>7 DEF Got
    <2> QED
      BY <1>1, <1>12, <2>1, ResizedIsMemory
  <1>17. wire' \in Seq(Bytes)
    BY <1>0, <1>1, BehindFacts
  <1>18. ASSUME k = Header
         PROVE  /\ status' = m.status
                /\ left' = Len(m.body)
                /\ Carries(wire', open, m.body, Done + 1, sent)
    <2>1. /\ \A i \in 1..SizeBytes : wire[i] = SizeField(Len(m.body))[i]
          /\ wire[Header] = m.status
          /\ Carries(wire', open, m.body, Done + 1, sent)
      BY <1>0, <1>1, <1>3, <1>18, CarriesHeader
    <2>2. \A i \in 0..(Header - 1) : got[i] = wire[i + 1]
      <3>1. DOMAIN buffer = 0..(c - 1)
        BY <1>7, <1>8 DEF Got
      <3>2. \A i \in 0..(Header - 1) : i \in 0..(0 + k - 1) /\ i - 0 + 1 = i + 1 /\ i \in DOMAIN buffer
        BY <1>0, <1>9, <1>18, <3>1
      <3> QED
        BY <1>7, <3>2 DEF Got
    <2>3. /\ m.body \in Seq(Bytes) /\ Len(m.body) \in Nat /\ Len(m.body) < Power[SizeBytes]
          /\ m.status \in Bytes
          /\ SizeField(Len(m.body)) \in Seq(Bytes) /\ Len(SizeField(Len(m.body))) = SizeBytes
      BY <1>5, MessageParts
    <2>4. ASSUME NEW i \in 1..SizeBytes PROVE bs[i] = SizeField(Len(m.body))[i]
      <3>1. i - 1 \in 0..(Header - 1) /\ (i - 1) + 1 = i
        BY <1>0
      <3> QED
        BY <1>11, <2>1, <2>2, <3>1
    <2>5. bs = SizeField(Len(m.body))
      <3> DEFINE f == SizeField(Len(m.body))
      <3>1. /\ f \in Seq(Bytes \cup {Junk}) /\ Len(bs) = Len(f)
            /\ \A i \in 1..Len(bs) : bs[i] = f[i]
        BY <1>11, <2>3, <2>4
      <3> HIDE DEF f
      <3>2. bs = f
        BY <1>11, <3>1, SeqEqual
      <3> QED
        BY <3>2 DEF f
    <2>6. size = Len(m.body)
      BY <2>3, <2>5, SizeRead
    <2>7. got[SizeBytes] = m.status
      <3>1. SizeBytes \in 0..(Header - 1) /\ SizeBytes + 1 = Header
        BY <1>0
      <3> QED
        BY <2>1, <2>2, <3>1
    <2>8. Junk \notin Bytes
      BY ByteAssumption
    <2> QED
      BY <1>1, <1>14, <2>1, <2>3, <2>6, <2>7, <2>8 DEF Value
  <1> HIDE DEF size, m
  <1>19. /\ end' - 1 \in DOMAIN buffer'
         /\ begin' = Header /\ end' = Header + left' /\ left' \in Nat
    BY <1>1, <1>12, <1>16
  <1> QED
    BY <1>1, <1>3, <1>4, <1>5, <1>15, <1>16, <1>17, <1>18, <1>19 DEF m

\* The types of the receiver and the wire.
Place ==
    /\ Memory(buffer) /\ begin = Header /\ end >= begin /\ end - 1 \in DOMAIN buffer
    /\ status \in Bytes \cup {Stop} /\ res \in Nat /\ left \in Nat
    /\ {broken, short} \subseteq BOOLEAN /\ wire \in Seq(Bytes)

\* What a step does to the channel.
Delivers ==
    /\ ~torn /\ Done < Len(sent)
    /\ delivered' = Append(delivered, sent[Done + 1])
    /\ UNCHANGED <<open, sent, torn>>

Tears ==
    /\ ~open /\ ~torn /\ Done < Len(sent)
    /\ torn' = TRUE
    /\ UNCHANGED <<open, sent, delivered>>

Stays == UNCHANGED <<open, sent, delivered, torn>>

LEMMA DeliversKeeps ==
    ASSUME IInv, Place', Delivers, pc' = "idle", Carries(wire', open, <<>>, Done + 1, sent)
    PROVE  IInv'
  <1>1. /\ open' = open /\ sent' = sent /\ torn' = torn /\ ~torn /\ Done < Len(sent)
        /\ delivered' = Append(delivered, sent[Done + 1])
    BY DEF Delivers
  <1>2. delivered \in Seq(Message) /\ sent \in Seq(Message) /\ Done \in Nat /\ Len(sent) \in Nat
    BY DEF IInv, TypeOK, Done
  <1>3. sent[Done + 1] \in Message
    BY <1>1, <1>2
  <1>4. /\ delivered' \in Seq(Message) /\ Done' = Done + 1 /\ delivered'[Done + 1] = sent[Done + 1]
        /\ \A i \in 1..Done : delivered'[i] = delivered[i]
    BY <1>1, <1>2, <1>3 DEF Done
  <1>5. TypeOK'
    BY <1>1, <1>2, <1>4 DEF IInv, TypeOK, Place, Memory, Caps
  <1>6. Ordered'
    <2>1. ASSUME NEW i \in 1..Done' PROVE delivered'[i] = sent[i]
      <3>1. CASE i = Done + 1
        BY <1>4, <3>1
      <3>2. CASE i # Done + 1
        <4>1. i \in 1..Done
          BY <1>2, <1>4, <3>2
        <4> QED
          BY <1>4, <4>1 DEF IInv, Ordered
      <3> QED
        BY <3>1, <3>2
    <2>2. Done' <= Len(sent')
      BY <1>1, <1>2, <1>4
    <2>3. \A i \in 1..Done' : delivered'[i] = sent'[i]
      BY <1>1, <2>1
    <2> QED
      BY <2>2, <2>3 DEF Ordered
  <1>7. Over' /\ Turning' /\ CutShort' /\ InBody'
    BY <1>1 DEF Over, Turning, CutShort, Cut, InBody
  <1>8. Aligned'
    <2>1. Rest' = <<>> /\ At' = Done + 1
      BY <1>4 DEF Rest, At
    <2> QED
      BY <1>1, <2>1 DEF Aligned
  <1> QED
    BY <1>5, <1>6, <1>7, <1>8 DEF IInv

LEMMA TearsKeeps ==
    ASSUME IInv, Place', Tears, pc' = "idle", wire' = <<>>
    PROVE  IInv'
  <1>1. open' = open /\ sent' = sent /\ torn' = TRUE /\ delivered' = delivered /\ ~open
    BY DEF Tears
  <1>2. TypeOK'
    BY <1>1 DEF IInv, TypeOK, Place, Memory, Caps
  <1>3. Ordered' /\ Over' /\ Turning' /\ CutShort' /\ InBody' /\ Aligned'
    BY <1>1 DEF IInv, Ordered, Over, Turning, CutShort, Cut, InBody, Aligned, Done
  <1> QED
    BY <1>2, <1>3 DEF IInv

\* A message without a body is delivered, one with a body begun.
LEMMA HeaderKeeps ==
    ASSUME Liberties = {}, IInv, NEW k \in 1..Header, NEW junk \in Bytes, InitReceive(k, junk)
    PROVE  IInv' /\ (Delivers \/ Tears \/ Stays)
  <1> DEFINE m == sent[Done + 1]
  <1>1. /\ pc = "idle" /\ ~torn /\ Done < Len(sent) /\ m \in Message
        /\ Memory(buffer') /\ end' - 1 \in DOMAIN buffer'
        /\ begin' = Header /\ end' = Header + left' /\ left' \in Nat
        /\ status' \in Bytes
        /\ wire' = Behind(wire, k) /\ wire' \in Seq(Bytes) /\ k <= Len(wire)
    BY HeaderTaken
  <1>2. k = Header => /\ status' = m.status
                      /\ left' = Len(m.body)
                      /\ Carries(wire', open, m.body, Done + 1, sent)
    BY HeaderTaken
  <1>3. /\ broken' = FALSE /\ short' \in BOOLEAN /\ res' = k
        /\ open' = open /\ sent' = sent
        /\ left' > 0 => pc' = "body" /\ delivered' = delivered /\ torn' = torn
        /\ ~(left' > 0) => pc' = "idle" /\ Returns(buffer')
    BY DEF InitReceive, returned
  <1>4. /\ Header \in Nat /\ k \in Nat /\ sent \in Seq(Message) /\ delivered \in Seq(Message)
        /\ Done \in Nat /\ open \in BOOLEAN /\ torn \in BOOLEAN /\ wire \in Seq(Bytes)
        /\ Len(sent) \in Nat
    BY Sizes DEF IInv, TypeOK, Done
  <1>5. k # Header => ~open /\ wire' = <<>>
    <2>1. k # Header => ~open /\ k = Len(wire)
      BY DEF InitReceive
    <2> QED
      BY <1>1, <1>4, <2>1, Whole
  <1>6. m.body \in Seq(Bytes) /\ Len(m.body) \in Nat /\ m = [status |-> m.status, body |-> m.body]
    BY <1>1, MessageParts DEF Message
  <1>7. k = Header \/ k < Header
    BY <1>4
  <1>8. (k = Header => ~short') /\ (k < Header => short')
    <2>1. short' = (k < Header)
      BY DEF InitReceive
    <2>2. k = Header => ~(k < Header)
      BY <1>4
    <2> QED
      BY <2>1, <2>2, Zenon
  <1> HIDE DEF m
  <1>9. Place'
    <2>1. end' >= begin'
      <3>1. begin' = Header /\ end' = Header + left' /\ left' \in Nat
        BY <1>1
      <3>2. Header \in Nat
        BY <1>4
      <3>3. \A x \in Nat : Header + x >= Header
        BY <3>2
      <3> QED
        BY <3>1, <3>3
    <2>3. res' \in Nat
      BY <1>3, <1>4
    <2>4. status' \in Bytes \cup {Stop}
      BY <1>1
    <2>2. {broken', short'} \subseteq BOOLEAN
      BY <1>3
    <2> QED
      BY <1>1, <2>1, <2>2, <2>3, <2>4 DEF Place
  <1>10. CASE left' > 0 /\ k = Header
    <2>1. TypeOK'
      BY <1>3, <1>4, <1>9, <1>10 DEF IInv, TypeOK, Place, Memory, Caps
    <2>2. ~short' /\ Done' = Done /\ sent' = sent
      BY <1>3, <1>10, <1>8 DEF Done
    <2>3. Ordered' /\ Over' /\ Turning' /\ CutShort'
      BY <1>1, <1>3, <1>4, <1>10, <2>2 DEF IInv, Ordered, Over, Turning, CutShort, Cut
    <2>4. InBody'
      <3>1. /\ status' = m.status /\ end' = Header + Len(m.body) /\ left' = Len(m.body)
            /\ res' = Header + (Len(m.body) - left') /\ Len(m.body) - left' = 0
        BY <1>1, <1>2, <1>3, <1>4, <1>6, <1>10
      <3>2. \A i \in 1..(Len(m.body) - left') : buffer'[Header + i - 1] = m.body[i]
        BY <3>1
      <3>3. sent'[Done' + 1] = m
        BY <2>2 DEF m
      <3>4. left' <= Len(m.body)
        BY <1>6, <3>1
      <3> QED
        BY <3>1, <3>2, <3>3, <3>4 DEF InBody, Received
    <2>5. Aligned'
      <3>1. Rest' = Behind(m.body, Len(m.body) - Len(m.body)) /\ At' = Done + 1
        BY <1>2, <1>3, <1>10, <2>2 DEF Rest, At, m
      <3>2. Rest' = m.body
        BY <1>6, <3>1, Whole
      <3> QED
        BY <1>2, <1>3, <1>10, <3>1, <3>2 DEF Aligned
    <2>6. Stays
      BY <1>3, <1>10 DEF Stays
    <2> QED
      BY <2>1, <2>3, <2>4, <2>5, <2>6 DEF IInv
  <1>11. CASE left' > 0 /\ k < Header
    <2>0. k # Header
      BY <1>4, <1>11
    <2>1. TypeOK'
      BY <1>3, <1>4, <1>9, <1>11 DEF IInv, TypeOK, Place, Memory, Caps
    <2>2. short' /\ Done' = Done /\ sent' = sent /\ wire' = <<>> /\ ~open
      BY <1>3, <1>5, <1>11, <1>8, <2>0 DEF Done
    <2>3. Ordered' /\ Over' /\ Turning' /\ CutShort' /\ InBody' /\ Aligned'
      BY <1>1, <1>3, <1>4, <1>11, <2>2
      DEF IInv, Ordered, Over, Turning, CutShort, Cut, InBody, Aligned
    <2>4. Stays
      BY <1>3, <1>11 DEF Stays
    <2> QED
      BY <2>1, <2>3, <2>4 DEF IInv
  <1>12. CASE ~(left' > 0) /\ k = Header
    <2>1. left' = 0 /\ Len(m.body) = 0 /\ status' = m.status /\ m.body = <<>>
      BY <1>1, <1>2, <1>6, <1>12
    <2>2. Body(buffer', begin', end') = <<>>
      <3>1. end' - begin' = 0
        BY <1>1, <1>4, <2>1
      <3> QED
        BY <3>1 DEF Body
    <2>3. ~broken' /\ ~short'
      BY <1>3, <1>12, <1>8
    <2>4. delivered' = Append(delivered, m) /\ torn' = torn
      BY <1>3, <1>6, <1>12, <2>1, <2>2, <2>3 DEF Returns
    <2>5. Delivers
      BY <1>1, <1>3, <2>4 DEF Delivers, m
    <2>6. Carries(wire', open, <<>>, Done + 1, sent)
      BY <1>2, <1>12, <2>1
    <2> QED
      BY <1>3, <1>9, <1>12, <2>5, <2>6, DeliversKeeps
  <1>13. CASE ~(left' > 0) /\ k < Header
    <2>1. k # Header /\ short'
      BY <1>4, <1>13, <1>8
    <2>2. torn' = TRUE /\ delivered' = delivered
      BY <1>3, <1>13, <2>1 DEF Returns
    <2>3. Tears
      BY <1>1, <1>3, <1>5, <2>1, <2>2 DEF Tears
    <2> QED
      BY <1>3, <1>5, <1>9, <1>13, <2>1, <2>3, TearsKeeps
  <1> QED
    BY <1>7, <1>10, <1>11, <1>12, <1>13

\* The bytes of the body follow those already in the buffer; with the last ones
\* the message is whole.
LEMMA BodyKeeps ==
    ASSUME IInv, NEW k \in 1..left, ReceiveBody(k)
    PROVE  IInv' /\ (Delivers \/ Tears \/ Stays)
  <1> DEFINE m == sent[Done + 1]
             j == Len(m.body) - left
  <1>1. /\ pc = "body" /\ k <= Len(wire)
        /\ buffer' = Filled(buffer, res, k) /\ res' = res + k /\ left' = left - k
        /\ wire' = Behind(wire, k)
        /\ open' = open /\ begin' = begin /\ end' = end /\ status' = status
        /\ broken' = broken /\ short' = short /\ sent' = sent
        /\ left' > 0 => pc' = pc /\ delivered' = delivered /\ torn' = torn
        /\ ~(left' > 0) => pc' = "idle" /\ Returns(buffer')
    BY DEF ReceiveBody, BodyTo, Arrives, Behind, cursors, faults, returned
  <1>2. /\ Header \in Nat /\ left \in Nat /\ res \in Nat /\ k \in Nat /\ k > 0 /\ k <= left
        /\ sent \in Seq(Message) /\ delivered \in Seq(Message)
        /\ wire \in Seq(Bytes) /\ Done \in Nat /\ Len(sent) \in Nat /\ open \in BOOLEAN
        /\ begin = Header /\ short \in BOOLEAN /\ broken \in BOOLEAN /\ torn \in BOOLEAN
    BY Sizes DEF IInv, TypeOK, Done
  <1>3. Done < Len(sent) /\ ~torn /\ ~broken /\ left > 0
    BY <1>1 DEF IInv, Turning
  <1>4. ~short
    <2>1. wire # <<>>
      BY <1>1, <1>2
    <2> QED
      BY <1>1, <2>1 DEF IInv, CutShort, Cut
  <1>5. m \in Message
    BY <1>2, <1>3
  <1>6. m.body \in Seq(Bytes) /\ Len(m.body) \in Nat /\ m = [status |-> m.status, body |-> m.body]
    BY <1>5, MessageParts DEF Message
  <1>7. Received(m)
    BY <1>1, <1>4 DEF IInv, InBody
  <1> HIDE DEF m
  <1>8. /\ status = m.status /\ end = Header + Len(m.body) /\ left <= Len(m.body)
        /\ res = Header + j
        /\ \A i \in 1..j : buffer[Header + i - 1] = m.body[i]
    BY <1>7 DEF Received
  <1>9. j \in Nat /\ j + k <= Len(m.body) /\ (j + k) + left' = Len(m.body)
    <2> DEFINE n == Len(m.body)
    <2>1. n \in Nat /\ left \in Nat /\ k \in Nat /\ k <= left /\ left <= n /\ j = n - left
      BY <1>2, <1>6, <1>8
    <2>2. left' = left - k
      BY <1>1
    <2> HIDE DEF j, n
    <2>3. j \in Nat /\ j + k <= n
      BY <2>1
    <2>4. (j + k) + left' = n
      BY <2>1, <2>2
    <2> QED
      BY <2>3, <2>4 DEF n
  <1>10. /\ \A i \in 1..k : wire[i] = m.body[j + i]
         /\ Carries(wire', open, Behind(m.body, j + k), Done + 1, sent)
    <2>1. Carries(wire, open, Behind(m.body, j), Done + 1, sent)
      BY <1>1, <1>3, <1>4 DEF IInv, Aligned, Cut, Rest, At, m
    <2> DEFINE b == m.body
               at == Done + 1
    <2>2. /\ open \in BOOLEAN /\ b \in Seq(Bytes) /\ j \in Nat /\ k \in Nat
          /\ k <= Len(wire) /\ j + k <= Len(b) /\ Carries(wire, open, Behind(b, j), at, sent)
      BY <1>1, <1>2, <1>6, <1>9, <2>1
    <2> HIDE DEF j, b, at
    <2>3. /\ \A i \in 1..k : wire[i] = b[j + i]
          /\ Carries(Behind(wire, k), open, Behind(b, j + k), at, sent)
      BY <2>2, CarriesBody
    <2> QED
      BY <1>1, <2>3 DEF b, at
  <1>11. Memory(buffer)
    BY DEF IInv, TypeOK, Memory, Caps
  <1>12. Got(buffer, buffer', res, k, wire)
    BY <1>1, <1>2, <1>11, FilledIsMemory
  <1>13. end - 1 \in DOMAIN buffer /\ 0..(end - 1) \subseteq DOMAIN buffer
    <2>1. PICK c \in Caps : buffer \in [0..(c - 1) -> Bytes \cup {Junk}]
      BY <1>11 DEF Memory
    <2>2. c \in Nat
      BY Sizes
    <2>3. end - 1 \in DOMAIN buffer
      BY DEF IInv, TypeOK
    <2> QED
      BY <2>1, <2>2, <2>3
  <1>14. ASSUME NEW i \in 1..(j + k) PROVE buffer'[Header + i - 1] = m.body[i]
    <2> DEFINE x == Header + i - 1
    <2>1. x \in DOMAIN buffer
      <3>1. x \in 0..(end - 1)
        <4> DEFINE n == Len(m.body)
        <4>1. Header \in Nat /\ n \in Nat /\ end = Header + n /\ x = Header + i - 1
          BY <1>2, <1>6, <1>8
        <4>2. j \in Nat /\ k \in Nat /\ j + k <= n /\ i \in 1..(j + k)
          BY <1>2, <1>9
        <4> HIDE DEF n, x, j
        <4>3. i \in Nat /\ 1 <= i /\ i <= n
          BY <4>1, <4>2
        <4> QED
          BY <4>1, <4>3
      <3> QED
        BY <1>13, <3>1
    <2>2. buffer'[x] = IF x \in res..(res + k - 1) THEN wire[x - res + 1] ELSE buffer[x]
      BY <1>12, <2>1 DEF Got
    <2>3. CASE i <= j
      <3>1. x \notin res..(res + k - 1) /\ i \in 1..j
        BY <1>2, <1>8, <1>9, <2>3
      <3> QED
        BY <1>8, <2>2, <3>1
    <2>4. CASE i > j
      <3>1. x \in res..(res + k - 1) /\ x - res + 1 = i - j /\ i - j \in 1..k /\ j + (i - j) = i
        <4>1. /\ Header \in Nat /\ j \in Nat /\ k \in Nat /\ res = Header + j /\ x = Header + i - 1
              /\ i \in 1..(j + k)
          BY <1>2, <1>8, <1>9
        <4> HIDE DEF j, x
        <4> QED
          BY <2>4, <4>1
      <3> QED
        BY <1>10, <2>2, <3>1
    <2>5. i <= j \/ i > j
      BY <1>9
    <2> QED
      BY <2>3, <2>4, <2>5, Zenon
  <1>15. Place'
    <2>1. wire' \in Seq(Bytes)
      BY <1>1, <1>2, BehindFacts
    <2>2. Memory(buffer') /\ end' - 1 \in DOMAIN buffer'
      BY <1>1, <1>12, <1>13 DEF Got
    <2>3. begin' = Header /\ end' >= begin' /\ status' \in Bytes \cup {Stop}
      BY <1>1 DEF IInv, TypeOK
    <2>4. res' \in Nat /\ left' \in Nat /\ {broken', short'} \subseteq BOOLEAN
      BY <1>1, <1>2
    <2> QED
      BY <2>1, <2>2, <2>3, <2>4 DEF Place
  <1> HIDE DEF j
  <1>16. CASE left' > 0
    <2>1. pc' = "body" /\ delivered' = delivered /\ torn' = torn /\ Done' = Done
      BY <1>1, <1>16 DEF Done
    <2>2. TypeOK'
      BY <1>1, <1>2, <1>15, <2>1 DEF TypeOK, Place, Memory, Caps
    <2>3. Ordered' /\ Over' /\ Turning' /\ CutShort'
      BY <1>1, <1>3, <1>4, <1>16, <2>1 DEF IInv, Ordered, Over, Turning, CutShort, Cut
    <2>4. sent'[Done' + 1] = m
      BY <1>1, <2>1 DEF m
    <2>5. Len(m.body) - left' = j + k
      BY <1>1, <1>2, <1>6, <1>9
    <2>6. InBody'
      <3>1. status' = m.status /\ end' = Header + Len(m.body) /\ left' <= Len(m.body)
        BY <1>1, <1>2, <1>6, <1>8
      <3>2. res' = Header + (Len(m.body) - left')
        <4>1. res' = (Header + j) + k
          BY <1>1, <1>8
        <4>2. (Header + j) + k = Header + (j + k)
          BY <1>2, <1>9
        <4> QED
          BY <2>5, <4>1, <4>2
      <3>3. \A i \in 1..(Len(m.body) - left') : buffer'[Header + i - 1] = m.body[i]
        BY <1>14, <2>5
      <3> QED
        BY <2>4, <3>1, <3>2, <3>3 DEF InBody, Received
    <2>7. Aligned'
      <3>1. Rest' = Behind(m.body, j + k) /\ At' = Done + 1
        BY <2>1, <2>4, <2>5 DEF Rest, At
      <3> QED
        BY <1>1, <1>10, <3>1 DEF Aligned
    <2>8. Stays
      BY <1>1, <2>1 DEF Stays
    <2> QED
      BY <2>2, <2>3, <2>6, <2>7, <2>8 DEF IInv
  <1>17. CASE ~(left' > 0)
    <2>1. pc' = "idle" /\ Returns(buffer') /\ ~broken' /\ ~short'
      BY <1>1, <1>3, <1>4, <1>17
    <2>2. j + k = Len(m.body)
      <3>1. left' \in Nat
        BY <1>15 DEF Place
      <3>2. left' = 0
        BY <1>17, <3>1
      <3> QED
        BY <1>2, <1>9, <3>2
    <2>3. Body(buffer', begin', end') = m.body
      <3> DEFINE b == Body(buffer', begin', end')
                 c == m.body
      <3>1. begin' = Header /\ end' - begin' = Len(c)
        BY <1>1, <1>2, <1>6, <1>8
      <3>2. b = [i \in 1..Len(c) |-> buffer'[Header + i - 1]]
        BY <3>1 DEF Body
      <3>3. c \in Seq(Bytes)
        BY <1>6
      <3>4. \A i \in 1..Len(c) : buffer'[Header + i - 1] = c[i]
        BY <1>14, <2>2
      <3> HIDE DEF b, c
      <3>5. b = [i \in 1..Len(c) |-> c[i]]
        BY <3>2, <3>4
      <3>6. c = [i \in 1..Len(c) |-> c[i]]
        BY <3>3
      <3> QED
        BY <3>5, <3>6 DEF b, c
    <2>4. delivered' = Append(delivered, m) /\ torn' = torn
      BY <1>1, <1>6, <1>8, <2>1, <2>3 DEF Returns
    <2>5. Delivers
      BY <1>1, <1>3, <2>4 DEF Delivers, m
    <2>6. Carries(wire', open, <<>>, Done + 1, sent)
      BY <1>6, <1>10, <2>2, Whole
    <2> QED
      BY <1>15, <2>1, <2>5, <2>6, DeliversKeeps
  <1> QED
    BY <1>16, <1>17

\* The connection ends within a message: it is torn.
LEMMA BodyFailsKeeps ==
    ASSUME IInv, ReceiveBodyFails
    PROVE  IInv' /\ Tears
  <1>1. /\ pc = "body" /\ ~open /\ wire = <<>> /\ pc' = "idle" /\ broken' = TRUE
        /\ wire' = wire /\ open' = open /\ buffer' = buffer /\ begin' = begin /\ end' = end
        /\ status' = status /\ res' = res /\ left' = left /\ short' = short /\ sent' = sent
        /\ Returns(buffer)
    BY DEF ReceiveBodyFails, Ends, cursors, turns
  <1>2. Place'
    BY <1>1 DEF IInv, TypeOK, Place, Memory, Caps
  <1>3. Tears
    BY <1>1 DEF Tears, Returns, IInv, Turning
  <1> QED
    BY <1>1, <1>2, <1>3, TearsKeeps

-----------------------------------------------------------------------------
(* The theorems.                                                           *)

LEMMA StuttersKeep ==
    ASSUME IInv, UNCHANGED vars
    PROVE  IInv' /\ Stays
  <1>1. /\ wire' = wire /\ open' = open /\ buffer' = buffer /\ begin' = begin /\ end' = end
        /\ status' = status /\ pc' = pc /\ res' = res /\ left' = left
        /\ broken' = broken /\ short' = short
        /\ sent' = sent /\ delivered' = delivered /\ torn' = torn
    BY DEF vars, cursors, turns, faults, returned
  <1>2. Done' = Done /\ Cut' = Cut /\ At' = At /\ Rest' = Rest
    BY <1>1 DEF Done, Cut, At, Rest
  <1>3. TypeOK' /\ Ordered' /\ Over' /\ Turning' /\ CutShort' /\ InBody' /\ Aligned'
    BY <1>1, <1>2
    DEF IInv, TypeOK, Ordered, Over, Turning, CutShort, InBody, Received, Aligned
  <1> QED
    BY <1>1, <1>3 DEF IInv, Stays

\* Every step keeps the invariant and is a step or a stutter of the channel.
LEMMA NextKeeps ==
    ASSUME Liberties = {}, IInv, [Next]_vars
    PROVE  IInv' /\ [C!Next]_(C!vars)
  <1>1. Delivers => C!Next
    BY DEF Delivers, Done, C!Next, C!Deliver
  <1>2. Tears => C!Next
    BY DEF Tears, Done, C!Next, C!Tear
  <1>3. Stays => UNCHANGED C!vars
    BY DEF Stays, C!vars
  <1>4. CASE \E k \in 1..Header : \E junk \in (IF k < Header THEN Bytes ELSE {0}) :
                InitReceive(k, junk)
    <2>1. PICK k \in 1..Header, junk \in Bytes : InitReceive(k, junk)
      <3>1. 0 \in Bytes
        BY ByteAssumption DEF Bytes
      <3> QED
        BY <1>4, <3>1
    <2>2. IInv' /\ (Delivers \/ Tears \/ Stays)
      BY <2>1, HeaderKeeps
    <2> QED
      BY <1>1, <1>2, <1>3, <2>2
  <1>5. CASE InitReceiveFails
    <2>1. Stays
      BY <1>5 DEF InitReceiveFails, HeaderFails, returned, Stays
    <2> QED
      BY <1>3, <1>5, <2>1, FailsKeeps
  <1>6. CASE \E k \in 1..left : ReceiveBody(k)
    <2>1. PICK k \in 1..left : ReceiveBody(k)
      BY <1>6
    <2>2. IInv' /\ (Delivers \/ Tears \/ Stays)
      BY <2>1, BodyKeeps
    <2> QED
      BY <1>1, <1>2, <1>3, <2>2
  <1>7. CASE ReceiveBodyFails
    BY <1>2, <1>7, BodyFailsKeeps
  <1>8. CASE Clear
    <2>1. Stays
      BY <1>8 DEF Clear, returned, Stays
    <2> QED
      BY <1>3, <1>8, <2>1, ClearKeeps
  <1>9. CASE Lose
    <2>1. C!Next
      BY <1>9 DEF Lose, returned, C!Next, C!Lose
    <2> QED
      BY <1>9, <2>1, LoseKeeps
  <1>10. CASE \E m \in Message : Send(m)
    <2>1. PICK m \in Message : Send(m)
      BY <1>10
    <2>2. C!Next
      BY <2>1 DEF Send, returned, C!Next, C!Send
    <2> QED
      BY <2>1, <2>2, SendKeeps
  <1>11. CASE UNCHANGED vars
    BY <1>3, <1>11, StuttersKeep
  <1> QED
    BY <1>4, <1>5, <1>6, <1>7, <1>8, <1>9, <1>10, <1>11 DEF Next, Receive

\* The variables of the receiver keep their types: the size in a header, whole
\* or cut, never asks for more memory than the width of its field allows, and the
\* cursor of the end stays within the buffer.  This is for a network that
\* cuts a header only when it loses the connection.
THEOREM TypeCorrect ==
    ASSUME Liberties = {}
    PROVE  Spec => []TypeOK
  <1>1. Init => IInv
    BY Initially
  <1>2. IInv /\ [Next]_vars => IInv'
    BY NextKeeps
  <1>3. IInv => TypeOK
    BY DEF IInv
  <1> QED
    BY <1>1, <1>2, <1>3, PTL DEF Spec

\* SocketSerialized implements the channel: receive() returns what send() was
\* given, whole and in order, whatever the pieces in which recv() has it, but
\* for one message at the end, torn by the loss of the connection.
THEOREM ImplementsChannel ==
    ASSUME Liberties = {}
    PROVE  Spec => RefinesChannel
  <1>1. Init => IInv
    BY Initially
  <1>2. IInv /\ [Next]_vars => IInv' /\ [C!Next]_(C!vars)
    BY NextKeeps
  <1>3. Init => C!Init
    BY DEF Init, C!Init
  <1> QED
    BY <1>1, <1>2, <1>3, PTL DEF Spec, RefinesChannel, C!Spec
=============================================================================
