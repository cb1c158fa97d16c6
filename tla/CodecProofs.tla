----------------------------- MODULE CodecProofs ---------------------------
(***************************************************************************)
(* Theorems about the patch codec, for every width of a byte, of an id and *)
(* of a number, and for any operations.                                    *)
(***************************************************************************)
EXTENDS Codec, WellFoundedInduction, SequenceTheorems, TLAPS

----------------------------------------------------------------------------
(* Induction and recursion.                                                *)

(* Induction over the naturals, for a set: the induction theorems of the   *)
(* library take an operator, which the provers cannot instantiate.         *)
LEMMA SetInduction ==
    ASSUME NEW T, 0 \in T, \A n \in Nat : n \in T => n + 1 \in T
    PROVE  \A n \in Nat : n \in T
<1> SUFFICES ASSUME NEW m \in Nat, m \notin T
             PROVE  FALSE
  OBVIOUS
<1> DEFINE M == {n \in Nat : n \notin T}
           less == OpToRel(<, Nat)
<1>1. IsWellFoundedOn(less, Nat)
  BY NatLessThanWellFounded
<1>2. PICK n \in M : \A k \in M : <<k, n>> \notin less
  <2>1. M \subseteq Nat /\ M # {}
    OBVIOUS
  <2> HIDE DEF M, less
  <2> QED
    BY <1>1, <2>1, WFMin
<1>3. n \in Nat /\ n # 0 /\ n - 1 \in Nat /\ n - 1 \notin M /\ (n - 1) + 1 = n
  <2>1. n \in Nat /\ n # 0
    OBVIOUS
  <2>2. n - 1 \in Nat /\ n - 1 < n /\ (n - 1) + 1 = n
    BY <2>1
  <2>3. <<n - 1, n>> \in less
    BY <2>1, <2>2 DEF OpToRel
  <2> QED
    BY <2>1, <2>2, <2>3, <1>2
<1> QED
  BY <1>3

(* The numbers that n groups tell apart, step by step.                     *)
LEMMA CapacitySteps ==
    Capacity[0] = 1 /\ \A n \in 1..Groups : Capacity[n] = Base * Capacity[n - 1]
<1> DEFINE Def(m, g) == [n \in 0..m |-> IF n = 0 THEN 1 ELSE Base * g[n - 1]]
           T == {m \in Nat : \E g : g = Def(m, g)}
<1>1. ASSUME NEW m \in Nat, m \in T
      PROVE  m + 1 \in T
  <2>1. PICK g : g = Def(m, g)
    BY <1>1
  <2> DEFINE h == [n \in 0..(m + 1) |-> IF n = m + 1 THEN Base * g[m] ELSE g[n]]
  <2>2. \A n \in 0..(m + 1) : h[n] = IF n = 0 THEN 1 ELSE Base * h[n - 1]
    <3> TAKE n \in 0..(m + 1)
    <3>1. CASE n = m + 1
      <4>1. n # 0 /\ n - 1 = m /\ m \in 0..(m + 1) /\ m # m + 1
        BY <3>1
      <4> QED
        BY <3>1, <4>1
    <3>2. CASE n # m + 1
      <4>1. n \in 0..m /\ (n # 0 => n - 1 \in 0..m)
        BY <3>2
      <4>2. h[n] = g[n] /\ (n # 0 => h[n - 1] = g[n - 1])
        BY <4>1
      <4>3. g[n] = IF n = 0 THEN 1 ELSE Base * g[n - 1]
        BY <2>1, <4>1
      <4> QED
        BY <4>2, <4>3
    <3> QED
      BY <3>1, <3>2
  <2>3. h = Def(m + 1, h)
    <3> HIDE DEF h
    <3>1. DOMAIN h = 0..(m + 1) /\ h = [n \in 0..(m + 1) |-> h[n]]
      BY DEF h
    <3> QED
      BY <2>2, <3>1
  <2>4. m + 1 \in Nat
    OBVIOUS
  <2> HIDE DEF h, Def
  <2> QED
    BY <2>3, <2>4
<1>2. Groups \in Nat
  BY WidthAssumption
<1>3. Groups \in T
  <2>1. 0 \in T
    <3> DEFINE h == [n \in 0..0 |-> 1]
    <3>1. h = Def(0, h)
      OBVIOUS
    <3> HIDE DEF h, Def
    <3> QED
      BY <3>1
  <2> HIDE DEF T
  <2> QED
    BY <1>1, <1>2, <2>1, SetInduction
<1>4. \E g : g = Def(Groups, g)
  BY <1>3
<1>5. Capacity = Def(Groups, Capacity)
  BY <1>4, Zenon DEF Capacity
<1>6. \A n \in 0..Groups : Capacity[n] = IF n = 0 THEN 1 ELSE Base * Capacity[n - 1]
  BY <1>5
<1>7. 0 \in 0..Groups /\ \A n \in 1..Groups : n \in 0..Groups /\ n # 0
  BY <1>2
<1> QED
  BY <1>6, <1>7

(* encode_varint_u32 on every u32: the recursion ends, since each turn of  *)
(* the loop makes the value smaller.                                       *)
LEMMA EncodeVarintSteps ==
    \A v \in U32 : EncodeVarint(v) = IF v < Base THEN <<v>>
                                     ELSE <<Base + (v % Base)>> \o EncodeVarint(v \div Base)
<1> DEFINE step(g, w) == IF w < Base THEN <<w>> ELSE <<Base + (w % Base)>> \o g[w \div Base]
           table(g) == [w \in U32 |-> step(g, w)]
           Holds(g, n) == \A w \in U32 : w < n => g[w] = step(g, w)
           T == {n \in Nat : \E g : Holds(g, n)}
           f == CHOOSE g : g = table(g)
<1>1. \A w \in U32 : w \in Nat /\ (w >= Base => w \div Base \in U32 /\ w \div Base < w)
  BY WidthAssumption DEF U32
<1>2. ASSUME NEW n \in Nat, NEW g, Holds(g, n)
      PROVE  Holds(table(g), n + 1)
  <2> DEFINE h == table(g)
  <2>1. \A w \in U32 : h[w] = step(g, w)
    OBVIOUS
  <2> HIDE DEF h
  <2>2. ASSUME NEW w \in U32, w < n + 1
        PROVE  h[w] = step(h, w)
    <3>1. CASE w < Base
      BY <2>1, <3>1
    <3>2. CASE ~(w < Base)
      <4>1. w \div Base \in U32 /\ w \div Base < n
        BY <1>1, <2>2, <3>2, WidthAssumption
      <4>2. h[w \div Base] = g[w \div Base]
        BY <1>2, <2>1, <4>1
      <4> QED
        BY <2>1, <3>2, <4>2
    <3> QED
      BY <3>1, <3>2
  <2> QED
    BY <2>2 DEF h
<1>3. IdMod \in T
  <2>1. 0 \in T
    <3>1. Holds([w \in U32 |-> << >>], 0)
      BY <1>1
    <3> HIDE DEF Holds
    <3> QED
      BY <3>1
  <2>2. ASSUME NEW n \in Nat, n \in T
        PROVE  n + 1 \in T
    <3> HIDE DEF Holds, table
    <3> QED
      BY <1>2, <2>2
  <2>3. IdMod \in Nat
    BY WidthAssumption
  <2> HIDE DEF T
  <2> QED
    BY <2>1, <2>2, <2>3, SetInduction
<1>4. \E g : g = table(g)
  <2>1. PICK g : Holds(g, IdMod)
    BY <1>3
  <2>2. \A w \in U32 : g[w] = step(g, w)
    <3>1. \A w \in U32 : w < IdMod
      BY WidthAssumption DEF U32
    <3> QED
      BY <2>1, <3>1
  <2> DEFINE h == [w \in U32 |-> g[w]]
  <2>3. \A w \in U32 : step(h, w) = step(g, w)
    BY <1>1, WidthAssumption DEF U32
  <2>4. h = table(h)
    BY <2>2, <2>3
  <2> HIDE DEF h, table
  <2> QED
    BY <2>4
<1>5. f = table(f)
  BY <1>4
<1>6. \A v : EncodeVarint(v) = f[v]
  BY Zenon DEF EncodeVarint
<1> HIDE DEF f
<1>7. \A v \in U32 : f[v] = step(f, v)
  BY <1>5
<1> QED
  BY <1>6, <1>7

(* What the varint of a number is made of.                                 *)
LEMMA EncodeVarintType ==
    \A v \in U32 : EncodeVarint(v) \in Seq(Byte) /\ Len(EncodeVarint(v)) \in Nat \ {0}
<1> DEFINE T == {n \in Nat : \A v \in U32 : v < n =>
                    EncodeVarint(v) \in Seq(Byte) /\ Len(EncodeVarint(v)) \in Nat \ {0}}
<1>1. ASSUME NEW n \in Nat, n \in T
      PROVE  n + 1 \in T
  <2> SUFFICES ASSUME NEW v \in U32, v < n + 1
               PROVE  EncodeVarint(v) \in Seq(Byte) /\ Len(EncodeVarint(v)) \in Nat \ {0}
    OBVIOUS
  <2>1. v \in Nat
    BY WidthAssumption DEF U32
  <2>2. CASE v < Base
    <3>1. EncodeVarint(v) = <<v>>
      BY <2>2, EncodeVarintSteps
    <3>2. v \in Byte
      BY <2>1, <2>2, WidthAssumption DEF Byte
    <3> QED
      BY <3>1, <3>2
  <2>3. CASE ~(v < Base)
    <3> DEFINE b == Base + (v % Base)
               rest == EncodeVarint(v \div Base)
    <3>1. v \div Base \in U32 /\ v \div Base < v
      BY <2>1, <2>3, WidthAssumption DEF U32
    <3>2. v \div Base < n
      BY <2>1, <3>1 DEF U32
    <3>3. rest \in Seq(Byte) /\ Len(rest) \in Nat
      BY <1>1, <3>1, <3>2
    <3>4. EncodeVarint(v) = <<b>> \o rest
      BY <2>3, EncodeVarintSteps
    <3>5. b \in Byte
      BY <2>1, WidthAssumption DEF Byte
    <3> HIDE DEF b, rest
    <3>6. <<b>> \in Seq(Byte) /\ Len(<<b>>) = 1
      BY <3>5
    <3> QED
      BY <3>3, <3>4, <3>6, ConcatProperties
  <2> QED
    BY <2>2, <2>3
<1>2. 0 \in T
  BY DEF U32
<1>3. IdMod \in Nat /\ \A v \in U32 : v < IdMod
  BY WidthAssumption DEF U32
<1>4. IdMod \in T
  <2> HIDE DEF T
  <2> QED
    BY <1>1, <1>2, <1>3, SetInduction
<1> QED
  BY <1>3, <1>4

----------------------------------------------------------------------------
(* Reading what was written.                                               *)

(* The bytes after pos begin with s.                                       *)
At(bytes, pos, s) ==
    /\ pos \in Nat
    /\ Len(s) \in Nat
    /\ pos + Len(s) <= Len(bytes)
    /\ \A i \in 1..Len(s) : bytes[pos + i] = s[i]

(* They begin with each part of it in its place.                           *)
LEMMA AtConcat ==
    ASSUME NEW S, NEW bytes \in Seq(S), NEW pos, NEW X, NEW s \in Seq(X), NEW u \in Seq(X),
           At(bytes, pos, s \o u)
    PROVE  At(bytes, pos, s) /\ At(bytes, pos + Len(s), u)
<1>1. /\ Len(s) \in Nat /\ Len(u) \in Nat /\ Len(bytes) \in Nat
      /\ Len(s \o u) = Len(s) + Len(u)
      /\ \A i \in 1..Len(s) : (s \o u)[i] = s[i]
      /\ \A i \in 1..Len(u) : (s \o u)[Len(s) + i] = u[i]
  OBVIOUS
<1>2. pos \in Nat /\ pos + (Len(s) + Len(u)) <= Len(bytes)
  BY <1>1 DEF At
<1>3. \A i \in 1..(Len(s) + Len(u)) : bytes[pos + i] = (s \o u)[i]
  BY <1>1 DEF At
<1>4. ASSUME NEW i \in 1..Len(s)
      PROVE  bytes[pos + i] = s[i]
  BY <1>1, <1>3
<1>5. ASSUME NEW i \in 1..Len(u)
      PROVE  bytes[(pos + Len(s)) + i] = u[i]
  <2>1. Len(s) + i \in 1..(Len(s) + Len(u)) /\ (pos + Len(s)) + i = pos + (Len(s) + i)
    BY <1>1, <1>2
  <2> QED
    BY <1>1, <1>3, <2>1
<1> QED
  BY <1>1, <1>2, <1>4, <1>5 DEF At

(* One turn of the loop of decode_varint_u32 after the other, n the groups *)
(* that are left.                                                          *)
VarintSteps(r, bytes, pos) ==
    \A n \in 0..Groups :
        r[n] = IF n = 0 \/ pos + Groups - n + 1 > Len(bytes) THEN None
               ELSE IF bytes[pos + Groups - n + 1] < Base
               THEN Some(bytes[pos + Groups - n + 1], pos + Groups - n + 1)
               ELSE IF r[n - 1].ok
               THEN Some((bytes[pos + Groups - n + 1] % Base) + Base * r[n - 1].value,
                         r[n - 1].pos)
               ELSE None

(* decode_varint_u32 is that loop with all the groups left.                *)
LEMMA DecodeVarintSteps ==
    ASSUME NEW bytes, NEW pos
    PROVE  \E r : /\ VarintSteps(r, bytes, pos)
                  /\ DecodeVarint(bytes, pos) =
                        IF r[Groups].ok THEN Some(r[Groups].value % IdMod, r[Groups].pos)
                        ELSE None
<1> DEFINE byte(n) == bytes[pos + Groups - n + 1]
           turn(n, x) == IF n = 0 \/ pos + Groups - n + 1 > Len(bytes) THEN None
                         ELSE IF byte(n) < Base THEN Some(byte(n), pos + Groups - n + 1)
                         ELSE Then(x, LAMBDA v, p : Some((byte(n) % Base) + Base * v, p))
           Def(m, g) == [n \in 0..m |-> turn(n, g[n - 1])]
           T == {m \in Nat : \E g : g = Def(m, g)}
           f == CHOOSE g : g = Def(Groups, g)
<1>1. ASSUME NEW m \in Nat, m \in T
      PROVE  m + 1 \in T
  <2>1. PICK g : g = Def(m, g)
    BY <1>1
  <2> DEFINE h == [n \in 0..(m + 1) |-> IF n = m + 1 THEN turn(m + 1, g[m]) ELSE g[n]]
  <2>2. \A x, y : turn(0, x) = turn(0, y)
    OBVIOUS
  <2>3. \A n \in 0..m : g[n] = turn(n, g[n - 1])
    BY <2>1
  <2> HIDE DEF turn
  <2>4. \A n \in 0..(m + 1) : h[n] = turn(n, h[n - 1])
    <3> TAKE n \in 0..(m + 1)
    <3>1. CASE n = m + 1
      <4>1. n # 0 /\ n - 1 = m /\ m \in 0..(m + 1) /\ m # m + 1
        BY <3>1
      <4> QED
        BY <3>1, <4>1
    <3>2. CASE n # m + 1 /\ n # 0
      <4>1. n \in 0..m /\ n - 1 \in 0..m /\ n - 1 \in 0..(m + 1) /\ n - 1 # m + 1
        BY <3>2
      <4>2. h[n] = g[n] /\ h[n - 1] = g[n - 1]
        BY <3>2, <4>1
      <4> QED
        BY <2>3, <4>1, <4>2
    <3>3. CASE n = 0
      <4>1. 0 \in 0..m /\ 0 \in 0..(m + 1) /\ 0 # m + 1
        OBVIOUS
      <4>2. h[0] = g[0] /\ g[0] = turn(0, g[0 - 1])
        BY <2>3, <4>1
      <4> HIDE DEF h
      <4> QED
        BY <2>2, <3>3, <4>2
    <3> QED
      BY <3>1, <3>2, <3>3
  <2>5. h = Def(m + 1, h)
    <3> HIDE DEF h
    <3>1. DOMAIN h = 0..(m + 1) /\ h = [n \in 0..(m + 1) |-> h[n]]
      BY DEF h
    <3> QED
      BY <2>4, <3>1
  <2>6. m + 1 \in Nat
    OBVIOUS
  <2> HIDE DEF h, Def
  <2> QED
    BY <2>5, <2>6
<1>2. Groups \in T
  <2>1. 0 \in T
    <3> DEFINE h == [n \in 0..0 |-> None]
    <3>1. h = Def(0, h)
      OBVIOUS
    <3> HIDE DEF h, Def
    <3> QED
      BY <3>1
  <2>2. Groups \in Nat
    BY WidthAssumption
  <2> HIDE DEF T
  <2> QED
    BY <1>1, <2>1, <2>2, SetInduction
<1>3. f = Def(Groups, f)
  BY <1>2
<1>4. DecodeVarint(bytes, pos) = Then(f[Groups], LAMBDA v, p : Some(v % IdMod, p))
  BY Zenon DEF DecodeVarint
<1>5. \A n \in 0..Groups : f[n] = turn(n, f[n - 1])
  <2> HIDE DEF f, turn
  <2> QED
    BY <1>3
<1> HIDE DEF f
<1>6. VarintSteps(f, bytes, pos)
  BY <1>5 DEF VarintSteps, Then
<1> QED
  BY <1>4, <1>6 DEF Then

(* The lowest group of a number and the others.                            *)
LEMMA LowestGroup ==
    ASSUME NEW w \in Nat
    PROVE  /\ w \div Base \in Nat /\ w % Base \in 0..(Base - 1)
           /\ w = Base * (w \div Base) + (w % Base)
           /\ (Base + (w % Base)) % Base = w % Base
           /\ Base + (w % Base) \in Byte /\ ~(Base + (w % Base) < Base)
           /\ \A c \in Nat : w < Base * c => w \div Base < c
<1>1. Base \in Nat /\ Base > 1
  BY WidthAssumption
<1>2. w \div Base \in Nat /\ w % Base \in 0..(Base - 1) /\ w = Base * (w \div Base) + (w % Base)
  BY <1>1
<1>3. (Base + (w % Base)) % Base = w % Base
  BY <1>1
<1>4. ASSUME NEW c \in Nat, w < Base * c
      PROVE  w \div Base < c
  <2>1. CASE c <= w \div Base
    <3> DEFINE u == w \div Base
    <3>1. Base * c <= Base * u
      BY <1>1, <1>2, <2>1
    <3> QED
      BY <1>1, <1>2, <1>4, <3>1
  <2> QED
    BY <1>2, <2>1
<1>5. \A x \in 0..(Base - 1) : Base + x \in Byte /\ ~(Base + x < Base)
  BY <1>1 DEF Byte
<1> QED
  BY <1>2, <1>3, <1>4, <1>5

(* decode_varint_u32 gives back what encode_varint_u32 was given: every    *)
(* u32 fits in the groups that are read, whatever bytes follow.            *)
LEMMA VarintReads ==
    ASSUME NEW bytes \in Seq(Byte), NEW pos, NEW v \in U32, At(bytes, pos, EncodeVarint(v))
    PROVE  DecodeVarint(bytes, pos) = Some(v, pos + Len(EncodeVarint(v)))
<1>1. PICK r : /\ VarintSteps(r, bytes, pos)
               /\ DecodeVarint(bytes, pos) =
                     IF r[Groups].ok THEN Some(r[Groups].value % IdMod, r[Groups].pos) ELSE None
  BY DecodeVarintSteps
<1> DEFINE start(n) == pos + Groups - n
           Reads(n) == \A w \in U32 : w < Capacity[n] /\ At(bytes, start(n), EncodeVarint(w))
                           => r[n] = Some(w, start(n) + Len(EncodeVarint(w)))
           T == {n \in Nat : n <= Groups => Capacity[n] \in Nat /\ (n > 0 => Reads(n))}
<1>2. /\ pos \in Nat /\ Groups \in Nat \ {0} /\ Base \in Nat /\ Base > 1
      /\ IdMod \in Nat \ {0} /\ IdMod <= Capacity[Groups]
  BY WidthAssumption DEF At
<1>3. 0 \in T
  BY CapacitySteps
<1>4. ASSUME NEW n \in Nat, n \in T
      PROVE  n + 1 \in T
  <2> SUFFICES ASSUME n + 1 <= Groups
               PROVE  Capacity[n + 1] \in Nat /\ Reads(n + 1)
    OBVIOUS
  <2>1. n + 1 \in 1..Groups /\ (n + 1) - 1 = n /\ n <= Groups /\ n + 1 \in 0..Groups
    BY <1>2
  <2>2. Capacity[n + 1] = Base * Capacity[n] /\ Capacity[n] \in Nat
    BY <1>4, <2>1, CapacitySteps
  <2>3. Capacity[n + 1] \in Nat
    BY <1>2, <2>2
  <2>4. ASSUME NEW w \in U32, w < Capacity[n + 1], At(bytes, start(n + 1), EncodeVarint(w))
        PROVE  r[n + 1] = Some(w, start(n + 1) + Len(EncodeVarint(w)))
    <3> DEFINE at == start(n + 1) + 1
    <3>1. w \in Nat /\ start(n + 1) \in Nat /\ at = pos + Groups - (n + 1) + 1 /\ at = start(n)
      BY <1>2, <2>1 DEF U32
    <3>2. r[n + 1] = IF at > Len(bytes) THEN None
                     ELSE IF bytes[at] < Base THEN Some(bytes[at], at)
                     ELSE IF r[n].ok THEN Some((bytes[at] % Base) + Base * r[n].value, r[n].pos)
                     ELSE None
      <4>1. n + 1 # 0
        OBVIOUS
      <4> QED
        BY <1>1, <2>1, <3>1, <4>1 DEF VarintSteps
    <3> HIDE DEF at
    <3>3. CASE w < Base
      <4>1. EncodeVarint(w) = <<w>>
        BY <3>3, EncodeVarintSteps
      <4>2. at <= Len(bytes) /\ bytes[at] = w
        BY <2>4, <3>1, <4>1 DEF At, at
      <4>3. Len(EncodeVarint(w)) = 1 /\ Len(bytes) \in Nat
        BY <4>1
      <4> QED
        BY <3>1, <3>2, <3>3, <4>2, <4>3 DEF at
    <3>4. CASE ~(w < Base)
      <4> DEFINE b == Base + (w % Base)
                 u == w \div Base
                 rest == EncodeVarint(u)
      <4>1. EncodeVarint(w) = <<b>> \o rest
        BY <3>4, EncodeVarintSteps
      <4>2. /\ u \in U32 /\ b \in Byte /\ ~(b < Base) /\ b % Base = w % Base
            /\ w = Base * u + (w % Base)
        <5>1. b % Base = w % Base /\ w = Base * u + (w % Base)
          BY <3>1, LowestGroup
        <5>2. b \in Byte /\ ~(b < Base)
          BY <3>1, LowestGroup
        <5>3. u \in U32
          BY <1>2, <3>1, <3>4 DEF U32
        <5> QED
          BY <5>1, <5>2, <5>3
      <4>3. rest \in Seq(Byte) /\ Len(rest) \in Nat
        BY <4>2, EncodeVarintType
      <4>4. n > 0
        <5>1. CASE n = 0
          <6>1. Capacity[n + 1] = Base
            BY <1>2, <2>2, <5>1, CapacitySteps
          <6> QED
            BY <2>4, <3>4, <6>1
        <5> QED
          BY <5>1
      <4>5. u < Capacity[n]
        BY <2>2, <2>4, <3>1, LowestGroup
      <4> HIDE DEF b, u, rest
      <4>6. <<b>> \in Seq(Byte) /\ Len(<<b>>) = 1 /\ <<b>>[1] = b
        BY <4>2
      <4>7. At(bytes, start(n + 1), <<b>>) /\ At(bytes, start(n + 1) + 1, rest)
        BY <2>4, <4>1, <4>3, <4>6, AtConcat
      <4>8. at <= Len(bytes) /\ bytes[at] = b
        BY <4>6, <4>7 DEF At, at
      <4>9. At(bytes, start(n), rest)
        BY <3>1, <4>7 DEF at
      <4>10. r[n] = Some(u, start(n) + Len(rest))
        BY <1>4, <2>1, <4>2, <4>4, <4>5, <4>9 DEF rest
      <4>11. r[n + 1] = Some((b % Base) + Base * u, start(n) + Len(rest))
        <5>1. Len(bytes) \in Nat
          OBVIOUS
        <5> QED
          BY <3>1, <3>2, <4>2, <4>8, <4>10, <5>1 DEF Some
      <4>12. (b % Base) + Base * u = w
        BY <1>2, <3>1, <4>2 DEF U32
      <4>13. Len(EncodeVarint(w)) = 1 + Len(rest)
        BY <4>1, <4>3, <4>6, ConcatProperties
      <4>14. start(n) + Len(rest) = start(n + 1) + Len(EncodeVarint(w))
        BY <3>1, <4>3, <4>13 DEF at
      <4> QED
        BY <4>11, <4>12, <4>14
    <3> QED
      BY <3>3, <3>4
  <2> QED
    BY <2>3, <2>4
<1>5. Groups \in T
  <2> HIDE DEF T
  <2> QED
    BY <1>2, <1>3, <1>4, SetInduction
<1>6. v < Capacity[Groups] /\ start(Groups) = pos
  BY <1>2, <1>5 DEF U32
<1>7. r[Groups] = Some(v, pos + Len(EncodeVarint(v)))
  <2>1. Reads(Groups)
    BY <1>2, <1>5
  <2> HIDE DEF start
  <2> QED
    BY <1>6, <2>1
<1>8. v % IdMod = v
  BY <1>2 DEF U32
<1>9. r[Groups].ok /\ r[Groups].value = v /\ r[Groups].pos = pos + Len(EncodeVarint(v))
  BY <1>7 DEF Some
<1> QED
  BY <1>1, <1>8, <1>9

(* The fields of an answer.                                                *)
LEMMA Answers ==
    /\ ~None.ok
    /\ \A v, p : Some(v, p).ok /\ Some(v, p).value = v /\ Some(v, p).pos = p
BY DEF None, Some

(* The readers of a list of bytes, of a text and of a tag, in full.        *)
LEMMA Readers ==
    ASSUME NEW bytes, NEW pos
    PROVE  /\ DecodeBytes(bytes, pos) =
                 IF DecodeVarint(bytes, pos).ok
                 THEN Take(bytes, DecodeVarint(bytes, pos).pos, DecodeVarint(bytes, pos).value)
                 ELSE None
           /\ DecodeString(bytes, pos) =
                 IF DecodeBytes(bytes, pos).ok /\ IsText(DecodeBytes(bytes, pos).value)
                 THEN Some(DecodeBytes(bytes, pos).value, DecodeBytes(bytes, pos).pos)
                 ELSE None
           /\ \A tags : DecodeTag(bytes, pos, tags) =
                 IF Take(bytes, pos, 1).ok /\ Take(bytes, pos, 1).value[1] + 1 \in DOMAIN tags
                 THEN Some(tags[Take(bytes, pos, 1).value[1] + 1], Take(bytes, pos, 1).pos)
                 ELSE None
<1>1. DecodeBytes(bytes, pos) =
                 IF DecodeVarint(bytes, pos).ok
                 THEN Take(bytes, DecodeVarint(bytes, pos).pos, DecodeVarint(bytes, pos).value)
                 ELSE None
  BY DEF DecodeBytes, Then
<1>2. DecodeString(bytes, pos) =
                 IF DecodeBytes(bytes, pos).ok /\ IsText(DecodeBytes(bytes, pos).value)
                 THEN Some(DecodeBytes(bytes, pos).value, DecodeBytes(bytes, pos).pos)
                 ELSE None
  BY DEF DecodeString, Then
<1>3. ASSUME NEW tags
      PROVE  DecodeTag(bytes, pos, tags) =
                 IF Take(bytes, pos, 1).ok /\ Take(bytes, pos, 1).value[1] + 1 \in DOMAIN tags
                 THEN Some(tags[Take(bytes, pos, 1).value[1] + 1], Take(bytes, pos, 1).pos)
                 ELSE None
  BY DEF DecodeTag, Then
<1> QED
  BY <1>1, <1>2, <1>3

(* Tags, lengths and kinds are bytes.                                      *)
LEMMA SmallNumbersAreBytes == \A n \in 0..5 : n \in Byte
BY WidthAssumption DEF Byte

(* The n bytes after pos, when they are s.                                 *)
LEMMA TakeReads ==
    ASSUME NEW bytes \in Seq(Byte), NEW pos, NEW s \in Seq(Byte), At(bytes, pos, s)
    PROVE  Take(bytes, pos, Len(s)) = Some(s, pos + Len(s))
<1>1. /\ pos \in Nat /\ Len(s) \in Nat /\ Len(bytes) \in Nat /\ pos + Len(s) <= Len(bytes)
      /\ \A i \in 1..Len(s) : bytes[pos + i] = s[i]
  BY DEF At
<1> DEFINE u == SubSeq(bytes, pos + 1, pos + Len(s))
<1>2. u = s
  <2>1. /\ u \in Seq(Byte) /\ Len(u) = Len(s)
        /\ \A i \in 1..Len(s) : u[i] = bytes[pos + 1 + i - 1]
    BY <1>1, SubSeqProperties
  <2>2. \A i \in 1..Len(s) : pos + 1 + i - 1 = pos + i
    BY <1>1
  <2> HIDE DEF u
  <2>3. \A i \in 1..Len(s) : u[i] = s[i]
    BY <1>1, <2>1, <2>2
  <2> QED
    BY <2>1, <2>3, SeqEqual
<1>3. ~(pos + Len(s) > Len(bytes))
  BY <1>1
<1> HIDE DEF u
<1> QED
  BY <1>2, <1>3 DEF Take, u

(* What a string or a list of bytes is written as.                         *)
LEMMA EncodeStringParts ==
    ASSUME NEW s, IsBytes(s)
    PROVE  /\ EncodeString(s) = EncodeVarint(Len(s)) \o s
           /\ s \in Seq(Byte) /\ Len(s) \in U32
           /\ EncodeVarint(Len(s)) \in Seq(Byte) /\ EncodeString(s) \in Seq(Byte)
           /\ Len(EncodeString(s)) = Len(EncodeVarint(Len(s))) + Len(s)
<1>1. s \in Seq(Byte) /\ Len(s) \in Nat /\ Len(s) < IdMod
  BY DEF IsBytes
<1>2. Len(s) \in U32 /\ Len(s) % IdMod = Len(s)
  BY <1>1, WidthAssumption DEF U32
<1>3. EncodeString(s) = EncodeVarint(Len(s)) \o s
  BY <1>2 DEF EncodeString, EncodeUsize
<1>4. EncodeVarint(Len(s)) \in Seq(Byte)
  BY <1>2, EncodeVarintType
<1> QED
  BY <1>1, <1>2, <1>3, <1>4, ConcatProperties

(* A list of bytes is read back.                                           *)
LEMMA BytesRead ==
    ASSUME NEW bytes \in Seq(Byte), NEW pos, NEW s, IsBytes(s), At(bytes, pos, EncodeString(s))
    PROVE  DecodeBytes(bytes, pos) = Some(s, pos + Len(EncodeString(s)))
<1> DEFINE e == EncodeVarint(Len(s))
<1>1. /\ EncodeString(s) = e \o s /\ s \in Seq(Byte) /\ Len(s) \in U32 /\ e \in Seq(Byte)
      /\ Len(EncodeString(s)) = Len(e) + Len(s)
  BY EncodeStringParts
<1>2. At(bytes, pos, e) /\ At(bytes, pos + Len(e), s)
  <2> HIDE DEF e
  <2> QED
    BY <1>1, AtConcat
<1>3. DecodeVarint(bytes, pos) = Some(Len(s), pos + Len(e))
  BY <1>1, <1>2, VarintReads
<1> HIDE DEF e
<1>4. Take(bytes, pos + Len(e), Len(s)) = Some(s, (pos + Len(e)) + Len(s))
  BY <1>1, <1>2, TakeReads
<1>5. (pos + Len(e)) + Len(s) = pos + Len(EncodeString(s))
  BY <1>1, <1>2 DEF At
<1> QED
  BY <1>3, <1>4, <1>5, Readers, Answers

(* And so is a text.                                                       *)
LEMMA StringReads ==
    ASSUME NEW bytes \in Seq(Byte), NEW pos, NEW s, IsBytes(s), IsText(s),
           At(bytes, pos, EncodeString(s))
    PROVE  DecodeString(bytes, pos) = Some(s, pos + Len(EncodeString(s)))
BY BytesRead, Readers, Answers

(* The tag of a name in a table.                                           *)
LEMMA TagReads ==
    ASSUME NEW bytes \in Seq(Byte), NEW pos, NEW tags, Len(tags) \in 0..6,
           DOMAIN tags = 1..Len(tags), NEW name \in ToSet(tags)
    PROVE  /\ TagOf(name, tags) \in Byte
           /\ At(bytes, pos, <<TagOf(name, tags)>>) =>
                 DecodeTag(bytes, pos, tags) = Some(name, pos + 1)
<1> DEFINE i == CHOOSE k \in DOMAIN tags : tags[k] = name
           tag == i - 1
<1>1. i \in DOMAIN tags /\ tags[i] = name
  BY DEF ToSet
<1>2. DOMAIN tags = 1..Len(tags) /\ Len(tags) \in Nat
  OBVIOUS
<1> HIDE DEF i
<1>3. TagOf(name, tags) = tag /\ tag \in 0..5 /\ tag + 1 = i
  BY <1>1, <1>2 DEF TagOf, i
<1> HIDE DEF tag
<1>4. tag \in Byte
  BY <1>3, SmallNumbersAreBytes
<1>5. ASSUME At(bytes, pos, <<tag>>)
      PROVE  DecodeTag(bytes, pos, tags) = Some(name, pos + 1)
  <2>1. <<tag>> \in Seq(Byte) /\ Len(<<tag>>) = 1 /\ <<tag>>[1] = tag
    BY <1>4
  <2>2. Take(bytes, pos, 1) = Some(<<tag>>, pos + 1)
    BY <1>5, <2>1, TakeReads
  <2> QED
    BY <1>1, <1>3, <2>1, <2>2, Readers, Answers
<1> QED
  BY <1>3, <1>4, <1>5

(* The tables of tags.                                                     *)
LEMMA Tables ==
    /\ Len(ValueTags) = 6 /\ DOMAIN ValueTags = 1..6
    /\ Len(OpTags) = 5 /\ DOMAIN OpTags = 1..5
    /\ ToSet(ValueTags) = {"None", "Int", "Float", "Text", "Ident", "Bytes"}
    /\ ToSet(OpTags) = {"Insert", "Delete", "Update", "Relabel", "Move"}
<1>1. Len(ValueTags) = 6 /\ DOMAIN ValueTags = 1..6
  BY DEF ValueTags
<1>2. Len(OpTags) = 5 /\ DOMAIN OpTags = 1..5
  BY DEF OpTags
<1>3. /\ DOMAIN ValueTags = {1, 2, 3, 4, 5, 6}
      /\ ValueTags[1] = "None" /\ ValueTags[2] = "Int" /\ ValueTags[3] = "Float"
      /\ ValueTags[4] = "Text" /\ ValueTags[5] = "Ident" /\ ValueTags[6] = "Bytes"
  BY DEF ValueTags
<1>4. /\ DOMAIN OpTags = {1, 2, 3, 4, 5}
      /\ OpTags[1] = "Insert" /\ OpTags[2] = "Delete" /\ OpTags[3] = "Update"
      /\ OpTags[4] = "Relabel" /\ OpTags[5] = "Move"
  BY DEF OpTags
<1>5. ToSet(ValueTags) = {"None", "Int", "Float", "Text", "Ident", "Bytes"}
  BY <1>3 DEF ToSet
<1>6. ToSet(OpTags) = {"Insert", "Delete", "Update", "Relabel", "Move"}
  BY <1>4 DEF ToSet
<1> QED
  BY <1>1, <1>2, <1>5, <1>6

(* What follows the tag of a value.                                        *)
Payload(type, bytes, pos) ==
    CASE type = "None" -> Some(<< >>, pos)
      [] type \in {"Int", "Float"} -> Take(bytes, pos, FixedLen)
      [] type \in {"Text", "Ident"} -> DecodeString(bytes, pos)
      [] type = "Bytes" -> DecodeBytes(bytes, pos)

(* A value from its tag and from what follows it.                          *)
ValueOf(t, r) ==
    IF t.ok THEN IF r.ok THEN Some([type |-> t.value, bytes |-> r.value], r.pos) ELSE None
    ELSE None

(* decode_value in full.                                                   *)
LEMMA ValueReader ==
    ASSUME NEW bytes, NEW pos
    PROVE  DecodeValue(bytes, pos) =
               ValueOf(DecodeTag(bytes, pos, ValueTags),
                       Payload(DecodeTag(bytes, pos, ValueTags).value, bytes,
                               DecodeTag(bytes, pos, ValueTags).pos))
BY DEF DecodeValue, Payload, ValueOf, Then

(* What a value is written as.                                             *)
LEMMA EncodeValueParts ==
    ASSUME NEW v, IsValue(v)
    PROVE  \E body \in Seq(Byte) :
              /\ TagOf(v.type, ValueTags) \in Byte
              /\ EncodeValue(v) = <<TagOf(v.type, ValueTags)>> \o body
              /\ EncodeValue(v) \in Seq(Byte) /\ Len(EncodeValue(v)) = 1 + Len(body)
              /\ body = IF v.type \in {"None", "Int", "Float"} THEN v.bytes
                        ELSE EncodeString(v.bytes)
<1> DEFINE tag == TagOf(v.type, ValueTags)
           body == IF v.type \in {"None", "Int", "Float"} THEN v.bytes ELSE EncodeString(v.bytes)
<1>1. v.type \in {"None", "Int", "Float", "Text", "Ident", "Bytes"}
  BY Tables DEF IsValue
<1>2. body \in Seq(Byte)
  <2>1. CASE v.type = "None"
    <3>1. body = << >> /\ << >> \in Seq(Byte)
      BY <2>1 DEF IsValue
    <3> HIDE DEF body
    <3> QED
      BY <3>1
  <2>2. CASE v.type \in {"Int", "Float"}
    BY <2>2 DEF IsValue
  <2>3. CASE v.type \in {"Text", "Ident", "Bytes"}
    BY <2>3, EncodeStringParts DEF IsValue
  <2> QED
    BY <1>1, <2>1, <2>2, <2>3
<1>3. tag \in Byte
  <2>1. v.type \in ToSet(ValueTags) /\ Len(ValueTags) \in 0..6
        /\ DOMAIN ValueTags = 1..Len(ValueTags)
    BY Tables DEF IsValue
  <2>2. << >> \in Seq(Byte)
    OBVIOUS
  <2> QED
    BY <2>1, <2>2, TagReads
<1>4. EncodeValue(v) = <<tag>> \o body
  BY DEF EncodeValue
<1> HIDE DEF tag, body
<1>5. <<tag>> \in Seq(Byte) /\ Len(<<tag>>) = 1
  BY <1>3
<1>6. EncodeValue(v) \in Seq(Byte) /\ Len(EncodeValue(v)) = 1 + Len(body)
  BY <1>2, <1>4, <1>5, ConcatProperties
<1> QED
  BY <1>2, <1>3, <1>4, <1>6 DEF tag, body

(* decode_value gives back what encode_value was given.                    *)
LEMMA ValueReads ==
    ASSUME NEW bytes \in Seq(Byte), NEW pos, NEW v, IsValue(v), At(bytes, pos, EncodeValue(v))
    PROVE  DecodeValue(bytes, pos) = Some(v, pos + Len(EncodeValue(v)))
<1> DEFINE tag == TagOf(v.type, ValueTags)
<1>1. PICK body \in Seq(Byte) :
              /\ tag \in Byte
              /\ EncodeValue(v) = <<tag>> \o body
              /\ EncodeValue(v) \in Seq(Byte) /\ Len(EncodeValue(v)) = 1 + Len(body)
              /\ body = IF v.type \in {"None", "Int", "Float"} THEN v.bytes
                        ELSE EncodeString(v.bytes)
  BY EncodeValueParts
<1>2. pos \in Nat /\ Len(body) \in Nat
  BY DEF At
<1>3. At(bytes, pos, <<tag>>) /\ At(bytes, pos + 1, body)
  <2> HIDE DEF tag
  <2>1. <<tag>> \in Seq(Byte) /\ Len(<<tag>>) = 1
    BY <1>1
  <2>2. At(bytes, pos, <<tag>> \o body)
    BY <1>1
  <2>3. At(bytes, pos, <<tag>>) /\ At(bytes, pos + Len(<<tag>>), body)
    BY <2>1, <2>2, AtConcat
  <2> QED
    BY <2>1, <2>3
<1>4. DecodeTag(bytes, pos, ValueTags) = Some(v.type, pos + 1)
  <2>1. v.type \in ToSet(ValueTags) /\ Len(ValueTags) \in 0..6
        /\ DOMAIN ValueTags = 1..Len(ValueTags)
    BY Tables DEF IsValue
  <2> QED
    BY <1>3, <2>1, TagReads
<1> HIDE DEF tag
<1>5. Payload(v.type, bytes, pos + 1) = Some(v.bytes, (pos + 1) + Len(body))
  <2>1. v.type \in {"None", "Int", "Float", "Text", "Ident", "Bytes"}
    BY Tables DEF IsValue
  <2>2. CASE v.type = "None"
    <3>1. body = << >> /\ v.bytes = << >> /\ Len(body) = 0
      BY <1>1, <2>2 DEF IsValue
    <3> QED
      BY <1>2, <2>2, <3>1 DEF Payload
  <2>3. CASE v.type \in {"Int", "Float"}
    <3>1. body = v.bytes /\ Len(body) = FixedLen
      BY <1>1, <2>3 DEF IsValue
    <3>2. Take(bytes, pos + 1, FixedLen) = Some(v.bytes, (pos + 1) + Len(body))
      BY <1>1, <1>3, <3>1, TakeReads
    <3> QED
      BY <2>3, <3>2 DEF Payload
  <2>4. CASE v.type \in {"Text", "Ident"}
    <3>1. body = EncodeString(v.bytes) /\ IsBytes(v.bytes) /\ IsText(v.bytes)
      BY <1>1, <2>4 DEF IsValue
    <3>2. DecodeString(bytes, pos + 1) = Some(v.bytes, (pos + 1) + Len(body))
      BY <1>3, <3>1, StringReads
    <3> QED
      BY <2>4, <3>2 DEF Payload
  <2>5. CASE v.type = "Bytes"
    <3>1. body = EncodeString(v.bytes) /\ IsBytes(v.bytes)
      BY <1>1, <2>5 DEF IsValue
    <3>2. DecodeBytes(bytes, pos + 1) = Some(v.bytes, (pos + 1) + Len(body))
      BY <1>3, <3>1, BytesRead
    <3> QED
      BY <2>5, <3>2 DEF Payload
  <2> QED
    BY <2>1, <2>2, <2>3, <2>4, <2>5
<1>6. DecodeValue(bytes, pos) = Some([type |-> v.type, bytes |-> v.bytes], (pos + 1) + Len(body))
  BY <1>4, <1>5, ValueReader, Answers DEF ValueOf
<1>7. (pos + 1) + Len(body) = pos + Len(EncodeValue(v))
  <2>1. Len(EncodeValue(v)) = 1 + Len(body)
    BY <1>1
  <2> QED
    BY <1>2, <2>1
<1> QED
  BY <1>6, <1>7 DEF IsValue

----------------------------------------------------------------------------
(* Fields and operations.                                                  *)

FieldTypes == {"u32", "usize", "kind", "string", "value"}

(* What a field comes back as.                                             *)
Kept(type, x) == IF type = "usize" THEN x % IdMod ELSE x

(* Every field comes back, an index without the bits beyond the 32nd.      *)
LEMMA FieldReads ==
    ASSUME NEW type \in FieldTypes, NEW x, IsField(type, x)
    PROVE  /\ EncodeField(type, x) \in Seq(Byte)
           /\ \A bytes \in Seq(Byte) : \A pos : At(bytes, pos, EncodeField(type, x)) =>
                 DecodeField(type, bytes, pos)
                     = Some(Kept(type, x), pos + Len(EncodeField(type, x)))
<1>1. CASE type = "u32"
  <2>1. x \in U32 /\ EncodeField(type, x) = EncodeVarint(x) /\ Kept(type, x) = x
        /\ \A bytes, pos : DecodeField(type, bytes, pos) = DecodeVarint(bytes, pos)
    BY <1>1 DEF IsField, EncodeField, DecodeField, Kept
  <2> QED
    BY <2>1, VarintReads, EncodeVarintType
<1>2. CASE type = "usize"
  <2>1. x \in Nat /\ EncodeField(type, x) = EncodeVarint(x % IdMod) /\ Kept(type, x) = x % IdMod
        /\ \A bytes, pos : DecodeField(type, bytes, pos) = DecodeVarint(bytes, pos)
    BY <1>2 DEF IsField, EncodeField, EncodeUsize, DecodeField, Kept
  <2>2. x % IdMod \in U32
    BY <2>1, WidthAssumption DEF U32
  <2> QED
    BY <2>1, <2>2, VarintReads, EncodeVarintType
<1>3. CASE type = "kind"
  <2>1. x \in KindCodes \union {Custom} /\ EncodeField(type, x) = <<x>> /\ Kept(type, x) = x
    BY <1>3 DEF IsField, EncodeField, Kept
  <2>2. x \in Byte /\ KindFrom(x) = x
    BY <2>1, WidthAssumption DEF KindFrom, Custom, Byte
  <2>3. <<x>> \in Seq(Byte) /\ Len(<<x>>) = 1 /\ <<x>>[1] = x
    BY <2>2
  <2>4. \A bytes, pos : DecodeField(type, bytes, pos) =
            IF Take(bytes, pos, 1).ok
            THEN Some(KindFrom(Take(bytes, pos, 1).value[1]), Take(bytes, pos, 1).pos) ELSE None
    BY <1>3 DEF DecodeField, Then
  <2>5. ASSUME NEW bytes \in Seq(Byte), NEW pos, At(bytes, pos, <<x>>)
        PROVE  DecodeField(type, bytes, pos) = Some(x, pos + 1)
    <3>1. Take(bytes, pos, 1) = Some(<<x>>, pos + 1)
      BY <2>3, <2>5, TakeReads
    <3> QED
      BY <2>2, <2>3, <2>4, <3>1, Answers
  <2> QED
    BY <2>1, <2>3, <2>5
<1>4. CASE type = "string"
  <2>1. IsBytes(x) /\ IsText(x) /\ EncodeField(type, x) = EncodeString(x) /\ Kept(type, x) = x
        /\ \A bytes, pos : DecodeField(type, bytes, pos) = DecodeString(bytes, pos)
    BY <1>4 DEF IsField, EncodeField, DecodeField, Kept
  <2> QED
    BY <2>1, StringReads, EncodeStringParts
<1>5. CASE type = "value"
  <2>1. IsValue(x) /\ EncodeField(type, x) = EncodeValue(x) /\ Kept(type, x) = x
        /\ \A bytes, pos : DecodeField(type, bytes, pos) = DecodeValue(bytes, pos)
    BY <1>5 DEF IsField, EncodeField, DecodeField, Kept
  <2>2. EncodeValue(x) \in Seq(Byte)
    BY <2>1, EncodeValueParts
  <2> QED
    BY <2>1, <2>2, ValueReads
<1> QED
  BY <1>1, <1>2, <1>3, <1>4, <1>5 DEF FieldTypes

----------------------------------------------------------------------------
(* Lists of fields and of operations.                                      *)

(* What FlattenSeq puts together step by step.                             *)
LEMMA FlattenSteps ==
    ASSUME NEW S, NEW ss \in Seq(S), ss # << >>
    PROVE  \E f : /\ f[1] = ss[1]
                  /\ \A i \in 1..Len(ss) : i # 1 => f[i] = f[i - 1] \o ss[i]
                  /\ FlattenSeq(ss) = f[Len(ss)]
<1> DEFINE n == Len(ss)
           Def(m, g) == [i \in 1..m |-> IF i = 1 THEN ss[i] ELSE g[i - 1] \o ss[i]]
           T == {m \in Nat : m = 0 \/ \E g : g = Def(m, g)}
           f == CHOOSE g : g = Def(n, g)
<1>1. n \in Nat /\ n # 0
  BY EmptySeq
<1>2. ASSUME NEW m \in Nat, m \in T
      PROVE  m + 1 \in T
  <2>1. CASE m = 0
    <3> DEFINE h == [i \in 1..1 |-> ss[i]]
    <3>1. h = Def(1, h)
      OBVIOUS
    <3>2. m + 1 \in Nat /\ m + 1 = 1
      BY <2>1
    <3> HIDE DEF h, Def
    <3> QED
      BY <3>1, <3>2
  <2>2. CASE m # 0
    <3>1. PICK g : g = Def(m, g)
      BY <1>2, <2>2
    <3> DEFINE h == [i \in 1..(m + 1) |-> IF i = m + 1 THEN g[m] \o ss[m + 1] ELSE g[i]]
    <3>2. \A i \in 1..(m + 1) : h[i] = IF i = 1 THEN ss[i] ELSE h[i - 1] \o ss[i]
      <4> TAKE i \in 1..(m + 1)
      <4>1. CASE i = m + 1
        <5>1. i # 1 /\ i - 1 = m /\ m \in 1..(m + 1) /\ m # m + 1
          BY <2>2, <4>1
        <5>2. h[m] = g[m]
          BY <5>1
        <5> QED
          BY <4>1, <5>1, <5>2
      <4>2. CASE i # m + 1
        <5>1. i \in 1..m /\ (i # 1 => i - 1 \in 1..m)
          BY <4>2
        <5>2. h[i] = g[i] /\ (i # 1 => h[i - 1] = g[i - 1])
          BY <5>1
        <5>3. g[i] = IF i = 1 THEN ss[i] ELSE g[i - 1] \o ss[i]
          BY <3>1, <5>1
        <5> QED
          BY <5>2, <5>3
      <4> QED
        BY <4>1, <4>2
    <3>3. h = Def(m + 1, h)
      <4> HIDE DEF h
      <4>1. DOMAIN h = 1..(m + 1) /\ h = [i \in 1..(m + 1) |-> h[i]]
        BY DEF h
      <4> QED
        BY <3>2, <4>1
    <3>4. m + 1 \in Nat
      OBVIOUS
    <3> HIDE DEF h, Def
    <3> QED
      BY <3>3, <3>4
  <2> QED
    BY <2>1, <2>2
<1>3. n \in T
  <2>1. 0 \in T
    OBVIOUS
  <2> HIDE DEF T
  <2> QED
    BY <1>1, <1>2, <2>1, SetInduction
<1>4. f = Def(n, f)
  BY <1>1, <1>3
<1>5. FlattenSeq(ss) = f[n]
  BY <1>1, Zenon DEF FlattenSeq
<1> HIDE DEF f
<1>6. f[1] = ss[1] /\ \A i \in 1..n : i # 1 => f[i] = f[i - 1] \o ss[i]
  <2>1. \A i \in 1..n : f[i] = IF i = 1 THEN ss[i] ELSE f[i - 1] \o ss[i]
    BY <1>4
  <2>2. 1 \in 1..n
    BY <1>1
  <2> HIDE DEF n
  <2> QED
    BY <2>1, <2>2
<1> QED
  BY <1>5, <1>6

(* The beginnings of it, from the empty one.                               *)
Beginnings(f, ss) ==
    /\ f[0] = << >>
    /\ \A i \in 1..Len(ss) : f[i] = f[i - 1] \o ss[i]
    /\ FlattenSeq(ss) = f[Len(ss)]

(* A list of lists has such beginnings, of the same elements.              *)
LEMMA FlattenParts ==
    ASSUME NEW S, NEW ss \in Seq(Seq(S))
    PROVE  \E f : Beginnings(f, ss) /\ \A i \in 0..Len(ss) : f[i] \in Seq(S)
<1>1. Len(ss) \in Nat /\ (ss # << >> => Len(ss) # 0)
  BY EmptySeq
<1>2. CASE ss = << >>
  <2> DEFINE f == [i \in 0..0 |-> << >>]
  <2>1. FlattenSeq(ss) = << >> /\ Len(ss) = 0
    BY <1>2 DEF FlattenSeq
  <2>2. f[0] = << >> /\ << >> \in Seq(S) /\ \A i \in 1..0 : FALSE
    OBVIOUS
  <2> HIDE DEF f
  <2>3. Beginnings(f, ss) /\ \A i \in 0..Len(ss) : f[i] \in Seq(S)
    <3>1. \A i \in 0..0 : i = 0
      OBVIOUS
    <3> QED
      BY <2>1, <2>2, <3>1 DEF Beginnings
  <2> QED
    BY <2>3
<1>3. CASE ss # << >>
  <2>1. PICK g : /\ g[1] = ss[1]
                 /\ \A i \in 1..Len(ss) : i # 1 => g[i] = g[i - 1] \o ss[i]
                 /\ FlattenSeq(ss) = g[Len(ss)]
    BY <1>3, FlattenSteps
  <2> DEFINE f == [i \in 0..Len(ss) |-> IF i = 0 THEN << >> ELSE g[i]]
             T == {k \in Nat : k <= Len(ss) => f[k] \in Seq(S)}
  <2>2. f[0] = << >> /\ \A i \in 1..Len(ss) : f[i] = g[i]
    BY <1>1
  <2> HIDE DEF f
  <2>3. \A i \in 1..Len(ss) : f[i] = f[i - 1] \o ss[i] /\ ss[i] \in Seq(S)
    <3> TAKE i \in 1..Len(ss)
    <3>1. ss[i] \in Seq(S)
      OBVIOUS
    <3>2. CASE i = 1
      <4>1. f[i] = ss[i] /\ f[i - 1] = << >>
        BY <2>1, <2>2, <3>2
      <4>2. << >> \o ss[i] = ss[i]
        BY <3>1, ConcatEmptySeq
      <4> QED
        BY <3>1, <4>1, <4>2
    <3>3. CASE i # 1
      <4>1. i - 1 \in 1..Len(ss)
        BY <1>1, <3>3
      <4> QED
        BY <2>1, <2>2, <3>1, <3>3, <4>1
    <3> QED
      BY <3>2, <3>3
  <2>4. \A k \in Nat : k \in T
    <3>1. 0 \in T
      <4>1. << >> \in Seq(S) /\ 0 \in Nat
        OBVIOUS
      <4>2. f[0] \in Seq(S)
        BY <2>2, <4>1
      <4> QED
        BY <4>1, <4>2
    <3>2. ASSUME NEW k \in Nat, k \in T
          PROVE  k + 1 \in T
      <4> SUFFICES ASSUME k + 1 <= Len(ss) PROVE f[k + 1] \in Seq(S)
        OBVIOUS
      <4>1. k + 1 \in 1..Len(ss) /\ (k + 1) - 1 = k /\ k <= Len(ss)
        BY <1>1
      <4>2. f[k + 1] = f[k] \o ss[k + 1] /\ ss[k + 1] \in Seq(S) /\ f[k] \in Seq(S)
        BY <2>3, <3>2, <4>1
      <4> QED
        BY <4>2, ConcatProperties
    <3> HIDE DEF T
    <3> QED
      BY <3>1, <3>2, SetInduction
  <2>5. \A i \in 0..Len(ss) : f[i] \in Seq(S)
    BY <1>1, <2>4
  <2>6. FlattenSeq(ss) = f[Len(ss)]
    BY <1>1, <1>3, <2>1, <2>2
  <2> QED
    BY <2>2, <2>3, <2>5, <2>6 DEF Beginnings
<1> QED
  BY <1>2, <1>3

(* Where each part lies.                                                   *)
LEMMA AtParts ==
    ASSUME NEW bytes \in Seq(Byte), NEW pos, NEW ss \in Seq(Seq(Byte)),
           NEW f, Beginnings(f, ss), \A i \in 0..Len(ss) : f[i] \in Seq(Byte),
           At(bytes, pos, FlattenSeq(ss))
    PROVE  \A i \in 1..Len(ss) : At(bytes, pos + Len(f[i - 1]), ss[i])
<1> DEFINE n == Len(ss)
           T == {k \in Nat : k <= n => At(bytes, pos, f[n - k])}
<1>1. n \in Nat
  OBVIOUS
<1>2. 0 \in T
  BY <1>1 DEF Beginnings
<1>3. \A i \in 1..n : At(bytes, pos, f[i]) =>
          At(bytes, pos, f[i - 1]) /\ At(bytes, pos + Len(f[i - 1]), ss[i])
  <2> SUFFICES ASSUME NEW i \in 1..n, At(bytes, pos, f[i])
               PROVE  At(bytes, pos, f[i - 1]) /\ At(bytes, pos + Len(f[i - 1]), ss[i])
    OBVIOUS
  <2>1. f[i] = f[i - 1] \o ss[i]
    BY DEF Beginnings
  <2>2. f[i - 1] \in Seq(Byte) /\ ss[i] \in Seq(Byte)
    BY <1>1
  <2> QED
    BY <2>1, <2>2, AtConcat
<1>4. ASSUME NEW k \in Nat, k \in T
      PROVE  k + 1 \in T
  <2> SUFFICES ASSUME k + 1 <= n PROVE At(bytes, pos, f[n - (k + 1)])
    OBVIOUS
  <2>1. n - k \in 1..n /\ (n - k) - 1 = n - (k + 1) /\ k <= n
    BY <1>1
  <2>2. At(bytes, pos, f[n - k])
    BY <1>4, <2>1
  <2> QED
    BY <1>3, <2>1, <2>2
<1>5. \A k \in Nat : k \in T
  <2> HIDE DEF T
  <2> QED
    BY <1>2, <1>4, SetInduction
<1>6. \A i \in 1..n : At(bytes, pos, f[i])
  <2> TAKE i \in 1..n
  <2>1. n - i \in Nat /\ n - (n - i) = i /\ n - i <= n
    BY <1>1
  <2> QED
    BY <1>5, <2>1
<1> QED
  BY <1>3, <1>6

(* n turns of a loop that reads one item after another, d[i] what is read  *)
(* in turn i, and r[i] what has been read after it.                        *)
Loop(r, d, n, pos) ==
    /\ r[0] = Some(<< >>, pos)
    /\ \A i \in 1..n :
          r[i] = IF r[i - 1].ok
                 THEN IF d[i].ok THEN Some(Append(r[i - 1].value, d[i].value), d[i].pos) ELSE None
                 ELSE None

(* Such a loop reads back a list, if each turn reads back its item.        *)
LEMMA LoopReads ==
    ASSUME NEW bytes \in Seq(Byte), NEW pos, NEW ss \in Seq(Seq(Byte)), NEW xs,
           NEW r, NEW d, Loop(r, d, Len(ss), pos), At(bytes, pos, FlattenSeq(ss)),
           \A i \in 1..Len(ss) : At(bytes, r[i - 1].pos, ss[i]) =>
               d[i] = Some(xs[i], r[i - 1].pos + Len(ss[i]))
    PROVE  r[Len(ss)] = Some([i \in 1..Len(ss) |-> xs[i]], pos + Len(FlattenSeq(ss)))
<1> DEFINE n == Len(ss)
<1>1. PICK f : Beginnings(f, ss) /\ \A i \in 0..n : f[i] \in Seq(Byte)
  BY FlattenParts
<1> DEFINE Good(k) == r[k] = Some([i \in 1..k |-> xs[i]], pos + Len(f[k]))
           T == {k \in Nat : k <= n => Good(k)}
<1>2. n \in Nat /\ pos \in Nat
  BY DEF At
<1> \A i \in 1..n : ss[i] \in Seq(Byte)
  OBVIOUS
<1>3. 0 \in T
  <2>1. [i \in 1..0 |-> xs[i]] = << >>
    OBVIOUS
  <2>2. f[0] = << >> /\ pos + Len(f[0]) = pos
    BY <1>1, <1>2 DEF Beginnings
  <2> QED
    BY <2>1, <2>2 DEF Loop
<1>4. ASSUME NEW k \in Nat, k \in T
      PROVE  k + 1 \in T
  <2> SUFFICES ASSUME k + 1 <= n PROVE Good(k + 1)
    OBVIOUS
  <2>1. k + 1 \in 1..n /\ (k + 1) - 1 = k /\ k <= n /\ k \in 0..n
    BY <1>2
  <2> DEFINE done == [i \in 1..k |-> xs[i]]
             there == pos + Len(f[k])
  <2>2. r[k] = Some(done, there)
    BY <1>4, <2>1
  <2>3. At(bytes, there, ss[k + 1])
    BY <1>1, <2>1, AtParts
  <2>4. f[k] \in Seq(Byte) /\ ss[k + 1] \in Seq(Byte) /\ f[k + 1] = f[k] \o ss[k + 1]
    <3>1. f[k] \in Seq(Byte) /\ ss[k + 1] \in Seq(Byte)
      BY <1>1, <2>1
    <3>2. f[k + 1] = f[(k + 1) - 1] \o ss[k + 1]
      BY <1>1, <2>1 DEF Beginnings
    <3> QED
      BY <2>1, <3>1, <3>2
  <2>5. there + Len(ss[k + 1]) = pos + Len(f[k + 1])
    <3>1. Len(f[k]) \in Nat /\ Len(ss[k + 1]) \in Nat /\ Len(f[k + 1]) = Len(f[k]) + Len(ss[k + 1])
      BY <2>4, ConcatProperties
    <3>2. \A a, b, c \in Nat : (a + b) + c = a + (b + c)
      OBVIOUS
    <3>3. (pos + Len(f[k])) + Len(ss[k + 1]) = pos + (Len(f[k]) + Len(ss[k + 1]))
      BY <1>2, <3>1, <3>2
    <3> QED
      BY <3>1, <3>3
  <2>6. Append(done, xs[k + 1]) = [i \in 1..(k + 1) |-> xs[i]]
    <3>1. Len(done) = k
      OBVIOUS
    <3> QED
      BY <3>1
  <2> HIDE DEF done, there
  <2>7. d[k + 1] = Some(xs[k + 1], there + Len(ss[k + 1]))
    <3>1. r[(k + 1) - 1].pos = there
      BY <2>1, <2>2, Answers
    <3>2. At(bytes, r[(k + 1) - 1].pos, ss[k + 1])
      BY <2>3, <3>1
    <3>3. d[k + 1] = Some(xs[k + 1], r[(k + 1) - 1].pos + Len(ss[k + 1]))
      BY <2>1, <3>2
    <3> QED
      BY <3>1, <3>3
  <2>8. r[k + 1] = Some(Append(done, xs[k + 1]), there + Len(ss[k + 1]))
    <3>1. r[k + 1] = IF r[(k + 1) - 1].ok
                     THEN IF d[k + 1].ok
                          THEN Some(Append(r[(k + 1) - 1].value, d[k + 1].value), d[k + 1].pos)
                          ELSE None
                     ELSE None
      BY <2>1 DEF Loop
    <3>2. r[(k + 1) - 1] = Some(done, there)
      BY <2>1, <2>2
    <3>3. r[(k + 1) - 1].ok /\ r[(k + 1) - 1].value = done
      BY <3>2, Answers
    <3>4. /\ d[k + 1].ok /\ d[k + 1].value = xs[k + 1]
          /\ d[k + 1].pos = there + Len(ss[k + 1])
      BY <2>7, Answers
    <3> QED
      BY <3>1, <3>3, <3>4
  <2> QED
    BY <2>5, <2>6, <2>8
<1>5. n \in T
  <2> HIDE DEF T
  <2> QED
    BY <1>2, <1>3, <1>4, SetInduction
<1> QED
  BY <1>1, <1>2, <1>5 DEF Beginnings

(* The fields of an operation are read by such a loop.                     *)
FieldTurns(r, d, types, bytes, pos) ==
    /\ Loop(r, d, Len(types), pos)
    /\ DecodeFields(types, bytes, pos) = r[Len(types)]
    /\ \A i \in 1..Len(types) : d[i] = DecodeField(types[i], bytes, r[i - 1].pos)

(* decode_op goes through its fields in such turns.                        *)
LEMMA FieldsLoop ==
    ASSUME NEW types, Len(types) \in Nat, NEW bytes, NEW pos
    PROVE  \E r, d : FieldTurns(r, d, types, bytes, pos)
<1> DEFINE turn(i, a) == IF i = 0 THEN Some(<< >>, pos)
                         ELSE Then(a, LAMBDA done, p :
                                  Then(DecodeField(types[i], bytes, p), LAMBDA x, q : Some(Append(done, x), q)))
           Def(m, g) == [i \in 0..m |-> turn(i, g[i - 1])]
           T == {m \in Nat : \E g : g = Def(m, g)}
           f == CHOOSE g : g = Def(Len(types), g)
           e == [i \in 1..Len(types) |-> DecodeField(types[i], bytes, f[i - 1].pos)]
<1>1. ASSUME NEW m \in Nat, m \in T
      PROVE  m + 1 \in T
  <2>1. PICK g : g = Def(m, g)
    BY <1>1
  <2> DEFINE h == [i \in 0..(m + 1) |-> IF i = m + 1 THEN turn(m + 1, g[m]) ELSE g[i]]
  <2>2. \A a, b : turn(0, a) = turn(0, b)
    OBVIOUS
  <2>3. \A i \in 0..m : g[i] = turn(i, g[i - 1])
    BY <2>1
  <2> HIDE DEF turn
  <2>4. \A i \in 0..(m + 1) : h[i] = turn(i, h[i - 1])
    <3> TAKE i \in 0..(m + 1)
    <3>1. CASE i = m + 1
      <4>1. i # 0 /\ i - 1 = m /\ m \in 0..(m + 1) /\ m # m + 1
        BY <3>1
      <4> QED
        BY <3>1, <4>1
    <3>2. CASE i # m + 1 /\ i # 0
      <4>1. i \in 0..m /\ i - 1 \in 0..m /\ i - 1 \in 0..(m + 1) /\ i - 1 # m + 1
        BY <3>2
      <4>2. h[i] = g[i] /\ h[i - 1] = g[i - 1]
        BY <3>2, <4>1
      <4> QED
        BY <2>3, <4>1, <4>2
    <3>3. CASE i = 0
      <4>1. 0 \in 0..m /\ 0 \in 0..(m + 1) /\ 0 # m + 1
        OBVIOUS
      <4>2. h[0] = g[0] /\ g[0] = turn(0, g[0 - 1])
        BY <2>3, <4>1
      <4> HIDE DEF h
      <4> QED
        BY <2>2, <3>3, <4>2
    <3> QED
      BY <3>1, <3>2, <3>3
  <2>5. h = Def(m + 1, h)
    <3> HIDE DEF h
    <3>1. DOMAIN h = 0..(m + 1) /\ h = [i \in 0..(m + 1) |-> h[i]]
      BY DEF h
    <3> QED
      BY <2>4, <3>1
  <2>6. m + 1 \in Nat
    OBVIOUS
  <2> HIDE DEF h, Def
  <2> QED
    BY <2>5, <2>6
<1>2. Len(types) \in T
  <2>1. 0 \in T
    <3> DEFINE h == [i \in 0..0 |-> Some(<< >>, pos)]
    <3>1. h = Def(0, h)
      OBVIOUS
    <3> HIDE DEF h, Def
    <3> QED
      BY <3>1
  <2> HIDE DEF T
  <2> QED
    BY <1>1, <2>1, SetInduction
<1>3. f = Def(Len(types), f)
  BY <1>2
<1>4. DecodeFields(types, bytes, pos) = f[Len(types)]
  BY Zenon DEF DecodeFields
<1>5. \A i \in 0..Len(types) : f[i] = turn(i, f[i - 1])
  <2> HIDE DEF f, turn
  <2> QED
    BY <1>3
<1> HIDE DEF f
<1>6. \A i \in 1..Len(types) : e[i] = DecodeField(types[i], bytes, f[i - 1].pos)
  OBVIOUS
<1> HIDE DEF e
<1>7. Loop(f, e, Len(types), pos)
  <2>1. f[0] = Some(<< >>, pos)
    <3>1. \A a : turn(0, a) = Some(<< >>, pos)
      OBVIOUS
    <3>2. 0 \in 0..Len(types)
      OBVIOUS
    <3> HIDE DEF turn
    <3> QED
      BY <1>5, <3>1, <3>2
  <2>2. ASSUME NEW i \in 1..Len(types)
        PROVE  f[i] = IF f[i - 1].ok
                      THEN IF e[i].ok
                           THEN Some(Append(f[i - 1].value, e[i].value), e[i].pos) ELSE None
                      ELSE None
    <3>1. i \in 0..Len(types) /\ i # 0
      OBVIOUS
    <3>2. f[i] = turn(i, f[i - 1]) /\ e[i] = DecodeField(types[i], bytes, f[i - 1].pos)
      BY <1>5, <1>6, <3>1
    <3> QED
      BY <3>1, <3>2 DEF Then
  <2> QED
    BY <2>1, <2>2 DEF Loop
<1> QED
  BY <1>4, <1>6, <1>7 DEF FieldTurns

(* And so are the operations of a patch.                                   *)
OpTurns(r, d, n, bytes, pos) ==
    /\ Loop(r, d, n, pos)
    /\ DecodeOps(n, bytes, pos) = r[n]
    /\ \A i \in 1..n : d[i] = DecodeOp(bytes, r[i - 1].pos)

(* decode_patch goes through its operations in such turns.                 *)
LEMMA OpsLoop ==
    ASSUME NEW n \in Nat, NEW bytes, NEW pos
    PROVE  \E r, d : OpTurns(r, d, n, bytes, pos)
<1> DEFINE turn(i, a) == IF i = 0 THEN Some(<< >>, pos)
                         ELSE Then(a, LAMBDA done, p :
                                  Then(DecodeOp(bytes, p), LAMBDA x, q : Some(Append(done, x), q)))
           Def(m, g) == [i \in 0..m |-> turn(i, g[i - 1])]
           T == {m \in Nat : \E g : g = Def(m, g)}
           f == CHOOSE g : g = Def(n, g)
           e == [i \in 1..n |-> DecodeOp(bytes, f[i - 1].pos)]
<1>1. ASSUME NEW m \in Nat, m \in T
      PROVE  m + 1 \in T
  <2>1. PICK g : g = Def(m, g)
    BY <1>1
  <2> DEFINE h == [i \in 0..(m + 1) |-> IF i = m + 1 THEN turn(m + 1, g[m]) ELSE g[i]]
  <2>2. \A a, b : turn(0, a) = turn(0, b)
    OBVIOUS
  <2>3. \A i \in 0..m : g[i] = turn(i, g[i - 1])
    BY <2>1
  <2> HIDE DEF turn
  <2>4. \A i \in 0..(m + 1) : h[i] = turn(i, h[i - 1])
    <3> TAKE i \in 0..(m + 1)
    <3>1. CASE i = m + 1
      <4>1. i # 0 /\ i - 1 = m /\ m \in 0..(m + 1) /\ m # m + 1
        BY <3>1
      <4> QED
        BY <3>1, <4>1
    <3>2. CASE i # m + 1 /\ i # 0
      <4>1. i \in 0..m /\ i - 1 \in 0..m /\ i - 1 \in 0..(m + 1) /\ i - 1 # m + 1
        BY <3>2
      <4>2. h[i] = g[i] /\ h[i - 1] = g[i - 1]
        BY <3>2, <4>1
      <4> QED
        BY <2>3, <4>1, <4>2
    <3>3. CASE i = 0
      <4>1. 0 \in 0..m /\ 0 \in 0..(m + 1) /\ 0 # m + 1
        OBVIOUS
      <4>2. h[0] = g[0] /\ g[0] = turn(0, g[0 - 1])
        BY <2>3, <4>1
      <4> HIDE DEF h
      <4> QED
        BY <2>2, <3>3, <4>2
    <3> QED
      BY <3>1, <3>2, <3>3
  <2>5. h = Def(m + 1, h)
    <3> HIDE DEF h
    <3>1. DOMAIN h = 0..(m + 1) /\ h = [i \in 0..(m + 1) |-> h[i]]
      BY DEF h
    <3> QED
      BY <2>4, <3>1
  <2>6. m + 1 \in Nat
    OBVIOUS
  <2> HIDE DEF h, Def
  <2> QED
    BY <2>5, <2>6
<1>2. n \in T
  <2>1. 0 \in T
    <3> DEFINE h == [i \in 0..0 |-> Some(<< >>, pos)]
    <3>1. h = Def(0, h)
      OBVIOUS
    <3> HIDE DEF h, Def
    <3> QED
      BY <3>1
  <2> HIDE DEF T
  <2> QED
    BY <1>1, <2>1, SetInduction
<1>3. f = Def(n, f)
  BY <1>2
<1>4. DecodeOps(n, bytes, pos) = f[n]
  BY Zenon DEF DecodeOps
<1>5. \A i \in 0..n : f[i] = turn(i, f[i - 1])
  <2> HIDE DEF f, turn
  <2> QED
    BY <1>3
<1> HIDE DEF f
<1>6. \A i \in 1..n : e[i] = DecodeOp(bytes, f[i - 1].pos)
  OBVIOUS
<1> HIDE DEF e
<1>7. Loop(f, e, n, pos)
  <2>1. f[0] = Some(<< >>, pos)
    <3>1. \A a : turn(0, a) = Some(<< >>, pos)
      OBVIOUS
    <3>2. 0 \in 0..n
      OBVIOUS
    <3> HIDE DEF turn
    <3> QED
      BY <1>5, <3>1, <3>2
  <2>2. ASSUME NEW i \in 1..n
        PROVE  f[i] = IF f[i - 1].ok
                      THEN IF e[i].ok
                           THEN Some(Append(f[i - 1].value, e[i].value), e[i].pos) ELSE None
                      ELSE None
    <3>1. i \in 0..n /\ i # 0
      OBVIOUS
    <3>2. f[i] = turn(i, f[i - 1]) /\ e[i] = DecodeOp(bytes, f[i - 1].pos)
      BY <1>5, <1>6, <3>1
    <3> QED
      BY <3>1, <3>2 DEF Then
  <2> QED
    BY <2>1, <2>2 DEF Loop
<1> QED
  BY <1>4, <1>6, <1>7 DEF OpTurns

(* The fields of every kind of operation.                                  *)
LEMMA FieldTables ==
    ASSUME NEW op \in ToSet(OpTags)
    PROVE  /\ FieldsRead[op] = FieldsWritten[op]
           /\ Len(FieldsWritten[op]) \in Nat
           /\ DOMAIN FieldsWritten[op] = 1..Len(FieldsWritten[op])
           /\ \A i \in DOMAIN FieldsWritten[op] : FieldsWritten[op][i] \in FieldTypes
<1>1. op \in {"Insert", "Delete", "Update", "Relabel", "Move"}
  BY Tables
<1>2. CASE op = "Insert"
  <2>1. FieldsWritten[op] = <<"u32", "usize", "kind", "string", "value">>
        /\ FieldsRead[op] = <<"u32", "usize", "kind", "string", "value">>
    BY <1>2 DEF FieldsWritten, FieldsRead
  <2> QED
    BY <2>1 DEF FieldTypes
<1>3. CASE op = "Delete"
  <2>1. FieldsWritten[op] = <<"u32">> /\ FieldsRead[op] = <<"u32">>
    BY <1>3 DEF FieldsWritten, FieldsRead
  <2> QED
    BY <2>1 DEF FieldTypes
<1>4. CASE op = "Update"
  <2>1. FieldsWritten[op] = <<"u32", "value", "value">>
        /\ FieldsRead[op] = <<"u32", "value", "value">>
    BY <1>4 DEF FieldsWritten, FieldsRead
  <2> QED
    BY <2>1 DEF FieldTypes
<1>5. CASE op = "Relabel"
  <2>1. FieldsWritten[op] = <<"u32", "string", "string">>
        /\ FieldsRead[op] = <<"u32", "string", "string">>
    BY <1>5 DEF FieldsWritten, FieldsRead
  <2> QED
    BY <2>1 DEF FieldTypes
<1>6. CASE op = "Move"
  <2>1. FieldsWritten[op] = <<"u32", "u32", "usize">>
        /\ FieldsRead[op] = <<"u32", "u32", "usize">>
    BY <1>6 DEF FieldsWritten, FieldsRead
  <2> QED
    BY <2>1 DEF FieldTypes
<1> QED
  BY <1>1, <1>2, <1>3, <1>4, <1>5, <1>6

(* decode_op in full.                                                      *)
OpOf(t, r) ==
    IF t.ok THEN IF r.ok THEN Some([op |-> t.value, fields |-> r.value], r.pos) ELSE None
    ELSE None

(* decode_op is a tag and then the fields the tag calls for.               *)
LEMMA OpReader ==
    ASSUME NEW bytes, NEW pos
    PROVE  DecodeOp(bytes, pos) =
               OpOf(DecodeTag(bytes, pos, OpTags),
                    DecodeFields(FieldsRead[DecodeTag(bytes, pos, OpTags).value], bytes,
                                 DecodeTag(bytes, pos, OpTags).pos))
BY DEF DecodeOp, OpOf, Then

(* What is left of an operation.                                           *)
LEMMA NarrowedOp ==
    ASSUME NEW o, IsOp(o)
    PROVE  /\ Len(FieldsWritten[o.op]) \in Nat
           /\ DOMAIN o.fields = 1..Len(FieldsWritten[o.op])
           /\ Narrowed(o) =
                 [op |-> o.op, fields |-> [i \in 1..Len(FieldsWritten[o.op]) |->
                                              Kept(FieldsWritten[o.op][i], o.fields[i])]]
<1> DEFINE n == Len(FieldsWritten[o.op])
<1>1. n \in Nat /\ DOMAIN o.fields = 1..n
  BY FieldTables DEF IsOp
<1>2. DOMAIN o = {"op", "fields"} /\ o = [op |-> o.op, fields |-> o.fields]
  BY DEF IsOp
<1>3. [i \in 1..n |-> IF FieldsWritten[o.op][i] = "usize" THEN o.fields[i] % IdMod ELSE o.fields[i]]
          = [i \in 1..n |-> Kept(FieldsWritten[o.op][i], o.fields[i])]
  BY DEF Kept
<1>4. \A a, b, x : [[op |-> a, fields |-> b] EXCEPT !.fields = x] = [op |-> a, fields |-> x]
  OBVIOUS
<1>5. Narrowed(o) = [op |-> o.op, fields |-> [i \in DOMAIN o.fields |->
                        IF FieldsWritten[o.op][i] = "usize" THEN o.fields[i] % IdMod ELSE o.fields[i]]]
  BY <1>2, <1>4 DEF Narrowed
<1> QED
  BY <1>1, <1>3, <1>5

(* decode_op gives back what encode_op was given.                          *)
LEMMA OpReads ==
    ASSUME NEW o, IsOp(o)
    PROVE  /\ EncodeOp(o) \in Seq(Byte)
           /\ \A bytes \in Seq(Byte) : \A pos : At(bytes, pos, EncodeOp(o)) =>
                 DecodeOp(bytes, pos) = Some(Narrowed(o), pos + Len(EncodeOp(o)))
<1> DEFINE types == FieldsWritten[o.op]
           n == Len(types)
           ss == [i \in 1..n |-> EncodeField(types[i], o.fields[i])]
           tag == TagOf(o.op, OpTags)
           body == FlattenSeq(ss)
           xs == [i \in 1..n |-> Kept(types[i], o.fields[i])]
<1>1. n \in Nat /\ DOMAIN o.fields = 1..n /\ DOMAIN types = 1..n
      /\ Narrowed(o) = [op |-> o.op, fields |-> xs]
  BY NarrowedOp, FieldTables DEF IsOp
<1>2. \A i \in 1..n : types[i] \in FieldTypes /\ IsField(types[i], o.fields[i])
  BY <1>1, FieldTables DEF IsOp
<1>3. ss \in Seq(Seq(Byte)) /\ Len(ss) = n
  <2>1. \A i \in 1..n : EncodeField(types[i], o.fields[i]) \in Seq(Byte)
    BY <1>2, FieldReads
  <2> QED
    BY <1>1, <2>1
<1>4. EncodeOp(o) = <<tag>> \o body
  BY <1>1 DEF EncodeOp
<1>5. \A i \in 1..n : ss[i] = EncodeField(types[i], o.fields[i]) /\ xs[i] = Kept(types[i], o.fields[i])
  OBVIOUS
<1>6. xs = [i \in 1..n |-> xs[i]]
  OBVIOUS
<1>7. o.op \in ToSet(OpTags) /\ Len(OpTags) \in 0..6 /\ DOMAIN OpTags = 1..Len(OpTags)
      /\ FieldsRead[o.op] = types
  BY Tables, FieldTables DEF IsOp
<1>8. tag \in Byte
  <2>1. << >> \in Seq(Byte)
    OBVIOUS
  <2> QED
    BY <1>7, <2>1, TagReads
<1> HIDE DEF xs, ss, n, types
<1>9. body \in Seq(Byte)
  <2>1. PICK f : Beginnings(f, ss) /\ \A i \in 0..Len(ss) : f[i] \in Seq(Byte)
    BY <1>3, FlattenParts
  <2> QED
    BY <1>1, <1>3, <2>1 DEF Beginnings
<1> HIDE DEF body
<1>10. <<tag>> \in Seq(Byte) /\ Len(<<tag>>) = 1
  BY <1>8
<1>11. EncodeOp(o) \in Seq(Byte) /\ Len(EncodeOp(o)) = 1 + Len(body) /\ Len(body) \in Nat
  BY <1>4, <1>9, <1>10, ConcatProperties
<1>12. ASSUME NEW bytes \in Seq(Byte), NEW pos, At(bytes, pos, EncodeOp(o))
       PROVE  DecodeOp(bytes, pos) = Some(Narrowed(o), pos + Len(EncodeOp(o)))
  <2>1. At(bytes, pos, <<tag>>) /\ At(bytes, pos + 1, body)
    <3> HIDE DEF tag
    <3>1. At(bytes, pos, <<tag>>) /\ At(bytes, pos + Len(<<tag>>), body)
      BY <1>4, <1>9, <1>10, <1>12, AtConcat
    <3> QED
      BY <1>10, <3>1
  <2>2. DecodeTag(bytes, pos, OpTags) = Some(o.op, pos + 1)
    BY <1>7, <2>1, TagReads
  <2>3. PICK r, d : /\ Loop(r, d, n, pos + 1)
                    /\ DecodeFields(types, bytes, pos + 1) = r[n]
                    /\ \A i \in 1..n : d[i] = DecodeField(types[i], bytes, r[i - 1].pos)
    <3>1. Len(types) \in Nat
      BY <1>1 DEF n
    <3>2. PICK r, d : FieldTurns(r, d, types, bytes, pos + 1)
      BY <3>1, FieldsLoop, Zenon
    <3> QED
      BY <3>2 DEF FieldTurns, n
  <2>4. \A i \in 1..n : At(bytes, r[i - 1].pos, ss[i]) =>
            d[i] = Some(xs[i], r[i - 1].pos + Len(ss[i]))
    BY <1>2, <1>5, <2>3, FieldReads
  <2>5. r[n] = Some(xs, (pos + 1) + Len(body))
    <3> DEFINE start == pos + 1
    <3>1. /\ Loop(r, d, Len(ss), start) /\ At(bytes, start, FlattenSeq(ss))
          /\ \A i \in 1..Len(ss) : At(bytes, r[i - 1].pos, ss[i]) =>
                d[i] = Some(xs[i], r[i - 1].pos + Len(ss[i]))
      BY <1>3, <2>1, <2>3, <2>4 DEF body
    <3> HIDE DEF start
    <3>2. r[Len(ss)] = Some([i \in 1..Len(ss) |-> xs[i]], start + Len(FlattenSeq(ss)))
      BY <1>3, <3>1, LoopReads
    <3> QED
      BY <1>3, <1>6, <3>2 DEF body, start
  <2>6. DecodeOp(bytes, pos) = Some([op |-> o.op, fields |-> xs], (pos + 1) + Len(body))
    BY <1>7, <2>2, <2>3, <2>5, OpReader, Answers DEF OpOf
  <2>7. (pos + 1) + Len(body) = pos + Len(EncodeOp(o))
    <3>1. pos \in Nat
      BY <1>12 DEF At
    <3>2. \A a \in Nat : (pos + 1) + a = pos + (1 + a)
      BY <3>1
    <3> QED
      BY <1>11, <3>2
  <2> QED
    BY <1>1, <2>6, <2>7
<1> QED
  BY <1>11, <1>12

(* decode_patch gives back what encode_patch was given.                    *)
LEMMA PatchReads ==
    ASSUME NEW S, NEW ops \in Seq(S), Len(ops) < IdMod, \A i \in DOMAIN ops : IsOp(ops[i])
    PROVE  /\ EncodePatch(ops) \in Seq(Byte)
           /\ \A bytes \in Seq(Byte) : At(bytes, 0, EncodePatch(ops)) =>
                 DecodePatch(bytes) =
                     Some([i \in DOMAIN ops |-> Narrowed(ops[i])], Len(EncodePatch(ops)))
<1> DEFINE n == Len(ops)
           head == EncodeVarint(n)
           ss == [i \in 1..n |-> EncodeOp(ops[i])]
           body == FlattenSeq(ss)
           xs == [i \in 1..n |-> Narrowed(ops[i])]
<1>1. n \in Nat /\ DOMAIN ops = 1..n /\ n \in U32 /\ n % IdMod = n
  BY WidthAssumption DEF U32
<1>2. EncodePatch(ops) = head \o body
  BY <1>1 DEF EncodePatch, EncodeUsize
<1>3. ss \in Seq(Seq(Byte)) /\ Len(ss) = n
  <2>1. \A i \in 1..n : EncodeOp(ops[i]) \in Seq(Byte)
    BY <1>1, OpReads
  <2> QED
    BY <1>1, <2>1
<1>4. \A i \in 1..n : ss[i] = EncodeOp(ops[i]) /\ xs[i] = Narrowed(ops[i])
  OBVIOUS
<1>5. xs = [i \in 1..n |-> xs[i]] /\ xs = [i \in DOMAIN ops |-> Narrowed(ops[i])]
  BY <1>1
<1>6. head \in Seq(Byte)
  BY <1>1, EncodeVarintType
<1> HIDE DEF xs, ss
<1>7. body \in Seq(Byte)
  <2>1. PICK f : Beginnings(f, ss) /\ \A i \in 0..Len(ss) : f[i] \in Seq(Byte)
    BY <1>3, FlattenParts
  <2> QED
    BY <1>1, <1>3, <2>1 DEF Beginnings
<1> HIDE DEF body, head, n
<1>8. /\ EncodePatch(ops) \in Seq(Byte) /\ Len(EncodePatch(ops)) = Len(head) + Len(body)
      /\ Len(head) \in Nat /\ Len(body) \in Nat
  BY <1>2, <1>6, <1>7, ConcatProperties
<1>9. ASSUME NEW bytes \in Seq(Byte), At(bytes, 0, EncodePatch(ops))
      PROVE  DecodePatch(bytes) = Some(xs, Len(EncodePatch(ops)))
  <2>1. At(bytes, 0, head) /\ At(bytes, 0 + Len(head), body)
    BY <1>2, <1>6, <1>7, <1>9, AtConcat
  <2>2. 0 + Len(head) = Len(head)
    BY <1>8
  <2>3. DecodeVarint(bytes, 0) = Some(n, Len(head))
    BY <1>1, <2>1, <2>2, VarintReads DEF head
  <2>4. PICK r, d : /\ Loop(r, d, n, Len(head))
                    /\ DecodeOps(n, bytes, Len(head)) = r[n]
                    /\ \A i \in 1..n : d[i] = DecodeOp(bytes, r[i - 1].pos)
    <3>1. PICK r, d : OpTurns(r, d, n, bytes, Len(head))
      BY <1>1, OpsLoop, Zenon
    <3> QED
      BY <3>1 DEF OpTurns
  <2>5. \A i \in 1..n : At(bytes, r[i - 1].pos, ss[i]) =>
            d[i] = Some(xs[i], r[i - 1].pos + Len(ss[i]))
    <3> SUFFICES ASSUME NEW i \in 1..n, At(bytes, r[i - 1].pos, ss[i])
                 PROVE  d[i] = Some(xs[i], r[i - 1].pos + Len(ss[i]))
      OBVIOUS
    <3>1. IsOp(ops[i]) /\ ss[i] = EncodeOp(ops[i]) /\ xs[i] = Narrowed(ops[i])
      BY <1>1, <1>4
    <3> QED
      BY <2>4, <3>1, OpReads
  <2>6. r[n] = Some(xs, Len(head) + Len(body))
    <3>1. /\ Loop(r, d, Len(ss), Len(head)) /\ At(bytes, Len(head), FlattenSeq(ss))
          /\ \A i \in 1..Len(ss) : At(bytes, r[i - 1].pos, ss[i]) =>
                d[i] = Some(xs[i], r[i - 1].pos + Len(ss[i]))
      BY <1>3, <2>1, <2>2, <2>4, <2>5 DEF body
    <3>2. r[Len(ss)] = Some([i \in 1..Len(ss) |-> xs[i]], Len(head) + Len(FlattenSeq(ss)))
      BY <1>3, <3>1, LoopReads
    <3> QED
      BY <1>3, <1>5, <3>2 DEF body
  <2>7. DecodePatch(bytes) = DecodeOps(n, bytes, Len(head))
    BY <2>3, Answers DEF DecodePatch, Then
  <2> QED
    BY <1>8, <2>4, <2>6, <2>7
<1> QED
  BY <1>5, <1>8, <1>9

----------------------------------------------------------------------------
(* The states of the codec's specification.                                *)

(* The data are bytes, and they are those of the patch when encode_patch   *)
(* wrote them.                                                             *)
CodecInv ==
    /\ patch \in Seq(Ops) /\ Len(patch) <= MaxOps
    /\ data \in Seq(Byte)
    /\ origin = "encode_patch" => data = EncodePatch(patch)

(* Any list of operations that a patch may hold can be written.            *)
LEMMA PatchIsWritten ==
    ASSUME NEW ops \in Seq(Ops), Len(ops) <= MaxOps
    PROVE  /\ EncodePatch(ops) \in Seq(Byte)
           /\ \A bytes \in Seq(Byte) : At(bytes, 0, EncodePatch(ops)) =>
                 DecodePatch(bytes) =
                     Some([i \in DOMAIN ops |-> Narrowed(ops[i])], Len(EncodePatch(ops)))
<1>1. Len(ops) \in Nat /\ Len(ops) < IdMod
  BY OpsAssumption, WidthAssumption
<1>2. \A i \in DOMAIN ops : IsOp(ops[i])
  BY OpsAssumption
<1> QED
  BY <1>1, <1>2, PatchReads

(* The data are bytes, those of the patch when they were written.          *)
THEOREM CodecInvHolds == Spec => []CodecInv
<1>1. Init => CodecInv
  <2> SUFFICES ASSUME Init PROVE CodecInv
    OBVIOUS
  <2>1. << >> \in Seq(Ops) /\ << >> \in Seq(Byte) /\ Len(<< >>) = 0 /\ 0 <= MaxOps
    BY OpsAssumption
  <2>2. EncodePatch(<< >>) \in Seq(Byte)
    BY <2>1, PatchIsWritten
  <2> QED
    BY <2>1, <2>2 DEF Init, CodecInv
<1>2. CodecInv /\ [Next]_vars => CodecInv'
  <2> SUFFICES ASSUME CodecInv, [Next]_vars PROVE CodecInv'
    OBVIOUS
  <2>1. ASSUME NEW o \in Ops, AddOp(o)
        PROVE  CodecInv'
    <3>1. patch' \in Seq(Ops) /\ Len(patch') <= MaxOps
      BY <2>1, OpsAssumption DEF CodecInv, AddOp
    <3>2. EncodePatch(patch') \in Seq(Byte)
      BY <3>1, PatchIsWritten
    <3> QED
      BY <2>1, <3>1, <3>2 DEF CodecInv, AddOp
  <2>2. ASSUME NEW b \in Byte, AddByte(b)
        PROVE  CodecInv'
    BY <2>2 DEF CodecInv, AddByte
  <2>3. CASE UNCHANGED vars
    BY <2>3 DEF CodecInv, vars
  <2> QED
    BY <2>1, <2>2, <2>3 DEF Next
<1> QED
  BY <1>1, <1>2, PTL DEF Spec

(* Every patch that encode_patch writes is read back by decode_patch.      *)
THEOREM RoundTripHolds == Spec => []RoundTrip
<1>1. CodecInv => RoundTrip
  <2> SUFFICES ASSUME CodecInv, origin = "encode_patch" PROVE RoundTrip
    BY DEF RoundTrip
  <2>1. data = EncodePatch(patch) /\ data \in Seq(Byte) /\ patch \in Seq(Ops) /\ Len(patch) <= MaxOps
    BY DEF CodecInv
  <2>2. At(data, 0, data)
    BY <2>1 DEF At
  <2> QED
    BY <2>1, <2>2, PatchIsWritten DEF RoundTrip
<1> QED
  BY <1>1, CodecInvHolds, PTL

----------------------------------------------------------------------------
(* What is read of the beginnings of the data.                             *)

(* cut is a beginning of bytes.                                            *)
Begins(cut, bytes) ==
    /\ Len(cut) <= Len(bytes)
    /\ \A i \in 1..Len(cut) : cut[i] = bytes[i]

(* Where a reader ends that started at pos.                                *)
Ends(r, pos, bytes) ==
    r.ok => r.pos \in Nat /\ pos <= r.pos /\ r.pos <= Len(bytes)

(* What a reader says of the first n bytes, when it says r of all.         *)
Cut(r, n) == IF r.ok /\ n >= r.pos THEN r ELSE None

(* A reader that started at pos said whole of the bytes and part of a      *)
(* beginning of them: the two agree as soon as all that was read is there. *)
Local(whole, part, pos, cut, bytes) ==
    /\ Ends(whole, pos, bytes)
    /\ pos <= Len(cut) => part = Cut(whole, Len(cut))

(* The loop of decode_varint_u32 ends at the last of at most n bytes, with *)
(* a number that as many groups can hold.                                  *)
Turned(a, start, n, bytes) ==
    a.ok => /\ a.pos \in Nat /\ a.value \in Nat
            /\ start < a.pos /\ a.pos <= Len(bytes)
            /\ a.pos - start \in 1..n
            /\ a.value < Capacity[a.pos - start]

(* Some number of numbers, in any case.                                    *)
LEMMA CapacityType == \A n \in 0..Groups : Capacity[n] \in Nat \ {0}
<1> DEFINE T == {n \in Nat : n <= Groups => Capacity[n] \in Nat \ {0}}
<1>1. Base \in Nat \ {0} /\ Groups \in Nat
  BY WidthAssumption
<1>2. 0 \in T
  BY CapacitySteps
<1>3. ASSUME NEW n \in Nat, n \in T
      PROVE  n + 1 \in T
  <2> SUFFICES ASSUME n + 1 <= Groups PROVE Capacity[n + 1] \in Nat \ {0}
    OBVIOUS
  <2>1. n + 1 \in 1..Groups /\ (n + 1) - 1 = n /\ n <= Groups
    BY <1>1
  <2>2. Capacity[n + 1] = Base * Capacity[n] /\ Capacity[n] \in Nat \ {0}
    BY <1>3, <2>1, CapacitySteps
  <2> QED
    BY <1>1, <2>2
<1>4. \A n \in Nat : n \in T
  <2> HIDE DEF T
  <2> QED
    BY <1>2, <1>3, SetInduction
<1> QED
  BY <1>4

(* decode_varint_u32, turn by turn: where it is and what it can have read. *)
LEMMA VarintTurns ==
    ASSUME NEW bytes \in Seq(Byte), NEW pos \in Nat, NEW r, VarintSteps(r, bytes, pos)
    PROVE  \A n \in 0..Groups : Turned(r[n], pos + Groups - n, n, bytes)
<1> DEFINE start(n) == pos + Groups - n
           T == {n \in Nat : n <= Groups => Turned(r[n], start(n), n, bytes)}
<1>1. Groups \in Nat /\ Base \in Nat /\ Base > 1
  BY WidthAssumption
<1>2. 0 \in T
  <2>1. 0 \in 0..Groups
    BY <1>1
  <2>2. r[0] = None
    BY <2>1 DEF VarintSteps
  <2> QED
    BY <2>2, Answers DEF Turned
<1>3. ASSUME NEW n \in Nat, n \in T
      PROVE  n + 1 \in T
  <2> SUFFICES ASSUME n + 1 <= Groups, r[n + 1].ok
               PROVE  Turned(r[n + 1], start(n + 1), n + 1, bytes)
    BY DEF Turned
  <2> DEFINE at == start(n + 1) + 1
  <2>1. n + 1 \in 0..Groups /\ n + 1 # 0 /\ (n + 1) - 1 = n /\ n <= Groups
        /\ n + 1 \in 1..Groups /\ 1 \in 1..Groups
    BY <1>1
  <2>2. start(n + 1) \in Nat /\ at \in Nat /\ at = pos + Groups - (n + 1) + 1 /\ at = start(n)
    BY <1>1
  <2>3. r[n + 1] = IF at > Len(bytes) THEN None
                   ELSE IF bytes[at] < Base THEN Some(bytes[at], at)
                   ELSE IF r[n].ok THEN Some((bytes[at] % Base) + Base * r[n].value, r[n].pos)
                   ELSE None
    BY <2>1, <2>2 DEF VarintSteps
  <2> HIDE DEF at
  <2>4. at <= Len(bytes) /\ Len(bytes) \in Nat /\ at \in 1..Len(bytes)
    BY <2>2, <2>3, Answers DEF at
  <2>5. bytes[at] \in Byte /\ bytes[at] \in Nat
    <3>1. bytes[at] \in Byte
      BY <2>4
    <3> QED
      BY <3>1, WidthAssumption DEF Byte
  <2>6. at - start(n + 1) = 1 /\ start(n + 1) < at
    BY <2>2 DEF at
  <2>7. CASE bytes[at] < Base
    <3>1. r[n + 1] = Some(bytes[at], at)
      BY <2>3, <2>4, <2>7
    <3>2. r[n + 1].pos = at /\ r[n + 1].value = bytes[at]
      BY <3>1, Answers
    <3>3. Capacity[1] = Base
      BY <1>1, <2>1, CapacitySteps
    <3>4. 1 \in 1..(n + 1)
      OBVIOUS
    <3> HIDE DEF start
    <3> QED
      BY <2>2, <2>4, <2>5, <2>6, <2>7, <3>2, <3>3, <3>4 DEF Turned
  <2>8. CASE ~(bytes[at] < Base)
    <3>1. r[n].ok
      BY <2>3, <2>4, <2>8, Answers
    <3>2. r[n + 1] = Some((bytes[at] % Base) + Base * r[n].value, r[n].pos)
      BY <2>3, <2>4, <2>8, <3>1
    <3>3. r[n + 1].pos = r[n].pos /\ r[n + 1].value = (bytes[at] % Base) + Base * r[n].value
      BY <3>2, Answers
    <3>4. /\ r[n].pos \in Nat /\ r[n].value \in Nat
          /\ at < r[n].pos /\ r[n].pos <= Len(bytes)
          /\ r[n].pos - at \in 1..n
          /\ r[n].value < Capacity[r[n].pos - at]
      BY <1>3, <2>1, <2>2, <3>1 DEF Turned
    <3> DEFINE used == r[n].pos - at
               b == bytes[at] % Base
               v == r[n].value
    <3>5. r[n].pos - start(n + 1) = used + 1 /\ start(n + 1) < r[n].pos
      BY <2>2, <3>4 DEF at
    <3>6. used \in 1..n /\ used + 1 \in 1..(n + 1) /\ used + 1 \in 1..Groups /\ used \in 0..Groups
          /\ (used + 1) - 1 = used
      BY <1>1, <2>1, <3>4
    <3>7. b \in Nat /\ b < Base /\ v \in Nat
      BY <1>1, <2>5, <3>4
    <3> HIDE DEF b, used
    <3>8. Capacity[used + 1] = Base * Capacity[used] /\ Capacity[used] \in Nat
      BY <3>6, CapacitySteps, CapacityType
    <3>9. b + Base * v \in Nat /\ b + Base * v < Base * Capacity[used]
      <4> DEFINE c == Capacity[used]
      <4>1. v + 1 <= c /\ c \in Nat
        BY <3>4, <3>7, <3>8 DEF used
      <4> HIDE DEF c, v
      <4>2. Base * (v + 1) <= Base * c
        BY <1>1, <3>7, <4>1
      <4>3. Base * (v + 1) = Base * v + Base /\ Base * v \in Nat /\ Base * c \in Nat
        BY <1>1, <3>7, <4>1
      <4> QED
        BY <1>1, <3>7, <4>2, <4>3 DEF c
    <3>10. r[n + 1].value = b + Base * v
      BY <3>3 DEF b
    <3> HIDE DEF v, start
    <3> QED
      BY <2>2, <3>3, <3>4, <3>5, <3>6, <3>8, <3>9, <3>10 DEF Turned
  <2> QED
    BY <2>7, <2>8
<1>4. \A n \in Nat : n \in T
  <2> HIDE DEF T
  <2> QED
    BY <1>2, <1>3, SetInduction
<1> QED
  BY <1>1, <1>4

(* What decode_varint_u32 answers, it answers as soon as the last byte it  *)
(* needs is there.                                                         *)
LEMMA VarintLocal ==
    ASSUME NEW bytes \in Seq(Byte), NEW cut \in Seq(Byte), Begins(cut, bytes), NEW pos \in Nat
    PROVE  Local(DecodeVarint(bytes, pos), DecodeVarint(cut, pos), pos, cut, bytes)
<1>1. PICK r : /\ VarintSteps(r, bytes, pos)
               /\ DecodeVarint(bytes, pos) =
                     IF r[Groups].ok THEN Some(r[Groups].value % IdMod, r[Groups].pos) ELSE None
  BY DecodeVarintSteps
<1>2. PICK q : /\ VarintSteps(q, cut, pos)
               /\ DecodeVarint(cut, pos) =
                     IF q[Groups].ok THEN Some(q[Groups].value % IdMod, q[Groups].pos) ELSE None
  BY DecodeVarintSteps
<1> DEFINE start(n) == pos + Groups - n
           T == {n \in Nat : n <= Groups => q[n] = Cut(r[n], Len(cut))}
<1>3. Groups \in Nat /\ Len(cut) \in Nat /\ Len(bytes) \in Nat /\ Len(cut) <= Len(bytes)
  BY WidthAssumption DEF Begins
<1>4. \A n \in 0..Groups : Turned(r[n], start(n), n, bytes)
  BY <1>1, VarintTurns
<1>5. 0 \in T
  <2>1. 0 \in 0..Groups
    BY <1>3
  <2>2. r[0] = None /\ q[0] = None
    BY <1>1, <1>2, <2>1 DEF VarintSteps
  <2> QED
    BY <2>2 DEF Cut
<1>6. ASSUME NEW n \in Nat, n \in T
      PROVE  n + 1 \in T
  <2> SUFFICES ASSUME n + 1 <= Groups PROVE q[n + 1] = Cut(r[n + 1], Len(cut))
    OBVIOUS
  <2> DEFINE at == start(n + 1) + 1
  <2>1. n + 1 \in 0..Groups /\ n + 1 # 0 /\ (n + 1) - 1 = n /\ n <= Groups
    BY <1>3
  <2>2. start(n + 1) \in Nat /\ at \in Nat /\ at = pos + Groups - (n + 1) + 1 /\ at >= 1
    BY <1>3
  <2>3. r[n + 1] = IF at > Len(bytes) THEN None
                   ELSE IF bytes[at] < Base THEN Some(bytes[at], at)
                   ELSE IF r[n].ok THEN Some((bytes[at] % Base) + Base * r[n].value, r[n].pos)
                   ELSE None
    BY <1>1, <2>1, <2>2 DEF VarintSteps
  <2>4. q[n + 1] = IF at > Len(cut) THEN None
                   ELSE IF cut[at] < Base THEN Some(cut[at], at)
                   ELSE IF q[n].ok THEN Some((cut[at] % Base) + Base * q[n].value, q[n].pos)
                   ELSE None
    BY <1>2, <2>1, <2>2 DEF VarintSteps
  <2>5. q[n] = Cut(r[n], Len(cut))
    BY <1>6, <2>1
  <2>6. r[n + 1].ok => r[n + 1].pos \in Nat /\ at <= r[n + 1].pos
    <3>1. Turned(r[n + 1], start(n + 1), n + 1, bytes)
      BY <1>4, <2>1
    <3> HIDE DEF start
    <3> QED
      BY <2>2, <3>1 DEF Turned
  <2> HIDE DEF at
  <2>7. CASE at > Len(cut)
    <3>1. q[n + 1] = None
      BY <2>4, <2>7
    <3>2. ~(r[n + 1].ok /\ Len(cut) >= r[n + 1].pos)
      BY <1>3, <2>2, <2>6, <2>7
    <3> QED
      BY <3>1, <3>2 DEF Cut
  <2>8. CASE ~(at > Len(cut))
    <3>1. cut[at] = bytes[at] /\ ~(at > Len(bytes)) /\ Len(cut) >= at
      BY <1>3, <2>2, <2>8 DEF Begins
    <3>2. CASE bytes[at] < Base
      BY <2>3, <2>4, <2>8, <3>1, <3>2, Answers DEF Cut
    <3>3. CASE ~(bytes[at] < Base)
      <4>1. CASE r[n].ok /\ Len(cut) >= r[n].pos
        BY <2>3, <2>4, <2>5, <2>8, <3>1, <3>3, <4>1, Answers DEF Cut
      <4>2. CASE r[n].ok /\ ~(Len(cut) >= r[n].pos)
        BY <2>3, <2>4, <2>5, <2>8, <3>1, <3>3, <4>2, Answers DEF Cut
      <4>3. CASE ~r[n].ok
        BY <2>3, <2>4, <2>5, <2>8, <3>1, <3>3, <4>3, Answers DEF Cut
      <4> QED
        BY <4>1, <4>2, <4>3
    <3> QED
      BY <3>2, <3>3
  <2> QED
    BY <2>7, <2>8
<1>7. Groups \in T
  <2> HIDE DEF T
  <2> QED
    BY <1>3, <1>5, <1>6, SetInduction
<1>8. q[Groups] = Cut(r[Groups], Len(cut))
  BY <1>3, <1>7
<1>9. r[Groups].ok => r[Groups].pos \in Nat /\ pos < r[Groups].pos /\ r[Groups].pos <= Len(bytes)
  <2>1. Turned(r[Groups], start(Groups), Groups, bytes) /\ start(Groups) = pos
    BY <1>3, <1>4
  <2> HIDE DEF start
  <2> QED
    BY <2>1 DEF Turned
<1>10. Ends(DecodeVarint(bytes, pos), pos, bytes)
  BY <1>1, <1>9, Answers DEF Ends
<1>11. DecodeVarint(cut, pos) = Cut(DecodeVarint(bytes, pos), Len(cut))
  BY <1>1, <1>2, <1>8, Answers DEF Cut
<1> QED
  BY <1>10, <1>11 DEF Local

(* The same of the bytes that are taken as they are.                       *)
LEMMA TakeLocal ==
    ASSUME NEW bytes \in Seq(Byte), NEW cut \in Seq(Byte), Begins(cut, bytes),
           NEW pos \in Nat, NEW n \in Nat
    PROVE  /\ Local(Take(bytes, pos, n), Take(cut, pos, n), pos, cut, bytes)
           /\ Take(bytes, pos, n).ok => /\ Take(bytes, pos, n).pos = pos + n
                                        /\ Take(bytes, pos, n).value \in Seq(Byte)
                                        /\ Len(Take(bytes, pos, n).value) = n
<1> DEFINE u == SubSeq(bytes, pos + 1, pos + n)
           w == SubSeq(cut, pos + 1, pos + n)
<1>1. Len(cut) \in Nat /\ Len(bytes) \in Nat /\ Len(cut) <= Len(bytes)
  BY DEF Begins
<1>2. CASE pos + n > Len(bytes)
  <2>1. Take(bytes, pos, n) = None /\ Take(cut, pos, n) = None
    BY <1>1, <1>2 DEF Take
  <2> QED
    BY <2>1, Answers DEF Local, Ends, Cut
<1>3. CASE ~(pos + n > Len(bytes))
  <2>1. u \in Seq(Byte) /\ Len(u) = n /\ \A i \in 1..n : u[i] = bytes[pos + i]
    <3>1. Len(u) = pos + n - (pos + 1) + 1 /\ u \in Seq(Byte)
          /\ \A i \in 1..(pos + n - (pos + 1) + 1) : u[i] = bytes[pos + 1 + i - 1]
      BY <1>1, <1>3, SubSeqProperties
    <3>2. pos + n - (pos + 1) + 1 = n /\ \A i \in 1..n : pos + 1 + i - 1 = pos + i
      OBVIOUS
    <3> HIDE DEF u
    <3> QED
      BY <3>1, <3>2
  <2>2. Take(bytes, pos, n) = Some(u, pos + n)
    BY <1>3 DEF Take
  <2>3. CASE pos + n > Len(cut)
    <3>1. Take(cut, pos, n) = None
      BY <2>3 DEF Take
    <3>2. ~(Len(cut) >= pos + n)
      BY <1>1, <2>3
    <3> HIDE DEF u
    <3> QED
      BY <1>1, <1>3, <2>1, <2>2, <3>1, <3>2, Answers DEF Local, Ends, Cut
  <2>4. CASE ~(pos + n > Len(cut))
    <3>1. w \in Seq(Byte) /\ Len(w) = n /\ \A i \in 1..n : w[i] = cut[pos + i]
      <4>1. Len(w) = pos + n - (pos + 1) + 1 /\ w \in Seq(Byte)
            /\ \A i \in 1..(pos + n - (pos + 1) + 1) : w[i] = cut[pos + 1 + i - 1]
        BY <1>1, <2>4, SubSeqProperties
      <4>2. pos + n - (pos + 1) + 1 = n /\ \A i \in 1..n : pos + 1 + i - 1 = pos + i
        OBVIOUS
      <4> HIDE DEF w
      <4> QED
        BY <4>1, <4>2
    <3>2. \A i \in 1..n : cut[pos + i] = bytes[pos + i]
      BY <1>1, <2>4 DEF Begins
    <3>3. Take(cut, pos, n) = Some(w, pos + n)
      BY <2>4 DEF Take
    <3> HIDE DEF u, w
    <3>4. u = w
      BY <2>1, <3>1, <3>2, SeqEqual
    <3>5. Len(cut) >= pos + n
      BY <1>1, <2>4
    <3> QED
      BY <1>1, <1>3, <2>1, <2>2, <3>3, <3>4, <3>5, Answers DEF Local, Ends, Cut
  <2> QED
    BY <2>3, <2>4
<1> QED
  BY <1>2, <1>3

(* A varint has no more bytes than the groups that can hold its number.    *)
LEMMA EncodeVarintFits ==
    \A n \in 1..Groups : \A v \in U32 : v < Capacity[n] => Len(EncodeVarint(v)) <= n
<1> DEFINE Fits(n) == \A v \in U32 : v < Capacity[n] => Len(EncodeVarint(v)) <= n
           T == {n \in Nat : n > 0 /\ n <= Groups => Fits(n)}
<1>1. Groups \in Nat \ {0} /\ Base \in Nat /\ Base > 1
  BY WidthAssumption
<1>2. ASSUME NEW n \in Nat, n \in T
      PROVE  n + 1 \in T
  <2> SUFFICES ASSUME n + 1 <= Groups, NEW v \in U32, v < Capacity[n + 1]
               PROVE  Len(EncodeVarint(v)) <= n + 1
    OBVIOUS
  <2>1. n + 1 \in 1..Groups /\ (n + 1) - 1 = n /\ n <= Groups /\ n \in 0..Groups
    BY <1>1
  <2>2. Capacity[n + 1] = Base * Capacity[n] /\ Capacity[n] \in Nat
    BY <2>1, CapacitySteps, CapacityType
  <2>3. v \in Nat
    BY WidthAssumption DEF U32
  <2>4. CASE v < Base
    <3>1. EncodeVarint(v) = <<v>> /\ Len(<<v>>) = 1
      BY <2>4, EncodeVarintSteps
    <3> QED
      BY <3>1
  <2>5. CASE ~(v < Base)
    <3> DEFINE b == Base + (v % Base)
               w == v \div Base
               rest == EncodeVarint(w)
    <3>1. w \in Nat /\ w < Capacity[n] /\ b \in Byte
      BY <2>2, <2>3, LowestGroup
    <3>2. w \in U32
      <4>1. w < v
        BY <1>1, <2>3, <2>5
      <4> HIDE DEF w
      <4> QED
        BY <2>3, <3>1, <4>1, WidthAssumption DEF U32
    <3>3. EncodeVarint(v) = <<b>> \o rest
      BY <2>5, EncodeVarintSteps
    <3>4. rest \in Seq(Byte) /\ Len(rest) \in Nat \ {0}
      BY <3>2, EncodeVarintType
    <3>5. n > 0
      <4>1. n = 0 => Capacity[n] = 1
        BY CapacitySteps
      <4>2. n = 0 => w = 0
        BY <3>1, <4>1
      <4>3. w # 0
        <5>1. v = Base * w + (v % Base) /\ v % Base < Base
          BY <1>1, <2>3
        <5> HIDE DEF w
        <5> QED
          BY <1>1, <2>3, <2>5, <5>1
      <4> QED
        BY <4>2, <4>3
    <3>6. Len(rest) <= n
      BY <1>2, <2>1, <3>1, <3>2, <3>5
    <3> HIDE DEF b, rest
    <3>7. <<b>> \in Seq(Byte) /\ Len(<<b>>) = 1
      BY <3>1
    <3>8. Len(EncodeVarint(v)) = 1 + Len(rest)
      BY <3>3, <3>4, <3>7, ConcatProperties
    <3> QED
      BY <3>4, <3>6, <3>8
  <2> QED
    BY <2>4, <2>5
<1>3. 0 \in T
  OBVIOUS
<1>4. \A n \in Nat : n \in T
  <2> HIDE DEF T
  <2> QED
    BY <1>2, <1>3, SetInduction
<1> QED
  BY <1>1, <1>4

(* What is read as a varint can be written, in as many bytes at most.      *)
LEMMA VarintWritable ==
    ASSUME NEW bytes \in Seq(Byte), NEW pos \in Nat, DecodeVarint(bytes, pos).ok
    PROVE  /\ DecodeVarint(bytes, pos).value \in U32
           /\ pos + Len(EncodeVarint(DecodeVarint(bytes, pos).value)) <= DecodeVarint(bytes, pos).pos
<1>1. PICK r : /\ VarintSteps(r, bytes, pos)
               /\ DecodeVarint(bytes, pos) =
                     IF r[Groups].ok THEN Some(r[Groups].value % IdMod, r[Groups].pos) ELSE None
  BY DecodeVarintSteps
<1> DEFINE v == r[Groups].value % IdMod
           used == r[Groups].pos - pos
<1>2. Groups \in Nat \ {0} /\ IdMod \in Nat \ {0}
  BY WidthAssumption
<1>3. r[Groups].ok /\ DecodeVarint(bytes, pos).value = v /\ DecodeVarint(bytes, pos).pos = r[Groups].pos
  BY <1>1, Answers
<1>4. /\ r[Groups].pos \in Nat /\ r[Groups].value \in Nat
      /\ used \in 1..Groups /\ r[Groups].value < Capacity[used]
  <2>1. Turned(r[Groups], pos + Groups - Groups, Groups, bytes)
    BY <1>1, <1>2, VarintTurns
  <2>2. pos + Groups - Groups = pos
    BY <1>2
  <2> QED
    BY <1>3, <2>1, <2>2 DEF Turned
<1>5. v \in U32 /\ v <= r[Groups].value /\ v \in Nat
  BY <1>2, <1>4 DEF U32
<1> HIDE DEF v
<1>6. Len(EncodeVarint(v)) <= used
  <2>1. Capacity[used] \in Nat
    BY <1>2, <1>4, CapacityType
  <2>2. v < Capacity[used]
    BY <1>4, <1>5, <2>1
  <2> QED
    BY <1>4, <1>5, <2>2, EncodeVarintFits
<1>7. pos + Len(EncodeVarint(v)) <= r[Groups].pos
  <2>1. Len(EncodeVarint(v)) \in Nat
    BY <1>5, EncodeVarintType
  <2> QED
    BY <1>4, <1>6, <2>1
<1> QED
  BY <1>3, <1>5, <1>7

(* One reader after another.                                               *)
LEMMA ChainLocal ==
    ASSUME NEW bytes \in Seq(Byte), NEW cut \in Seq(Byte), Begins(cut, bytes), NEW pos \in Nat,
           NEW a, NEW b, NEW c, NEW d, Local(a, b, pos, cut, bytes),
           a.ok => Ends(c, a.pos, bytes),
           a.ok /\ a.pos <= Len(cut) /\ b = a => d = Cut(c, Len(cut))
    PROVE  Local(IF a.ok THEN c ELSE None, IF b.ok THEN d ELSE None, pos, cut, bytes)
<1>1. Len(cut) \in Nat /\ Len(bytes) \in Nat
  OBVIOUS
<1>2. CASE ~a.ok
  BY <1>2, Answers DEF Local, Ends, Cut
<1>3. CASE a.ok
  <2>1. a.pos \in Nat /\ pos <= a.pos
    BY <1>3 DEF Local, Ends
  <2>2. c.ok => c.pos \in Nat /\ a.pos <= c.pos /\ c.pos <= Len(bytes)
    BY <1>3 DEF Ends
  <2>3. CASE a.pos <= Len(cut)
    <3>1. pos <= Len(cut) => b = a
      BY <1>1, <1>3, <2>1, <2>3 DEF Local, Cut
    <3> QED
      BY <1>1, <1>3, <2>1, <2>2, <2>3, <3>1 DEF Local, Ends
  <2>4. CASE ~(a.pos <= Len(cut))
    <3>1. pos <= Len(cut) => b = None
      BY <1>1, <1>3, <2>1, <2>4 DEF Local, Cut
    <3>2. ~(c.ok /\ Len(cut) >= c.pos)
      BY <1>1, <2>1, <2>2, <2>4
    <3> QED
      BY <1>1, <1>3, <2>1, <2>2, <3>1, <3>2, Answers DEF Local, Ends, Cut
  <2> QED
    BY <2>3, <2>4
<1> QED
  BY <1>2, <1>3

(* An answer of which another is made, for the whole and for the part.     *)
LEMMA MadeLocal ==
    ASSUME NEW bytes \in Seq(Byte), NEW cut \in Seq(Byte), NEW pos \in Nat,
           NEW a, NEW b, Local(a, b, pos, cut, bytes), NEW c, NEW d,
           c = None \/ (a.ok /\ c.ok /\ c.pos = a.pos),
           b = a => d = c, ~b.ok => d = None
    PROVE  Local(c, d, pos, cut, bytes)
<1>1. CASE c = None
  <2>1. pos <= Len(cut) => d = None
    BY <1>1, Answers DEF Local, Cut
  <2> QED
    BY <1>1, <2>1, Answers DEF Local, Ends, Cut
<1>2. CASE c # None
  <2>1. a.ok /\ c.ok /\ c.pos = a.pos
    BY <1>2
  <2>2. CASE Len(cut) >= a.pos
    BY <2>1, <2>2 DEF Local, Ends, Cut
  <2>3. CASE ~(Len(cut) >= a.pos)
    BY <2>1, <2>3, Answers DEF Local, Ends, Cut
  <2> QED
    BY <2>2, <2>3
<1> QED
  BY <1>1, <1>2

(* Lists of bytes, texts and tags are answered as soon as they are there.  *)
LEMMA BytesLocal ==
    ASSUME NEW bytes \in Seq(Byte), NEW cut \in Seq(Byte), Begins(cut, bytes), NEW pos \in Nat
    PROVE  Local(DecodeBytes(bytes, pos), DecodeBytes(cut, pos), pos, cut, bytes)
<1> DEFINE a == DecodeVarint(bytes, pos)
           b == DecodeVarint(cut, pos)
           c == Take(bytes, a.pos, a.value)
           d == Take(cut, b.pos, b.value)
<1>1. Local(a, b, pos, cut, bytes)
  BY VarintLocal
<1>2. a.ok => a.pos \in Nat /\ a.value \in Nat
  BY <1>1, VarintWritable, WidthAssumption DEF Local, Ends, U32
<1>3. DecodeBytes(bytes, pos) = (IF a.ok THEN c ELSE None)
      /\ DecodeBytes(cut, pos) = (IF b.ok THEN d ELSE None)
  BY Readers
<1> HIDE DEF a, b
<1>4. a.ok => Local(c, Take(cut, a.pos, a.value), a.pos, cut, bytes)
  BY <1>2, TakeLocal
<1>5. a.ok => Ends(c, a.pos, bytes)
  BY <1>4 DEF Local
<1>6. a.ok /\ a.pos <= Len(cut) /\ b = a => d = Cut(c, Len(cut))
  BY <1>4 DEF Local
<1> HIDE DEF c, d
<1> QED
  BY <1>1, <1>3, <1>5, <1>6, ChainLocal

(* The same of a text, which is refused or not by what was read of it.     *)
LEMMA StringLocal ==
    ASSUME NEW bytes \in Seq(Byte), NEW cut \in Seq(Byte), Begins(cut, bytes), NEW pos \in Nat
    PROVE  Local(DecodeString(bytes, pos), DecodeString(cut, pos), pos, cut, bytes)
<1> DEFINE a == DecodeBytes(bytes, pos)
           b == DecodeBytes(cut, pos)
           c == DecodeString(bytes, pos)
           d == DecodeString(cut, pos)
<1>1. Local(a, b, pos, cut, bytes)
  BY BytesLocal
<1>2. c = (IF a.ok /\ IsText(a.value) THEN Some(a.value, a.pos) ELSE None)
      /\ d = (IF b.ok /\ IsText(b.value) THEN Some(b.value, b.pos) ELSE None)
  BY Readers
<1> HIDE DEF a, b, c, d
<1>3. c = None \/ (a.ok /\ c.ok /\ c.pos = a.pos)
  BY <1>2, Answers
<1>4. (b = a => d = c) /\ (~b.ok => d = None)
  BY <1>2
<1>5. Local(c, d, pos, cut, bytes)
  BY <1>1, <1>3, <1>4, MadeLocal
<1> QED
  BY <1>5 DEF c, d

(* And of a tag, which is one byte and a name in the table.                *)
LEMMA TagLocal ==
    ASSUME NEW bytes \in Seq(Byte), NEW cut \in Seq(Byte), Begins(cut, bytes), NEW pos \in Nat,
           NEW tags
    PROVE  /\ Local(DecodeTag(bytes, pos, tags), DecodeTag(cut, pos, tags), pos, cut, bytes)
           /\ DecodeTag(bytes, pos, tags).ok => DecodeTag(bytes, pos, tags).pos = pos + 1
                                                /\ DecodeTag(bytes, pos, tags).value \in ToSet(tags)
<1> DEFINE a == Take(bytes, pos, 1)
           b == Take(cut, pos, 1)
           c == DecodeTag(bytes, pos, tags)
           d == DecodeTag(cut, pos, tags)
<1>1. Local(a, b, pos, cut, bytes) /\ (a.ok => a.pos = pos + 1)
  BY TakeLocal
<1>2. c = (IF a.ok /\ a.value[1] + 1 \in DOMAIN tags THEN Some(tags[a.value[1] + 1], a.pos) ELSE None)
      /\ d = (IF b.ok /\ b.value[1] + 1 \in DOMAIN tags THEN Some(tags[b.value[1] + 1], b.pos) ELSE None)
  BY Readers
<1> HIDE DEF a, b, c, d
<1>3. c = None \/ (a.ok /\ c.ok /\ c.pos = a.pos)
  BY <1>2, Answers
<1>4. (b = a => d = c) /\ (~b.ok => d = None)
  BY <1>2
<1>5. Local(c, d, pos, cut, bytes)
  BY <1>1, <1>3, <1>4, MadeLocal
<1>6. c.ok => c.pos = pos + 1 /\ c.value \in ToSet(tags)
  BY <1>1, <1>2, Answers DEF ToSet
<1> QED
  BY <1>5, <1>6 DEF c, d

(* A value is answered as soon as its last byte is there.                  *)
LEMMA PayloadLocal ==
    ASSUME NEW bytes \in Seq(Byte), NEW cut \in Seq(Byte), Begins(cut, bytes), NEW pos \in Nat,
           pos <= Len(bytes), NEW type \in ToSet(ValueTags)
    PROVE  Local(Payload(type, bytes, pos), Payload(type, cut, pos), pos, cut, bytes)
<1>1. type \in {"None", "Int", "Float", "Text", "Ident", "Bytes"}
  BY Tables
<1>2. CASE type = "None"
  <2>1. Payload(type, bytes, pos) = Some(<< >>, pos) /\ Payload(type, cut, pos) = Some(<< >>, pos)
    BY <1>2 DEF Payload
  <2>2. Len(cut) \in Nat
    OBVIOUS
  <2> QED
    BY <2>1, <2>2, Answers DEF Local, Ends, Cut
<1>3. CASE type \in {"Int", "Float"}
  <2>1. Payload(type, bytes, pos) = Take(bytes, pos, FixedLen)
        /\ Payload(type, cut, pos) = Take(cut, pos, FixedLen)
    BY <1>3 DEF Payload
  <2>2. FixedLen \in Nat
    BY WidthAssumption
  <2> QED
    BY <2>1, <2>2, TakeLocal
<1>4. CASE type \in {"Text", "Ident"}
  <2>1. Payload(type, bytes, pos) = DecodeString(bytes, pos)
        /\ Payload(type, cut, pos) = DecodeString(cut, pos)
    BY <1>4 DEF Payload
  <2> QED
    BY <2>1, StringLocal
<1>5. CASE type = "Bytes"
  <2>1. Payload(type, bytes, pos) = DecodeBytes(bytes, pos)
        /\ Payload(type, cut, pos) = DecodeBytes(cut, pos)
    BY <1>5 DEF Payload
  <2> QED
    BY <2>1, BytesLocal
<1> QED
  BY <1>1, <1>2, <1>3, <1>4, <1>5

(* A value, which is a tag and what follows it.                            *)
LEMMA ValueLocal ==
    ASSUME NEW bytes \in Seq(Byte), NEW cut \in Seq(Byte), Begins(cut, bytes), NEW pos \in Nat
    PROVE  Local(DecodeValue(bytes, pos), DecodeValue(cut, pos), pos, cut, bytes)
<1> DEFINE a == DecodeTag(bytes, pos, ValueTags)
           b == DecodeTag(cut, pos, ValueTags)
           u == Payload(a.value, bytes, a.pos)
           w == Payload(b.value, cut, b.pos)
           c == IF u.ok THEN Some([type |-> a.value, bytes |-> u.value], u.pos) ELSE None
           d == IF w.ok THEN Some([type |-> b.value, bytes |-> w.value], w.pos) ELSE None
<1>1. Local(a, b, pos, cut, bytes) /\ (a.ok => a.value \in ToSet(ValueTags))
  BY TagLocal
<1>2. a.ok => a.pos \in Nat /\ a.pos <= Len(bytes)
  BY <1>1 DEF Local, Ends
<1>3. DecodeValue(bytes, pos) = (IF a.ok THEN c ELSE None)
      /\ DecodeValue(cut, pos) = (IF b.ok THEN d ELSE None)
  BY ValueReader DEF ValueOf
<1> HIDE DEF a, b
<1>4. a.ok => Local(u, Payload(a.value, cut, a.pos), a.pos, cut, bytes)
  BY <1>1, <1>2, PayloadLocal
<1>5. a.ok => Ends(u, a.pos, bytes)
  BY <1>4 DEF Local
<1>6. a.ok /\ a.pos <= Len(cut) /\ b = a => w = Cut(u, Len(cut))
  BY <1>4 DEF Local
<1> HIDE DEF u, w
<1>7. a.ok => Ends(c, a.pos, bytes)
  BY <1>5, Answers DEF Ends
<1>8. a.ok /\ a.pos <= Len(cut) /\ b = a => d = Cut(c, Len(cut))
  BY <1>6, Answers DEF Cut
<1> HIDE DEF c, d
<1> QED
  BY <1>1, <1>3, <1>7, <1>8, ChainLocal

(* And so is a field of any type.                                          *)
LEMMA FieldLocal ==
    ASSUME NEW bytes \in Seq(Byte), NEW cut \in Seq(Byte), Begins(cut, bytes), NEW pos \in Nat,
           NEW type \in FieldTypes
    PROVE  Local(DecodeField(type, bytes, pos), DecodeField(type, cut, pos), pos, cut, bytes)
<1>1. CASE type \in {"u32", "usize"}
  <2>1. DecodeField(type, bytes, pos) = DecodeVarint(bytes, pos)
        /\ DecodeField(type, cut, pos) = DecodeVarint(cut, pos)
    BY <1>1 DEF DecodeField
  <2> QED
    BY <2>1, VarintLocal
<1>2. CASE type = "kind"
  <2> DEFINE a == Take(bytes, pos, 1)
             b == Take(cut, pos, 1)
             c == DecodeField(type, bytes, pos)
             d == DecodeField(type, cut, pos)
  <2>1. Local(a, b, pos, cut, bytes)
    BY TakeLocal
  <2>2. c = (IF a.ok THEN Some(KindFrom(a.value[1]), a.pos) ELSE None)
        /\ d = (IF b.ok THEN Some(KindFrom(b.value[1]), b.pos) ELSE None)
    BY <1>2 DEF DecodeField, Then
  <2> HIDE DEF a, b, c, d
  <2>3. c = None \/ (a.ok /\ c.ok /\ c.pos = a.pos)
    BY <2>2, Answers
  <2>4. (b = a => d = c) /\ (~b.ok => d = None)
    BY <2>2
  <2>5. Local(c, d, pos, cut, bytes)
    BY <2>1, <2>3, <2>4, MadeLocal
  <2> QED
    BY <2>5 DEF c, d
<1>3. CASE type = "string"
  <2>1. DecodeField(type, bytes, pos) = DecodeString(bytes, pos)
        /\ DecodeField(type, cut, pos) = DecodeString(cut, pos)
    BY <1>3 DEF DecodeField
  <2> QED
    BY <2>1, StringLocal
<1>4. CASE type = "value"
  <2>1. DecodeField(type, bytes, pos) = DecodeValue(bytes, pos)
        /\ DecodeField(type, cut, pos) = DecodeValue(cut, pos)
    BY <1>4 DEF DecodeField
  <2> QED
    BY <2>1, ValueLocal
<1> QED
  BY <1>1, <1>2, <1>3, <1>4 DEF FieldTypes

(* A list is answered as soon as its last item is, if each item is.        *)
EachLocal(r, d, q, e, n, cut, bytes) ==
    \A i \in 1..n : r[i - 1].ok /\ r[i - 1].pos \in Nat /\ r[i - 1].pos <= Len(bytes) =>
        /\ Ends(d[i], r[i - 1].pos, bytes)
        /\ r[i - 1].pos <= Len(cut) /\ q[i - 1] = r[i - 1] => e[i] = Cut(d[i], Len(cut))

(* Items answered so make a list answered so, by induction on the turns.   *)
LEMMA LoopLocal ==
    ASSUME NEW bytes \in Seq(Byte), NEW cut \in Seq(Byte), Begins(cut, bytes), NEW pos \in Nat,
           pos <= Len(bytes), NEW n \in Nat,
           NEW r, NEW d, Loop(r, d, n, pos), NEW q, NEW e, Loop(q, e, n, pos),
           EachLocal(r, d, q, e, n, cut, bytes)
    PROVE  Local(r[n], q[n], pos, cut, bytes)
<1> DEFINE T == {k \in Nat : k <= n => Local(r[k], q[k], pos, cut, bytes)}
<1>1. Len(cut) \in Nat
  OBVIOUS
<1>2. 0 \in T
  <2>1. r[0] = Some(<< >>, pos) /\ q[0] = Some(<< >>, pos)
    BY DEF Loop
  <2> QED
    BY <1>1, <2>1, Answers DEF Local, Ends, Cut
<1>3. ASSUME NEW k \in Nat, k \in T
      PROVE  k + 1 \in T
  <2> SUFFICES ASSUME k + 1 <= n PROVE Local(r[k + 1], q[k + 1], pos, cut, bytes)
    OBVIOUS
  <2>1. k + 1 \in 1..n /\ (k + 1) - 1 = k /\ k <= n
    OBVIOUS
  <2> DEFINE i == k + 1
             a == r[k]
             b == q[k]
             c == IF d[i].ok THEN Some(Append(a.value, d[i].value), d[i].pos) ELSE None
             w == IF e[i].ok THEN Some(Append(b.value, e[i].value), e[i].pos) ELSE None
  <2>2. Local(a, b, pos, cut, bytes)
    BY <1>3, <2>1
  <2>3. r[k + 1] = (IF a.ok THEN c ELSE None) /\ q[k + 1] = (IF b.ok THEN w ELSE None)
    BY <2>1 DEF Loop
  <2>4. a.ok => a.pos \in Nat /\ a.pos <= Len(bytes)
    BY <2>2 DEF Local, Ends
  <2>5. a.ok => Ends(d[i], a.pos, bytes)
    BY <2>1, <2>4 DEF EachLocal
  <2>6. a.ok /\ a.pos <= Len(cut) /\ b = a => e[i] = Cut(d[i], Len(cut))
    BY <2>1, <2>4 DEF EachLocal
  <2> HIDE DEF a, b, i
  <2>7. a.ok => Ends(c, a.pos, bytes)
    BY <2>5, Answers DEF Ends
  <2>8. a.ok /\ a.pos <= Len(cut) /\ b = a => w = Cut(c, Len(cut))
    BY <2>6, Answers DEF Cut
  <2> HIDE DEF c, w
  <2> QED
    BY <2>2, <2>3, <2>7, <2>8, ChainLocal
<1>4. n \in T
  <2> HIDE DEF T
  <2> QED
    BY <1>2, <1>3, SetInduction
<1> QED
  BY <1>4

(* The fields of an operation.                                             *)
LEMMA FieldsLocal ==
    ASSUME NEW bytes \in Seq(Byte), NEW cut \in Seq(Byte), Begins(cut, bytes), NEW pos \in Nat,
           pos <= Len(bytes), NEW types, Len(types) \in Nat,
           \A i \in 1..Len(types) : types[i] \in FieldTypes
    PROVE  Local(DecodeFields(types, bytes, pos), DecodeFields(types, cut, pos), pos, cut, bytes)
<1> DEFINE n == Len(types)
<1>1. PICK r, d : FieldTurns(r, d, types, bytes, pos)
  BY FieldsLoop, Zenon
<1>2. PICK q, e : FieldTurns(q, e, types, cut, pos)
  BY FieldsLoop, Zenon
<1>3. /\ Loop(r, d, n, pos) /\ DecodeFields(types, bytes, pos) = r[n]
      /\ \A i \in 1..n : d[i] = DecodeField(types[i], bytes, r[i - 1].pos)
  BY <1>1 DEF FieldTurns
<1>4. /\ Loop(q, e, n, pos) /\ DecodeFields(types, cut, pos) = q[n]
      /\ \A i \in 1..n : e[i] = DecodeField(types[i], cut, q[i - 1].pos)
  BY <1>2 DEF FieldTurns
<1>5. ASSUME NEW i \in 1..n, r[i - 1].ok /\ r[i - 1].pos \in Nat /\ r[i - 1].pos <= Len(bytes)
      PROVE  /\ Ends(d[i], r[i - 1].pos, bytes)
             /\ r[i - 1].pos <= Len(cut) /\ q[i - 1] = r[i - 1] => e[i] = Cut(d[i], Len(cut))
  <2> DEFINE from == r[i - 1].pos
  <2>1. Local(DecodeField(types[i], bytes, from), DecodeField(types[i], cut, from), from, cut, bytes)
    BY <1>5, FieldLocal
  <2> QED
    BY <1>3, <1>4, <2>1 DEF Local
<1>6. EachLocal(r, d, q, e, n, cut, bytes) /\ n \in Nat
  BY <1>5 DEF EachLocal
<1> HIDE DEF n
<1>7. Local(r[n], q[n], pos, cut, bytes)
  BY <1>3, <1>4, <1>6, LoopLocal
<1> QED
  BY <1>3, <1>4, <1>7 DEF n

(* An operation.                                                           *)
LEMMA OpLocal ==
    ASSUME NEW bytes \in Seq(Byte), NEW cut \in Seq(Byte), Begins(cut, bytes), NEW pos \in Nat
    PROVE  Local(DecodeOp(bytes, pos), DecodeOp(cut, pos), pos, cut, bytes)
<1> DEFINE a == DecodeTag(bytes, pos, OpTags)
           b == DecodeTag(cut, pos, OpTags)
           u == DecodeFields(FieldsRead[a.value], bytes, a.pos)
           w == DecodeFields(FieldsRead[b.value], cut, b.pos)
           c == IF u.ok THEN Some([op |-> a.value, fields |-> u.value], u.pos) ELSE None
           d == IF w.ok THEN Some([op |-> b.value, fields |-> w.value], w.pos) ELSE None
<1>1. Local(a, b, pos, cut, bytes) /\ (a.ok => a.value \in ToSet(OpTags))
  BY TagLocal
<1>2. a.ok => a.pos \in Nat /\ a.pos <= Len(bytes)
  BY <1>1 DEF Local, Ends
<1>3. DecodeOp(bytes, pos) = (IF a.ok THEN c ELSE None)
      /\ DecodeOp(cut, pos) = (IF b.ok THEN d ELSE None)
  BY OpReader DEF OpOf
<1> HIDE DEF a, b
<1>4. a.ok => Local(u, DecodeFields(FieldsRead[a.value], cut, a.pos), a.pos, cut, bytes)
  <2> SUFFICES ASSUME a.ok
               PROVE  Local(u, DecodeFields(FieldsRead[a.value], cut, a.pos), a.pos, cut, bytes)
    OBVIOUS
  <2> DEFINE types == FieldsRead[a.value]
  <2>1. Len(types) \in Nat /\ \A i \in 1..Len(types) : types[i] \in FieldTypes
    BY <1>1, FieldTables
  <2> HIDE DEF types
  <2>2. Local(DecodeFields(types, bytes, a.pos), DecodeFields(types, cut, a.pos), a.pos, cut, bytes)
    BY <1>2, <2>1, FieldsLocal
  <2> QED
    BY <2>2 DEF types
<1>5. a.ok => Ends(u, a.pos, bytes)
  BY <1>4 DEF Local
<1>6. a.ok /\ a.pos <= Len(cut) /\ b = a => w = Cut(u, Len(cut))
  BY <1>4 DEF Local
<1> HIDE DEF u, w
<1>7. a.ok => Ends(c, a.pos, bytes)
  BY <1>5, Answers DEF Ends
<1>8. a.ok /\ a.pos <= Len(cut) /\ b = a => d = Cut(c, Len(cut))
  BY <1>6, Answers DEF Cut
<1> HIDE DEF c, d
<1> QED
  BY <1>1, <1>3, <1>7, <1>8, ChainLocal

(* The operations of a patch.                                              *)
LEMMA OpsLocal ==
    ASSUME NEW bytes \in Seq(Byte), NEW cut \in Seq(Byte), Begins(cut, bytes), NEW pos \in Nat,
           pos <= Len(bytes), NEW n \in Nat
    PROVE  Local(DecodeOps(n, bytes, pos), DecodeOps(n, cut, pos), pos, cut, bytes)
<1>1. PICK r, d : OpTurns(r, d, n, bytes, pos)
  BY OpsLoop, Zenon
<1>2. PICK q, e : OpTurns(q, e, n, cut, pos)
  BY OpsLoop, Zenon
<1>3. /\ Loop(r, d, n, pos) /\ DecodeOps(n, bytes, pos) = r[n]
      /\ \A i \in 1..n : d[i] = DecodeOp(bytes, r[i - 1].pos)
  BY <1>1 DEF OpTurns
<1>4. /\ Loop(q, e, n, pos) /\ DecodeOps(n, cut, pos) = q[n]
      /\ \A i \in 1..n : e[i] = DecodeOp(cut, q[i - 1].pos)
  BY <1>2 DEF OpTurns
<1>5. ASSUME NEW i \in 1..n, r[i - 1].ok /\ r[i - 1].pos \in Nat /\ r[i - 1].pos <= Len(bytes)
      PROVE  /\ Ends(d[i], r[i - 1].pos, bytes)
             /\ r[i - 1].pos <= Len(cut) /\ q[i - 1] = r[i - 1] => e[i] = Cut(d[i], Len(cut))
  <2> DEFINE from == r[i - 1].pos
  <2>1. Local(DecodeOp(bytes, from), DecodeOp(cut, from), from, cut, bytes)
    BY <1>5, OpLocal
  <2> QED
    BY <1>3, <1>4, <2>1 DEF Local
<1>6. EachLocal(r, d, q, e, n, cut, bytes)
  BY <1>5 DEF EachLocal
<1>7. Local(r[n], q[n], pos, cut, bytes)
  BY <1>3, <1>4, <1>6, LoopLocal
<1> QED
  BY <1>3, <1>4, <1>7

(* And a patch.                                                            *)
LEMMA PatchLocal ==
    ASSUME NEW bytes \in Seq(Byte), NEW cut \in Seq(Byte), Begins(cut, bytes)
    PROVE  Local(DecodePatch(bytes), DecodePatch(cut), 0, cut, bytes)
<1> DEFINE a == DecodeVarint(bytes, 0)
           b == DecodeVarint(cut, 0)
           c == DecodeOps(a.value, bytes, a.pos)
           d == DecodeOps(b.value, cut, b.pos)
<1>1. Local(a, b, 0, cut, bytes)
  BY VarintLocal
<1>2. a.ok => a.pos \in Nat /\ a.pos <= Len(bytes) /\ a.value \in Nat
  BY <1>1, VarintWritable, WidthAssumption DEF Local, Ends, U32
<1>3. DecodePatch(bytes) = (IF a.ok THEN c ELSE None)
      /\ DecodePatch(cut) = (IF b.ok THEN d ELSE None)
  BY DEF DecodePatch, Then
<1> HIDE DEF a, b
<1>4. a.ok => Local(c, DecodeOps(a.value, cut, a.pos), a.pos, cut, bytes)
  BY <1>2, OpsLocal
<1>5. a.ok => Ends(c, a.pos, bytes)
  BY <1>4 DEF Local
<1>6. a.ok /\ a.pos <= Len(cut) /\ b = a => d = Cut(c, Len(cut))
  BY <1>4 DEF Local
<1> HIDE DEF c, d
<1> QED
  BY <1>1, <1>3, <1>5, <1>6, ChainLocal

(* No beginning of the data is read as another patch than the data are.    *)
THEOREM SelfDelimitingHolds == Spec => []SelfDelimiting
<1>1. CodecInv => SelfDelimiting
  <2> SUFFICES ASSUME CodecInv, NEW n \in 0..Len(data)
               PROVE  DecodePatch(SubSeq(data, 1, n)) =
                          IF DecodePatch(data).ok /\ n >= DecodePatch(data).pos
                          THEN DecodePatch(data) ELSE None
    BY DEF SelfDelimiting
  <2> DEFINE cut == SubSeq(data, 1, n)
  <2>1. data \in Seq(Byte) /\ Len(data) \in Nat
    BY DEF CodecInv
  <2>2. cut \in Seq(Byte) /\ Len(cut) = n /\ Begins(cut, data)
    <3>1. cut \in Seq(Byte) /\ Len(cut) = n /\ \A i \in 1..n : cut[i] = data[1 + i - 1]
      BY <2>1, SubSeqProperties
    <3>2. \A i \in 1..n : 1 + i - 1 = i
      OBVIOUS
    <3> HIDE DEF cut
    <3> QED
      BY <2>1, <3>1, <3>2 DEF Begins
  <2> HIDE DEF cut
  <2>3. Local(DecodePatch(data), DecodePatch(cut), 0, cut, data)
    BY <2>1, <2>2, PatchLocal
  <2>4. DecodePatch(cut) = Cut(DecodePatch(data), n)
    BY <2>2, <2>3 DEF Local
  <2> QED
    BY <2>4 DEF Cut, cut
<1> QED
  BY <1>1, CodecInvHolds, PTL

----------------------------------------------------------------------------
(* What is read can be written.                                            *)

(* A list of bytes that is read has less than IdMod bytes, and is written  *)
(* in no more bytes than it was read from.                                 *)
LEMMA BytesWritable ==
    ASSUME NEW bytes \in Seq(Byte), NEW pos \in Nat, DecodeBytes(bytes, pos).ok
    PROVE  /\ IsBytes(DecodeBytes(bytes, pos).value)
           /\ pos + Len(EncodeString(DecodeBytes(bytes, pos).value)) <= DecodeBytes(bytes, pos).pos
<1> DEFINE a == DecodeVarint(bytes, pos)
           c == Take(bytes, a.pos, a.value)
<1>1. a.ok /\ DecodeBytes(bytes, pos) = c
  BY Readers, Answers
<1>2. /\ Begins(bytes, bytes)
      /\ a.pos \in Nat /\ a.value \in U32 /\ pos + Len(EncodeVarint(a.value)) <= a.pos
  <2>1. Begins(bytes, bytes)
    BY DEF Begins
  <2>2. Local(a, a, pos, bytes, bytes)
    BY <2>1, VarintLocal
  <2> QED
    BY <1>1, <2>1, <2>2, VarintWritable DEF Local, Ends
<1>3. a.value \in Nat /\ a.value < IdMod
  BY <1>2, WidthAssumption DEF U32
<1> HIDE DEF a
<1>4. c.pos = a.pos + a.value /\ c.value \in Seq(Byte) /\ Len(c.value) = a.value
  BY <1>1, <1>2, <1>3, TakeLocal
<1>5. IsBytes(c.value)
  BY <1>3, <1>4 DEF IsBytes
<1> HIDE DEF c
<1>6. Len(EncodeString(c.value)) = Len(EncodeVarint(a.value)) + a.value
      /\ Len(EncodeVarint(a.value)) \in Nat
  BY <1>2, <1>4, <1>5, EncodeStringParts, EncodeVarintType
<1>7. pos + Len(EncodeString(c.value)) <= c.pos
  BY <1>2, <1>3, <1>4, <1>6
<1> QED
  BY <1>1, <1>5, <1>7

(* The same of a text.                                                     *)
LEMMA StringWritable ==
    ASSUME NEW bytes \in Seq(Byte), NEW pos \in Nat, DecodeString(bytes, pos).ok
    PROVE  /\ IsBytes(DecodeString(bytes, pos).value) /\ IsText(DecodeString(bytes, pos).value)
           /\ pos + Len(EncodeString(DecodeString(bytes, pos).value)) <= DecodeString(bytes, pos).pos
<1> DEFINE b == DecodeBytes(bytes, pos)
<1>1. b.ok /\ IsText(b.value) /\ DecodeString(bytes, pos) = Some(b.value, b.pos)
  BY Readers, Answers
<1>2. IsBytes(b.value) /\ pos + Len(EncodeString(b.value)) <= b.pos
  BY <1>1, BytesWritable
<1> HIDE DEF b
<1> QED
  BY <1>1, <1>2, Answers

(* The same of a value.                                                    *)
LEMMA ValueWritable ==
    ASSUME NEW bytes \in Seq(Byte), NEW pos \in Nat, DecodeValue(bytes, pos).ok
    PROVE  /\ IsValue(DecodeValue(bytes, pos).value)
           /\ pos + Len(EncodeValue(DecodeValue(bytes, pos).value)) <= DecodeValue(bytes, pos).pos
<1> DEFINE a == DecodeTag(bytes, pos, ValueTags)
           u == Payload(a.value, bytes, a.pos)
           v == [type |-> a.value, bytes |-> u.value]
<1>1. a.ok /\ u.ok /\ DecodeValue(bytes, pos) = Some(v, u.pos)
  BY ValueReader, Answers DEF ValueOf
<1>2. Begins(bytes, bytes)
  BY DEF Begins
<1>3. a.pos = pos + 1 /\ a.value \in ToSet(ValueTags)
  BY <1>1, <1>2, TagLocal
<1> HIDE DEF a
<1>4. /\ IsValue(v)
      /\ \A body : body = (IF a.value \in {"None", "Int", "Float"} THEN u.value
                           ELSE EncodeString(u.value)) => a.pos + Len(body) <= u.pos
  <2>1. a.value \in {"None", "Int", "Float", "Text", "Ident", "Bytes"} /\ a.pos \in Nat
    BY <1>3, Tables
  <2>2. v.type = a.value /\ v.bytes = u.value /\ v = [type |-> v.type, bytes |-> v.bytes]
    OBVIOUS
  <2>3. CASE a.value = "None"
    <3>1. u = Some(<< >>, a.pos)
      BY <2>3 DEF Payload
    <3>2. u.value = << >> /\ u.pos = a.pos /\ Len(u.value) = 0
      BY <3>1, Answers
    <3> HIDE DEF u, v
    <3>3. IsValue(v)
      BY <1>3, <2>2, <2>3, <3>2 DEF IsValue
    <3> QED
      BY <2>1, <2>3, <3>2, <3>3
  <2>4. CASE a.value \in {"Int", "Float"}
    <3>1. u = Take(bytes, a.pos, FixedLen) /\ FixedLen \in Nat
      BY <2>4, WidthAssumption DEF Payload
    <3>2. u.value \in Seq(Byte) /\ Len(u.value) = FixedLen /\ u.pos = a.pos + FixedLen
      BY <1>1, <1>2, <2>1, <3>1, TakeLocal
    <3> HIDE DEF u, v
    <3>3. IsValue(v)
      BY <1>3, <2>2, <2>4, <3>2 DEF IsValue
    <3> QED
      BY <2>1, <2>4, <3>1, <3>2, <3>3
  <2>5. CASE a.value \in {"Text", "Ident"}
    <3>1. u = DecodeString(bytes, a.pos)
      BY <2>5 DEF Payload
    <3>2. IsBytes(u.value) /\ IsText(u.value) /\ a.pos + Len(EncodeString(u.value)) <= u.pos
      BY <1>1, <2>1, <3>1, StringWritable
    <3> HIDE DEF u, v
    <3>3. IsValue(v)
      BY <1>3, <2>2, <2>5, <3>2 DEF IsValue
    <3> QED
      BY <2>5, <3>2, <3>3
  <2>6. CASE a.value = "Bytes"
    <3>1. u = DecodeBytes(bytes, a.pos)
      BY <2>6 DEF Payload
    <3>2. IsBytes(u.value) /\ a.pos + Len(EncodeString(u.value)) <= u.pos
      BY <1>1, <2>1, <3>1, BytesWritable
    <3> HIDE DEF u, v
    <3>3. IsValue(v)
      BY <1>3, <2>2, <2>6, <3>2 DEF IsValue
    <3> QED
      BY <2>6, <3>2, <3>3
  <2> QED
    BY <2>1, <2>3, <2>4, <2>5, <2>6
<1>5. v.type = a.value /\ v.bytes = u.value
  OBVIOUS
<1> HIDE DEF u, v
<1>6. PICK body \in Seq(Byte) :
          /\ Len(EncodeValue(v)) = 1 + Len(body)
          /\ body = IF a.value \in {"None", "Int", "Float"} THEN u.value ELSE EncodeString(u.value)
  BY <1>4, <1>5, EncodeValueParts
<1>7. a.pos + Len(body) <= u.pos /\ Len(body) \in Nat
  BY <1>4, <1>6
<1>8. pos + Len(EncodeValue(v)) <= u.pos
  <2>1. \A x \in Nat : pos + (1 + x) = (pos + 1) + x
    OBVIOUS
  <2> QED
    BY <1>3, <1>6, <1>7, <2>1
<1> QED
  BY <1>1, <1>4, <1>8, Answers

(* And of a field, which loses nothing when it is written again.           *)
LEMMA FieldWritable ==
    ASSUME NEW bytes \in Seq(Byte), NEW pos \in Nat, NEW type \in FieldTypes,
           NEW x, x = DecodeField(type, bytes, pos).value, DecodeField(type, bytes, pos).ok
    PROVE  /\ IsField(type, x) /\ Kept(type, x) = x
           /\ pos + Len(EncodeField(type, x)) <= DecodeField(type, bytes, pos).pos
<1>1. CASE type = "u32" \/ type = "usize"
  <2>1. DecodeField(type, bytes, pos) = DecodeVarint(bytes, pos)
    BY <1>1 DEF DecodeField
  <2>2. x \in U32 /\ pos + Len(EncodeVarint(x)) <= DecodeField(type, bytes, pos).pos
    BY <2>1, VarintWritable
  <2>3. x % IdMod = x /\ x \in Nat
    BY <2>2, WidthAssumption DEF U32
  <2>4. CASE type = "u32"
    BY <2>2, <2>4 DEF IsField, Kept, EncodeField
  <2>5. CASE type = "usize"
    <3>1. EncodeField(type, x) = EncodeVarint(x)
      BY <2>3, <2>5 DEF EncodeField, EncodeUsize
    <3> QED
      BY <2>2, <2>3, <2>5, <3>1 DEF IsField, Kept
  <2> QED
    BY <1>1, <2>4, <2>5
<1>2. CASE type = "kind"
  <2> DEFINE a == Take(bytes, pos, 1)
  <2>1. DecodeField(type, bytes, pos) = (IF a.ok THEN Some(KindFrom(a.value[1]), a.pos) ELSE None)
    BY <1>2 DEF DecodeField, Then
  <2>2. Begins(bytes, bytes)
    BY DEF Begins
  <2>3. a.ok => a.pos = pos + 1
    BY <2>2, TakeLocal
  <2> HIDE DEF a
  <2>4. a.ok /\ x = KindFrom(a.value[1]) /\ DecodeField(type, bytes, pos).pos = pos + 1
    BY <2>1, <2>3, Answers
  <2>5. x \in KindCodes \union {Custom}
    BY <2>4 DEF KindFrom
  <2>6. EncodeField(type, x) = <<x>> /\ Len(<<x>>) = 1
    BY <1>2 DEF EncodeField
  <2>7. IsField(type, x) /\ Kept(type, x) = x
    BY <1>2, <2>5 DEF IsField, Kept
  <2> QED
    BY <2>4, <2>6, <2>7
<1>3. CASE type = "string"
  <2>1. DecodeField(type, bytes, pos) = DecodeString(bytes, pos)
    BY <1>3 DEF DecodeField
  <2>2. IsBytes(x) /\ IsText(x) /\ pos + Len(EncodeString(x)) <= DecodeField(type, bytes, pos).pos
    BY <2>1, StringWritable
  <2> QED
    BY <1>3, <2>2 DEF IsField, Kept, EncodeField
<1>4. CASE type = "value"
  <2>1. DecodeField(type, bytes, pos) = DecodeValue(bytes, pos)
    BY <1>4 DEF DecodeField
  <2>2. IsValue(x) /\ pos + Len(EncodeValue(x)) <= DecodeField(type, bytes, pos).pos
    BY <2>1, ValueWritable
  <2> QED
    BY <1>4, <2>2 DEF IsField, Kept, EncodeField
<1> QED
  BY <1>1, <1>2, <1>3, <1>4 DEF FieldTypes

(* A list that was read was read item by item, each to a position.         *)
EndsSomewhere(r, d, n) ==
    \A i \in 1..n : r[i - 1].ok /\ r[i - 1].pos \in Nat /\ d[i].ok => d[i].pos \in Nat

(* What a loop has read is the list of what its turns have read.           *)
LEMMA LoopItems ==
    ASSUME NEW pos \in Nat, NEW n \in Nat, NEW r, NEW d, Loop(r, d, n, pos), r[n].ok,
           EndsSomewhere(r, d, n)
    PROVE  /\ \A i \in 1..n : r[i - 1].ok /\ r[i - 1].pos \in Nat /\ d[i].ok /\ r[i].pos = d[i].pos
           /\ r[n].value = [i \in 1..n |-> d[i].value]
           /\ r[n].pos \in Nat
<1> DEFINE T == {k \in Nat : k <= n => r[n - k].ok}
           Good(k) == r[k].pos \in Nat /\ r[k].value = [i \in 1..k |-> d[i].value]
           U == {k \in Nat : k <= n => Good(k)}
<1>1. \A i \in 1..n : r[i].ok => /\ r[i - 1].ok /\ d[i].ok /\ r[i].pos = d[i].pos
                                 /\ r[i].value = Append(r[i - 1].value, d[i].value)
  <2> SUFFICES ASSUME NEW i \in 1..n, r[i].ok
               PROVE  /\ r[i - 1].ok /\ d[i].ok /\ r[i].pos = d[i].pos
                      /\ r[i].value = Append(r[i - 1].value, d[i].value)
    OBVIOUS
  <2>1. r[i] = IF r[i - 1].ok
               THEN IF d[i].ok THEN Some(Append(r[i - 1].value, d[i].value), d[i].pos) ELSE None
               ELSE None
    BY DEF Loop
  <2>2. r[i - 1].ok /\ d[i].ok
    BY <2>1, Answers
  <2> DEFINE done == Append(r[i - 1].value, d[i].value)
  <2>3. r[i] = Some(done, d[i].pos)
    BY <2>1, <2>2
  <2> HIDE DEF done
  <2>4. r[i].pos = d[i].pos /\ r[i].value = done
    BY <2>3, Answers
  <2> QED
    BY <2>2, <2>4 DEF done
<1>2. ASSUME NEW k \in Nat, k \in T
      PROVE  k + 1 \in T
  <2> SUFFICES ASSUME k + 1 <= n PROVE r[n - (k + 1)].ok
    OBVIOUS
  <2>1. n - k \in 1..n /\ (n - k) - 1 = n - (k + 1) /\ k <= n
    OBVIOUS
  <2>2. r[n - k].ok
    BY <1>2, <2>1
  <2> QED
    BY <1>1, <2>1, <2>2
<1>3. \A k \in Nat : k \in T
  <2>1. 0 \in T
    OBVIOUS
  <2> HIDE DEF T
  <2> QED
    BY <1>2, <2>1, SetInduction
<1>4. \A i \in 0..n : r[i].ok
  <2> TAKE i \in 0..n
  <2>1. n - i \in Nat /\ n - (n - i) = i /\ n - i <= n
    OBVIOUS
  <2> QED
    BY <1>3, <2>1
<1>5. 0 \in U
  <2>1. r[0] = Some(<< >>, pos)
    BY DEF Loop
  <2>2. r[0].pos = pos /\ r[0].value = << >>
    BY <2>1, Answers
  <2>3. << >> = [i \in 1..0 |-> d[i].value]
    OBVIOUS
  <2> QED
    BY <2>2, <2>3
<1>6. ASSUME NEW k \in Nat, k \in U
      PROVE  k + 1 \in U
  <2> SUFFICES ASSUME k + 1 <= n PROVE Good(k + 1)
    OBVIOUS
  <2>1. k + 1 \in 1..n /\ (k + 1) - 1 = k /\ k <= n /\ k \in 0..n /\ k + 1 \in 0..n
    OBVIOUS
  <2>2. r[k].pos \in Nat /\ r[k].value = [i \in 1..k |-> d[i].value]
    BY <1>6, <2>1
  <2>3. r[k].ok /\ d[k + 1].ok /\ r[k + 1].pos = d[k + 1].pos
        /\ r[k + 1].value = Append(r[k].value, d[k + 1].value)
    BY <1>1, <1>4, <2>1
  <2>4. d[k + 1].pos \in Nat
    BY <2>1, <2>2, <2>3 DEF EndsSomewhere
  <2>5. Append(r[k].value, d[k + 1].value) = [i \in 1..(k + 1) |-> d[i].value]
    <3> DEFINE done == [i \in 1..k |-> d[i].value]
    <3>1. Len(done) = k
      OBVIOUS
    <3>2. Append(done, d[k + 1].value) = [i \in 1..(k + 1) |-> d[i].value]
      BY <3>1
    <3> QED
      BY <2>2, <3>2
  <2> QED
    BY <2>3, <2>4, <2>5
<1>7. \A k \in Nat : k \in U
  <2> HIDE DEF U
  <2> QED
    BY <1>5, <1>6, SetInduction
<1>8. \A i \in 0..n : Good(i)
  BY <1>7
<1>9. \A i \in 1..n : r[i - 1].ok /\ r[i - 1].pos \in Nat /\ d[i].ok /\ r[i].pos = d[i].pos
  <2> TAKE i \in 1..n
  <2>1. i \in 0..n /\ i - 1 \in 0..n
    OBVIOUS
  <2> QED
    BY <1>1, <1>4, <1>8, <2>1
<1> QED
  BY <1>8, <1>9

(* Parts that fit between positions fit together between the first and the *)
(* last.                                                                   *)
LEMMA PartsFit ==
    ASSUME NEW ss \in Seq(Seq(Byte)), NEW p, p[0] \in Nat,
           \A i \in 1..Len(ss) : p[i] \in Nat /\ p[i - 1] + Len(ss[i]) <= p[i]
    PROVE  /\ FlattenSeq(ss) \in Seq(Byte)
           /\ p[0] + Len(FlattenSeq(ss)) <= p[Len(ss)]
<1> DEFINE n == Len(ss)
<1>1. PICK f : Beginnings(f, ss) /\ \A i \in 0..n : f[i] \in Seq(Byte)
  BY FlattenParts
<1> DEFINE T == {k \in Nat : k <= n => p[k] \in Nat /\ p[0] + Len(f[k]) <= p[k]}
<1>2. n \in Nat
  OBVIOUS
<1> \A i \in 1..n : ss[i] \in Seq(Byte)
  OBVIOUS
<1>3. 0 \in T
  <2>1. f[0] = << >> /\ Len(f[0]) = 0
    BY <1>1 DEF Beginnings
  <2> QED
    BY <2>1
<1>4. ASSUME NEW k \in Nat, k \in T
      PROVE  k + 1 \in T
  <2> SUFFICES ASSUME k + 1 <= n
               PROVE  p[k + 1] \in Nat /\ p[0] + Len(f[k + 1]) <= p[k + 1]
    OBVIOUS
  <2>1. k + 1 \in 1..n /\ (k + 1) - 1 = k /\ k <= n /\ k \in 0..n
    BY <1>2
  <2>2. p[k] \in Nat /\ p[0] + Len(f[k]) <= p[k]
    BY <1>4, <2>1
  <2>3. p[k + 1] \in Nat /\ p[k] + Len(ss[k + 1]) <= p[k + 1]
    BY <2>1
  <2>4. f[k] \in Seq(Byte) /\ ss[k + 1] \in Seq(Byte)
    BY <1>1, <2>1
  <2>5. f[k + 1] = f[k] \o ss[k + 1]
    <3>1. f[k + 1] = f[(k + 1) - 1] \o ss[k + 1]
      BY <1>1, <2>1 DEF Beginnings
    <3> QED
      BY <2>1, <3>1
  <2>6. Len(f[k]) \in Nat /\ Len(ss[k + 1]) \in Nat /\ Len(f[k + 1]) = Len(f[k]) + Len(ss[k + 1])
    BY <2>4, <2>5, ConcatProperties
  <2> DEFINE a == p[0]
             b == Len(f[k])
             c == Len(ss[k + 1])
             x == p[k]
             y == p[k + 1]
  <2>8. /\ a \in Nat /\ b \in Nat /\ c \in Nat /\ x \in Nat /\ y \in Nat
        /\ a + b <= x /\ x + c <= y /\ Len(f[k + 1]) = b + c
    BY <2>2, <2>3, <2>6
  <2> HIDE DEF a, b, c, x, y
  <2>9. a + Len(f[k + 1]) <= y
    BY <2>8
  <2> QED
    BY <2>8, <2>9 DEF a, y
<1>5. n \in T
  <2> HIDE DEF T
  <2> QED
    BY <1>2, <1>3, <1>4, SetInduction
<1>6. n \in 0..n
  BY <1>2
<1> QED
  BY <1>1, <1>2, <1>5, <1>6 DEF Beginnings

(* The fields of an operation, read from pos to end.                       *)
WritableFields(types, xs, pos, end) ==
    /\ xs = [i \in 1..Len(types) |-> xs[i]]
    /\ \A i \in 1..Len(types) : IsField(types[i], xs[i]) /\ Kept(types[i], xs[i]) = xs[i]
    /\ pos + Len(FlattenSeq([i \in 1..Len(types) |-> EncodeField(types[i], xs[i])])) <= end

(* Fields that were read can be written, in no more bytes altogether.      *)
LEMMA FieldsWritable ==
    ASSUME NEW bytes \in Seq(Byte), NEW pos \in Nat, NEW types, Len(types) \in Nat,
           \A i \in 1..Len(types) : types[i] \in FieldTypes,
           DecodeFields(types, bytes, pos).ok,
           NEW xs, xs = DecodeFields(types, bytes, pos).value
    PROVE  WritableFields(types, xs, pos, DecodeFields(types, bytes, pos).pos)
<1> DEFINE n == Len(types)
           ss == [i \in 1..n |-> EncodeField(types[i], xs[i])]
<1>1. PICK r, d : FieldTurns(r, d, types, bytes, pos)
  BY FieldsLoop, Zenon
<1>2. /\ Loop(r, d, n, pos) /\ DecodeFields(types, bytes, pos) = r[n]
      /\ \A i \in 1..n : d[i] = DecodeField(types[i], bytes, r[i - 1].pos)
  BY <1>1 DEF FieldTurns
<1>3. Begins(bytes, bytes)
  BY DEF Begins
<1>4. EndsSomewhere(r, d, n)
  <2> SUFFICES ASSUME NEW i \in 1..n, r[i - 1].ok, r[i - 1].pos \in Nat, d[i].ok
               PROVE  d[i].pos \in Nat
    BY DEF EndsSomewhere
  <2> DEFINE from == r[i - 1].pos
  <2>1. Local(DecodeField(types[i], bytes, from), DecodeField(types[i], bytes, from), from, bytes, bytes)
    BY <1>3, FieldLocal
  <2> QED
    BY <1>2, <2>1 DEF Local, Ends
<1>5. n \in Nat /\ r[n].ok /\ r[n].value = xs
  BY <1>2
<1>6. /\ \A i \in 1..n : r[i - 1].ok /\ r[i - 1].pos \in Nat /\ d[i].ok /\ r[i].pos = d[i].pos
      /\ r[n].value = [i \in 1..n |-> d[i].value]
      /\ r[n].pos \in Nat
  <2> HIDE DEF n
  <2> QED
    BY <1>2, <1>4, <1>5, LoopItems
<1>7. xs = [i \in 1..n |-> xs[i]] /\ \A i \in 1..n : xs[i] = d[i].value
  BY <1>5, <1>6
<1>8. ASSUME NEW i \in 1..n
      PROVE  /\ IsField(types[i], xs[i]) /\ Kept(types[i], xs[i]) = xs[i]
             /\ EncodeField(types[i], xs[i]) \in Seq(Byte)
             /\ r[i].pos \in Nat /\ r[i - 1].pos + Len(EncodeField(types[i], xs[i])) <= r[i].pos
  <2> DEFINE from == r[i - 1].pos
             x == xs[i]
             type == types[i]
  <2>1. /\ from \in Nat /\ type \in FieldTypes /\ d[i].ok /\ r[i].pos = d[i].pos
        /\ d[i] = DecodeField(type, bytes, from) /\ x = d[i].value
    BY <1>2, <1>6, <1>7
  <2>2. r[i].pos \in Nat
    <3>1. d[i].pos \in Nat
      BY <1>4, <1>6 DEF EndsSomewhere
    <3> QED
      BY <2>1, <3>1
  <2> HIDE DEF from, x, type
  <2>3. /\ IsField(type, x) /\ Kept(type, x) = x
        /\ from + Len(EncodeField(type, x)) <= DecodeField(type, bytes, from).pos
    BY <2>1, FieldWritable
  <2>4. EncodeField(type, x) \in Seq(Byte)
    BY <2>1, <2>3, FieldReads
  <2> QED
    BY <2>1, <2>2, <2>3, <2>4 DEF from, x, type
<1>9. ss \in Seq(Seq(Byte)) /\ Len(ss) = n /\ \A i \in 1..n : ss[i] = EncodeField(types[i], xs[i])
  BY <1>5, <1>8
<1> DEFINE p == [i \in 0..n |-> r[i].pos]
<1>10. p[0] = pos /\ p[n] = r[n].pos /\ \A i \in 1..n : p[i] = r[i].pos /\ p[i - 1] = r[i - 1].pos
  <2>1. r[0] = Some(<< >>, pos)
    BY <1>2 DEF Loop
  <2>2. r[0].pos = pos
    BY <2>1, Answers
  <2>3. 0 \in 0..n /\ n \in 0..n /\ \A i \in 1..n : i \in 0..n /\ i - 1 \in 0..n
    BY <1>5
  <2> HIDE DEF n
  <2> QED
    BY <2>2, <2>3
<1> HIDE DEF p, ss
<1>11. pos + Len(FlattenSeq(ss)) <= r[n].pos
  <2>1. p[0] \in Nat /\ \A i \in 1..Len(ss) : p[i] \in Nat /\ p[i - 1] + Len(ss[i]) <= p[i]
    BY <1>8, <1>9, <1>10
  <2>2. p[0] + Len(FlattenSeq(ss)) <= p[Len(ss)]
    BY <1>9, <2>1, PartsFit
  <2> QED
    BY <1>9, <1>10, <2>2
<1> QED
  BY <1>2, <1>7, <1>8, <1>11 DEF ss, WritableFields

(* An operation.                                                           *)
LEMMA OpWritable ==
    ASSUME NEW bytes \in Seq(Byte), NEW pos \in Nat, DecodeOp(bytes, pos).ok,
           NEW o, o = DecodeOp(bytes, pos).value
    PROVE  /\ IsOp(o) /\ Narrowed(o) = o
           /\ pos + Len(EncodeOp(o)) <= DecodeOp(bytes, pos).pos
<1> DEFINE a == DecodeTag(bytes, pos, OpTags)
           types == FieldsRead[a.value]
           n == Len(types)
           u == DecodeFields(types, bytes, a.pos)
           ss == [i \in 1..n |-> EncodeField(types[i], u.value[i])]
<1>1. /\ a.ok /\ u.ok /\ o = [op |-> a.value, fields |-> u.value]
      /\ DecodeOp(bytes, pos).pos = u.pos
  BY OpReader, Answers DEF OpOf
<1>2. a.pos = pos + 1 /\ a.value \in ToSet(OpTags) /\ a.pos \in Nat
  <2>1. Begins(bytes, bytes)
    BY DEF Begins
  <2> QED
    BY <1>1, <2>1, TagLocal
<1>3. o.op = a.value /\ o.fields = u.value /\ o = [op |-> o.op, fields |-> o.fields]
  BY <1>1
<1>4. /\ types = FieldsWritten[o.op] /\ n \in Nat /\ DOMAIN types = 1..n
      /\ \A i \in 1..n : types[i] \in FieldTypes
  BY <1>2, <1>3, FieldTables
<1> HIDE DEF a, types
<1>5. /\ u.value = [i \in 1..n |-> u.value[i]]
      /\ \A i \in 1..n : IsField(types[i], u.value[i]) /\ Kept(types[i], u.value[i]) = u.value[i]
      /\ a.pos + Len(FlattenSeq(ss)) <= u.pos
  <2> DEFINE xs == u.value
  <2>1. xs = DecodeFields(types, bytes, a.pos).value /\ DecodeFields(types, bytes, a.pos).ok
    BY <1>1
  <2>2. Len(types) \in Nat /\ \A i \in 1..Len(types) : types[i] \in FieldTypes
    BY <1>4
  <2> HIDE DEF xs
  <2>3. WritableFields(types, xs, a.pos, DecodeFields(types, bytes, a.pos).pos)
    BY <1>2, <2>1, <2>2, FieldsWritable
  <2> QED
    BY <2>3 DEF xs, WritableFields
<1> HIDE DEF u, n
<1>6. DOMAIN o.fields = 1..n /\ o.fields = [i \in DOMAIN o.fields |-> o.fields[i]]
  <2>1. DOMAIN u.value = 1..n
    BY <1>5
  <2> QED
    BY <1>3, <1>5, <2>1
<1>7. IsOp(o)
  BY <1>2, <1>3, <1>4, <1>5, <1>6 DEF IsOp
<1>8. Narrowed(o) = o
  <2>1. Narrowed(o) = [op |-> o.op, fields |-> [i \in 1..n |-> Kept(types[i], o.fields[i])]]
    BY <1>4, <1>7, NarrowedOp DEF n
  <2>2. [i \in 1..n |-> Kept(types[i], o.fields[i])] = [i \in 1..n |-> o.fields[i]]
    BY <1>3, <1>5
  <2> QED
    BY <1>3, <1>6, <2>1, <2>2
<1>9. EncodeOp(o) = <<TagOf(o.op, OpTags)>> \o FlattenSeq(ss)
  <2>1. [i \in DOMAIN o.fields |-> EncodeField(FieldsWritten[o.op][i], o.fields[i])] = ss
    BY <1>3, <1>4, <1>6
  <2> HIDE DEF ss
  <2> QED
    BY <2>1 DEF EncodeOp
<1>10. ss \in Seq(Seq(Byte)) /\ FlattenSeq(ss) \in Seq(Byte)
  <2>1. \A i \in 1..n : EncodeField(types[i], u.value[i]) \in Seq(Byte)
    BY <1>4, <1>5, FieldReads
  <2>2. ss \in Seq(Seq(Byte)) /\ Len(ss) = n
    BY <1>4, <2>1
  <2> HIDE DEF ss
  <2>3. PICK f : Beginnings(f, ss) /\ \A i \in 0..Len(ss) : f[i] \in Seq(Byte)
    BY <2>2, FlattenParts
  <2> QED
    BY <1>4, <2>2, <2>3 DEF Beginnings
<1> DEFINE tag == TagOf(o.op, OpTags)
<1>11. tag \in Byte
  <2>1. << >> \in Seq(Byte) /\ Len(OpTags) \in 0..6 /\ DOMAIN OpTags = 1..Len(OpTags)
    BY Tables
  <2> QED
    BY <1>2, <1>3, <2>1, TagReads
<1> DEFINE body == FlattenSeq(ss)
<1> HIDE DEF body, tag
<1>12. Len(EncodeOp(o)) = 1 + Len(body) /\ Len(body) \in Nat
  <2>1. <<tag>> \in Seq(Byte) /\ Len(<<tag>>) = 1 /\ body \in Seq(Byte)
    BY <1>10, <1>11 DEF body
  <2>2. EncodeOp(o) = <<tag>> \o body
    BY <1>9 DEF tag, body
  <2> QED
    BY <2>1, <2>2, ConcatProperties
<1>13. pos + Len(EncodeOp(o)) <= u.pos
  <2>1. a.pos + Len(body) <= u.pos
    BY <1>5 DEF body
  <2>2. \A x \in Nat : pos + (1 + x) = (pos + 1) + x
    OBVIOUS
  <2> QED
    BY <1>2, <1>12, <2>1, <2>2
<1> QED
  BY <1>1, <1>7, <1>8, <1>13

(* The operations of a patch, read from pos to end.                        *)
WritableOps(ops, n, pos, end) ==
    /\ ops = [i \in 1..n |-> ops[i]]
    /\ \A i \in 1..n : IsOp(ops[i]) /\ Narrowed(ops[i]) = ops[i]
    /\ FlattenSeq([i \in 1..n |-> EncodeOp(ops[i])]) \in Seq(Byte)
    /\ pos + Len(FlattenSeq([i \in 1..n |-> EncodeOp(ops[i])])) <= end

(* And so can operations, each as an operation of encode_op's.             *)
LEMMA OpsWritable ==
    ASSUME NEW bytes \in Seq(Byte), NEW pos \in Nat, NEW n \in Nat, DecodeOps(n, bytes, pos).ok,
           NEW ops, ops = DecodeOps(n, bytes, pos).value
    PROVE  WritableOps(ops, n, pos, DecodeOps(n, bytes, pos).pos)
<1> DEFINE ss == [i \in 1..n |-> EncodeOp(ops[i])]
<1>1. PICK r, d : OpTurns(r, d, n, bytes, pos)
  BY OpsLoop, Zenon
<1>2. /\ Loop(r, d, n, pos) /\ DecodeOps(n, bytes, pos) = r[n]
      /\ \A i \in 1..n : d[i] = DecodeOp(bytes, r[i - 1].pos)
  BY <1>1 DEF OpTurns
<1>3. Begins(bytes, bytes)
  BY DEF Begins
<1>4. EndsSomewhere(r, d, n)
  <2> SUFFICES ASSUME NEW i \in 1..n, r[i - 1].ok, r[i - 1].pos \in Nat, d[i].ok
               PROVE  d[i].pos \in Nat
    BY DEF EndsSomewhere
  <2> DEFINE from == r[i - 1].pos
  <2>1. Local(DecodeOp(bytes, from), DecodeOp(bytes, from), from, bytes, bytes)
    BY <1>3, OpLocal
  <2> QED
    BY <1>2, <2>1 DEF Local, Ends
<1>5. r[n].ok /\ r[n].value = ops
  BY <1>2
<1>6. /\ \A i \in 1..n : r[i - 1].ok /\ r[i - 1].pos \in Nat /\ d[i].ok /\ r[i].pos = d[i].pos
      /\ r[n].value = [i \in 1..n |-> d[i].value]
      /\ r[n].pos \in Nat
  BY <1>2, <1>4, <1>5, LoopItems
<1>7. ops = [i \in 1..n |-> ops[i]] /\ \A i \in 1..n : ops[i] = d[i].value
  BY <1>5, <1>6
<1>8. ASSUME NEW i \in 1..n
      PROVE  /\ IsOp(ops[i]) /\ Narrowed(ops[i]) = ops[i]
             /\ EncodeOp(ops[i]) \in Seq(Byte)
             /\ r[i].pos \in Nat /\ r[i - 1].pos + Len(EncodeOp(ops[i])) <= r[i].pos
  <2> DEFINE from == r[i - 1].pos
             o == ops[i]
  <2>1. /\ from \in Nat /\ d[i].ok /\ r[i].pos = d[i].pos
        /\ d[i] = DecodeOp(bytes, from) /\ o = d[i].value
    BY <1>2, <1>6, <1>7
  <2>2. r[i].pos \in Nat
    <3>1. d[i].pos \in Nat
      BY <1>4, <1>6 DEF EndsSomewhere
    <3> QED
      BY <2>1, <3>1
  <2> HIDE DEF from, o
  <2>3. /\ IsOp(o) /\ Narrowed(o) = o
        /\ from + Len(EncodeOp(o)) <= DecodeOp(bytes, from).pos
    BY <2>1, OpWritable
  <2>4. EncodeOp(o) \in Seq(Byte)
    BY <2>3, OpReads
  <2> QED
    BY <2>1, <2>2, <2>3, <2>4 DEF from, o
<1>9. ss \in Seq(Seq(Byte)) /\ Len(ss) = n /\ \A i \in 1..n : ss[i] = EncodeOp(ops[i])
  BY <1>8
<1> DEFINE p == [i \in 0..n |-> r[i].pos]
<1>10. p[0] = pos /\ p[n] = r[n].pos /\ \A i \in 1..n : p[i] = r[i].pos /\ p[i - 1] = r[i - 1].pos
  <2>1. r[0] = Some(<< >>, pos)
    BY <1>2 DEF Loop
  <2>2. r[0].pos = pos
    BY <2>1, Answers
  <2>3. 0 \in 0..n /\ n \in 0..n /\ \A i \in 1..n : i \in 0..n /\ i - 1 \in 0..n
    OBVIOUS
  <2> QED
    BY <2>2, <2>3
<1> HIDE DEF p, ss
<1>11. FlattenSeq(ss) \in Seq(Byte) /\ pos + Len(FlattenSeq(ss)) <= r[n].pos
  <2>1. p[0] \in Nat /\ \A i \in 1..Len(ss) : p[i] \in Nat /\ p[i - 1] + Len(ss[i]) <= p[i]
    BY <1>8, <1>9, <1>10
  <2>2. FlattenSeq(ss) \in Seq(Byte) /\ p[0] + Len(FlattenSeq(ss)) <= p[Len(ss)]
    BY <1>9, <2>1, PartsFit
  <2> QED
    BY <1>9, <1>10, <2>2
<1> QED
  BY <1>2, <1>7, <1>8, <1>11 DEF ss, WritableOps

(* Whatever is accepted can be written again, and is then read as the same *)
(* patch, from no more bytes than before.                                  *)
THEOREM AcceptedIsWritableHolds == Spec => []AcceptedIsWritable
<1>1. ASSUME NEW bytes \in Seq(Byte), DecodePatch(bytes).ok,
             NEW ops, ops = DecodePatch(bytes).value
      PROVE  /\ DecodePatch(bytes).pos <= Len(bytes)
             /\ Len(EncodePatch(ops)) <= DecodePatch(bytes).pos
             /\ DecodePatch(EncodePatch(ops)) = Some(ops, Len(EncodePatch(ops)))
  <2> DEFINE a == DecodeVarint(bytes, 0)
             n == a.value
             body == FlattenSeq([i \in 1..n |-> EncodeOp(ops[i])])
             r == DecodePatch(bytes)
  <2>1. Begins(bytes, bytes)
    BY DEF Begins
  <2>2. a.ok /\ r = DecodeOps(n, bytes, a.pos)
    BY <1>1, Answers DEF DecodePatch, Then
  <2>3. /\ n \in U32 /\ 0 + Len(EncodeVarint(n)) <= a.pos /\ a.pos \in Nat
    <3>1. Local(a, a, 0, bytes, bytes)
      BY <2>1, VarintLocal
    <3> QED
      BY <2>2, <3>1, VarintWritable DEF Local, Ends
  <2>4. r.pos <= Len(bytes)
    BY <1>1, <2>1, PatchLocal DEF Local, Ends
  <2> HIDE DEF a, r
  <2>5. n \in Nat /\ n < IdMod /\ n % IdMod = n
    BY <2>3, WidthAssumption DEF U32
  <2>6. /\ ops = [i \in 1..n |-> ops[i]]
        /\ \A i \in 1..n : IsOp(ops[i]) /\ Narrowed(ops[i]) = ops[i]
        /\ body \in Seq(Byte) /\ a.pos + Len(body) <= r.pos
    <3>1. DecodeOps(n, bytes, a.pos).ok /\ ops = DecodeOps(n, bytes, a.pos).value
      BY <1>1, <2>2 DEF r
    <3> HIDE DEF n
    <3>2. WritableOps(ops, n, a.pos, DecodeOps(n, bytes, a.pos).pos)
      BY <2>3, <2>5, <3>1, OpsWritable
    <3> QED
      BY <2>2, <3>2 DEF WritableOps
  <2> HIDE DEF n
  <2>7. DOMAIN ops = 1..n /\ Len(ops) = n /\ ops \in Seq({ops[i] : i \in 1..n})
    <3>1. DOMAIN ops = 1..n
      BY <2>6
    <3> DEFINE S == {ops[i] : i \in 1..n}
               again == [i \in 1..n |-> ops[i]]
    <3>2. again \in Seq(S) /\ Len(again) = n
      BY <2>5
    <3>3. ops = again
      BY <2>6
    <3> HIDE DEF again
    <3> QED
      BY <3>1, <3>2, <3>3
  <2> DEFINE again == EncodePatch(ops)
             head == EncodeVarint(n)
  <2>8. again = head \o body
    BY <2>5, <2>7 DEF EncodePatch, EncodeUsize
  <2>9. head \in Seq(Byte)
    BY <2>3, EncodeVarintType
  <2>10. /\ again \in Seq(Byte)
         /\ \A input \in Seq(Byte) : At(input, 0, again) =>
               DecodePatch(input) = Some([i \in DOMAIN ops |-> Narrowed(ops[i])], Len(again))
    BY <2>5, <2>6, <2>7, PatchReads
  <2>11. [i \in DOMAIN ops |-> Narrowed(ops[i])] = ops
    BY <2>6, <2>7
  <2> HIDE DEF again, head, body
  <2>12. At(again, 0, again)
    BY <2>10 DEF At
  <2>13. DecodePatch(again) = Some(ops, Len(again))
    BY <2>10, <2>11, <2>12
  <2>14. Len(again) <= r.pos
    <3>1. Len(again) = Len(head) + Len(body) /\ Len(head) \in Nat /\ Len(body) \in Nat
      BY <2>6, <2>8, <2>9, ConcatProperties
    <3>2. r.pos \in Nat
      BY <1>1, <2>1, PatchLocal DEF Local, Ends, r
    <3> QED
      BY <2>3, <2>6, <3>1, <3>2 DEF head
  <2> QED
    BY <2>4, <2>13, <2>14 DEF again, r
<1>2. CodecInv => AcceptedIsWritable
  BY <1>1 DEF CodecInv, AcceptedIsWritable
<1> QED
  BY <1>2, CodecInvHolds, PTL
============================================================================
