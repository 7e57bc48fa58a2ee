--------------------------- MODULE SessionsProofs ---------------------------
(* Proofs about the sessions of an agent: AgentTurns and HealMessages for    *)
(* any number of turns, sessions and texts, any limit of iterations and any  *)
(* number of tools; SessionWatch for any records and any number of them.     *)
EXTENDS AgentTurns, SessionWatch, SequenceTheorems, WellFoundedInduction, TLAPS

-----------------------------------------------------------------------------
(* Natural numbers.                                                          *)

Less == {p \in Nat \X Nat : p[1] < p[2]}

LEMMA LeastNumber ==
  ASSUME NEW T \in SUBSET Nat, T # {}
  PROVE  \E x \in T : \A y \in T : x <= y
<1>1. OpToRel(<, Nat) = Less
  BY DEF OpToRel, Less
<1>2. IsWellFoundedOn(Less, Nat)
  BY <1>1, NatLessThanWellFounded
<1>3. PICK x \in T : \A y \in T : <<y, x>> \notin Less
  BY <1>2, WFMin
<1>4. \A m, n \in Nat : m < n => <<m, n>> \in Less
  BY Zenon DEF Less
<1>5. ASSUME NEW y \in T
      PROVE  x <= y
  <2>1. x \in Nat /\ y \in Nat
    OBVIOUS
  <2>2. ~(y < x)
    BY <1>3, <1>4, <2>1, Zenon
  <2> QED
    BY <2>1, <2>2
<1> QED
  BY <1>5

LEMMA Induction ==
  ASSUME NEW S, 0 \in S, \A n \in Nat : n \in S => n + 1 \in S
  PROVE  \A n \in Nat : n \in S
<1> SUFFICES ASSUME Nat \ S # {}
             PROVE  FALSE
  OBVIOUS
<1>1. PICK x \in Nat \ S : \A y \in Nat \ S : x <= y
  BY LeastNumber
<1>2. x - 1 \in Nat /\ ~(x <= x - 1)
  BY <1>1
<1>3. x - 1 \in S
  BY <1>1, <1>2
<1>4. (x - 1) + 1 \in S
  BY <1>2, <1>3
<1> QED
  BY <1>1, <1>4

-----------------------------------------------------------------------------
(* FlattenSeq, by the place each sequence has in what it gives.              *)

Joins(g, ss, n) ==
  g = [i \in 1..n |-> IF i = 1 THEN ss[i] ELSE g[i - 1] \o ss[i]]

LEMMA JoinsOnce ==
  ASSUME NEW ss, NEW n \in Nat, NEW g, NEW h, Joins(g, ss, n), Joins(h, ss, n)
  PROVE  g = h
<1> DEFINE T == {i \in 1..n : g[i] # h[i]}
<1>1. /\ g = [i \in 1..n |-> g[i]] /\ h = [i \in 1..n |-> h[i]]
      /\ \A i \in 1..n : g[i] = IF i = 1 THEN ss[i] ELSE g[i - 1] \o ss[i]
      /\ \A i \in 1..n : h[i] = IF i = 1 THEN ss[i] ELSE h[i - 1] \o ss[i]
  BY DEF Joins
<1>2. ASSUME T # {}
      PROVE  FALSE
  <2>1. T \in SUBSET Nat
    OBVIOUS
  <2>2. PICK x \in T : \A y \in T : x <= y
    <3> HIDE DEF T
    <3> QED
      BY <1>2, <2>1, LeastNumber
  <2>3. x \in 1..n /\ g[x] # h[x]
    OBVIOUS
  <2>4. x # 1
    BY <1>1, <2>3
  <2>5. x - 1 \in 1..n /\ ~(x <= x - 1)
    BY <2>3, <2>4
  <2>6. g[x - 1] = h[x - 1]
    BY <2>2, <2>5
  <2>7. g[x] = g[x - 1] \o ss[x] /\ h[x] = h[x - 1] \o ss[x]
    BY <1>1, <2>3, <2>4
  <2> QED
    BY <2>3, <2>6, <2>7, Zenon
<1>3. \A i \in 1..n : g[i] = h[i]
  BY <1>2
<1> QED
  BY <1>1, <1>3

LEMMA JoinsExist ==
  ASSUME NEW S, NEW ss \in Seq(Seq(S))
  PROVE  \A n \in 0..Len(ss) : \E g \in [1..n -> Seq(S)] : Joins(g, ss, n)
<1> DEFINE Exists(n) == \E g \in [1..n -> Seq(S)] : Joins(g, ss, n)
           A == {n \in Nat : n <= Len(ss) => Exists(n)}
<1>1. 0 \in A
  <2>1. [i \in 1..0 |-> <<>>] \in [1..0 -> Seq(S)]
    OBVIOUS
  <2>2. Joins([i \in 1..0 |-> <<>>], ss, 0)
    BY DEF Joins
  <2> QED
    BY <2>1, <2>2
<1>2. ASSUME NEW n \in Nat, n \in A, n + 1 <= Len(ss)
      PROVE  Exists(n + 1)
  <2>1. PICK g \in [1..n -> Seq(S)] : Joins(g, ss, n)
    BY <1>2
  <2> DEFINE new == IF n = 0 THEN ss[1] ELSE g[n] \o ss[n + 1]
             h == [i \in 1..(n + 1) |-> IF i = n + 1 THEN new ELSE g[i]]
  <2>2. ss[n + 1] \in Seq(S)
    BY <1>2
  <2>3. new \in Seq(S)
    <3>1. CASE n = 0
      BY <2>2, <3>1
    <3>2. CASE n # 0
      <4>1. g[n] \in Seq(S)
        BY <2>1, <3>2
      <4> QED
        BY <2>2, <3>2, <4>1, ConcatProperties
    <3> QED
      BY <3>1, <3>2
  <2>4. \A i \in 1..(n + 1) : i = n + 1 \/ i \in 1..n
    OBVIOUS
  <2>5. \A i \in 1..n : i # n + 1 /\ (i # 1 => i - 1 \in 1..n /\ i - 1 # n + 1)
    OBVIOUS
  <2>6. \A i \in 1..n : g[i] = IF i = 1 THEN ss[i] ELSE g[i - 1] \o ss[i]
    BY <2>1 DEF Joins
  <2> HIDE DEF new
  <2>7. h \in [1..(n + 1) -> Seq(S)]
    BY <2>1, <2>3, <2>4
  <2>8. ASSUME NEW i \in 1..(n + 1)
        PROVE  h[i] = IF i = 1 THEN ss[i] ELSE h[i - 1] \o ss[i]
    <3>1. CASE i = n + 1 /\ n = 0
      BY <3>1 DEF new
    <3>2. CASE i = n + 1 /\ n # 0
      <4>1. n \in 1..(n + 1) /\ n # n + 1 /\ i - 1 = n /\ i # 1
        BY <3>2
      <4>2. h[i] = g[n] \o ss[n + 1] /\ h[n] = g[n]
        BY <3>2, <4>1 DEF new
      <4> QED
        BY <3>2, <4>1, <4>2
    <3>3. CASE i \in 1..n
      <4>1. h[i] = g[i] /\ (i # 1 => h[i - 1] = g[i - 1])
        BY <2>5, <3>3
      <4> QED
        BY <2>6, <3>3, <4>1
    <3> QED
      BY <2>4, <3>1, <3>2, <3>3
  <2> HIDE DEF h
  <2>9. h = [i \in 1..(n + 1) |-> IF i = 1 THEN ss[i] ELSE h[i - 1] \o ss[i]]
    BY <2>7, <2>8
  <2> QED
    BY <2>7, <2>9 DEF Joins
<1> HIDE DEF Exists
<1>3. \A n \in Nat : n \in A => n + 1 \in A
  BY <1>2
<1>4. \A n \in Nat : n \in A
  <2> HIDE DEF A
  <2> QED
    BY <1>1, <1>3, Induction
<1>5. \A n \in 0..Len(ss) : n \in Nat /\ n <= Len(ss)
  OBVIOUS
<1> QED
  BY <1>4, <1>5 DEF Exists

LEMMA FlattenJoins ==
  ASSUME NEW ss, Len(ss) \in Nat, Len(ss) # 0, NEW g, Joins(g, ss, Len(ss))
  PROVE  FlattenSeq(ss) = g[Len(ss)]
<1> DEFINE f == CHOOSE h : Joins(h, ss, Len(ss))
<1>1. f = g
  BY JoinsOnce
<1>2. FlattenSeq(ss) = f[Len(ss)]
  BY DEF FlattenSeq, Joins
<1> QED
  BY <1>1, <1>2

(* Where each sequence of ss begins in flat, less one, and that flat is      *)
(* nothing else.                                                             *)
Lays(at, flat, ss, n) ==
  /\ at \in [1..(n + 1) -> Nat] /\ at[1] = 0 /\ Len(flat) = at[n + 1]
  /\ \A i \in 1..n : at[i + 1] = at[i] + Len(ss[i])
  /\ \A i \in 1..n : \A k \in 1..Len(ss[i]) :
       at[i] + k \in 1..Len(flat) /\ flat[at[i] + k] = ss[i][k]
  /\ \A p \in 1..Len(flat) :
       \E i \in 1..n : \E k \in 1..Len(ss[i]) : p = at[i] + k

LEMMA LayOne ==
  ASSUME NEW S, NEW ss \in Seq(Seq(S)), NEW n \in Nat, n + 1 <= Len(ss),
         NEW at, NEW flat \in Seq(S), Lays(at, flat, ss, n)
  PROVE  \E to : Lays(to, flat \o ss[n + 1], ss, n + 1)
<1> DEFINE new == ss[n + 1]
           long == flat \o new
           to == [i \in 1..(n + 2) |->
                    IF i = n + 2 THEN at[n + 1] + Len(new) ELSE at[i]]
<1>1. new \in Seq(S) /\ Len(new) \in Nat /\ Len(flat) \in Nat
  OBVIOUS
<1>2. /\ Len(long) = Len(flat) + Len(new)
      /\ \A p \in 1..(Len(flat) + Len(new)) :
           long[p] = IF p <= Len(flat) THEN flat[p] ELSE new[p - Len(flat)]
  BY <1>1, ConcatProperties
<1>3. /\ at \in [1..(n + 1) -> Nat] /\ at[1] = 0 /\ Len(flat) = at[n + 1]
      /\ \A i \in 1..n : at[i + 1] = at[i] + Len(ss[i])
  BY DEF Lays
<1> HIDE DEF new, long
<1>4. to \in [1..(n + 2) -> Nat]
  BY <1>1, <1>3
<1>5. \A i \in 1..(n + 1) : to[i] = at[i]
  OBVIOUS
<1>6. to[n + 2] = Len(long) /\ to[1] = 0
  BY <1>2, <1>3, <1>5
<1> HIDE DEF to
<1>7. \A i \in 1..(n + 1) : i = n + 1 \/ i \in 1..n
  OBVIOUS
<1>8. ASSUME NEW i \in 1..(n + 1)
      PROVE  to[i + 1] = to[i] + Len(ss[i])
  <2>1. CASE i = n + 1
    BY <1>2, <1>3, <1>5, <1>6, <2>1 DEF new
  <2>2. CASE i \in 1..n
    <3>1. i + 1 \in 1..(n + 1)
      BY <2>2
    <3> QED
      BY <1>3, <1>5, <2>2, <3>1
  <2> QED
    BY <1>7, <2>1, <2>2
<1>9. ASSUME NEW i \in 1..(n + 1), NEW k \in 1..Len(ss[i])
      PROVE  to[i] + k \in 1..Len(long) /\ long[to[i] + k] = ss[i][k]
  <2>1. CASE i = n + 1
    <3>1. to[i] = Len(flat) /\ ss[i] = new
      BY <1>3, <1>5, <2>1 DEF new
    <3>2. /\ Len(flat) + k \in 1..(Len(flat) + Len(new))
          /\ ~(Len(flat) + k <= Len(flat)) /\ Len(flat) + k - Len(flat) = k
      BY <1>1, <3>1
    <3>3. long[Len(flat) + k] = new[k]
      BY <1>2, <3>2, SMTT(20)
    <3>4. Len(flat) + k \in 1..Len(long)
      BY <1>2, <3>2
    <3> QED
      BY <3>1, <3>3, <3>4
  <2>2. CASE i \in 1..n
    <3>1. at[i] + k \in 1..Len(flat) /\ flat[at[i] + k] = ss[i][k]
      BY <2>2 DEF Lays
    <3>2. at[i] + k \in 1..(Len(flat) + Len(new)) /\ at[i] + k <= Len(flat)
      BY <1>1, <3>1
    <3> QED
      BY <1>2, <1>5, <3>1, <3>2
  <2> QED
    BY <1>7, <2>1, <2>2
<1>10. ASSUME NEW p \in 1..Len(long)
       PROVE  \E i \in 1..(n + 1) : \E k \in 1..Len(ss[i]) : p = to[i] + k
  <2>1. CASE p <= Len(flat)
    <3>1. p \in 1..Len(flat)
      BY <1>1, <1>2, <2>1
    <3>2. PICK i \in 1..n : \E k \in 1..Len(ss[i]) : p = at[i] + k
      BY <3>1 DEF Lays
    <3>3. i \in 1..(n + 1) /\ to[i] = at[i]
      BY <1>5
    <3> QED
      BY <3>2, <3>3
  <2>2. CASE ~(p <= Len(flat))
    <3>1. p - Len(flat) \in 1..Len(new) /\ p = Len(flat) + (p - Len(flat))
      BY <1>1, <1>2, <2>2
    <3>2. n + 1 \in 1..(n + 1) /\ to[n + 1] = Len(flat)
      BY <1>3, <1>5
    <3> QED
      BY <3>1, <3>2 DEF new
  <2> QED
    BY <2>1, <2>2
<1>11. (n + 1) + 1 = n + 2
  OBVIOUS
<1>12. Lays(to, long, ss, n + 1)
  BY <1>4, <1>6, <1>8, <1>9, <1>10, <1>11 DEF Lays
<1> QED
  BY <1>12 DEF long, new

LEMMA LaysOut ==
  ASSUME NEW S, NEW ss \in Seq(Seq(S)), NEW g,
         g \in [1..Len(ss) -> Seq(S)], Joins(g, ss, Len(ss))
  PROVE  \A n \in 1..Len(ss) : \E at : Lays(at, g[n], ss, n)
<1> DEFINE A == {n \in Nat : n + 1 <= Len(ss) =>
                               \E at : Lays(at, g[n + 1], ss, n + 1)}
<1>1. \A i \in 1..Len(ss) :
        g[i] = IF i = 1 THEN ss[i] ELSE g[i - 1] \o ss[i]
  BY DEF Joins
<1>2. 0 \in A
  <2>1. SUFFICES ASSUME 1 <= Len(ss)
                 PROVE  \E at : Lays(at, ss[1], ss, 1)
    <3>1. 1 <= Len(ss) => 1 \in 1..Len(ss)
      OBVIOUS
    <3>2. 1 <= Len(ss) => g[1] = ss[1]
      BY <1>1, <3>1
    <3> QED
      BY <3>2
  <2>2. <<>> \in Seq(S) /\ Len(<<>>) = 0 /\ ss[1] \in Seq(S)
    BY <2>1
  <2>3. Lays([i \in 1..1 |-> 0], <<>>, ss, 0)
    BY <2>2 DEF Lays
  <2>4. \E at : Lays(at, <<>> \o ss[1], ss, 1)
    <3>1. 0 + 1 <= Len(ss) /\ 0 \in Nat
      BY <2>1
    <3>2. \E to : Lays(to, <<>> \o ss[0 + 1], ss, 0 + 1)
      BY <2>2, <2>3, <3>1, LayOne
    <3> QED
      BY <3>2
  <2>5. <<>> \o ss[1] = ss[1]
    BY <2>2, ConcatEmptySeq
  <2> QED
    BY <2>4, <2>5
<1>3. ASSUME NEW n \in Nat, n \in A
      PROVE  n + 1 \in A
  <2>1. SUFFICES ASSUME n + 2 <= Len(ss)
                 PROVE  \E at : Lays(at, g[n + 2], ss, n + 2)
    OBVIOUS
  <2>2. PICK at : Lays(at, g[n + 1], ss, n + 1)
    BY <1>3, <2>1
  <2>3. g[n + 2] = g[n + 1] \o ss[n + 2] /\ g[n + 1] \in Seq(S)
    <3>1. /\ n + 1 \in 1..Len(ss) /\ n + 2 \in 1..Len(ss)
          /\ n + 2 # 1 /\ (n + 2) - 1 = n + 1
      BY <2>1
    <3>2. g[n + 2] = IF n + 2 = 1 THEN ss[n + 2] ELSE g[(n + 2) - 1] \o ss[n + 2]
      BY <1>1, <3>1
    <3> QED
      BY <3>1, <3>2
  <2>4. n + 1 \in Nat /\ (n + 1) + 1 <= Len(ss)
    BY <2>1
  <2>5. \E to : Lays(to, g[n + 1] \o ss[(n + 1) + 1], ss, (n + 1) + 1)
    BY <2>2, <2>3, <2>4, LayOne
  <2> QED
    BY <2>3, <2>5
<1>4. \A n \in Nat : n \in A
  <2> HIDE DEF A
  <2> QED
    BY <1>2, <1>3, Induction
<1>5. \A n \in 1..Len(ss) : n - 1 \in Nat /\ (n - 1) + 1 = n /\ n <= Len(ss)
  OBVIOUS
<1>6. ASSUME NEW n \in 1..Len(ss)
      PROVE  \E at : Lays(at, g[n], ss, n)
  <2>1. n - 1 \in A
    BY <1>4, <1>5
  <2> QED
    BY <1>5, <2>1
<1> QED
  BY <1>6

LEMMA FlattenLays ==
  ASSUME NEW S, NEW ss \in Seq(Seq(S))
  PROVE  /\ FlattenSeq(ss) \in Seq(S)
         /\ \E at : Lays(at, FlattenSeq(ss), ss, Len(ss))
<1>1. CASE Len(ss) = 0
  <2>1. ss = <<>> /\ FlattenSeq(ss) = <<>>
    BY <1>1 DEF FlattenSeq
  <2>2. Lays([i \in 1..1 |-> 0], <<>>, ss, 0)
    BY <2>1 DEF Lays
  <2>3. <<>> \in Seq(S)
    OBVIOUS
  <2> HIDE DEF Lays
  <2> QED
    BY <1>1, <2>1, <2>2, <2>3
<1>2. CASE Len(ss) # 0
  <2>1. Len(ss) \in Nat /\ Len(ss) \in 0..Len(ss) /\ Len(ss) \in 1..Len(ss)
    BY <1>2
  <2>2. PICK g \in [1..Len(ss) -> Seq(S)] : Joins(g, ss, Len(ss))
    BY <2>1, JoinsExist
  <2>3. FlattenSeq(ss) = g[Len(ss)]
    BY <1>2, <2>1, <2>2, FlattenJoins
  <2>4. \E at : Lays(at, g[Len(ss)], ss, Len(ss))
    BY <2>1, <2>2, LaysOut
  <2>5. g[Len(ss)] \in Seq(S)
    BY <2>1, <2>2
  <2> QED
    BY <2>3, <2>4, <2>5
<1> QED
  BY <1>1, <1>2

-----------------------------------------------------------------------------
(* Message healing, one message at a time.                                   *)

LEMMA FilterGives ==
  ASSUME NEW S, NEW ids \in Seq(S), NEW places
  PROVE  /\ Filter(ids, places) \in Seq(S)
         /\ ToSet(Filter(ids, places)) = {ids[i] : i \in places \cap DOMAIN ids}
         /\ (\A i, j \in places \cap DOMAIN ids : ids[i] = ids[j] => i = j) =>
              IsInjective(Filter(ids, places))
<1> DEFINE ss == [i \in DOMAIN ids |-> IF i \in places THEN <<ids[i]>> ELSE <<>>]
           flat == FlattenSeq(ss)
           apart == \A i, j \in places \cap DOMAIN ids : ids[i] = ids[j] => i = j
<1>1. Len(ids) \in Nat /\ DOMAIN ids = 1..Len(ids)
  OBVIOUS
<1>2. /\ \A i \in 1..Len(ids) : i \in places =>
           ss[i] = <<ids[i]>> /\ Len(ss[i]) = 1 /\ ss[i][1] = ids[i]
      /\ \A i \in 1..Len(ids) : i \notin places => ss[i] = <<>> /\ Len(ss[i]) = 0
  BY <1>1
<1>3. ss \in Seq(Seq(S)) /\ Len(ss) = Len(ids)
  <2>1. \A i \in 1..Len(ids) : ss[i] \in Seq(S)
    <3>1. \A i \in 1..Len(ids) : <<ids[i]>> \in Seq(S) /\ <<>> \in Seq(S)
      OBVIOUS
    <3> QED
      BY <1>2, <3>1
  <2>2. ss = [i \in 1..Len(ids) |-> ss[i]]
    BY <1>1
  <2> HIDE DEF ss
  <2>3. ss \in [1..Len(ids) -> Seq(S)]
    BY <2>1, <2>2
  <2> QED
    BY <1>1, <2>3
<1> HIDE DEF ss
<1>4. flat \in Seq(S)
  BY <1>3, FlattenLays
<1>5. PICK at : Lays(at, flat, ss, Len(ss))
  BY <1>3, FlattenLays
<1> HIDE DEF flat
<1>6. Len(flat) \in Nat /\ DOMAIN flat = 1..Len(flat)
  BY <1>4
<1>7. \A i \in 1..Len(ids) : i \in places =>
        at[i] + 1 \in 1..Len(flat) /\ flat[at[i] + 1] = ids[i]
  <2>1. \A i \in 1..Len(ids) : i \in places => 1 \in 1..Len(ss[i])
    BY <1>2
  <2>2. \A i \in 1..Len(ids) : \A k \in 1..Len(ss[i]) :
          at[i] + k \in 1..Len(flat) /\ flat[at[i] + k] = ss[i][k]
    BY <1>3, <1>5 DEF Lays
  <2>3. ASSUME NEW i \in 1..Len(ids), i \in places
        PROVE  at[i] + 1 \in 1..Len(flat) /\ flat[at[i] + 1] = ids[i]
    BY <1>2, <2>1, <2>2, <2>3
  <2> QED
    BY <2>3
<1>8. ASSUME NEW p \in 1..Len(flat)
      PROVE  \E i \in 1..Len(ids) : i \in places /\ p = at[i] + 1
  <2>1. PICK i \in 1..Len(ids) : \E k \in 1..Len(ss[i]) : p = at[i] + k
    BY <1>3, <1>5 DEF Lays
  <2>2. CASE i \in places
    <3>1. PICK k \in 1..Len(ss[i]) : p = at[i] + k
      BY <2>1
    <3>2. k = 1
      <4>1. Len(ss[i]) = 1
        BY <1>2, <2>2
      <4>2. k \in 1..1
        BY <3>1, <4>1
      <4> QED
        BY <4>2
    <3> QED
      BY <2>2, <3>1, <3>2
  <2>3. CASE i \notin places
    BY <1>2, <2>1, <2>3
  <2> QED
    BY <2>2, <2>3
<1>9. ToSet(flat) = {ids[i] : i \in places \cap DOMAIN ids}
  <2>1. ASSUME NEW p \in 1..Len(flat)
        PROVE  flat[p] \in {ids[i] : i \in places \cap DOMAIN ids}
    <3>1. PICK i \in 1..Len(ids) : i \in places /\ p = at[i] + 1
      BY <1>8
    <3> QED
      BY <1>1, <1>7, <3>1
  <2>2. ASSUME NEW i \in places \cap DOMAIN ids
        PROVE  ids[i] \in ToSet(flat)
    BY <1>1, <1>6, <1>7 DEF ToSet
  <2> QED
    BY <1>6, <2>1, <2>2 DEF ToSet
<1>10. ASSUME apart, NEW p \in 1..Len(flat), NEW q \in 1..Len(flat),
              flat[p] = flat[q]
       PROVE  p = q
  <2>1. PICK i \in 1..Len(ids) : i \in places /\ p = at[i] + 1
    BY <1>8
  <2>2. PICK j \in 1..Len(ids) : j \in places /\ q = at[j] + 1
    BY <1>8
  <2>3. ids[i] = ids[j]
    BY <1>7, <1>10, <2>1, <2>2
  <2>4. i = j
    BY <1>1, <1>10, <2>1, <2>2, <2>3
  <2> QED
    BY <2>1, <2>2, <2>4
<1>11. apart => IsInjective(flat)
  <2> HIDE DEF apart
  <2> QED
    BY <1>6, <1>10 DEF IsInjective
<1>12. CASE DOMAIN ids \subseteq places
  <2>1. Filter(ids, places) = ids /\ places \cap DOMAIN ids = DOMAIN ids
    BY <1>12 DEF Filter
  <2>2. apart => IsInjective(ids)
    BY <2>1 DEF IsInjective
  <2> QED
    BY <2>1, <2>2 DEF ToSet
<1>13. CASE ~(DOMAIN ids \subseteq places)
  <2>1. Filter(ids, places) = flat
    BY <1>13 DEF Filter, flat, ss
  <2> QED
    BY <1>4, <1>9, <1>11, <2>1
<1> QED
  BY <1>12, <1>13

LEMMA FirstPlacesGive ==
  ASSUME NEW S, NEW ids \in Seq(S)
  PROVE  /\ ToSet(Filter(ids, FirstPlaces(ids))) = ToSet(ids)
         /\ IsInjective(Filter(ids, FirstPlaces(ids)))
<1> DEFINE places == FirstPlaces(ids)
<1>1. Len(ids) \in Nat /\ DOMAIN ids = 1..Len(ids)
  OBVIOUS
<1>2. \A i \in DOMAIN ids : i \in places <=> \A j \in 1..(i - 1) : ids[j] # ids[i]
  BY DEF FirstPlaces
<1> HIDE DEF places
<1>3. ASSUME NEW k \in DOMAIN ids
      PROVE  \E i \in places \cap DOMAIN ids : ids[i] = ids[k]
  <2> DEFINE T == {i \in DOMAIN ids : ids[i] = ids[k]}
  <2>1. T \in SUBSET Nat /\ T # {}
    BY <1>1
  <2> HIDE DEF T
  <2>2. PICK i \in T : \A j \in T : i <= j
    BY <2>1, LeastNumber
  <2>3. i \in 1..Len(ids) /\ ids[i] = ids[k]
    BY <1>1, <2>2 DEF T
  <2>4. ASSUME NEW j \in 1..(i - 1), ids[j] = ids[i]
        PROVE  FALSE
    <3>1. j \in DOMAIN ids /\ ~(i <= j)
      BY <1>1, <2>3
    <3>2. j \in T
      BY <2>3, <2>4, <3>1 DEF T
    <3> QED
      BY <2>2, <3>1, <3>2
  <2> QED
    BY <1>1, <1>2, <2>3, <2>4
<1>4. ASSUME NEW i \in places \cap DOMAIN ids, NEW j \in places \cap DOMAIN ids,
             ids[i] = ids[j]
      PROVE  i = j
  <2>1. \/ i \in 1..(j - 1)
        \/ j \in 1..(i - 1)
        \/ i = j
    BY <1>1
  <2> QED
    BY <1>2, <1>4, <2>1
<1>5. ToSet(ids) = {ids[i] : i \in places \cap DOMAIN ids}
  BY <1>3 DEF ToSet
<1> QED
  BY <1>4, <1>5, FilterGives DEF places

Proper(m) ==
  /\ m.role = "user" => m.uses = <<>>
  /\ m.role = "assistant" => m.results = <<>>
  /\ IsInjective(m.uses) /\ IsInjective(m.results)

AllProper(ms) == \A i \in DOMAIN ms : Proper(ms[i])

(* What heal can mend.  Results may be repeated, but not in a message in     *)
(* which others are missing: those are appended to the message as it was     *)
(* (types.rs:181), with its duplicates.                                      *)
OneSided(m) ==
  /\ m.role = "user" => m.uses = <<>>
  /\ m.role = "assistant" => m.results = <<>>
  /\ IsInjective(m.uses)
OwedIn(ms, i) == IF i > 1 /\ ms[i].role = "user" THEN Missing(ms, i - 1) ELSE <<>>
Mendable(ms) ==
  \A i \in DOMAIN ms :
    OneSided(ms[i]) /\ (OwedIn(ms, i) # <<>> => IsInjective(ms[i].results))

LEMMA ProperMendable ==
  ASSUME NEW ms, AllProper(ms)
  PROVE  Mendable(ms)
BY DEF AllProper, Proper, Mendable, OneSided

LEMMA MessageFields ==
  ASSUME NEW m \in Message
  PROVE  /\ m.role \in {"user", "assistant"} /\ m.texts \subseteq Text
         /\ m.uses \in Seq(ToolUse) /\ m.results \in Seq(ToolUse)
BY DEF Message

LEMMA MissingGives ==
  ASSUME NEW ms \in Seq(Message), Mendable(ms), NEW i \in 1..Len(ms)
  PROVE  /\ Missing(ms, i) \in Seq(ToolUse) /\ IsInjective(Missing(ms, i))
         /\ ToSet(Missing(ms, i)) = ToSet(ms[i].uses) \ Given(ms, i)
<1> DEFINE uses == ms[i].uses
           places == {j \in DOMAIN uses : uses[j] \notin Given(ms, i)}
<1>1. uses \in Seq(ToolUse) /\ IsInjective(uses)
  <2>1. ms[i] \in Message /\ OneSided(ms[i])
    BY DEF Mendable
  <2> QED
    BY <2>1, MessageFields DEF OneSided
<1>2. Missing(ms, i) = Filter(uses, places)
  BY DEF Missing
<1>3. {uses[j] : j \in places \cap DOMAIN uses} = ToSet(uses) \ Given(ms, i)
  BY DEF ToSet
<1> HIDE DEF uses, places
<1>4. /\ Filter(uses, places) \in Seq(ToolUse)
      /\ ToSet(Filter(uses, places)) = {uses[j] : j \in places \cap DOMAIN uses}
      /\ IsInjective(Filter(uses, places))
  <2>1. \A a, b \in places \cap DOMAIN uses : uses[a] = uses[b] => a = b
    BY <1>1 DEF IsInjective
  <2> QED
    BY <1>1, <2>1, FilterGives
<1> QED
  BY <1>2, <1>3, <1>4 DEF uses

LEMMA DedupGives ==
  ASSUME NEW m \in Message
  PROVE  /\ dedup_tool_results(m) \in Message
         /\ dedup_tool_results(m).role = m.role
         /\ dedup_tool_results(m).texts = m.texts
         /\ dedup_tool_results(m).uses = m.uses
         /\ ToSet(dedup_tool_results(m).results) = ToSet(m.results)
         /\ IsInjective(dedup_tool_results(m).results)
<1> DEFINE new == Filter(m.results, FirstPlaces(m.results))
<1>1. m.results \in Seq(ToolUse)
  BY MessageFields
<1>2. /\ new \in Seq(ToolUse) /\ ToSet(new) = ToSet(m.results)
      /\ IsInjective(new)
  BY <1>1, FilterGives, FirstPlacesGive
<1>3. dedup_tool_results(m) = [m EXCEPT !.results = new]
  BY DEF dedup_tool_results
<1> HIDE DEF new
<1>4. /\ [m EXCEPT !.results = new] \in Message
      /\ [m EXCEPT !.results = new].role = m.role
      /\ [m EXCEPT !.results = new].texts = m.texts
      /\ [m EXCEPT !.results = new].uses = m.uses
      /\ [m EXCEPT !.results = new].results = new
  BY <1>2 DEF Message
<1> QED
  BY <1>2, <1>3, <1>4

LEMMA EmptySet ==
  ASSUME NEW S, NEW ids \in Seq(S)
  PROVE  ToSet(ids) = {} <=> ids = <<>>
<1>1. CASE ids = <<>>
  BY <1>1 DEF ToSet
<1>2. CASE ids # <<>>
  <2>1. 1 \in DOMAIN ids
    BY <1>2
  <2> QED
    BY <1>2, <2>1 DEF ToSet
<1> QED
  BY <1>1, <1>2

LEMMA ConcatGives ==
  ASSUME NEW S, NEW a \in Seq(S), NEW b \in Seq(S),
         IsInjective(a), IsInjective(b), ToSet(a) \cap ToSet(b) = {}
  PROVE  /\ a \o b \in Seq(S) /\ ToSet(a \o b) = ToSet(a) \cup ToSet(b)
         /\ IsInjective(a \o b)
<1> DEFINE c == a \o b
<1>1. /\ Len(a) \in Nat /\ DOMAIN a = 1..Len(a)
      /\ Len(b) \in Nat /\ DOMAIN b = 1..Len(b)
  OBVIOUS
<1>2. /\ c \in Seq(S) /\ Len(c) = Len(a) + Len(b)
      /\ \A i \in 1..(Len(a) + Len(b)) :
           c[i] = IF i <= Len(a) THEN a[i] ELSE b[i - Len(a)]
  BY ConcatProperties
<1> HIDE DEF c
<1>3. DOMAIN c = 1..(Len(a) + Len(b))
  BY <1>2
<1>4. \A i \in DOMAIN c :
        \/ i <= Len(a) /\ i \in DOMAIN a /\ c[i] = a[i]
        \/ ~(i <= Len(a)) /\ i - Len(a) \in DOMAIN b /\ c[i] = b[i - Len(a)]
  BY <1>1, <1>2, <1>3
<1>5. /\ \A i \in DOMAIN a : i \in DOMAIN c /\ c[i] = a[i]
      /\ \A i \in DOMAIN b : i + Len(a) \in DOMAIN c /\ c[i + Len(a)] = b[i]
  <2>1. \A i \in DOMAIN b : ~(i + Len(a) <= Len(a)) /\ (i + Len(a)) - Len(a) = i
    BY <1>1
  <2>2. /\ \A i \in DOMAIN a : i \in DOMAIN c /\ i <= Len(a)
        /\ \A i \in DOMAIN b : i + Len(a) \in DOMAIN c
    BY <1>1, <1>3
  <2> QED
    BY <1>2, <1>3, <2>1, <2>2
<1>6. ToSet(c) = ToSet(a) \cup ToSet(b)
  BY <1>4, <1>5 DEF ToSet
<1>7. ASSUME NEW i \in DOMAIN c, NEW j \in DOMAIN c, c[i] = c[j]
      PROVE  i = j
  <2>1. CASE i <= Len(a) /\ j <= Len(a)
    BY <1>4, <1>7, <2>1 DEF IsInjective
  <2>2. CASE ~(i <= Len(a)) /\ ~(j <= Len(a))
    <3>1. i - Len(a) = j - Len(a)
      BY <1>4, <1>7, <2>2 DEF IsInjective
    <3>2. i \in Int /\ j \in Int /\ Len(a) \in Int
      BY <1>1, <1>3
    <3> QED
      BY <3>1, <3>2
  <2>3. CASE i <= Len(a) /\ ~(j <= Len(a))
    <3>1. c[i] \in ToSet(a) /\ c[j] \in ToSet(b)
      BY <1>4, <2>3 DEF ToSet
    <3> QED
      BY <1>7, <3>1
  <2>4. CASE ~(i <= Len(a)) /\ j <= Len(a)
    <3>1. c[j] \in ToSet(a) /\ c[i] \in ToSet(b)
      BY <1>4, <2>4 DEF ToSet
    <3> QED
      BY <1>7, <3>1
  <2> QED
    BY <2>1, <2>2, <2>3, <2>4
<1>8. IsInjective(c)
  BY <1>7 DEF IsInjective
<1> QED
  BY <1>2, <1>6, <1>8 DEF c

(* What heal makes of message i: the message, and what answers its tool uses *)
(* when no user message follows.                                             *)
Heals(block, ms, i) ==
  /\ block \in Seq(Message) /\ Len(block) \in {1, 2}
  /\ block[1].role = ms[i].role /\ block[1].texts = ms[i].texts
  /\ block[1].uses = ms[i].uses
  /\ Len(block) = 2 => block[2].uses = <<>>
  /\ ms[i].role = "user" /\ i > 1 =>
       /\ IsInjective(block[1].results)
       /\ ToSet(block[1].results) =
            ToSet(ms[i].results) \cup ToSet(Missing(ms, i - 1))
  /\ ms[i].role = "assistant" /\ ~Followed(ms, i) /\ Missing(ms, i) # <<>> =>
       block = <<ms[i], ToolResults(Missing(ms, i))>>
  /\ ms[i].role = "assistant" /\ Followed(ms, i) => Len(block) = 1

LEMMA HealedHeals ==
  ASSUME NEW ms \in Seq(Message), Mendable(ms), NEW i \in 1..Len(ms)
  PROVE  Heals(Healed(ms, i), ms, i)
<1> DEFINE m == ms[i]
           before == i > 1 /\ m.role = "user"
           owed == IF before THEN Missing(ms, i - 1) ELSE <<>>
           missing == Missing(ms, i)
           fixed == [m EXCEPT !.results = @ \o owed]
           block == Healed(ms, i)
<1>1. m \in Message /\ OneSided(m) /\ (owed # <<>> => IsInjective(m.results))
  BY DEF Mendable, OwedIn
<1>2. /\ m.role \in {"user", "assistant"} /\ m.uses \in Seq(ToolUse)
      /\ m.results \in Seq(ToolUse)
  BY <1>1, MessageFields
<1>3. missing \in Seq(ToolUse)
  BY MissingGives
<1>4. before =>
        /\ owed \in Seq(ToolUse) /\ IsInjective(owed)
        /\ ToSet(m.results) \cap ToSet(owed) = {}
  <2> SUFFICES ASSUME before
               PROVE  /\ owed \in Seq(ToolUse) /\ IsInjective(owed)
                      /\ ToSet(m.results) \cap ToSet(owed) = {}
    OBVIOUS
  <2>1. i - 1 \in 1..Len(ms) /\ i - 1 < Len(ms) /\ (i - 1) + 1 = i
    OBVIOUS
  <2>2. Given(ms, i - 1) = ToSet(m.results)
    BY <2>1 DEF Given, Followed
  <2>3. owed = Missing(ms, i - 1)
    OBVIOUS
  <2> HIDE DEF owed
  <2> QED
    BY <2>1, <2>2, <2>3, MissingGives
<1>5. block = IF owed # <<>> THEN <<fixed>>
              ELSE IF ~Followed(ms, i) /\ missing # <<>>
                     THEN <<m, ToolResults(missing)>>
                     ELSE <<dedup_tool_results(m)>>
  BY DEF Healed
<1>6. CASE owed # <<>>
  <2>1. before
    BY <1>6
  <2>2. m.results \o owed \in Seq(ToolUse) /\ IsInjective(m.results \o owed)
    <3>1. IsInjective(m.results)
      BY <1>1, <1>6
    <3> HIDE DEF owed, m
    <3> QED
      BY <1>2, <1>4, <2>1, <3>1, ConcatGives
  <2>3. ToSet(m.results \o owed) = ToSet(m.results) \cup ToSet(owed)
    <3>1. IsInjective(m.results)
      BY <1>1, <1>6
    <3> HIDE DEF owed, m
    <3> QED
      BY <1>2, <1>4, <2>1, <3>1, ConcatGives
  <2>4. block = <<fixed>>
    <3> HIDE DEF owed, m, missing, block, fixed
    <3> QED
      BY <1>5, <1>6
  <2>5. owed = Missing(ms, i - 1) /\ m.role = "user"
    BY <2>1
  <2> HIDE DEF owed, block, m
  <2>6. /\ fixed \in Message /\ fixed.role = m.role /\ fixed.texts = m.texts
        /\ fixed.uses = m.uses /\ fixed.results = m.results \o owed
    BY <1>1, <2>2 DEF Message
  <2> HIDE DEF fixed
  <2>7. block \in Seq(Message) /\ Len(block) = 1 /\ block[1] = fixed
    BY <2>4, <2>6
  <2>8. /\ block[1].role = m.role /\ block[1].texts = m.texts
        /\ block[1].uses = m.uses /\ IsInjective(block[1].results)
        /\ ToSet(block[1].results) = ToSet(m.results) \cup ToSet(Missing(ms, i - 1))
        /\ Len(block) # 2 /\ m.role # "assistant"
    <3>1. /\ block[1].role = fixed.role /\ block[1].texts = fixed.texts
          /\ block[1].uses = fixed.uses /\ block[1].results = fixed.results
      BY <2>7
    <3>2. ToSet(fixed.results) = ToSet(m.results) \cup ToSet(owed)
      BY <2>3, <2>6
    <3>3. IsInjective(fixed.results)
      BY <2>2, <2>6
    <3>4. Len(block) # 2 /\ m.role # "assistant"
      BY <2>5, <2>7
    <3> QED
      BY <2>5, <2>6, <3>1, <3>2, <3>3, <3>4, Zenon
  <2> QED
    BY <2>7, <2>8 DEF Heals, block, m
<1>7. CASE owed = <<>> /\ missing # <<>> /\ ~Followed(ms, i)
  <2>1. block = <<m, ToolResults(missing)>>
    BY <1>5, <1>7
  <2>2. m.role = "assistant"
    <3>1. m.uses # <<>>
      <4>1. ToSet(missing) \subseteq ToSet(m.uses)
        BY MissingGives
      <4> HIDE DEF missing
      <4> QED
        BY <1>2, <1>3, <1>7, <4>1, EmptySet
    <3> QED
      BY <1>1, <1>2, <3>1 DEF OneSided
  <2> HIDE DEF owed, block, m, missing
  <2>3. ToolResults(missing) \in Message /\ ToolResults(missing).uses = <<>>
    BY <1>3 DEF ToolResults, Message
  <2> HIDE DEF ToolResults
  <2>4. /\ block \in Seq(Message) /\ Len(block) = 2 /\ block[1] = m
        /\ block[2] = ToolResults(missing)
    BY <1>1, <2>1, <2>3
  <2> QED
    BY <1>7, <2>1, <2>2, <2>3, <2>4 DEF Heals, block, m, missing
<1>8. CASE owed = <<>> /\ ~(missing # <<>> /\ ~Followed(ms, i))
  <2>1. block = <<dedup_tool_results(m)>>
    BY <1>5, <1>8
  <2>2. before => Missing(ms, i - 1) = <<>>
    BY <1>8
  <2>3. ToSet(<<>>) = {}
    BY DEF ToSet
  <2>4. m.role = "user" /\ i > 1 => before
    OBVIOUS
  <2> HIDE DEF owed, block, m, missing, before
  <2>5. /\ dedup_tool_results(m) \in Message
        /\ dedup_tool_results(m).role = m.role
        /\ dedup_tool_results(m).texts = m.texts
        /\ dedup_tool_results(m).uses = m.uses
        /\ ToSet(dedup_tool_results(m).results) = ToSet(m.results)
        /\ IsInjective(dedup_tool_results(m).results)
    BY <1>1, DedupGives
  <2>6. /\ block \in Seq(Message) /\ Len(block) = 1
        /\ block[1] = dedup_tool_results(m)
    BY <2>1, <2>5
  <2> QED
    BY <1>8, <2>2, <2>3, <2>4, <2>5, <2>6 DEF Heals, block, m, missing
<1> QED
  BY <1>6, <1>7, <1>8

(* types.rs:136: the request the model is sent has every tool use answered   *)
(* once, right after it, whether results were missing or repeated, as long   *)
(* as none is repeated where another is missing; and no text is lost.        *)
THEOREM HealingPairs ==
  ASSUME NEW ms \in Seq(Message), Mendable(ms)
  PROVE  /\ validate_and_heal_messages(ms) \in Seq(Message)
         /\ Paired(validate_and_heal_messages(ms))
         /\ UNION {m.texts : m \in ToSet(ms)} \subseteq
              UNION {m.texts : m \in ToSet(validate_and_heal_messages(ms))}
<1> DEFINE n == Len(ms)
           ss == [i \in DOMAIN ms |-> Healed(ms, i)]
           out == FlattenSeq(ss)
<1>1. n \in Nat /\ DOMAIN ms = 1..n
  OBVIOUS
<1>2. \A i \in 1..n : Heals(ss[i], ms, i)
  BY <1>1, HealedHeals
<1>3. ss \in Seq(Seq(Message)) /\ Len(ss) = n
  <2>1. ss = [i \in 1..n |-> ss[i]]
    BY <1>1
  <2> HIDE DEF ss, n
  <2>2. ss \in [1..n -> Seq(Message)]
    BY <1>2, <2>1 DEF Heals
  <2> QED
    BY <1>1, <2>2
<1> HIDE DEF ss
<1>4. out \in Seq(Message)
  BY <1>3, FlattenLays
<1>5. PICK at : Lays(at, out, ss, n)
  BY <1>3, FlattenLays
<1>6. out = validate_and_heal_messages(ms)
  BY DEF validate_and_heal_messages, ss
<1> HIDE DEF out, n
<1>7. Len(out) \in Nat /\ DOMAIN out = 1..Len(out)
  BY <1>4
<1>8. \A i \in 1..n : \A k \in 1..Len(ss[i]) :
        at[i] + k \in 1..Len(out) /\ out[at[i] + k] = ss[i][k]
  BY <1>5 DEF Lays
<1>9. \A i \in 1..n : at[i] \in Nat /\ at[i + 1] = at[i] + Len(ss[i])
  <2>1. \A i \in 1..n : i \in 1..(n + 1)
    BY <1>1
  <2> QED
    BY <1>5, <2>1 DEF Lays
<1>10. \A i \in 1..n : 1 \in 1..Len(ss[i])
  BY <1>2 DEF Heals
<1>11. \A i \in 1..n : at[i] + 1 \in 1..Len(out) /\ out[at[i] + 1] = ss[i][1]
  BY <1>8, <1>10
<1>12. ASSUME NEW m \in ToSet(ms)
       PROVE  \E other \in ToSet(out) : other.texts = m.texts
  <2>1. PICK i \in 1..n : m = ms[i]
    BY <1>1 DEF ToSet
  <2>2. out[at[i] + 1].texts = m.texts
    BY <1>2, <1>11, <2>1 DEF Heals
  <2>3. out[at[i] + 1] \in ToSet(out)
    BY <1>7, <1>11 DEF ToSet
  <2> QED
    BY <2>2, <2>3
<1>13. UNION {m.texts : m \in ToSet(ms)} \subseteq
         UNION {m.texts : m \in ToSet(out)}
  BY <1>12
<1>14. ASSUME NEW p \in 1..Len(out), NEW id \in ToSet(out[p].uses)
       PROVE  /\ p + 1 \in 1..Len(out) /\ out[p + 1].role = "user"
              /\ id \in ToSet(out[p + 1].results)
              /\ IsInjective(out[p + 1].results)
  <2>1. PICK i \in 1..n : \E k \in 1..Len(ss[i]) : p = at[i] + k
    BY <1>5 DEF Lays
  <2>2. PICK k \in 1..Len(ss[i]) : p = at[i] + k
    BY <2>1
  <2>3. out[p] = ss[i][k]
    BY <1>8, <2>2
  <2>4. k = 1
    <3>1. k = 1 \/ (k = 2 /\ Len(ss[i]) = 2)
      <4>1. Len(ss[i]) = 1 \/ Len(ss[i]) = 2
        BY <1>2 DEF Heals
      <4>2. Len(ss[i]) = 1 => k \in 1..1
        BY <2>2
      <4>3. Len(ss[i]) = 2 => k \in 1..2
        BY <2>2
      <4> QED
        BY <4>1, <4>2, <4>3
    <3>2. k = 2 /\ Len(ss[i]) = 2 => out[p].uses = <<>>
      BY <1>2, <2>3 DEF Heals
    <3> QED
      BY <3>1, <3>2 DEF ToSet
  <2>5. id \in ToSet(ms[i].uses)
    BY <1>2, <2>3, <2>4 DEF Heals
  <2>6. ms[i] \in Message /\ OneSided(ms[i])
    BY <1>1 DEF Mendable
  <2>7. ms[i].role = "assistant" /\ ms[i].uses # <<>>
    BY <2>5, <2>6, MessageFields DEF OneSided, ToSet
  <2>8. /\ Missing(ms, i) \in Seq(ToolUse) /\ IsInjective(Missing(ms, i))
        /\ ToSet(Missing(ms, i)) = ToSet(ms[i].uses) \ Given(ms, i)
    BY MissingGives DEF n
  <2>9. CASE Followed(ms, i)
    <3>1. i + 1 \in 1..n /\ i + 1 > 1 /\ (i + 1) - 1 = i /\ ms[i + 1].role = "user"
      BY <1>1, <2>9 DEF Followed, n
    <3>2. Len(ss[i]) = 1
      BY <1>2, <2>7, <2>9 DEF Heals
    <3>3. p + 1 = at[i + 1] + 1
      BY <1>9, <2>2, <2>4, <3>2
    <3>4. p + 1 \in 1..Len(out) /\ out[p + 1] = ss[i + 1][1]
      BY <1>11, <3>1, <3>3
    <3>5. Heals(ss[i + 1], ms, i + 1)
      BY <1>2, <3>1
    <3>6. /\ out[p + 1].role = "user" /\ IsInjective(out[p + 1].results)
          /\ ToSet(out[p + 1].results) =
               ToSet(ms[i + 1].results) \cup ToSet(Missing(ms, i))
      BY <3>1, <3>4, <3>5 DEF Heals
    <3>7. Given(ms, i) = ToSet(ms[i + 1].results)
      BY <2>9 DEF Given
    <3> QED
      BY <2>5, <2>8, <3>4, <3>6, <3>7
  <2>10. CASE ~Followed(ms, i)
    <3>1. id \in ToSet(Missing(ms, i))
      BY <2>5, <2>8, <2>10 DEF Given
    <3>2. Missing(ms, i) # <<>>
      BY <3>1 DEF ToSet
    <3>3. ss[i] = <<ms[i], ToolResults(Missing(ms, i))>>
      BY <1>2, <2>7, <2>10, <3>2 DEF Heals
    <3>4. Len(ss[i]) = 2 /\ ss[i][2] = ToolResults(Missing(ms, i))
      BY <3>3
    <3>5. 2 \in 1..Len(ss[i]) /\ p + 1 = at[i] + 2
      BY <1>9, <2>2, <2>4, <3>4
    <3>6. p + 1 \in 1..Len(out) /\ out[p + 1] = ToolResults(Missing(ms, i))
      BY <1>8, <3>4, <3>5
    <3> QED
      BY <2>8, <3>1, <3>6 DEF ToolResults
  <2> QED
    BY <2>9, <2>10
<1>15. Paired(out)
  <2> SUFFICES ASSUME NEW p \in DOMAIN out, NEW id \in ToSet(out[p].uses)
               PROVE  /\ Followed(out, p)
                      /\ \E j \in DOMAIN out[p + 1].results :
                           \A k \in DOMAIN out[p + 1].results :
                             out[p + 1].results[k] = id <=> k = j
    BY DEF Paired
  <2>1. p \in 1..Len(out)
    BY <1>7
  <2>2. p < Len(out) /\ out[p + 1].role = "user"
    <3>1. p + 1 \in 1..Len(out) /\ out[p + 1].role = "user"
      BY <1>14, <2>1
    <3> QED
      BY <1>7, <2>1, <3>1
  <2>3. PICK j \in DOMAIN out[p + 1].results : out[p + 1].results[j] = id
    BY <1>14, <2>1 DEF ToSet
  <2>4. \A k \in DOMAIN out[p + 1].results :
          out[p + 1].results[k] = id <=> k = j
    BY <1>14, <2>1, <2>3 DEF IsInjective
  <2> QED
    BY <2>2, <2>4 DEF Followed
<1> QED
  BY <1>4, <1>6, <1>13, <1>15

-----------------------------------------------------------------------------
(* Types, and what goes with the place a turn is at.                         *)

Begun == {"injecting", "asking", "requesting", "calling", "checking", "executing"}

PlaceFits(t) ==
  /\ session[t] = None <=> pc[t] \in {"unsent", "sent"}
  /\ pc[t] = "injecting" => taken[t] # <<>>
  /\ taken[t] # <<>> => pc[t] \in {"injecting", "executing", "following"}
  /\ calls[t] # <<>> <=> pc[t] = "executing"
  /\ pc[t] \in Begun => turn[t] \in 1..MaxIterations

Fits == TypeOK /\ \A t \in Turn : PlaceFits(t)

Wished == Steer \cup FollowUp

Same(u) ==
  /\ pc'[u] = pc[u] /\ turn'[u] = turn[u] /\ taken'[u] = taken[u]
  /\ calls'[u] = calls[u] /\ request'[u] = request[u]
  /\ session'[u] = session[u]

(* The next place after the head of the inner loop.                          *)
Enters(t, has_more, texts) ==
  /\ turn[t] <= turn'[t]
  /\ \/ pc'[t] = "stopping" /\ taken'[t] = <<>> /\ Limited(t)'
     \/ /\ pc'[t] = "stopping" /\ taken'[t] = <<>> /\ turn'[t] = turn[t]
        /\ ~has_more /\ texts = <<>>
     \/ /\ pc'[t] = "asking" /\ taken'[t] = <<>> /\ texts = <<>>
        /\ turn[t] < turn'[t] /\ turn'[t] \in 1..MaxIterations
     \/ /\ pc'[t] = "injecting" /\ taken'[t] = texts /\ texts # <<>>
        /\ turn[t] < turn'[t] /\ turn'[t] \in 1..MaxIterations

LEMMA LoopEnters ==
  ASSUME AgentAssumption, TypeOK, NEW t \in Turn, NEW has_more \in BOOLEAN,
         NEW texts \in Seq(Wished), Loop(t, has_more, texts)
  PROVE  /\ pc' \in [Turn -> Place] /\ turn' \in [Turn -> 0..(MaxIterations + 1)]
         /\ taken' \in [Turn -> Seq(Wished)]
         /\ Enters(t, has_more, texts)
         /\ \A u \in Turn \ {t} :
              pc'[u] = pc[u] /\ turn'[u] = turn[u] /\ taken'[u] = taken[u]
<1> DEFINE inner == has_more \/ texts # <<>>
           exceeded == inner /\ AtLimit(t)
           place == IF exceeded \/ ~inner THEN "stopping"
                    ELSE IF texts = <<>> THEN "asking" ELSE "injecting"
           count == IF exceeded THEN MaxIterations + 1
                    ELSE IF inner THEN turn[t] + 1 ELSE turn[t]
           drained == IF exceeded THEN <<>> ELSE texts
<1>1. /\ turn' = [turn EXCEPT ![t] = count]
      /\ taken' = [taken EXCEPT ![t] = drained]
      /\ pc' = [pc EXCEPT ![t] = place]
  BY DEF Loop, Goto
<1>2. /\ pc \in [Turn -> Place] /\ turn \in [Turn -> 0..(MaxIterations + 1)]
      /\ taken \in [Turn -> Seq(Wished)] /\ MaxIterations \in Nat
  BY DEF TypeOK, AgentAssumption, Wished
<1>3. <<>> \in Seq(Wished)
  OBVIOUS
<1>4. AtLimit(t) <=> ~(turn[t] + 1 <= MaxIterations)
  BY <1>2 DEF AtLimit
<1>5. count \in 0..(MaxIterations + 1) /\ turn[t] <= count
  BY <1>2, <1>4
<1>6. drained \in Seq(Wished)
  BY <1>3
<1>7. place \in {"stopping", "asking", "injecting"}
  <2>1. CASE exceeded \/ ~inner
    BY <2>1
  <2>2. CASE ~(exceeded \/ ~inner)
    BY <2>2
  <2> QED
    BY <2>1, <2>2
<1>8. \/ place = "stopping" /\ drained = <<>> /\ count = MaxIterations + 1
      \/ /\ place = "stopping" /\ drained = <<>> /\ count = turn[t]
         /\ ~has_more /\ texts = <<>>
      \/ /\ place = "asking" /\ drained = <<>> /\ texts = <<>>
         /\ turn[t] < count /\ count \in 1..MaxIterations
      \/ /\ place = "injecting" /\ drained = texts /\ texts # <<>>
         /\ turn[t] < count /\ count \in 1..MaxIterations
  <2>1. CASE exceeded
    <3>1. place = "stopping" /\ drained = <<>> /\ count = MaxIterations + 1
      BY <2>1
    <3> QED
      BY <3>1
  <2>2. CASE ~inner
    <3>1. /\ place = "stopping" /\ count = turn[t] /\ drained = texts
          /\ ~has_more /\ texts = <<>>
      BY <2>2
    <3> QED
      BY <3>1
  <2>3. CASE inner /\ ~exceeded
    <3>1. count = turn[t] + 1 /\ drained = texts
      BY <2>3
    <3>2. turn[t] < turn[t] + 1 /\ turn[t] + 1 \in 1..MaxIterations
      BY <1>2, <1>4, <2>3
    <3>3. place = IF texts = <<>> THEN "asking" ELSE "injecting"
      BY <2>3
    <3> HIDE DEF count, drained, place
    <3> QED
      BY <3>1, <3>2, <3>3
  <2> QED
    BY <2>1, <2>2, <2>3
<1> HIDE DEF count, drained, place, inner, exceeded
<1>9. /\ pc'[t] = place /\ turn'[t] = count /\ taken'[t] = drained
      /\ \A u \in Turn \ {t} :
           pc'[u] = pc[u] /\ turn'[u] = turn[u] /\ taken'[u] = taken[u]
  BY <1>1, <1>2
<1>10. pc' \in [Turn -> Place]
  BY <1>1, <1>2, <1>7 DEF Place
<1>11. turn' \in [Turn -> 0..(MaxIterations + 1)]
  BY <1>1, <1>2, <1>5
<1>12. taken' \in [Turn -> Seq(Wished)]
  BY <1>1, <1>2, <1>6
<1>13. count = MaxIterations + 1 => count > MaxIterations
  BY <1>2
<1>14. Enters(t, has_more, texts)
  BY <1>5, <1>8, <1>9, <1>13 DEF Enters, Limited
<1> QED
  BY <1>9, <1>10, <1>11, <1>12, <1>14

LEMMA NewMessages ==
  /\ \A text \in Text : UserText(text) \in Message
  /\ AssistantText \in Message
  /\ \A uses \in Seq(ToolUse) : AssistantWithTools(uses) \in Message
  /\ \A ids \in Seq(ToolUse) : ToolResults(ids) \in Message
<1>1. <<>> \in Seq(ToolUse) /\ \A text \in Text : {text} \in SUBSET Text
  OBVIOUS
<1>2. AssistantText \in Message
  BY <1>1 DEF AssistantText, Message
<1> QED
  BY <1>1, <1>2 DEF UserText, AssistantText, AssistantWithTools, ToolResults,
     Message

(* A text added to a session, and what stays.                                *)
LEMMA AddedText ==
  ASSUME TypeOK, NEW s \in Turn, NEW text \in Text, add_user_message(s, text)
  PROVE  messages' \in [Turn -> Seq(Message)] /\ pending' \in [Turn -> Nat]
<1>1. UserText(text) \in Message
  BY NewMessages
<1>2. messages \in [Turn -> Seq(Message)] /\ pending \in [Turn -> Nat]
  BY DEF TypeOK
<1>3. Append(messages[s], UserText(text)) \in Seq(Message)
  BY <1>1, <1>2, AppendProperties
<1> QED
  BY <1>2, <1>3 DEF add_user_message

LEMMA AddedResult ==
  ASSUME TypeOK, NEW s \in Turn, NEW id \in ToolUse
  PROVE  add_tool_result(s, id) \in [Turn -> Seq(Message)]
<1> DEFINE old == messages[s]
<1>1. messages \in [Turn -> Seq(Message)] /\ old \in Seq(Message)
  BY DEF TypeOK
<1>2. Append(old, ToolResults(<<id>>)) \in Seq(Message)
  <2>1. <<id>> \in Seq(ToolUse)
    OBVIOUS
  <2>2. ToolResults(<<id>>) \in Message
    BY <2>1, NewMessages
  <2> QED
    BY <1>1, <2>2, AppendProperties
<1>3. old # <<>> => [old EXCEPT ![Len(old)].results = Append(@, id)] \in Seq(Message)
  <2> SUFFICES ASSUME old # <<>>
               PROVE  [old EXCEPT ![Len(old)].results = Append(@, id)] \in Seq(Message)
    OBVIOUS
  <2> DEFINE last == old[Len(old)]
             more == [last EXCEPT !.results = Append(@, id)]
  <2>1. Len(old) \in 1..Len(old) /\ last \in Message
    BY <1>1
  <2>2. Append(last.results, id) \in Seq(ToolUse)
    BY <2>1, MessageFields, AppendProperties
  <2>3. more \in Message
    BY <2>1, <2>2 DEF Message
  <2>4. [old EXCEPT ![Len(old)].results = Append(@, id)] =
          [old EXCEPT ![Len(old)] = more]
    BY <1>1, <2>1
  <2> HIDE DEF more, last, old
  <2> QED
    BY <1>1, <2>1, <2>3, <2>4, ExceptSeq
<1>4. add_tool_result(s, id) = [messages EXCEPT ![s] =
        IF old # <<>> /\ Last(old).results # <<>>
          THEN [old EXCEPT ![Len(old)].results = Append(@, id)]
          ELSE Append(old, ToolResults(<<id>>))]
  BY DEF add_tool_result
<1> HIDE DEF old
<1> QED
  BY <1>1, <1>2, <1>3, <1>4

Types ==
  /\ registry \in [Key -> Turn \cup {None}]
  /\ messages \in [Turn -> Seq(Message)] /\ pending \in [Turn -> Nat]
  /\ signal \in [Turn -> BOOLEAN] /\ cancelled \in BOOLEAN
  /\ wishes \in 0..MaxWishes
  /\ steering \in Seq(Steer) /\ follow_up \in Seq(FollowUp)
  /\ said \subseteq Wished
  /\ pc \in [Turn -> Place] /\ key \in [Turn -> Key]
  /\ session \in [Turn -> Turn \cup {None}]
  /\ turn \in [Turn -> 0..(MaxIterations + 1)]
  /\ taken \in [Turn -> Seq(Wished)]
  /\ calls \in [Turn -> Seq(ToolUse)]
  /\ request \in [Turn -> Seq(Message)]
  /\ answered \in [Turn -> SUBSET Text]

LEMMA FitsTypes ==
  ASSUME Fits
  PROVE  Types /\ TypeOK
BY DEF Fits, TypeOK, Types, Wished

Unanswered == {"injecting", "asking", "requesting", "calling"}

(* A turn keeps its session, and every request has a number of its own.      *)
Forward(u) ==
  /\ turn[u] <= turn'[u]
  /\ session[u] # None => session'[u] = session[u]
  /\ pc'[u] \in Unanswered =>
       \/ turn[u] < turn'[u]
       \/ pc[u] \in Unanswered /\ turn'[u] = turn[u]

LEMMA Together ==
  ASSUME AgentAssumption, Fits, NEW t \in Turn, Types',
         \A u \in Turn \ {t} : Same(u), PlaceFits(t)', Forward(t)
  PROVE  /\ Fits' /\ \A u \in Turn : Forward(u)
         /\ \A u \in Turn \ {t} : Same(u)
<1>1. ASSUME NEW u \in Turn \ {t}
      PROVE  PlaceFits(u)' /\ Forward(u)
  <2>1. PlaceFits(u) /\ turn[u] <= turn[u]
    <3>1. turn[u] \in 0..(MaxIterations + 1)
      BY FitsTypes DEF Types
    <3> QED
      BY <3>1 DEF Fits, AgentAssumption
  <2>2. Same(u)
    OBVIOUS
  <2> QED
    BY <2>1, <2>2 DEF Same, PlaceFits, Forward
<1>2. \A u \in Turn : PlaceFits(u)' /\ Forward(u)
  BY <1>1
<1>3. TypeOK'
  BY <1>2 DEF Types, TypeOK, PlaceFits, Wished
<1> QED
  BY <1>2, <1>3 DEF Fits

LEMMA AllSame ==
  ASSUME AgentAssumption, Fits, Types', \A u \in Turn : Same(u)
  PROVE  Fits' /\ \A u \in Turn : Forward(u)
<1>1. \A u \in Turn : PlaceFits(u) /\ turn[u] <= turn[u]
  BY FitsTypes DEF Fits, Types, AgentAssumption
<1>2. \A u \in Turn : PlaceFits(u)' /\ Forward(u)
  BY <1>1 DEF Same, PlaceFits, Forward
<1>3. TypeOK'
  BY <1>2 DEF Types, TypeOK, PlaceFits, Wished
<1> QED
  BY <1>2, <1>3 DEF Fits

LEMMA FitsInit ==
  ASSUME AgentAssumption, Init
  PROVE  Fits
<1>1. <<>> \in Seq(Message) /\ <<>> \in Seq(Wished) /\ <<>> \in Seq(ToolUse)
  OBVIOUS
<1>2. TypeOK
  <2>1. /\ <<>> \in Seq(Steer) /\ <<>> \in Seq(FollowUp)
        /\ 0 \in 0..(MaxIterations + 1) /\ 0 \in 0..MaxWishes
        /\ "unsent" \in Place /\ "unsent" # "executing"
    BY DEF Place, AgentAssumption
  <2> QED
    BY <1>1, <2>1 DEF Init, TypeOK, Wished
<1>3. ASSUME NEW t \in Turn
      PROVE  PlaceFits(t)
  BY DEF Init, PlaceFits, Begun
<1> QED
  BY <1>2, <1>3 DEF Fits

LEMMA FitsClients ==
  ASSUME AgentAssumption, Fits, Clients
  PROVE  Fits' /\ \A u \in Turn : Forward(u)
<1> USE FitsTypes
<1> USE DEF sessions, queues, outside, where, loop
<1>1. ASSUME NEW t \in Turn, handle_chat_send(t)
      PROVE  Fits' /\ \A u \in Turn : Forward(u)
  <2>1. pc' = [pc EXCEPT ![t] = "sent"] /\ pc[t] = "unsent"
    BY <1>1 DEF handle_chat_send, Goto
  <2>2. Types'
    BY <1>1, <2>1 DEF handle_chat_send, Types, Place
  <2>3. \A u \in Turn \ {t} : Same(u)
    BY <1>1, <2>1 DEF handle_chat_send, Types, Same
  <2>4. pc'[t] = "sent" /\ PlaceFits(t) /\ turn[t] <= turn[t]
    BY <2>1 DEF Types, Fits, AgentAssumption
  <2>5. PlaceFits(t)' /\ Forward(t)
    BY <1>1, <2>1, <2>4 DEF handle_chat_send, PlaceFits, Forward, Begun, Unanswered
  <2> QED
    BY <2>2, <2>3, <2>5, Together
<1>2. ASSUME Wish
      PROVE  wishes' \in 0..MaxWishes
  BY <1>2 DEF Wish, Types, AgentAssumption
<1>3. ASSUME NEW k \in Key, handle_chat_abort(k)
      PROVE  Fits' /\ \A u \in Turn : Forward(u)
  <2>1. Types'
    BY <1>2, <1>3 DEF handle_chat_abort, Types
  <2>2. \A u \in Turn : Same(u)
    BY <1>3 DEF handle_chat_abort, Same
  <2> QED
    BY <2>1, <2>2, AllSame
<1>4. ASSUME NEW k \in Key, handle_sessions_delete(k)
      PROVE  Fits' /\ \A u \in Turn : Forward(u)
  <2>1. Types'
    BY <1>2, <1>4 DEF handle_sessions_delete, Types
  <2>2. \A u \in Turn : Same(u)
    BY <1>4 DEF handle_sessions_delete, Same
  <2> QED
    BY <2>1, <2>2, AllSame
<1>5. ASSUME NEW m \in Steer, steer(m)
      PROVE  Fits' /\ \A u \in Turn : Forward(u)
  <2>1. Append(steering, m) \in Seq(Steer)
    BY AppendProperties DEF Types
  <2>2. Types'
    BY <1>2, <1>5, <2>1 DEF steer, Types, Wished
  <2>3. \A u \in Turn : Same(u)
    BY <1>5 DEF steer, Same
  <2> QED
    BY <2>2, <2>3, AllSame
<1>6. ASSUME NEW m \in FollowUp, QueueFollowUp(m)
      PROVE  Fits' /\ \A u \in Turn : Forward(u)
  <2>1. Append(follow_up, m) \in Seq(FollowUp)
    BY AppendProperties DEF Types
  <2>2. Types'
    BY <1>2, <1>6, <2>1 DEF QueueFollowUp, Types, Wished
  <2>3. \A u \in Turn : Same(u)
    BY <1>6 DEF QueueFollowUp, Same
  <2> QED
    BY <2>2, <2>3, AllSame
<1>7. ASSUME abort
      PROVE  Fits' /\ \A u \in Turn : Forward(u)
  <2>1. Types'
    BY <1>2, <1>7 DEF abort, Types
  <2>2. \A u \in Turn : Same(u)
    BY <1>7 DEF abort, Same
  <2> QED
    BY <2>1, <2>2, AllSame
<1> QED
  BY <1>1, <1>3, <1>4, <1>5, <1>6, <1>7 DEF Clients

LEMMA FitsBegin ==
  ASSUME AgentAssumption, Fits, NEW t \in Turn, Begin(t)
  PROVE  /\ Fits' /\ \A u \in Turn : Forward(u)
         /\ \A u \in Turn \ {t} : Same(u)
<1> USE FitsTypes
<1> USE DEF outside
<1> DEFINE s == IF registry[key[t]] = None THEN t ELSE registry[key[t]]
<1>1. /\ pc[t] = "sent" /\ s \in Turn /\ t \in Text
      /\ registry' = [registry EXCEPT ![key[t]] = s]
      /\ session' = [session EXCEPT ![t] = s]
      /\ add_user_message(s, t)
  BY DEF Begin, Types, Text
<1> HIDE DEF s
<1>2. messages' \in [Turn -> Seq(Message)] /\ pending' \in [Turn -> Nat]
  BY <1>1, AddedText
<1>3. /\ registry' \in [Key -> Turn \cup {None}] /\ session' \in [Turn -> Turn \cup {None}]
      /\ session'[t] = s /\ \A u \in Turn \ {t} : session'[u] = session[u]
  BY <1>1 DEF Types
<1>4. session[t] = None /\ s # None /\ calls[t] = <<>> /\ taken[t] = <<>>
  BY <1>1 DEF Fits, PlaceFits, AgentAssumption
<1>5. /\ steering' \in Seq(Steer) /\ pc' \in [Turn -> Place]
      /\ turn' \in [Turn -> 0..(MaxIterations + 1)]
      /\ taken' \in [Turn -> Seq(Wished)]
      /\ \A u \in Turn \ {t} :
           pc'[u] = pc[u] /\ turn'[u] = turn[u] /\ taken'[u] = taken[u]
      /\ \/ pc'[t] = "slept" /\ taken'[t] = <<>> /\ turn'[t] = turn[t]
         \/ Enters(t, TRUE, steering)
  <2>1. CASE Len(messages[s]) + 1 > SleepAt
    <3>1. pc' = [pc EXCEPT ![t] = "slept"] /\ UNCHANGED <<steering, turn, taken>>
      BY <2>1 DEF Begin, Goto, s
    <3> QED
      BY <1>4, <3>1 DEF Types, Place, Over
  <2>2. CASE ~(Len(messages[s]) + 1 > SleepAt)
    <3>1. steering' = <<>> /\ Loop(t, TRUE, steering)
      BY <2>2 DEF Begin, DrainAndLoop, s
    <3>2. steering \in Seq(Wished) /\ <<>> \in Seq(Steer)
      BY DEF Types, Wished
    <3> QED
      BY <3>1, <3>2, LoopEnters
  <2> QED
    BY <2>1, <2>2
<1>6. UNCHANGED <<signal, follow_up, said, wishes, cancelled, key, calls, request,
                  answered>>
  BY DEF Begin
<1>7. Types'
  BY <1>2, <1>3, <1>5, <1>6 DEF Types
<1>8. \A u \in Turn \ {t} : Same(u)
  BY <1>3, <1>5, <1>6 DEF Same
<1>9. turn[t] \in Nat
  BY DEF Types, AgentAssumption
<1>10. PlaceFits(t)' /\ Forward(t)
  <2>1. CASE pc'[t] = "slept" /\ taken'[t] = <<>> /\ turn'[t] = turn[t]
    BY <1>3, <1>4, <1>6, <1>9, <2>1 DEF PlaceFits, Forward, Begun, Unanswered
  <2>2. CASE Enters(t, TRUE, steering)
    BY <1>3, <1>4, <1>6, <2>2 DEF Enters, PlaceFits, Forward, Begun, Unanswered
  <2> QED
    BY <1>5, <2>1, <2>2
<1> QED
  BY <1>7, <1>8, <1>10, Together

LEMMA FitsAdd ==
  ASSUME AgentAssumption, Fits, NEW t \in Turn, Inject(t) \/ AddFollowUp(t)
  PROVE  /\ Fits' /\ \A u \in Turn : Forward(u)
         /\ \A u \in Turn \ {t} : Same(u)
<1> USE FitsTypes
<1> USE DEF queues, outside, where
<1>1. /\ pc[t] \in {"injecting", "following"} /\ taken[t] # <<>>
      /\ add_user_message(session[t], Head(taken[t]))
      /\ taken' = [taken EXCEPT ![t] = Tail(@)]
      /\ UNCHANGED <<registry, signal, queues, outside, where, turn, calls,
                     request, answered>>
  BY DEF Inject, AddFollowUp, Fits, PlaceFits
<1>2. /\ Head(taken[t]) \in Wished /\ Tail(taken[t]) \in Seq(Wished)
      /\ Len(Tail(taken[t])) = Len(taken[t]) - 1
  BY <1>1, HeadTailProperties DEF Types
<1>3. session[t] \in Turn
  BY <1>1 DEF Fits, PlaceFits, Types
<1>4. messages' \in [Turn -> Seq(Message)] /\ pending' \in [Turn -> Nat]
  BY <1>1, <1>2, <1>3, AddedText DEF Wished, Text
<1>5. /\ taken' \in [Turn -> Seq(Wished)] /\ taken'[t] = Tail(taken[t])
      /\ \A u \in Turn \ {t} : taken'[u] = taken[u]
  BY <1>1, <1>2 DEF Types
<1>6. /\ pc' \in [Turn -> Place] /\ \A u \in Turn \ {t} : pc'[u] = pc[u]
      /\ \/ pc[t] = "following" /\ pc'[t] = "following"
         \/ pc[t] = "injecting" /\ pc'[t] = "asking" /\ Len(taken[t]) = 1
         \/ pc[t] = "injecting" /\ pc'[t] = "injecting" /\ Len(taken[t]) # 1
  <2>1. CASE Inject(t)
    <3>1. CASE Len(taken[t]) = 1
      BY <2>1, <3>1 DEF Inject, Goto, Types, Place
    <3>2. CASE Len(taken[t]) # 1
      BY <2>1, <3>2 DEF Inject, Types
    <3> QED
      BY <3>1, <3>2
  <2>2. CASE AddFollowUp(t)
    BY <2>2 DEF AddFollowUp, Types
  <2> QED
    BY <2>1, <2>2
<1>7. Types'
  BY <1>1, <1>4, <1>5, <1>6 DEF Types
<1>8. \A u \in Turn \ {t} : Same(u)
  BY <1>1, <1>5, <1>6 DEF Same
<1>9. turn[t] <= turn[t]
  BY DEF Types, AgentAssumption
<1>10. /\ Len(taken[t]) = 1 => Tail(taken[t]) = <<>>
       /\ Len(taken[t]) # 1 => Tail(taken[t]) # <<>>
  <2>1. Len(taken[t]) \in Nat /\ Len(taken[t]) # 0
    BY <1>1 DEF Types
  <2>2. \A w \in Seq(Wished) : w = <<>> <=> Len(w) = 0
    OBVIOUS
  <2>3. Tail(taken[t]) = <<>> <=> Len(Tail(taken[t])) = 0
    BY <1>2, <2>2, Zenon
  <2>4. Len(taken[t]) = 1 <=> Len(taken[t]) - 1 = 0
    BY <2>1
  <2> QED
    BY <1>2, <2>3, <2>4, Zenon
<1>11. PlaceFits(t)
  BY DEF Fits
<1>12. PlaceFits(t)' /\ Forward(t)
  BY <1>1, <1>5, <1>6, <1>9, <1>10, <1>11 DEF PlaceFits, Forward, Begun, Unanswered
<1> QED
  BY <1>7, <1>8, <1>12, Together

LEMMA FitsAsk ==
  ASSUME AgentAssumption, Fits, NEW t \in Turn,
         drain_pending_input(t) \/ stream_llm_response(t) \/ Fail(t) \/ Aborted(t)
         \/ Finish(t),
         request' \in [Turn -> Seq(Message)]
  PROVE  /\ Fits' /\ \A u \in Turn : Forward(u)
         /\ \A u \in Turn \ {t} : Same(u)
<1> USE FitsTypes
<1> USE DEF sessions, queues, outside, where, loop
<1>1. /\ \A u \in Turn \ {t} : pc'[u] = pc[u] /\ request'[u] = request[u]
      /\ pc'[t] \in {"requesting", "calling", "failed", "aborted", "done"}
      /\ pc'[t] \in Unanswered => pc[t] \in {"asking", "requesting"}
      /\ pc[t] \in {"asking", "requesting", "calling", "stopping"}
      /\ pc' \in [Turn -> Place] /\ pending' \in [Turn -> Nat]
      /\ UNCHANGED <<registry, messages, signal, queues, outside, where, turn,
                     taken, calls, answered>>
  <2>1. CASE drain_pending_input(t)
    BY <2>1 DEF drain_pending_input, Goto, Types, Place, Unanswered
  <2>2. CASE stream_llm_response(t)
    BY <2>2 DEF stream_llm_response, Goto, Types, Place, Unanswered
  <2>3. CASE Fail(t) \/ Aborted(t)
    BY <2>3 DEF Fail, Aborted, EndCall, Goto, Types, Place, Over, Unanswered
  <2>4. CASE Finish(t)
    BY <2>4 DEF Finish, Goto, Types, Place, Over, Unanswered
  <2> QED
    BY <2>1, <2>2, <2>3, <2>4
<1>2. Types'
  BY <1>1 DEF Types
<1>3. \A u \in Turn \ {t} : Same(u)
  BY <1>1 DEF Same
<1>4. turn[t] <= turn[t] /\ PlaceFits(t)
  BY DEF Types, Fits, AgentAssumption
<1>5. PlaceFits(t)' /\ Forward(t)
  BY <1>1, <1>4 DEF PlaceFits, Forward, Begun, Unanswered
<1> QED
  BY <1>2, <1>3, <1>5, Together

LEMMA FitsAnswer ==
  ASSUME AgentAssumption, Fits, NEW t \in Turn, Answer(t)
  PROVE  /\ Fits' /\ \A u \in Turn : Forward(u)
         /\ \A u \in Turn \ {t} : Same(u)
<1> USE FitsTypes
<1> USE DEF queues, outside, where
<1>1. PICK n \in ToolCounts :
        LET uses == [i \in 1..n |-> <<t, turn[t], i>>]
            message == IF n = 0 THEN AssistantText ELSE AssistantWithTools(uses)
        IN  /\ messages' = [messages EXCEPT ![session[t]] = Append(@, message)]
            /\ calls' = [calls EXCEPT ![t] = uses]
            /\ Goto(t, IF n = 0 THEN "checking" ELSE "executing")
  BY DEF Answer
<1> DEFINE uses == [i \in 1..n |-> <<t, turn[t], i>>]
           message == IF n = 0 THEN AssistantText ELSE AssistantWithTools(uses)
<1>2. /\ pc[t] = "calling"
      /\ request' = [request EXCEPT ![t] = <<>>]
      /\ answered' = [answered EXCEPT ![session[t]] = @ \cup Asked(t)]
      /\ UNCHANGED <<registry, pending, signal, queues, outside, where, turn, taken>>
  BY DEF Answer
<1>3. n \in Nat /\ session[t] \in Turn /\ turn[t] \in 1..MaxIterations
  BY <1>2 DEF AgentAssumption, Fits, PlaceFits, Begun, Types
<1>4. uses \in Seq(ToolUse) /\ Len(uses) = n
  <2>1. \A i \in 1..n : <<t, turn[t], i>> \in ToolUse
    BY <1>3 DEF ToolUse
  <2>2. uses \in [1..n -> ToolUse]
    BY <2>1
  <2> HIDE DEF uses
  <2> QED
    BY <1>3, <2>2
<1>5. n = 0 <=> uses = <<>>
  <2> HIDE DEF uses
  <2>1. uses = <<>> <=> Len(uses) = 0
    BY <1>4
  <2> QED
    BY <1>4, <2>1
<1>6. messages' = [messages EXCEPT ![session[t]] = Append(@, message)] /\ message \in Message
  BY <1>1, <1>4, NewMessages
<1>7. /\ calls' = [calls EXCEPT ![t] = uses]
      /\ pc' = [pc EXCEPT ![t] = IF n = 0 THEN "checking" ELSE "executing"]
  BY <1>1 DEF Goto
<1> HIDE DEF uses, message
<1>8. messages' \in [Turn -> Seq(Message)]
  BY <1>3, <1>6 DEF Types
<1>9. Asked(t) \subseteq Text
  <2>1. \A m \in ToSet(request[t]) : m \in Message
    BY DEF Types, ToSet
  <2> QED
    BY <2>1, MessageFields DEF Asked
<1>10. answered' \in [Turn -> SUBSET Text]
  BY <1>2, <1>3, <1>9 DEF Types
<1>11. request' \in [Turn -> Seq(Message)] /\ \A u \in Turn \ {t} : request'[u] = request[u]
  <2>1. <<>> \in Seq(Message)
    OBVIOUS
  <2> QED
    BY <1>2, <2>1 DEF Types
<1>12. /\ calls' \in [Turn -> Seq(ToolUse)] /\ pc' \in [Turn -> Place]
       /\ calls'[t] = uses /\ pc'[t] = IF n = 0 THEN "checking" ELSE "executing"
       /\ \A u \in Turn \ {t} : calls'[u] = calls[u] /\ pc'[u] = pc[u]
  BY <1>4, <1>7 DEF Types, Place
<1>13. Types'
  BY <1>2, <1>8, <1>10, <1>11, <1>12 DEF Types
<1>14. \A u \in Turn \ {t} : Same(u)
  BY <1>2, <1>11, <1>12 DEF Same
<1>15. turn[t] <= turn[t] /\ PlaceFits(t)
  BY DEF Types, Fits, AgentAssumption
<1>16. PlaceFits(t)' /\ Forward(t)
  <2>1. CASE n = 0
    BY <1>2, <1>3, <1>5, <1>12, <1>15, <2>1 DEF PlaceFits, Forward, Begun, Unanswered
  <2>2. CASE n # 0
    BY <1>2, <1>3, <1>5, <1>12, <1>15, <2>2 DEF PlaceFits, Forward, Begun, Unanswered
  <2> QED
    BY <2>1, <2>2
<1> QED
  BY <1>13, <1>14, <1>16, Together

(* A turn between the loops.                                                 *)
LEMMA FitsLoops ==
  ASSUME AgentAssumption, Fits, NEW t \in Turn,
         CheckInput(t) \/ Follow(t) \/ FollowInput(t)
  PROVE  /\ Fits' /\ \A u \in Turn : Forward(u)
         /\ \A u \in Turn \ {t} : Same(u)
<1> USE FitsTypes
<1> USE DEF sessions, queues, outside, where
<1>1. PICK has_more \in BOOLEAN : DrainAndLoop(t, has_more)
  <2>1. (pending[session[t]] > 0) \in BOOLEAN /\ TRUE \in BOOLEAN
    OBVIOUS
  <2>2. \/ DrainAndLoop(t, pending[session[t]] > 0)
        \/ DrainAndLoop(t, TRUE)
    BY DEF CheckInput, Follow, FollowInput, EnterAgain
  <2> QED
    BY <2>1, <2>2, Zenon
<1>2. /\ pc[t] \in {"checking", "following", "stopping"}
      /\ pending' \in [Turn -> Nat]
      /\ UNCHANGED <<registry, messages, signal, follow_up, outside, where,
                     calls, request, answered>>
  BY DEF CheckInput, Follow, FollowInput, DrainPending, Types
<1>3. steering \in Seq(Wished) /\ steering' \in Seq(Steer)
      /\ Loop(t, has_more, steering)
  BY <1>1 DEF DrainAndLoop, Types, Wished
<1>4. /\ pc' \in [Turn -> Place] /\ turn' \in [Turn -> 0..(MaxIterations + 1)]
      /\ taken' \in [Turn -> Seq(Wished)]
      /\ Enters(t, has_more, steering)
      /\ \A u \in Turn \ {t} :
           pc'[u] = pc[u] /\ turn'[u] = turn[u] /\ taken'[u] = taken[u]
  BY <1>3, LoopEnters
<1>5. Types'
  BY <1>2, <1>3, <1>4 DEF Types
<1>6. \A u \in Turn \ {t} : Same(u)
  BY <1>2, <1>4 DEF Same
<1>7. PlaceFits(t)
  BY DEF Fits
<1>8. PlaceFits(t)' /\ Forward(t)
  BY <1>2, <1>4, <1>7 DEF PlaceFits, Forward, Enters, Begun, Unanswered
<1> QED
  BY <1>5, <1>6, <1>8, Together

LEMMA FitsTakeFollowUps ==
  ASSUME AgentAssumption, Fits, NEW t \in Turn, TakeFollowUps(t)
  PROVE  /\ Fits' /\ \A u \in Turn : Forward(u)
         /\ \A u \in Turn \ {t} : Same(u)
<1> USE FitsTypes
<1> USE DEF sessions, outside, where
<1>1. /\ pc[t] = "stopping" /\ pc' = [pc EXCEPT ![t] = "following"]
      /\ taken' = [taken EXCEPT ![t] = follow_up] /\ follow_up' = <<>>
      /\ UNCHANGED <<sessions, steering, outside, where, turn, calls, request, answered>>
  BY DEF TakeFollowUps, Goto
<1>2. follow_up \in Seq(Wished) /\ <<>> \in Seq(FollowUp)
  BY DEF Types, Wished
<1>3. Types'
  BY <1>1, <1>2 DEF Types, Place
<1>4. \A u \in Turn \ {t} : Same(u)
  BY <1>1 DEF Same, Types
<1>5. turn[t] <= turn[t] /\ PlaceFits(t) /\ pc'[t] = "following"
  BY <1>1 DEF Types, Fits, AgentAssumption
<1>6. PlaceFits(t)' /\ Forward(t)
  BY <1>1, <1>5 DEF PlaceFits, Forward, Begun, Unanswered
<1> QED
  BY <1>3, <1>4, <1>6, Together

LEMMA FitsExecute ==
  ASSUME AgentAssumption, Fits, NEW t \in Turn, Execute(t)
  PROVE  /\ Fits' /\ \A u \in Turn : Forward(u)
         /\ \A u \in Turn \ {t} : Same(u)
<1> USE FitsTypes
<1> USE DEF outside, where
<1>1. /\ pc[t] = "executing"
      /\ messages' = add_tool_result(session[t], Head(calls[t]))
      /\ calls' = [calls EXCEPT ![t] = Tail(calls[t])]
      /\ steering' = IF taken[t] = <<>> THEN <<>> ELSE steering
      /\ UNCHANGED <<registry, pending, signal, follow_up, outside, where, request, answered>>
  BY DEF Execute, NextCalls
<1>2. calls[t] # <<>> /\ session[t] \in Turn
  BY <1>1 DEF Fits, PlaceFits, Types
<1>3. Head(calls[t]) \in ToolUse /\ Tail(calls[t]) \in Seq(ToolUse)
  BY <1>2, HeadTailProperties DEF Types
<1>4. messages' \in [Turn -> Seq(Message)]
  BY <1>1, <1>2, <1>3, AddedResult
<1>5. /\ calls' \in [Turn -> Seq(ToolUse)] /\ calls'[t] = Tail(calls[t])
      /\ \A u \in Turn \ {t} : calls'[u] = calls[u]
  BY <1>1, <1>3 DEF Types
<1>6. Steered(t) \in Seq(Wished) /\ steering' \in Seq(Steer)
  <2>1. steering \in Seq(Wished) /\ taken[t] \in Seq(Wished) /\ <<>> \in Seq(Steer)
    BY DEF Types, Wished
  <2> QED
    BY <1>1, <2>1 DEF Steered, Types
<1>7. /\ pc' \in [Turn -> Place] /\ turn' \in [Turn -> 0..(MaxIterations + 1)]
      /\ taken' \in [Turn -> Seq(Wished)]
      /\ \A u \in Turn \ {t} :
           pc'[u] = pc[u] /\ turn'[u] = turn[u] /\ taken'[u] = taken[u]
      /\ \/ Tail(calls[t]) = <<>> /\ Enters(t, TRUE, Steered(t))
         \/ /\ Tail(calls[t]) # <<>> /\ pc'[t] = "executing"
            /\ turn'[t] = turn[t] /\ taken'[t] = Steered(t)
  <2>1. CASE Tail(calls[t]) = <<>>
    <3>1. Loop(t, TRUE, Steered(t))
      BY <2>1 DEF Execute, NextCalls
    <3> QED
      BY <1>6, <2>1, <3>1, LoopEnters
  <2>2. CASE Tail(calls[t]) # <<>>
    <3>1. taken' = [taken EXCEPT ![t] = Steered(t)] /\ pc' = pc /\ turn' = turn
      BY <2>2 DEF Execute, NextCalls
    <3> QED
      BY <1>1, <1>6, <2>2, <3>1 DEF Types
  <2> QED
    BY <2>1, <2>2
<1>8. Types'
  BY <1>1, <1>4, <1>5, <1>6, <1>7 DEF Types
<1>9. \A u \in Turn \ {t} : Same(u)
  BY <1>1, <1>5, <1>7 DEF Same
<1>10. turn[t] <= turn[t] /\ PlaceFits(t)
  BY DEF Types, Fits, AgentAssumption
<1>11. PlaceFits(t)' /\ Forward(t)
  BY <1>1, <1>5, <1>7, <1>10 DEF PlaceFits, Forward, Enters, Begun, Unanswered
<1> QED
  BY <1>8, <1>9, <1>11, Together

-----------------------------------------------------------------------------
(* What a session holds, and what becomes of it.                             *)

ResultsIn(ms, id) ==
  UNION {{<<i, j>> : j \in {n \in DOMAIN ms[i].results : ms[i].results[n] = id}} :
         i \in DOMAIN ms}

IdsIn(ms) == UNION {ToSet(m.uses) \cup ToSet(m.results) : m \in ToSet(ms)}
TextsIn(ms) == UNION {m.texts : m \in ToSet(ms)}

LEMMA ResultAt ==
  ASSUME NEW ms, NEW id, NEW at
  PROVE  at \in ResultsIn(ms, id) <=>
           \E i \in DOMAIN ms : \E j \in DOMAIN ms[i].results :
             at = <<i, j>> /\ ms[i].results[j] = id
<1> DEFINE places(i) == {n \in DOMAIN ms[i].results : ms[i].results[n] = id}
           pairs(i) == {<<i, j>> : j \in places(i)}
<1>1. at \in ResultsIn(ms, id) <=> \E i \in DOMAIN ms : at \in pairs(i)
  BY DEF ResultsIn
<1>2. \A i \in DOMAIN ms : at \in pairs(i) <=> \E j \in places(i) : at = <<i, j>>
  OBVIOUS
<1>3. \A i \in DOMAIN ms : \A j :
        j \in places(i) <=> j \in DOMAIN ms[i].results /\ ms[i].results[j] = id
  OBVIOUS
<1> HIDE DEF pairs, places
<1> QED
  BY <1>1, <1>2, <1>3

LEMMA NoResult ==
  ASSUME NEW ms, NEW id, id \notin IdsIn(ms)
  PROVE  ResultsIn(ms, id) = {}
<1> SUFFICES ASSUME NEW at \in ResultsIn(ms, id)
             PROVE  FALSE
  OBVIOUS
<1>1. PICK i \in DOMAIN ms : \E j \in DOMAIN ms[i].results : ms[i].results[j] = id
  BY ResultAt
<1> QED
  BY <1>1 DEF IdsIn, ToSet

(* new is old and the message m.                                             *)
LEMMA Appended ==
  ASSUME NEW old \in Seq(Message), NEW m \in Message
  PROVE  LET new == Append(old, m)
         IN  /\ new \in Seq(Message)
             /\ IdsIn(new) = IdsIn(old) \cup ToSet(m.uses) \cup ToSet(m.results)
             /\ TextsIn(new) = TextsIn(old) \cup m.texts
             /\ AllProper(old) /\ Proper(m) => AllProper(new)
             /\ m.results = <<>> => \A id : ResultsIn(new, id) = ResultsIn(old, id)
             /\ \A i \in DOMAIN new :
                  \/ i \in DOMAIN old /\ new[i] = old[i]
                  \/ i \notin DOMAIN old /\ new[i] = m
<1> DEFINE new == Append(old, m)
<1>1. /\ new \in Seq(Message) /\ Len(new) = Len(old) + 1
      /\ \A i \in 1..Len(old) : new[i] = old[i]
      /\ new[Len(old) + 1] = m
  BY AppendProperties
<1> HIDE DEF new
<1>2. Len(old) \in Nat /\ DOMAIN old = 1..Len(old) /\ DOMAIN new = 1..(Len(old) + 1)
  BY <1>1
<1>3. \A i \in DOMAIN old : i \in DOMAIN new /\ new[i] = old[i]
  BY <1>1, <1>2
<1>4. Len(old) + 1 \in DOMAIN new /\ Len(old) + 1 \notin DOMAIN old
  BY <1>2
<1>5. \A i \in DOMAIN new : i \in DOMAIN old \/ i = Len(old) + 1
  BY <1>2
<1>6. ToSet(new) = ToSet(old) \cup {m}
  <2>1. ASSUME NEW i \in DOMAIN new
        PROVE  new[i] \in ToSet(old) \cup {m}
    BY <1>1, <1>3, <1>5 DEF ToSet
  <2>2. ASSUME NEW i \in DOMAIN old
        PROVE  old[i] \in ToSet(new)
    BY <1>3 DEF ToSet
  <2>3. m \in ToSet(new)
    BY <1>1, <1>4 DEF ToSet
  <2> QED
    BY <2>1, <2>2, <2>3 DEF ToSet
<1>7. IdsIn(new) = IdsIn(old) \cup ToSet(m.uses) \cup ToSet(m.results)
  BY <1>6 DEF IdsIn
<1>8. TextsIn(new) = TextsIn(old) \cup m.texts
  BY <1>6 DEF TextsIn
<1>9. AllProper(old) /\ Proper(m) => AllProper(new)
  BY <1>1, <1>3, <1>5 DEF AllProper
<1>10. ASSUME m.results = <<>>, NEW id
       PROVE  ResultsIn(new, id) = ResultsIn(old, id)
  <2>1. DOMAIN m.results = {}
    BY <1>10
  <2>2. ASSUME NEW at \in ResultsIn(new, id)
        PROVE  at \in ResultsIn(old, id)
    <3>1. PICK i \in DOMAIN new : \E j \in DOMAIN new[i].results :
            at = <<i, j>> /\ new[i].results[j] = id
      BY ResultAt
    <3>2. i \in DOMAIN old
      BY <1>1, <1>5, <2>1, <3>1
    <3> QED
      BY <1>3, <3>1, <3>2, ResultAt
  <2>3. ASSUME NEW at \in ResultsIn(old, id)
        PROVE  at \in ResultsIn(new, id)
    <3>1. PICK i \in DOMAIN old : \E j \in DOMAIN old[i].results :
            at = <<i, j>> /\ old[i].results[j] = id
      BY ResultAt
    <3> QED
      BY <1>3, <3>1, ResultAt
  <2> QED
    BY <2>2, <2>3
<1>11. \A i \in DOMAIN new :
         (i \in DOMAIN old /\ new[i] = old[i]) \/ (i \notin DOMAIN old /\ new[i] = m)
  BY <1>1, <1>3, <1>4, <1>5
<1> QED
  BY <1>1, <1>7, <1>8, <1>9, <1>10, <1>11 DEF new

(* The results of a tool join those of the last message, if it has some.     *)
WithResult(old, id) ==
  IF old # <<>> /\ Last(old).results # <<>>
    THEN [old EXCEPT ![Len(old)].results = Append(@, id)]
    ELSE Append(old, ToolResults(<<id>>))

LEMMA ResultJoined ==
  ASSUME NEW old \in Seq(Message), AllProper(old), NEW id \in ToolUse,
         ResultsIn(old, id) = {}
  PROVE  LET new == WithResult(old, id)
         IN  /\ new \in Seq(Message) /\ AllProper(new)
             /\ IdsIn(new) \subseteq IdsIn(old) \cup {id}
             /\ TextsIn(new) = TextsIn(old)
             /\ \A i \in DOMAIN new : \A other \in ToSet(new[i].uses) :
                  i \in DOMAIN old /\ other \in ToSet(old[i].uses)
             /\ \A other : other # id => ResultsIn(new, other) = ResultsIn(old, other)
             /\ \E at : /\ ResultsIn(new, id) = {at}
                       /\ \A i \in DOMAIN old :
                            id \in ToSet(old[i].uses) => at[1] > i
<1> DEFINE n == Len(old)
<1>1. n \in Nat /\ DOMAIN old = 1..n
  OBVIOUS
<1>2. CASE old # <<>> /\ Last(old).results # <<>>
  <2> DEFINE last == old[n]
             ids == last.results
             more == [last EXCEPT !.results = Append(ids, id)]
             new == [old EXCEPT ![n] = more]
  <2>1. n \in 1..n /\ last \in Message /\ Proper(last) /\ ids # <<>>
    BY <1>1, <1>2 DEF AllProper, Last
  <2>2. ids \in Seq(ToolUse) /\ IsInjective(ids) /\ last.uses = <<>>
    BY <2>1, MessageFields DEF Proper
  <2>3. WithResult(old, id) = new
    <3>1. [old EXCEPT ![n].results = Append(@, id)] = new
      BY <1>1, <2>1
    <3> QED
      BY <1>2, <3>1 DEF WithResult
  <2> HIDE DEF ids, n
  <2>4. id \notin ToSet(ids)
    <3>1. ASSUME NEW j \in DOMAIN ids
          PROVE  ids[j] # id
      <4>1. ids[j] = id => <<n, j>> \in ResultsIn(old, id)
        BY <1>1, <2>1, ResultAt DEF ids
      <4> QED
        BY <4>1
    <3> QED
      BY <3>1 DEF ToSet
  <2> DEFINE longer == Append(ids, id)
  <2>5. /\ longer \in Seq(ToolUse) /\ Len(longer) = Len(ids) + 1
        /\ \A j \in 1..Len(ids) : longer[j] = ids[j]
        /\ longer[Len(ids) + 1] = id
    BY <2>2, AppendProperties
  <2> HIDE DEF longer
  <2>6. /\ Len(ids) \in Nat /\ DOMAIN ids = 1..Len(ids)
        /\ DOMAIN longer = 1..(Len(ids) + 1)
    BY <2>2, <2>5
  <2>7. /\ \A j \in DOMAIN ids : j \in DOMAIN longer /\ longer[j] = ids[j]
        /\ \A j \in DOMAIN longer : j \in DOMAIN ids \/ j = Len(ids) + 1
        /\ Len(ids) + 1 \in DOMAIN longer
    BY <2>5, <2>6
  <2>8. ToSet(longer) = ToSet(ids) \cup {id}
    BY <2>5, <2>7 DEF ToSet
  <2>9. IsInjective(longer)
    BY <2>2, <2>4, <2>5, <2>7 DEF IsInjective, ToSet
  <2>10. /\ more \in Message /\ more.role = last.role /\ more.texts = last.texts
         /\ more.uses = last.uses /\ more.results = longer
    <3>1. more = [last EXCEPT !.results = longer]
      BY DEF longer
    <3> HIDE DEF last, more
    <3> QED
      BY <2>1, <2>5, <3>1 DEF Message
  <2> HIDE DEF more
  <2>11. /\ new \in Seq(Message) /\ DOMAIN new = DOMAIN old
         /\ new[n] = more /\ \A i \in DOMAIN old : i # n => new[i] = old[i]
    BY <1>1, <2>1, <2>10, ExceptSeq
  <2> HIDE DEF new
  <2>12. AllProper(new)
    <3>1. Proper(more)
      <4>1. last.role = "user"
        BY <2>1, MessageFields DEF Proper, ids
      <4>2. IsInjective(<<>>)
        BY DEF IsInjective
      <4> QED
        BY <2>2, <2>9, <2>10, <4>1, <4>2 DEF Proper
    <3> QED
      BY <2>11, <3>1 DEF AllProper
  <2>13. \A i \in DOMAIN new :
           /\ i \in DOMAIN old /\ new[i].uses = old[i].uses /\ new[i].texts = old[i].texts
           /\ ToSet(new[i].results) \subseteq ToSet(old[i].results) \cup {id}
    BY <2>8, <2>10, <2>11 DEF ids
  <2>14. IdsIn(new) \subseteq IdsIn(old) \cup {id}
    <3>1. \A m \in ToSet(new) : \E i \in DOMAIN new : m = new[i]
      BY DEF ToSet
    <3>2. \A i \in DOMAIN old : old[i] \in ToSet(old)
      BY DEF ToSet
    <3> QED
      BY <2>13, <3>1, <3>2 DEF IdsIn
  <2>15. TextsIn(new) = TextsIn(old)
    <3>1. /\ \A m \in ToSet(new) : \E i \in DOMAIN new : m = new[i]
          /\ \A m \in ToSet(old) : \E i \in DOMAIN old : m = old[i]
      BY DEF ToSet
    <3>2. /\ \A i \in DOMAIN old : old[i] \in ToSet(old)
          /\ \A i \in DOMAIN new : new[i] \in ToSet(new)
      BY DEF ToSet
    <3> QED
      BY <2>11, <2>13, <3>1, <3>2 DEF TextsIn
  <2>16. ASSUME NEW other, NEW at
         PROVE  at \in ResultsIn(new, other) <=>
                  \/ at \in ResultsIn(old, other)
                  \/ other = id /\ at = <<n, Len(ids) + 1>>
    <3>1. ASSUME at \in ResultsIn(new, other)
          PROVE  \/ at \in ResultsIn(old, other)
                 \/ other = id /\ at = <<n, Len(ids) + 1>>
      <4>0. PICK i \in DOMAIN new : \E j \in DOMAIN new[i].results :
              at = <<i, j>> /\ new[i].results[j] = other
        BY <3>1, ResultAt
      <4>1. PICK j \in DOMAIN new[i].results : at = <<i, j>> /\ new[i].results[j] = other
        BY <4>0
      <4>2. CASE i # n
        BY <2>11, <4>1, <4>2, ResultAt
      <4>3. CASE i = n /\ j \in DOMAIN ids
        <5>1. n \in DOMAIN old /\ j \in DOMAIN old[n].results /\ old[n].results[j] = other
          BY <1>1, <2>1, <2>7, <2>10, <2>11, <4>1, <4>3 DEF ids
        <5> QED
          BY <4>1, <4>3, <5>1, ResultAt
      <4>4. CASE i = n /\ j = Len(ids) + 1
        BY <2>5, <2>10, <2>11, <4>1, <4>4
      <4>5. i = n => j \in DOMAIN longer
        BY <2>10, <2>11, <4>1
      <4> QED
        BY <2>7, <4>2, <4>3, <4>4, <4>5
    <3>2. ASSUME at \in ResultsIn(old, other)
          PROVE  at \in ResultsIn(new, other)
      <4>0. PICK i \in DOMAIN old : \E j \in DOMAIN old[i].results :
              at = <<i, j>> /\ old[i].results[j] = other
        BY <3>2, ResultAt
      <4>1. PICK j \in DOMAIN old[i].results : at = <<i, j>> /\ old[i].results[j] = other
        BY <4>0
      <4>2. i \in DOMAIN new /\ j \in DOMAIN new[i].results /\ new[i].results[j] = other
        <5>1. CASE i # n
          BY <2>11, <4>1, <5>1
        <5>2. CASE i = n
          BY <2>7, <2>10, <2>11, <4>1, <5>2 DEF ids
        <5> QED
          BY <5>1, <5>2
      <4> QED
        BY <4>1, <4>2, ResultAt
    <3>3. <<n, Len(ids) + 1>> \in ResultsIn(new, id)
      <4>1. n \in DOMAIN new /\ Len(ids) + 1 \in DOMAIN new[n].results
        BY <1>1, <2>1, <2>7, <2>10, <2>11
      <4>2. new[n].results[Len(ids) + 1] = id
        BY <2>5, <2>10, <2>11
      <4> QED
        BY <4>1, <4>2, ResultAt
    <3> QED
      BY <3>1, <3>2, <3>3
  <2>17. ASSUME NEW other, other # id
         PROVE  ResultsIn(new, other) = ResultsIn(old, other)
    <3>1. \A at : at \in ResultsIn(new, other) <=> at \in ResultsIn(old, other)
      BY <2>16, <2>17
    <3> QED
      BY <3>1
  <2>18. /\ ResultsIn(new, id) = {<<n, Len(ids) + 1>>}
         /\ \A i \in DOMAIN old : id \in ToSet(old[i].uses) => <<n, Len(ids) + 1>>[1] > i
    <3>1. ResultsIn(new, id) = {<<n, Len(ids) + 1>>}
      BY <2>16
    <3>2. ASSUME NEW i \in DOMAIN old, id \in ToSet(old[i].uses)
          PROVE  n > i
      <4>1. i # n
        BY <2>2, <3>2 DEF ToSet
      <4> QED
        BY <1>1, <4>1
    <3> QED
      BY <3>1, <3>2
  <2> HIDE DEF last
  <2>19. \A i \in DOMAIN new : \A other \in ToSet(new[i].uses) :
           i \in DOMAIN old /\ other \in ToSet(old[i].uses)
    BY <2>13
  <2> QED
    BY <2>3, <2>11, <2>12, <2>14, <2>15, <2>17, <2>18, <2>19
<1>3. CASE ~(old # <<>> /\ Last(old).results # <<>>)
  <2> DEFINE m == ToolResults(<<id>>)
             new == Append(old, m)
  <2>1. WithResult(old, id) = new
    BY <1>3 DEF WithResult
  <2>2. /\ m \in Message /\ m.uses = <<>> /\ m.results = <<id>> /\ m.texts = {}
        /\ Proper(m)
    <3>1. <<id>> \in Seq(ToolUse) /\ IsInjective(<<id>>) /\ IsInjective(<<>>)
      BY DEF IsInjective
    <3> QED
      BY <3>1, NewMessages DEF ToolResults, Proper
  <2>3. ToSet(m.uses) = {} /\ ToSet(m.results) = {id}
    BY <2>2 DEF ToSet
  <2> HIDE DEF m
  <2>4. /\ new \in Seq(Message) /\ IdsIn(new) = IdsIn(old) \cup {id}
        /\ TextsIn(new) = TextsIn(old) /\ AllProper(new)
        /\ \A i \in DOMAIN new :
             \/ i \in DOMAIN old /\ new[i] = old[i]
             \/ i \notin DOMAIN old /\ new[i] = m
    <3>1. /\ new \in Seq(Message)
          /\ IdsIn(new) = IdsIn(old) \cup ToSet(m.uses) \cup ToSet(m.results)
          /\ TextsIn(new) = TextsIn(old) \cup m.texts
          /\ AllProper(old) /\ Proper(m) => AllProper(new)
          /\ \A i \in DOMAIN new :
               \/ i \in DOMAIN old /\ new[i] = old[i]
               \/ i \notin DOMAIN old /\ new[i] = m
      BY <2>2, Appended
    <3> HIDE DEF new
    <3>2. IdsIn(new) = IdsIn(old) \cup {id} /\ TextsIn(new) = TextsIn(old)
      BY <2>2, <2>3, <3>1
    <3> QED
      BY <2>2, <3>1, <3>2
  <2>5. /\ Len(new) = n + 1 /\ new[n + 1] = m /\ \A i \in 1..n : new[i] = old[i]
    BY <2>2, AppendProperties
  <2> HIDE DEF new
  <2>6. n + 1 \in DOMAIN new /\ \A i \in DOMAIN old : i \in DOMAIN new /\ new[i] = old[i]
    BY <1>1, <2>4, <2>5
  <2>7. \A i \in DOMAIN new : \A other \in ToSet(new[i].uses) :
          i \in DOMAIN old /\ other \in ToSet(old[i].uses)
    BY <2>3, <2>4
  <2>8. DOMAIN m.results = {1} /\ m.results[1] = id
    BY <2>2
  <2>9. ASSUME NEW other, NEW at
        PROVE  at \in ResultsIn(new, other) <=>
                 at \in ResultsIn(old, other) \/ (other = id /\ at = <<n + 1, 1>>)
    <3>1. ASSUME at \in ResultsIn(new, other)
          PROVE  at \in ResultsIn(old, other) \/ (other = id /\ at = <<n + 1, 1>>)
      <4>0. PICK i \in DOMAIN new : \E j \in DOMAIN new[i].results :
              at = <<i, j>> /\ new[i].results[j] = other
        BY <3>1, ResultAt
      <4>1. PICK j \in DOMAIN new[i].results : at = <<i, j>> /\ new[i].results[j] = other
        BY <4>0
      <4>2. CASE i \in DOMAIN old
        BY <2>6, <4>1, <4>2, ResultAt
      <4>3. CASE i \notin DOMAIN old
        <5>1. i = n + 1
          BY <1>1, <2>4, <2>5, <4>3
        <5> QED
          BY <2>5, <2>8, <4>1, <5>1
      <4> QED
        BY <4>2, <4>3
    <3>2. ASSUME at \in ResultsIn(old, other)
          PROVE  at \in ResultsIn(new, other)
      <4>0. PICK i \in DOMAIN old : \E j \in DOMAIN old[i].results :
              at = <<i, j>> /\ old[i].results[j] = other
        BY <3>2, ResultAt
      <4>1. PICK j \in DOMAIN old[i].results : at = <<i, j>> /\ old[i].results[j] = other
        BY <4>0
      <4> QED
        BY <2>6, <4>1, ResultAt
    <3>3. <<n + 1, 1>> \in ResultsIn(new, id)
      BY <2>5, <2>6, <2>8, ResultAt
    <3> QED
      BY <3>1, <3>2, <3>3
  <2>10. ASSUME NEW other, other # id
         PROVE  ResultsIn(new, other) = ResultsIn(old, other)
    <3>1. \A at : at \in ResultsIn(new, other) <=> at \in ResultsIn(old, other)
      BY <2>9, <2>10
    <3> QED
      BY <3>1
  <2>11. /\ ResultsIn(new, id) = {<<n + 1, 1>>}
         /\ \A i \in DOMAIN old : <<n + 1, 1>>[1] > i
    <3>1. \A i \in DOMAIN old : n + 1 > i
      BY <1>1
    <3> QED
      BY <2>9, <3>1
  <2> QED
    BY <2>1, <2>4, <2>7, <2>10, <2>11
<1> QED
  BY <1>2, <1>3

-----------------------------------------------------------------------------
(* Tool uses and their results.                                              *)

(* A tool use belongs to a turn of the session, and to an answer it has had. *)
Owned(s, id) ==
  /\ session[id[1]] = s /\ id[2] <= turn[id[1]]
  /\ pc[id[1]] \in Unanswered => id[2] < turn[id[1]]

CallsFit(t) ==
  /\ IsInjective(calls[t])
  /\ \A id \in ToSet(calls[t]) :
       /\ id[1] = t /\ id[2] <= turn[t]
       /\ ResultsIn(messages[session[t]], id) = {}

AnsweredOnce(ms) ==
  \A i \in DOMAIN ms : \A id \in ToSet(ms[i].uses) :
    (\A t \in Turn : id \notin ToSet(calls[t])) =>
      \E at : ResultsIn(ms, id) = {at} /\ at[1] > i

SessionFits(s) ==
  /\ AllProper(messages[s]) /\ AnsweredOnce(messages[s])
  /\ \A id \in IdsIn(messages[s]) : Owned(s, id)

PairsFit == \A t \in Turn : CallsFit(t) /\ SessionFits(t)

LEMMA IdsAre ==
  ASSUME NEW ms \in Seq(Message)
  PROVE  /\ IdsIn(ms) \subseteq ToolUse
         /\ \A i \in DOMAIN ms :
              /\ ms[i] \in Message
              /\ ToSet(ms[i].uses) \subseteq IdsIn(ms)
              /\ ToSet(ms[i].uses) \subseteq ToolUse
<1>1. ASSUME NEW m \in Message
      PROVE  ToSet(m.uses) \cup ToSet(m.results) \subseteq ToolUse
  <2>1. m.uses \in Seq(ToolUse) /\ m.results \in Seq(ToolUse)
    BY MessageFields
  <2> QED
    BY <2>1 DEF ToSet
<1>2. \A i \in DOMAIN ms : ms[i] \in Message /\ ms[i] \in ToSet(ms)
  BY DEF ToSet
<1>3. \A m \in ToSet(ms) : m \in Message
  BY <1>2 DEF ToSet
<1> QED
  BY <1>1, <1>2, <1>3 DEF IdsIn

LEMMA ToolUseParts ==
  ASSUME AgentAssumption, NEW id \in ToolUse
  PROVE  id[1] \in Turn /\ id[2] \in Nat
BY DEF ToolUse, AgentAssumption

LEMMA OwnedStays ==
  ASSUME AgentAssumption, Fits, Fits', \A u \in Turn : Forward(u),
         NEW s \in Turn, NEW id \in ToolUse, Owned(s, id)
  PROVE  Owned(s, id)'
<1> DEFINE u == id[1]
<1>1. u \in Turn /\ id[2] \in Nat
  BY ToolUseParts
<1>2. turn[u] \in 0..(MaxIterations + 1) /\ turn'[u] \in 0..(MaxIterations + 1)
  BY <1>1 DEF Fits, TypeOK
<1>3. turn[u] \in Nat /\ turn'[u] \in Nat
  BY <1>2 DEF AgentAssumption
<1>4. session[u] = s /\ s # None /\ id[2] <= turn[u]
      /\ (pc[u] \in Unanswered => id[2] < turn[u])
  BY DEF Owned, AgentAssumption
<1>5. Forward(u)
  BY <1>1
<1> HIDE DEF u
<1>6. session'[u] = s /\ id[2] <= turn'[u]
  BY <1>1, <1>3, <1>4, <1>5 DEF Forward
<1>7. pc'[u] \in Unanswered => id[2] < turn'[u]
  BY <1>1, <1>3, <1>4, <1>5 DEF Forward
<1> QED
  BY <1>6, <1>7 DEF Owned, u

(* A step that adds no tool use and no result.                               *)
LEMMA PairsStay ==
  ASSUME AgentAssumption, Fits, Fits', \A u \in Turn : Forward(u), PairsFit,
         calls' = calls,
         \A s \in Turn :
           \/ messages'[s] = messages[s]
           \/ \E text \in Text : messages'[s] = Append(messages[s], UserText(text))
  PROVE  PairsFit'
<1>1. \A s \in Turn : messages[s] \in Seq(Message)
  BY DEF Fits, TypeOK
<1>2. ASSUME NEW s \in Turn
      PROVE  /\ IdsIn(messages'[s]) = IdsIn(messages[s]) /\ AllProper(messages'[s])
             /\ \A id : ResultsIn(messages'[s], id) = ResultsIn(messages[s], id)
             /\ \A i \in DOMAIN messages'[s] : \A id \in ToSet(messages'[s][i].uses) :
                  i \in DOMAIN messages[s] /\ id \in ToSet(messages[s][i].uses)
  <2>1. AllProper(messages[s])
    BY DEF PairsFit, SessionFits
  <2>2. CASE messages'[s] = messages[s]
    BY <2>1, <2>2
  <2>3. ASSUME NEW text \in Text, messages'[s] = Append(messages[s], UserText(text))
        PROVE  /\ IdsIn(messages'[s]) = IdsIn(messages[s]) /\ AllProper(messages'[s])
               /\ \A id : ResultsIn(messages'[s], id) = ResultsIn(messages[s], id)
               /\ \A i \in DOMAIN messages'[s] :
                    \A id \in ToSet(messages'[s][i].uses) :
                      i \in DOMAIN messages[s] /\ id \in ToSet(messages[s][i].uses)
    <3> DEFINE m == UserText(text)
    <3>1. /\ m \in Message /\ Proper(m) /\ m.results = <<>>
          /\ ToSet(m.uses) = {} /\ ToSet(m.results) = {}
      BY NewMessages DEF UserText, Proper, ToSet, IsInjective
    <3>2. messages'[s] = Append(messages[s], m)
      BY <2>3
    <3> HIDE DEF m
    <3>3. /\ IdsIn(messages'[s]) =
               IdsIn(messages[s]) \cup ToSet(m.uses) \cup ToSet(m.results)
          /\ AllProper(messages'[s])
          /\ \A id : ResultsIn(messages'[s], id) = ResultsIn(messages[s], id)
          /\ \A i \in DOMAIN messages'[s] :
               \/ i \in DOMAIN messages[s] /\ messages'[s][i] = messages[s][i]
               \/ i \notin DOMAIN messages[s] /\ messages'[s][i] = m
      BY <1>1, <2>1, <3>1, <3>2, Appended
    <3> QED
      BY <3>1, <3>3
  <2> QED
    BY <2>2, <2>3
<1>3. ASSUME NEW s \in Turn
      PROVE  SessionFits(s)'
  <2>1. SessionFits(s)
    BY DEF PairsFit
  <2>2. \A id \in IdsIn(messages'[s]) : Owned(s, id)'
    BY <1>1, <1>2, <2>1, IdsAre, OwnedStays DEF SessionFits
  <2>3. AnsweredOnce(messages[s])'
    <3> SUFFICES ASSUME NEW i \in DOMAIN messages'[s], NEW id \in ToSet(messages'[s][i].uses),
                        \A t \in Turn : id \notin ToSet(calls'[t])
                 PROVE  \E at : ResultsIn(messages'[s], id) = {at} /\ at[1] > i
      BY DEF AnsweredOnce
    <3>1. i \in DOMAIN messages[s] /\ id \in ToSet(messages[s][i].uses)
      BY <1>2
    <3>2. \E at : ResultsIn(messages[s], id) = {at} /\ at[1] > i
      BY <2>1, <3>1 DEF SessionFits, AnsweredOnce
    <3> QED
      BY <1>2, <3>2
  <2> QED
    BY <1>2, <2>2, <2>3 DEF SessionFits
<1>4. ASSUME NEW t \in Turn
      PROVE  CallsFit(t)'
  <2>1. CallsFit(t)
    BY DEF PairsFit
  <2>2. ASSUME NEW id \in ToSet(calls'[t])
        PROVE  id[1] = t /\ id[2] <= turn'[t] /\ ResultsIn(messages'[session'[t]], id) = {}
    <3>1. id \in ToSet(calls[t]) /\ calls[t] # <<>> /\ id \in ToolUse
      <4>1. calls[t] \in Seq(ToolUse)
        BY DEF Fits, TypeOK
      <4> QED
        BY <2>2, <4>1 DEF ToSet
    <3>2. session[t] \in Turn /\ session[t] # None
      <4>1. pc[t] = "executing" /\ PlaceFits(t)
        BY <3>1 DEF Fits, PlaceFits
      <4>2. session[t] \in Turn \cup {None}
        BY DEF Fits, TypeOK
      <4> QED
        BY <4>1, <4>2 DEF PlaceFits
    <3>3. session'[t] = session[t] /\ turn[t] <= turn'[t]
      BY <3>2 DEF Forward
    <3>4. /\ turn[t] \in 0..(MaxIterations + 1) /\ turn'[t] \in 0..(MaxIterations + 1)
          /\ id[2] \in Nat
      BY <3>1, ToolUseParts DEF Fits, TypeOK
    <3>5. id[1] = t /\ id[2] <= turn[t] /\ ResultsIn(messages[session[t]], id) = {}
      BY <2>1, <3>1 DEF CallsFit
    <3>6. id[2] <= turn'[t]
      BY <3>3, <3>4, <3>5 DEF AgentAssumption
    <3> QED
      BY <1>2, <3>2, <3>3, <3>5, <3>6
  <2> QED
    BY <2>1, <2>2 DEF CallsFit
<1> QED
  BY <1>3, <1>4 DEF PairsFit

LEMMA PairsAnswer ==
  ASSUME AgentAssumption, Fits, Fits', \A u \in Turn : Forward(u), PairsFit,
         NEW t \in Turn, Answer(t)
  PROVE  PairsFit'
<1>1. PICK n \in ToolCounts :
        LET uses == [i \in 1..n |-> <<t, turn[t], i>>]
            message == IF n = 0 THEN AssistantText ELSE AssistantWithTools(uses)
        IN  /\ messages' = [messages EXCEPT ![session[t]] = Append(@, message)]
            /\ calls' = [calls EXCEPT ![t] = uses]
  BY DEF Answer
<1> DEFINE uses == [i \in 1..n |-> <<t, turn[t], i>>]
           m == IF n = 0 THEN AssistantText ELSE AssistantWithTools(uses)
           at == session[t]
<1>2. /\ pc[t] = "calling" /\ session' = session /\ turn' = turn
  BY DEF Answer, where
<1>3. /\ n \in Nat /\ at \in Turn /\ at # None /\ turn[t] \in 1..MaxIterations
      /\ calls[t] = <<>>
  <2>1. PlaceFits(t) /\ session[t] \in Turn \cup {None}
    BY DEF Fits, TypeOK
  <2>2. n \in Nat
    BY DEF AgentAssumption
  <2> QED
    BY <1>2, <2>1, <2>2 DEF PlaceFits, Begun
<1>4. /\ uses \in Seq(ToolUse) /\ Len(uses) = n /\ IsInjective(uses)
      /\ \A id \in ToSet(uses) : id[1] = t /\ id[2] = turn[t] /\ id \in ToolUse
  <2>1. \A i \in 1..n : uses[i] = <<t, turn[t], i>> /\ uses[i] \in ToolUse
    BY <1>3 DEF ToolUse
  <2>2. uses \in [1..n -> ToolUse]
    BY <2>1
  <2> HIDE DEF uses
  <2>3. uses \in Seq(ToolUse) /\ Len(uses) = n /\ DOMAIN uses = 1..n
    BY <1>3, <2>2
  <2>4. IsInjective(uses)
    BY <2>1, <2>3 DEF IsInjective
  <2>5. \A id \in ToSet(uses) : id[1] = t /\ id[2] = turn[t] /\ id \in ToolUse
    BY <2>1, <2>3 DEF ToSet
  <2> QED
    BY <2>3, <2>4, <2>5
<1>5. /\ messages' = [messages EXCEPT ![at] = Append(@, m)]
      /\ calls' = [calls EXCEPT ![t] = uses]
  BY <1>1
<1>6. /\ m \in Message /\ m.role = "assistant" /\ m.results = <<>>
      /\ m.uses = uses /\ m.texts = {} /\ Proper(m)
  <2>1. IsInjective(<<>>) /\ (n = 0 => uses = <<>>)
    <3>1. n = 0 => Len(uses) = 0
      BY <1>4
    <3> HIDE DEF uses
    <3> QED
      BY <1>4, <3>1 DEF IsInjective
  <2> HIDE DEF uses
  <2>2. m \in Message
    BY <1>4, NewMessages
  <2>3. CASE n = 0
    BY <1>4, <2>1, <2>2, <2>3 DEF AssistantText, Proper
  <2>4. CASE n # 0
    BY <1>4, <2>1, <2>2, <2>4 DEF AssistantWithTools, AssistantText, Proper
  <2> QED
    BY <2>3, <2>4
<1> HIDE DEF uses, m, at
<1>7. /\ \A s \in Turn : messages[s] \in Seq(Message)
      /\ messages \in [Turn -> Seq(Message)] /\ calls \in [Turn -> Seq(ToolUse)]
  BY DEF Fits, TypeOK
<1>8. /\ calls'[t] = uses /\ \A u \in Turn \ {t} : calls'[u] = calls[u]
      /\ messages'[at] = Append(messages[at], m)
      /\ \A s \in Turn \ {at} : messages'[s] = messages[s]
  BY <1>3, <1>5, <1>7
<1>9. ToSet(m.results) = {} /\ ToSet(m.uses) = ToSet(uses) /\ ToSet(<<>>) = {}
  BY <1>6 DEF ToSet
<1>10. /\ IdsIn(messages'[at]) = IdsIn(messages[at]) \cup ToSet(uses)
       /\ AllProper(messages[at]) => AllProper(messages'[at])
       /\ \A id : ResultsIn(messages'[at], id) = ResultsIn(messages[at], id)
       /\ \A i \in DOMAIN messages'[at] :
            \/ i \in DOMAIN messages[at] /\ messages'[at][i] = messages[at][i]
            \/ i \notin DOMAIN messages[at] /\ messages'[at][i] = m
  <2>1. messages[at] \in Seq(Message)
    BY <1>3, <1>7
  <2>2. /\ IdsIn(messages'[at]) =
             IdsIn(messages[at]) \cup ToSet(m.uses) \cup ToSet(m.results)
        /\ AllProper(messages[at]) => AllProper(messages'[at])
        /\ \A id : ResultsIn(messages'[at], id) = ResultsIn(messages[at], id)
        /\ \A i \in DOMAIN messages'[at] :
             \/ i \in DOMAIN messages[at] /\ messages'[at][i] = messages[at][i]
             \/ i \notin DOMAIN messages[at] /\ messages'[at][i] = m
    BY <1>6, <1>8, <2>1, Appended
  <2> QED
    BY <1>9, <2>2
<1>11. \A s \in Turn : \A id : ResultsIn(messages'[s], id) = ResultsIn(messages[s], id)
  BY <1>8, <1>10
<1>12. turn[t] \in Nat /\ turn[t] <= turn[t] /\ ~(turn[t] < turn[t])
  BY <1>3
<1>13. ASSUME NEW s \in Turn, NEW id \in ToSet(uses)
       PROVE  ResultsIn(messages[s], id) = {}
  <2>1. id \notin IdsIn(messages[s])
    <3>1. \A i \in IdsIn(messages[s]) : Owned(s, i)
      BY DEF PairsFit, SessionFits
    <3>2. ~Owned(s, id)
      BY <1>2, <1>4, <1>12 DEF Owned, Unanswered
    <3> QED
      BY <3>1, <3>2
  <2> QED
    BY <2>1, NoResult
<1>14. pc'[t] \in {"checking", "executing"}
  <2>1. pc \in [Turn -> Place]
    BY DEF Fits, TypeOK
  <2> QED
    BY <2>1 DEF Answer, Goto
<1>15. ASSUME NEW s \in Turn
       PROVE  SessionFits(s)'
  <2>1. SessionFits(s)
    BY DEF PairsFit
  <2>2. AllProper(messages'[s])
    BY <1>8, <1>10, <2>1 DEF SessionFits
  <2>3. \A id \in IdsIn(messages'[s]) : Owned(s, id)'
    <3>1. \A id \in IdsIn(messages[s]) : Owned(s, id)'
      BY <1>7, <2>1, IdsAre, OwnedStays DEF SessionFits
    <3>2. ASSUME NEW id \in ToSet(uses), s = at
          PROVE  Owned(s, id)'
      BY <1>2, <1>4, <1>12, <1>14, <3>2 DEF Owned, Unanswered, at
    <3>3. CASE s = at
      BY <1>10, <3>1, <3>2, <3>3
    <3>4. CASE s # at
      BY <1>8, <3>1, <3>4
    <3> QED
      BY <3>3, <3>4
  <2>4. AnsweredOnce(messages[s])'
    <3> SUFFICES ASSUME NEW i \in DOMAIN messages'[s], NEW id \in ToSet(messages'[s][i].uses),
                        \A u \in Turn : id \notin ToSet(calls'[u])
                 PROVE  \E a : ResultsIn(messages'[s], id) = {a} /\ a[1] > i
      BY DEF AnsweredOnce
    <3>1. i \in DOMAIN messages[s] /\ id \in ToSet(messages[s][i].uses)
      <4>1. id \notin ToSet(m.uses)
        BY <1>8, <1>9
      <4>2. CASE s = at
        BY <1>10, <4>1, <4>2
      <4>3. CASE s # at
        BY <1>8, <4>3
      <4> QED
        BY <4>2, <4>3
    <3>2. \A u \in Turn : id \notin ToSet(calls[u])
      BY <1>3, <1>8, <1>9
    <3>3. \E a : ResultsIn(messages[s], id) = {a} /\ a[1] > i
      BY <2>1, <3>1, <3>2 DEF SessionFits, AnsweredOnce
    <3> QED
      BY <1>11, <3>3
  <2> QED
    BY <2>2, <2>3, <2>4 DEF SessionFits
<1>16. ASSUME NEW u \in Turn
       PROVE  CallsFit(u)'
  <2>1. CASE u = t
    <3>1. \A id \in ToSet(uses) : ResultsIn(messages'[session'[t]], id) = {}
      BY <1>2, <1>3, <1>11, <1>13 DEF at
    <3> QED
      BY <1>2, <1>4, <1>8, <1>12, <2>1, <3>1 DEF CallsFit
  <2>2. CASE u # t
    <3>1. CallsFit(u) /\ calls'[u] = calls[u] /\ turn' = turn /\ session' = session
      BY <1>2, <1>8, <2>2 DEF PairsFit
    <3>2. calls[u] # <<>> => session[u] \in Turn
      <4>1. PlaceFits(u) /\ session[u] \in Turn \cup {None}
        BY DEF Fits, TypeOK
      <4> QED
        BY <4>1 DEF PlaceFits
    <3>3. ToSet(calls[u]) # {} => calls[u] # <<>>
      BY <1>9
    <3> QED
      BY <1>11, <3>1, <3>2, <3>3 DEF CallsFit
  <2> QED
    BY <2>1, <2>2
<1> QED
  BY <1>15, <1>16 DEF PairsFit

LEMMA TailGives ==
  ASSUME NEW S, NEW ids \in Seq(S), ids # <<>>
  PROVE  /\ Head(ids) \in S /\ Tail(ids) \in Seq(S)
         /\ ToSet(ids) = ToSet(Tail(ids)) \cup {Head(ids)}
         /\ IsInjective(ids) =>
              IsInjective(Tail(ids)) /\ Head(ids) \notin ToSet(Tail(ids))
<1> DEFINE n == Len(ids)
           rest == Tail(ids)
<1>1. /\ Head(ids) \in S /\ rest \in Seq(S) /\ Len(rest) = n - 1
      /\ \A i \in 1..Len(rest) : rest[i] = ids[i + 1]
  BY HeadTailProperties
<1>2. n \in Nat \ {0} /\ DOMAIN ids = 1..n /\ Head(ids) = ids[1]
  OBVIOUS
<1> HIDE DEF n, rest
<1>3. DOMAIN rest = 1..(n - 1)
  BY <1>1, <1>2
<1>4. /\ \A i \in DOMAIN rest : i + 1 \in DOMAIN ids /\ i + 1 # 1 /\ rest[i] = ids[i + 1]
      /\ \A i \in DOMAIN ids : i # 1 => i - 1 \in DOMAIN rest /\ (i - 1) + 1 = i
      /\ \A i, j \in DOMAIN rest : i + 1 = j + 1 => i = j
      /\ 1 \in DOMAIN ids
  BY <1>1, <1>2, <1>3
<1>5. ToSet(ids) = ToSet(rest) \cup {ids[1]}
  <2>1. ASSUME NEW i \in DOMAIN ids
        PROVE  ids[i] \in ToSet(rest) \cup {ids[1]}
    <3>1. CASE i = 1
      BY <3>1
    <3>2. CASE i # 1
      <4>1. i - 1 \in DOMAIN rest /\ rest[i - 1] = ids[i]
        BY <1>4, <3>2
      <4> QED
        BY <4>1 DEF ToSet
    <3> QED
      BY <3>1, <3>2
  <2>2. ASSUME NEW i \in DOMAIN rest
        PROVE  rest[i] \in ToSet(ids)
    BY <1>4 DEF ToSet
  <2>3. ids[1] \in ToSet(ids)
    BY <1>4 DEF ToSet
  <2> QED
    BY <2>1, <2>2, <2>3 DEF ToSet
<1>6. IsInjective(ids) => IsInjective(rest) /\ ids[1] \notin ToSet(rest)
  BY <1>4 DEF IsInjective, ToSet
<1> QED
  BY <1>1, <1>2, <1>5, <1>6 DEF rest

LEMMA PairsExecute ==
  ASSUME AgentAssumption, Fits, Fits', \A u \in Turn : Forward(u), PairsFit,
         NEW t \in Turn, Execute(t)
  PROVE  PairsFit'
<1>1. /\ pc[t] = "executing" /\ PlaceFits(t) /\ CallsFit(t)
      /\ messages \in [Turn -> Seq(Message)] /\ calls \in [Turn -> Seq(ToolUse)]
      /\ session[t] \in Turn \cup {None}
  BY DEF Execute, Fits, TypeOK, PairsFit
<1>2. calls[t] # <<>> /\ session[t] \in Turn
  BY <1>1 DEF PlaceFits
<1>3. PICK at \in Turn : at = session[t] /\ SessionFits(at)
  BY <1>2 DEF PairsFit
<1>4. PICK id0 \in ToolUse :
        /\ id0 = Head(calls[t]) /\ ToSet(calls[t]) = ToSet(Tail(calls[t])) \cup {id0}
        /\ IsInjective(Tail(calls[t])) /\ id0 \notin ToSet(Tail(calls[t]))
  BY <1>1, <1>2, TailGives DEF CallsFit
<1>5. /\ id0[1] = t /\ id0[2] <= turn[t] /\ ResultsIn(messages[at], id0) = {}
      /\ messages' = [messages EXCEPT ![at] = WithResult(messages[at], id0)]
      /\ calls' = [calls EXCEPT ![t] = Tail(calls[t])]
      /\ session' = session
  <2>1. id0[1] = t /\ id0[2] <= turn[t] /\ ResultsIn(messages[at], id0) = {}
    BY <1>1, <1>3, <1>4 DEF CallsFit
  <2>2. messages' = [messages EXCEPT ![at] = WithResult(messages[at], id0)]
    BY <1>3, <1>4 DEF Execute, add_tool_result, WithResult
  <2> QED
    BY <2>1, <2>2 DEF Execute, NextCalls, where
<1>6. /\ messages'[at] = WithResult(messages[at], id0)
      /\ \A s \in Turn \ {at} : messages'[s] = messages[s]
      /\ calls'[t] = Tail(calls[t]) /\ \A u \in Turn \ {t} : calls'[u] = calls[u]
  BY <1>1, <1>5
<1>7. /\ AllProper(messages'[at])
      /\ IdsIn(messages'[at]) \subseteq IdsIn(messages[at]) \cup {id0}
      /\ \A i \in DOMAIN messages'[at] : \A other \in ToSet(messages'[at][i].uses) :
           i \in DOMAIN messages[at] /\ other \in ToSet(messages[at][i].uses)
      /\ \A other : other # id0 =>
           ResultsIn(messages'[at], other) = ResultsIn(messages[at], other)
      /\ \E a : /\ ResultsIn(messages'[at], id0) = {a}
               /\ \A i \in DOMAIN messages[at] :
                    id0 \in ToSet(messages[at][i].uses) => a[1] > i
  <2>1. messages[at] \in Seq(Message) /\ AllProper(messages[at])
    BY <1>1, <1>3 DEF SessionFits
  <2> DEFINE new == WithResult(messages[at], id0)
  <2>2. /\ AllProper(new)
        /\ IdsIn(new) \subseteq IdsIn(messages[at]) \cup {id0}
        /\ \A i \in DOMAIN new : \A other \in ToSet(new[i].uses) :
             i \in DOMAIN messages[at] /\ other \in ToSet(messages[at][i].uses)
        /\ \A other : other # id0 =>
             ResultsIn(new, other) = ResultsIn(messages[at], other)
        /\ \E a : /\ ResultsIn(new, id0) = {a}
                 /\ \A i \in DOMAIN messages[at] :
                      id0 \in ToSet(messages[at][i].uses) => a[1] > i
    BY <1>5, <2>1, ResultJoined
  <2>3. messages'[at] = new
    BY <1>6
  <2> HIDE DEF new
  <2> QED
    BY <2>2, <2>3
<1>8. \A s \in Turn : \A other :
        other # id0 => ResultsIn(messages'[s], other) = ResultsIn(messages[s], other)
  BY <1>6, <1>7
<1>9. /\ turn[t] \in Nat /\ turn'[t] \in Nat /\ id0[2] \in Nat
      /\ Forward(t) /\ pc[t] \notin Unanswered
  <2>1. turn[t] \in 0..(MaxIterations + 1) /\ turn'[t] \in 0..(MaxIterations + 1)
    BY DEF Fits, TypeOK
  <2> QED
    BY <1>1, <1>4, <2>1, ToolUseParts DEF AgentAssumption, Unanswered
<1>10. Owned(at, id0)'
  <2>1. id0[2] <= turn'[t]
    BY <1>5, <1>9 DEF Forward
  <2>2. pc'[t] \in Unanswered => id0[2] < turn'[t]
    BY <1>5, <1>9 DEF Forward
  <2> QED
    BY <1>3, <1>5, <2>1, <2>2 DEF Owned
<1>11. ASSUME NEW s \in Turn
       PROVE  SessionFits(s)'
  <2>1. SessionFits(s)
    BY DEF PairsFit
  <2>2. AllProper(messages'[s])
    BY <1>6, <1>7, <2>1 DEF SessionFits
  <2>3. \A id \in IdsIn(messages'[s]) : Owned(s, id)'
    <3>1. messages[s] \in Seq(Message)
      BY <1>1
    <3>2. \A id \in IdsIn(messages[s]) : Owned(s, id)'
      BY <2>1, <3>1, IdsAre, OwnedStays DEF SessionFits
    <3>3. CASE s = at
      BY <1>7, <1>10, <3>2, <3>3
    <3>4. CASE s # at
      BY <1>6, <3>2, <3>4
    <3> QED
      BY <3>3, <3>4
  <2>4. AnsweredOnce(messages[s])'
    <3> SUFFICES ASSUME NEW i \in DOMAIN messages'[s], NEW id \in ToSet(messages'[s][i].uses),
                        \A u \in Turn : id \notin ToSet(calls'[u])
                 PROVE  \E a : ResultsIn(messages'[s], id) = {a} /\ a[1] > i
      BY DEF AnsweredOnce
    <3>1. i \in DOMAIN messages[s] /\ id \in ToSet(messages[s][i].uses)
      <4>1. CASE s = at
        BY <1>7, <4>1
      <4>2. CASE s # at
        BY <1>6, <4>2
      <4> QED
        BY <4>1, <4>2
    <3>2. CASE id = id0
      <4>1. id0 \in IdsIn(messages[s])
        BY <1>1, <3>1, <3>2, IdsAre
      <4>2. s = at
        BY <1>3, <1>5, <2>1, <4>1 DEF SessionFits, Owned
      <4> QED
        BY <1>7, <3>1, <3>2, <4>2
    <3>3. CASE id # id0
      <4>1. \A u \in Turn : id \notin ToSet(calls[u])
        BY <1>4, <1>6, <3>3
      <4>2. \E a : ResultsIn(messages[s], id) = {a} /\ a[1] > i
        BY <2>1, <3>1, <4>1 DEF SessionFits, AnsweredOnce
      <4> QED
        BY <1>8, <3>3, <4>2
    <3> QED
      BY <3>2, <3>3
  <2> QED
    BY <2>2, <2>3, <2>4 DEF SessionFits
<1>12. ASSUME NEW u \in Turn
       PROVE  CallsFit(u)'
  <2>1. CallsFit(u) /\ Forward(u) /\ calls[u] \in Seq(ToolUse)
    BY <1>1 DEF PairsFit
  <2>2. /\ IsInjective(calls'[u])
        /\ \A id \in ToSet(calls'[u]) : id \in ToSet(calls[u]) /\ id # id0
    <3>1. CASE u = t
      BY <1>4, <1>6, <3>1
    <3>2. CASE u # t
      BY <1>5, <1>6, <2>1, <3>2 DEF CallsFit
    <3> QED
      BY <3>1, <3>2
  <2>3. ASSUME NEW id \in ToSet(calls'[u])
        PROVE  id[1] = u /\ id[2] <= turn'[u] /\ ResultsIn(messages'[session'[u]], id) = {}
    <3>1. /\ id \in ToSet(calls[u]) /\ id # id0
          /\ id[1] = u /\ id[2] <= turn[u] /\ ResultsIn(messages[session[u]], id) = {}
      BY <2>1, <2>2 DEF CallsFit
    <3>2. session[u] \in Turn
      <4>1. calls[u] # <<>>
        BY <3>1 DEF ToSet
      <4>2. PlaceFits(u) /\ session[u] \in Turn \cup {None}
        BY DEF Fits, TypeOK
      <4> QED
        BY <4>1, <4>2 DEF PlaceFits
    <3>3. id[2] <= turn'[u]
      <4>1. id \in ToolUse
        BY <2>1, <3>1 DEF ToSet
      <4>2. turn[u] \in 0..(MaxIterations + 1) /\ turn'[u] \in 0..(MaxIterations + 1)
        BY DEF Fits, TypeOK
      <4>3. turn[u] <= turn'[u] /\ id[2] \in Nat
        BY <2>1, <4>1, ToolUseParts DEF Forward
      <4> QED
        BY <3>1, <4>2, <4>3 DEF AgentAssumption
    <3> QED
      BY <1>5, <1>8, <3>1, <3>2, <3>3
  <2> QED
    BY <2>2, <2>3 DEF CallsFit
<1> QED
  BY <1>11, <1>12 DEF PairsFit

LEMMA ContainsMeans ==
  ASSUME NEW S, NEW ids \in Seq(S), NEW id
  PROVE  Contains(ids, id) <=> id \in ToSet(ids)
<1>1. DOMAIN ids = 1..Len(ids)
  OBVIOUS
<1> QED
  BY <1>1 DEF Contains, ToSet

PairsInv == Fits /\ PairsFit /\ RequestsArePaired

LEMMA NothingPaired ==
  Paired(<<>>)
BY DEF Paired

LEMMA PairsInit ==
  ASSUME AgentAssumption, Init
  PROVE  PairsInv
<1>1. Fits
  BY FitsInit
<1>2. ASSUME NEW t \in Turn
      PROVE  CallsFit(t) /\ SessionFits(t) /\ Paired(request[t])
  <2>1. calls[t] = <<>> /\ messages[t] = <<>> /\ request[t] = <<>>
    BY DEF Init
  <2>2. ToSet(<<>>) = {} /\ IsInjective(<<>>)
    BY DEF ToSet, IsInjective
  <2>3. IdsIn(<<>>) = {} /\ AllProper(<<>>) /\ AnsweredOnce(<<>>)
    BY <2>2 DEF IdsIn, AllProper, AnsweredOnce
  <2> QED
    BY <2>1, <2>2, <2>3, NothingPaired DEF CallsFit, SessionFits
<1> QED
  BY <1>1, <1>2 DEF PairsInv, PairsFit, RequestsArePaired

(* What the steps of a turn leave to the conversations.                      *)
LEMMA QuietSteps ==
  ASSUME NEW t \in Turn,
         drain_pending_input(t) \/ stream_llm_response(t) \/ Fail(t) \/ Aborted(t)
         \/ CheckInput(t) \/ TakeFollowUps(t) \/ Follow(t) \/ FollowInput(t)
         \/ Finish(t)
  PROVE  messages' = messages /\ calls' = calls
BY DEF drain_pending_input, stream_llm_response, Fail, Aborted, EndCall,
   CheckInput, TakeFollowUps, Follow, FollowInput, Finish, sessions, loop

LEMMA SayingSteps ==
  ASSUME AgentAssumption, Fits, NEW t \in Turn,
         Begin(t) \/ Inject(t) \/ AddFollowUp(t)
  PROVE  /\ calls' = calls /\ request' = request
         /\ \E s \in Turn, text \in Text :
              /\ add_user_message(s, text)
              /\ messages'[s] = Append(messages[s], UserText(text))
              /\ \A r \in Turn \ {s} : messages'[r] = messages[r]
<1>1. ASSUME NEW s \in Turn, NEW text \in Text, add_user_message(s, text)
      PROVE  /\ messages'[s] = Append(messages[s], UserText(text))
             /\ \A r \in Turn \ {s} : messages'[r] = messages[r]
  BY <1>1 DEF add_user_message, Fits, TypeOK
<1>2. CASE Begin(t)
  <2> DEFINE s == IF registry[key[t]] = None THEN t ELSE registry[key[t]]
  <2>1. s \in Turn /\ t \in Text /\ add_user_message(s, t)
    BY <1>2, FitsTypes DEF Begin, Types, Text
  <2>2. calls' = calls /\ request' = request
    BY <1>2 DEF Begin
  <2> HIDE DEF s
  <2> QED
    BY <1>1, <2>1, <2>2
<1>3. CASE Inject(t) \/ AddFollowUp(t)
  <2>1. /\ pc[t] \in {"injecting", "following"} /\ taken[t] # <<>>
        /\ add_user_message(session[t], Head(taken[t]))
        /\ calls' = calls /\ request' = request
    BY <1>3 DEF Inject, AddFollowUp, Fits, PlaceFits
  <2>2. Head(taken[t]) \in Text
    BY <2>1, FitsTypes, HeadTailProperties DEF Types, Wished, Text
  <2>3. session[t] \in Turn
    BY <2>1, FitsTypes DEF Fits, PlaceFits, Types
  <2> QED
    BY <1>1, <2>1, <2>2, <2>3
<1> QED
  BY <1>2, <1>3

LEMMA RequestSteps ==
  ASSUME AgentAssumption, PairsInv, Next
  PROVE  RequestsArePaired' /\ request' \in [Turn -> Seq(Message)]
<1>1. /\ request \in [Turn -> Seq(Message)] /\ \A t \in Turn : Paired(request[t])
      /\ \A s \in Turn : messages[s] \in Seq(Message) /\ AllProper(messages[s])
  BY FitsTypes DEF PairsInv, Types, RequestsArePaired, PairsFit, SessionFits
<1>2. ASSUME NEW t \in Turn, NEW new \in Seq(Message), Paired(new),
             request' = [request EXCEPT ![t] = new]
      PROVE  RequestsArePaired' /\ request' \in [Turn -> Seq(Message)]
  BY <1>1, <1>2 DEF RequestsArePaired
<1>3. CASE request' = request
  BY <1>1, <1>3 DEF RequestsArePaired
<1>4. ASSUME NEW t \in Turn, run_turn(t)
      PROVE  RequestsArePaired' /\ request' \in [Turn -> Seq(Message)]
  <2>1. CASE stream_llm_response(t)
    <3>1. /\ pc[t] = "requesting"
          /\ request' = [request EXCEPT ![t] =
                           validate_and_heal_messages(messages[session[t]])]
      BY <2>1 DEF stream_llm_response
    <3>2. session[t] \in Turn
      BY <3>1, FitsTypes DEF PairsInv, Fits, PlaceFits, Types
    <3> QED
      BY <1>1, <1>2, <3>1, <3>2, ProperMendable, HealingPairs
  <2>2. CASE Fail(t) \/ Aborted(t) \/ Answer(t)
    <3>1. request' = [request EXCEPT ![t] = <<>>] /\ <<>> \in Seq(Message)
      BY <2>2 DEF Fail, Aborted, EndCall, Answer
    <3> QED
      BY <1>2, <3>1, NothingPaired
  <2>3. CASE \/ Begin(t) \/ Inject(t) \/ drain_pending_input(t) \/ CheckInput(t)
             \/ Execute(t) \/ TakeFollowUps(t) \/ AddFollowUp(t) \/ Follow(t)
             \/ FollowInput(t) \/ Finish(t)
    BY <1>3, <2>3 DEF Begin, Inject, drain_pending_input, CheckInput, Execute,
       TakeFollowUps, AddFollowUp, Follow, FollowInput, Finish, loop
  <2> QED
    BY <1>4, <2>1, <2>2, <2>3 DEF run_turn
<1>5. CASE Clients
  BY <1>3, <1>5 DEF Clients, handle_chat_send, handle_chat_abort,
     handle_sessions_delete, steer, QueueFollowUp, abort, loop
<1> QED
  BY <1>4, <1>5 DEF Next

LEMMA TurnSteps ==
  ASSUME AgentAssumption, PairsInv, NEW t \in Turn, run_turn(t)
  PROVE  /\ Fits' /\ \A u \in Turn : Forward(u)
         /\ \A u \in Turn \ {t} : Same(u)
<1>0. Fits
  BY DEF PairsInv
<1>1. CASE Begin(t)
  BY <1>0, <1>1, FitsBegin
<1>2. CASE Inject(t) \/ AddFollowUp(t)
  BY <1>0, <1>2, FitsAdd
<1>3. CASE \/ drain_pending_input(t) \/ stream_llm_response(t) \/ Fail(t)
           \/ Aborted(t) \/ Finish(t)
  <2>1. request' \in [Turn -> Seq(Message)]
    BY RequestSteps DEF Next
  <2> QED
    BY <1>0, <1>3, <2>1, FitsAsk
<1>4. CASE Answer(t)
  BY <1>0, <1>4, FitsAnswer
<1>5. CASE CheckInput(t) \/ Follow(t) \/ FollowInput(t)
  BY <1>0, <1>5, FitsLoops
<1>6. CASE TakeFollowUps(t)
  BY <1>0, <1>6, FitsTakeFollowUps
<1>7. CASE Execute(t)
  BY <1>0, <1>7, FitsExecute
<1> QED
  BY <1>1, <1>2, <1>3, <1>4, <1>5, <1>6, <1>7 DEF run_turn

LEMMA PairsNext ==
  ASSUME AgentAssumption, PairsInv, [Next]_vars
  PROVE  PairsInv' /\ \A u \in Turn : Forward(u)
<1>0. Fits /\ PairsFit /\ RequestsArePaired
  BY DEF PairsInv
<1>1. CASE UNCHANGED vars
  <2> USE DEF vars, sessions, queues, outside, where, loop
  <2>1. \A u \in Turn : Same(u)
    BY <1>1 DEF Same
  <2>2. Types'
    BY <1>0, <1>1, FitsTypes DEF Types
  <2>3. Fits' /\ \A u \in Turn : Forward(u)
    BY <1>0, <2>1, <2>2, AllSame
  <2>4. PairsFit'
    BY <1>0, <1>1, <2>3, PairsStay
  <2>5. RequestsArePaired'
    BY <1>0, <1>1 DEF RequestsArePaired
  <2> QED
    BY <2>3, <2>4, <2>5 DEF PairsInv
<1>2. CASE Next
  <2>1. RequestsArePaired' /\ request' \in [Turn -> Seq(Message)]
    BY <1>2, RequestSteps
  <2>2. Fits' /\ \A u \in Turn : Forward(u)
    <3>1. ASSUME NEW t \in Turn, run_turn(t)
          PROVE  Fits' /\ \A u \in Turn : Forward(u)
      BY <3>1, TurnSteps
    <3>2. CASE Clients
      BY <1>0, <3>2, FitsClients
    <3> QED
      BY <1>2, <3>1, <3>2 DEF Next
  <2>3. PairsFit'
    <3>1. ASSUME NEW t \in Turn, run_turn(t)
          PROVE  PairsFit'
      <4>1. CASE Begin(t) \/ Inject(t) \/ AddFollowUp(t)
        <5>1. /\ calls' = calls
              /\ \E s \in Turn, text \in Text :
                   /\ messages'[s] = Append(messages[s], UserText(text))
                   /\ \A r \in Turn \ {s} : messages'[r] = messages[r]
          BY <1>0, <4>1, SayingSteps
        <5> QED
          BY <1>0, <2>2, <5>1, PairsStay
      <4>2. CASE \/ drain_pending_input(t) \/ stream_llm_response(t) \/ Fail(t)
                 \/ Aborted(t) \/ CheckInput(t) \/ TakeFollowUps(t) \/ Follow(t)
                 \/ FollowInput(t) \/ Finish(t)
        <5>1. messages' = messages /\ calls' = calls
          BY <4>2, QuietSteps
        <5> QED
          BY <1>0, <2>2, <5>1, PairsStay
      <4>3. CASE Answer(t)
        BY <1>0, <2>2, <4>3, PairsAnswer
      <4>4. CASE Execute(t)
        BY <1>0, <2>2, <4>4, PairsExecute
      <4> QED
        BY <3>1, <4>1, <4>2, <4>3, <4>4 DEF run_turn
    <3>2. CASE Clients
      <4>1. messages' = messages /\ calls' = calls
        BY <3>2 DEF Clients, handle_chat_send, handle_chat_abort,
           handle_sessions_delete, steer, QueueFollowUp, abort, loop, sessions
      <4> QED
        BY <1>0, <2>2, <4>1, PairsStay
    <3> QED
      BY <1>2, <3>1, <3>2 DEF Next
  <2> QED
    BY <2>1, <2>2, <2>3 DEF PairsInv
<1> QED
  BY <1>1, <1>2

LEMMA PairsHold ==
  Spec => []PairsInv
<1>1. Init => PairsInv
  BY AgentAssumption, PairsInit
<1>2. PairsInv /\ [Next]_vars => PairsInv'
  BY AgentAssumption, PairsNext
<1> QED
  BY <1>1, <1>2, PTL DEF Spec

LEMMA PairsGive ==
  ASSUME AgentAssumption, PairsInv
  PROVE  UsesPaired
<1>1. Fits /\ PairsFit /\ RequestsArePaired /\ TypeOK
  BY DEF PairsInv, Fits
<1>2. ASSUME NEW s \in Turn, NEW i \in DOMAIN messages[s],
             NEW id \in ToSet(messages[s][i].uses)
      PROVE  IF \E t \in Turn : Contains(calls[t], id)
               THEN ResultsOf(s, id) = {}
               ELSE \E at \in ResultsOf(s, id) :
                      ResultsOf(s, id) = {at} /\ at[1] > i
  <2>1. ResultsOf(s, id) = ResultsIn(messages[s], id)
    BY DEF ResultsOf, ResultsIn
  <2>2. \A t \in Turn : Contains(calls[t], id) <=> id \in ToSet(calls[t])
    BY <1>1, ContainsMeans DEF TypeOK
  <2>3. SessionFits(s) /\ messages[s] \in Seq(Message)
    BY <1>1 DEF PairsFit, TypeOK
  <2>4. Owned(s, id)
    BY <2>3, IdsAre DEF SessionFits
  <2>5. ASSUME NEW t \in Turn, id \in ToSet(calls[t])
        PROVE  ResultsIn(messages[s], id) = {}
    <3>1. id[1] = t /\ ResultsIn(messages[session[t]], id) = {}
      BY <1>1, <2>5 DEF PairsFit, CallsFit
    <3> QED
      BY <2>4, <3>1 DEF Owned
  <2>6. (\A t \in Turn : id \notin ToSet(calls[t])) =>
          \E at : ResultsIn(messages[s], id) = {at} /\ at[1] > i
    BY <2>3 DEF SessionFits, AnsweredOnce
  <2> QED
    BY <2>1, <2>2, <2>5, <2>6
<1> QED
  BY <1>1, <1>2 DEF UsesPaired, UsesHaveResults

(* Every variable keeps its type; a turn that has begun has a session.       *)
THEOREM TypesHold ==
  Spec => []TypeOK
<1>1. PairsInv => TypeOK
  BY DEF PairsInv, Fits
<1> QED
  BY <1>1, PairsHold, PTL

(* Every request has each tool use answered once, in the message after it,   *)
(* and every tool use of a session has one result behind it, unless its turn *)
(* is still to execute or skip it: whatever texts and results other turns of *)
(* the session add in between.                                               *)
THEOREM UsesPairedHolds ==
  Spec => []UsesPaired
<1>1. PairsInv => UsesPaired
  BY AgentAssumption, PairsGive
<1> QED
  BY <1>1, PairsHold, PTL

-----------------------------------------------------------------------------
(* The texts of a session.                                                   *)

LEMMA TextSteps ==
  ASSUME AgentAssumption, PairsInv, NEW t \in Turn, run_turn(t)
  PROVE  \/ /\ Begin(t) \/ Inject(t) \/ AddFollowUp(t)
            /\ \E s \in Turn, text \in Text :
                 /\ add_user_message(s, text)
                 /\ session'[t] = s /\ TextsIn(messages'[s]) = TextsIn(messages[s]) \cup {text}
                 /\ \A r \in Turn \ {s} : messages'[r] = messages[r]
                 /\ text = IF Begin(t) THEN t ELSE Head(taken[t])
         \/ /\ ~(Begin(t) \/ Inject(t) \/ AddFollowUp(t))
            /\ \A s \in Turn : TextsIn(messages'[s]) = TextsIn(messages[s])
<1>1. Fits /\ \A s \in Turn : messages[s] \in Seq(Message)
  BY FitsTypes DEF PairsInv, Types
<1>2. ASSUME NEW s \in Turn, NEW text \in Text, add_user_message(s, text)
      PROVE  /\ TextsIn(messages'[s]) = TextsIn(messages[s]) \cup {text}
             /\ \A r \in Turn \ {s} : messages'[r] = messages[r]
  <2> DEFINE m == UserText(text)
  <2>1. /\ messages'[s] = Append(messages[s], m)
        /\ \A r \in Turn \ {s} : messages'[r] = messages[r]
    BY <1>1, <1>2 DEF add_user_message, Fits, TypeOK
  <2>2. m \in Message /\ m.texts = {text}
    BY NewMessages DEF UserText
  <2> HIDE DEF m
  <2>3. TextsIn(Append(messages[s], m)) = TextsIn(messages[s]) \cup m.texts
    BY <1>1, <2>2, Appended
  <2> QED
    BY <2>1, <2>2, <2>3
<1>3. CASE Begin(t)
  <2> DEFINE s == IF registry[key[t]] = None THEN t ELSE registry[key[t]]
  <2>1. /\ s \in Turn /\ t \in Text /\ add_user_message(s, t)
        /\ session' = [session EXCEPT ![t] = s]
    BY <1>3, <1>1, FitsTypes DEF Begin, Types, Text
  <2> HIDE DEF s
  <2>2. session'[t] = s
    BY <1>1, <2>1 DEF Fits, TypeOK
  <2> QED
    BY <1>2, <1>3, <2>1, <2>2
<1>4. CASE ~Begin(t) /\ (Inject(t) \/ AddFollowUp(t))
  <2>1. /\ pc[t] \in {"injecting", "following"} /\ taken[t] # <<>>
        /\ add_user_message(session[t], Head(taken[t])) /\ session' = session
    BY <1>1, <1>4 DEF Inject, AddFollowUp, Fits, PlaceFits, where
  <2>2. Head(taken[t]) \in Text
    BY <1>1, <2>1, FitsTypes, HeadTailProperties DEF Types, Wished, Text
  <2>3. session[t] \in Turn
    BY <1>1, <2>1, FitsTypes DEF Fits, PlaceFits, Types
  <2> QED
    BY <1>2, <1>4, <2>1, <2>2, <2>3
<1>5. CASE ~(Begin(t) \/ Inject(t) \/ AddFollowUp(t))
  <2>1. CASE \/ drain_pending_input(t) \/ stream_llm_response(t) \/ Fail(t)
             \/ Aborted(t) \/ CheckInput(t) \/ TakeFollowUps(t) \/ Follow(t)
             \/ FollowInput(t) \/ Finish(t)
    BY <1>5, <2>1, QuietSteps
  <2>2. CASE Answer(t)
    <3>1. PICK m \in Message :
            messages' = [messages EXCEPT ![session[t]] = Append(@, m)] /\ m.texts = {}
      <4>1. PICK n \in ToolCounts :
              LET uses == [i \in 1..n |-> <<t, turn[t], i>>]
                  message == IF n = 0 THEN AssistantText ELSE AssistantWithTools(uses)
              IN  messages' = [messages EXCEPT ![session[t]] = Append(@, message)]
        BY <2>2 DEF Answer
      <4> DEFINE uses == [i \in 1..n |-> <<t, turn[t], i>>]
                 m == IF n = 0 THEN AssistantText ELSE AssistantWithTools(uses)
      <4>2. uses \in Seq(ToolUse)
        <5>1. pc[t] = "calling" /\ PlaceFits(t)
          BY <1>1, <2>2 DEF Answer, Fits
        <5>2. n \in Nat /\ \A i \in 1..n : <<t, turn[t], i>> \in ToolUse
          BY <5>1 DEF PlaceFits, Begun, ToolUse, AgentAssumption
        <5>3. uses \in [1..n -> ToolUse]
          BY <5>2
        <5> HIDE DEF uses
        <5> QED
          BY <5>2, <5>3
      <4> HIDE DEF uses
      <4>3. m \in Message /\ m.texts = {}
        BY <4>2, NewMessages DEF AssistantText, AssistantWithTools
      <4>4. messages' = [messages EXCEPT ![session[t]] = Append(@, m)]
        BY <4>1 DEF uses
      <4> HIDE DEF m
      <4>5. m \in Message
        BY <4>3
      <4> WITNESS m \in Message
      <4> QED
        BY <4>3, <4>4
    <3>2. session[t] \in Turn
      <4>1. pc[t] = "calling"
        BY <2>2 DEF Answer
      <4> QED
        BY <1>1, <4>1, FitsTypes DEF Fits, PlaceFits, Types
    <3>3. TextsIn(Append(messages[session[t]], m)) = TextsIn(messages[session[t]]) \cup m.texts
      BY <1>1, <3>2, Appended
    <3>4. /\ messages'[session[t]] = Append(messages[session[t]], m)
          /\ \A s \in Turn : s # session[t] => messages'[s] = messages[s]
      BY <1>1, <3>1, <3>2 DEF Fits, TypeOK
    <3>5. ASSUME NEW s \in Turn
          PROVE  TextsIn(messages'[s]) = TextsIn(messages[s])
      BY <3>1, <3>3, <3>4
    <3> QED
      BY <1>5, <3>5
  <2>3. CASE Execute(t)
    <3>1. /\ pc[t] = "executing"
          /\ messages' = [messages EXCEPT ![session[t]] =
                            WithResult(messages[session[t]], Head(calls[t]))]
      BY <2>3 DEF Execute, add_tool_result, WithResult
    <3>2. session[t] \in Turn /\ calls[t] # <<>> /\ calls[t] \in Seq(ToolUse)
      BY <1>1, <3>1, FitsTypes DEF Fits, PlaceFits, Types
    <3>3. Head(calls[t]) \in ToolUse /\ Head(calls[t]) \in ToSet(calls[t])
      BY <3>2, TailGives
    <3>4. /\ AllProper(messages[session[t]])
          /\ ResultsIn(messages[session[t]], Head(calls[t])) = {}
      BY <3>2, <3>3 DEF PairsInv, PairsFit, SessionFits, CallsFit
    <3>5. TextsIn(WithResult(messages[session[t]], Head(calls[t]))) =
            TextsIn(messages[session[t]])
      BY <1>1, <3>2, <3>3, <3>4, ResultJoined
    <3>6. /\ messages'[session[t]] = WithResult(messages[session[t]], Head(calls[t]))
          /\ \A s \in Turn : s # session[t] => messages'[s] = messages[s]
      BY <1>1, <3>1, <3>2 DEF Fits, TypeOK
    <3>7. ASSUME NEW s \in Turn
          PROVE  TextsIn(messages'[s]) = TextsIn(messages[s])
      BY <3>5, <3>6
    <3> QED
      BY <1>5, <3>7
  <2> QED
    BY <1>5, <2>1, <2>2, <2>3 DEF run_turn
<1> QED
  BY <1>3, <1>4, <1>5

LEMMA ClientTexts ==
  ASSUME Clients
  PROVE  messages' = messages /\ pending' = pending /\ answered' = answered
         /\ request' = request /\ taken' = taken /\ turn' = turn /\ session' = session
BY DEF Clients, handle_chat_send, handle_chat_abort, handle_sessions_delete,
   steer, QueueFollowUp, abort, sessions, where, loop

-----------------------------------------------------------------------------
(* Every text that has no answer is one that some turn of the session still  *)
(* has to ask about, or one left behind by a turn that ended badly.          *)

Busy(t) ==
  \/ pc[t] \in {"slept", "failed", "aborted", "injecting", "asking", "requesting",
                "executing", "following"}
  \/ Limited(t)

Owes(t, x) ==
  \/ Busy(t)
  \/ pc[t] = "calling" /\ x \in Asked(t)
  \/ pc[t] \in {"calling", "checking", "stopping"} /\ pending[session[t]] > 0

AnswersFit ==
  \A s \in Turn : \A x \in TextsIn(messages[s]) \ answered[s] :
    \E t \in Turn : session[t] = s /\ Owes(t, x)

LEMMA SameOwes ==
  ASSUME NEW u \in Turn, NEW x, Same(u), pending'[session[u]] = pending[session[u]],
         Owes(u, x)
  PROVE  Owes(u, x)'
BY DEF Same, Owes, Busy, Limited, Asked

(* A turn that has everything in its session still before it.                *)
LEMMA BusyStep ==
  ASSUME AgentAssumption, AnswersFit, NEW t \in Turn, NEW at \in Turn,
         \A u \in Turn : Forward(u), \A u \in Turn \ {t} : Same(u),
         session'[t] = at, Busy(t)', answered' = answered,
         \A s \in Turn \ {at} :
           TextsIn(messages'[s]) = TextsIn(messages[s]) /\ pending'[s] = pending[s]
  PROVE  AnswersFit'
<1> SUFFICES ASSUME NEW s \in Turn, NEW x \in TextsIn(messages'[s]) \ answered'[s]
             PROVE  \E u \in Turn : session'[u] = s /\ Owes(u, x)'
  BY DEF AnswersFit
<1>1. CASE s = at
  BY <1>1 DEF Owes
<1>2. CASE s # at
  <2>1. PICK u \in Turn : session[u] = s /\ Owes(u, x)
    BY <1>2 DEF AnswersFit
  <2>2. u # t
    <3>1. s # None /\ Forward(t)
      BY DEF AgentAssumption
    <3> QED
      BY <1>2, <2>1, <3>1 DEF Forward
  <2>3. Same(u) /\ pending'[session[u]] = pending[session[u]]
    BY <1>2, <2>1, <2>2
  <2>4. Owes(u, x)'
    BY <2>1, <2>3, SameOwes
  <2> QED
    BY <2>1, <2>3, <2>4 DEF Same
<1> QED
  BY <1>1, <1>2

(* A turn that goes on after an answer, or with what it has asked.           *)
LEMMA PlainStep ==
  ASSUME AnswersFit, NEW t \in Turn, \A u \in Turn \ {t} : Same(u),
         session'[t] = session[t], pending' = pending,
         \A s \in Turn : /\ TextsIn(messages'[s]) = TextsIn(messages[s])
                        /\ answered[s] \subseteq answered'[s],
         \A x : session[t] \in Turn /\ Owes(t, x)
                /\ x \in TextsIn(messages[session[t]]) \ answered[session[t]] =>
                Owes(t, x)' \/ x \in answered'[session[t]]
  PROVE  AnswersFit'
<1> SUFFICES ASSUME NEW s \in Turn, NEW x \in TextsIn(messages'[s]) \ answered'[s]
             PROVE  \E u \in Turn : session'[u] = s /\ Owes(u, x)'
  BY DEF AnswersFit
<1>1. x \in TextsIn(messages[s]) \ answered[s]
  OBVIOUS
<1>2. PICK u \in Turn : session[u] = s /\ Owes(u, x)
  BY <1>1 DEF AnswersFit
<1>3. CASE u = t
  <2>1. Owes(t, x)'
    BY <1>1, <1>2, <1>3
  <2> QED
    BY <1>2, <1>3, <2>1
<1>4. CASE u # t
  <2>1. Same(u)
    BY <1>4
  <2>2. Owes(u, x)'
    BY <1>2, <2>1, SameOwes
  <2> QED
    BY <1>2, <2>1, <2>2 DEF Same
<1> QED
  BY <1>3, <1>4

(* Each action that goes through the head of the inner loop.                 *)
LEMMA LoopSteps ==
  ASSUME AgentAssumption, Fits, NEW t \in Turn
  PROVE  /\ Begin(t) => \/ pc'[t] = "slept" /\ taken'[t] = taken[t]
                            /\ turn'[t] = turn[t] /\ steering' = steering
                        \/ Enters(t, TRUE, steering) /\ steering' = <<>>
         /\ CheckInput(t) => Enters(t, pending[session[t]] > 0, steering) /\ steering' = <<>>
         /\ Follow(t) \/ FollowInput(t) => Enters(t, TRUE, steering) /\ steering' = <<>>
         /\ Execute(t) =>
              \/ /\ Tail(calls[t]) # <<>> /\ pc'[t] = "executing"
                 /\ turn'[t] = turn[t] /\ taken'[t] = Steered(t)
              \/ Enters(t, TRUE, Steered(t))
<1> USE FitsTypes
<1>1. steering \in Seq(Wished) /\ taken[t] \in Seq(Wished)
  BY DEF Types, Wished
<1>2. ASSUME NEW has_more \in BOOLEAN, DrainAndLoop(t, has_more)
      PROVE  Enters(t, has_more, steering) /\ steering' = <<>>
  BY <1>1, <1>2, LoopEnters DEF DrainAndLoop
<1>3. ASSUME Begin(t)
      PROVE  \/ pc'[t] = "slept" /\ taken'[t] = taken[t]
                /\ turn'[t] = turn[t] /\ steering' = steering
             \/ Enters(t, TRUE, steering) /\ steering' = <<>>
  <2> DEFINE s == IF registry[key[t]] = None THEN t ELSE registry[key[t]]
  <2>1. IF Len(messages[s]) + 1 > SleepAt
          THEN Goto(t, "slept") /\ UNCHANGED <<steering, turn, taken>>
          ELSE DrainAndLoop(t, TRUE)
    BY <1>3 DEF Begin
  <2> HIDE DEF s
  <2>2. Goto(t, "slept") => pc'[t] = "slept"
    BY DEF Goto, Types
  <2> QED
    BY <1>2, <2>1, <2>2
<1>4. ASSUME CheckInput(t)
      PROVE  Enters(t, pending[session[t]] > 0, steering) /\ steering' = <<>>
  <2>1. DrainAndLoop(t, pending[session[t]] > 0)
    BY <1>4 DEF CheckInput
  <2>2. (pending[session[t]] > 0) \in BOOLEAN
    OBVIOUS
  <2> QED
    BY <1>2, <2>1, <2>2, Zenon
<1>5. ASSUME Follow(t) \/ FollowInput(t)
      PROVE  Enters(t, TRUE, steering) /\ steering' = <<>>
  BY <1>2, <1>5 DEF Follow, FollowInput, EnterAgain
<1>6. ASSUME Execute(t)
      PROVE  \/ /\ Tail(calls[t]) # <<>> /\ pc'[t] = "executing"
                /\ turn'[t] = turn[t] /\ taken'[t] = Steered(t)
             \/ Enters(t, TRUE, Steered(t))
  <2>1. Steered(t) \in Seq(Wished)
    BY <1>1 DEF Steered
  <2>2. CASE Tail(calls[t]) = <<>>
    <3>1. Loop(t, TRUE, Steered(t))
      BY <1>6, <2>2 DEF Execute, NextCalls
    <3> QED
      BY <2>1, <3>1, LoopEnters
  <2>3. CASE Tail(calls[t]) # <<>>
    BY <1>6, <2>3 DEF Execute, NextCalls, Types
  <2> QED
    BY <2>2, <2>3
<1> QED
  BY <1>3, <1>4, <1>5, <1>6

LEMMA EntersBusy ==
  ASSUME NEW t \in Turn, NEW texts, Enters(t, TRUE, texts)
  PROVE  Busy(t)'
BY DEF Enters, Busy, Limited

LEMMA AnswersTurn ==
  ASSUME AgentAssumption, PairsInv, AnswersFit, NEW t \in Turn, run_turn(t)
  PROVE  AnswersFit'
<1>1. /\ Fits /\ \A u \in Turn : Forward(u)
      /\ \A u \in Turn \ {t} : Same(u)
  BY TurnSteps DEF PairsInv
<1>2. /\ pc \in [Turn -> Place] /\ pending \in [Turn -> Nat]
      /\ session[t] \in Turn \cup {None} /\ PlaceFits(t)
      /\ answered \in [Turn -> SUBSET Text] /\ request \in [Turn -> Seq(Message)]
      /\ \A s \in Turn : messages[s] \in Seq(Message)
  BY <1>1, FitsTypes DEF Types, Fits
<1>3. CASE Begin(t) \/ Inject(t) \/ AddFollowUp(t)
  <2>1. PICK s \in Turn : \E text \in Text :
          /\ add_user_message(s, text) /\ session'[t] = s
          /\ \A r \in Turn \ {s} : messages'[r] = messages[r]
    BY <1>3, TextSteps
  <2>2. \A r \in Turn \ {s} : pending'[r] = pending[r]
    BY <1>2, <2>1 DEF add_user_message
  <2>3. answered' = answered
    BY <1>3 DEF Begin, Inject, AddFollowUp
  <2>4. Busy(t)'
    <3>1. CASE Begin(t)
      <4>1. CASE pc'[t] = "slept"
        BY <4>1 DEF Busy
      <4>2. CASE Enters(t, TRUE, steering)
        BY <4>2, EntersBusy
      <4> QED
        BY <1>1, <3>1, <4>1, <4>2, LoopSteps
    <3>2. CASE Inject(t)
      <4>1. pc[t] = "injecting" /\ (pc'[t] = "asking" \/ pc'[t] = pc[t])
        BY <1>2, <3>2 DEF Inject, Goto
      <4> QED
        BY <4>1 DEF Busy
    <3>3. CASE AddFollowUp(t)
      BY <3>3 DEF AddFollowUp, Busy
    <3> QED
      BY <1>3, <3>1, <3>2, <3>3
  <2> QED
    BY <1>1, <2>1, <2>2, <2>3, <2>4, BusyStep
<1>4. ASSUME ~(Begin(t) \/ Inject(t) \/ AddFollowUp(t))
      PROVE  \A s \in Turn : TextsIn(messages'[s]) = TextsIn(messages[s])
  BY <1>4, TextSteps
<1>5. ASSUME ~(Begin(t) \/ Inject(t) \/ AddFollowUp(t)),
             session[t] \in Turn, session' = session, answered' = answered, Busy(t)',
             \A s \in Turn \ {session[t]} : pending'[s] = pending[s]
      PROVE  AnswersFit'
  BY <1>1, <1>4, <1>5, BusyStep
<1>6. ASSUME ~(Begin(t) \/ Inject(t) \/ AddFollowUp(t)),
             session' = session, pending' = pending,
             \A s \in Turn : answered[s] \subseteq answered'[s],
             \A x : session[t] \in Turn /\ Owes(t, x)
                    /\ x \in TextsIn(messages[session[t]]) \ answered[session[t]] =>
                    Owes(t, x)' \/ x \in answered'[session[t]]
      PROVE  AnswersFit'
  BY <1>1, <1>4, <1>6, PlainStep
<1>7. CASE ~(Begin(t) \/ Inject(t) \/ AddFollowUp(t))
  <2>0. /\ pc[t] \notin {"unsent", "sent"} /\ session' = session /\ session[t] \in Turn
    <3>1. pc[t] \notin {"unsent", "sent"}
      BY <1>7 DEF run_turn, drain_pending_input, stream_llm_response, Fail, Aborted,
         EndCall, Answer, CheckInput, Execute, TakeFollowUps, Follow, FollowInput, Finish
    <3>2. session' = session
      BY <1>7 DEF run_turn, drain_pending_input, stream_llm_response, Fail, Aborted,
         EndCall, Answer, CheckInput, Execute, TakeFollowUps, Follow, FollowInput, Finish,
         where
    <3> QED
      BY <1>2, <3>1, <3>2 DEF PlaceFits
  <2>1. CASE drain_pending_input(t)
    <3>1. pc'[t] = "requesting" /\ answered' = answered
      BY <1>2, <2>1 DEF drain_pending_input, Goto
    <3>2. \A s \in Turn \ {session[t]} : pending'[s] = pending[s]
      BY <1>2, <2>1 DEF drain_pending_input
    <3> QED
      BY <1>5, <1>7, <2>0, <3>1, <3>2 DEF Busy
  <2>2. CASE stream_llm_response(t)
    <3>1. /\ pc[t] = "requesting" /\ pc'[t] = "calling" /\ pending' = pending
          /\ answered' = answered
          /\ request'[t] = validate_and_heal_messages(messages[session[t]])
      BY <1>2, <2>2 DEF stream_llm_response, Goto, sessions
    <3>2. AllProper(messages[session[t]])
      BY <2>0 DEF PairsInv, PairsFit, SessionFits
    <3>3. TextsIn(messages[session[t]]) \subseteq
            TextsIn(validate_and_heal_messages(messages[session[t]]))
      BY <1>2, <2>0, <3>2, ProperMendable, HealingPairs DEF TextsIn
    <3>4. Asked(t)' = TextsIn(validate_and_heal_messages(messages[session[t]]))
      BY <3>1 DEF Asked, TextsIn
    <3>5. ASSUME NEW x \in TextsIn(messages[session[t]])
          PROVE  Owes(t, x)'
      BY <3>1, <3>3, <3>4 DEF Owes
    <3> QED
      BY <1>6, <1>7, <2>0, <3>1, <3>5
  <2>3. CASE Fail(t) \/ Aborted(t)
    <3>1. pc'[t] \in {"failed", "aborted"} /\ answered' = answered /\ pending' = pending
      BY <1>2, <2>3 DEF Fail, Aborted, EndCall, Goto, sessions
    <3> QED
      BY <1>5, <1>7, <2>0, <3>1 DEF Busy
  <2>4. CASE Answer(t)
    <3>1. /\ pc[t] = "calling" /\ pending' = pending /\ turn' = turn
          /\ answered' = [answered EXCEPT ![session[t]] = @ \cup Asked(t)]
          /\ pc'[t] \in {"checking", "executing"}
      BY <1>2, <2>4 DEF Answer, Goto
    <3>2. \A s \in Turn : answered[s] \subseteq answered'[s]
      BY <1>2, <3>1
    <3>3. Asked(t) \subseteq answered'[session[t]]
      BY <1>2, <2>0, <3>1
    <3>4. ASSUME NEW x, Owes(t, x)
          PROVE  Owes(t, x)' \/ x \in answered'[session[t]]
      <4>1. CASE Limited(t)
        BY <3>1, <4>1 DEF Owes, Busy, Limited
      <4>2. CASE x \in Asked(t)
        BY <3>3, <4>2
      <4>3. CASE pending[session[t]] > 0
        BY <2>0, <3>1, <4>3 DEF Owes, Busy
      <4> QED
        BY <3>1, <3>4, <4>1, <4>2, <4>3 DEF Owes, Busy
    <3> QED
      BY <1>6, <1>7, <2>0, <3>1, <3>2, <3>4
  <2>5. CASE CheckInput(t)
    <3>1. /\ pc[t] = "checking" /\ answered' = answered
          /\ pending' = [pending EXCEPT ![session[t]] = 0]
          /\ Enters(t, pending[session[t]] > 0, steering)
      BY <1>1, <2>5, LoopSteps DEF CheckInput
    <3>2. CASE pending[session[t]] > 0
      <4>1. Busy(t)'
        BY <3>1, <3>2 DEF Enters, Busy, Limited
      <4>2. \A s \in Turn \ {session[t]} : pending'[s] = pending[s]
        BY <1>2, <3>1
      <4> QED
        BY <1>5, <1>7, <2>0, <3>1, <4>1, <4>2
    <3>3. CASE ~(pending[session[t]] > 0)
      <4>1. pending' = pending
        <5>1. pending[session[t]] = 0
          BY <1>2, <2>0, <3>3
        <5> QED
          BY <1>2, <2>0, <3>1, <5>1
      <4>2. ASSUME NEW x, Owes(t, x)
            PROVE  Owes(t, x)'
        <5>1. turn[t] > MaxIterations
          BY <3>1, <3>3, <4>2 DEF Owes, Busy, Limited
        <5>2. turn[t] \in 0..(MaxIterations + 1) /\ turn'[t] \in 0..(MaxIterations + 1)
              /\ turn[t] <= turn'[t]
          BY <1>1, <3>1, FitsTypes, TurnSteps DEF Enters, PairsInv, Fits, TypeOK
        <5>3. turn'[t] > MaxIterations
          BY <5>1, <5>2 DEF AgentAssumption
        <5> QED
          BY <5>3 DEF Owes, Busy, Limited
      <4> QED
        BY <1>6, <1>7, <2>0, <3>1, <4>1, <4>2
    <3> QED
      BY <3>2, <3>3
  <2>6. CASE Execute(t)
    <3>1. answered' = answered /\ pending' = pending
      BY <2>6 DEF Execute
    <3>2. Busy(t)'
      <4>1. CASE pc'[t] = "executing"
        BY <4>1 DEF Busy
      <4>2. CASE Enters(t, TRUE, Steered(t))
        BY <4>2, EntersBusy
      <4> QED
        BY <1>1, <2>6, <4>1, <4>2, LoopSteps
    <3> QED
      BY <1>5, <1>7, <2>0, <3>1, <3>2
  <2>7. CASE TakeFollowUps(t)
    <3>1. pc'[t] = "following" /\ answered' = answered /\ pending' = pending
      BY <1>2, <2>7 DEF TakeFollowUps, Goto, sessions
    <3> QED
      BY <1>5, <1>7, <2>0, <3>1 DEF Busy
  <2>8. CASE Follow(t) \/ FollowInput(t)
    <3>1. answered' = answered
      BY <2>8 DEF Follow, FollowInput
    <3>2. \A s \in Turn \ {session[t]} : pending'[s] = pending[s]
      BY <1>2, <2>8 DEF Follow, FollowInput, DrainPending, sessions
    <3>3. Busy(t)'
      BY <1>1, <2>8, LoopSteps, EntersBusy
    <3> QED
      BY <1>5, <1>7, <2>0, <3>1, <3>2, <3>3
  <2>9. CASE Finish(t)
    <3>1. /\ pc[t] = "stopping" /\ pending[session[t]] = 0 /\ turn' = turn
          /\ answered' = answered /\ pending' = pending
      BY <2>9 DEF Finish, sessions, loop
    <3>2. ASSUME NEW x, Owes(t, x)
          PROVE  Owes(t, x)'
      BY <3>1, <3>2 DEF Owes, Busy, Limited
    <3> QED
      BY <1>6, <1>7, <2>0, <3>1, <3>2
  <2> QED
    BY <1>7, <2>1, <2>2, <2>3, <2>4, <2>5, <2>6, <2>7, <2>8, <2>9 DEF run_turn
<1> QED
  BY <1>3, <1>7

LEMMA AnswersNext ==
  ASSUME AgentAssumption, PairsInv, AnswersFit, [Next]_vars
  PROVE  AnswersFit'
<1>1. ASSUME NEW t \in Turn, run_turn(t)
      PROVE  AnswersFit'
  BY <1>1, AnswersTurn
<1>2. ASSUME NEW t \in Turn, handle_chat_send(t)
      PROVE  AnswersFit'
  <2> USE DEF sessions, queues, outside, where, loop
  <2>1. /\ pc[t] = "unsent" /\ pc' = [pc EXCEPT ![t] = "sent"]
        /\ messages' = messages /\ pending' = pending /\ answered' = answered
        /\ session' = session /\ turn' = turn /\ taken' = taken /\ calls' = calls
        /\ request' = request
    BY <1>2 DEF handle_chat_send, Goto
  <2>2. \A u \in Turn \ {t} : Same(u)
    BY <2>1, FitsTypes DEF PairsInv, Types, Same
  <2>3. session[t] \notin Turn
    <3>1. PlaceFits(t)
      BY DEF PairsInv, Fits
    <3> QED
      BY <2>1, <3>1 DEF PlaceFits, AgentAssumption
  <2> QED
    BY <2>1, <2>2, <2>3, PlainStep
<1>3. CASE \A u \in Turn : Same(u) /\ messages' = messages /\ pending' = pending
           /\ answered' = answered
  <2> SUFFICES ASSUME NEW s \in Turn, NEW x \in TextsIn(messages'[s]) \ answered'[s]
               PROVE  \E u \in Turn : session'[u] = s /\ Owes(u, x)'
    BY DEF AnswersFit
  <2>1. x \in TextsIn(messages[s]) \ answered[s]
    BY <1>3
  <2>2. PICK u \in Turn : session[u] = s /\ Owes(u, x)
    BY <2>1 DEF AnswersFit
  <2>3. Owes(u, x)'
    BY <1>3, <2>2, SameOwes
  <2> QED
    BY <1>3, <2>2, <2>3 DEF Same
<1>4. CASE \/ \E k \in Key : handle_chat_abort(k) \/ handle_sessions_delete(k)
           \/ \E m \in Steer : steer(m)
           \/ \E m \in FollowUp : QueueFollowUp(m)
           \/ abort
           \/ UNCHANGED vars
  BY <1>3, <1>4 DEF handle_chat_abort, handle_sessions_delete, steer, QueueFollowUp,
     abort, vars, sessions, queues, outside, where, loop, Same
<1> QED
  BY <1>1, <1>2, <1>4 DEF Next, Clients

(* When every turn of a session has ended well, below its limit, each text   *)
(* in it was in a request whose answer is in the session: what another turn, *)
(* a steering message or a follow-up adds at any moment is not passed over.  *)
THEOREM AllIsAnsweredHolds ==
  Spec => []AllIsAnswered
<1>1. Init => AnswersFit
  <2>1. TextsIn(<<>>) = {}
    BY DEF TextsIn, ToSet
  <2> QED
    BY <2>1 DEF Init, AnswersFit
<1>2. PairsInv /\ AnswersFit /\ [Next]_vars => AnswersFit'
  BY AgentAssumption, AnswersNext
<1>3. AnswersFit => AllIsAnswered
  <2> SUFFICES ASSUME AnswersFit, NEW s \in Turn,
                      \A t \in Turn : session[t] = s => pc[t] = "done" /\ ~Limited(t),
                      NEW x \in SaidIn(s) \ answered[s]
               PROVE  FALSE
    BY DEF AllIsAnswered
  <2>1. PICK t \in Turn : session[t] = s /\ Owes(t, x)
    BY DEF AnswersFit, SaidIn, TextsIn
  <2> QED
    BY <2>1 DEF Owes, Busy
<1> QED
  BY <1>1, <1>2, <1>3, PairsHold, PTL DEF Spec
-----------------------------------------------------------------------------
(* A text that was steered or queued waits, or is taken, or is in a session: *)
(* one of these, once.                                                       *)

Waits(m) == m \in ToSet(steering) \cup ToSet(follow_up)
Has(t, m) == m \in ToSet(taken[t])
In(s, m) == m \in TextsIn(messages[s])

OnePlace(m) ==
  /\ Waits(m) => m \in said /\ \A t \in Turn : ~Has(t, m) /\ ~In(t, m)
  /\ \A t \in Turn : Has(t, m) =>
       m \in said /\ \A u \in Turn : ~In(u, m) /\ (Has(u, m) => u = t)
  /\ \A t \in Turn : In(t, m) => m \in said /\ \A u \in Turn : In(u, m) => u = t
  /\ m \in said => Waits(m) \/ \E t \in Turn : Limited(t) \/ Has(t, m) \/ In(t, m)

PlacesFit ==
  /\ IsInjective(steering) /\ IsInjective(follow_up)
  /\ \A t \in Turn : IsInjective(taken[t])
  /\ \A m \in Wished : OnePlace(m)

(* What a step of turn t does with text m: it stays, or is taken from its    *)
(* queue, or dropped at the limit, or added to a session.                    *)
Moves(t, m) ==
  \/ /\ (Waits(m)' <=> Waits(m)) /\ (Has(t, m)' <=> Has(t, m))
     /\ \A s \in Turn : In(s, m)' <=> In(s, m)
  \/ /\ Waits(m) /\ ~Waits(m)' /\ (Has(t, m)' \/ Limited(t)')
     /\ \A s \in Turn : In(s, m)' <=> In(s, m)
  \/ /\ (Waits(m)' <=> Waits(m)) /\ Has(t, m) /\ ~Has(t, m)' /\ Limited(t)'
     /\ \A s \in Turn : In(s, m)' <=> In(s, m)
  \/ /\ (Waits(m)' <=> Waits(m)) /\ Has(t, m) /\ ~Has(t, m)'
     /\ \E s \in Turn : In(s, m)' /\ \A r \in Turn \ {s} : (In(r, m)' <=> In(r, m))

LEMMA MovesKeepPlace ==
  ASSUME NEW t \in Turn, NEW m, OnePlace(m), said' = said, Moves(t, m),
         \A u \in Turn \ {t} : Has(u, m)' <=> Has(u, m),
         \A u \in Turn : Limited(u) => Limited(u)'
  PROVE  OnePlace(m)'
<1>1. CASE /\ (Waits(m)' <=> Waits(m)) /\ (Has(t, m)' <=> Has(t, m))
           /\ \A s \in Turn : In(s, m)' <=> In(s, m)
  <2>1. \A u \in Turn : Has(u, m)' <=> Has(u, m)
    BY <1>1
  <2> QED
    BY <1>1, <2>1 DEF OnePlace
<1>2. CASE /\ Waits(m) /\ ~Waits(m)' /\ (Has(t, m)' \/ Limited(t)')
           /\ \A s \in Turn : In(s, m)' <=> In(s, m)
  <2>1. m \in said /\ \A u \in Turn : ~Has(u, m) /\ ~In(u, m)
    BY <1>2 DEF OnePlace
  <2>2. /\ \A u \in Turn : Has(u, m)' => u = t
        /\ \A u \in Turn : ~In(u, m)'
    BY <1>2, <2>1
  <2> QED
    BY <1>2, <2>1, <2>2 DEF OnePlace
<1>3. ASSUME Waits(m)' <=> Waits(m), Has(t, m), ~Has(t, m)'
      PROVE  /\ ~Waits(m)' /\ m \in said' /\ \A u \in Turn : ~Has(u, m)' /\ ~In(u, m)
  BY <1>3 DEF OnePlace
<1>4. CASE /\ (Waits(m)' <=> Waits(m)) /\ Has(t, m) /\ ~Has(t, m)' /\ Limited(t)'
           /\ \A s \in Turn : In(s, m)' <=> In(s, m)
  BY <1>3, <1>4 DEF OnePlace
<1>5. CASE /\ (Waits(m)' <=> Waits(m)) /\ Has(t, m) /\ ~Has(t, m)'
           /\ \E s \in Turn : In(s, m)' /\ \A r \in Turn \ {s} : (In(r, m)' <=> In(r, m))
  BY <1>3, <1>5 DEF OnePlace
<1> QED
  BY <1>1, <1>2, <1>4, <1>5 DEF Moves

LEMMA NothingInEmpty ==
  ToSet(<<>>) = {} /\ IsInjective(<<>>)
BY DEF ToSet, IsInjective

LEMMA AppendGives ==
  ASSUME NEW S, NEW ids \in Seq(S), NEW id \in S, IsInjective(ids), id \notin ToSet(ids)
  PROVE  /\ IsInjective(Append(ids, id))
         /\ ToSet(Append(ids, id)) = ToSet(ids) \cup {id}
<1>1. <<id>> \in Seq(S) /\ IsInjective(<<id>>) /\ ToSet(<<id>>) = {id}
  BY DEF IsInjective, ToSet
<1>2. Append(ids, id) = ids \o <<id>>
  OBVIOUS
<1> DEFINE one == <<id>>
<1>3. one \in Seq(S) /\ IsInjective(one) /\ ToSet(ids) \cap ToSet(one) = {}
  BY <1>1
<1> HIDE DEF one
<1>4. /\ ToSet(ids \o one) = ToSet(ids) \cup ToSet(one)
      /\ IsInjective(ids \o one)
  BY <1>3, ConcatGives
<1> QED
  BY <1>1, <1>2, <1>4 DEF one

LEMMA StepsGoOn ==
  ASSUME AgentAssumption, Fits, Fits', \A u \in Turn : Forward(u)
  PROVE  \A u \in Turn : Limited(u) => Limited(u)'
<1> SUFFICES ASSUME NEW u \in Turn, Limited(u)
             PROVE  Limited(u)'
  OBVIOUS
<1>1. turn[u] \in 0..(MaxIterations + 1) /\ turn'[u] \in 0..(MaxIterations + 1)
      /\ turn[u] <= turn'[u]
  BY DEF Fits, TypeOK, Forward
<1> QED
  BY <1>1 DEF Limited, AgentAssumption

(* A step that leaves the sessions' steered and queued texts as they are:    *)
(* the queue of steering messages is taken, or it is left alone.             *)
LEMMA QueueMoves ==
  ASSUME AgentAssumption, Fits, Fits', PlacesFit, NEW t \in Turn, said' = said,
         follow_up' = follow_up,
         \A u \in Turn \ {t} : taken'[u] = taken[u],
         \A u \in Turn : Limited(u) => Limited(u)',
         \A m \in Wished : \A s \in Turn : In(s, m)' <=> In(s, m),
         \/ /\ taken[t] = <<>> /\ steering' = <<>>
            /\ taken'[t] = steering \/ (taken'[t] = <<>> /\ Limited(t)')
         \/ /\ steering' = steering
            /\ taken'[t] = taken[t] \/ (taken'[t] = <<>> /\ Limited(t)')
  PROVE  PlacesFit'
<1>1. IsInjective(steering) /\ IsInjective(follow_up) /\ IsInjective(taken[t])
  BY DEF PlacesFit
<1>2. IsInjective(steering') /\ IsInjective(taken'[t])
  BY <1>1, NothingInEmpty
<1>3. \A u \in Turn : IsInjective(taken'[u])
  BY <1>2 DEF PlacesFit
<1>4. ASSUME NEW m \in Wished
      PROVE  Moves(t, m)
  <2>1. m \in ToSet(steering) => m \notin ToSet(follow_up)
    BY FitsTypes DEF Types, AgentAssumption, ToSet
  <2>2. m \in ToSet(steering) => ~Has(t, m)
    BY DEF PlacesFit, OnePlace, Waits
  <2>3. \A s \in Turn : In(s, m)' <=> In(s, m)
    OBVIOUS
  <2>4. CASE taken[t] = <<>> /\ steering' = <<>> /\ taken'[t] = steering
    <3>1. Waits(m)' <=> m \in ToSet(follow_up)
      BY <2>4, NothingInEmpty DEF Waits
    <3>2. ~Has(t, m) /\ (Has(t, m)' <=> m \in ToSet(steering))
      BY <2>4, NothingInEmpty DEF Has
    <3> QED
      BY <2>1, <2>3, <3>1, <3>2 DEF Moves, Waits
  <2>5. CASE taken[t] = <<>> /\ steering' = <<>> /\ taken'[t] = <<>> /\ Limited(t)'
    <3>1. Waits(m)' <=> m \in ToSet(follow_up)
      BY <2>5, NothingInEmpty DEF Waits
    <3>2. ~Has(t, m) /\ ~Has(t, m)'
      BY <2>5, NothingInEmpty DEF Has
    <3> QED
      BY <2>1, <2>3, <2>5, <3>1, <3>2 DEF Moves, Waits
  <2>6. CASE steering' = steering /\ taken'[t] = taken[t]
    BY <2>3, <2>6 DEF Moves, Waits, Has
  <2>7. CASE steering' = steering /\ taken'[t] = <<>> /\ Limited(t)'
    <3>1. (Waits(m)' <=> Waits(m)) /\ ~Has(t, m)'
      BY <2>7, NothingInEmpty DEF Waits, Has
    <3> QED
      BY <2>3, <2>7, <3>1 DEF Moves
  <2> QED
    BY <2>4, <2>5, <2>6, <2>7
<1>5. \A u \in Turn \ {t} : \A m \in Wished : Has(u, m)' <=> Has(u, m)
  BY DEF Has
<1>6. \A m \in Wished : OnePlace(m)'
  BY <1>4, <1>5, MovesKeepPlace DEF PlacesFit
<1> QED
  BY <1>1, <1>2, <1>3, <1>6 DEF PlacesFit

LEMMA FollowUpMoves ==
  ASSUME AgentAssumption, Fits, PlacesFit, NEW t \in Turn, said' = said,
         TakeFollowUps(t), \A u \in Turn : Limited(u) => Limited(u)'
  PROVE  PlacesFit'
<1>1. /\ pc[t] = "stopping" /\ follow_up' = <<>> /\ steering' = steering
      /\ messages' = messages
      /\ taken'[t] = follow_up /\ \A u \in Turn \ {t} : taken'[u] = taken[u]
  BY FitsTypes DEF TakeFollowUps, sessions, Types
<1>2. taken[t] = <<>>
  BY <1>1 DEF Fits, PlaceFits
<1>3. /\ IsInjective(steering') /\ IsInjective(follow_up')
      /\ \A u \in Turn : IsInjective(taken'[u])
  BY <1>1, NothingInEmpty DEF PlacesFit
<1>4. ASSUME NEW m \in Wished
      PROVE  Moves(t, m)
  <2>1. m \in ToSet(follow_up) => m \notin ToSet(steering)
    BY FitsTypes DEF Types, AgentAssumption, ToSet
  <2>2. Waits(m)' <=> m \in ToSet(steering)
    BY <1>1, NothingInEmpty DEF Waits
  <2>3. ~Has(t, m) /\ (Has(t, m)' <=> m \in ToSet(follow_up))
    BY <1>1, <1>2, NothingInEmpty DEF Has
  <2>4. \A s \in Turn : In(s, m)' <=> In(s, m)
    BY <1>1 DEF In
  <2> QED
    BY <2>1, <2>2, <2>3, <2>4 DEF Moves, Waits
<1>5. \A u \in Turn \ {t} : \A m \in Wished : Has(u, m)' <=> Has(u, m)
  BY <1>1 DEF Has
<1>6. \A m \in Wished : OnePlace(m)'
  BY <1>4, <1>5, MovesKeepPlace DEF PlacesFit
<1> QED
  BY <1>3, <1>6 DEF PlacesFit

LEMMA AddMoves ==
  ASSUME AgentAssumption, PairsInv, PlacesFit, NEW t \in Turn, said' = said,
         ~Begin(t), Inject(t) \/ AddFollowUp(t),
         \A u \in Turn : Limited(u) => Limited(u)'
  PROVE  PlacesFit'
<1>1. /\ taken[t] # <<>> /\ taken[t] \in Seq(Wished)
      /\ steering' = steering /\ follow_up' = follow_up
      /\ taken'[t] = Tail(taken[t]) /\ \A u \in Turn \ {t} : taken'[u] = taken[u]
  BY FitsTypes DEF Inject, AddFollowUp, queues, PairsInv, Fits, PlaceFits, Types
<1>2. PICK s \in Turn :
        /\ TextsIn(messages'[s]) = TextsIn(messages[s]) \cup {Head(taken[t])}
        /\ \A r \in Turn \ {s} : messages'[r] = messages[r]
  <2>1. run_turn(t)
    BY DEF run_turn
  <2> QED
    BY <2>1, TextSteps
<1>3. /\ ToSet(taken[t]) = ToSet(Tail(taken[t])) \cup {Head(taken[t])}
      /\ IsInjective(Tail(taken[t])) /\ Head(taken[t]) \notin ToSet(Tail(taken[t]))
  BY <1>1, TailGives DEF PlacesFit
<1>4. /\ IsInjective(steering') /\ IsInjective(follow_up')
      /\ \A u \in Turn : IsInjective(taken'[u])
  BY <1>1, <1>3 DEF PlacesFit
<1>5. ASSUME NEW m \in Wished
      PROVE  Moves(t, m)
  <2>1. (Waits(m)' <=> Waits(m)) /\ \A r \in Turn \ {s} : (In(r, m)' <=> In(r, m))
    BY <1>1, <1>2 DEF Waits, In
  <2>2. CASE m = Head(taken[t])
    <3>1. Has(t, m) /\ ~Has(t, m)' /\ In(s, m)'
      BY <1>1, <1>2, <1>3, <2>2 DEF Has, In
    <3> QED
      BY <2>1, <3>1 DEF Moves
  <2>3. CASE m # Head(taken[t])
    <3>1. (Has(t, m)' <=> Has(t, m)) /\ (In(s, m)' <=> In(s, m))
      BY <1>1, <1>2, <1>3, <2>3 DEF Has, In
    <3> QED
      BY <2>1, <3>1 DEF Moves
  <2> QED
    BY <2>2, <2>3
<1>6. \A u \in Turn \ {t} : \A m \in Wished : Has(u, m)' <=> Has(u, m)
  BY <1>1 DEF Has
<1>7. \A m \in Wished : OnePlace(m)'
  BY <1>5, <1>6, MovesKeepPlace DEF PlacesFit
<1> QED
  BY <1>4, <1>7 DEF PlacesFit

LEMMA PlacesTurn ==
  ASSUME AgentAssumption, PairsInv, PlacesFit, NEW t \in Turn, run_turn(t)
  PROVE  PlacesFit'
<1>1. /\ Fits /\ Fits' /\ \A u \in Turn : Forward(u)
      /\ \A u \in Turn \ {t} : taken'[u] = taken[u]
  BY TurnSteps DEF PairsInv, Same
<1>2. /\ \A u \in Turn : Limited(u) => Limited(u)'
      /\ PlaceFits(t) /\ pc[t] \in Place
  BY <1>1, StepsGoOn DEF Fits, TypeOK
<1>3. said' = said
  BY DEF run_turn, Begin, Inject, drain_pending_input, stream_llm_response, Fail, Aborted,
     EndCall, Answer, CheckInput, Execute, TakeFollowUps, AddFollowUp, Follow, FollowInput,
     Finish, outside
<1>4. ASSUME follow_up' = follow_up, Begin(t) \/ ~(Inject(t) \/ AddFollowUp(t)),
             \/ /\ taken[t] = <<>> /\ steering' = <<>>
                /\ taken'[t] = steering \/ (taken'[t] = <<>> /\ Limited(t)')
             \/ /\ steering' = steering
                /\ taken'[t] = taken[t] \/ (taken'[t] = <<>> /\ Limited(t)')
      PROVE  PlacesFit'
  <2>1. CASE Begin(t)
    <3>1. PICK s \in Turn :
            /\ TextsIn(messages'[s]) = TextsIn(messages[s]) \cup {t}
            /\ \A r \in Turn \ {s} : messages'[r] = messages[r]
      BY <2>1, TextSteps
    <3>2. t \notin Wished
      BY DEF Wished, AgentAssumption
    <3>3. \A m \in Wished : \A r \in Turn : In(r, m)' <=> In(r, m)
      BY <3>1, <3>2 DEF In
    <3> QED
      BY <1>1, <1>2, <1>3, <1>4, <3>3, QueueMoves
  <2>2. CASE ~(Begin(t) \/ Inject(t) \/ AddFollowUp(t))
    <3>1. \A s \in Turn : TextsIn(messages'[s]) = TextsIn(messages[s])
      BY <2>2, TextSteps
    <3>2. \A m \in Wished : \A r \in Turn : In(r, m)' <=> In(r, m)
      BY <3>1 DEF In
    <3> QED
      BY <1>1, <1>2, <1>3, <1>4, <3>2, QueueMoves
  <2> QED
    BY <1>4, <2>1, <2>2
<1>5. ASSUME NEW has_more, Enters(t, has_more, steering)
      PROVE  taken'[t] = steering \/ (taken'[t] = <<>> /\ Limited(t)')
  BY <1>5 DEF Enters
<1>6. ASSUME NEW has_more, Enters(t, has_more, taken[t]), taken[t] # <<>>
      PROVE  taken'[t] = taken[t] \/ (taken'[t] = <<>> /\ Limited(t)')
  BY <1>6 DEF Enters
<1>7. ASSUME pc[t] \in {"sent", "checking", "stopping"} \/ Follow(t)
      PROVE  taken[t] = <<>>
  BY <1>2, <1>7 DEF PlaceFits, Follow
<1>8. CASE Begin(t)
  <2>1. pc[t] = "sent" /\ follow_up' = follow_up
    BY <1>8 DEF Begin
  <2>2. \/ taken'[t] = taken[t] /\ steering' = steering
        \/ Enters(t, TRUE, steering) /\ steering' = <<>>
    BY <1>1, <1>8, LoopSteps
  <2> QED
    BY <1>4, <1>5, <1>7, <1>8, <2>1, <2>2
<1>9. CASE ~Begin(t) /\ (Inject(t) \/ AddFollowUp(t))
  BY <1>2, <1>3, <1>9, AddMoves
<1>10. CASE TakeFollowUps(t)
  BY <1>1, <1>2, <1>3, <1>10, FollowUpMoves
<1>11. CASE ~(Begin(t) \/ Inject(t) \/ AddFollowUp(t) \/ TakeFollowUps(t))
  <2>1. follow_up' = follow_up
    BY <1>11 DEF run_turn, drain_pending_input, stream_llm_response, Fail, Aborted, EndCall,
       Answer, CheckInput, Execute, Follow, FollowInput, Finish, queues
  <2>2. CASE \/ drain_pending_input(t) \/ stream_llm_response(t) \/ Fail(t) \/ Aborted(t)
             \/ Answer(t) \/ Finish(t)
    <3>1. steering' = steering /\ taken' = taken
      BY <2>2 DEF drain_pending_input, stream_llm_response, Fail, Aborted, EndCall, Answer,
         Finish, queues, loop
    <3> QED
      BY <1>4, <1>11, <2>1, <3>1
  <2>3. CASE CheckInput(t) \/ Follow(t) \/ FollowInput(t)
    <3>1. taken[t] = <<>>
      BY <1>7, <2>3 DEF CheckInput, FollowInput
    <3>2. steering' = <<>> /\ \E has_more : Enters(t, has_more, steering)
      BY <1>1, <2>3, LoopSteps
    <3> QED
      BY <1>4, <1>5, <1>11, <2>1, <3>1, <3>2
  <2>4. CASE Execute(t)
    <3>1. /\ steering' = IF taken[t] = <<>> THEN <<>> ELSE steering
          /\ \/ taken'[t] = Steered(t)
             \/ Enters(t, TRUE, Steered(t))
      <4>1. steering' = IF taken[t] = <<>> THEN <<>> ELSE steering
        BY <2>4 DEF Execute
      <4> QED
        BY <1>1, <2>4, <4>1, LoopSteps
    <3>2. CASE taken[t] = <<>>
      <4>1. Steered(t) = steering /\ steering' = <<>>
        BY <3>1, <3>2 DEF Steered
      <4>2. taken'[t] = steering \/ (taken'[t] = <<>> /\ Limited(t)')
        BY <1>5, <3>1, <4>1
      <4> QED
        BY <1>4, <1>11, <2>1, <3>2, <4>1, <4>2
    <3>3. CASE taken[t] # <<>>
      <4>1. Steered(t) = taken[t] /\ steering' = steering
        BY <3>1, <3>3 DEF Steered
      <4>2. taken'[t] = taken[t] \/ (taken'[t] = <<>> /\ Limited(t)')
        BY <1>6, <3>1, <3>3, <4>1
      <4> QED
        BY <1>4, <1>11, <2>1, <4>1, <4>2
    <3> QED
      BY <3>2, <3>3
  <2> QED
    BY <1>11, <2>2, <2>3, <2>4 DEF run_turn
<1> QED
  BY <1>8, <1>9, <1>10, <1>11

(* A text that is steered or queued was nowhere before.                      *)
LEMMA SayingPlace ==
  ASSUME PlacesFit, NEW m \in Wished \ said, said' = said \cup {m},
         messages' = messages, taken' = taken, turn' = turn,
         IsInjective(steering'), IsInjective(follow_up'),
         ToSet(steering') \cup ToSet(follow_up') =
           ToSet(steering) \cup ToSet(follow_up) \cup {m}
  PROVE  PlacesFit'
<1>1. ASSUME NEW x \in Wished
      PROVE  OnePlace(x)'
  <2>1. /\ Waits(x)' <=> Waits(x) \/ x = m
        /\ x \in said' <=> x \in said \/ x = m
        /\ \A t \in Turn : /\ Has(t, x)' <=> Has(t, x)
                           /\ In(t, x)' <=> In(t, x)
                           /\ Limited(t)' <=> Limited(t)
    BY DEF Waits, Has, In, Limited
  <2>2. OnePlace(x) /\ OnePlace(m)
    BY DEF PlacesFit
  <2>3. CASE x = m
    <3>1. ~Waits(m) /\ \A t \in Turn : ~Has(t, m) /\ ~In(t, m)
      BY <2>2 DEF OnePlace
    <3> QED
      BY <2>1, <2>3, <3>1 DEF OnePlace
  <2>4. CASE x # m
    BY <2>1, <2>2, <2>4 DEF OnePlace
  <2> QED
    BY <2>3, <2>4
<1> QED
  BY <1>1 DEF PlacesFit

LEMMA PlacesNext ==
  ASSUME AgentAssumption, PairsInv, PlacesFit, [Next]_vars
  PROVE  PlacesFit'
<1>1. ASSUME NEW t \in Turn, run_turn(t)
      PROVE  PlacesFit'
  BY <1>1, PlacesTurn
<1>2. ASSUME NEW m \in Steer, steer(m)
      PROVE  PlacesFit'
  <2>1. /\ m \in Wished \ said /\ said' = said \cup {m}
        /\ messages' = messages /\ taken' = taken /\ turn' = turn
        /\ steering' = Append(steering, m) /\ follow_up' = follow_up
    BY <1>2 DEF steer, sessions, loop, Wished
  <2>2. steering \in Seq(Steer) /\ m \notin ToSet(steering) \cup ToSet(follow_up)
    BY <2>1, FitsTypes DEF PairsInv, Types, PlacesFit, OnePlace, Waits
  <2>3. /\ IsInjective(steering') /\ ToSet(steering') = ToSet(steering) \cup {m}
        /\ IsInjective(follow_up')
    BY <2>1, <2>2, AppendGives DEF PlacesFit
  <2>4. ToSet(steering') \cup ToSet(follow_up') =
          ToSet(steering) \cup ToSet(follow_up) \cup {m}
    BY <2>1, <2>3
  <2> QED
    BY <2>1, <2>3, <2>4, SayingPlace
<1>3. ASSUME NEW m \in FollowUp, QueueFollowUp(m)
      PROVE  PlacesFit'
  <2>1. /\ m \in Wished \ said /\ said' = said \cup {m}
        /\ messages' = messages /\ taken' = taken /\ turn' = turn
        /\ follow_up' = Append(follow_up, m) /\ steering' = steering
    BY <1>3 DEF QueueFollowUp, sessions, loop, Wished
  <2>2. follow_up \in Seq(FollowUp) /\ m \notin ToSet(steering) \cup ToSet(follow_up)
    BY <2>1, FitsTypes DEF PairsInv, Types, PlacesFit, OnePlace, Waits
  <2>3. /\ IsInjective(follow_up') /\ ToSet(follow_up') = ToSet(follow_up) \cup {m}
        /\ IsInjective(steering')
    BY <2>1, <2>2, AppendGives DEF PlacesFit
  <2>4. ToSet(steering') \cup ToSet(follow_up') =
          ToSet(steering) \cup ToSet(follow_up) \cup {m}
    BY <2>1, <2>3
  <2> QED
    BY <2>1, <2>3, <2>4, SayingPlace
<1>4. CASE \/ \E t \in Turn : handle_chat_send(t)
           \/ \E k \in Key : handle_chat_abort(k) \/ handle_sessions_delete(k)
           \/ abort
           \/ UNCHANGED vars
  <2>1. /\ steering' = steering /\ follow_up' = follow_up /\ said' = said
        /\ messages' = messages /\ taken' = taken /\ turn' = turn
    BY <1>4 DEF handle_chat_send, handle_chat_abort, handle_sessions_delete, abort, vars,
       sessions, queues, outside, loop
  <2>2. \A m \in Wished : OnePlace(m)'
    BY <2>1 DEF PlacesFit, OnePlace, Waits, Has, In, Limited
  <2> QED
    BY <2>1, <2>2 DEF PlacesFit
<1> QED
  BY <1>1, <1>2, <1>3, <1>4 DEF Next, Clients

LEMMA PlacesInit ==
  ASSUME Init
  PROVE  PlacesFit
<1>1. /\ steering = <<>> /\ follow_up = <<>> /\ said = {}
      /\ \A t \in Turn : taken[t] = <<>> /\ messages[t] = <<>>
  BY DEF Init
<1>2. TextsIn(<<>>) = {}
  BY NothingInEmpty DEF TextsIn
<1>3. \A m \in Wished : ~Waits(m) /\ \A t \in Turn : ~Has(t, m) /\ ~In(t, m)
  BY <1>1, <1>2, NothingInEmpty DEF Waits, Has, In
<1>4. \A m \in Wished : OnePlace(m)
  BY <1>1, <1>3 DEF OnePlace
<1> QED
  BY <1>1, <1>4, NothingInEmpty DEF PlacesFit

(* Whatever the order of clients and turns: unless a turn reaches its limit, *)
(* each text that was steered or queued is in its queue, or taken by one     *)
(* turn, or in one session, and never in two of these.                       *)
THEOREM NothingIsLostHolds ==
  Spec => []NothingIsLost
<1>1. Init => PlacesFit
  BY PlacesInit
<1>2. PairsInv /\ PlacesFit /\ [Next]_vars => PlacesFit'
  BY AgentAssumption, PlacesNext
<1>3. PairsInv /\ PlacesFit => NothingIsLost
  <2> SUFFICES ASSUME PairsInv, PlacesFit, \A t \in Turn : ~Limited(t), NEW m \in said
               PROVE  LET waits == Contains(steering \o follow_up, m) IN
                      \/ waits /\ \A t \in Turn : ~Holds(t, m) /\ m \notin SaidIn(t)
                      \/ ~waits /\ \E t \in Turn :
                           \/ Holds(t, m) /\ \A u \in Turn :
                                m \notin SaidIn(u) /\ (Holds(u, m) => u = t)
                           \/ m \in SaidIn(t) /\ \A u \in Turn :
                                ~Holds(u, m) /\ (m \in SaidIn(u) => u = t)
    BY DEF NothingIsLost
  <2> DEFINE all == steering \o follow_up
  <2>1. /\ steering \in Seq(Wished) /\ follow_up \in Seq(Wished) /\ m \in Wished
        /\ taken \in [Turn -> Seq(Wished)]
        /\ ToSet(steering) \cap ToSet(follow_up) = {}
    BY AgentAssumption, FitsTypes DEF PairsInv, Types, Wished, AgentAssumption, ToSet
  <2>2. all \in Seq(Wished) /\ ToSet(all) = ToSet(steering) \cup ToSet(follow_up)
    BY <2>1, ConcatGives DEF PlacesFit
  <2> HIDE DEF all
  <2>3. Contains(all, m) <=> Waits(m)
    BY <2>2, ContainsMeans DEF Waits
  <2>4. \A t \in Turn : (Holds(t, m) <=> Has(t, m)) /\ (m \in SaidIn(t) <=> In(t, m))
    BY <2>1, ContainsMeans DEF Holds, Has, In, SaidIn, TextsIn
  <2>5. OnePlace(m)
    BY <2>1 DEF PlacesFit
  <2>6. \/ Contains(all, m) /\ \A t \in Turn : ~Holds(t, m) /\ m \notin SaidIn(t)
        \/ ~Contains(all, m) /\ \E t \in Turn :
             \/ Holds(t, m) /\ \A u \in Turn :
                  m \notin SaidIn(u) /\ (Holds(u, m) => u = t)
             \/ m \in SaidIn(t) /\ \A u \in Turn :
                  ~Holds(u, m) /\ (m \in SaidIn(u) => u = t)
    <3>1. CASE Waits(m)
      BY <2>3, <2>4, <2>5, <3>1 DEF OnePlace
    <3>2. CASE ~Waits(m)
      <4>1. PICK t \in Turn : Has(t, m) \/ In(t, m)
        BY <2>5, <3>2 DEF OnePlace
      <4>2. CASE Has(t, m)
        BY <2>3, <2>4, <2>5, <3>2, <4>2 DEF OnePlace
      <4>3. CASE In(t, m)
        <5>1. \A u \in Turn : ~Has(u, m) /\ (In(u, m) => u = t)
          BY <2>5, <4>3 DEF OnePlace
        <5> QED
          BY <2>3, <2>4, <3>2, <4>3, <5>1
      <4> QED
        BY <4>1, <4>2, <4>3
    <3> QED
      BY <3>1, <3>2
  <2> QED
    BY <2>6 DEF all
<1> QED
  BY <1>1, <1>2, <1>3, PairsHold, PTL DEF Spec
-----------------------------------------------------------------------------
(* Sequences that are flattened, one longer than the other.                  *)

LEMMA GreatestNumber ==
  ASSUME NEW n \in Nat, NEW T \in SUBSET (1..n), T # {}
  PROVE  \E x \in T : \A y \in T : x >= y
<1> DEFINE D == {n - t : t \in T}
<1>1. D \in SUBSET Nat /\ D # {}
  <2>1. \A t \in T : n - t \in Nat
    OBVIOUS
  <2> QED
    BY <2>1
<1>2. PICK d \in D : \A e \in D : d <= e
  <2> HIDE DEF D
  <2> QED
    BY <1>1, LeastNumber
<1>3. PICK x \in T : d = n - x
  OBVIOUS
<1>4. ASSUME NEW y \in T
      PROVE  x >= y
  <2>1. n - x <= n - y
    BY <1>2, <1>3
  <2>2. x \in Int /\ y \in Int
    OBVIOUS
  <2> QED
    BY <2>1, <2>2
<1> QED
  BY <1>4

(* The first n of the m sequences tt are as long as those of ss.             *)
SameLengths(ss, n, tt, m) ==
  /\ n \in Nat /\ m \in Nat /\ n <= m /\ Len(ss) = n /\ Len(tt) = m
  /\ \A i \in 1..n : Len(ss[i]) = Len(tt[i])

(* What stands at one place of fs and of ft stands at one place of a         *)
(* sequence of ss and of tt.                                                 *)
SamePlaces(fs, ft, ss, n, tt, m) ==
  /\ Len(fs) <= Len(ft)
  /\ n = m => Len(fs) = Len(ft)
  /\ \A p \in 1..Len(fs) : \E i \in 1..n : \E k \in 1..Len(ss[i]) :
       fs[p] = ss[i][k] /\ ft[p] = tt[i][k]

LEMMA FlattenGrows ==
  ASSUME NEW S, NEW ss \in Seq(Seq(S)), NEW T, NEW tt \in Seq(Seq(T)),
         NEW n, NEW m, SameLengths(ss, n, tt, m)
  PROVE  SamePlaces(FlattenSeq(ss), FlattenSeq(tt), ss, n, tt, m)
<1> DEFINE fs == FlattenSeq(ss)
           ft == FlattenSeq(tt)
<1>1. /\ n \in Nat /\ m \in Nat /\ n <= m /\ Len(ss) = n /\ Len(tt) = m
      /\ \A i \in 1..n : Len(ss[i]) = Len(tt[i])
  BY DEF SameLengths
<1>2. fs \in Seq(S) /\ ft \in Seq(T)
  BY FlattenLays
<1>3. PICK at : Lays(at, fs, ss, n)
  BY <1>1, FlattenLays
<1>4. PICK to : Lays(to, ft, tt, m)
  BY <1>1, FlattenLays
<1> HIDE DEF fs, ft
<1>5. /\ at \in [1..(n + 1) -> Nat] /\ at[1] = 0 /\ Len(fs) = at[n + 1]
      /\ \A i \in 1..n : at[i + 1] = at[i] + Len(ss[i])
  BY <1>3 DEF Lays
<1>6. /\ to \in [1..(m + 1) -> Nat] /\ to[1] = 0 /\ Len(ft) = to[m + 1]
      /\ \A i \in 1..m : to[i + 1] = to[i] + Len(tt[i])
  BY <1>4 DEF Lays
<1>7. \A i \in 1..n : Len(ss[i]) = Len(tt[i])
  BY <1>1
<1>8. \A i \in 1..m : Len(tt[i]) \in Nat
  BY <1>1
<1>9. \A i \in 1..(n + 1) : at[i] = to[i]
  <2> DEFINE A == {k \in Nat : k <= n => at[k + 1] = to[k + 1]}
  <2>1. 0 \in A
    BY <1>5, <1>6
  <2>2. ASSUME NEW k \in Nat, k \in A, k + 1 <= n
        PROVE  at[(k + 1) + 1] = to[(k + 1) + 1]
    <3>1. k + 1 \in 1..n /\ k + 1 \in 1..m /\ k <= n
      BY <1>1, <2>2
    <3>2. at[k + 1] = to[k + 1]
      BY <2>2, <3>1
    <3> QED
      BY <1>5, <1>6, <1>7, <3>1, <3>2
  <2>3. \A k \in Nat : k \in A
    <3>1. \A k \in Nat : k \in A => k + 1 \in A
      BY <2>2
    <3> HIDE DEF A
    <3> QED
      BY <2>1, <3>1, Induction
  <2>4. \A i \in 1..(n + 1) : i - 1 \in Nat /\ i - 1 <= n /\ (i - 1) + 1 = i
    BY <1>1
  <2> QED
    BY <2>3, <2>4
<1>10. Len(fs) = to[n + 1]
  BY <1>1, <1>5, <1>9
<1>11. n = m => Len(fs) = Len(ft)
  BY <1>6, <1>10
<1>12. Len(fs) <= Len(ft)
  <2> DEFINE A == {k \in Nat : n + k <= m => to[n + 1] <= to[n + k + 1]}
  <2>1. 0 \in A
    <3>1. n + 0 + 1 = n + 1 /\ n + 1 \in 1..(m + 1)
      BY <1>1
    <3>2. to[n + 1] \in Nat
      BY <1>6, <3>1
    <3> QED
      BY <3>1, <3>2
  <2>2. ASSUME NEW k \in Nat, k \in A, n + (k + 1) <= m
        PROVE  to[n + 1] <= to[n + (k + 1) + 1]
    <3>1. /\ n + k + 1 \in 1..m /\ n + k <= m /\ (n + k + 1) + 1 = n + (k + 1) + 1
          /\ n + 1 \in 1..(m + 1) /\ n + k + 1 \in 1..(m + 1)
          /\ n + (k + 1) + 1 \in 1..(m + 1)
      BY <1>1, <2>2
    <3>2. to[n + 1] <= to[n + k + 1]
      BY <2>2, <3>1
    <3>3. to[n + (k + 1) + 1] = to[n + k + 1] + Len(tt[n + k + 1])
      BY <1>6, <3>1
    <3>4. /\ to[n + 1] \in Nat /\ to[n + k + 1] \in Nat
          /\ Len(tt[n + k + 1]) \in Nat
      BY <1>6, <1>8, <3>1
    <3> QED
      BY <3>2, <3>3, <3>4
  <2>3. \A k \in Nat : k \in A
    <3>1. \A k \in Nat : k \in A => k + 1 \in A
      BY <2>2
    <3> HIDE DEF A
    <3> QED
      BY <2>1, <3>1, Induction
  <2>4. m - n \in Nat /\ n + (m - n) <= m /\ n + (m - n) + 1 = m + 1
    BY <1>1
  <2>5. to[n + 1] <= to[m + 1]
    BY <2>3, <2>4
  <2> QED
    BY <1>6, <1>10, <2>5
<1>13. ASSUME NEW p \in 1..Len(fs)
       PROVE  \E i \in 1..n : \E k \in 1..Len(ss[i]) :
                fs[p] = ss[i][k] /\ ft[p] = tt[i][k]
  <2>1. PICK i \in 1..n : \E k \in 1..Len(ss[i]) : p = at[i] + k
    BY <1>3 DEF Lays
  <2>2. PICK k \in 1..Len(ss[i]) : p = at[i] + k
    BY <2>1
  <2>3. i \in 1..m /\ i \in 1..(n + 1)
    BY <1>1
  <2>4. k \in 1..Len(tt[i])
    BY <1>7
  <2>5. fs[p] = ss[i][k]
    BY <1>3, <2>2 DEF Lays
  <2>6. ft[to[i] + k] = tt[i][k]
    BY <1>4, <2>3, <2>4 DEF Lays
  <2>7. p = to[i] + k
    BY <1>9, <2>2, <2>3
  <2> QED
    BY <2>5, <2>6, <2>7
<1> QED
  BY <1>11, <1>12, <1>13 DEF SamePlaces, fs, ft

-----------------------------------------------------------------------------
(* A record appended to a file: what transform makes of the records before.  *)

(* The record, if a result, is the first for its call.                       *)
FirstResult(r, rs) ==
  IsResult(r) => \A i \in DOMAIN rs : IsResult(rs[i]) => r.call # rs[i].call

LEMMA ResultStays ==
  ASSUME NEW S, NEW rs \in Seq(S), NEW r \in S, FirstResult(r, rs), NEW id,
         ResultOf(rs, id) # <<>>
  PROVE  ResultOf(Append(rs, r), id) = ResultOf(rs, id)
<1> DEFINE n == Len(rs)
           big == Append(rs, r)
           found == {i \in DOMAIN rs : IsResult(rs[i]) /\ rs[i].call = id}
           more == {i \in DOMAIN big : IsResult(big[i]) /\ big[i].call = id}
           last == CHOOSE i \in found : \A j \in found : i >= j
<1>1. /\ n \in Nat /\ DOMAIN rs = 1..n /\ DOMAIN big = 1..(n + 1)
      /\ \A i \in 1..n : big[i] = rs[i]
      /\ big[n + 1] = r
  OBVIOUS
<1>2. found # {}
  BY Zenon DEF ResultOf
<1> HIDE DEF big, n
<1>3. ~(IsResult(r) /\ r.call = id)
  BY <1>1, <1>2 DEF FirstResult
<1>4. more = found
  <2>1. \A i \in 1..(n + 1) : i \in 1..n \/ i = n + 1
    BY <1>1
  <2>2. \A i \in 1..n : i \in 1..(n + 1)
    BY <1>1
  <2> QED
    BY <1>1, <1>3, <2>1, <2>2, Zenon
<1>5. found \in SUBSET (1..n)
  BY <1>1
<1> HIDE DEF found, more
<1>6. \E x \in found : \A y \in found : x >= y
  BY <1>1, <1>2, <1>5, GreatestNumber
<1>7. last \in found
  BY <1>6
<1>8. big[last] = rs[last]
  BY <1>1, <1>5, <1>7
<1>9. ResultOf(rs, id) = <<Result(rs[last].text, rs[last].error)>>
  BY <1>2, Zenon DEF ResultOf, found, last
<1>10. ResultOf(big, id) =
         IF more = {} THEN <<>>
         ELSE LET r2 == big[CHOOSE i \in more : \A j \in more : i >= j]
              IN  <<Result(r2.text, r2.error)>>
  BY DEF ResultOf, more
<1> QED
  BY <1>2, <1>4, <1>8, <1>9, <1>10 DEF big, last

LEMMA TakenStays ==
  ASSUME NEW S, NEW rs \in Seq(S), NEW r \in S, NEW i \in 1..Len(rs), NEW j, NEW id
  PROVE  Taken(Append(rs, r), i, j, id) <=> Taken(rs, i, j, id)
<1>1. \A k \in 1..i : Append(rs, r)[k] = rs[k]
  OBVIOUS
<1> QED
  BY <1>1, Zenon DEF Taken

LEMMA BlockGrows ==
  ASSUME NEW S, NEW rs \in Seq(S), NEW r \in S, FirstResult(r, rs),
         NEW i \in 1..Len(rs), NEW j
  PROVE  \/ /\ BlockContents(rs, i, j) = <<>>
            /\ BlockContents(Append(rs, r), i, j) = <<>>
         \/ \E x, y : /\ BlockContents(rs, i, j) = <<x>>
                      /\ BlockContents(Append(rs, r), i, j) = <<y>>
                      /\ SameButResult(x, y)
<1> DEFINE big == Append(rs, r)
           b == rs[i].blocks[j]
           before == IF Taken(rs, i, j, b.id) THEN <<>> ELSE ResultOf(rs, b.id)
           after == IF Taken(big, i, j, b.id) THEN <<>> ELSE ResultOf(big, b.id)
           x == Tool(b.name, b.args, before)
           y == Tool(b.name, b.args, after)
<1>1. big[i] = rs[i]
  OBVIOUS
<1> HIDE DEF big
<1>2. ASSUME b.type # "toolCall"
      PROVE  BlockContents(big, i, j) = BlockContents(rs, i, j)
  BY <1>1, <1>2, Zenon DEF BlockContents
<1>3. ASSUME b.type = "toolCall"
      PROVE  BlockContents(rs, i, j) = <<x>> /\ BlockContents(big, i, j) = <<y>>
  BY <1>1, <1>3, SMT DEF BlockContents
<1>4. before # <<>> => after = before
  <2>1. Taken(big, i, j, b.id) <=> Taken(rs, i, j, b.id)
    BY TakenStays DEF big
  <2>2. ResultOf(rs, b.id) # <<>> => ResultOf(big, b.id) = ResultOf(rs, b.id)
    BY ResultStays DEF big
  <2> QED
    BY <2>1, <2>2, Zenon
<1>5. SameButResult(x, y)
  <2> HIDE DEF before, after, b
  <2>1. CASE before = <<>>
    BY <2>1 DEF SameButResult, Tool
  <2>2. CASE before # <<>>
    <3>1. y = x /\ x.result # <<>>
      BY <1>4, <2>2 DEF Tool
    <3> QED
      BY <3>1 DEF SameButResult
  <2> QED
    BY <2>1, <2>2
<1>6. CASE b.type = "toolCall"
  BY <1>3, <1>5, <1>6 DEF big
<1>7. CASE b.type # "toolCall"
  <2>1. \/ BlockContents(rs, i, j) = <<>>
        \/ \E text : BlockContents(rs, i, j) = <<Says(text)>>
        \/ \E text : BlockContents(rs, i, j) = <<Thinking(text)>>
    BY <1>7, Zenon DEF BlockContents
  <2>2. \A text : /\ SameButResult(Says(text), Says(text))
                  /\ SameButResult(Thinking(text), Thinking(text))
    BY DEF SameButResult, Says, Thinking
  <2> QED
    BY <1>2, <1>7, <2>1, <2>2, Zenon DEF big
<1> QED
  BY <1>6, <1>7

(* Sequences of none or one, flattened.                                      *)
LEMMA OnesInSeq ==
  ASSUME NEW n \in Nat, NEW ss, ss = [i \in 1..n |-> ss[i]],
         \A i \in 1..n : ss[i] = <<>> \/ \E x : ss[i] = <<x>>
  PROVE  \E V : ss \in Seq(Seq(V)) /\ Len(ss) = n
<1> DEFINE V == UNION {ToSet(ss[i]) : i \in 1..n}
<1>1. ASSUME NEW i \in 1..n
      PROVE  ss[i] \in Seq(V)
  <2>1. CASE ss[i] = <<>>
    BY <2>1
  <2>2. CASE \E x : ss[i] = <<x>>
    <3>1. PICK x : ss[i] = <<x>>
      BY <2>2
    <3>2. x \in ToSet(ss[i])
      BY <3>1 DEF ToSet
    <3>3. x \in V
      BY <3>2
    <3> HIDE DEF V
    <3>4. <<x>> \in Seq(V)
      BY <3>3
    <3> QED
      BY <3>1, <3>4
  <2> QED
    BY <1>1, <2>1, <2>2
<1> HIDE DEF V
<1>2. ss \in [1..n -> Seq(V)]
  BY <1>1
<1>3. ss \in Seq(Seq(V)) /\ Len(ss) = n
  BY <1>2
<1> QED
  BY <1>3

(* Where there is none in ss there is none in the first n of tt.             *)
Ones(ss, n, tt, m) ==
  /\ n \in Nat /\ m \in Nat /\ n <= m
  /\ ss = [i \in 1..n |-> ss[i]] /\ tt = [i \in 1..m |-> tt[i]]
  /\ \A i \in 1..n : \/ ss[i] = <<>> /\ tt[i] = <<>>
                     \/ \E x, y : ss[i] = <<x>> /\ tt[i] = <<y>>
  /\ \A i \in 1..m : tt[i] = <<>> \/ \E y : tt[i] = <<y>>

OnesPlaced(fs, ft, ss, n, tt, m) ==
  /\ DOMAIN fs = 1..Len(fs) /\ (fs = <<>> <=> Len(fs) = 0)
  /\ DOMAIN ft = 1..Len(ft) /\ (ft = <<>> <=> Len(ft) = 0)
  /\ Len(fs) <= Len(ft) /\ (n = m => Len(fs) = Len(ft))
  /\ \A p \in 1..Len(fs) : \E i \in 1..n : ss[i] = <<fs[p]>> /\ tt[i] = <<ft[p]>>

LEMMA OnesGrow ==
  ASSUME NEW ss, NEW n, NEW tt, NEW m, Ones(ss, n, tt, m)
  PROVE  OnesPlaced(FlattenSeq(ss), FlattenSeq(tt), ss, n, tt, m)
<1> DEFINE fs == FlattenSeq(ss)
           ft == FlattenSeq(tt)
<1>1. /\ n \in Nat /\ m \in Nat /\ n <= m
      /\ ss = [i \in 1..n |-> ss[i]] /\ tt = [i \in 1..m |-> tt[i]]
      /\ \A i \in 1..n : \/ ss[i] = <<>> /\ tt[i] = <<>>
                         \/ \E x, y : ss[i] = <<x>> /\ tt[i] = <<y>>
      /\ \A i \in 1..m : tt[i] = <<>> \/ \E y : tt[i] = <<y>>
  BY DEF Ones
<1>2. PICK V : ss \in Seq(Seq(V)) /\ Len(ss) = n
  <2>1. \A i \in 1..n : ss[i] = <<>> \/ \E x : ss[i] = <<x>>
    BY <1>1, Zenon
  <2> QED
    BY <1>1, <2>1, OnesInSeq
<1>3. PICK W : tt \in Seq(Seq(W)) /\ Len(tt) = m
  BY <1>1, OnesInSeq
<1>4. ASSUME NEW i \in 1..n
      PROVE  /\ Len(ss[i]) = Len(tt[i])
             /\ \A k \in 1..Len(ss[i]) : ss[i] = <<ss[i][k]>> /\ tt[i] = <<tt[i][k]>>
  <2>1. CASE ss[i] = <<>> /\ tt[i] = <<>>
    BY <2>1
  <2>2. CASE \E x, y : ss[i] = <<x>> /\ tt[i] = <<y>>
    <3>1. PICK x, y : ss[i] = <<x>> /\ tt[i] = <<y>>
      BY <2>2
    <3>2. /\ Len(<<x>>) = 1 /\ Len(<<y>>) = 1 /\ <<x>>[1] = x /\ <<y>>[1] = y
          /\ \A k \in 1..1 : k = 1
      OBVIOUS
    <3> QED
      BY <3>1, <3>2
  <2> QED
    BY <1>1, <2>1, <2>2
<1>5. SameLengths(ss, n, tt, m)
  BY <1>1, <1>2, <1>3, <1>4 DEF SameLengths
<1>6. fs \in Seq(V) /\ ft \in Seq(W)
  BY <1>2, <1>3, FlattenLays
<1>7. SamePlaces(fs, ft, ss, n, tt, m)
  BY <1>2, <1>3, <1>5, FlattenGrows
<1> HIDE DEF fs, ft
<1>8. /\ DOMAIN fs = 1..Len(fs) /\ (fs = <<>> <=> Len(fs) = 0)
      /\ DOMAIN ft = 1..Len(ft) /\ (ft = <<>> <=> Len(ft) = 0)
  BY <1>6
<1>9. ASSUME NEW p \in 1..Len(fs)
      PROVE  \E i \in 1..n : ss[i] = <<fs[p]>> /\ tt[i] = <<ft[p]>>
  <2>1. PICK i \in 1..n : \E k \in 1..Len(ss[i]) :
               fs[p] = ss[i][k] /\ ft[p] = tt[i][k]
    BY <1>7 DEF SamePlaces
  <2>2. PICK k \in 1..Len(ss[i]) : fs[p] = ss[i][k] /\ ft[p] = tt[i][k]
    BY <2>1
  <2>3. ss[i] = <<ss[i][k]>> /\ tt[i] = <<tt[i][k]>>
    BY <1>4, <2>2
  <2> QED
    BY <2>2, <2>3, Zenon
<1> QED
  BY <1>7, <1>8, <1>9 DEF SamePlaces, OnesPlaced, fs, ft

LEMMA ContentsGrow ==
  ASSUME NEW S, NEW rs \in Seq(S), NEW r \in S, FirstResult(r, rs),
         NEW i \in 1..Len(rs), rs[i].blocks \in Seq(ToSet(rs[i].blocks))
  PROVE  LET cs == ContentsOf(rs, i)
             ds == ContentsOf(Append(rs, r), i)
         IN  /\ DOMAIN cs = DOMAIN ds /\ (cs = <<>> <=> ds = <<>>)
             /\ \A k \in DOMAIN cs : SameButResult(cs[k], ds[k])
<1> DEFINE cs == ContentsOf(rs, i)
           ds == ContentsOf(Append(rs, r), i)
           n == Len(rs[i].blocks)
           ss == [j \in 1..n |-> BlockContents(rs, i, j)]
           tt == [j \in 1..n |-> BlockContents(Append(rs, r), i, j)]
<1>1. n \in Nat /\ n <= n /\ DOMAIN rs[i].blocks = 1..n
  OBVIOUS
<1>2. cs = FlattenSeq(ss) /\ ds = FlattenSeq(tt)
  <2>1. Append(rs, r)[i] = rs[i]
    OBVIOUS
  <2> QED
    BY <1>1, <2>1, Zenon DEF ContentsOf
<1>3. \A j \in 1..n :
        \/ ss[j] = <<>> /\ tt[j] = <<>>
        \/ \E x, y : ss[j] = <<x>> /\ tt[j] = <<y>> /\ SameButResult(x, y)
  <2>1. \A j \in 1..n : ss[j] = BlockContents(rs, i, j)
                         /\ tt[j] = BlockContents(Append(rs, r), i, j)
    OBVIOUS
  <2> HIDE DEF ss, tt, n
  <2>2. \A j :
          \/ /\ BlockContents(rs, i, j) = <<>>
             /\ BlockContents(Append(rs, r), i, j) = <<>>
          \/ \E x, y : /\ BlockContents(rs, i, j) = <<x>>
                       /\ BlockContents(Append(rs, r), i, j) = <<y>>
                       /\ SameButResult(x, y)
    BY BlockGrows
  <2> QED
    BY <2>1, <2>2, Zenon
<1>4. ss = [j \in 1..n |-> ss[j]] /\ tt = [j \in 1..n |-> tt[j]]
  OBVIOUS
<1> HIDE DEF n, ss, tt, cs, ds
<1>5. Ones(ss, n, tt, n)
  <2>1. /\ \A j \in 1..n : \/ ss[j] = <<>> /\ tt[j] = <<>>
                          \/ \E x, y : ss[j] = <<x>> /\ tt[j] = <<y>>
        /\ \A j \in 1..n : tt[j] = <<>> \/ \E y : tt[j] = <<y>>
    BY <1>3, Zenon
  <2> QED
    BY <1>1, <1>4, <2>1, Zenon DEF Ones
<1>6. OnesPlaced(cs, ds, ss, n, tt, n)
  BY <1>2, <1>5, OnesGrow
<1>7. ASSUME NEW p \in 1..Len(cs)
      PROVE  SameButResult(cs[p], ds[p])
  <2>1. PICK j \in 1..n : ss[j] = <<cs[p]>> /\ tt[j] = <<ds[p]>>
    BY <1>6 DEF OnesPlaced
  <2>2. <<cs[p]>> # <<>>
    OBVIOUS
  <2>3. PICK x, y : ss[j] = <<x>> /\ tt[j] = <<y>> /\ SameButResult(x, y)
    BY <1>3, <2>1, <2>2, Zenon
  <2>4. x = cs[p] /\ y = ds[p]
    BY <2>1, <2>3
  <2> QED
    BY <2>3, <2>4, Zenon
<1>8. /\ DOMAIN cs = DOMAIN ds /\ (cs = <<>> <=> ds = <<>>)
      /\ DOMAIN cs = 1..Len(cs)
  BY <1>6 DEF OnesPlaced
<1> QED
  BY <1>7, <1>8 DEF cs, ds

LEMMA RecordIs ==
  ASSUME NEW rs, NEW i
  PROVE  RecordEvents(rs, i) = <<>> \/ \E x : RecordEvents(rs, i) = <<x>>
<1>1. \E contents : RecordEvents(rs, i) =
        IF IsResult(rs[i]) \/ rs[i].type = "custom" THEN <<>>
        ELSE IF ~IsMessage(rs[i]) THEN <<rs[i]>>
        ELSE IF contents = <<>> THEN <<>> ELSE <<TurnOf(rs[i].role, contents)>>
  BY Zenon DEF RecordEvents
<1> QED
  BY <1>1, Zenon

LEMMA RecordGrows ==
  ASSUME NEW S, NEW rs \in Seq(S), NEW r \in S, FirstResult(r, rs),
         NEW i \in 1..Len(rs), IsRecord(rs[i])
  PROVE  \/ /\ RecordEvents(rs, i) = <<>>
            /\ RecordEvents(Append(rs, r), i) = <<>>
         \/ \E x, y : /\ RecordEvents(rs, i) = <<x>>
                      /\ RecordEvents(Append(rs, r), i) = <<y>>
                      /\ Grown(x, y)
<1> DEFINE big == Append(rs, r)
           cs == ContentsOf(rs, i)
           ds == ContentsOf(big, i)
<1>1. big[i] = rs[i]
  OBVIOUS
<1>2. CASE IsResult(rs[i])
  BY <1>1, <1>2, Zenon DEF RecordEvents, big
<1>3. CASE IsMessage(rs[i]) /\ ~IsResult(rs[i])
  <2>1. rs[i].blocks \in Seq(ToSet(rs[i].blocks))
    BY <1>3 DEF IsRecord, IsList
  <2>2. /\ DOMAIN cs = DOMAIN ds /\ (cs = <<>> <=> ds = <<>>)
        /\ \A k \in DOMAIN cs : SameButResult(cs[k], ds[k])
    BY <2>1, ContentsGrow
  <2>3. /\ RecordEvents(rs, i) =
             IF cs = <<>> THEN <<>> ELSE <<TurnOf(rs[i].role, cs)>>
        /\ RecordEvents(big, i) =
             IF ds = <<>> THEN <<>> ELSE <<TurnOf(rs[i].role, ds)>>
    <3>1. rs[i].type # "custom"
      BY <1>3 DEF IsMessage
    <3> QED
      BY <1>1, <1>3, <3>1, Zenon DEF RecordEvents
  <2> HIDE DEF cs, ds, big
  <2>4. Grown(TurnOf(rs[i].role, cs), TurnOf(rs[i].role, ds))
    BY <2>2 DEF Grown, TurnOf
  <2> QED
    BY <2>2, <2>3, <2>4, Zenon DEF big
<1>4. CASE ~IsMessage(rs[i])
  <2>1. RecordEvents(big, i) = RecordEvents(rs, i)
    BY <1>1, <1>4, Zenon DEF RecordEvents, IsResult
  <2>2. RecordEvents(rs, i) = <<>> \/ RecordEvents(rs, i) = <<rs[i]>>
    BY <1>4, Zenon DEF RecordEvents, IsResult
  <2>3. rs[i].type # "turn"
    BY DEF IsRecord
  <2>4. Grown(rs[i], rs[i])
    BY <2>3, Zenon DEF Grown
  <2> QED
    BY <2>1, <2>2, <2>4, Zenon DEF big
<1> QED
  BY <1>2, <1>3, <1>4

(* transform.rs:56-67: a record appended takes nothing from what the file    *)
(* said, unless it is a second result of one call.                           *)
LEMMA TransformGrows ==
  ASSUME NEW S, NEW rs \in Seq(S), NEW r \in S, FirstResult(r, rs),
         \A i \in 1..Len(rs) : IsRecord(rs[i])
  PROVE  AllGrown(transform(rs), transform(Append(rs, r)))
<1> DEFINE big == Append(rs, r)
           n == Len(rs)
           ss == [i \in 1..n |-> RecordEvents(rs, i)]
           tt == [i \in 1..(n + 1) |-> RecordEvents(big, i)]
           es == transform(rs)
           fs == transform(big)
<1>1. /\ n \in Nat /\ n + 1 \in Nat /\ n <= n + 1
      /\ DOMAIN rs = 1..n /\ DOMAIN big = 1..(n + 1)
  OBVIOUS
<1>2. es = FlattenSeq(ss) /\ fs = FlattenSeq(tt)
  BY <1>1 DEF transform
<1>3. /\ \A i \in 1..n : ss[i] = <<>> \/ \E x : ss[i] = <<x>>
      /\ \A i \in 1..(n + 1) : tt[i] = <<>> \/ \E x : tt[i] = <<x>>
  BY RecordIs, Zenon
<1>4. \A i \in 1..n :
        \/ ss[i] = <<>> /\ RecordEvents(big, i) = <<>>
        \/ \E x, y : ss[i] = <<x>> /\ RecordEvents(big, i) = <<y>> /\ Grown(x, y)
  <2>1. \A i \in 1..n :
          \/ RecordEvents(rs, i) = <<>> /\ RecordEvents(big, i) = <<>>
          \/ \E x, y : /\ RecordEvents(rs, i) = <<x>>
                       /\ RecordEvents(big, i) = <<y>> /\ Grown(x, y)
    BY RecordGrows
  <2>2. \A i \in 1..n : ss[i] = RecordEvents(rs, i)
    OBVIOUS
  <2> HIDE DEF ss, big, n
  <2> QED
    BY <2>1, <2>2, Zenon
<1>5. \A i \in 1..n : tt[i] = RecordEvents(big, i)
  BY <1>1
<1>6. /\ ss = [i \in 1..n |-> ss[i]] /\ tt = [i \in 1..(n + 1) |-> tt[i]]
  OBVIOUS
<1> HIDE DEF n, ss, tt, es, fs, big
<1>7. \A i \in 1..n :
        \/ ss[i] = <<>> /\ tt[i] = <<>>
        \/ \E x, y : ss[i] = <<x>> /\ tt[i] = <<y>> /\ Grown(x, y)
  BY <1>4, <1>5, Zenon
<1>8. Ones(ss, n, tt, n + 1)
  <2>1. \A i \in 1..n : \/ ss[i] = <<>> /\ tt[i] = <<>>
                       \/ \E x, y : ss[i] = <<x>> /\ tt[i] = <<y>>
    BY <1>7, Zenon
  <2> QED
    BY <1>1, <1>3, <1>6, <2>1, Zenon DEF Ones
<1>9. OnesPlaced(es, fs, ss, n, tt, n + 1)
  BY <1>2, <1>8, OnesGrow
<1>10. ASSUME NEW p \in 1..Len(es)
       PROVE  Grown(es[p], fs[p])
  <2>1. PICK i \in 1..n : ss[i] = <<es[p]>> /\ tt[i] = <<fs[p]>>
    BY <1>9 DEF OnesPlaced
  <2>2. <<es[p]>> # <<>>
    OBVIOUS
  <2>3. PICK x, y : ss[i] = <<x>> /\ tt[i] = <<y>> /\ Grown(x, y)
    BY <1>7, <2>1, <2>2, Zenon
  <2>4. x = es[p] /\ y = fs[p]
    BY <2>1, <2>3
  <2> QED
    BY <2>3, <2>4, Zenon
<1>11. Len(es) <= Len(fs) /\ DOMAIN es = 1..Len(es)
  BY <1>9 DEF OnesPlaced
<1> QED
  BY <1>10, <1>11 DEF AllGrown, es, fs, big

-----------------------------------------------------------------------------
(* From events to the records of a request and back.                         *)

LEMMA GrowsAll ==
  ASSUME NEW n \in Nat, NEW h \in [1..n -> Nat],
         \A i \in 1..n : i + 1 <= n => h[i] < h[i + 1]
  PROVE  \A i, j \in 1..n : i < j => h[i] < h[j]
<1> DEFINE A == {d \in Nat : \A i \in 1..n : i + d + 1 <= n => h[i] < h[i + d + 1]}
<1>1. 0 \in A
  OBVIOUS
<1>2. ASSUME NEW d \in Nat, d \in A, NEW i \in 1..n, i + (d + 1) + 1 <= n
      PROVE  h[i] < h[i + (d + 1) + 1]
  <2>1. /\ i + d + 1 \in 1..n /\ i + d + 1 <= n /\ (i + d + 1) + 1 = i + (d + 1) + 1
        /\ i + (d + 1) + 1 \in 1..n /\ (i + d + 1) + 1 <= n
    BY <1>2
  <2>2. h[i] < h[i + d + 1] /\ h[i + d + 1] < h[i + (d + 1) + 1]
    BY <1>2, <2>1
  <2>3. h[i] \in Nat /\ h[i + d + 1] \in Nat /\ h[i + (d + 1) + 1] \in Nat
    BY <2>1
  <2> QED
    BY <2>2, <2>3
<1>3. \A d \in Nat : d \in A
  <2>1. \A d \in Nat : d \in A => d + 1 \in A
    BY <1>2
  <2> HIDE DEF A
  <2> QED
    BY <1>1, <2>1, Induction
<1>4. ASSUME NEW i \in 1..n, NEW j \in 1..n, i < j
      PROVE  h[i] < h[j]
  <2>1. j - i - 1 \in Nat /\ i + (j - i - 1) + 1 = j /\ i + (j - i - 1) + 1 <= n
    BY <1>4
  <2> QED
    BY <1>3, <2>1
<1> QED
  BY <1>4

(* es stands in rr at the places h, one event at each, and there is nothing  *)
(* between.                                                                  *)
Spread(rr, m, h, es, n) ==
  /\ m \in Nat /\ rr = [p \in 1..m |-> rr[p]]
  /\ n \in Nat /\ es = [i \in 1..n |-> es[i]]
  /\ h \in [1..n -> 1..m] /\ \A i, j \in 1..n : i < j => h[i] < h[j]
  /\ \A i \in 1..n : rr[h[i]] = <<es[i]>>
  /\ \A p \in 1..m : (\E i \in 1..n : p = h[i]) \/ rr[p] = <<>>

LEMMA SpreadFlattens ==
  ASSUME NEW rr, NEW m, NEW h, NEW es, NEW n, Spread(rr, m, h, es, n)
  PROVE  FlattenSeq(rr) = es
<1> DEFINE flat == FlattenSeq(rr)
<1>1. /\ m \in Nat /\ rr = [p \in 1..m |-> rr[p]]
      /\ n \in Nat /\ es = [i \in 1..n |-> es[i]]
      /\ h \in [1..n -> 1..m] /\ \A i, j \in 1..n : i < j => h[i] < h[j]
      /\ \A i \in 1..n : rr[h[i]] = <<es[i]>>
      /\ \A p \in 1..m : (\E i \in 1..n : p = h[i]) \/ rr[p] = <<>>
  BY DEF Spread
<1>2. PICK V : rr \in Seq(Seq(V)) /\ Len(rr) = m
  <2>1. \A p \in 1..m : rr[p] = <<>> \/ \E x : rr[p] = <<x>>
    BY <1>1, Zenon
  <2> QED
    BY <1>1, <2>1, OnesInSeq
<1>3. flat \in Seq(V)
  BY <1>2, FlattenLays
<1>4. PICK at : Lays(at, flat, rr, m)
  BY <1>2, FlattenLays
<1> HIDE DEF flat
<1>5. /\ at \in [1..(m + 1) -> Nat] /\ at[1] = 0 /\ Len(flat) = at[m + 1]
      /\ \A p \in 1..m : at[p + 1] = at[p] + Len(rr[p])
      /\ \A p \in 1..m : \A k \in 1..Len(rr[p]) : flat[at[p] + k] = rr[p][k]
  BY <1>4 DEF Lays
<1>6. \A i \in 1..n : h[i] \in 1..m /\ Len(rr[h[i]]) = 1 /\ rr[h[i]][1] = es[i]
  <2>1. \A i \in 1..n : h[i] \in 1..m /\ rr[h[i]] = <<es[i]>>
    BY <1>1
  <2>2. \A x : Len(<<x>>) = 1 /\ <<x>>[1] = x
    OBVIOUS
  <2> QED
    BY <2>1, <2>2, Zenon
<1> DEFINE Before(p, k) == /\ k \in 0..n
                           /\ \A i \in 1..n : i <= k => h[i] < p
                           /\ \A i \in 1..n : i > k => h[i] >= p
           A == {q \in Nat : q <= m => Before(q + 1, at[q + 1])}
<1>7. ASSUME NEW p \in 1..m, NEW i \in 1..n, h[i] = p, Before(p, at[p])
      PROVE  i = at[p] + 1
  <2>1. at[p] \in 0..n /\ i > at[p]
    BY <1>6, <1>7
  <2>2. CASE at[p] + 1 < i
    <3>1. at[p] + 1 \in 1..n /\ at[p] + 1 > at[p]
      <4> HIDE DEF Before
      <4>1. at[p] \in Nat /\ i \in Nat /\ i <= n /\ n \in Nat
        BY <1>1, <2>1
      <4> QED
        BY <2>2, <4>1
    <3>2. h[at[p] + 1] >= p
      BY <1>7, <3>1
    <3>3. h[at[p] + 1] < h[i]
      BY <1>1, <2>2, <3>1
    <3>4. h[at[p] + 1] \in Nat /\ p \in Nat
      BY <1>6, <3>1
    <3> QED
      BY <1>7, <3>2, <3>3, <3>4
  <2> QED
    BY <2>1, <2>2
<1>8. 0 \in A
  <2>1. \A i \in 1..n : h[i] >= 1
    BY <1>6
  <2> QED
    BY <1>1, <1>5, <2>1
<1>9. ASSUME NEW q \in Nat, q \in A, q + 1 <= m
      PROVE  Before((q + 1) + 1, at[(q + 1) + 1])
  <2> DEFINE p == q + 1
             k == at[p]
  <2>1. p \in 1..m /\ p \in Nat /\ q <= m
    BY <1>1, <1>9
  <2>2. Before(p, k)
    BY <1>9, <2>1
  <2>3. at[p + 1] = k + Len(rr[p])
    BY <1>5, <2>1
  <2> HIDE DEF p, k
  <2>4. k \in 0..n
    BY <2>2
  <2>5. CASE \E i \in 1..n : p = h[i]
    <3>1. PICK i \in 1..n : p = h[i]
      BY <2>5
    <3>2. i = k + 1
      BY <1>7, <2>1, <2>2, <3>1 DEF k
    <3>3. at[p + 1] = k + 1
      BY <1>6, <2>3, <3>1
    <3>4. k + 1 \in 0..n
      BY <2>4, <3>2
    <3>5. ASSUME NEW j \in 1..n, j <= k + 1
          PROVE  h[j] < p + 1
      <4>1. j = k + 1 \/ j <= k
        BY <2>4, <3>5
      <4>2. h[j] = p \/ h[j] < p
        BY <2>2, <3>1, <3>2, <4>1
      <4> QED
        BY <1>6, <2>1, <4>2
    <3>6. ASSUME NEW j \in 1..n, j > k + 1
          PROVE  h[j] >= p + 1
      <4>1. h[i] < h[j]
        BY <1>1, <3>2, <3>6
      <4> QED
        BY <1>6, <2>1, <3>1, <4>1
    <3> QED
      BY <3>3, <3>4, <3>5, <3>6 DEF p
  <2>6. CASE ~\E i \in 1..n : p = h[i]
    <3>1. rr[p] = <<>>
      BY <1>1, <2>1, <2>6
    <3>2. at[p + 1] = k
      BY <2>3, <2>4, <3>1
    <3>3. ASSUME NEW j \in 1..n, j <= k
          PROVE  h[j] < p + 1
      <4>1. h[j] < p
        BY <2>2, <3>3
      <4> QED
        BY <1>6, <2>1, <4>1
    <3>4. ASSUME NEW j \in 1..n, j > k
          PROVE  h[j] >= p + 1
      <4>1. h[j] >= p /\ h[j] # p
        BY <2>2, <2>6, <3>4
      <4> QED
        BY <1>6, <2>1, <4>1
    <3> QED
      BY <2>4, <3>2, <3>3, <3>4 DEF p
  <2> QED
    BY <2>5, <2>6
<1>10. \A q \in Nat : q <= m => Before(q + 1, at[q + 1])
  <2>1. \A q \in Nat : q \in A => q + 1 \in A
    BY <1>9
  <2>2. \A q \in Nat : q \in A
    <3> HIDE DEF A
    <3> QED
      BY <1>8, <2>1, Induction
  <2> QED
    BY <2>2
<1>11. \A p \in 1..(m + 1) : Before(p, at[p])
  <2>1. \A p \in 1..(m + 1) : p - 1 \in Nat /\ p - 1 <= m /\ (p - 1) + 1 = p
    BY <1>1
  <2> HIDE DEF Before
  <2> QED
    BY <1>10, <2>1
<1>12. Len(flat) = n
  <2>1. at[m + 1] \in 0..n /\ \A i \in 1..n : i > at[m + 1] => h[i] >= m + 1
    <3>1. m + 1 \in 1..(m + 1)
      BY <1>1
    <3>2. Before(m + 1, at[m + 1])
      <4> HIDE DEF Before
      <4> QED
        BY <1>11, <3>1
    <3> QED
      BY <3>2
  <2>2. CASE at[m + 1] # n
    <3>1. n \in 1..n /\ n > at[m + 1]
      BY <1>1, <2>1, <2>2
    <3>2. h[n] >= m + 1 /\ h[n] \in 1..m
      BY <1>6, <2>1, <3>1
    <3> QED
      BY <1>1, <3>2
  <2> QED
    BY <1>5, <2>2
<1>13. ASSUME NEW i \in 1..n
       PROVE  flat[i] = es[i]
  <2>1. h[i] \in 1..m /\ h[i] \in 1..(m + 1) /\ 1 \in 1..Len(rr[h[i]])
    <3>1. h[i] \in 1..m /\ Len(rr[h[i]]) = 1
      BY <1>6
    <3>2. 1 \in 1..1 /\ \A q \in 1..m : q \in 1..(m + 1)
      BY <1>1
    <3> QED
      BY <3>1, <3>2
  <2>2. i = at[h[i]] + 1
    BY <1>7, <1>11, <2>1
  <2>3. flat[at[h[i]] + 1] = rr[h[i]][1]
    BY <1>5, <2>1
  <2> QED
    BY <1>6, <2>2, <2>3
<1>14. flat = [i \in 1..n |-> flat[i]]
  BY <1>3, <1>12
<1> QED
  BY <1>1, <1>13, <1>14 DEF flat

(* What a turn consists of, and what an event is.                            *)
IsOutcome(result) ==
  result = <<>> \/ \E text, error : IsList(text) /\ result = <<Result(text, error)>>
IsContent(c) ==
  \/ \E text : IsList(text) /\ (c = Says(text) \/ c = Thinking(text))
  \/ \E name, args, result : IsOutcome(result) /\ c = Tool(name, args, result)
IsTurn(e) ==
  /\ e = TurnOf(e.role, e.contents) /\ e.role # "toolResult"
  /\ e.contents \in Seq(ToSet(e.contents)) /\ e.contents # <<>>
  /\ \A j \in 1..Len(e.contents) : IsContent(e.contents[j])
IsEvent(e) ==
  \/ e.type \in {"session", "model", "level"} /\ e = Mark(e.type, e.of)
  \/ e.type = "compaction" /\ e = Compaction(e.text) /\ IsList(e.text)
  \/ IsTurn(e)
AreEvents(es) == es \in Seq(ToSet(es)) /\ \A i \in 1..Len(es) : IsEvent(es[i])

LEMMA OwnSeq ==
  ASSUME NEW V, NEW s \in Seq(V)
  PROVE  s \in Seq(ToSet(s)) /\ Len(s) \in Nat /\ DOMAIN s = 1..Len(s)
<1>1. s = [i \in 1..Len(s) |-> s[i]] /\ Len(s) \in Nat /\ DOMAIN s = 1..Len(s)
  OBVIOUS
<1>2. \A i \in 1..Len(s) : s[i] \in ToSet(s)
  BY <1>1 DEF ToSet
<1> QED
  BY <1>1, <1>2

LEMMA ListOfOne == \A x : IsList(<<x>>)
<1> SUFFICES ASSUME NEW x
             PROVE  IsList(<<x>>)
  OBVIOUS
<1>1. <<x>> \in Seq({x})
  OBVIOUS
<1> QED
  BY <1>1, OwnSeq DEF IsList

LEMMA ListJoined ==
  ASSUME NEW s, NEW t, IsList(s), IsList(t)
  PROVE  IsList(s \o t) /\ (s # <<>> => s \o t # <<>>)
<1> DEFINE V == ToSet(s) \cup ToSet(t)
<1>1. s \in Seq(V) /\ t \in Seq(V)
  BY DEF IsList
<1> HIDE DEF V
<1>2. s \o t \in Seq(V) /\ Len(s \o t) = Len(s) + Len(t)
  BY <1>1
<1>3. s # <<>> => Len(s) # 0
  BY <1>1
<1>4. Len(s) \in Nat /\ Len(t) \in Nat /\ Len(<<>>) = 0
  BY <1>1
<1>5. s # <<>> => s \o t # <<>>
  BY <1>2, <1>3, <1>4
<1> QED
  BY <1>2, <1>5, OwnSeq DEF IsList

LEMMA ListCut ==
  ASSUME NEW s, IsList(s), s # <<>>
  PROVE  IsList(Tail(s))
<1>1. s \in Seq(ToSet(s))
  BY DEF IsList
<1>2. Tail(s) \in Seq(ToSet(s))
  BY <1>1, HeadTailProperties
<1> QED
  BY <1>2, OwnSeq DEF IsList

LEMMA EmptyIsList == IsList(<<>>)
BY DEF IsList

LEMMA ListGrows ==
  ASSUME NEW s, IsList(s), NEW x
  PROVE  IsList(Append(s, x))
<1> DEFINE V == ToSet(s) \cup {x}
<1>1. s \in Seq(V) /\ x \in V
  BY DEF IsList
<1> HIDE DEF V
<1>2. Append(s, x) \in Seq(V)
  BY <1>1
<1> QED
  BY <1>2, OwnSeq DEF IsList

LEMMA PartIsList ==
  ASSUME NEW s, IsList(s), NEW a \in Nat, NEW b \in Nat, a >= 1, b <= Len(s)
  PROVE  IsList(SubSeq(s, a, b))
<1>1. s \in Seq(ToSet(s)) /\ Len(s) \in Nat
  BY DEF IsList
<1>2. \A i \in a..b : s[i] \in ToSet(s)
  BY <1>1 DEF ToSet
<1>3. SubSeq(s, a, b) \in Seq(ToSet(s))
  BY <1>1, <1>2, SubSeqProperties
<1> QED
  BY <1>3, OwnSeq DEF IsList

LEMMA TrimIsList ==
  ASSUME NEW text, IsList(text)
  PROVE  IsList(Trim(text))
<1> DEFINE n == Len(text)
           full == {i \in DOMAIN text : text[i] # Blank}
           a == CHOOSE i \in full : \A j \in full : i <= j
           b == CHOOSE i \in full : \A j \in full : i >= j
<1>1. n \in Nat /\ DOMAIN text = 1..n
  BY OwnSeq DEF IsList
<1>2. full \in SUBSET (1..n) /\ full \in SUBSET Nat
  BY <1>1
<1>3. Trim(text) = IF full = {} THEN <<>> ELSE SubSeq(text, a, b)
  BY Zenon DEF Trim
<1>4. CASE full = {}
  BY <1>3, <1>4, EmptyIsList
<1>5. CASE full # {}
  <2> HIDE DEF full
  <2>1. a \in full
    <3>1. \E x \in full : \A y \in full : x <= y
      BY <1>2, <1>5, LeastNumber
    <3> QED
      BY <3>1
  <2>2. b \in full
    <3>1. \E x \in full : \A y \in full : x >= y
      BY <1>1, <1>2, <1>5, GreatestNumber
    <3> QED
      BY <3>1
  <2> HIDE DEF a, b
  <2>3. a \in Nat /\ b \in Nat /\ a >= 1 /\ b <= n
    BY <1>1, <1>2, <2>1, <2>2
  <2>4. IsList(SubSeq(text, a, b))
    BY <2>3, PartIsList
  <2> QED
    BY <1>3, <1>5, <2>4
<1> QED
  BY <1>4, <1>5

LEMMA ContentKinds ==
  ASSUME NEW c, IsContent(c)
  PROVE  \/ c.type = "text" /\ c = Says(c.text) /\ IsList(c.text)
         \/ c.type = "thinking" /\ c = Thinking(c.text) /\ IsList(c.text)
         \/ /\ c.type = "tool" /\ c = Tool(c.name, c.args, c.result)
            /\ \/ c.result = <<>>
               \/ /\ c.result = <<Result(c.result[1].text, c.result[1].error)>>
                  /\ IsList(c.result[1].text)
<1>1. CASE \E text : IsList(text) /\ c = Says(text)
  BY <1>1 DEF Says
<1>2. CASE \E text : IsList(text) /\ c = Thinking(text)
  BY <1>2 DEF Thinking
<1>3. CASE \E name, args, result : IsOutcome(result) /\ c = Tool(name, args, result)
  <2>1. PICK name, args, result : IsOutcome(result) /\ c = Tool(name, args, result)
    BY <1>3
  <2>2. /\ c.type = "tool" /\ c.name = name /\ c.args = args /\ c.result = result
    BY <2>1 DEF Tool
  <2>3. ASSUME NEW text, NEW error, IsList(text), result = <<Result(text, error)>>
        PROVE  /\ result = <<Result(result[1].text, result[1].error)>>
               /\ IsList(result[1].text)
    BY <2>3 DEF Result
  <2> QED
    BY <2>1, <2>2, <2>3 DEF IsOutcome
<1> QED
  BY <1>1, <1>2, <1>3 DEF IsContent

(* What to_wire writes for one call and for one event.                       *)
HasResult(c) == c.type = "tool" /\ c.result # <<>>
ResultFor(c) ==
  ResultMessage(<<"tc", c.name>>, c.result[1].text, c.result[1].error)
ResultsFor(c) == IF HasResult(c) THEN <<ResultFor(c)>> ELSE <<>>
HeadOf(e) ==
  IF e.type # "turn" THEN e
  ELSE MessageOf(e.role, [j \in DOMAIN e.contents |-> WireBlock(e.contents[j])])
WireOf(e) ==
  IF e.type # "turn" THEN <<HeadOf(e)>> ELSE <<HeadOf(e)>> \o WireResults(e.contents)

(* s holds the results of the contents cs, and nothing else.                 *)
HoldsResults(s, cs) ==
  /\ s \in Seq(ToSet(s))
  /\ \A k \in 1..Len(s) : \E j \in 1..Len(cs) : HasResult(cs[j]) /\ s[k] = ResultFor(cs[j])
  /\ \A j \in 1..Len(cs) : HasResult(cs[j]) => \E k \in 1..Len(s) : s[k] = ResultFor(cs[j])

LEMMA ResultsAreHeld ==
  ASSUME NEW cs, cs \in Seq(ToSet(cs))
  PROVE  HoldsResults(WireResults(cs), cs)
<1> DEFINE n == Len(cs)
           ss == [j \in 1..n |-> ResultsFor(cs[j])]
           wr == FlattenSeq(ss)
<1>1. n \in Nat /\ DOMAIN cs = 1..n
  OBVIOUS
<1>2. WireResults(cs) = wr
  <2>1. \A c : ResultsFor(c) =
          IF c.type # "tool" THEN <<>> ELSE IF c.result = <<>> THEN <<>>
          ELSE <<ResultMessage(<<"tc", c.name>>, c.result[1].text, c.result[1].error)>>
    BY DEF ResultsFor, HasResult, ResultFor
  <2>2. ss = [j \in DOMAIN cs |->
          IF cs[j].type # "tool" THEN <<>> ELSE IF cs[j].result = <<>> THEN <<>>
          ELSE <<ResultMessage(<<"tc", cs[j].name>>, cs[j].result[1].text,
                               cs[j].result[1].error)>>]
    BY <1>1, <2>1, Zenon
  <2> HIDE DEF ss
  <2> QED
    BY <2>2, Zenon DEF WireResults
<1>3. \A j \in 1..n : ss[j] = ResultsFor(cs[j])
  OBVIOUS
<1>4. PICK V : ss \in Seq(Seq(V)) /\ Len(ss) = n
  <2>1. \A j \in 1..n : ss[j] = <<>> \/ \E x : ss[j] = <<x>>
    BY <1>3, Zenon DEF ResultsFor
  <2>2. ss = [j \in 1..n |-> ss[j]]
    OBVIOUS
  <2> HIDE DEF ss, n
  <2> QED
    BY <1>1, <2>1, <2>2, OnesInSeq
<1> HIDE DEF n, ss
<1>5. wr \in Seq(V)
  BY <1>4, FlattenLays
<1>6. PICK at : Lays(at, wr, ss, n)
  BY <1>4, FlattenLays
<1> HIDE DEF wr
<1>7. /\ wr \in Seq(ToSet(wr))
      /\ \A j \in 1..n : \A k \in 1..Len(ss[j]) :
           at[j] + k \in 1..Len(wr) /\ wr[at[j] + k] = ss[j][k]
      /\ \A p \in 1..Len(wr) :
           \E j \in 1..n : \E k \in 1..Len(ss[j]) : p = at[j] + k
  BY <1>5, <1>6, OwnSeq DEF Lays
<1>8. \A x : Len(<<x>>) = 1 /\ <<x>>[1] = x /\ 1 \in 1..1 /\ \A k \in 1..1 : k = 1
  OBVIOUS
<1>9. ASSUME NEW p \in 1..Len(wr)
      PROVE  \E j \in 1..n : HasResult(cs[j]) /\ wr[p] = ResultFor(cs[j])
  <2>1. PICK j \in 1..n : \E k \in 1..Len(ss[j]) : p = at[j] + k
    BY <1>7
  <2>2. PICK k \in 1..Len(ss[j]) : p = at[j] + k
    BY <2>1
  <2>3. wr[p] = ss[j][k]
    BY <1>7, <2>2
  <2>4. Len(<<>>) = 0 /\ 1..0 = {}
    OBVIOUS
  <2>5. HasResult(cs[j])
    BY <1>3, <2>2, <2>4 DEF ResultsFor
  <2>6. ss[j] = <<ResultFor(cs[j])>>
    BY <1>3, <2>5 DEF ResultsFor
  <2> QED
    BY <1>8, <2>2, <2>3, <2>5, <2>6
<1>10. ASSUME NEW j \in 1..n, HasResult(cs[j])
       PROVE  \E p \in 1..Len(wr) : wr[p] = ResultFor(cs[j])
  <2>1. ss[j] = <<ResultFor(cs[j])>>
    BY <1>3, <1>10 DEF ResultsFor
  <2>2. 1 \in 1..Len(ss[j]) /\ ss[j][1] = ResultFor(cs[j])
    BY <1>8, <2>1
  <2> QED
    BY <1>7, <2>2
<1> QED
  BY <1>2, <1>7, <1>9, <1>10 DEF HoldsResults, n

(* The first record is the event's own, the others its results.              *)
IsWire(s, e) ==
  /\ s \in Seq(ToSet(s)) /\ 1 \in 1..Len(s) /\ s[1] = HeadOf(e)
  /\ \A k \in 1..Len(s) : k # 1 =>
       \E j \in ToolsOf(e) : HasResult(e.contents[j]) /\ s[k] = ResultFor(e.contents[j])
  /\ \A j \in ToolsOf(e) : HasResult(e.contents[j]) =>
       \E k \in 1..Len(s) : s[k] = ResultFor(e.contents[j])

LEMMA WireIs ==
  ASSUME NEW e, IsEvent(e)
  PROVE  IsWire(WireOf(e), e)
<1> DEFINE s == WireOf(e)
           cs == e.contents
           wr == WireResults(cs)
           hd == HeadOf(e)
<1>1. CASE e.type # "turn"
  <2>1. ToolsOf(e) = {} /\ s = <<hd>>
    BY <1>1 DEF ToolsOf, WireOf
  <2> HIDE DEF s, hd
  <2>2. s \in Seq({hd}) /\ Len(s) = 1 /\ s[1] = hd /\ 1 \in 1..1 /\ \A k \in 1..1 : k = 1
    BY <2>1
  <2>3. s \in Seq(ToSet(s))
    BY <2>2, OwnSeq
  <2> QED
    BY <2>1, <2>2, <2>3 DEF IsWire, s, hd
<1>2. CASE e.type = "turn"
  <2>1. IsTurn(e)
    BY <1>2 DEF IsEvent
  <2>2. cs \in Seq(ToSet(cs)) /\ Len(cs) \in Nat /\ DOMAIN cs = 1..Len(cs)
    BY <2>1, OwnSeq DEF IsTurn
  <2>3. HoldsResults(wr, cs)
    BY <2>2, ResultsAreHeld
  <2>4. ToolsOf(e) = {j \in 1..Len(cs) : cs[j].type = "tool"}
    BY <1>2, <2>2 DEF ToolsOf
  <2>5. s = <<hd>> \o wr
    BY <1>2 DEF WireOf
  <2> HIDE DEF s, hd, cs, wr
  <2>6. /\ wr \in Seq(ToSet(wr))
        /\ \A k \in 1..Len(wr) : \E j \in ToolsOf(e) : HasResult(cs[j]) /\ wr[k] = ResultFor(cs[j])
        /\ \A j \in ToolsOf(e) : HasResult(cs[j]) => \E k \in 1..Len(wr) : wr[k] = ResultFor(cs[j])
    BY <2>3, <2>4 DEF HoldsResults, HasResult
  <2> DEFINE V == {hd} \cup ToSet(wr)
  <2>7. <<hd>> \in Seq(V) /\ wr \in Seq(V) /\ Len(wr) \in Nat
    BY <2>6
  <2>8. /\ s \in Seq(V) /\ Len(s) = Len(wr) + 1 /\ s[1] = hd
        /\ \A k \in 1..Len(wr) : s[k + 1] = wr[k]
    <3> HIDE DEF V
    <3> QED
      BY <2>5, <2>7
  <2>9. s \in Seq(ToSet(s))
    BY <2>8, OwnSeq
  <2>10. ASSUME NEW k \in 1..Len(s), k # 1
         PROVE  \E j \in ToolsOf(e) : HasResult(cs[j]) /\ s[k] = ResultFor(cs[j])
    <3>1. k - 1 \in 1..Len(wr) /\ (k - 1) + 1 = k
      BY <2>7, <2>8, <2>10
    <3>2. s[k] = wr[k - 1]
      BY <2>8, <3>1
    <3> QED
      BY <2>6, <3>1, <3>2
  <2>11. ASSUME NEW j \in ToolsOf(e), HasResult(cs[j])
         PROVE  \E k \in 1..Len(s) : s[k] = ResultFor(cs[j])
    <3>1. PICK k \in 1..Len(wr) : wr[k] = ResultFor(cs[j])
      BY <2>6, <2>11
    <3>2. k + 1 \in 1..Len(s) /\ s[k + 1] = wr[k]
      BY <2>7, <2>8
    <3> QED
      BY <3>1, <3>2
  <2>12. 1 \in 1..Len(s)
    BY <2>7, <2>8
  <2> QED
    BY <2>8, <2>9, <2>10, <2>11, <2>12 DEF IsWire, s, hd, cs
<1> QED
  BY <1>1, <1>2

LEMMA SeqOfSeqs ==
  ASSUME NEW n \in Nat, NEW ss, ss = [i \in 1..n |-> ss[i]],
         \A i \in 1..n : ss[i] \in Seq(ToSet(ss[i]))
  PROVE  \E V : ss \in Seq(Seq(V)) /\ Len(ss) = n
<1> DEFINE V == UNION {ToSet(ss[i]) : i \in 1..n}
<1>1. ASSUME NEW i \in 1..n
      PROVE  ss[i] \in Seq(V)
  <2>1. ToSet(ss[i]) \subseteq V
    OBVIOUS
  <2> HIDE DEF V
  <2> QED
    BY <2>1
<1> HIDE DEF V
<1>2. ss \in [1..n -> Seq(V)]
  BY <1>1
<1>3. ss \in Seq(Seq(V)) /\ Len(ss) = n
  BY <1>2
<1> QED
  BY <1>3

(* w is what es is written as: the event i is told by the record at h[i],    *)
(* all others are results of calls, and every result is there.               *)
Wired(w, h, es, n) ==
  /\ n \in Nat /\ es = [i \in 1..n |-> es[i]]
  /\ w \in Seq(ToSet(w))
  /\ h \in [1..n -> 1..Len(w)] /\ \A i, k \in 1..n : i < k => h[i] < h[k]
  /\ \A i \in 1..n : w[h[i]] = HeadOf(es[i])
  /\ \A p \in 1..Len(w) :
       \/ \E i \in 1..n : p = h[i]
       \/ \E i \in 1..n : \E j \in ToolsOf(es[i]) :
            HasResult(es[i].contents[j]) /\ w[p] = ResultFor(es[i].contents[j])
  /\ \A i \in 1..n : \A j \in ToolsOf(es[i]) :
       HasResult(es[i].contents[j]) =>
         \E p \in 1..Len(w) : w[p] = ResultFor(es[i].contents[j])

LEMMA EventsAreWired ==
  ASSUME NEW es, AreEvents(es)
  PROVE  \E h : Wired(to_wire(es), h, es, Len(es))
<1> DEFINE n == Len(es)
           ss == [i \in 1..n |-> WireOf(es[i])]
           w == FlattenSeq(ss)
<1>1. n \in Nat /\ DOMAIN es = 1..n /\ es = [i \in 1..n |-> es[i]]
  BY DEF AreEvents
<1>2. to_wire(es) = w
  <2>1. \A e : WireOf(e) =
          IF e.type # "turn" THEN <<e>>
          ELSE <<MessageOf(e.role, [j \in DOMAIN e.contents |-> WireBlock(e.contents[j])])>>
                  \o WireResults(e.contents)
    BY Zenon DEF WireOf, HeadOf
  <2>2. ss = [i \in DOMAIN es |->
          IF es[i].type # "turn" THEN <<es[i]>>
          ELSE <<MessageOf(es[i].role,
                    [j \in DOMAIN es[i].contents |-> WireBlock(es[i].contents[j])])>>
                  \o WireResults(es[i].contents)]
    BY <1>1, <2>1, Zenon
  <2> HIDE DEF ss
  <2> QED
    BY <2>2, Zenon DEF to_wire
<1>3. \A i \in 1..n : IsWire(ss[i], es[i])
  <2>1. \A i \in 1..n : ss[i] = WireOf(es[i])
    OBVIOUS
  <2>2. \A i \in 1..n : IsEvent(es[i])
    BY DEF AreEvents
  <2> HIDE DEF ss
  <2> QED
    BY <2>1, <2>2, WireIs
<1>4. PICK V : ss \in Seq(Seq(V)) /\ Len(ss) = n
  <2>1. ss = [i \in 1..n |-> ss[i]]
    OBVIOUS
  <2>2. \A i \in 1..n : ss[i] \in Seq(ToSet(ss[i]))
    BY <1>3, Zenon DEF IsWire
  <2> HIDE DEF ss, n
  <2> QED
    BY <1>1, <2>1, <2>2, SeqOfSeqs
<1> HIDE DEF n, ss
<1>5. w \in Seq(V)
  BY <1>4, FlattenLays
<1>6. PICK at : Lays(at, w, ss, n)
  BY <1>4, FlattenLays
<1> HIDE DEF w
<1>7. /\ at \in [1..(n + 1) -> Nat]
      /\ \A i \in 1..n : at[i + 1] = at[i] + Len(ss[i])
      /\ \A i \in 1..n : \A k \in 1..Len(ss[i]) :
           at[i] + k \in 1..Len(w) /\ w[at[i] + k] = ss[i][k]
      /\ \A p \in 1..Len(w) :
           \E i \in 1..n : \E k \in 1..Len(ss[i]) : p = at[i] + k
      /\ w \in Seq(ToSet(w))
  BY <1>5, <1>6, OwnSeq DEF Lays
<1>8. \A i \in 1..n : 1 \in 1..Len(ss[i]) /\ ss[i][1] = HeadOf(es[i])
  BY <1>3 DEF IsWire
<1> DEFINE h == [i \in 1..n |-> at[i] + 1]
<1>9. \A i \in 1..n : h[i] = at[i] + 1 /\ at[i] \in Nat /\ at[i + 1] \in Nat
                       /\ Len(ss[i]) \in Nat
  <2>1. \A i \in 1..n : i \in 1..(n + 1) /\ i + 1 \in 1..(n + 1)
    BY <1>1
  <2>2. \A i \in 1..n : ss[i] \in Seq(V)
    BY <1>4
  <2>3. \A i \in 1..n : Len(ss[i]) \in Nat
    BY <2>2
  <2> QED
    BY <1>7, <2>1, <2>3
<1>10. h \in [1..n -> 1..Len(w)]
  BY <1>7, <1>8
<1> HIDE DEF h
<1>11. \A i, k \in 1..n : i < k => h[i] < h[k]
  <2>1. ASSUME NEW i \in 1..n, i + 1 <= n
        PROVE  h[i] < h[i + 1]
    <3>1. i + 1 \in 1..n
      BY <2>1
    <3>2. h[i] = at[i] + 1 /\ h[i + 1] = at[i] + Len(ss[i]) + 1
      BY <1>7, <1>9, <3>1
    <3>3. Len(ss[i]) >= 1 /\ Len(ss[i]) \in Nat /\ at[i] \in Nat
      BY <1>8, <1>9
    <3> QED
      BY <3>2, <3>3
  <2>2. h \in [1..n -> Nat]
    BY <1>10
  <2> QED
    BY <1>1, <2>1, <2>2, GrowsAll
<1>12. \A i \in 1..n : w[h[i]] = HeadOf(es[i])
  BY <1>7, <1>8, <1>9
<1>13. ASSUME NEW p \in 1..Len(w), ~\E i \in 1..n : p = h[i]
       PROVE  \E i \in 1..n : \E j \in ToolsOf(es[i]) :
                HasResult(es[i].contents[j]) /\ w[p] = ResultFor(es[i].contents[j])
  <2>1. PICK i \in 1..n : \E k \in 1..Len(ss[i]) : p = at[i] + k
    BY <1>7
  <2>2. PICK k \in 1..Len(ss[i]) : p = at[i] + k
    BY <2>1
  <2>3. k # 1
    BY <1>9, <1>13, <2>2
  <2>4. w[p] = ss[i][k]
    BY <1>7, <2>2
  <2> QED
    BY <1>3, <2>3, <2>4 DEF IsWire
<1>14. ASSUME NEW i \in 1..n, NEW j \in ToolsOf(es[i]), HasResult(es[i].contents[j])
       PROVE  \E p \in 1..Len(w) : w[p] = ResultFor(es[i].contents[j])
  <2>1. PICK k \in 1..Len(ss[i]) : ss[i][k] = ResultFor(es[i].contents[j])
    BY <1>3, <1>14 DEF IsWire
  <2> QED
    BY <1>7, <2>1
<1>15. Wired(w, h, es, n)
  BY <1>1, <1>7, <1>10, <1>11, <1>12, <1>13, <1>14, Zenon DEF Wired
<1> QED
  BY <1>2, <1>15 DEF n

LEMMA HeadIs ==
  ASSUME NEW e, IsEvent(e)
  PROVE  /\ ~IsResult(HeadOf(e)) /\ CallsOf(HeadOf(e)) = ToolsOf(e)
         /\ \A j \in ToolsOf(e) : HeadOf(e).blocks[j].id = <<"tc", e.contents[j].name>>
<1>1. CASE e.type # "turn"
  <2>1. HeadOf(e) = e /\ ToolsOf(e) = {} /\ e.type # "message"
    BY <1>1 DEF HeadOf, ToolsOf, IsEvent, IsTurn, TurnOf
  <2> QED
    BY <2>1 DEF CallsOf, IsResult, IsMessage
<1>2. CASE e.type = "turn"
  <2> DEFINE cs == e.contents
             bs == [j \in DOMAIN cs |-> WireBlock(cs[j])]
  <2>1. IsTurn(e) /\ HeadOf(e) = MessageOf(e.role, bs)
    BY <1>2 DEF IsEvent, HeadOf
  <2>2. DOMAIN cs = 1..Len(cs) /\ \A j \in DOMAIN cs : IsContent(cs[j])
    BY <2>1 DEF IsTurn
  <2>3. /\ DOMAIN bs = DOMAIN cs
        /\ \A j \in DOMAIN cs : bs[j] = WireBlock(cs[j])
    OBVIOUS
  <2> HIDE DEF bs
  <2>4. /\ HeadOf(e).type = "message" /\ HeadOf(e).role = e.role
        /\ HeadOf(e).blocks = bs /\ e.role # "toolResult"
    BY <2>1 DEF MessageOf, IsTurn
  <2>5. ToolsOf(e) = {j \in DOMAIN cs : cs[j].type = "tool"}
    BY <1>2 DEF ToolsOf
  <2>6. \A j \in DOMAIN cs : bs[j].type = "toolCall" <=> cs[j].type = "tool"
    <3>1. ASSUME NEW c, IsContent(c)
          PROVE  WireBlock(c).type = "toolCall" <=> c.type = "tool"
      <4>1. c.type \in {"text", "thinking", "tool"}
        BY <3>1, ContentKinds
      <4>2. CASE c.type = "tool"
        BY <4>2 DEF WireBlock
      <4>3. CASE c.type # "tool"
        BY <4>1, <4>3 DEF WireBlock
      <4> QED
        BY <4>2, <4>3
    <3> QED
      BY <2>2, <2>3, <3>1
  <2>7. \A j \in ToolsOf(e) : bs[j].id = <<"tc", cs[j].name>>
    <3>1. ASSUME NEW c, c.type = "tool"
          PROVE  WireBlock(c).id = <<"tc", c.name>>
      BY <3>1 DEF WireBlock
    <3> QED
      BY <2>3, <2>5, <3>1
  <2>8. ~IsResult(HeadOf(e))
    BY <2>4 DEF IsResult
  <2>9. CallsOf(HeadOf(e)) = {j \in DOMAIN bs : bs[j].type = "toolCall"}
    BY <2>4, <2>8, Zenon DEF CallsOf, IsMessage
  <2> QED
    BY <2>3, <2>4, <2>5, <2>6, <2>7, <2>8, <2>9, Zenon
<1> QED
  BY <1>1, <1>2

(* The call c, block j of record p, is the first of its id in w, and what w   *)
(* has for that id is its result.                                            *)
OwnResult(w, p, j, c) ==
  /\ ~Taken(w, p, j, <<"tc", c.name>>)
  /\ \A q \in 1..Len(w) :
       IsResult(w[q]) /\ w[q].call = <<"tc", c.name>> =>
         HasResult(c) /\ w[q] = ResultFor(c)
  /\ HasResult(c) => \E q \in 1..Len(w) : w[q] = ResultFor(c)

WiredOnce(w, h, es, n) == Wired(w, h, es, n) /\ AreEvents(es) /\ OneCallEach(es)

LEMMA WiredCalls ==
  ASSUME NEW w, NEW h, NEW es, NEW n, WiredOnce(w, h, es, n)
  PROVE  \A i \in 1..n : \A j \in ToolsOf(es[i]) :
           OwnResult(w, h[i], j, es[i].contents[j])
<1> SUFFICES ASSUME NEW i \in 1..n, NEW j \in ToolsOf(es[i])
             PROVE  OwnResult(w, h[i], j, es[i].contents[j])
  OBVIOUS
<1>0. Wired(w, h, es, n) /\ AreEvents(es) /\ OneCallEach(es)
  BY DEF WiredOnce
<1> DEFINE c == es[i].contents[j]
           id == <<"tc", c.name>>
<1>1. /\ n \in Nat /\ es = [k \in 1..n |-> es[k]] /\ Len(w) \in Nat
      /\ h \in [1..n -> 1..Len(w)]
      /\ \A k \in 1..n : w[h[k]] = HeadOf(es[k])
      /\ \A p \in 1..Len(w) :
           \/ \E k \in 1..n : p = h[k]
           \/ \E k \in 1..n : \E l \in ToolsOf(es[k]) :
                HasResult(es[k].contents[l]) /\ w[p] = ResultFor(es[k].contents[l])
      /\ \A k \in 1..n : \A l \in ToolsOf(es[k]) :
           HasResult(es[k].contents[l]) =>
             \E p \in 1..Len(w) : w[p] = ResultFor(es[k].contents[l])
  <2>1. w \in Seq(ToSet(w))
    BY <1>0, Zenon DEF Wired
  <2>2. Len(w) \in Nat
    BY <2>1
  <2> QED
    BY <1>0, <2>2, Zenon DEF Wired
<1>2. \A k \in 1..n : IsEvent(es[k])
  <2>1. Len(es) = n
    BY <1>1
  <2> QED
    BY <1>0, <2>1 DEF AreEvents
<1>3. \A k \in 1..n :
        /\ ~IsResult(w[h[k]]) /\ CallsOf(w[h[k]]) = ToolsOf(es[k])
        /\ \A l \in ToolsOf(es[k]) : w[h[k]].blocks[l].id = <<"tc", es[k].contents[l].name>>
  BY <1>1, <1>2, HeadIs
<1>4. \A d : /\ IsResult(ResultFor(d)) /\ CallsOf(ResultFor(d)) = {}
             /\ ResultFor(d).call = <<"tc", d.name>>
  BY DEF ResultFor, ResultMessage, IsResult, IsMessage, CallsOf
<1>5. ASSUME NEW k \in 1..n, NEW l \in ToolsOf(es[k]), <<"tc", es[k].contents[l].name>> = id
      PROVE  k = i /\ l = j
  <2>1. es[k].contents[l].name = c.name
    BY <1>5
  <2>2. DOMAIN es = 1..n
    BY <1>1
  <2> QED
    BY <1>0, <2>1, <2>2 DEF OneCallEach
<1> HIDE DEF c, id
<1>6. ASSUME Taken(w, h[i], j, id)
      PROVE  FALSE
  <2>1. PICK p \in 1..h[i] : \E l \in CallsOf(w[p]) :
               /\ w[p].blocks[l].id = id
               /\ p < h[i] \/ l < j
    BY <1>6, Zenon DEF Taken
  <2>2. PICK l \in CallsOf(w[p]) : /\ w[p].blocks[l].id = id
                                   /\ p < h[i] \/ l < j
    BY <2>1
  <2>3. h[i] \in 1..Len(w) /\ p \in 1..Len(w)
    BY <1>1
  <2>4. PICK k \in 1..n : p = h[k]
    BY <1>1, <1>4, <2>2, <2>3, Zenon
  <2>5. l \in ToolsOf(es[k]) /\ <<"tc", es[k].contents[l].name>> = id
    BY <1>3, <2>2, <2>4, Zenon
  <2>6. k = i /\ l = j
    BY <1>5, <2>5
  <2>7. j \in Nat
    <3>1. ToolsOf(es[i]) = {} \/ DOMAIN es[i].contents = 1..Len(es[i].contents)
      BY <1>2 DEF ToolsOf, IsEvent, IsTurn
    <3> QED
      BY <3>1 DEF ToolsOf
  <2> QED
    BY <2>2, <2>3, <2>4, <2>6, <2>7
<1>7. ASSUME NEW p \in 1..Len(w), IsResult(w[p]), w[p].call = id
      PROVE  HasResult(c) /\ w[p] = ResultFor(c)
  <2>1. PICK k \in 1..n : \E l \in ToolsOf(es[k]) :
               HasResult(es[k].contents[l]) /\ w[p] = ResultFor(es[k].contents[l])
    BY <1>1, <1>3, <1>7, Zenon
  <2>2. PICK l \in ToolsOf(es[k]) :
               HasResult(es[k].contents[l]) /\ w[p] = ResultFor(es[k].contents[l])
    BY <2>1
  <2>3. <<"tc", es[k].contents[l].name>> = id
    BY <1>4, <1>7, <2>2, Zenon
  <2>4. k = i /\ l = j
    BY <1>5, <2>3
  <2> QED
    BY <2>2, <2>4 DEF c
<1>8. HasResult(c) => \E p \in 1..Len(w) : w[p] = ResultFor(c)
  BY <1>1, Zenon DEF c
<1> QED
  BY <1>6, <1>7, <1>8, Zenon DEF OwnResult, c, id

LEMMA CallComesBack ==
  ASSUME NEW w, NEW p, NEW j, NEW c, OwnResult(w, p, j, c),
         w \in Seq(ToSet(w)), IsContent(c), c.type = "tool"
  PROVE  ResultOf(w, <<"tc", c.name>>) = c.result
<1> DEFINE id == <<"tc", c.name>>
           found == {q \in DOMAIN w : IsResult(w[q]) /\ w[q].call = id}
           last == CHOOSE q \in found : \A r \in found : q >= r
<1>1. /\ \A q \in 1..Len(w) :
           IsResult(w[q]) /\ w[q].call = id => HasResult(c) /\ w[q] = ResultFor(c)
      /\ HasResult(c) => \E q \in 1..Len(w) : w[q] = ResultFor(c)
  BY Zenon DEF OwnResult
<1>2. Len(w) \in Nat /\ DOMAIN w = 1..Len(w)
  BY OwnSeq
<1>3. c.result = <<>> \/ c.result = <<Result(c.result[1].text, c.result[1].error)>>
  BY ContentKinds
<1>4. CASE c.result = <<>>
  <2>1. found = {}
    BY <1>1, <1>2, <1>4 DEF HasResult
  <2> QED
    BY <1>4, <2>1, Zenon DEF ResultOf, id, found
<1>5. CASE c.result # <<>>
  <2>1. PICK q \in 1..Len(w) : w[q] = ResultFor(c)
    BY <1>1, <1>5 DEF HasResult
  <2>2. IsResult(w[q]) /\ w[q].call = id
    BY <2>1 DEF ResultFor, ResultMessage, IsResult, IsMessage
  <2>3. found # {} /\ found \in SUBSET (1..Len(w))
    BY <1>2, <2>2
  <2>4. \A x \in found : w[x] = ResultFor(c)
    BY <1>1, <1>2
  <2>5. ResultOf(w, id) = IF found = {} THEN <<>>
                          ELSE LET r == w[last] IN <<Result(r.text, r.error)>>
    BY Zenon DEF ResultOf
  <2> HIDE DEF found
  <2>6. \E x \in found : \A y \in found : x >= y
    BY <1>2, <2>3, GreatestNumber
  <2>7. last \in found
    BY <2>6
  <2> HIDE DEF last
  <2>8. w[last] = ResultFor(c)
    BY <2>4, <2>7
  <2>9. ResultOf(w, id) = <<Result(ResultFor(c).text, ResultFor(c).error)>>
    BY <2>3, <2>5, <2>8, Zenon
  <2>10. ResultFor(c).text = c.result[1].text /\ ResultFor(c).error = c.result[1].error
    BY DEF ResultFor, ResultMessage
  <2> QED
    BY <1>3, <1>5, <2>9, <2>10 DEF id
<1> QED
  BY <1>4, <1>5

TrimmedContent(c) == c.type = "text" => c.text # <<>> /\ Trim(c.text) = c.text

LEMMA BlockComesBack ==
  ASSUME NEW w, NEW p, NEW j, NEW c, w \in Seq(ToSet(w)), IsContent(c),
         w[p].blocks[j] = WireBlock(c), TrimmedContent(c),
         c.type = "tool" => OwnResult(w, p, j, c)
  PROVE  BlockContents(w, p, j) = <<c>>
<1> DEFINE b == w[p].blocks[j]
<1>1. CASE c.type = "text" /\ c = Says(c.text)
  <2>1. b = c
    BY <1>1 DEF WireBlock
  <2>2. Trim(c.text) = c.text /\ c.text # <<>>
    BY <1>1 DEF TrimmedContent
  <2>3. BlockContents(w, p, j) = IF Trim(b.text) = <<>> THEN <<>> ELSE <<Says(Trim(b.text))>>
    BY <1>1, <2>1, Zenon DEF BlockContents
  <2> QED
    BY <1>1, <2>1, <2>2, <2>3, Zenon
<1>2. CASE c.type = "thinking" /\ c = Thinking(c.text)
  <2>1. b = c
    BY <1>2 DEF WireBlock
  <2>2. BlockContents(w, p, j) = <<Thinking(b.text)>>
    BY <1>2, <2>1, SMT DEF BlockContents
  <2> QED
    BY <1>2, <2>1, <2>2, Zenon
<1>3. CASE c.type = "tool" /\ c = Tool(c.name, c.args, c.result)
  <2>1. /\ b.type = "toolCall" /\ b.id = <<"tc", c.name>>
        /\ b.name = c.name /\ b.args = c.args
    BY <1>3 DEF WireBlock
  <2>2. BlockContents(w, p, j) =
          <<Tool(b.name, b.args, IF Taken(w, p, j, b.id) THEN <<>> ELSE ResultOf(w, b.id))>>
    BY <2>1, SMT DEF BlockContents
  <2>3. OwnResult(w, p, j, c)
    BY <1>3
  <2>4. ~Taken(w, p, j, <<"tc", c.name>>)
    BY <2>3, Zenon DEF OwnResult
  <2>5. ResultOf(w, <<"tc", c.name>>) = c.result
    BY <1>3, <2>3, CallComesBack
  <2> QED
    BY <1>3, <2>1, <2>2, <2>4, <2>5, Zenon
<1> QED
  BY <1>1, <1>2, <1>3, ContentKinds

LEMMA TurnComesBack ==
  ASSUME NEW w, NEW p, NEW e, w \in Seq(ToSet(w)), IsTurn(e), w[p] = HeadOf(e),
         \A j \in ToolsOf(e) : OwnResult(w, p, j, e.contents[j]),
         \A j \in DOMAIN e.contents : TrimmedContent(e.contents[j])
  PROVE  RecordEvents(w, p) = <<e>>
<1> DEFINE cs == e.contents
           n == Len(cs)
           ss == [j \in 1..n |-> BlockContents(w, p, j)]
<1>1. /\ cs \in Seq(ToSet(cs)) /\ cs # <<>> /\ n \in Nat /\ DOMAIN cs = 1..n
      /\ \A j \in 1..n : IsContent(cs[j])
  BY OwnSeq DEF IsTurn
<1>2. e = TurnOf(e.role, cs) /\ e.type = "turn" /\ e.role # "toolResult"
  BY DEF IsTurn, TurnOf
<1>3. /\ w[p].type = "message" /\ w[p].role = e.role
      /\ DOMAIN w[p].blocks = 1..n
      /\ \A j \in 1..n : w[p].blocks[j] = WireBlock(cs[j])
  <2>1. w[p] = MessageOf(e.role, [j \in DOMAIN cs |-> WireBlock(cs[j])])
    BY <1>2, Zenon DEF HeadOf
  <2> QED
    BY <1>1, <2>1 DEF MessageOf
<1>4. \A j \in ToolsOf(e) : OwnResult(w, p, j, cs[j])
  OBVIOUS
<1>5. \A j \in 1..n : ss[j] = <<cs[j]>>
  <2>1. ASSUME NEW j \in 1..n
        PROVE  BlockContents(w, p, j) = <<cs[j]>>
    <3>1. cs[j].type = "tool" => OwnResult(w, p, j, cs[j])
      BY <1>1, <1>2, <1>4 DEF ToolsOf
    <3>2. TrimmedContent(cs[j])
      BY <1>1
    <3>3. IsContent(cs[j]) /\ w[p].blocks[j] = WireBlock(cs[j])
      BY <1>1, <1>3
    <3> HIDE DEF cs, ss
    <3> QED
      BY <3>1, <3>2, <3>3, BlockComesBack
  <2> QED
    BY <2>1
<1>6. ContentsOf(w, p) = FlattenSeq(ss)
  BY <1>3, Zenon DEF ContentsOf
<1>7. ss = [j \in 1..n |-> ss[j]] /\ cs = [j \in 1..n |-> cs[j]]
  BY <1>1
<1> HIDE DEF ss, n, cs
<1> DEFINE h == [j \in 1..n |-> j]
<1>8. Spread(ss, n, h, cs, n)
  <2>1. h \in [1..n -> 1..n] /\ \A j \in 1..n : h[j] = j
    OBVIOUS
  <2> HIDE DEF h
  <2> QED
    BY <1>1, <1>5, <1>7, <2>1 DEF Spread
<1>9. FlattenSeq(ss) = cs
  <2> HIDE DEF h
  <2> QED
    BY <1>8, SpreadFlattens
<1>10. RecordEvents(w, p) =
         IF ContentsOf(w, p) = <<>> THEN <<>> ELSE <<TurnOf(w[p].role, ContentsOf(w, p))>>
  BY <1>2, <1>3, SMT DEF RecordEvents, IsResult, IsMessage
<1> QED
  BY <1>1, <1>2, <1>3, <1>6, <1>9, <1>10, Zenon

LEMMA WireGivesBack ==
  ASSUME NEW w, NEW h, NEW es, NEW n, WiredOnce(w, h, es, n), Trimmed(es)
  PROVE  transform(w) = es
<1> DEFINE m == Len(w)
           rr == [p \in 1..m |-> RecordEvents(w, p)]
<1>1. Wired(w, h, es, n) /\ AreEvents(es)
  BY DEF WiredOnce
<1>2. /\ n \in Nat /\ es = [i \in 1..n |-> es[i]] /\ w \in Seq(ToSet(w))
      /\ h \in [1..n -> 1..m] /\ \A i, k \in 1..n : i < k => h[i] < h[k]
      /\ \A i \in 1..n : w[h[i]] = HeadOf(es[i])
      /\ \A p \in 1..m :
           \/ \E i \in 1..n : p = h[i]
           \/ \E i \in 1..n : \E j \in ToolsOf(es[i]) :
                HasResult(es[i].contents[j]) /\ w[p] = ResultFor(es[i].contents[j])
  BY <1>1, Zenon DEF Wired
<1>3. m \in Nat /\ DOMAIN w = 1..m
  BY <1>2, OwnSeq
<1>4. \A i \in 1..n : IsEvent(es[i])
  <2>1. Len(es) = n
    BY <1>2
  <2> QED
    BY <1>1, <2>1 DEF AreEvents
<1>5. transform(w) = FlattenSeq(rr)
  BY <1>3, Zenon DEF transform
<1>6. rr = [p \in 1..m |-> rr[p]] /\ \A p \in 1..m : rr[p] = RecordEvents(w, p)
  OBVIOUS
<1> HIDE DEF m, rr
<1>7. ASSUME NEW i \in 1..n
      PROVE  RecordEvents(w, h[i]) = <<es[i]>>
  <2>1. w[h[i]] = HeadOf(es[i]) /\ IsEvent(es[i])
    BY <1>2, <1>4
  <2>2. CASE es[i].type # "turn"
    <3>1. w[h[i]] = es[i] /\ es[i].type \notin {"message", "custom"}
      BY <2>1, <2>2 DEF HeadOf, IsEvent, IsTurn, TurnOf
    <3> QED
      BY <3>1, Zenon DEF RecordEvents, IsResult, IsMessage
  <2>3. CASE es[i].type = "turn"
    <3>1. IsTurn(es[i])
      BY <2>1, <2>3 DEF IsEvent
    <3>2. \A j \in ToolsOf(es[i]) : OwnResult(w, h[i], j, es[i].contents[j])
      BY WiredCalls
    <3>3. \A j \in DOMAIN es[i].contents : TrimmedContent(es[i].contents[j])
      <4>1. i \in DOMAIN es
        BY <1>2
      <4> QED
        BY <2>3, <4>1, Zenon DEF Trimmed, TrimmedContent
    <3> QED
      BY <1>2, <2>1, <3>1, <3>2, <3>3, TurnComesBack
  <2> QED
    BY <2>2, <2>3
<1>8. ASSUME NEW p \in 1..m, ~\E i \in 1..n : p = h[i]
      PROVE  rr[p] = <<>>
  <2>1. \E c : w[p] = ResultFor(c)
    BY <1>2, <1>8, Zenon
  <2>2. IsResult(w[p])
    BY <2>1 DEF ResultFor, ResultMessage, IsResult, IsMessage
  <2>3. rr[p] = RecordEvents(w, p)
    BY <1>6
  <2> QED
    BY <2>2, <2>3, Zenon DEF RecordEvents
<1>9. \A i \in 1..n : rr[h[i]] = <<es[i]>>
  <2>1. \A i \in 1..n : h[i] \in 1..m
    BY <1>2
  <2> QED
    BY <1>6, <1>7, <2>1, Zenon
<1>10. Spread(rr, m, h, es, n)
  BY <1>2, <1>3, <1>6, <1>8, <1>9, Zenon DEF Spread
<1>11. FlattenSeq(rr) = es
  BY <1>10, SpreadFlattens
<1> QED
  BY <1>5, <1>11

(* context.rs:633-755: what a request says of some events, the calls of      *)
(* which name different tools, transform gives back.                         *)
LEMMA WireKeeps ==
  ASSUME NEW es, AreEvents(es), OneCallEach(es), Trimmed(es)
  PROVE  transform(to_wire(es)) = es
<1>1. PICK h : Wired(to_wire(es), h, es, Len(es))
  BY EventsAreWired
<1>2. WiredOnce(to_wire(es), h, es, Len(es))
  BY <1>1 DEF WiredOnce
<1> QED
  BY <1>2, WireGivesBack

(* What transform gives is made of events.                                   *)
LEMMA ResultTold ==
  ASSUME NEW rs, rs \in Seq(ToSet(rs)), \A i \in 1..Len(rs) : IsRecord(rs[i]), NEW id
  PROVE  IsOutcome(ResultOf(rs, id))
<1> DEFINE found == {i \in DOMAIN rs : IsResult(rs[i]) /\ rs[i].call = id}
           last == CHOOSE i \in found : \A j \in found : i >= j
<1>1. Len(rs) \in Nat /\ DOMAIN rs = 1..Len(rs)
  BY OwnSeq
<1>2. found \in SUBSET (1..Len(rs)) /\ \A i \in found : IsResult(rs[i])
  BY <1>1
<1>3. ResultOf(rs, id) =
        IF found = {} THEN <<>> ELSE <<Result(rs[last].text, rs[last].error)>>
  BY Zenon DEF ResultOf
<1> HIDE DEF found
<1>4. CASE found = {}
  BY <1>3, <1>4 DEF IsOutcome
<1>5. CASE found # {}
  <2>1. \E x \in found : \A y \in found : x >= y
    BY <1>1, <1>2, <1>5, GreatestNumber
  <2>2. last \in found
    BY <2>1
  <2> HIDE DEF last
  <2>3. IsList(rs[last].text)
    BY <1>2, <2>2 DEF IsRecord
  <2> QED
    BY <1>3, <1>5, <2>3, Zenon DEF IsOutcome
<1> QED
  BY <1>4, <1>5

LEMMA BlockTold ==
  ASSUME NEW rs, rs \in Seq(ToSet(rs)), \A i \in 1..Len(rs) : IsRecord(rs[i]),
         NEW i, NEW j,
         rs[i].blocks[j].type \in {"string", "text", "thinking"} => IsList(rs[i].blocks[j].text)
  PROVE  BlockContents(rs, i, j) = <<>> \/ \E c : IsContent(c) /\ BlockContents(rs, i, j) = <<c>>
<1> DEFINE b == rs[i].blocks[j]
           result == IF Taken(rs, i, j, b.id) THEN <<>> ELSE ResultOf(rs, b.id)
<1>1. CASE b.type = "toolCall"
  <2>1. BlockContents(rs, i, j) = <<Tool(b.name, b.args, result)>>
    BY <1>1, SMT DEF BlockContents
  <2>2. IsOutcome(result)
    <3>1. IsOutcome(<<>>)
      BY DEF IsOutcome
    <3>2. \A id : IsOutcome(ResultOf(rs, id))
      BY ResultTold
    <3> QED
      BY <3>1, <3>2, Zenon
  <2>3. \E c : IsContent(c) /\ <<Tool(b.name, b.args, result)>> = <<c>>
    <3> HIDE DEF b, result
    <3> QED
      BY <2>2, Zenon DEF IsContent
  <2> QED
    BY <2>1, <2>3, Zenon
<1>2. CASE b.type \in {"string", "text", "thinking"}
  <2>1. \/ BlockContents(rs, i, j) = <<>>
        \/ BlockContents(rs, i, j) = <<Says(b.text)>>
        \/ BlockContents(rs, i, j) = <<Says(Trim(b.text))>>
        \/ BlockContents(rs, i, j) = <<Thinking(b.text)>>
    <3>1. CASE b.type = "string"
      BY <3>1, SMT DEF BlockContents
    <3>2. CASE b.type = "text"
      <4>1. BlockContents(rs, i, j) =
              IF Trim(b.text) = <<>> THEN <<>> ELSE <<Says(Trim(b.text))>>
        BY <3>2, SMT DEF BlockContents
      <4> QED
        BY <4>1, Zenon
    <3>3. CASE b.type = "thinking"
      BY <3>3, SMT DEF BlockContents
    <3> QED
      BY <1>2, <3>1, <3>2, <3>3
  <2>2. IsList(b.text) /\ IsList(Trim(b.text))
    BY <1>2, TrimIsList
  <2> HIDE DEF b
  <2> QED
    BY <2>1, <2>2, Zenon DEF IsContent
<1>3. CASE b.type \notin {"string", "text", "thinking", "toolCall"}
  BY <1>3, Zenon DEF BlockContents
<1> QED
  BY <1>1, <1>2, <1>3

LEMMA RecordTold ==
  ASSUME NEW rs, rs \in Seq(ToSet(rs)), \A i \in 1..Len(rs) : IsRecord(rs[i]),
         NEW i \in 1..Len(rs), NEW e, RecordEvents(rs, i) = <<e>>
  PROVE  IsEvent(e)
<1>0. IsRecord(rs[i])
  OBVIOUS
<1>1. ~IsResult(rs[i]) /\ rs[i].type # "custom"
  BY Zenon DEF RecordEvents
<1>2. CASE ~IsMessage(rs[i])
  <2>1. e = rs[i]
    <3>1. <<e>> = <<rs[i]>>
      BY <1>1, <1>2, Zenon DEF RecordEvents
    <3> QED
      BY <3>1
  <2>2. \/ rs[i].type \in {"session", "model", "level"}
        \/ rs[i].type = "compaction"
    BY <1>0, <1>1, <1>2 DEF IsRecord, IsMessage
  <2> QED
    BY <1>0, <2>1, <2>2 DEF IsEvent, IsRecord
<1>3. CASE IsMessage(rs[i])
  <2> DEFINE cs == ContentsOf(rs, i)
             n == Len(rs[i].blocks)
             ss == [j \in 1..n |-> BlockContents(rs, i, j)]
  <2>1. n \in Nat /\ DOMAIN rs[i].blocks = 1..n
    BY <1>0, <1>1, <1>3, OwnSeq DEF IsRecord, IsList
  <2>2. cs = FlattenSeq(ss)
    BY <2>1, Zenon DEF ContentsOf
  <2>3. ss = [j \in 1..n |-> ss[j]] /\ \A j \in 1..n : ss[j] = BlockContents(rs, i, j)
    OBVIOUS
  <2>4. cs # <<>> /\ e = TurnOf(rs[i].role, cs)
    <3>1. RecordEvents(rs, i) = IF cs = <<>> THEN <<>> ELSE <<TurnOf(rs[i].role, cs)>>
      BY <1>1, <1>3, Zenon DEF RecordEvents
    <3> HIDE DEF cs
    <3>2. <<e>> # <<>>
      OBVIOUS
    <3>3. cs # <<>> /\ <<e>> = <<TurnOf(rs[i].role, cs)>>
      BY <3>1, <3>2, Zenon
    <3> QED
      BY <3>3
  <2> HIDE DEF cs, n, ss
  <2>5. \A j \in 1..n : ss[j] = <<>> \/ \E c : IsContent(c) /\ ss[j] = <<c>>
    <3>1. ASSUME NEW j \in 1..n
          PROVE  rs[i].blocks[j].type \in {"string", "text", "thinking"} =>
                   IsList(rs[i].blocks[j].text)
      <4>1. rs[i].blocks[j] \in ToSet(rs[i].blocks)
        BY <2>1 DEF ToSet
      <4> QED
        BY <1>0, <1>1, <1>3, <4>1 DEF IsRecord
    <3>2. \A j \in 1..n : \/ BlockContents(rs, i, j) = <<>>
                           \/ \E c : IsContent(c) /\ BlockContents(rs, i, j) = <<c>>
      BY <3>1, BlockTold
    <3> QED
      BY <2>3, <3>2, Zenon
  <2>6. \A j \in 1..n : ss[j] = <<>> \/ \E c : ss[j] = <<c>>
    BY <2>5, Zenon
  <2>7. Ones(ss, n, ss, n)
    BY <2>1, <2>3, <2>6 DEF Ones
  <2>8. OnesPlaced(cs, cs, ss, n, ss, n)
    BY <2>2, <2>7, OnesGrow
  <2>9. cs \in Seq(ToSet(cs))
    <3>1. PICK V : ss \in Seq(Seq(V))
      BY <2>1, <2>3, <2>6, OnesInSeq
    <3>2. cs \in Seq(V)
      BY <2>2, <3>1, FlattenLays
    <3> QED
      BY <3>2, OwnSeq
  <2>10. ASSUME NEW k \in 1..Len(cs)
         PROVE  IsContent(cs[k])
    <3>1. PICK j \in 1..n : ss[j] = <<cs[k]>>
      BY <2>8 DEF OnesPlaced
    <3>2. <<cs[k]>> # <<>> /\ \A c : <<cs[k]>> = <<c>> => cs[k] = c
      OBVIOUS
    <3> QED
      BY <2>5, <3>1, <3>2, Zenon
  <2>11. e.role = rs[i].role /\ e.contents = cs /\ e.role # "toolResult"
    <3>1. rs[i].role # "toolResult"
      BY <1>1, <1>3 DEF IsResult
    <3> QED
      BY <2>4, <3>1 DEF TurnOf
  <2> QED
    BY <2>4, <2>9, <2>10, <2>11 DEF IsEvent, IsTurn
<1> QED
  BY <1>2, <1>3

LEMMA TransformedAre ==
  ASSUME NEW rs, rs \in Seq(ToSet(rs)), \A i \in 1..Len(rs) : IsRecord(rs[i])
  PROVE  AreEvents(transform(rs))
<1> DEFINE n == Len(rs)
           ss == [i \in 1..n |-> RecordEvents(rs, i)]
           es == transform(rs)
<1>1. n \in Nat /\ DOMAIN rs = 1..n
  BY OwnSeq
<1>2. es = FlattenSeq(ss)
  BY <1>1, Zenon DEF transform
<1>3. ss = [i \in 1..n |-> ss[i]] /\ \A i \in 1..n : ss[i] = RecordEvents(rs, i)
  OBVIOUS
<1> HIDE DEF n, ss, es
<1>4. \A i \in 1..n : ss[i] = <<>> \/ \E x : ss[i] = <<x>>
  BY <1>3, RecordIs, Zenon
<1>5. Ones(ss, n, ss, n)
  BY <1>1, <1>3, <1>4 DEF Ones
<1>6. OnesPlaced(es, es, ss, n, ss, n)
  BY <1>2, <1>5, OnesGrow
<1>7. ASSUME NEW k \in 1..Len(es)
      PROVE  IsEvent(es[k])
  <2>1. PICK i \in 1..n : ss[i] = <<es[k]>>
    BY <1>6 DEF OnesPlaced
  <2>2. RecordEvents(rs, i) = <<es[k]>> /\ i \in 1..Len(rs)
    BY <1>3, <2>1 DEF n
  <2> QED
    BY <2>2, RecordTold
<1>8. es \in Seq(ToSet(es))
  <2>1. PICK V : ss \in Seq(Seq(V))
    BY <1>1, <1>3, <1>4, OnesInSeq
  <2>2. es \in Seq(V)
    BY <1>2, <2>1, FlattenLays
  <2> QED
    BY <2>2, OwnSeq
<1> QED
  BY <1>7, <1>8 DEF AreEvents, es

-----------------------------------------------------------------------------
(* What parse gives is made of events, whatever the lines.                   *)

AreContents(cs) == cs \in Seq(ToSet(cs)) /\ \A j \in 1..Len(cs) : IsContent(cs[j])

LEMMA AppendContent ==
  ASSUME NEW cs, AreContents(cs), NEW c, IsContent(c)
  PROVE  /\ AreContents(Append(cs, c)) /\ Append(cs, c) # <<>>
         /\ Last(Append(cs, c)) = c
<1> DEFINE n == Len(cs)
           ds == Append(cs, c)
           V == ToSet(cs) \cup {c}
<1>1. n \in Nat /\ cs \in Seq(V) /\ c \in V
  BY DEF AreContents
<1> HIDE DEF V
<1>2. /\ ds \in Seq(V) /\ Len(ds) = n + 1 /\ ds[n + 1] = c
      /\ \A j \in 1..n : ds[j] = cs[j]
  BY <1>1
<1> HIDE DEF ds
<1>3. ds \in Seq(ToSet(ds))
  BY <1>2, OwnSeq
<1>4. \A j \in 1..(n + 1) : j = n + 1 \/ j \in 1..n
  BY <1>1
<1>5. \A j \in 1..n : IsContent(cs[j])
  BY DEF AreContents
<1>6. AreContents(ds)
  BY <1>2, <1>3, <1>4, <1>5 DEF AreContents
<1>7. ds # <<>> /\ Last(ds) = c
  BY <1>1, <1>2 DEF Last
<1> QED
  BY <1>6, <1>7 DEF ds

LEMMA ReplaceLast ==
  ASSUME NEW cs, AreContents(cs), cs # <<>>, NEW c, IsContent(c)
  PROVE  LET ds == [cs EXCEPT ![Len(cs)] = c]
         IN  AreContents(ds) /\ ds # <<>> /\ Last(ds) = c
<1> DEFINE n == Len(cs)
           ds == [cs EXCEPT ![n] = c]
           V == ToSet(cs) \cup {c}
<1>1. n \in Nat /\ n \in 1..n /\ cs \in Seq(V) /\ c \in V
  BY DEF AreContents
<1> HIDE DEF V
<1>2. /\ ds \in Seq(V) /\ Len(ds) = n /\ ds[n] = c
      /\ \A j \in 1..n : j # n => ds[j] = cs[j]
  BY <1>1
<1> HIDE DEF ds
<1>3. ds \in Seq(ToSet(ds))
  BY <1>2, OwnSeq
<1>4. \A j \in 1..n : IsContent(cs[j])
  BY DEF AreContents
<1>5. AreContents(ds)
  BY <1>2, <1>3, <1>4 DEF AreContents
<1>6. ds # <<>> /\ Last(ds) = c
  BY <1>1, <1>2 DEF Last
<1> QED
  BY <1>5, <1>6 DEF ds

IsAcc(acc) ==
  /\ acc = [contents |-> acc.contents, open |-> acc.open] /\ acc.open \in BOOLEAN
  /\ AreContents(acc.contents)
  /\ acc.open => acc.contents # <<>> /\ Last(acc.contents).type = "tool"

LEMMA TakeLineKeeps ==
  ASSUME NEW isUser, NEW acc, NEW l, IsAcc(acc)
  PROVE  IsAcc(TakeLine(isUser, acc, l))
<1> DEFINE cs == acc.contents
           n == Len(cs)
           next == TakeLine(isUser, acc, l)
<1>1. /\ acc = [contents |-> cs, open |-> acc.open] /\ acc.open \in BOOLEAN
      /\ AreContents(cs)
      /\ acc.open => cs # <<>> /\ cs[n].type = "tool"
  BY DEF IsAcc, Last
<1>2. ASSUME NEW ds, AreContents(ds), NEW open \in BOOLEAN,
             open => ds # <<>> /\ Last(ds).type = "tool"
      PROVE  IsAcc([contents |-> ds, open |-> open])
  BY <1>2 DEF IsAcc
<1>3. CASE acc.open /\ l[1] = "arrow"
  <2> DEFINE c == ToolResult(cs[n], l)
  <2>1. next = [acc EXCEPT !.contents[n] = c]
    BY <1>3, SMT DEF TakeLine
  <2>2. next = [contents |-> [cs EXCEPT ![n] = c], open |-> acc.open]
    BY <1>1, <2>1 DEF ToolResult
  <2>3. n \in 1..n
    BY <1>1, <1>3 DEF AreContents
  <2>4. cs[n] = Tool(cs[n].name, cs[n].args, cs[n].result)
    BY <1>1, <1>3, <2>3, ContentKinds DEF AreContents
  <2> DEFINE r == IF cs[n].result = <<>> THEN Result(<<l[3]>>, l[2])
                  ELSE Result(Append(cs[n].result[1].text, l[3]), cs[n].result[1].error)
  <2>5. c = Tool(cs[n].name, cs[n].args, <<r>>)
    <3>1. c = [cs[n] EXCEPT !.result = <<r>>]
      BY DEF ToolResult
    <3> HIDE DEF r, c
    <3> QED
      BY <2>4, <3>1 DEF Tool
  <2>6. IsContent(c) /\ c.type = "tool"
    <3>1. IsOutcome(<<r>>)
      <4>1. CASE cs[n].result = <<>>
        <5>1. r = Result(<<l[3]>>, l[2])
          BY <4>1
        <5>2. IsList(<<l[3]>>)
          BY ListOfOne, Zenon
        <5> HIDE DEF r
        <5> QED
          BY <5>1, <5>2, Zenon DEF IsOutcome
      <4>2. CASE cs[n].result # <<>>
        <5> DEFINE text == cs[n].result[1].text
        <5>1. r = Result(Append(text, l[3]), cs[n].result[1].error)
          BY <4>2
        <5>2. IsList(text)
          <6>1. IsContent(cs[n]) /\ cs[n].type = "tool"
            BY <1>1, <1>3, <2>3 DEF AreContents
          <6> QED
            BY <4>2, <6>1, ContentKinds
        <5>3. IsList(Append(text, l[3]))
          BY <5>2, ListGrows
        <5> HIDE DEF r, text
        <5> QED
          BY <5>1, <5>3, Zenon DEF IsOutcome
      <4> QED
        BY <4>1, <4>2
    <3> HIDE DEF r, c
    <3>2. IsContent(c)
      BY <2>5, <3>1, Zenon DEF IsContent
    <3>3. c.type = "tool"
      BY <2>5 DEF Tool
    <3> QED
      BY <3>2, <3>3
  <2> HIDE DEF c, r, next
  <2>7. /\ AreContents([cs EXCEPT ![n] = c]) /\ [cs EXCEPT ![n] = c] # <<>>
        /\ Last([cs EXCEPT ![n] = c]) = c
    BY <1>1, <1>3, <2>6, ReplaceLast
  <2>8. IsAcc([contents |-> [cs EXCEPT ![n] = c], open |-> acc.open])
    BY <1>1, <1>2, <2>6, <2>7
  <2> QED
    BY <2>2, <2>8 DEF next
<1>4. CASE acc.open /\ l[1] = "omitted"
  <2>1. next = acc
    BY <1>4, SMT DEF TakeLine
  <2> QED
    BY <2>1
<1>5. CASE l[1] = "thinking"
  <2>1. next = [contents |-> Append(cs, Thinking(<<l[2]>>)), open |-> FALSE]
    BY <1>5, SMT DEF TakeLine
  <2>2. IsContent(Thinking(<<l[2]>>))
    BY ListOfOne, Zenon DEF IsContent
  <2>3. AreContents(Append(cs, Thinking(<<l[2]>>)))
    BY <1>1, <2>2, AppendContent
  <2> QED
    BY <1>2, <2>1, <2>3
<1>6. CASE l[1] = "tool"
  <2> DEFINE c == Tool(l[2], Arguments(l[2], l[3]), <<>>)
  <2>1. next = [contents |-> Append(cs, c), open |-> TRUE]
    BY <1>6, SMT DEF TakeLine
  <2>2. IsContent(c) /\ c.type = "tool"
    <3>1. IsOutcome(<<>>)
      BY DEF IsOutcome
    <3>2. c.type = "tool"
      BY DEF Tool
    <3> QED
      BY <3>1, <3>2, Zenon DEF IsContent
  <2> HIDE DEF c
  <2>3. /\ AreContents(Append(cs, c)) /\ Append(cs, c) # <<>>
        /\ Last(Append(cs, c)) = c
    BY <1>1, <2>2, AppendContent
  <2> QED
    BY <1>2, <2>1, <2>2, <2>3
<1>7. CASE l[1] = "tokens"
  <2>1. next = [contents |-> cs, open |-> FALSE]
    BY <1>7, SMT DEF TakeLine
  <2> QED
    BY <1>1, <1>2, <2>1
<1>8. CASE /\ ~(acc.open /\ l[1] = "arrow") /\ ~(acc.open /\ l[1] = "omitted")
           /\ l[1] # "thinking" /\ l[1] # "tool" /\ l[1] # "tokens"
  <2> DEFINE joined == [cs EXCEPT ![n].text = WithLine(@, l)]
             ds == IF l = Blank /\ (isUser \/ cs = <<>>) THEN cs
                   ELSE IF cs # <<>> /\ Last(cs).type = "text" THEN joined
                   ELSE IF l = Blank THEN cs ELSE Append(cs, Says(<<l>>))
  <2>1. next = [open |-> FALSE, contents |-> ds]
    BY <1>8, Zenon DEF TakeLine
  <2>2. AreContents(Append(cs, Says(<<l>>)))
    <3>1. IsContent(Says(<<l>>))
      BY ListOfOne, Zenon DEF IsContent
    <3> QED
      BY <1>1, <3>1, AppendContent
  <2>3. ASSUME cs # <<>>, Last(cs).type = "text"
        PROVE  AreContents(joined)
    <3>1. n \in 1..n /\ cs[n].type = "text"
      BY <1>1, <2>3 DEF AreContents, Last
    <3>2. cs[n] = Says(cs[n].text)
      BY <1>1, <3>1, ContentKinds DEF AreContents
    <3> DEFINE c == Says(WithLine(cs[n].text, l))
    <3>3. joined = [cs EXCEPT ![n] = c]
      <4>1. [cs[n] EXCEPT !.text = WithLine(cs[n].text, l)] = c
        <5>1. \A t, s : [Says(t) EXCEPT !.text = s] = Says(s)
          BY DEF Says
        <5> QED
          BY <3>2, <5>1, Zenon
      <4>2. joined = [cs EXCEPT ![n] = [cs[n] EXCEPT !.text = WithLine(cs[n].text, l)]]
        BY <3>1
      <4> QED
        BY <4>1, <4>2, Zenon
    <3>4. IsContent(c)
      <4>1. IsList(cs[n].text)
        <5>1. IsContent(cs[n])
          BY <1>1, <3>1 DEF AreContents
        <5> QED
          BY <3>1, <5>1, ContentKinds
      <4>2. IsList(WithLine(cs[n].text, l))
        BY <4>1, ListOfOne, ListGrows, Zenon DEF WithLine
      <4> QED
        BY <4>2, Zenon DEF IsContent
    <3> HIDE DEF c, joined
    <3> QED
      BY <1>1, <2>3, <3>3, <3>4, ReplaceLast
  <2>4. AreContents(ds)
    <3> HIDE DEF joined, cs
    <3> QED
      BY <1>1, <2>2, <2>3, Zenon
  <2> HIDE DEF ds, next
  <2> QED
    BY <1>2, <2>1, <2>4 DEF next
<1> QED
  BY <1>3, <1>4, <1>5, <1>6, <1>7, <1>8

(* Line by line.                                                             *)
Takes(u, isUser, body, n) ==
  u = [k \in 0..n |-> IF k = 0 THEN [contents |-> <<>>, open |-> FALSE]
                      ELSE TakeLine(isUser, u[k - 1], body[k])]

LEMMA TakesExist ==
  ASSUME NEW isUser, NEW body
  PROVE  \A n \in Nat : \E u : Takes(u, isUser, body, n)
<1> DEFINE first == [contents |-> <<>>, open |-> FALSE]
           A == {n \in Nat : \E u : Takes(u, isUser, body, n)}
<1>1. 0 \in A
  <2>1. Takes([k \in 0..0 |-> first], isUser, body, 0)
    <3>1. \A k \in 0..0 : k = 0
      OBVIOUS
    <3> HIDE DEF first
    <3>2. [k \in 0..0 |-> first] =
            [k \in 0..0 |-> IF k = 0 THEN first
                            ELSE TakeLine(isUser, [i \in 0..0 |-> first][k - 1], body[k])]
      BY <3>1, Zenon
    <3> QED
      BY <3>2 DEF Takes, first
  <2> HIDE DEF Takes
  <2> QED
    BY <2>1
<1>2. ASSUME NEW n \in Nat, NEW u, Takes(u, isUser, body, n)
      PROVE  \E v : Takes(v, isUser, body, n + 1)
  <2> DEFINE v == [k \in 0..(n + 1) |->
                     IF k = n + 1 THEN TakeLine(isUser, u[n], body[n + 1]) ELSE u[k]]
  <2>1. \A k \in 0..n : u[k] = IF k = 0 THEN first ELSE TakeLine(isUser, u[k - 1], body[k])
    BY <1>2, Zenon DEF Takes
  <2>2. \A k \in 0..(n + 1) : k = n + 1 \/ k \in 0..n
    OBVIOUS
  <2>3. \A k \in 0..n : /\ k # n + 1 /\ k \in 0..(n + 1)
                        /\ k # 0 => k - 1 \in 0..(n + 1) /\ k - 1 # n + 1
    OBVIOUS
  <2>4. n \in 0..(n + 1) /\ n # n + 1 /\ n + 1 \in 0..(n + 1) /\ n + 1 # 0 /\ (n + 1) - 1 = n
    OBVIOUS
  <2>5. \A k \in 0..(n + 1) :
          v[k] = IF k = n + 1 THEN TakeLine(isUser, u[n], body[n + 1]) ELSE u[k]
    OBVIOUS
  <2>6. v = [k \in 0..(n + 1) |-> v[k]]
    OBVIOUS
  <2> HIDE DEF v, first
  <2>7. ASSUME NEW k \in 0..(n + 1)
        PROVE  v[k] = IF k = 0 THEN first ELSE TakeLine(isUser, v[k - 1], body[k])
    <3>1. CASE k = n + 1
      <4>1. v[n + 1] = TakeLine(isUser, u[n], body[n + 1]) /\ v[n] = u[n]
        BY <2>4, <2>5, Zenon
      <4> QED
        BY <2>4, <3>1, <4>1, Zenon
    <3>2. CASE k \in 0..n
      <4>1. v[k] = u[k]
        BY <2>3, <2>5, <3>2, Zenon
      <4>2. k # 0 => v[k - 1] = u[k - 1]
        BY <2>3, <2>5, <3>2, Zenon
      <4> QED
        BY <2>1, <3>2, <4>1, <4>2, Zenon
    <3> QED
      BY <2>2, <3>1, <3>2
  <2>8. Takes(v, isUser, body, n + 1)
    <3>1. v = [k \in 0..(n + 1) |->
                IF k = 0 THEN first ELSE TakeLine(isUser, v[k - 1], body[k])]
      BY <2>6, <2>7, Zenon
    <3> QED
      BY <3>1, Zenon DEF Takes, first
  <2> QED
    BY <2>8
<1>3. \A n \in Nat : n \in A => n + 1 \in A
  <2> HIDE DEF Takes
  <2> QED
    BY <1>2
<1>4. \A n \in Nat : n \in A
  <2> HIDE DEF A
  <2> QED
    BY <1>1, <1>3, Induction
<1> QED
  BY <1>4

LEMMA TurnContentsAre ==
  ASSUME NEW isUser, NEW body, Len(body) \in Nat
  PROVE  AreContents(TurnContents(isUser, body))
<1> DEFINE n == Len(body)
           u == CHOOSE v : Takes(v, isUser, body, n)
           A == {k \in Nat : k <= n => IsAcc(u[k])}
<1>1. TurnContents(isUser, body) = u[n].contents
  BY Zenon DEF TurnContents, Takes
<1>2. Takes(u, isUser, body, n)
  <2>1. \E v : Takes(v, isUser, body, n)
    BY TakesExist
  <2> HIDE DEF Takes
  <2> QED
    BY <2>1
<1> HIDE DEF u, n
<1>3. \A k \in 0..n : u[k] = IF k = 0 THEN [contents |-> <<>>, open |-> FALSE]
                             ELSE TakeLine(isUser, u[k - 1], body[k])
  BY <1>2, Zenon DEF Takes
<1>4. n \in Nat
  BY DEF n
<1>5. 0 \in A
  <2>1. u[0] = [contents |-> <<>>, open |-> FALSE]
    <3>1. 0 \in 0..n
      BY <1>4
    <3> QED
      BY <1>3, <3>1, Zenon
  <2>2. AreContents(<<>>)
    BY DEF AreContents
  <2>3. IsAcc([contents |-> <<>>, open |-> FALSE])
    BY <2>2 DEF IsAcc
  <2>4. IsAcc(u[0])
    BY <2>1, <2>3, Zenon
  <2> QED
    BY <2>4
<1>6. ASSUME NEW k \in Nat, k \in A
      PROVE  k + 1 \in A
  <2> SUFFICES ASSUME k + 1 <= n
               PROVE  IsAcc(u[k + 1])
    OBVIOUS
  <2>1. IsAcc(u[k])
    BY <1>4, <1>6
  <2>2. k + 1 \in 0..n /\ k + 1 # 0 /\ (k + 1) - 1 = k
    BY <1>4
  <2>3. u[k + 1] = TakeLine(isUser, u[k], body[k + 1])
    BY <1>3, <2>2, Zenon
  <2> QED
    BY <2>1, <2>3, TakeLineKeeps
<1>7. \A k \in Nat : k \in A
  <2> HIDE DEF A
  <2> QED
    BY <1>5, <1>6, Induction
<1>8. IsAcc(u[n])
  BY <1>4, <1>7
<1> QED
  BY <1>1, <1>8 DEF IsAcc

(* One step of parse.                                                        *)
LEMMA FirstIn ==
  ASSUME NEW ls, Len(ls) \in Nat, NEW a \in Nat,
         NEW found, found \in SUBSET (a..Len(ls)), a >= 1
  PROVE  FirstOf(ls, found) \in Nat /\ FirstOf(ls, found) <= Len(ls) + 1
         /\ (FirstOf(ls, found) >= a \/ FirstOf(ls, found) = Len(ls) + 1)
<1>1. CASE found = {}
  BY <1>1 DEF FirstOf
<1>2. CASE found # {}
  <2>1. found \in SUBSET Nat
    OBVIOUS
  <2>2. \E x \in found : \A y \in found : x <= y
    BY <1>2, <2>1, LeastNumber
  <2> DEFINE x == CHOOSE j \in found : \A k \in found : j <= k
  <2>3. x \in found
    BY <2>2
  <2>4. FirstOf(ls, found) = x
    BY <1>2, Zenon DEF FirstOf
  <2> HIDE DEF x
  <2>5. x \in a..Len(ls)
    BY <2>3
  <2> QED
    BY <2>4, <2>5
<1> QED
  BY <1>1, <1>2

IsStep(step, i, n) ==
  /\ step.next \in (i + 1)..(n + 2)
  /\ step.events = <<>> \/ \E e : IsEvent(e) /\ step.events = <<e>>

LEMMA TurnStep ==
  ASSUME NEW S, NEW ls \in Seq(S), NEW i \in 1..Len(ls)
  PROVE  IsStep(ParsedTurn(ls, i), i, Len(ls))
<1> DEFINE n == Len(ls)
           isUser == i < n /\ ls[i + 1] = Up
           first == IF isUser THEN i + 2 ELSE i + 1
           found == {j \in first..n :
                       IsSep(ls[j]) \/ (IF isUser THEN ls[j] = EndUp ELSE ClosesTurn(ls, j))}
           end == FirstOf(ls, found)
           body == SubSeq(ls, first, end - 1)
           cs == TurnContents(isUser, body)
           closed == IF end <= n /\ ~IsSep(ls[end]) THEN end + 1 ELSE end
           events == IF cs = <<>> THEN <<>>
                     ELSE <<TurnOf(IF isUser THEN "user" ELSE "assistant", cs)>>
<1>1. ParsedTurn(ls, i) = [events |-> events, next |-> SkipBlank(ls, closed)]
  BY Zenon DEF ParsedTurn
<1>2. n \in Nat /\ i \in Nat /\ i <= n /\ first \in Nat /\ first >= i + 1 /\ first >= 1
      /\ first <= n + 1
  OBVIOUS
<1>3. found \in SUBSET (first..n)
  OBVIOUS
<1> HIDE DEF found, first
<1>4. end \in Nat /\ end <= n + 1 /\ (end >= first \/ end = n + 1)
  BY <1>2, <1>3, FirstIn
<1> HIDE DEF end
<1>5. Len(body) \in Nat
  <2>1. body \in Seq(S)
    BY <1>2, <1>4, SubSeqProperties
  <2> QED
    BY <2>1
<1> HIDE DEF body, isUser
<1>6. AreContents(cs)
  BY <1>5, TurnContentsAre
<1> HIDE DEF cs
<1>7. events = <<>> \/ \E e : IsEvent(e) /\ events = <<e>>
  <2>1. CASE cs = <<>>
    BY <2>1
  <2>2. CASE cs # <<>>
    <3> DEFINE role == IF isUser THEN "user" ELSE "assistant"
               e == TurnOf(role, cs)
    <3>1. role # "toolResult"
      OBVIOUS
    <3> HIDE DEF role
    <3>2. e.role = role /\ e.contents = cs
      BY DEF TurnOf
    <3>3. IsEvent(e)
      BY <1>6, <2>2, <3>1, <3>2 DEF IsEvent, IsTurn, AreContents
    <3>4. events = <<e>>
      BY <2>2 DEF role
    <3> QED
      BY <3>3, <3>4
  <2> QED
    BY <2>1, <2>2
<1>8. closed \in Nat /\ closed >= i + 1 /\ closed <= n + 1
  BY <1>2, <1>4
<1> HIDE DEF closed, events
<1>9. SkipBlank(ls, closed) \in (i + 1)..(n + 2)
  BY <1>2, <1>8 DEF SkipBlank, n
<1> QED
  BY <1>1, <1>7, <1>9 DEF IsStep, n

LEMMA ParsedStep ==
  ASSUME NEW S, NEW ls \in Seq(S), NEW i \in 1..Len(ls)
  PROVE  IsStep(ParsedAt(ls, i), i, Len(ls))
<1> DEFINE n == Len(ls)
           l == ls[i]
<1>1. n \in Nat /\ i \in Nat /\ i <= n /\ i + 1 \in Nat /\ i + 1 >= 1
  OBVIOUS
<1>2. \A j \in Nat : j >= i + 1 /\ j <= n + 1 => SkipBlank(ls, j) \in (i + 1)..(n + 2)
  BY <1>1 DEF SkipBlank
<1>3. ASSUME NEW e, IsEvent(e), NEW next \in (i + 1)..(n + 2)
      PROVE  IsStep([events |-> <<e>>, next |-> next], i, n)
  BY <1>3 DEF IsStep
<1>4. ASSUME NEW next \in (i + 1)..(n + 2)
      PROVE  IsStep([events |-> <<>>, next |-> next], i, n)
  BY DEF IsStep
<1>5. CASE l[1] = "session"
  <2> DEFINE found == {j \in i + 1..n : ls[j] = Blank}
             next == FirstOf(ls, found) + 1
  <2>1. found \in SUBSET ((i + 1)..n)
    OBVIOUS
  <2> HIDE DEF found
  <2>2. next \in (i + 1)..(n + 2)
    <3>1. FirstOf(ls, found) \in Nat /\ FirstOf(ls, found) <= n + 1
          /\ (FirstOf(ls, found) >= i + 1 \/ FirstOf(ls, found) = n + 1)
      BY <1>1, <2>1, FirstIn
    <3> QED
      BY <1>1, <3>1
  <2>3. ParsedAt(ls, i) = [events |-> <<Mark("session", l[2])>>, next |-> next]
    BY <1>5, SMT DEF ParsedAt, found, CompactSep, TurnLine
  <2>4. IsEvent(Mark("session", l[2]))
    BY DEF IsEvent, Mark
  <2> QED
    BY <1>3, <2>2, <2>3, <2>4
<1>6. CASE l[1] = "sep" /\ l[2] \in {"model", "level"}
  <2>1. ParsedAt(ls, i) = [events |-> <<Mark(l[2], l[3])>>, next |-> SkipBlank(ls, i + 1)]
    BY <1>6, SMT DEF ParsedAt, CompactSep, TurnLine
  <2>2. IsEvent(Mark(l[2], l[3]))
    BY <1>6 DEF IsEvent, Mark
  <2>3. SkipBlank(ls, i + 1) \in (i + 1)..(n + 2)
    BY <1>1, <1>2
  <2> QED
    BY <1>3, <2>1, <2>2, <2>3
<1>7. CASE l = CompactSep
  <2> DEFINE found == {j \in i + 1..n :
                         IsSep(ls[j]) \/ (ls[j] = Blank /\ j < n /\ IsSep(ls[j + 1]))}
             end == FirstOf(ls, found)
             e == Compaction(SubSeq(ls, i + 1, end - 1))
  <2>1. ParsedAt(ls, i) = ParsedCompaction(ls, i)
    BY <1>7, SMT DEF ParsedAt, CompactSep, TurnLine
  <2>2. ParsedCompaction(ls, i) = [events |-> <<e>>, next |-> SkipBlank(ls, end)]
    BY Zenon DEF ParsedCompaction
  <2>3. found \in SUBSET ((i + 1)..n)
    OBVIOUS
  <2> HIDE DEF found
  <2>4. end \in Nat /\ end <= n + 1 /\ (end >= i + 1 \/ end = n + 1)
    BY <1>1, <2>3, FirstIn
  <2> HIDE DEF end
  <2>5. IsEvent(e)
    <3>1. IsList(SubSeq(ls, i + 1, end - 1))
      <4>1. IsList(ls) /\ end - 1 \in Nat /\ end - 1 <= Len(ls)
        BY <1>1, <2>4, OwnSeq DEF IsList
      <4> QED
        BY <1>1, <4>1, PartIsList
    <3>2. \A t : IsList(t) => IsEvent(Compaction(t))
      BY DEF IsEvent, Compaction
    <3> QED
      BY <3>1, <3>2, Zenon
  <2> HIDE DEF e
  <2>6. SkipBlank(ls, end) \in (i + 1)..(n + 2)
    BY <1>1, <1>2, <2>4
  <2> QED
    BY <1>3, <2>1, <2>2, <2>5, <2>6
<1>8. CASE l = TurnLine
  <2>1. ParsedAt(ls, i) = ParsedTurn(ls, i)
    BY <1>8, SMT DEF ParsedAt, CompactSep, TurnLine
  <2> QED
    BY <2>1, TurnStep
<1>9. CASE /\ l[1] # "session" /\ ~(l[1] = "sep" /\ l[2] \in {"model", "level"})
           /\ l # CompactSep /\ l # TurnLine
  <2>1. ParsedAt(ls, i) = [events |-> <<>>, next |-> i + 1]
    BY <1>9, Zenon DEF ParsedAt
  <2>2. i + 1 \in (i + 1)..(n + 2)
    BY <1>1
  <2> QED
    BY <1>4, <2>1, <2>2
<1> QED
  BY <1>5, <1>6, <1>7, <1>8, <1>9

(* What is parsed from each line on, from the last to the first.             *)
Parses(f, ls, lo) ==
  f = [i \in lo..(Len(ls) + 2) |->
         IF i > Len(ls) THEN <<>>
         ELSE ParsedAt(ls, i).events \o f[ParsedAt(ls, i).next]]

LEMMA ParsesExist ==
  ASSUME NEW S, NEW ls \in Seq(S)
  PROVE  \E f : Parses(f, ls, 1)
<1> DEFINE n == Len(ls)
           A == {d \in Nat : d <= n => \E f : Parses(f, ls, n + 1 - d)}
<1>1. n \in Nat
  OBVIOUS
<1>2. 0 \in A
  <2> DEFINE f == [i \in (n + 1)..(n + 2) |-> <<>>]
  <2>1. \A i \in (n + 1)..(n + 2) : i > n
    BY <1>1
  <2>2. f = [i \in (n + 1)..(n + 2) |->
               IF i > n THEN <<>> ELSE ParsedAt(ls, i).events \o f[ParsedAt(ls, i).next]]
    BY <2>1, Zenon
  <2> HIDE DEF f
  <2>3. Parses(f, ls, n + 1)
    BY <2>2, Zenon DEF Parses, n
  <2>4. n + 1 - 0 = n + 1
    BY <1>1
  <2> QED
    BY <2>3, <2>4
<1>3. ASSUME NEW d \in Nat, d + 1 <= n, NEW f, Parses(f, ls, n + 1 - d)
      PROVE  \E g : Parses(g, ls, n + 1 - (d + 1))
  <2> DEFINE lo == n + 1 - d
             x == lo - 1
             g == [i \in x..(n + 2) |->
                     IF i = x THEN ParsedAt(ls, x).events \o f[ParsedAt(ls, x).next]
                     ELSE f[i]]
  <2>1. /\ x = n + 1 - (d + 1) /\ x \in 1..n /\ x + 1 = lo /\ ~(x > n)
        /\ lo \in Nat /\ x \in Nat
    BY <1>1, <1>3
  <2> HIDE DEF lo, x
  <2>2. \A i \in lo..(n + 2) :
          f[i] = IF i > n THEN <<>> ELSE ParsedAt(ls, i).events \o f[ParsedAt(ls, i).next]
    BY <1>3, Zenon DEF Parses, lo, n
  <2>3. \A i \in x..(n + 2) : i = x \/ i \in lo..(n + 2)
    BY <1>1, <2>1
  <2>4. \A i \in 1..n : ParsedAt(ls, i).next \in (i + 1)..(n + 2)
    BY ParsedStep DEF IsStep, n
  <2>5. /\ \A i \in x..(n + 2) :
             g[i] = IF i = x THEN ParsedAt(ls, x).events \o f[ParsedAt(ls, x).next]
                    ELSE f[i]
        /\ g = [i \in x..(n + 2) |-> g[i]]
    OBVIOUS
  <2> HIDE DEF g
  <2>6. ASSUME NEW i \in lo..(n + 2)
        PROVE  g[i] = f[i]
    <3>1. i \in x..(n + 2) /\ i # x
      BY <1>1, <2>1
    <3> QED
      BY <2>5, <3>1
  <2>7. ASSUME NEW i \in x..(n + 2), ~(i > n)
        PROVE  ParsedAt(ls, i).next \in lo..(n + 2)
    <3>1. i \in 1..n
      BY <1>1, <2>1, <2>7
    <3>2. ParsedAt(ls, i).next \in (i + 1)..(n + 2)
      BY <2>4, <3>1
    <3> QED
      BY <1>1, <2>1, <3>1, <3>2
  <2>8. ASSUME NEW i \in x..(n + 2)
        PROVE  g[i] = IF i > n THEN <<>>
                      ELSE ParsedAt(ls, i).events \o g[ParsedAt(ls, i).next]
    <3>1. CASE i = x
      <4>1. g[x] = ParsedAt(ls, x).events \o f[ParsedAt(ls, x).next]
        BY <2>5, <3>1, Zenon
      <4>2. g[ParsedAt(ls, x).next] = f[ParsedAt(ls, x).next]
        BY <2>1, <2>6, <2>7, <3>1
      <4> QED
        BY <2>1, <3>1, <4>1, <4>2, Zenon
    <3>2. CASE i \in lo..(n + 2)
      <4>1. g[i] = f[i]
        BY <2>6, <3>2
      <4>2. ~(i > n) => g[ParsedAt(ls, i).next] = f[ParsedAt(ls, i).next]
        BY <2>6, <2>7
      <4> QED
        BY <2>2, <3>2, <4>1, <4>2, Zenon
    <3> QED
      BY <2>3, <3>1, <3>2
  <2>9. g = [i \in x..(n + 2) |->
               IF i > n THEN <<>> ELSE ParsedAt(ls, i).events \o g[ParsedAt(ls, i).next]]
    BY <2>5, <2>8, Zenon
  <2>10. Parses(g, ls, x)
    BY <2>9, Zenon DEF Parses, n
  <2> QED
    BY <2>1, <2>10, Zenon
<1>4. \A d \in Nat : d \in A => d + 1 \in A
  <2>1. \A d \in Nat : d + 1 <= n => d <= n
    BY <1>1
  <2> HIDE DEF n
  <2> QED
    BY <1>3, <2>1
<1>5. \A d \in Nat : d \in A
  <2> HIDE DEF A
  <2> QED
    BY <1>2, <1>4, Induction
<1>6. n + 1 - n = 1 /\ n <= n
  BY <1>1
<1> QED
  BY <1>1, <1>5, <1>6

LEMMA ParsedAre ==
  ASSUME NEW S, NEW ls \in Seq(S)
  PROVE  AreEvents(parse(ls))
<1> DEFINE n == Len(ls)
           f == CHOOSE g : Parses(g, ls, 1)
           E == UNION {ToSet(ParsedAt(ls, i).events) : i \in 1..n}
           A == {d \in Nat : \A i \in 1..(n + 2) : i + d >= n + 2 => f[i] \in Seq(E)}
<1>1. n \in Nat
  OBVIOUS
<1>2. parse(ls) = f[1]
  BY Zenon DEF parse, Parses
<1>3. Parses(f, ls, 1)
  <2>1. \E g : Parses(g, ls, 1)
    BY ParsesExist
  <2> HIDE DEF Parses
  <2> QED
    BY <2>1
<1>4. \A i \in 1..n : IsStep(ParsedAt(ls, i), i, n)
  BY ParsedStep
<1> HIDE DEF f
<1>5. \A i \in 1..(n + 2) :
        f[i] = IF i > n THEN <<>> ELSE ParsedAt(ls, i).events \o f[ParsedAt(ls, i).next]
  BY <1>3, Zenon DEF Parses
<1> HIDE DEF n
<1>6. ASSUME NEW i \in 1..n
      PROVE  /\ ParsedAt(ls, i).events \in Seq(E)
             /\ \A x \in ToSet(ParsedAt(ls, i).events) : IsEvent(x)
  <2> DEFINE es == ParsedAt(ls, i).events
  <2>1. ToSet(es) \subseteq E
    OBVIOUS
  <2>2. es = <<>> \/ \E e : IsEvent(e) /\ es = <<e>>
    BY <1>4 DEF IsStep
  <2> HIDE DEF E, es
  <2>3. CASE es = <<>>
    <3>1. ToSet(es) = {} /\ es \in Seq(E)
      BY <2>3 DEF ToSet
    <3> QED
      BY <3>1 DEF es
  <2>4. CASE \E e : IsEvent(e) /\ es = <<e>>
    <3>1. PICK e : IsEvent(e) /\ es = <<e>>
      BY <2>4
    <3>2. ToSet(es) = {e}
      BY <3>1 DEF ToSet
    <3>3. es \in Seq(E)
      BY <2>1, <3>1, <3>2
    <3> QED
      BY <3>1, <3>2, <3>3 DEF es
  <2> QED
    BY <2>2, <2>3, <2>4
<1>7. \A x \in E : IsEvent(x)
  BY <1>6
<1> HIDE DEF E
<1>8. 0 \in A
  <2>1. ASSUME NEW i \in 1..(n + 2), i + 0 >= n + 2
        PROVE  f[i] \in Seq(E)
    <3>1. i > n
      BY <1>1, <2>1
    <3>2. f[i] = <<>>
      BY <1>5, <3>1
    <3> QED
      BY <3>2
  <2> QED
    BY <2>1
<1>9. ASSUME NEW d \in Nat, d \in A
      PROVE  d + 1 \in A
  <2> SUFFICES ASSUME NEW i \in 1..(n + 2), i + (d + 1) >= n + 2
               PROVE  f[i] \in Seq(E)
    OBVIOUS
  <2>1. \A k \in 1..(n + 2) : k + d >= n + 2 => f[k] \in Seq(E)
    BY <1>9
  <2> HIDE DEF A
  <2>2. CASE i > n
    <3>1. f[i] = <<>>
      BY <1>5, <2>2
    <3> QED
      BY <3>1
  <2>3. CASE ~(i > n)
    <3> DEFINE next == ParsedAt(ls, i).next
               es == ParsedAt(ls, i).events
    <3>1. i \in 1..n
      BY <1>1, <2>3
    <3>2. next \in (i + 1)..(n + 2) /\ es \in Seq(E)
      BY <1>4, <1>6, <3>1 DEF IsStep
    <3>3. f[i] = es \o f[next]
      BY <1>5, <2>3
    <3> HIDE DEF next, es
    <3>4. next \in 1..(n + 2) /\ next + d >= n + 2
      BY <1>1, <3>1, <3>2
    <3>5. f[next] \in Seq(E)
      BY <2>1, <3>4
    <3> QED
      BY <3>2, <3>3, <3>5, ConcatProperties
  <2> QED
    BY <2>2, <2>3
<1>10. \A d \in Nat : d \in A
  <2> HIDE DEF A
  <2> QED
    BY <1>8, <1>9, Induction
<1>11. f[1] \in Seq(E)
  <2>1. n + 1 \in Nat /\ 1 \in 1..(n + 2) /\ 1 + (n + 1) >= n + 2
    BY <1>1
  <2>2. n + 1 \in A
    BY <1>10, <2>1
  <2> QED
    BY <2>1, <2>2
<1>12. f[1] \in Seq(ToSet(f[1])) /\ \A i \in 1..Len(f[1]) : f[1][i] \in E
  BY <1>11, OwnSeq
<1> QED
  BY <1>2, <1>7, <1>12 DEF AreEvents

-----------------------------------------------------------------------------
(* What is written to a .ctx file is a list of lines.                        *)

LEMMA ListFlattened ==
  ASSUME NEW n \in Nat, NEW ss, ss = [i \in 1..n |-> ss[i]],
         \A i \in 1..n : IsList(ss[i])
  PROVE  IsList(FlattenSeq(ss))
<1>1. PICK V : ss \in Seq(Seq(V))
  BY SeqOfSeqs DEF IsList
<1>2. FlattenSeq(ss) \in Seq(V)
  BY <1>1, FlattenLays
<1> QED
  BY <1>2, OwnSeq DEF IsList

LEMMA WrittenIsList ==
  ASSUME NEW text, IsList(text)
  PROVE  IsList(Written(text)) /\ Written(text) # <<>>
<1>1. IsList(<<Blank>>) /\ <<Blank>> # <<>>
  BY ListOfOne
<1> QED
  BY <1>1, Zenon DEF Written

LEMMA AnswerIsList ==
  ASSUME NEW r, IsRecord(r)
  PROVE  /\ IsList(from_wire_response(r))
         /\ IsMessage(r) /\ r.role = "assistant" => from_wire_response(r) # <<>>
<1>1. CASE ~IsMessage(r) \/ r.role # "assistant"
  BY <1>1, EmptyIsList, Zenon DEF from_wire_response
<1>2. CASE IsMessage(r) /\ r.role = "assistant"
  <2> DEFINE n == Len(r.blocks)
             Lines(b) == CASE b.type = "text" -> Written(b.text)
                           [] b.type = "thinking" ->
                                << <<"thinking", Head(Written(b.text))>> >> \o Tail(Written(b.text))
                           [] b.type = "toolCall" ->
                                << <<"tool", b.name, Summary(b.name, b.args)>> >>
                           [] OTHER -> <<>>
             ss == [j \in 1..n |-> Lines(r.blocks[j])]
  <2>1. /\ IsList(r.blocks)
        /\ \A b \in ToSet(r.blocks) : b.type \in {"string", "text", "thinking"} => IsList(b.text)
    BY <1>2 DEF IsRecord, IsResult
  <2>2. n \in Nat /\ DOMAIN r.blocks = 1..n /\ \A j \in 1..n : r.blocks[j] \in ToSet(r.blocks)
    BY <2>1, OwnSeq DEF IsList, ToSet
  <2>3. from_wire_response(r) = <<TurnLine>> \o FlattenSeq(ss) \o <<Blank>>
    BY <1>2, <2>2, Zenon DEF from_wire_response
  <2>4. ASSUME NEW b, b.type \in {"text", "thinking"} => IsList(b.text)
        PROVE  IsList(Lines(b))
    <3>1. CASE b.type = "text"
      <4>1. Lines(b) = Written(b.text)
        BY <3>1, SMT
      <4> QED
        BY <2>4, <3>1, <4>1, WrittenIsList
    <3>2. CASE b.type = "thinking"
      <4>1. Lines(b) = << <<"thinking", Head(Written(b.text))>> >> \o Tail(Written(b.text))
        BY <3>2, SMT
      <4>2. IsList(Tail(Written(b.text)))
        BY <2>4, <3>2, WrittenIsList, ListCut
      <4>3. IsList(<< <<"thinking", Head(Written(b.text))>> >>)
        BY ListOfOne, Zenon
      <4> HIDE DEF Lines
      <4> QED
        BY <4>1, <4>2, <4>3, ListJoined
    <3>3. CASE b.type = "toolCall"
      <4>1. Lines(b) = << <<"tool", b.name, Summary(b.name, b.args)>> >>
        BY <3>3, SMT
      <4> HIDE DEF Lines
      <4> QED
        BY <4>1, ListOfOne, Zenon
    <3>4. CASE b.type \notin {"text", "thinking", "toolCall"}
      <4>1. Lines(b) = <<>>
        BY <3>4, Zenon
      <4> HIDE DEF Lines
      <4> QED
        BY <4>1, EmptyIsList
    <3> QED
      BY <3>1, <3>2, <3>3, <3>4
  <2> HIDE DEF Lines
  <2>5. \A j \in 1..n : IsList(ss[j])
    <3>1. \A j \in 1..n : IsList(Lines(r.blocks[j]))
      BY <2>1, <2>2, <2>4
    <3> QED
      BY <3>1
  <2>6. ss = [j \in 1..n |-> ss[j]]
    OBVIOUS
  <2> HIDE DEF n, ss
  <2>7. IsList(FlattenSeq(ss))
    BY <2>2, <2>5, <2>6, ListFlattened
  <2>8. IsList(<<TurnLine>>) /\ IsList(<<Blank>>)
    BY ListOfOne
  <2>9. /\ IsList(<<TurnLine>> \o FlattenSeq(ss))
        /\ <<TurnLine>> \o FlattenSeq(ss) # <<>>
    <3>1. <<TurnLine>> # <<>>
      OBVIOUS
    <3> QED
      BY <2>7, <2>8, <3>1, ListJoined
  <2>10. /\ IsList(<<TurnLine>> \o FlattenSeq(ss) \o <<Blank>>)
         /\ <<TurnLine>> \o FlattenSeq(ss) \o <<Blank>> # <<>>
    BY <2>8, <2>9, ListJoined
  <2> QED
    BY <2>3, <2>10, Zenon
<1> QED
  BY <1>1, <1>2, Zenon

LEMMA UpIsList ==
  ASSUME NEW r, IsRecord(r), IsMessage(r)
  PROVE  IsList(UpBlock(r)) /\ UpBlock(r) # <<>>
<1> DEFINE n == Len(r.blocks)
           ss == [j \in 1..n |-> IF r.blocks[j].type \in {"string", "text"}
                                 THEN r.blocks[j].text ELSE <<>>]
           lines == IF IsResult(r) THEN r.text ELSE FlattenSeq(ss)
<1>1. ~IsResult(r) => DOMAIN r.blocks = 1..n /\ IsList(FlattenSeq(ss))
  <2>1. SUFFICES ASSUME ~IsResult(r)
                 PROVE  DOMAIN r.blocks = 1..n /\ IsList(FlattenSeq(ss))
    OBVIOUS
  <2>2. /\ IsList(r.blocks)
        /\ \A b \in ToSet(r.blocks) : b.type \in {"string", "text", "thinking"} => IsList(b.text)
    BY <2>1 DEF IsRecord
  <2>3. n \in Nat /\ DOMAIN r.blocks = 1..n /\ \A j \in 1..n : r.blocks[j] \in ToSet(r.blocks)
    BY <2>2, OwnSeq DEF IsList, ToSet
  <2>4. \A j \in 1..n : IsList(ss[j])
    <3>1. ASSUME NEW b, b.type \in {"string", "text"} => IsList(b.text)
          PROVE  IsList(IF b.type \in {"string", "text"} THEN b.text ELSE <<>>)
      BY <3>1, EmptyIsList
    <3>2. \A j \in 1..n : IsList(IF r.blocks[j].type \in {"string", "text"}
                                THEN r.blocks[j].text ELSE <<>>)
      BY <2>2, <2>3, <3>1
    <3> QED
      BY <3>2
  <2>5. ss = [j \in 1..n |-> ss[j]]
    OBVIOUS
  <2> HIDE DEF n, ss
  <2> QED
    BY <2>3, <2>4, <2>5, ListFlattened
<1>2. UpBlock(r) = <<TurnLine, Up>> \o lines \o <<EndUp, Blank>>
  BY <1>1, Zenon DEF UpBlock
<1>3. IsList(lines)
  BY <1>1 DEF IsRecord
<1> HIDE DEF lines
<1>4. IsList(<<TurnLine, Up>>) /\ <<TurnLine, Up>> # <<>> /\ IsList(<<EndUp, Blank>>)
  <2>1. ASSUME NEW x, NEW y
        PROVE  IsList(<<x, y>>) /\ <<x, y>> # <<>>
    <3>1. <<x, y>> \in Seq({x, y}) /\ <<x, y>> # <<>>
      OBVIOUS
    <3> QED
      BY <3>1, OwnSeq DEF IsList
  <2> QED
    BY <2>1
<1>5. IsList(<<TurnLine, Up>> \o lines) /\ <<TurnLine, Up>> \o lines # <<>>
  BY <1>3, <1>4, ListJoined
<1>6. /\ IsList(<<TurnLine, Up>> \o lines \o <<EndUp, Blank>>)
      /\ <<TurnLine, Up>> \o lines \o <<EndUp, Blank>> # <<>>
  BY <1>4, <1>5, ListJoined
<1> QED
  BY <1>2, <1>6, Zenon

LEMMA CtxLinesAre ==
  ASSUME NEW r, IsRecord(r)
  PROVE  IsList(CtxLines(r)) /\ (IsMessage(r) => CtxLines(r) # <<>>)
<1>1. CASE IsMessage(r) /\ r.role # "assistant"
  <2>1. CtxLines(r) = UpBlock(r)
    BY <1>1 DEF CtxLines
  <2> QED
    BY <1>1, <2>1, UpIsList
<1>2. CASE ~(IsMessage(r) /\ r.role # "assistant")
  <2>1. CtxLines(r) = from_wire_response(r)
    BY <1>2, Zenon DEF CtxLines
  <2> QED
    BY <1>2, <2>1, AnswerIsList, Zenon
<1> QED
  BY <1>1, <1>2

LEMMA NewFileIsList ==
  ASSUME NEW id, NEW files, IsList(files), \A i \in 1..Len(files) : IsList(files[i])
  PROVE  IsList(init_session(id, files))
<1> DEFINE n == Len(files)
           ss == [i \in 1..n |-> Written(files[i]) \o (IF i < n THEN <<Blank>> ELSE <<>>)]
           begin == IF files = <<>> THEN <<>> ELSE <<TurnLine>> \o FlattenSeq(ss) \o <<Blank>>
<1>1. n \in Nat /\ DOMAIN files = 1..n
  BY OwnSeq DEF IsList
<1>2. init_session(id, files) = << <<"session", id>>, Blank >> \o begin
  BY <1>1, Zenon DEF init_session
<1>3. IsList(<<Blank>>) /\ IsList(<<TurnLine>>) /\ IsList(<<>>)
  BY ListOfOne, EmptyIsList
<1>4. ASSUME NEW i \in 1..n
      PROVE  IsList(ss[i])
  <2>1. IsList(Written(files[i]))
    BY WrittenIsList
  <2>2. IsList(IF i < n THEN <<Blank>> ELSE <<>>)
    BY <1>3
  <2>3. ss[i] = Written(files[i]) \o (IF i < n THEN <<Blank>> ELSE <<>>)
    OBVIOUS
  <2> HIDE DEF ss, n
  <2> QED
    BY <2>1, <2>2, <2>3, ListJoined
<1>5. ss = [i \in 1..n |-> ss[i]]
  OBVIOUS
<1> HIDE DEF n, ss
<1>6. IsList(FlattenSeq(ss))
  BY <1>1, <1>4, <1>5, ListFlattened
<1>7. IsList(begin)
  <2>1. IsList(<<TurnLine>> \o FlattenSeq(ss))
    BY <1>3, <1>6, ListJoined
  <2>2. IsList(<<TurnLine>> \o FlattenSeq(ss) \o <<Blank>>)
    BY <1>3, <2>1, ListJoined
  <2> QED
    BY <1>3, <2>2, Zenon
<1> HIDE DEF begin
<1>8. IsList(<< <<"session", id>>, Blank >>)
  <2>1. << <<"session", id>>, Blank >> = << <<"session", id>> >> \o <<Blank>>
    OBVIOUS
  <2> QED
    BY <2>1, ListOfOne, ListJoined, Zenon
<1> QED
  BY <1>2, <1>7, <1>8, ListJoined

-----------------------------------------------------------------------------
(* The watched file.                                                         *)

(* A time is remembered only with what the file held at that time or later;  *)
(* what was read at the file's present time is what it holds.                *)
TimeInv ==
  /\ mtime \in Nat \ {0} /\ seen \in 0..mtime /\ got \in 0..mtime
  /\ seen = mtime => phase = "sleep" /\ written = process_file(source)
  /\ phase = "write" /\ got = mtime => read = source

LEMMA TimeInit == WatchInit => TimeInv
BY DEF WatchInit, TimeInv

LEMMA TimeNext == TimeInv /\ [WatchNext]_watched => TimeInv'
<1> SUFFICES ASSUME TimeInv, [WatchNext]_watched
             PROVE  TimeInv'
  OBVIOUS
<1>1. /\ mtime \in Nat \ {0} /\ seen \in 0..mtime /\ got \in 0..mtime
      /\ seen = mtime => phase = "sleep" /\ written = process_file(source)
      /\ phase = "write" /\ got = mtime => read = source
  BY DEF TimeInv
<1>2. ASSUME UNCHANGED config
      PROVE  /\ process_file(source)' = process_file(source')
             /\ source' = read => process_file(source)' = process_file(read)
             /\ source' = source => process_file(source)' = process_file(source)
  BY <1>2 DEF config, process_file, EventsOf
<1> HIDE DEF process_file
<1>3. ASSUME mtime' = mtime + 1, UNCHANGED <<seen, got>>
      PROVE  TimeInv'
  BY <1>1, <1>3 DEF TimeInv
<1>4. ASSUME NEW r \in Records, BeginAppend(r)
      PROVE  TimeInv'
  BY <1>3, <1>4 DEF BeginAppend
<1>5. CASE EndAppend
  BY <1>3, <1>5 DEF EndAppend
<1>6. CASE Stat
  BY <1>1, <1>6 DEF Stat, TimeInv, file
<1>7. CASE Read
  BY <1>1, <1>7 DEF Read, TimeInv, file
<1>8. CASE ReadFails
  BY <1>1, <1>8 DEF ReadFails, TimeInv, file
<1>9. CASE write_output
  BY <1>1, <1>2, <1>9 DEF write_output, TimeInv, file
<1>10. CASE WriteFails
  BY <1>1, <1>10 DEF WriteFails, TimeInv, file
<1>11. CASE Restart
  BY <1>1, <1>11 DEF Restart, TimeInv, file
<1>12. CASE UNCHANGED watched
  BY <1>1, <1>2, <1>12 DEF watched, config, TimeInv
<1> QED
  BY <1>4, <1>5, <1>6, <1>7, <1>8, <1>9, <1>10, <1>11, <1>12
  DEF WatchNext, Writer, Command

(* main.rs:196: while the command sleeps with the file's time in its memory, *)
(* the output is made of what the file holds.                                *)
THEOREM UpToDateHolds == WatchSpec => []UpToDate
<1>1. TimeInv => UpToDate
  BY DEF TimeInv, UpToDate
<1> QED
  BY <1>1, TimeInit, TimeNext, PTL DEF WatchSpec

(* What a file and what is to be added to it have, and that a result that is *)
(* to be added is the first for its call.                                    *)
AnyRecord == Records \cup UNION {ToSet(rs) : rs \in Openings}
Header == Mark("session", "s")

FileInv ==
  /\ records \in Seq(AnyRecord)
  /\ kind = "ctx" => IsList(source) /\ IsList(unwritten)
  /\ kind # "ctx" =>
       /\ source \in Seq(AnyRecord \cup {Header})
       /\ source \o unwritten = <<Header>> \o records
       /\ \/ unwritten = <<>>
          \/ \E r \in Records : unwritten = <<r>> /\ FirstResult(r, source)

LEMMA FileRecords == \A r \in AnyRecord \cup {Header} : IsRecord(r)
<1>1. IsRecord(Header)
  BY DEF IsRecord, Header, Mark, IsMessage, IsResult
<1>2. \A r \in AnyRecord : IsRecord(r)
  BY RecordsAssumption DEF AnyRecord
<1> QED
  BY <1>1, <1>2

LEMMA FileInit == WatchInit => FileInv
<1> SUFFICES ASSUME WatchInit
             PROVE  FileInv
  OBVIOUS
<1>1. records \in Seq(ToSet(records)) /\ records \in Openings
  BY RecordsAssumption DEF WatchInit, IsList
<1>2. records \in Seq(AnyRecord)
  <2>1. ToSet(records) \subseteq AnyRecord
    BY <1>1 DEF AnyRecord
  <2> QED
    BY <1>1, <2>1
<1>3. kind # "ctx" => source = <<Header>> \o records /\ unwritten = <<>>
  BY DEF WatchInit, Header
<1>4. <<Header>> \o records \in Seq(AnyRecord \cup {Header})
  <2> HIDE DEF AnyRecord, Header
  <2> QED
    BY <1>2
<1>5. (<<Header>> \o records) \o <<>> = <<Header>> \o records
  BY <1>4
<1>6. ASSUME kind = "ctx"
      PROVE  IsList(source) /\ IsList(unwritten)
  <2> DEFINE files == <<<<Word("soul")>>, <<Word("tools")>>>>
             n == Len(records)
             ss == [i \in 1..n |-> CtxLines(records[i])]
  <2>1. n \in Nat /\ DOMAIN records = 1..n
    BY <1>1
  <2>2. source = init_session("s", files) \o FlattenSeq(ss) /\ unwritten = <<>>
    BY <1>6, <2>1 DEF WatchInit
  <2>3. IsList(files) /\ \A i \in 1..Len(files) : IsList(files[i])
    <3>1. ASSUME NEW x, NEW y
          PROVE  /\ IsList(<<x, y>>) /\ Len(<<x, y>>) = 2
                 /\ \A i \in 1..2 : <<x, y>>[i] = x \/ <<x, y>>[i] = y
      <4>1. /\ <<x, y>> \in Seq({x, y}) /\ Len(<<x, y>>) = 2
            /\ <<x, y>>[1] = x /\ <<x, y>>[2] = y
        OBVIOUS
      <4>2. IsList(<<x, y>>)
        BY <4>1, OwnSeq DEF IsList
      <4>3. \A i \in 1..2 : i = 1 \/ i = 2
        OBVIOUS
      <4> QED
        BY <4>1, <4>2, <4>3, Zenon
    <3>2. /\ IsList(files) /\ Len(files) = 2
          /\ \A i \in 1..2 : files[i] = <<Word("soul")>> \/ files[i] = <<Word("tools")>>
      <4> DEFINE x == <<Word("soul")>>
                 y == <<Word("tools")>>
      <4>1. files = <<x, y>>
        OBVIOUS
      <4> HIDE DEF files, x, y
      <4>2. /\ IsList(<<x, y>>) /\ Len(<<x, y>>) = 2
            /\ \A i \in 1..2 : <<x, y>>[i] = x \/ <<x, y>>[i] = y
        BY <3>1
      <4> QED
        BY <4>1, <4>2 DEF x, y
    <3>3. \A x : IsList(<<x>>)
      BY ListOfOne
    <3> HIDE DEF files
    <3>4. \A i \in 1..Len(files) : IsList(files[i])
      BY <3>2, <3>3, Zenon
    <3> QED
      BY <3>2, <3>4
  <2> HIDE DEF files
  <2>4. IsList(init_session("s", files))
    BY <2>3, NewFileIsList
  <2>5. \A i \in 1..n : IsList(CtxLines(records[i]))
    BY <1>2, FileRecords, CtxLinesAre
  <2>6. ss = [i \in 1..n |-> ss[i]] /\ \A i \in 1..n : IsList(ss[i])
    BY <2>5
  <2> HIDE DEF n, ss
  <2>7. IsList(FlattenSeq(ss))
    BY <2>1, <2>6, ListFlattened
  <2> QED
    BY <2>2, <2>4, <2>7, ListJoined, EmptyIsList
<1> QED
  BY <1>2, <1>3, <1>4, <1>5, <1>6 DEF FileInv

LEMMA FileNext == FileInv /\ [WatchNext]_watched => FileInv'
<1> SUFFICES ASSUME FileInv, [WatchNext]_watched
             PROVE  FileInv'
  OBVIOUS
<1>1. /\ records \in Seq(AnyRecord)
      /\ kind = "ctx" => IsList(source) /\ IsList(unwritten)
      /\ kind # "ctx" =>
           /\ source \in Seq(AnyRecord \cup {Header})
           /\ source \o unwritten = <<Header>> \o records
           /\ \/ unwritten = <<>>
              \/ \E r \in Records : unwritten = <<r>> /\ FirstResult(r, source)
  BY DEF FileInv
<1>2. ASSUME NEW r \in Records, BeginAppend(r)
      PROVE  FileInv'
  <2>1. /\ unwritten = <<>> /\ FreshIn(r, records)
        /\ records' = Append(records, r) /\ kind' = kind
        /\ kind # "ctx" => source' = source /\ unwritten' = <<r>>
        /\ kind = "ctx" => /\ IsMessage(r) /\ source' = Append(source, Head(CtxLines(r)))
                           /\ unwritten' = Tail(CtxLines(r))
    BY <1>2 DEF BeginAppend, config
  <2>2. r \in AnyRecord
    BY DEF AnyRecord
  <2>3. records' \in Seq(AnyRecord)
    BY <1>1, <2>1, <2>2
  <2>4. ASSUME kind # "ctx"
        PROVE  /\ source \o <<r>> = <<Header>> \o Append(records, r)
               /\ FirstResult(r, source)
    <3>1. source = <<Header>> \o records
      BY <1>1, <2>1, <2>4
    <3>2. source \o <<r>> = <<Header>> \o Append(records, r)
      <4> HIDE DEF AnyRecord, Header
      <4>1. records \in Seq(AnyRecord \cup {Header})
        BY <1>1
      <4>2. (<<Header>> \o records) \o <<r>> = <<Header>> \o (records \o <<r>>)
        BY <2>2, <4>1, ConcatAssociative
      <4>3. records \o <<r>> = Append(records, r)
        BY <1>1, <2>2
      <4> QED
        BY <3>1, <4>2, <4>3
    <3>3. \A i \in DOMAIN source :
            source[i] = Header \/ \E k \in DOMAIN records : source[i] = records[k]
      <4>1. ASSUME NEW i \in DOMAIN source, i # 1
            PROVE  \E k \in DOMAIN records : source[i] = records[k]
        <5> HIDE DEF AnyRecord, Header
        <5>1. i - 1 \in DOMAIN records /\ source[i] = records[i - 1]
          BY <1>1, <3>1, <4>1
        <5> QED
          BY <5>1
      <4>2. source[1] = Header
        <5> HIDE DEF AnyRecord, Header
        <5> QED
          BY <1>1, <3>1
      <4> QED
        BY <4>1, <4>2
    <3>4. ~IsResult(Header)
      BY DEF IsResult, IsMessage, Header, Mark
    <3>5. FirstResult(r, source)
      BY <2>1, <3>3, <3>4, Zenon DEF FirstResult, FreshIn
    <3> QED
      BY <3>2, <3>5
  <2>5. ASSUME kind = "ctx"
        PROVE  IsList(source') /\ IsList(unwritten')
    <3>1. IsList(CtxLines(r)) /\ CtxLines(r) # <<>>
      BY <2>1, <2>2, <2>5, FileRecords, CtxLinesAre
    <3>2. IsList(Tail(CtxLines(r)))
      BY <3>1, ListCut
    <3>3. IsList(source) /\ source \in Seq(ToSet(source))
      BY <1>1, <2>5 DEF IsList
    <3>4. Append(source, Head(CtxLines(r))) = source \o <<Head(CtxLines(r))>>
      <4>1. \A x : Append(source, x) = source \o <<x>>
        BY <3>3
      <4> QED
        BY <4>1
    <3>5. IsList(source \o <<Head(CtxLines(r))>>)
      BY <3>3, ListOfOne, ListJoined
    <3> QED
      BY <2>1, <2>5, <3>2, <3>4, <3>5
  <2> QED
    BY <1>1, <2>1, <2>3, <2>4, <2>5 DEF FileInv, FirstResult
<1>3. CASE EndAppend
  <2>1. /\ source' = source \o unwritten /\ unwritten' = <<>>
        /\ records' = records /\ kind' = kind
    BY <1>3 DEF EndAppend, config
  <2>2. ASSUME kind # "ctx"
        PROVE  /\ source' \in Seq(AnyRecord \cup {Header})
               /\ source' \o <<>> = <<Header>> \o records
    <3>1. source' = <<Header>> \o records
      BY <1>1, <2>1, <2>2
    <3> HIDE DEF AnyRecord, Header
    <3>2. <<Header>> \o records \in Seq(AnyRecord \cup {Header})
      BY <1>1
    <3> QED
      BY <3>1, <3>2
  <2>3. ASSUME kind = "ctx"
        PROVE  IsList(source') /\ IsList(<<>>)
    BY <1>1, <2>1, <2>3, ListJoined, EmptyIsList
  <2> QED
    BY <1>1, <2>1, <2>2, <2>3 DEF FileInv
<1>4. ASSUME UNCHANGED <<kind, source, records, unwritten>>
      PROVE  FileInv'
  BY <1>1, <1>4 DEF FileInv, FirstResult
<1>5. CASE Command
  BY <1>4, <1>5
  DEF Command, Stat, Read, ReadFails, write_output, WriteFails, Restart, config, file
<1>6. CASE UNCHANGED watched
  BY <1>4, <1>6 DEF watched
<1> QED
  BY <1>2, <1>3, <1>5, <1>6 DEF WatchNext, Writer

(* transform.rs:56-67, 126: what a .jsonl file says of its session only      *)
(* grows, whatever records its writer adds.                                  *)
THEOREM OnlyGrowsHolds == WatchSpec => OnlyGrows
<1>1. ASSUME FileInv, [WatchNext]_watched, kind = "jsonl", source' # source
      PROVE  AllGrown(transform(source), transform(source'))
  <2>1. source' = source \o unwritten /\ unwritten # <<>>
    BY <1>1
    DEF WatchNext, Writer, Command, BeginAppend, EndAppend, Stat, Read, ReadFails,
        write_output, WriteFails, Restart, file, watched
  <2>2. source \in Seq(AnyRecord \cup {Header})
    BY <1>1 DEF FileInv
  <2>3. PICK r \in Records : unwritten = <<r>> /\ FirstResult(r, source)
    BY <1>1, <2>1 DEF FileInv
  <2>4. r \in AnyRecord \cup {Header}
    BY DEF AnyRecord
  <2>5. \A i \in 1..Len(source) : IsRecord(source[i])
    BY <2>2, FileRecords
  <2>6. source' = Append(source, r)
    <3> HIDE DEF AnyRecord, Header
    <3> QED
      BY <2>1, <2>2, <2>3, <2>4
  <2> QED
    BY <2>2, <2>3, <2>4, <2>5, <2>6, TransformGrows
<1>2. FileInv /\ [WatchNext]_watched =>
        [kind = "jsonl" /\ source' # source =>
           AllGrown(transform(source), transform(source'))]_source
  BY <1>1
<1> QED
  BY <1>2, FileInit, FileNext, PTL DEF WatchSpec, OnlyGrows

(* What the command has read is what the file held.                          *)
ReadInv ==
  phase = "write" =>
    IF kind = "ctx" THEN IsList(read) ELSE read \in Seq(AnyRecord \cup {Header})

LEMMA ReadNext == ReadInv /\ FileInv /\ [WatchNext]_watched => ReadInv'
<1> SUFFICES ASSUME ReadInv, FileInv, [WatchNext]_watched
             PROVE  ReadInv'
  OBVIOUS
<1>1. ASSUME phase' = phase, read' = read, kind' = kind
      PROVE  ReadInv'
  BY <1>1 DEF ReadInv
<1>2. ASSUME phase' # "write"
      PROVE  ReadInv'
  BY <1>2 DEF ReadInv
<1>3. CASE Read
  <2>1. read' = source /\ kind' = kind
    BY <1>3 DEF Read, config
  <2>2. IF kind = "ctx" THEN IsList(source) ELSE source \in Seq(AnyRecord \cup {Header})
    BY DEF FileInv
  <2> QED
    BY <2>1, <2>2 DEF ReadInv
<1>4. CASE Writer
  BY <1>1, <1>4 DEF Writer, BeginAppend, EndAppend, config
<1>5. CASE Stat \/ ReadFails \/ write_output \/ WriteFails \/ Restart
  BY <1>2, <1>5 DEF Stat, ReadFails, write_output, WriteFails, Restart
<1>6. CASE UNCHANGED watched
  BY <1>1, <1>6 DEF watched
<1> QED
  BY <1>3, <1>4, <1>5, <1>6 DEF WatchNext, Command

LEMMA ReadEvents ==
  ASSUME ReadInv, phase = "write"
  PROVE  AreEvents(EventsOf(read))
<1>1. CASE kind = "ctx"
  <2>1. read \in Seq(ToSet(read)) /\ EventsOf(read) = parse(read)
    BY <1>1 DEF ReadInv, IsList, EventsOf, CleanContextEvents
  <2> QED
    BY <2>1, ParsedAre
<1>2. CASE kind # "ctx"
  <2>1. /\ read \in Seq(AnyRecord \cup {Header})
        /\ EventsOf(read) = transform(read)
    BY <1>2 DEF ReadInv, EventsOf, OpenclawEvents
  <2>2. read \in Seq(ToSet(read)) /\ \A i \in 1..Len(read) : IsRecord(read[i])
    BY <2>1, OwnSeq, FileRecords
  <2> QED
    BY <2>1, <2>2, TransformedAre
<1> QED
  BY <1>1, <1>2

(* context.rs:633-755: the request keeps every result with its call, in      *)
(* whatever format and order the session has them, as long as no two calls   *)
(* name the same tool.                                                       *)
THEOREM WireKeepsResultsHolds == WatchSpec => []WireKeepsResults
<1>1. ReadInv => WireKeepsResults
  <2> SUFFICES ASSUME ReadInv, phase = "write", output = "jsonl",
                      OneCallEach(EventsOf(read)), Trimmed(EventsOf(read))
               PROVE  transform(process_file(read)) = EventsOf(read)
    BY DEF WireKeepsResults
  <2>1. AreEvents(EventsOf(read))
    BY ReadEvents
  <2>2. process_file(read) = to_wire(EventsOf(read))
    BY SMT DEF process_file
  <2> QED
    BY <2>1, <2>2, WireKeeps
<1>2. WatchInit => ReadInv
  BY DEF WatchInit, ReadInv
<1> QED
  BY <1>1, <1>2, FileInit, FileNext, ReadNext, PTL DEF WatchSpec
-----------------------------------------------------------------------------
(* What emit writes for a plain turn, parse reads back: line by line.        *)

Acc(contents, open) == [contents |-> contents, open |-> open]
Gives(isUser, acc, l, next) == TakeLine(isUser, acc, l) = next

LEMMA NewestReplaced ==
  ASSUME NEW cs, IsList(cs), NEW c, NEW d
  PROVE  /\ [Append(cs, c) EXCEPT ![Len(Append(cs, c))] = d] = Append(cs, d)
         /\ Append(cs, c)[Len(Append(cs, c))] = c
         /\ Append(cs, c) # <<>> /\ Last(Append(cs, c)) = c
<1> DEFINE n == Len(cs)
           V == ToSet(cs) \cup {c, d}
           x == Append(cs, c)
           y == Append(cs, d)
<1>1. cs \in Seq(V) /\ n \in Nat /\ c \in V /\ d \in V
  BY DEF IsList
<1> HIDE DEF V
<1>2. /\ x \in Seq(V) /\ Len(x) = n + 1 /\ x[n + 1] = c
      /\ \A i \in 1..n : x[i] = cs[i]
  BY <1>1
<1>3. /\ y \in Seq(V) /\ Len(y) = n + 1 /\ y[n + 1] = d
      /\ \A i \in 1..n : y[i] = cs[i]
  BY <1>1
<1> HIDE DEF x, y
<1>4. [x EXCEPT ![n + 1] = d] = y
  <2> DEFINE z == [x EXCEPT ![n + 1] = d]
  <2>1. z \in Seq(V) /\ Len(z) = n + 1 /\ \A i \in 1..(n + 1) : z[i] = IF i = n + 1 THEN d ELSE x[i]
    BY <1>1, <1>2
  <2> HIDE DEF z
  <2>2. \A i \in 1..(n + 1) : i = n + 1 \/ i \in 1..n
    BY <1>1
  <2>3. \A i \in 1..(n + 1) : z[i] = y[i]
    BY <1>2, <1>3, <2>1, <2>2, Zenon
  <2>4. z = [i \in 1..(n + 1) |-> z[i]] /\ y = [i \in 1..(n + 1) |-> y[i]]
    BY <1>1, <1>3, <2>1
  <2>5. z = y
    BY <2>3, <2>4, Zenon
  <2> QED
    BY <2>5 DEF z
<1>5. x # <<>> /\ Last(x) = c
  BY <1>1, <1>2 DEF Last
<1> QED
  BY <1>2, <1>4, <1>5 DEF x, y

LEMMA TakeThinking ==
  ASSUME NEW isUser, NEW cs, NEW open, NEW x
  PROVE  Gives(isUser, Acc(cs, open), <<"thinking", x>>,
               Acc(Append(cs, Thinking(<<x>>)), FALSE))
<1> DEFINE l == <<"thinking", x>>
<1>1. l[1] = "thinking" /\ l[2] = x
  OBVIOUS
<1> HIDE DEF l
<1>2. TakeLine(isUser, Acc(cs, open), l) =
        [contents |-> Append(cs, Thinking(<<l[2]>>)), open |-> FALSE]
  BY <1>1, SMT DEF TakeLine, Acc
<1> QED
  BY <1>1, <1>2 DEF Gives, l, Acc

LEMMA TakeTool ==
  ASSUME NEW isUser, NEW cs, NEW open, NEW name, NEW s
  PROVE  Gives(isUser, Acc(cs, open), <<"tool", name, s>>,
               Acc(Append(cs, Tool(name, Arguments(name, s), <<>>)), TRUE))
<1> DEFINE l == <<"tool", name, s>>
<1>1. l[1] = "tool" /\ l[2] = name /\ l[3] = s
  OBVIOUS
<1> HIDE DEF l
<1>2. TakeLine(isUser, Acc(cs, open), l) =
        [contents |-> Append(cs, Tool(l[2], Arguments(l[2], l[3]), <<>>)), open |-> TRUE]
  BY <1>1, SMT DEF TakeLine, Acc
<1> QED
  BY <1>1, <1>2 DEF Gives, l, Acc

LEMMA TakeArrow ==
  ASSUME NEW isUser, NEW cs, IsList(cs), NEW name, NEW args, NEW error, NEW x
  PROVE  Gives(isUser, Acc(Append(cs, Tool(name, args, <<>>)), TRUE), Arrow(error, x),
               Acc(Append(cs, Tool(name, args, <<Result(<<x>>, error)>>)), TRUE))
<1> DEFINE l == Arrow(error, x)
           c == Tool(name, args, <<>>)
           d == Tool(name, args, <<Result(<<x>>, error)>>)
           ds == Append(cs, c)
           acc == Acc(ds, TRUE)
<1>1. l[1] = "arrow" /\ l[2] = error /\ l[3] = x
  BY DEF Arrow
<1> HIDE DEF l
<1>2. acc.open = TRUE /\ acc.contents = ds
  BY DEF Acc
<1>3. ToolResult(c, l) = d
  BY <1>1 DEF ToolResult, Tool
<1> HIDE DEF c, d
<1>4. [ds EXCEPT ![Len(ds)] = d] = Append(cs, d) /\ ds[Len(ds)] = c
  BY NewestReplaced
<1> HIDE DEF ds
<1>5. TakeLine(isUser, acc, l) =
        [acc EXCEPT !.contents[Len(ds)] = ToolResult(ds[Len(ds)], l)]
  <2> HIDE DEF acc
  <2> QED
    BY <1>1, <1>2, SMT DEF TakeLine
<1>6. [acc EXCEPT !.contents[Len(ds)] = d] = Acc([ds EXCEPT ![Len(ds)] = d], TRUE)
  <2>1. [acc EXCEPT !.contents = [acc.contents EXCEPT ![Len(ds)] = d]]
          = Acc([ds EXCEPT ![Len(ds)] = d], TRUE)
    <3>1. \A y, z, o : [[contents |-> z, open |-> o] EXCEPT !.contents = y] =
                        [contents |-> y, open |-> o]
      OBVIOUS
    <3> DEFINE y == [ds EXCEPT ![Len(ds)] = d]
    <3>2. [[contents |-> ds, open |-> TRUE] EXCEPT !.contents = y] =
            [contents |-> y, open |-> TRUE]
      <4> HIDE DEF y
      <4> QED
        BY <3>1, Zenon
    <3>3. [acc.contents EXCEPT ![Len(ds)] = d] = y
      BY <1>2, Zenon
    <3> QED
      BY <3>2, <3>3, Zenon DEF Acc
  <2> QED
    BY <2>1
<1> QED
  BY <1>3, <1>4, <1>5, <1>6 DEF Gives, l, c, d, ds

(* A line of text begins a content, unless the last is a text.               *)
IsTextLine(isUser, l) ==
  l[1] \notin {"thinking", "tool", "tokens"} /\ (isUser => l # Blank)

LEMMA TakeTokens ==
  ASSUME NEW isUser, NEW cs, NEW open
  PROVE  Gives(isUser, Acc(cs, open), Tokens, Acc(cs, FALSE))
<1> DEFINE l == Tokens
<1>1. l[1] = "tokens"
  BY DEF Tokens
<1> HIDE DEF l
<1>2. TakeLine(isUser, Acc(cs, open), l) = [contents |-> cs, open |-> FALSE]
  BY <1>1, SMT DEF TakeLine, Acc
<1> QED
  BY <1>2 DEF Gives, l, Acc

LEMMA TakeFirst ==
  ASSUME NEW isUser, NEW cs, NEW open, NEW l, IsTextLine(isUser, l), l # Blank,
         open => l[1] \notin {"arrow", "omitted"}, cs = <<>> \/ Last(cs).type # "text"
  PROVE  Gives(isUser, Acc(cs, open), l,
               Acc(Append(cs, Says(<<l>>)), FALSE))
<1> DEFINE acc == Acc(cs, open)
<1>1. acc.open = open /\ acc.contents = cs
  BY DEF Acc
<1> HIDE DEF acc
<1>2. TakeLine(isUser, acc, l) =
        [open |-> FALSE, contents |->
           IF l = Blank /\ (isUser \/ cs = <<>>) THEN cs
           ELSE IF cs # <<>> /\ Last(cs).type = "text"
                THEN [cs EXCEPT ![Len(cs)].text = WithLine(@, l)]
           ELSE IF l = Blank THEN cs ELSE Append(cs, Says(<<l>>))]
  BY <1>1, Zenon DEF TakeLine, IsTextLine
<1>3. TakeLine(isUser, acc, l) = [open |-> FALSE, contents |-> Append(cs, Says(<<l>>))]
  BY <1>2, Zenon
<1> QED
  BY <1>3 DEF Gives, acc, Acc

LEMMA TakeMore ==
  ASSUME NEW isUser, NEW cs, IsList(cs), NEW text, text # <<>>,
         NEW l, IsTextLine(isUser, l)
  PROVE  Gives(isUser, Acc(Append(cs, Says(text)), FALSE), l,
               Acc(Append(cs, Says(Append(text, l))), FALSE))
<1> DEFINE c == Says(text)
           d == Says(Append(text, l))
           ds == Append(cs, c)
           acc == Acc(ds, FALSE)
           joined == [ds EXCEPT ![Len(ds)].text = WithLine(@, l)]
<1>1. acc.open = FALSE /\ acc.contents = ds
  BY DEF Acc
<1>2. c.type = "text" /\ [c EXCEPT !.text = WithLine(@, l)] = d
  <2>1. WithLine(text, l) = Append(text, l)
    BY Zenon DEF WithLine
  <2>2. \A t, x : [Says(t) EXCEPT !.text = x] = Says(x)
    BY DEF Says
  <2>3. c.type = "text" /\ c.text = text
    BY DEF Says
  <2> QED
    BY <2>1, <2>2, <2>3, Zenon
<1>3. /\ [ds EXCEPT ![Len(ds)] = d] = Append(cs, d) /\ ds[Len(ds)] = c
      /\ ds # <<>> /\ Last(ds) = c
  BY NewestReplaced
<1>4. joined = [ds EXCEPT ![Len(ds)] = [ds[Len(ds)] EXCEPT !.text = WithLine(@, l)]]
  OBVIOUS
<1>5. joined = Append(cs, d)
  BY <1>2, <1>3, <1>4, Zenon
<1> HIDE DEF c, d, ds, joined, acc
<1>6. TakeLine(isUser, acc, l) =
        [open |-> FALSE, contents |->
           IF l = Blank /\ (isUser \/ ds = <<>>) THEN ds
           ELSE IF ds # <<>> /\ Last(ds).type = "text" THEN joined
           ELSE IF l = Blank THEN ds ELSE Append(ds, Says(<<l>>))]
  BY <1>1, Zenon DEF TakeLine, IsTextLine, joined
<1>7. TakeLine(isUser, acc, l) = [open |-> FALSE, contents |-> joined]
  BY <1>2, <1>3, <1>6, Zenon DEF IsTextLine
<1>8. TakeLine(isUser, acc, l) = Acc(Append(cs, d), FALSE)
  BY <1>5, <1>7 DEF Acc
<1> QED
  BY <1>8 DEF Gives, acc, ds, c, d

(* The first k of s.                                                         *)
Upto(s, k) == [i \in 1..k |-> s[i]]

LEMMA UptoOneMore ==
  ASSUME NEW s, IsList(s)
  PROVE  /\ Len(s) \in Nat /\ Upto(s, 0) = <<>> /\ Upto(s, Len(s)) = s
         /\ \A k \in 0..Len(s) : IsList(Upto(s, k)) /\ Len(Upto(s, k)) = k
         /\ \A k \in Nat : k < Len(s) => Append(Upto(s, k), s[k + 1]) = Upto(s, k + 1)
<1> DEFINE V == ToSet(s)
           n == Len(s)
<1>1. s \in Seq(V) /\ n \in Nat /\ s = [i \in 1..n |-> s[i]]
  BY DEF IsList
<1>2. \A i \in 1..n : s[i] \in V
  BY <1>1 DEF ToSet
<1> HIDE DEF V, n
<1>3. ASSUME NEW k \in 0..n
      PROVE  Upto(s, k) \in Seq(V) /\ Len(Upto(s, k)) = k
  <2>1. Upto(s, k) \in [1..k -> V] /\ k \in Nat
    BY <1>1, <1>2 DEF Upto
  <2> QED
    BY <2>1 DEF Upto
<1>4. ASSUME NEW k \in Nat, k < n
      PROVE  Append(Upto(s, k), s[k + 1]) = Upto(s, k + 1)
  <2> DEFINE x == Upto(s, k)
             y == Upto(s, k + 1)
             z == Append(x, s[k + 1])
  <2>1. x \in Seq(V) /\ Len(x) = k /\ y \in Seq(V) /\ Len(y) = k + 1 /\ s[k + 1] \in V
    BY <1>1, <1>2, <1>3, <1>4
  <2>2. (\A i \in 1..k : x[i] = s[i]) /\ (\A i \in 1..(k + 1) : y[i] = s[i])
    BY DEF Upto
  <2> HIDE DEF x, y
  <2>3. z \in Seq(V) /\ Len(z) = k + 1 /\ \A i \in 1..(k + 1) : z[i] = s[i]
    BY <2>1, <2>2
  <2> HIDE DEF z
  <2>4. z = y
    BY <2>1, <2>2, <2>3
  <2> QED
    BY <2>4 DEF x, y, z
<1>5. Upto(s, 0) = <<>>
  <2>1. Upto(s, 0) \in Seq(V) /\ Len(Upto(s, 0)) = 0
    BY <1>1, <1>3
  <2> QED
    BY <2>1
<1>6. Upto(s, n) = s
  BY <1>1 DEF Upto
<1>7. \A k \in 0..n : IsList(Upto(s, k))
  BY <1>3, OwnSeq DEF IsList
<1> QED
  BY <1>1, <1>3, <1>4, <1>5, <1>6, <1>7 DEF n

LEMMA ListOf1 ==
  ASSUME NEW s, IsList(s), Len(s) = 1
  PROVE  s = <<s[1]>>
BY DEF IsList

LEMMA TwoJoined ==
  ASSUME NEW a, NEW b
  PROVE  <<a>> \o <<b>> = <<a, b>>
<1> DEFINE V == {a, b}
           s == <<a>> \o <<b>>
           t == <<a, b>>
<1>1. <<a>> \in Seq(V) /\ <<b>> \in Seq(V) /\ a \in V /\ b \in V
  OBVIOUS
<1>2. t \in Seq(V) /\ Len(t) = 2 /\ t[1] = a /\ t[2] = b
  OBVIOUS
<1> HIDE DEF V, t
<1>3. s \in Seq(V) /\ Len(s) = 2 /\ s[1] = a /\ s[2] = b
  BY <1>1
<1> HIDE DEF s
<1>4. \A i \in 1..2 : s[i] = t[i]
  <2>1. \A i \in 1..2 : i = 1 \/ i = 2
    OBVIOUS
  <2> QED
    BY <1>2, <1>3, <2>1, Zenon
<1>5. s = t
  BY <1>2, <1>3, <1>4
<1> QED
  BY <1>5 DEF s, t

(* The lines of a plain content.                                             *)
LEMMA SummaryBack ==
  ASSUME NEW name, NEW args, args # <<>> => name \in Known /\ args = <<"key", args[2]>>
  PROVE  Arguments(name, Summary(name, args)) = args
<1>1. CASE args = <<>>
  BY <1>1, Zenon DEF Arguments, Summary
<1>2. CASE args # <<>>
  <2> DEFINE s == <<args[2]>>
  <2>1. Summary(name, args) = s
    BY <1>2, Zenon DEF Summary
  <2>2. s # <<>> /\ s[1] = args[2]
    OBVIOUS
  <2> HIDE DEF s
  <2>3. Arguments(name, s) = <<"key", args[2]>>
    BY <1>2, <2>2, Zenon DEF Arguments
  <2> QED
    BY <1>2, <2>1, <2>3
<1> QED
  BY <1>1, <1>2

LEMMA ShortResult ==
  ASSUME NEW x, x # Blank, NEW error, NEW raw
  PROVE  ResultLines(Result(<<x>>, error), raw) = <<Arrow(error, x)>>
<1> DEFINE t == <<x>>
           r == Result(t, error)
           full == {i \in DOMAIN t : t[i] # Blank}
<1>1. /\ t \in Seq({x}) /\ Len(t) = 1 /\ t[1] = x /\ DOMAIN t = {1} /\ t # <<>>
      /\ Head(t) = x /\ Tail(t) = <<>>
  OBVIOUS
<1>2. full = {1}
  BY <1>1
<1>3. SubSeq(t, 1, 1) = t
  <2>1. \A i \in 1..1 : t[i] \in {x}
    BY <1>1
  <2>2. /\ SubSeq(t, 1, 1) \in Seq({x}) /\ Len(SubSeq(t, 1, 1)) = 1
        /\ SubSeq(t, 1, 1)[1] = t[1]
    BY <1>1, <2>1, SubSeqProperties
  <2>3. IsList(SubSeq(t, 1, 1))
    BY <2>2, OwnSeq DEF IsList
  <2> HIDE DEF t
  <2>4. SubSeq(t, 1, 1) = <<SubSeq(t, 1, 1)[1]>>
    BY <2>2, <2>3, ListOf1, Zenon
  <2> QED
    BY <1>1, <2>2, <2>4, Zenon DEF t
<1>4. r.text = t /\ r.error = error
  BY DEF Result
<1> HIDE DEF t, r
<1>5. Trim(t) = t
  <2> DEFINE a == CHOOSE i \in full : \A j \in full : i <= j
             b == CHOOSE i \in full : \A j \in full : i >= j
  <2>1. Trim(t) = IF full = {} THEN <<>> ELSE SubSeq(t, a, b)
    BY Zenon DEF Trim
  <2> HIDE DEF full
  <2>2. a = 1 /\ b = 1
    BY <1>2
  <2> QED
    BY <1>2, <1>3, <2>1, <2>2
<1>6. Written(t) = t
  BY <1>1, Zenon DEF Written
<1>7. Len(r.text) <= MaxToolResultLines
  BY <1>1, <1>4, MaxAssumption
<1>8. ResultLines(r, raw) = <<Arrow(error, x)>> \o <<>>
  BY <1>1, <1>4, <1>5, <1>6, <1>7, Zenon DEF ResultLines
<1>9. <<Arrow(error, x)>> \o <<>> = <<Arrow(error, x)>>
  OBVIOUS
<1> QED
  BY <1>8, <1>9 DEF r, t

ToldInLines(c, lines) ==
  \E name, args, s :
    /\ Arguments(name, s) = args
    /\ \/ c = Tool(name, args, <<>>) /\ lines = << <<"tool", name, s>> >>
       \/ \E x, error : /\ c = Tool(name, args, <<Result(<<x>>, error)>>)
                        /\ lines = << <<"tool", name, s>>, Arrow(error, x) >>

LEMMA PlainLines ==
  ASSUME NEW isUser, NEW c, IsContent(c), PlainContent(isUser, c)
  PROVE  \/ /\ c.type = "text" /\ c = Says(c.text) /\ IsList(c.text)
            /\ PlainText(isUser, c.text) /\ ContentLines(c, opts) = c.text
         \/ /\ c.type = "thinking"
            /\ \E x : c = Thinking(<<x>>) /\ ContentLines(c, opts) = << <<"thinking", x>> >>
         \/ c.type = "tool" /\ ToldInLines(c, ContentLines(c, opts))
<1>1. CASE c.type = "text" /\ c = Says(c.text) /\ IsList(c.text)
  <2>1. PlainText(isUser, c.text)
    BY <1>1, SMT DEF PlainContent
  <2>2. ContentLines(c, opts) = Written(c.text)
    BY <1>1, SMT DEF ContentLines
  <2>3. Written(c.text) = c.text
    BY <2>1, Zenon DEF Written, PlainText
  <2> QED
    BY <1>1, <2>1, <2>2, <2>3
<1>2. CASE c.type = "thinking" /\ c = Thinking(c.text) /\ IsList(c.text)
  <2> DEFINE t == c.text
             x == t[1]
  <2>1. opts.thinking /\ Len(t) = 1
    BY <1>2, SMT DEF PlainContent
  <2>2. t = <<x>>
    BY <1>2, <2>1, ListOf1, Zenon
  <2>3. ContentLines(c, opts) =
          IF opts.thinking THEN << <<"thinking", Head(Written(t))>> >> \o Tail(Written(t))
          ELSE <<>>
    BY <1>2, SMT DEF ContentLines
  <2>4. ContentLines(c, opts) = << <<"thinking", Head(Written(t))>> >> \o Tail(Written(t))
    BY <2>1, <2>3, Zenon
  <2> HIDE DEF x
  <2>5. t # <<>> /\ Head(t) = x /\ Tail(t) = <<>>
    <3> HIDE DEF t
    <3> QED
      BY <2>2
  <2>6. Written(t) = t
    BY <2>5, Zenon DEF Written
  <2>7. << <<"thinking", x>> >> \o <<>> = << <<"thinking", x>> >>
    OBVIOUS
  <2>8. ContentLines(c, opts) = << <<"thinking", x>> >>
    BY <2>4, <2>5, <2>6, <2>7, Zenon
  <2> QED
    BY <1>2, <2>2, <2>8, Zenon
<1>3. CASE /\ c.type = "tool" /\ c = Tool(c.name, c.args, c.result)
           /\ \/ c.result = <<>>
              \/ /\ c.result = <<Result(c.result[1].text, c.result[1].error)>>
                 /\ IsList(c.result[1].text)
  <2> DEFINE s == Summary(c.name, c.args)
             line == <<"tool", c.name, s>>
  <2>1. /\ c.args # <<>> => c.name \in Known /\ c.args = <<"key", c.args[2]>>
        /\ c.result # <<>> => Len(c.result[1].text) = 1 /\ c.result[1].text[1] # Blank
    BY <1>3, SMT DEF PlainContent
  <2>2. Arguments(c.name, s) = c.args
    BY <2>1, SummaryBack
  <2>3. ContentLines(c, opts) = emit_tool(c, opts)
    BY <1>3, SMT DEF ContentLines
  <2>4. emit_tool(c, opts) =
          <<line>> \o (IF c.result = <<>> THEN <<>> ELSE ResultLines(c.result[1], opts.raw))
    BY Zenon DEF emit_tool
  <2> HIDE DEF s, line
  <2>5. CASE c.result = <<>>
    <3>1. <<line>> \o <<>> = <<line>>
      OBVIOUS
    <3>2. ContentLines(c, opts) = <<line>>
      BY <2>3, <2>4, <2>5, <3>1, Zenon
    <3>3. c = Tool(c.name, c.args, <<>>)
      BY <1>3, <2>5
    <3> QED
      BY <1>3, <2>2, <3>2, <3>3, Zenon DEF ToldInLines, line
  <2>6. CASE c.result # <<>>
    <3> DEFINE r == c.result[1]
               x == r.text[1]
    <3>1. r = Result(r.text, r.error) /\ c.result = <<r>> /\ r.text = <<x>> /\ x # Blank
      <4>1. c.result = <<Result(r.text, r.error)>> /\ IsList(r.text)
        BY <1>3, <2>6
      <4>2. c.result[1] = Result(r.text, r.error)
        BY <4>1
      <4>3. Len(r.text) = 1 /\ x # Blank
        BY <2>1, <2>6
      <4> HIDE DEF x
      <4>4. r.text = <<r.text[1]>>
        <5> HIDE DEF r
        <5> QED
          BY <4>1, <4>3, ListOf1
      <4> QED
        BY <4>1, <4>2, <4>3, <4>4 DEF x
    <3> HIDE DEF r, x
    <3>2. ResultLines(r, opts.raw) = <<Arrow(r.error, x)>>
      <4>1. ResultLines(Result(<<x>>, r.error), opts.raw) = <<Arrow(r.error, x)>>
        BY <3>1, ShortResult
      <4> QED
        BY <3>1, <4>1, Zenon
    <3>3. ContentLines(c, opts) = <<line, Arrow(r.error, x)>>
      <4>1. <<line>> \o <<Arrow(r.error, x)>> = <<line, Arrow(r.error, x)>>
        BY TwoJoined, Zenon
      <4>2. emit_tool(c, opts) = <<line>> \o ResultLines(r, opts.raw)
        BY <2>4, <2>6, Zenon DEF r
      <4> QED
        BY <2>3, <3>2, <4>1, <4>2, Zenon
    <3>4. c = Tool(c.name, c.args, <<Result(<<x>>, r.error)>>)
      <4>1. c.result = <<Result(<<x>>, r.error)>>
        BY <3>1, Zenon
      <4> QED
        BY <1>3, <4>1, Zenon
    <3> QED
      BY <1>3, <2>2, <3>3, <3>4, Zenon DEF ToldInLines, line
  <2> QED
    BY <2>5, <2>6
<1> QED
  BY <1>1, <1>2, <1>3, ContentKinds

(* A line of a turn neither ends it nor begins what follows.                 *)
InTurn(isUser, l) == l[1] \notin {"sep", "session"} /\ (isUser => l # EndUp)
LinesOf(c, isUser, lines) ==
  /\ IsList(lines) /\ Len(lines) >= 1
  /\ \A k \in 1..Len(lines) : InTurn(isUser, lines[k])
  /\ c.type = "text" => lines[1] = c.text[1]
  /\ c.type # "text" => lines[1][1] \in {"thinking", "tool"}

LEMMA LinesAre ==
  ASSUME NEW isUser, NEW c, IsContent(c), PlainContent(isUser, c)
  PROVE  LinesOf(c, isUser, ContentLines(c, opts))
<1> DEFINE lines == ContentLines(c, opts)
<1>1. EndUp[1] = "/up"
  BY DEF EndUp
<1>2. \A l : l[1] \in {"thinking", "tool", "arrow"} => InTurn(isUser, l)
  BY <1>1 DEF InTurn
<1>3. ASSUME NEW x, x[1] \in {"thinking", "tool"}, c.type # "text", lines = <<x>>
      PROVE  LinesOf(c, isUser, lines)
  <2> HIDE DEF lines
  <2>1. IsList(lines) /\ Len(lines) = 1 /\ lines[1] = x
    BY <1>3, ListOfOne
  <2>2. \A k \in 1..1 : k = 1
    OBVIOUS
  <2> QED
    BY <1>2, <1>3, <2>1, <2>2 DEF LinesOf
<1>4. ASSUME NEW x, NEW y, x[1] = "tool", y[1] = "arrow", c.type # "text", lines = <<x, y>>
      PROVE  LinesOf(c, isUser, lines)
  <2> HIDE DEF lines
  <2>1. lines \in Seq({x, y}) /\ Len(lines) = 2 /\ lines[1] = x /\ lines[2] = y
    BY <1>4
  <2>2. IsList(lines)
    BY <2>1, OwnSeq DEF IsList
  <2>3. \A k \in 1..2 : k = 1 \/ k = 2
    OBVIOUS
  <2> QED
    BY <1>2, <1>4, <2>1, <2>2, <2>3 DEF LinesOf
<1>5. CASE /\ c.type = "text" /\ c = Says(c.text) /\ IsList(c.text)
           /\ PlainText(isUser, c.text) /\ lines = c.text
  <2>1. Len(c.text) \in Nat /\ DOMAIN c.text = 1..Len(c.text) /\ c.text # <<>>
    BY <1>5, OwnSeq DEF IsList, PlainText
  <2>2. Len(c.text) >= 1
    BY <1>5, <2>1 DEF IsList
  <2>3. \A k \in 1..Len(c.text) : InTurn(isUser, c.text[k])
    BY <1>5, <2>1 DEF PlainText, InTurn, Markup
  <2> QED
    BY <1>5, <2>2, <2>3 DEF LinesOf
<1>6. CASE /\ c.type = "thinking"
           /\ \E x : c = Thinking(<<x>>) /\ lines = << <<"thinking", x>> >>
  <2>1. PICK x : lines = << <<"thinking", x>> >>
    BY <1>6
  <2> DEFINE l == <<"thinking", x>>
  <2>2. l[1] = "thinking"
    OBVIOUS
  <2>3. lines = <<l>> /\ c.type # "text"
    BY <1>6, <2>1
  <2> HIDE DEF l
  <2> QED
    BY <1>3, <2>2, <2>3
<1>7. CASE c.type = "tool" /\ ToldInLines(c, lines)
  <2>1. PICK name, args, s :
               \/ lines = << <<"tool", name, s>> >>
               \/ \E x, error : lines = << <<"tool", name, s>>, Arrow(error, x) >>
    BY <1>7, Zenon DEF ToldInLines
  <2> DEFINE l == <<"tool", name, s>>
  <2>2. l[1] = "tool" /\ \A x, error : Arrow(error, x)[1] = "arrow"
    BY DEF Arrow
  <2>3. lines = <<l>> \/ \E x, error : lines = <<l, Arrow(error, x)>>
    BY <2>1, Zenon
  <2>4. c.type # "text"
    BY <1>7
  <2> HIDE DEF l
  <2>5. CASE lines = <<l>>
    <3>1. l[1] \in {"thinking", "tool"}
      BY <2>2
    <3>2. LinesOf(c, isUser, lines)
      <4> HIDE DEF lines
      <4> QED
        BY <1>3, <2>4, <2>5, <3>1
    <3> QED
      BY <3>2
  <2>6. ASSUME NEW x, NEW error, lines = <<l, Arrow(error, x)>>
        PROVE  LinesOf(c, isUser, lines)
    <3> DEFINE arrow == Arrow(error, x)
    <3>1. arrow[1] = "arrow" /\ lines = <<l, arrow>>
      BY <2>2, <2>6, Zenon
    <3> HIDE DEF lines, arrow
    <3> QED
      BY <1>4, <2>2, <2>4, <3>1
  <2> QED
    BY <2>3, <2>5, <2>6, Zenon
<1> QED
  BY <1>5, <1>6, <1>7, PlainLines

(* body is taken line by line; it holds lines behind p.                      *)
Steps(u, isUser, body) ==
  /\ Len(body) \in Nat
  /\ \A k \in 1..Len(body) : u[k] = TakeLine(isUser, u[k - 1], body[k])
LiesAt(body, p, lines) ==
  /\ p \in Nat /\ Len(lines) \in Nat /\ p + Len(lines) <= Len(body)
  /\ \A k \in 1..Len(lines) : body[p + k] = lines[k]
After(u, p, contents, open) == u[p] = Acc(contents, open)
Follows(cs, open, c) ==
  c.type = "text" => /\ cs = <<>> \/ Last(cs).type # "text"
                     /\ open => c.text[1][1] \notin {"arrow", "omitted"}

LEMMA TextRead ==
  ASSUME NEW u, NEW isUser, NEW body, Steps(u, isUser, body),
         NEW text, IsList(text), PlainText(isUser, text), NEW p, LiesAt(body, p, text),
         NEW cs, IsList(cs), NEW open, After(u, p, cs, open), Follows(cs, open, Says(text))
  PROVE  After(u, p + Len(text), Append(cs, Says(text)), FALSE)
<1> DEFINE n == Len(text)
           A == {k \in Nat : k + 1 <= n =>
                   u[p + (k + 1)] = Acc(Append(cs, Says(Upto(text, k + 1))), FALSE)}
<1>1. n \in Nat /\ n >= 1 /\ DOMAIN text = 1..n
  <2>1. n \in Nat /\ DOMAIN text = 1..n /\ text # <<>>
    BY OwnSeq DEF IsList, PlainText
  <2> QED
    BY <2>1 DEF IsList
<1>2. /\ Upto(text, 0) = <<>> /\ Upto(text, n) = text
      /\ \A k \in 0..n : Len(Upto(text, k)) = k
      /\ \A k \in Nat : k < n => Append(Upto(text, k), text[k + 1]) = Upto(text, k + 1)
  BY UptoOneMore
<1>3. \A k \in 1..n : IsTextLine(isUser, text[k])
  BY <1>1 DEF IsTextLine, PlainText, Markup
<1>4. text[1] # Blank
  BY DEF PlainText
<1>5. ASSUME NEW k \in 1..n
      PROVE  u[p + k] = TakeLine(isUser, u[p + (k - 1)], text[k])
  <2>1. p + k \in 1..Len(body) /\ (p + k) - 1 = p + (k - 1) /\ body[p + k] = text[k]
    BY <1>1 DEF LiesAt, Steps
  <2> QED
    BY <2>1 DEF Steps
<1>6. p \in Nat
  BY DEF LiesAt
<1>7. cs = <<>> \/ Last(cs).type # "text"
  BY DEF Follows, Says
<1>8. open => text[1][1] \notin {"arrow", "omitted"}
  BY DEF Follows, Says
<1>9. u[p] = Acc(cs, open)
  BY DEF After
<1> HIDE DEF n
<1>10. 0 \in A
  <2>1. 1 \in 1..n /\ 1 - 1 = 0 /\ p + 0 = p /\ 0 + 1 = 1 /\ 0 \in Nat /\ 0 < n
    BY <1>1, <1>6
  <2>2. u[p + 1] = TakeLine(isUser, u[p], text[1])
    BY <1>5, <2>1
  <2>3. Gives(isUser, Acc(cs, open), text[1], Acc(Append(cs, Says(<<text[1]>>)), FALSE))
    <3>1. IsTextLine(isUser, text[1])
      BY <1>3, <2>1
    <3> QED
      BY <1>4, <1>7, <1>8, <3>1, TakeFirst, Zenon
  <2>4. <<text[1]>> = Upto(text, 1)
    <3>1. Append(<<>>, text[1]) = Upto(text, 1)
      BY <1>2, <2>1
    <3>2. Append(<<>>, text[1]) = <<text[1]>>
      OBVIOUS
    <3> QED
      BY <3>1, <3>2, Zenon
  <2>5. u[p + 1] = Acc(Append(cs, Says(Upto(text, 1))), FALSE)
    BY <1>9, <2>2, <2>3, <2>4, Zenon DEF Gives
  <2> QED
    BY <2>1, <2>5
<1>11. ASSUME NEW k \in Nat, k \in A
       PROVE  k + 1 \in A
  <2>0. SUFFICES ASSUME (k + 1) + 1 <= n
                 PROVE  u[p + ((k + 1) + 1)] =
                          Acc(Append(cs, Says(Upto(text, (k + 1) + 1))), FALSE)
    <3>1. k + 1 \in Nat
      OBVIOUS
    <3> QED
      BY <3>1, Zenon
  <2> DEFINE m == k + 1
             t == Upto(text, m)
  <2>1. u[p + m] = Acc(Append(cs, Says(t)), FALSE)
    <3>1. m <= n
      BY <1>1, <2>0
    <3> QED
      BY <1>11, <3>1, Zenon
  <2>2. m + 1 \in 1..n /\ (m + 1) - 1 = m /\ m \in Nat /\ m < n /\ m # 0 /\ m \in 0..n
    BY <1>1, <2>0
  <2>3. Append(t, text[m + 1]) = Upto(text, m + 1) /\ Len(t) = m
    BY <1>2, <2>2
  <2> HIDE DEF m, t
  <2>4. t # <<>>
    BY <2>2, <2>3
  <2>5. u[p + (m + 1)] = TakeLine(isUser, u[p + m], text[m + 1])
    BY <1>5, <2>2
  <2>6. Gives(isUser, Acc(Append(cs, Says(t)), FALSE), text[m + 1],
              Acc(Append(cs, Says(Append(t, text[m + 1]))), FALSE))
    <3>1. IsTextLine(isUser, text[m + 1])
      BY <1>3, <2>2
    <3> QED
      BY <2>4, <3>1, TakeMore, Zenon
  <2>7. u[p + (m + 1)] = Acc(Append(cs, Says(Upto(text, m + 1))), FALSE)
    BY <2>1, <2>3, <2>5, <2>6, Zenon DEF Gives
  <2> QED
    BY <2>7, Zenon DEF m
<1>12. \A k \in Nat : k \in A
  <2> HIDE DEF A
  <2> QED
    BY <1>10, <1>11, Induction
<1>13. n - 1 \in Nat /\ (n - 1) + 1 = n
  BY <1>1
<1>14. u[p + n] = Acc(Append(cs, Says(Upto(text, n))), FALSE)
  <2>1. n - 1 \in A
    BY <1>12, <1>13
  <2>2. (n - 1) + 1 <= n
    BY <1>1
  <2>3. u[p + ((n - 1) + 1)] = Acc(Append(cs, Says(Upto(text, (n - 1) + 1))), FALSE)
    BY <2>1, <2>2, Zenon
  <2> QED
    BY <1>13, <2>3, Zenon
<1> QED
  BY <1>2, <1>14, Zenon DEF n, After

CanRead(u, isUser, body, c, p, cs, open) ==
  /\ Steps(u, isUser, body)
  /\ IsContent(c) /\ PlainContent(isUser, c) /\ LiesAt(body, p, ContentLines(c, opts))
  /\ IsList(cs) /\ After(u, p, cs, open) /\ Follows(cs, open, c)
Reads(u, p, cs, c) ==
  \E still : /\ After(u, p + Len(ContentLines(c, opts)), Append(cs, c), still)
             /\ still => c.type = "tool"

LEMMA ContentRead ==
  ASSUME NEW u, NEW isUser, NEW body, NEW c, NEW p, NEW cs, NEW open,
         CanRead(u, isUser, body, c, p, cs, open)
  PROVE  Reads(u, p, cs, c)
<1> SUFFICES ASSUME Steps(u, isUser, body), IsContent(c), PlainContent(isUser, c),
                    LiesAt(body, p, ContentLines(c, opts)), IsList(cs),
                    After(u, p, cs, open), Follows(cs, open, c)
             PROVE  \E still : /\ After(u, p + Len(ContentLines(c, opts)), Append(cs, c), still)
                               /\ still => c.type = "tool"
  BY DEF CanRead, Reads
<1> DEFINE lines == ContentLines(c, opts)
<1>0. u[p] = Acc(cs, open)
  BY DEF After
<1>1. CASE /\ c.type = "text" /\ c = Says(c.text) /\ IsList(c.text)
           /\ PlainText(isUser, c.text) /\ lines = c.text
  <2>1. After(u, p + Len(c.text), Append(cs, Says(c.text)), FALSE)
    <3>1. PlainText(isUser, c.text) /\ IsList(c.text) /\ LiesAt(body, p, c.text)
      BY <1>1, Zenon
    <3>2. Follows(cs, open, Says(c.text))
      BY <1>1, Zenon
    <3> QED
      BY <3>1, <3>2, TextRead, Zenon
  <2> QED
    BY <1>1, <2>1, Zenon
<1>2. ASSUME NEW k \in 1..Len(lines)
      PROVE  u[p + k] = TakeLine(isUser, u[p + (k - 1)], lines[k])
  <2> HIDE DEF lines
  <2>0. LiesAt(body, p, lines)
    BY DEF lines
  <2>1. p + k \in 1..Len(body) /\ (p + k) - 1 = p + (k - 1) /\ body[p + k] = lines[k]
    BY <2>0 DEF LiesAt, Steps
  <2> QED
    BY <2>1 DEF Steps
<1>3. p \in Nat /\ p + 0 = p
  BY DEF LiesAt
<1>4. CASE /\ c.type = "thinking"
           /\ \E x : c = Thinking(<<x>>) /\ lines = << <<"thinking", x>> >>
  <2>1. PICK x : c = Thinking(<<x>>) /\ lines = << <<"thinking", x>> >>
    BY <1>4
  <2> DEFINE l == <<"thinking", x>>
  <2>2. Gives(isUser, Acc(cs, open), l, Acc(Append(cs, c), FALSE))
    BY <2>1, TakeThinking, Zenon
  <2> HIDE DEF l, lines
  <2>3. Len(lines) = 1 /\ lines[1] = l /\ 1 \in 1..1 /\ 1 - 1 = 0
    BY <2>1 DEF l
  <2>4. u[p + 1] = TakeLine(isUser, u[p], l)
    BY <1>2, <1>3, <2>3
  <2> QED
    BY <1>0, <2>2, <2>3, <2>4, Zenon DEF lines, Gives, After
<1>5. CASE c.type = "tool" /\ ToldInLines(c, lines)
  <2>1. PICK name, args, s :
          /\ Arguments(name, s) = args
          /\ \/ c = Tool(name, args, <<>>) /\ lines = << <<"tool", name, s>> >>
             \/ \E x, error : /\ c = Tool(name, args, <<Result(<<x>>, error)>>)
                              /\ lines = << <<"tool", name, s>>, Arrow(error, x) >>
    BY <1>5, Zenon DEF ToldInLines
  <2> DEFINE l == <<"tool", name, s>>
             call == Tool(name, args, <<>>)
  <2>2. Gives(isUser, Acc(cs, open), l, Acc(Append(cs, call), TRUE))
    BY <2>1, TakeTool, Zenon
  <2>3. ASSUME Len(lines) >= 1, Len(lines) \in Nat, lines[1] = l
        PROVE  u[p + 1] = Acc(Append(cs, call), TRUE)
    <3> HIDE DEF l, lines, call
    <3>1. 1 \in 1..Len(lines) /\ 1 - 1 = 0
      BY <2>3
    <3>2. u[p + 1] = TakeLine(isUser, u[p + 0], l)
      BY <1>2, <2>3, <3>1
    <3> QED
      BY <1>0, <1>3, <2>2, <3>2, Zenon DEF Gives
  <2>4. CASE c = call /\ lines = <<l>>
    <3> HIDE DEF l, lines, call
    <3>1. Len(lines) = 1 /\ lines[1] = l
      BY <2>4
    <3>2. u[p + 1] = Acc(Append(cs, call), TRUE)
      <4>1. Len(lines) >= 1 /\ Len(lines) \in Nat
        BY <3>1
      <4> QED
        BY <2>3, <3>1, <4>1, Zenon
    <3>3. u[p + Len(lines)] = Acc(Append(cs, c), TRUE)
      BY <2>4, <3>1, <3>2, Zenon
    <3> QED
      BY <1>5, <3>3, Zenon DEF lines, After
  <2>5. ASSUME NEW x, NEW error, c = Tool(name, args, <<Result(<<x>>, error)>>),
               lines = <<l, Arrow(error, x)>>
        PROVE  After(u, p + Len(lines), Append(cs, c), TRUE)
    <3> DEFINE arrow == Arrow(error, x)
    <3>1. Gives(isUser, Acc(Append(cs, call), TRUE), arrow, Acc(Append(cs, c), TRUE))
      <4>1. Gives(isUser, Acc(Append(cs, Tool(name, args, <<>>)), TRUE), Arrow(error, x),
                  Acc(Append(cs, Tool(name, args, <<Result(<<x>>, error)>>)), TRUE))
        BY TakeArrow, Zenon
      <4> QED
        BY <2>5, <4>1, Zenon
    <3> HIDE DEF l, lines, call, arrow
    <3>2. Len(lines) = 2 /\ lines[1] = l /\ lines[2] = arrow /\ 2 \in 1..2 /\ 2 - 1 = 1
      BY <2>5 DEF arrow
    <3>3. u[p + 1] = Acc(Append(cs, call), TRUE)
      <4>1. Len(lines) >= 1 /\ Len(lines) \in Nat
        BY <3>2
      <4> QED
        BY <2>3, <3>2, <4>1, Zenon
    <3>4. u[p + 2] = TakeLine(isUser, u[p + 1], arrow)
      BY <1>2, <3>2
    <3> QED
      BY <3>1, <3>2, <3>3, <3>4, Zenon DEF Gives, After, lines
  <2> QED
    BY <1>5, <2>1, <2>4, <2>5, Zenon
<1> QED
  BY <1>1, <1>4, <1>5, PlainLines

(* The contents of a plain turn have places in the lines written for it.     *)
Placed(at, body, cs) ==
  /\ at[1] = 0 /\ at[Len(cs) + 1] = Len(body)
  /\ \A j \in 1..Len(cs) : /\ at[j + 1] = at[j] + Len(ContentLines(cs[j], opts))
                           /\ LiesAt(body, at[j], ContentLines(cs[j], opts))
BodyOf(cs, isUser, body) ==
  /\ IsList(body) /\ Len(body) >= 1
  /\ \A k \in 1..Len(body) : InTurn(isUser, body[k])
  /\ body[1] = ContentLines(cs[1], opts)[1]
  /\ \E at : Placed(at, body, cs)
AllPlain(isUser, cs) == \A j \in 1..Len(cs) : PlainContent(isUser, cs[j])

LEMMA BodyIs ==
  ASSUME NEW isUser, NEW cs, AreContents(cs), cs # <<>>, AllPlain(isUser, cs)
  PROVE  BodyOf(cs, isUser, AllContents(cs, opts))
<1> DEFINE n == Len(cs)
           ss == [j \in 1..n |-> ContentLines(cs[j], opts)]
           body == AllContents(cs, opts)
<1>1. n \in Nat /\ n >= 1 /\ DOMAIN cs = 1..n
  BY DEF AreContents
<1>2. body = FlattenSeq(ss)
  BY <1>1, Zenon DEF AllContents
<1>3. \A j \in 1..n : LinesOf(cs[j], isUser, ss[j]) /\ ss[j] = ContentLines(cs[j], opts)
  <2>1. ASSUME NEW j \in 1..n
        PROVE  LinesOf(cs[j], isUser, ContentLines(cs[j], opts))
    <3>1. IsContent(cs[j]) /\ PlainContent(isUser, cs[j])
      BY DEF AreContents, AllPlain
    <3> QED
      BY <3>1, LinesAre
  <2> QED
    BY <2>1, Zenon
<1>4. ss = [j \in 1..n |-> ss[j]]
  OBVIOUS
<1>5. \A j \in 1..n : ContentLines(cs[j], opts) = ss[j]
  OBVIOUS
<1> HIDE DEF n, ss, body
<1>6. \A j \in 1..n : /\ IsList(ss[j]) /\ Len(ss[j]) \in Nat /\ Len(ss[j]) >= 1
                      /\ \A k \in 1..Len(ss[j]) : InTurn(isUser, ss[j][k])
  BY <1>3, OwnSeq DEF LinesOf, IsList
<1>7. IsList(body)
  BY <1>1, <1>2, <1>4, <1>6, ListFlattened
<1>8. PICK V : ss \in Seq(Seq(V)) /\ Len(ss) = n
  BY <1>1, <1>4, <1>6, SeqOfSeqs DEF IsList
<1>9. PICK at : Lays(at, body, ss, n)
  BY <1>2, <1>8, FlattenLays
<1>10. /\ at \in [1..(n + 1) -> Nat] /\ at[1] = 0 /\ Len(body) = at[n + 1]
       /\ \A j \in 1..n : at[j + 1] = at[j] + Len(ss[j])
       /\ \A j \in 1..n : \A k \in 1..Len(ss[j]) :
            at[j] + k \in 1..Len(body) /\ body[at[j] + k] = ss[j][k]
       /\ \A p \in 1..Len(body) : \E j \in 1..n : \E k \in 1..Len(ss[j]) : p = at[j] + k
  BY <1>9, Zenon DEF Lays
<1>11. Len(body) \in Nat
  BY <1>7, OwnSeq DEF IsList
<1>12. \A j \in 1..n : LiesAt(body, at[j], ss[j])
  <2>1. ASSUME NEW j \in 1..n
        PROVE  at[j] \in Nat /\ at[j] + Len(ss[j]) <= Len(body)
    <3>0. j \in 1..(n + 1) /\ Len(ss[j]) \in Nat /\ Len(ss[j]) >= 1
      BY <1>1, <1>6
    <3>1. at[j] \in Nat /\ Len(ss[j]) \in 1..Len(ss[j])
      BY <1>10, <3>0
    <3>2. at[j] + Len(ss[j]) \in 1..Len(body)
      BY <1>10, <3>1
    <3> QED
      BY <3>1, <3>2
  <2> QED
    BY <1>6, <1>10, <2>1 DEF LiesAt
<1>13. Placed(at, body, cs)
  BY <1>5, <1>10, <1>12, Zenon DEF Placed, n
<1>14. ASSUME NEW k \in 1..Len(body)
       PROVE  InTurn(isUser, body[k])
  <2>1. PICK j \in 1..n : \E i \in 1..Len(ss[j]) : k = at[j] + i
    BY <1>10
  <2>2. PICK i \in 1..Len(ss[j]) : k = at[j] + i
    BY <2>1
  <2>3. body[k] = ss[j][i]
    BY <1>10, <2>2
  <2> QED
    BY <1>6, <2>3
<1>15. Len(body) >= 1 /\ body[1] = ss[1][1]
  <2>1. 1 \in 1..n /\ 1 \in 1..Len(ss[1]) /\ 0 + 1 = 1
    BY <1>1, <1>6
  <2>2. 1 \in 1..Len(body) /\ body[1] = ss[1][1]
    BY <1>10, <2>1
  <2> QED
    BY <1>11, <2>2
<1>16. ss[1] = ContentLines(cs[1], opts)
  BY <1>1, <1>3
<1> QED
  BY <1>7, <1>13, <1>14, <1>15, <1>16, Zenon DEF BodyOf, body

(* A turn of plain contents, none of which joins the one before it.          *)
Apart(cs) ==
  \A j \in 2..Len(cs) : cs[j].type = "text" =>
     /\ cs[j - 1].type # "text"
     /\ cs[j - 1].type = "tool" => cs[j].text[1][1] \notin {"arrow", "omitted"}

LEMMA TurnRead ==
  ASSUME NEW isUser, NEW cs, AreContents(cs), cs # <<>>, AllPlain(isUser, cs), Apart(cs)
  PROVE  TurnContents(isUser, AllContents(cs, opts)) = cs
<1> DEFINE n == Len(cs)
           body == AllContents(cs, opts)
           m == Len(body)
           u == CHOOSE v : Takes(v, isUser, body, m)
<1>1. n \in Nat /\ n >= 1 /\ IsList(cs)
  BY DEF AreContents, IsList
<1>2. TurnContents(isUser, body) = u[m].contents
  BY Zenon DEF TurnContents, Takes
<1>3. BodyOf(cs, isUser, body)
  BY BodyIs
<1>4. m \in Nat
  BY <1>3, OwnSeq DEF BodyOf, IsList
<1>5. Takes(u, isUser, body, m)
  <2>1. \E v : Takes(v, isUser, body, m)
    BY <1>4, TakesExist
  <2> HIDE DEF Takes
  <2> QED
    BY <2>1
<1> HIDE DEF u, body
<1>6. \A k \in 0..m : u[k] = IF k = 0 THEN [contents |-> <<>>, open |-> FALSE]
                             ELSE TakeLine(isUser, u[k - 1], body[k])
  BY <1>5, Zenon DEF Takes
<1>7. Steps(u, isUser, body)
  <2>1. \A k \in 1..m : k \in 0..m /\ k # 0
    BY <1>4
  <2> QED
    BY <1>4, <1>6, <2>1 DEF Steps
<1>8. PICK at : Placed(at, body, cs)
  BY <1>3 DEF BodyOf
<1>9. u[0] = Acc(<<>>, FALSE)
  <2>1. 0 \in 0..m
    BY <1>4
  <2> QED
    BY <1>6, <2>1, Zenon DEF Acc
<1>10. /\ Upto(cs, 0) = <<>> /\ Upto(cs, n) = cs
       /\ \A k \in 0..n : IsList(Upto(cs, k)) /\ Len(Upto(cs, k)) = k
       /\ \A k \in Nat : k < n => Append(Upto(cs, k), cs[k + 1]) = Upto(cs, k + 1)
  BY <1>1, UptoOneMore
<1> DEFINE At(j, o) == /\ After(u, at[j + 1], Upto(cs, j), o)
                       /\ o => j >= 1 /\ cs[j].type = "tool"
           A == {j \in Nat : j <= n => \E o : At(j, o)}
<1> HIDE DEF n, m
<1>11. 0 \in A
  <2>1. at[0 + 1] = 0
    <3>1. 0 + 1 = 1
      OBVIOUS
    <3> QED
      BY <1>8, <3>1, Zenon DEF Placed
  <2>2. At(0, FALSE)
    BY <1>9, <1>10, <2>1, Zenon DEF After
  <2> QED
    BY <2>2
<1>12. ASSUME NEW j \in Nat, j \in A
       PROVE  j + 1 \in A
  <2> DEFINE i == j + 1
             c == cs[i]
             pre == Upto(cs, j)
  <2>0. SUFFICES ASSUME i <= n
                 PROVE  \E o : At(i, o)
    <3>1. i \in Nat
      OBVIOUS
    <3> QED
      BY <3>1, Zenon
  <2>1. i \in 1..n /\ j < n /\ j \in 0..n /\ j <= n /\ i \in Nat /\ i >= 1
    BY <1>1, <2>0
  <2>2. PICK open : At(j, open)
    BY <1>12, <2>1, Zenon
  <2>3. After(u, at[i], pre, open) /\ (open => j >= 1 /\ cs[j].type = "tool")
    BY <2>2
  <2>4. IsContent(c) /\ PlainContent(isUser, c)
    BY <2>1 DEF AreContents, AllPlain, n
  <2>5. /\ at[i + 1] = at[i] + Len(ContentLines(c, opts))
        /\ LiesAt(body, at[i], ContentLines(c, opts))
    BY <1>8, <2>1 DEF Placed, n
  <2>6. IsList(pre) /\ Len(pre) = j /\ Append(pre, c) = Upto(cs, i)
    BY <1>10, <2>1
  <2>7. Follows(pre, open, c)
    <3> SUFFICES ASSUME c.type = "text"
                 PROVE  /\ pre = <<>> \/ Last(pre).type # "text"
                        /\ open => c.text[1][1] \notin {"arrow", "omitted"}
      BY DEF Follows
    <3>1. CASE j = 0
      <4>1. pre = <<>> /\ ~(j >= 1)
        <5>1. pre = <<>>
          BY <1>10, <3>1, Zenon
        <5>2. ~(j >= 1)
          BY <3>1
        <5> QED
          BY <5>1, <5>2
      <4> QED
        BY <2>3, <4>1, Zenon
    <3>2. CASE j # 0
      <4>1. i \in 2..n /\ i - 1 = j /\ j \in 1..j
        BY <2>1, <3>2
      <4>2. /\ cs[j].type # "text"
            /\ cs[j].type = "tool" => c.text[1][1] \notin {"arrow", "omitted"}
        BY <4>1 DEF Apart, n
      <4>3. Last(pre) = cs[j]
        <5>1. pre[j] = cs[j]
          BY <4>1 DEF Upto
        <5> HIDE DEF pre
        <5> QED
          BY <2>6, <5>1 DEF Last
      <4> HIDE DEF c, pre, i
      <4> QED
        BY <2>3, <4>2, <4>3, Zenon
    <3> QED
      BY <3>1, <3>2
  <2> HIDE DEF i, c, pre
  <2>8. PICK still : /\ After(u, at[i] + Len(ContentLines(c, opts)), Append(pre, c), still)
                     /\ still => c.type = "tool"
    <3>1. CanRead(u, isUser, body, c, at[i], pre, open)
      BY <1>7, <2>3, <2>4, <2>5, <2>6, <2>7, Zenon DEF CanRead
    <3>2. Reads(u, at[i], pre, c)
      BY <3>1, ContentRead, Zenon
    <3> QED
      BY <3>2, Zenon DEF Reads
  <2>9. After(u, at[i + 1], Upto(cs, i), still)
    BY <2>5, <2>6, <2>8, Zenon
  <2>10. At(i, still)
    BY <2>1, <2>8, <2>9, Zenon DEF c
  <2> QED
    BY <2>10
<1>13. \A j \in Nat : j \in A
  <2> HIDE DEF A
  <2> QED
    BY <1>11, <1>12, Induction
<1>14. PICK o : After(u, at[n + 1], Upto(cs, n), o)
  <2>1. n \in A /\ n <= n
    BY <1>1, <1>13
  <2> QED
    BY <2>1, Zenon
<1>15. u[m] = Acc(cs, o)
  BY <1>8, <1>10, <1>14, Zenon DEF After, Placed, n, m
<1>16. Acc(cs, o).contents = cs
  BY DEF Acc
<1> QED
  BY <1>2, <1>15, <1>16, Zenon DEF body

(* Where the lines of an event stand in a file.                              *)
LEMMA JoinedElements ==
  ASSUME NEW s, NEW t, IsList(s), IsList(t)
  PROVE  /\ Len(s) \in Nat /\ Len(t) \in Nat /\ Len(s \o t) = Len(s) + Len(t)
         /\ \A k \in 1..Len(s) : (s \o t)[k] = s[k]
         /\ \A k \in 1..Len(t) : (s \o t)[Len(s) + k] = t[k]
<1> DEFINE V == ToSet(s) \cup ToSet(t)
<1>1. s \in Seq(V) /\ t \in Seq(V)
  <2>1. s \in Seq(ToSet(s)) /\ t \in Seq(ToSet(t))
    BY DEF IsList
  <2>2. ToSet(s) \subseteq V /\ ToSet(t) \subseteq V
    OBVIOUS
  <2> HIDE DEF V
  <2> QED
    BY <2>1, <2>2
<1> HIDE DEF V
<1>2. Len(s) \in Nat /\ Len(t) \in Nat /\ Len(s \o t) = Len(s) + Len(t)
  BY <1>1
<1>3. \A k \in 1..(Len(s) + Len(t)) :
        (s \o t)[k] = IF k <= Len(s) THEN s[k] ELSE t[k - Len(s)]
  BY <1>1
<1>4. \A k \in 1..Len(s) : k \in 1..(Len(s) + Len(t)) /\ k <= Len(s)
  BY <1>2
<1>5. \A k \in 1..Len(t) : /\ Len(s) + k \in 1..(Len(s) + Len(t)) /\ ~(Len(s) + k <= Len(s))
                           /\ (Len(s) + k) - Len(s) = k
  BY <1>2
<1> QED
  BY <1>2, <1>3, <1>4, <1>5, Zenon

Stand(ls, p, s, t) ==
  /\ LiesAt(ls, p, s) /\ LiesAt(ls, p + Len(s), t)
  /\ Len(s) \in Nat /\ Len(t) \in Nat /\ Len(s \o t) = Len(s) + Len(t)
LEMMA PartsStand ==
  ASSUME NEW ls, NEW p, NEW s, NEW t, IsList(ls), IsList(s), IsList(t), LiesAt(ls, p, s \o t)
  PROVE  Stand(ls, p, s, t)
<1> DEFINE st == s \o t
<1>1. /\ Len(s) \in Nat /\ Len(t) \in Nat /\ Len(st) = Len(s) + Len(t)
      /\ \A k \in 1..Len(s) : st[k] = s[k]
      /\ \A k \in 1..Len(t) : st[Len(s) + k] = t[k]
  BY JoinedElements
<1>2. LiesAt(ls, p, st)
  OBVIOUS
<1> HIDE DEF st
<1>3. /\ p \in Nat /\ p + Len(st) <= Len(ls) /\ Len(ls) \in Nat
      /\ \A k \in 1..Len(st) : ls[p + k] = st[k]
  BY <1>2, OwnSeq DEF LiesAt, IsList
<1>4. \A k \in 1..Len(s) : k \in 1..Len(st)
  BY <1>1
<1>5. \A k \in 1..Len(t) : Len(s) + k \in 1..Len(st) /\ p + (Len(s) + k) = (p + Len(s)) + k
  BY <1>1, <1>3
<1>6. LiesAt(ls, p, s)
  BY <1>1, <1>3, <1>4 DEF LiesAt
<1>7. LiesAt(ls, p + Len(s), t)
  <2>1. ASSUME NEW k \in 1..Len(t)
        PROVE  ls[(p + Len(s)) + k] = t[k]
    <3>1. ls[p + (Len(s) + k)] = st[Len(s) + k]
      BY <1>3, <1>5
    <3> QED
      BY <1>1, <1>5, <3>1
  <2> QED
    BY <1>1, <1>3, <2>1 DEF LiesAt
<1> QED
  BY <1>1, <1>6, <1>7 DEF st, Stand

LEMMA Stands1 ==
  ASSUME NEW ls, NEW p, NEW a, LiesAt(ls, p, <<a>>)
  PROVE  p + 1 <= Len(ls) /\ ls[p + 1] = a
<1> DEFINE s == <<a>>
<1>1. Len(s) = 1 /\ s[1] = a /\ LiesAt(ls, p, s)
  OBVIOUS
<1> HIDE DEF s
<1> QED
  BY <1>1 DEF LiesAt

LEMMA Stands2 ==
  ASSUME NEW ls, NEW p, NEW a, NEW b, LiesAt(ls, p, <<a, b>>)
  PROVE  p + 2 <= Len(ls) /\ ls[p + 1] = a /\ ls[p + 2] = b
<1> DEFINE s == <<a, b>>
<1>1. Len(s) = 2 /\ s[1] = a /\ s[2] = b /\ LiesAt(ls, p, s)
  OBVIOUS
<1> HIDE DEF s
<1> QED
  BY <1>1 DEF LiesAt

LEMMA FirstOfIs ==
  ASSUME NEW ls, NEW found, found \in SUBSET Nat, NEW x \in found, \A y \in found : x <= y
  PROVE  FirstOf(ls, found) = x
<1>1. FirstOf(ls, found) = CHOOSE j \in found : \A k \in found : j <= k
  BY DEF FirstOf
<1> DEFINE y == CHOOSE j \in found : \A k \in found : j <= k
<1>2. y \in found /\ \A k \in found : y <= k
  OBVIOUS
<1> HIDE DEF y
<1>3. y = x
  <2>1. y \in Nat /\ x \in Nat /\ y <= x /\ x <= y
    BY <1>2
  <2> QED
    BY <2>1
<1> QED
  BY <1>1, <1>3 DEF y

LEMMA PartOf ==
  ASSUME NEW ls, IsList(ls), NEW p, NEW s, IsList(s), LiesAt(ls, p, s)
  PROVE  SubSeq(ls, p + 1, p + Len(s)) = s
<1> DEFINE n == Len(s)
           t == SubSeq(ls, p + 1, p + n)
<1>1. /\ p \in Nat /\ n \in Nat /\ p + n <= Len(ls) /\ Len(ls) \in Nat
      /\ \A k \in 1..n : ls[p + k] = s[k]
  BY OwnSeq DEF LiesAt, IsList
<1>2. ls \in Seq(ToSet(ls)) /\ DOMAIN ls = 1..Len(ls)
  BY OwnSeq DEF IsList
<1>3. s \in Seq(ToSet(s)) /\ DOMAIN s = 1..n
  BY OwnSeq DEF IsList
<1> HIDE DEF n
<1>4. \A k \in (p + 1)..(p + n) : ls[k] \in ToSet(ls)
  <2>1. \A k \in (p + 1)..(p + n) : k \in DOMAIN ls
    BY <1>1, <1>2
  <2> QED
    BY <2>1 DEF ToSet
<1>5. /\ t \in Seq(ToSet(ls)) /\ Len(t) = n
      /\ \A k \in 1..n : t[k] = ls[(p + 1) + k - 1]
  BY <1>1, <1>4, SubSeqProperties
<1> HIDE DEF t
<1>6. \A k \in 1..n : (p + 1) + k - 1 = p + k
  BY <1>1
<1>7. \A k \in 1..n : t[k] = s[k]
  BY <1>1, <1>5, <1>6
<1>8. t = [k \in 1..n |-> t[k]] /\ s = [k \in 1..n |-> s[k]]
  BY <1>3, <1>5 DEF n
<1>9. t = s
  BY <1>7, <1>8, Zenon
<1> QED
  BY <1>9 DEF t, n

LEMMA PairIsList == \A x, y : IsList(<<x, y>>)
<1> SUFFICES ASSUME NEW x, NEW y
             PROVE  IsList(<<x, y>>)
  OBVIOUS
<1>1. <<x, y>> \in Seq({x, y})
  OBVIOUS
<1> QED
  BY <1>1, OwnSeq DEF IsList

(* The separators, and what is none.                                         *)
LEMMA Separators ==
  /\ IsSep(TurnLine) /\ IsSep(CompactSep)
  /\ ~IsSep(Blank) /\ ~IsSep(EndUp)
  /\ TurnLine # CompactSep /\ Blank # EndUp
  /\ TurnLine[1] = "sep" /\ TurnLine[2] = "turn"
  /\ CompactSep[1] = "sep" /\ CompactSep[2] = "compaction"
<1>1. \A a, b : <<a, b>>[1] = a /\ <<a, b>>[2] = b
  OBVIOUS
<1>2. /\ TurnLine[1] = "sep" /\ TurnLine[2] = "turn"
      /\ CompactSep[1] = "sep" /\ CompactSep[2] = "compaction"
  BY <1>1, Zenon DEF TurnLine, CompactSep
<1>3. Blank[1] = "blank" /\ EndUp[1] = "/up"
  BY DEF Blank, EndUp
<1> QED
  BY <1>2, <1>3 DEF IsSep

(* A separator or nothing comes behind q.                                    *)
Behind(ls, q) == q = Len(ls) \/ (q < Len(ls) /\ IsSep(ls[q + 1]))
ParsesTo(ls, i, e, next) ==
  ParsedAt(ls, i).events = <<e>> /\ ParsedAt(ls, i).next = next

LEMMA TurnAt ==
  ASSUME NEW ls, NEW i, ls[i] = TurnLine
  PROVE  ParsedAt(ls, i) = ParsedTurn(ls, i)
<1> DEFINE l == ls[i]
<1>1. l[1] # "session" /\ ~(l[1] = "sep" /\ l[2] \in {"model", "level"}) /\ l # CompactSep
      /\ l = TurnLine
  BY Separators
<1> HIDE DEF l
<1> QED
  BY <1>1, Zenon DEF ParsedAt, l

UserLines(body, usage) == <<TurnLine, Up>> \o body \o <<EndUp>> \o usage \o <<Blank>>
AnswerLines(body) == <<TurnLine>> \o body \o <<Blank>>

UserFramed(ls, p, body, usage) ==
  /\ p \in Nat /\ Len(ls) \in Nat /\ Len(body) \in Nat /\ Len(usage) \in Nat
  /\ Len(UserLines(body, usage)) = Len(body) + 3 + Len(usage) + 1
  /\ p + Len(body) + 3 + Len(usage) + 1 <= Len(ls)
  /\ ls[p + 1] = TurnLine /\ ls[p + 2] = Up
  /\ LiesAt(ls, p + 2, body)
  /\ ls[p + Len(body) + 3] = EndUp /\ LiesAt(ls, p + Len(body) + 3, usage)
  /\ ls[p + Len(body) + 3 + Len(usage) + 1] = Blank

LEMMA UserStands ==
  ASSUME NEW ls, IsList(ls), NEW p, NEW body, IsList(body), NEW usage, IsList(usage),
         LiesAt(ls, p, UserLines(body, usage))
  PROVE  UserFramed(ls, p, body, usage)
<1> DEFINE a == <<TurnLine, Up>>
           b == <<EndUp>>
           c == <<Blank>>
           n == Len(body)
           m == Len(usage)
           x == a \o body
           y == x \o b
           z == y \o usage
<1>1. IsList(a) /\ IsList(b) /\ IsList(c) /\ Len(a) = 2 /\ Len(b) = 1 /\ Len(c) = 1
  <2>1. IsList(a) /\ IsList(b) /\ IsList(c)
    BY PairIsList, ListOfOne, Zenon
  <2>2. Len(a) = 2 /\ Len(b) = 1 /\ Len(c) = 1
    OBVIOUS
  <2> QED
    BY <2>1, <2>2, Zenon
<1>2. UserLines(body, usage) = z \o c
  BY Zenon DEF UserLines
<1>3. LiesAt(ls, p, z \o c)
  BY <1>2, Zenon
<1> HIDE DEF a, b, c
<1>4. IsList(x)
  BY <1>1, ListJoined
<1> HIDE DEF x
<1>5. IsList(y)
  BY <1>1, <1>4, ListJoined
<1> HIDE DEF y
<1>6. IsList(z)
  BY <1>5, ListJoined
<1> HIDE DEF z
<1>7. LiesAt(ls, p, z) /\ LiesAt(ls, p + Len(z), c) /\ Len(z \o c) = Len(z) + Len(c)
  <2>1. Stand(ls, p, z, c)
    BY <1>1, <1>3, <1>6, PartsStand, Zenon
  <2> QED
    BY <2>1, Zenon DEF Stand
<1>8. /\ LiesAt(ls, p, y) /\ LiesAt(ls, p + Len(y), usage) /\ m \in Nat
      /\ Len(z) = Len(y) + m
  <2>1. LiesAt(ls, p, y \o usage)
    BY <1>7, Zenon DEF z
  <2>2. Stand(ls, p, y, usage)
    BY <1>5, <2>1, PartsStand, Zenon
  <2> QED
    BY <2>2, Zenon DEF z, Stand
<1>9. /\ LiesAt(ls, p, x) /\ LiesAt(ls, p + Len(x), b)
      /\ Len(y) = Len(x) + Len(b)
  <2>1. LiesAt(ls, p, x \o b)
    BY <1>8, Zenon DEF y
  <2>2. Stand(ls, p, x, b)
    BY <1>1, <1>4, <2>1, PartsStand, Zenon
  <2> QED
    BY <2>2, Zenon DEF y, Stand
<1>10. /\ LiesAt(ls, p, a) /\ LiesAt(ls, p + Len(a), body) /\ n \in Nat
       /\ Len(x) = Len(a) + n
  <2>1. LiesAt(ls, p, a \o body)
    BY <1>9, Zenon DEF x
  <2>2. Stand(ls, p, a, body)
    BY <1>1, <2>1, PartsStand, Zenon
  <2> QED
    BY <2>2, Zenon DEF x, Stand
<1>11. p \in Nat /\ Len(ls) \in Nat
  BY <1>10, OwnSeq DEF LiesAt, IsList
<1> HIDE DEF n, m
<1>12. /\ Len(x) = 2 + n /\ p + Len(x) = p + n + 2
       /\ Len(y) = n + 3 /\ p + Len(y) = p + n + 3
       /\ Len(z) = n + 3 + m /\ p + Len(z) = p + n + 3 + m
       /\ Len(z \o c) = n + 3 + m + 1
  BY <1>1, <1>7, <1>8, <1>9, <1>10, <1>11
<1>13. ls[p + 1] = TurnLine /\ ls[p + 2] = Up
  <2>1. LiesAt(ls, p, <<TurnLine, Up>>)
    BY <1>10 DEF a
  <2> QED
    BY <2>1, Stands2
<1>14. ls[p + n + 3] = EndUp
  <2>1. LiesAt(ls, p + n + 2, <<EndUp>>)
    BY <1>9, <1>12, Zenon DEF b
  <2>2. (p + n + 2) + 1 = p + n + 3
    BY <1>10, <1>11
  <2> QED
    BY <2>1, <2>2, Stands1, Zenon
<1>15. p + n + 3 + m + 1 <= Len(ls) /\ ls[p + n + 3 + m + 1] = Blank
  <2>1. LiesAt(ls, p + n + 3 + m, <<Blank>>)
    BY <1>7, <1>12, Zenon DEF c
  <2> QED
    BY <2>1, Stands1, Zenon
<1>16. LiesAt(ls, p + 2, body) /\ LiesAt(ls, p + n + 3, usage)
  BY <1>1, <1>8, <1>10, <1>12, Zenon
<1> QED
  BY <1>2, <1>8, <1>10, <1>11, <1>12, <1>13, <1>14, <1>15, <1>16, Zenon DEF UserFramed, n, m

Framed(ls, p, a, body) ==
  /\ p \in Nat /\ Len(ls) \in Nat /\ Len(body) \in Nat
  /\ Len(<<a>> \o body \o <<Blank>>) = Len(body) + 2 /\ p + Len(body) + 2 <= Len(ls)
  /\ ls[p + 1] = a /\ LiesAt(ls, p + 1, body) /\ ls[p + Len(body) + 2] = Blank
LEMMA AnswerStands ==
  ASSUME NEW ls, IsList(ls), NEW p, NEW a, NEW body, IsList(body),
         LiesAt(ls, p, <<a>> \o body \o <<Blank>>)
  PROVE  Framed(ls, p, a, body)
<1> DEFINE s == <<a>>
           b == <<Blank>>
           n == Len(body)
<1>1. IsList(s) /\ IsList(b) /\ IsList(s \o body) /\ Len(s) = 1 /\ Len(b) = 1
  <2>1. IsList(s) /\ IsList(b)
    BY ListOfOne, Zenon
  <2>2. Len(s) = 1 /\ Len(b) = 1
    OBVIOUS
  <2> HIDE DEF s, b
  <2> QED
    BY <2>1, <2>2, ListJoined
<1>2. LiesAt(ls, p, (s \o body) \o b)
  OBVIOUS
<1> HIDE DEF s, b
<1>3. /\ LiesAt(ls, p, s \o body) /\ LiesAt(ls, p + Len(s \o body), b)
      /\ Len((s \o body) \o b) = Len(s \o body) + Len(b)
  <2> DEFINE x == s \o body
  <2>1. IsList(x) /\ LiesAt(ls, p, x \o b)
    BY <1>1, <1>2
  <2> HIDE DEF x
  <2>2. /\ LiesAt(ls, p, x) /\ LiesAt(ls, p + Len(x), b)
        /\ Len(x \o b) = Len(x) + Len(b)
    <3>1. Stand(ls, p, x, b)
      BY <1>1, <2>1, PartsStand, Zenon
    <3> QED
      BY <3>1 DEF Stand
  <2> QED
    BY <2>2 DEF x
<1>4. /\ LiesAt(ls, p, s) /\ LiesAt(ls, p + Len(s), body)
      /\ Len(s \o body) = Len(s) + n /\ n \in Nat
  <2>1. Stand(ls, p, s, body)
    BY <1>1, <1>3, PartsStand, Zenon
  <2> QED
    BY <2>1 DEF Stand
<1>5. p \in Nat /\ Len(ls) \in Nat
  BY <1>4, OwnSeq DEF LiesAt, IsList
<1> HIDE DEF n
<1>6. ls[p + 1] = a
  BY <1>4, Stands1 DEF s
<1>7. (p + (1 + n)) + 1 <= Len(ls) /\ ls[(p + (1 + n)) + 1] = Blank
  <2>1. LiesAt(ls, p + (1 + n), <<Blank>>)
    BY <1>1, <1>3, <1>4 DEF b
  <2> QED
    BY <2>1, Stands1, Zenon
<1>8. (p + (1 + n)) + 1 = p + n + 2
  BY <1>4, <1>5
<1>9. p + n + 2 <= Len(ls) /\ ls[p + n + 2] = Blank
  BY <1>7, <1>8, Zenon
<1>10. Len((s \o body) \o b) = n + 2
  BY <1>1, <1>3, <1>4
<1>11. LiesAt(ls, p + 1, body)
  BY <1>1, <1>4
<1> QED
  BY <1>4, <1>5, <1>6, <1>9, <1>10, <1>11 DEF n, s, b, Framed

(* What a turn is parsed to, once it is known where it ends.                 *)
Ends(ls, i, isUser, first, end) ==
  /\ isUser = (i < Len(ls) /\ ls[i + 1] = Up)
  /\ first = IF isUser THEN i + 2 ELSE i + 1
  /\ end = FirstOf(ls, {j \in first..Len(ls) :
             IsSep(ls[j]) \/ (IF isUser THEN ls[j] = EndUp ELSE ClosesTurn(ls, j))})

LEMMA TurnParsed ==
  ASSUME NEW ls, NEW i, ls[i] = TurnLine, NEW isUser, NEW first, NEW end,
         Ends(ls, i, isUser, first, end), NEW cs, cs # <<>>,
         TurnContents(isUser, SubSeq(ls, first, end - 1)) = cs, NEW next,
         next = SkipBlank(ls, IF end <= Len(ls) /\ ~IsSep(ls[end]) THEN end + 1 ELSE end)
  PROVE  ParsesTo(ls, i, TurnOf(IF isUser THEN "user" ELSE "assistant", cs), next)
<1>1. ParsedTurn(ls, i) =
        [events |-> IF cs = <<>> THEN <<>>
                    ELSE <<TurnOf(IF isUser THEN "user" ELSE "assistant", cs)>>,
         next   |-> next]
  BY Zenon DEF ParsedTurn, Ends
<1>2. ParsedAt(ls, i) = ParsedTurn(ls, i)
  BY TurnAt
<1>3. ParsedTurn(ls, i) =
        [events |-> <<TurnOf(IF isUser THEN "user" ELSE "assistant", cs)>>, next |-> next]
  BY <1>1, Zenon
<1> DEFINE e == TurnOf(IF isUser THEN "user" ELSE "assistant", cs)
<1>4. ParsedAt(ls, i) = [events |-> <<e>>, next |-> next]
  BY <1>2, <1>3, Zenon
<1> HIDE DEF e
<1>5. ParsesTo(ls, i, e, next)
  BY <1>4 DEF ParsesTo
<1> QED
  BY <1>5 DEF e

(* The token counts of a turn: none or one line.  Behind </up> the line, and *)
(* the blank one after it, are read as nothing.                              *)
IsUsage(usage) == usage = <<>> \/ usage = <<Tokens>>

LEMMA UsageIs ==
  ASSUME NEW usage, IsUsage(usage)
  PROVE  IsList(usage)
<1>1. IsList(<<>>) /\ IsList(<<Tokens>>)
  BY ListOfOne DEF IsList
<1> QED
  BY <1>1 DEF IsUsage

Told(ls, i, e, next) ==
  \/ ParsesTo(ls, i, e, next)
  \/ \E m \in 1..Len(ls) : /\ ParsesTo(ls, i, e, m) /\ m + 1 <= Len(ls) /\ next = m + 2
                           /\ ls[m] = Tokens /\ ls[m + 1] = Blank

LEMMA UserRead ==
  ASSUME NEW ls, IsList(ls), NEW p, NEW cs, AreContents(cs), cs # <<>>,
         AllPlain(TRUE, cs), Apart(cs), NEW usage, IsUsage(usage),
         LiesAt(ls, p, UserLines(AllContents(cs, opts), usage))
  PROVE  Told(ls, p + 1, TurnOf("user", cs),
              p + Len(UserLines(AllContents(cs, opts), usage)) + 1)
<1> DEFINE body == AllContents(cs, opts)
           n == Len(body)
           i == p + 1
           first == p + 3
           end == p + n + 3
           next == IF usage = <<>> THEN p + n + 5 ELSE p + n + 4
           found == {j \in first..Len(ls) :
                      IsSep(ls[j]) \/ (IF TRUE THEN ls[j] = EndUp ELSE ClosesTurn(ls, j))}
<1>1. BodyOf(cs, TRUE, body) /\ TurnContents(TRUE, body) = cs
  BY BodyIs, TurnRead, Zenon
<1>2. LiesAt(ls, p, UserLines(body, usage))
  OBVIOUS
<1> HIDE DEF body
<1>3. /\ p \in Nat /\ Len(ls) \in Nat /\ n \in Nat /\ p + n + 4 <= Len(ls)
      /\ ls[p + 1] = TurnLine /\ ls[p + 2] = Up
      /\ LiesAt(ls, p + 2, body) /\ ls[p + n + 3] = EndUp
      /\ usage = <<>> => ls[p + n + 4] = Blank /\ Len(UserLines(body, usage)) = n + 4
      /\ usage # <<>> => /\ ls[p + n + 4] = Tokens /\ ls[p + n + 5] = Blank
                         /\ p + n + 5 <= Len(ls) /\ Len(UserLines(body, usage)) = n + 5
  <2>1. IsList(body)
    BY <1>1 DEF BodyOf
  <2>2. IsList(usage)
    BY UsageIs
  <2>3. UserFramed(ls, p, body, usage)
    BY <1>2, <2>1, <2>2, UserStands, Zenon
  <2> HIDE DEF n
  <2>4. /\ p \in Nat /\ Len(ls) \in Nat /\ n \in Nat /\ Len(usage) \in Nat
        /\ Len(UserLines(body, usage)) = n + 3 + Len(usage) + 1
        /\ p + n + 3 + Len(usage) + 1 <= Len(ls)
        /\ ls[p + 1] = TurnLine /\ ls[p + 2] = Up /\ LiesAt(ls, p + 2, body)
        /\ ls[p + n + 3] = EndUp /\ LiesAt(ls, p + n + 3, usage)
        /\ ls[p + n + 3 + Len(usage) + 1] = Blank
    BY <2>3, Zenon DEF UserFramed, n
  <2>5. CASE usage = <<>>
    <3>1. Len(usage) = 0
      BY <2>5
    <3>2. p + n + 3 + 0 + 1 = p + n + 4 /\ n + 3 + 0 + 1 = n + 4
      BY <2>4
    <3> QED
      BY <2>4, <2>5, <3>1, <3>2
  <2>6. CASE usage # <<>>
    <3>1. usage = <<Tokens>>
      BY <2>6 DEF IsUsage
    <3>2. Len(usage) = 1
      BY <3>1
    <3>3. p + n + 3 + 1 + 1 = p + n + 5 /\ n + 3 + 1 + 1 = n + 5 /\ p + n + 3 + 1 = p + n + 4
      BY <2>4
    <3>4. ls[p + n + 4] = Tokens
      BY <2>4, <3>1, <3>3, Stands1, Zenon
    <3>5. p + n + 5 <= Len(ls) /\ ls[p + n + 5] = Blank /\ Len(UserLines(body, usage)) = n + 5
      BY <2>4, <3>2, <3>3
    <3>6. p + n + 4 <= Len(ls)
      BY <2>4, <3>5
    <3> QED
      BY <2>4, <2>6, <3>4, <3>5, <3>6, Zenon
  <2> QED
    BY <2>5, <2>6
<1>4. i < Len(ls) /\ ls[i + 1] = Up
  <2>1. i < Len(ls) /\ i + 1 = p + 2
    BY <1>3
  <2> QED
    BY <1>3, <2>1
<1>5. first = i + 2
  BY <1>3
<1>6. end \in found
  <2>1. end \in first..Len(ls)
    BY <1>3
  <2> QED
    BY <1>3, <2>1
<1>7. ASSUME NEW j \in found
      PROVE  end <= j
  <2>1. j \in first..Len(ls) /\ (IsSep(ls[j]) \/ ls[j] = EndUp)
    OBVIOUS
  <2> HIDE DEF found
  <2>2. ASSUME ~(end <= j)
        PROVE  FALSE
    <3> DEFINE k == j - (p + 2)
    <3>1. k \in 1..n /\ (p + 2) + k = j
      BY <1>3, <2>1, <2>2
    <3> HIDE DEF k
    <3>2. ls[j] = body[k]
      <4>1. k \in 1..Len(body)
        BY <3>1 DEF n
      <4>2. ls[(p + 2) + k] = body[k]
        BY <1>3, <4>1 DEF LiesAt
      <4> QED
        BY <3>1, <4>2
    <3>3. InTurn(TRUE, body[k])
      BY <1>1, <3>1 DEF BodyOf, n
    <3> QED
      BY <2>1, <3>2, <3>3 DEF InTurn, IsSep
  <2> QED
    BY <2>2
<1>8. FirstOf(ls, found) = end
  <2>1. found \in SUBSET Nat
    BY <1>3
  <2> HIDE DEF found, end
  <2> QED
    BY <1>6, <1>7, <2>1, FirstOfIs
<1>9. Ends(ls, i, TRUE, first, end)
  <2>1. TRUE = (i < Len(ls) /\ ls[i + 1] = Up)
    BY <1>4, Zenon
  <2>2. first = IF TRUE THEN i + 2 ELSE i + 1
    BY <1>5, Zenon
  <2> HIDE DEF end, i, first
  <2> QED
    BY <1>8, <2>1, <2>2, Zenon DEF Ends, found
<1>10. SubSeq(ls, first, end - 1) = body
  <2>1. first = (p + 2) + 1 /\ end - 1 = (p + 2) + n
    BY <1>3
  <2>2. SubSeq(ls, (p + 2) + 1, (p + 2) + n) = body
    BY <1>1, <1>3, PartOf DEF n, BodyOf
  <2> QED
    BY <2>1, <2>2
<1>11. next = SkipBlank(ls, IF end <= Len(ls) /\ ~IsSep(ls[end]) THEN end + 1 ELSE end)
  <2>1. end <= Len(ls) /\ ~IsSep(ls[end])
    BY <1>3, Separators
  <2>2. end + 1 = p + n + 4 /\ (p + n + 4) + 1 = p + n + 5
    BY <1>3
  <2>3. CASE usage = <<>>
    <3>1. SkipBlank(ls, p + n + 4) = p + n + 5
      BY <1>3, <2>2, <2>3 DEF SkipBlank
    <3> HIDE DEF end
    <3> QED
      BY <2>1, <2>2, <2>3, <3>1, Zenon
  <2>4. CASE usage # <<>>
    <3>0. Tokens # Blank
      <4>1. Tokens[1] = "tokens" /\ Blank[1] = "blank"
        BY DEF Tokens, Blank
      <4> QED
        BY <4>1
    <3>1. SkipBlank(ls, p + n + 4) = p + n + 4
      BY <1>3, <2>4, <3>0, Zenon DEF SkipBlank
    <3> HIDE DEF end
    <3> QED
      BY <2>1, <2>2, <2>4, <3>1, Zenon
  <2> QED
    BY <2>3, <2>4
<1>12. ls[i] = TurnLine
  BY <1>3
<1> HIDE DEF i, first, end, next
<1>13. ParsesTo(ls, i, TurnOf(IF TRUE THEN "user" ELSE "assistant", cs), next)
  <2>1. TurnContents(TRUE, SubSeq(ls, first, end - 1)) = cs
    BY <1>1, <1>10, Zenon
  <2> QED
    BY <1>9, <1>11, <1>12, <2>1, TurnParsed, Zenon
<1> DEFINE e == TurnOf("user", cs)
           last == p + Len(UserLines(body, usage)) + 1
<1>14. ParsesTo(ls, i, e, next)
  BY <1>13, Zenon
<1>15. CASE usage = <<>>
  <2>1. last = next
    BY <1>3, <1>15 DEF next
  <2> QED
    BY <1>14, <2>1, Zenon DEF Told, i, body
<1>16. CASE usage # <<>>
  <2>1. next = p + n + 4
    BY <1>16, Zenon DEF next
  <2>2. /\ next \in 1..Len(ls) /\ next + 1 = p + n + 5 /\ next + 1 <= Len(ls)
        /\ last = next + 2
    BY <1>3, <1>16, <2>1
  <2>3. ls[next] = Tokens /\ ls[next + 1] = Blank
    BY <1>3, <1>16, <2>1, <2>2, Zenon
  <2> HIDE DEF e, last
  <2>4. Told(ls, i, e, last)
    BY <1>14, <2>2, <2>3, Zenon DEF Told
  <2> QED
    BY <2>4, Zenon DEF e, last, i, body
<1> QED
  BY <1>15, <1>16

(* What stands between the separator of an answer and its blank line: the    *)
(* contents, and perhaps the token counts, which are dropped.                *)
AnswerBody(cs, body) ==
  /\ IsList(body) /\ Len(body) >= 1 /\ body[1] # Up
  /\ \A k \in 1..Len(body) : InTurn(FALSE, body[k])
  /\ TurnContents(FALSE, body) = cs

LEMMA AnswerIs ==
  ASSUME NEW cs, AreContents(cs), cs # <<>>, AllPlain(FALSE, cs), Apart(cs),
         cs[1].type = "text" => cs[1].text[1] # Up
  PROVE  AnswerBody(cs, AllContents(cs, opts))
<1> DEFINE body == AllContents(cs, opts)
<1>1. BodyOf(cs, FALSE, body) /\ TurnContents(FALSE, body) = cs
  BY BodyIs, TurnRead, Zenon
<1>2. body[1] # Up
  <2>1. body[1] = ContentLines(cs[1], opts)[1]
    BY <1>1, Zenon DEF BodyOf
  <2>2. LinesOf(cs[1], FALSE, ContentLines(cs[1], opts))
    <3>1. 1 \in 1..Len(cs)
      BY DEF AreContents
    <3>2. IsContent(cs[1]) /\ PlainContent(FALSE, cs[1])
      BY <3>1, Zenon DEF AreContents, AllPlain
    <3> QED
      BY <3>2, LinesAre, Zenon
  <2>3. Up[1] = "up"
    BY DEF Up
  <2> HIDE DEF body
  <2>4. CASE cs[1].type = "text"
    BY <2>1, <2>2, <2>4, Zenon DEF LinesOf
  <2>5. CASE cs[1].type # "text"
    <3>1. body[1][1] \in {"thinking", "tool"}
      BY <2>1, <2>2, <2>5, Zenon DEF LinesOf
    <3> QED
      BY <2>3, <3>1
  <2> QED
    BY <2>4, <2>5
<1> QED
  BY <1>1, <1>2, Zenon DEF AnswerBody, BodyOf

LEMMA UsageDropped ==
  ASSUME NEW cs, NEW body, AnswerBody(cs, body), NEW usage, IsUsage(usage)
  PROVE  AnswerBody(cs, body \o usage)
<1> DEFINE n == Len(body)
           longer == Append(body, Tokens)
           u == CHOOSE v : Takes(v, FALSE, body, n)
           w == CHOOSE v : Takes(v, FALSE, longer, n + 1)
<1>1. body \in Seq(ToSet(body)) /\ n \in Nat /\ n >= 1
  BY OwnSeq DEF AnswerBody, IsList
<1>2. CASE usage = <<>>
  <2>1. body \o usage = body
    BY <1>1, <1>2
  <2> QED
    BY <2>1
<1>3. CASE usage = <<Tokens>>
  <2>1. body \o usage = longer
    BY <1>1, <1>3
  <2>2. /\ IsList(longer) /\ Len(longer) = n + 1 /\ longer[n + 1] = Tokens
        /\ \A k \in 1..n : longer[k] = body[k]
    <3>1. IsList(longer)
      BY ListGrows, Zenon DEF AnswerBody
    <3> QED
      BY <1>1, <3>1
  <2>3. TurnContents(FALSE, body) = u[n].contents
    BY Zenon DEF TurnContents, Takes
  <2>4. TurnContents(FALSE, longer) = w[n + 1].contents
    <3>1. TurnContents(FALSE, longer) =
            (CHOOSE v : Takes(v, FALSE, longer, Len(longer)))[Len(longer)].contents
      BY Zenon DEF TurnContents, Takes
    <3> QED
      BY <2>2, <3>1, Zenon
  <2>5. Takes(u, FALSE, body, n) /\ Takes(w, FALSE, longer, n + 1)
    <3>1. (\E v : Takes(v, FALSE, body, n)) /\ (\E v : Takes(v, FALSE, longer, n + 1))
      <4>1. n \in Nat /\ n + 1 \in Nat
        BY <1>1
      <4>2. \A k \in Nat : \E v : Takes(v, FALSE, body, k)
        BY TakesExist
      <4>3. \A k \in Nat : \E v : Takes(v, FALSE, longer, k)
        BY TakesExist
      <4> HIDE DEF Takes, longer, n
      <4> QED
        BY <4>1, <4>2, <4>3, Zenon
    <3> HIDE DEF Takes, longer, n
    <3> QED
      BY <3>1, Zenon
  <2> HIDE DEF u, w, longer, n
  <2> DEFINE first == [contents |-> <<>>, open |-> FALSE]
             A == {k \in Nat : k <= n => u[k] = w[k] /\ IsAcc(u[k])}
  <2>6. /\ \A k \in 0..n : u[k] = IF k = 0 THEN first ELSE TakeLine(FALSE, u[k - 1], body[k])
        /\ \A k \in 0..(n + 1) :
             w[k] = IF k = 0 THEN first ELSE TakeLine(FALSE, w[k - 1], longer[k])
    BY <2>5, Zenon DEF Takes
  <2>7. 0 \in A
    <3>1. 0 \in 0..n /\ 0 \in 0..(n + 1)
      BY <1>1
    <3>2. u[0] = first /\ w[0] = first
      BY <2>6, <3>1, Zenon
    <3>3. IsAcc(first)
      BY DEF IsAcc, AreContents
    <3>4. u[0] = w[0] /\ IsAcc(u[0])
      BY <3>2, <3>3, Zenon
    <3> QED
      BY <3>4
  <2>8. ASSUME NEW k \in Nat, k \in A
        PROVE  k + 1 \in A
    <3> SUFFICES ASSUME k + 1 <= n
                 PROVE  u[k + 1] = w[k + 1] /\ IsAcc(u[k + 1])
      OBVIOUS
    <3>1. u[k] = w[k] /\ IsAcc(u[k])
      BY <1>1, <2>8
    <3>2. /\ k + 1 \in 0..n /\ k + 1 \in 0..(n + 1) /\ k + 1 \in 1..n
          /\ k + 1 # 0 /\ (k + 1) - 1 = k
      BY <1>1
    <3>3. u[k + 1] = TakeLine(FALSE, u[k], body[k + 1])
      BY <2>6, <3>2, Zenon
    <3>4. w[k + 1] = TakeLine(FALSE, w[k], longer[k + 1])
      BY <2>6, <3>2, Zenon
    <3>5. longer[k + 1] = body[k + 1]
      BY <2>2, <3>2, Zenon
    <3>6. IsAcc(TakeLine(FALSE, u[k], body[k + 1]))
      BY <3>1, TakeLineKeeps
    <3> QED
      BY <3>1, <3>3, <3>4, <3>5, <3>6, Zenon
  <2>9. \A k \in Nat : k \in A
    <3> HIDE DEF A
    <3> QED
      BY <2>7, <2>8, Induction
  <2>10. u[n] = w[n] /\ IsAcc(u[n])
    BY <1>1, <2>9
  <2>11. w[n + 1] = TakeLine(FALSE, w[n], Tokens)
    <3>1. n + 1 \in 0..(n + 1) /\ n + 1 # 0 /\ (n + 1) - 1 = n
      BY <1>1
    <3> QED
      BY <2>2, <2>6, <3>1, Zenon
  <2>12. w[n + 1].contents = w[n].contents
    <3>1. w[n] = Acc(w[n].contents, w[n].open)
      BY <2>10, Zenon DEF IsAcc, Acc
    <3>2. TakeLine(FALSE, w[n], Tokens) = Acc(w[n].contents, FALSE)
      BY <3>1, TakeTokens, Zenon DEF Gives
    <3>3. \A x, o : Acc(x, o).contents = x
      BY DEF Acc
    <3> QED
      BY <2>11, <3>2, <3>3, Zenon
  <2>13. TurnContents(FALSE, longer) = cs
    BY <2>3, <2>4, <2>10, <2>12, Zenon DEF AnswerBody
  <2>14. InTurn(FALSE, Tokens)
    BY DEF InTurn, Tokens
  <2>15. ASSUME NEW k \in 1..(n + 1)
         PROVE  InTurn(FALSE, longer[k])
    <3>1. k = n + 1 \/ k \in 1..n
      BY <1>1
    <3>2. \A j \in 1..n : InTurn(FALSE, body[j])
      BY Zenon DEF AnswerBody, n
    <3> QED
      BY <2>2, <2>14, <3>1, <3>2, Zenon
  <2>16. longer[1] # Up
    <3>1. 1 \in 1..n
      BY <1>1
    <3> QED
      BY <2>2, <3>1, Zenon DEF AnswerBody
  <2>17. Len(longer) >= 1
    BY <1>1, <2>2
  <2>18. AnswerBody(cs, longer)
    BY <2>2, <2>13, <2>15, <2>16, <2>17, Zenon DEF AnswerBody
  <2> QED
    BY <2>1, <2>18, Zenon DEF longer
<1> QED
  BY <1>2, <1>3 DEF IsUsage

LEMMA AnswerRead ==
  ASSUME NEW ls, IsList(ls), NEW p, NEW cs, cs # <<>>, NEW body, AnswerBody(cs, body),
         LiesAt(ls, p, AnswerLines(body)), Behind(ls, p + Len(AnswerLines(body)))
  PROVE  ParsesTo(ls, p + 1, TurnOf("assistant", cs), p + Len(AnswerLines(body)) + 1)
<1> DEFINE n == Len(body)
           i == p + 1
           first == p + 2
           end == p + n + 2
           next == p + n + 3
           found == {j \in first..Len(ls) :
                      IsSep(ls[j]) \/ (IF FALSE THEN ls[j] = EndUp ELSE ClosesTurn(ls, j))}
<1>1. /\ IsList(body) /\ n >= 1 /\ body[1] # Up
      /\ \A k \in 1..n : InTurn(FALSE, body[k])
      /\ TurnContents(FALSE, body) = cs
  BY Zenon DEF AnswerBody
<1>2. LiesAt(ls, p, AnswerLines(body)) /\ Behind(ls, p + Len(AnswerLines(body)))
  OBVIOUS
<1>3. body[1] # Up
  BY <1>1
<1>4. IsList(body) /\ n >= 1
  BY <1>1
<1>5. /\ p \in Nat /\ Len(ls) \in Nat /\ n \in Nat
      /\ Len(AnswerLines(body)) = n + 2 /\ p + n + 2 <= Len(ls)
      /\ ls[p + 1] = TurnLine /\ LiesAt(ls, p + 1, body) /\ ls[p + n + 2] = Blank
  <2>1. LiesAt(ls, p, <<TurnLine>> \o body \o <<Blank>>)
    BY <1>2 DEF AnswerLines
  <2>2. Framed(ls, p, TurnLine, body)
    BY <1>4, <2>1, AnswerStands, Zenon
  <2> QED
    BY <2>2, Zenon DEF AnswerLines, Framed
<1>6. ASSUME NEW k \in 1..n
      PROVE  ls[(p + 1) + k] = body[k] /\ ~IsSep(body[k])
  <2>1. ls[(p + 1) + k] = body[k]
    BY <1>5, <1>6 DEF LiesAt
  <2>2. InTurn(FALSE, body[k])
    BY <1>1, <1>6
  <2> QED
    BY <2>1, <2>2 DEF InTurn, IsSep
<1> HIDE DEF n
<1>7. ~(i < Len(ls) /\ ls[i + 1] = Up)
  <2>1. 1 \in 1..n /\ (p + 1) + 1 = i + 1
    BY <1>4, <1>5
  <2> QED
    BY <1>3, <1>6, <2>1
<1>8. first = i + 1
  BY <1>5
<1>9. end \in found
  <2>1. end \in first..Len(ls)
    BY <1>5
  <2>2. end = Len(ls) \/ IsSep(ls[end + 1])
    <3>1. p + (n + 2) = end
      BY <1>5
    <3>2. Behind(ls, end)
      BY <1>2, <1>5, <3>1
    <3> QED
      BY <3>2 DEF Behind
  <2>3. ClosesTurn(ls, end)
    BY <1>5, <2>2 DEF ClosesTurn
  <2> QED
    BY <2>1, <2>3
<1>10. ASSUME NEW j \in found
       PROVE  end <= j
  <2>1. j \in first..Len(ls) /\ (IsSep(ls[j]) \/ ClosesTurn(ls, j))
    OBVIOUS
  <2> HIDE DEF found
  <2>2. ASSUME ~(end <= j)
        PROVE  FALSE
    <3> DEFINE k == j - (p + 1)
    <3>0. j \in Nat /\ p + 2 <= j /\ j < p + n + 2
      BY <1>5, <2>1, <2>2
    <3>1. k \in 1..n /\ (p + 1) + k = j /\ j # Len(ls)
      BY <1>5, <3>0
    <3>2. ~IsSep(ls[j])
      BY <1>6, <3>1
    <3>3. ~IsSep(ls[j + 1])
      <4>1. CASE k = n
        <5>1. j + 1 = p + n + 2
          BY <1>5, <3>1, <4>1
        <5> QED
          BY <1>5, <5>1, Separators
      <4>2. CASE k # n
        <5>1. k + 1 \in 1..n /\ (p + 1) + (k + 1) = j + 1
          BY <1>5, <3>1, <4>2
        <5> QED
          BY <1>6, <5>1
      <4> QED
        BY <4>1, <4>2
    <3> QED
      BY <2>1, <3>1, <3>2, <3>3 DEF ClosesTurn
  <2> QED
    BY <2>2
<1>11. FirstOf(ls, found) = end
  <2>1. found \in SUBSET Nat
    BY <1>5
  <2> HIDE DEF found, end
  <2> QED
    BY <1>9, <1>10, <2>1, FirstOfIs
<1>12. Ends(ls, i, FALSE, first, end)
  <2>1. FALSE = (i < Len(ls) /\ ls[i + 1] = Up)
    BY <1>7, Zenon
  <2>2. first = IF FALSE THEN i + 2 ELSE i + 1
    BY <1>8, Zenon
  <2> HIDE DEF end, i, first
  <2> QED
    BY <1>11, <2>1, <2>2, Zenon DEF Ends, found
<1>13. SubSeq(ls, first, end - 1) = body
  <2>1. first = (p + 1) + 1 /\ end - 1 = (p + 1) + n
    BY <1>5
  <2>2. SubSeq(ls, (p + 1) + 1, (p + 1) + n) = body
    BY <1>4, <1>5, PartOf DEF n
  <2> QED
    BY <2>1, <2>2
<1>14. next = SkipBlank(ls, IF end <= Len(ls) /\ ~IsSep(ls[end]) THEN end + 1 ELSE end)
  <2>1. end <= Len(ls) /\ ~IsSep(ls[end])
    BY <1>5, Separators
  <2>2. end + 1 = next
    BY <1>5
  <2>3. ~(next <= Len(ls) /\ ls[next] = Blank)
    <3>1. p + (n + 2) = end
      BY <1>5
    <3>2. Behind(ls, end)
      BY <1>2, <1>5, <3>1
    <3>3. end = Len(ls) \/ IsSep(ls[next])
      BY <2>2, <3>2 DEF Behind
    <3>4. end = Len(ls) => ~(next <= Len(ls))
      BY <1>5
    <3> HIDE DEF next, end
    <3> QED
      BY <3>3, <3>4, Separators
  <2>4. SkipBlank(ls, next) = next
    BY <2>3 DEF SkipBlank
  <2> QED
    BY <2>1, <2>2, <2>4
<1>15. ls[i] = TurnLine
  BY <1>5
<1> HIDE DEF i, first, end, next
<1>16. ParsesTo(ls, i, TurnOf(IF FALSE THEN "user" ELSE "assistant", cs), next)
  <2>1. TurnContents(FALSE, SubSeq(ls, first, end - 1)) = cs
    BY <1>1, <1>13, Zenon
  <2> QED
    BY <1>12, <1>14, <1>15, <2>1, TurnParsed, Zenon
<1>17. p + Len(AnswerLines(body)) + 1 = next
  BY <1>5 DEF next
<1> QED
  BY <1>16, <1>17, Zenon DEF i

LEMMA MarkRead ==
  ASSUME NEW ls, IsList(ls), NEW p, NEW e, e.type \in {"session", "model", "level"},
         e = Mark(e.type, e.of), LiesAt(ls, p, EventLines(e, opts))
  PROVE  ParsesTo(ls, p + 1, e, p + Len(EventLines(e, opts)) + 1)
<1>0. p \in Nat /\ Len(ls) \in Nat
  BY OwnSeq DEF LiesAt, IsList
<1> DEFINE i == p + 1
           l == ls[i]
<1>1. CASE e.type = "session"
  <2>1. EventLines(e, opts) = << <<"session", e.of>>, Blank >>
    BY <1>1, SMT DEF EventLines
  <2>2. p + 2 <= Len(ls) /\ ls[p + 1] = <<"session", e.of>> /\ ls[p + 2] = Blank
    BY <2>1, Stands2
  <2>3. Len(EventLines(e, opts)) = 2
    BY <2>1
  <2>4. l[1] = "session" /\ l[2] = e.of
    BY <2>2
  <2> DEFINE found == {j \in i + 1..Len(ls) : ls[j] = Blank}
             step == [events |-> <<Mark("session", l[2])>>, next |-> FirstOf(ls, found) + 1]
  <2>5. FirstOf(ls, found) = p + 2
    <3>1. p + 2 \in found /\ found \in SUBSET Nat /\ \A j \in found : p + 2 <= j
      BY <1>0, <2>2
    <3> HIDE DEF found
    <3> QED
      BY <3>1, FirstOfIs
  <2>6. ParsedAt(ls, i) = step
    <3>1. l # CompactSep /\ l # TurnLine
      BY <2>4, Separators
    <3> HIDE DEF l
    <3> QED
      BY <2>4, <3>1, Zenon DEF ParsedAt, l
  <2>7. step.events = <<e>> /\ step.next = p + 3
    <3>1. Mark("session", l[2]) = e
      BY <1>1, <2>4
    <3> HIDE DEF found, l
    <3> QED
      BY <1>0, <2>5, <3>1
  <2>8. p + 3 = p + 2 + 1
    BY <1>0
  <2> QED
    BY <2>3, <2>6, <2>7, <2>8 DEF ParsesTo
<1>2. CASE e.type \in {"model", "level"}
  <2>1. EventLines(e, opts) = << <<"sep", e.type, e.of>>, Blank >>
    BY <1>2, SMT DEF EventLines
  <2>2. p + 2 <= Len(ls) /\ ls[p + 1] = <<"sep", e.type, e.of>> /\ ls[p + 2] = Blank
    BY <2>1, Stands2
  <2>3. Len(EventLines(e, opts)) = 2
    BY <2>1
  <2>4. l[1] = "sep" /\ l[2] = e.type /\ l[3] = e.of
    BY <2>2
  <2>5. i + 1 = p + 2 /\ SkipBlank(ls, p + 2) = p + 3
    BY <1>0, <2>2 DEF SkipBlank
  <2>6. l # CompactSep /\ l # TurnLine
    BY <1>2, <2>4, Separators
  <2> DEFINE step == [events |-> <<Mark(l[2], l[3])>>, next |-> SkipBlank(ls, i + 1)]
  <2>7. ParsedAt(ls, i) = step
    <3> HIDE DEF l
    <3> QED
      BY <1>2, <2>4, <2>6, Zenon DEF ParsedAt, l
  <2>8. step.events = <<e>> /\ step.next = p + 3
    <3>1. Mark(l[2], l[3]) = e
      BY <2>4
    <3> HIDE DEF l
    <3> QED
      BY <2>5, <3>1
  <2>9. p + 3 = p + 2 + 1
    BY <1>0
  <2> QED
    BY <2>3, <2>7, <2>8, <2>9 DEF ParsesTo
<1> QED
  BY <1>1, <1>2

LEMMA CompactionRead ==
  ASSUME NEW ls, IsList(ls), NEW p, NEW text, IsList(text),
         \A k \in 1..Len(text) : ~IsSep(text[k]),
         LiesAt(ls, p, <<CompactSep>> \o text \o <<Blank>>), p + Len(text) + 2 < Len(ls),
         IsSep(ls[p + Len(text) + 3])
  PROVE  ParsesTo(ls, p + 1, Compaction(text), p + Len(text) + 3)
<1> DEFINE n == Len(text)
           i == p + 1
           end == p + n + 2
           found == {j \in i + 1..Len(ls) :
                  IsSep(ls[j]) \/ (ls[j] = Blank /\ j < Len(ls) /\ IsSep(ls[j + 1]))}
           step == [events |-> <<Compaction(SubSeq(ls, i + 1, end - 1))>>,
                    next |-> SkipBlank(ls, end)]
<1>1. /\ p \in Nat /\ Len(ls) \in Nat /\ n \in Nat /\ p + n + 2 <= Len(ls)
      /\ ls[p + 1] = CompactSep /\ LiesAt(ls, p + 1, text) /\ ls[p + n + 2] = Blank
  <2>1. Framed(ls, p, CompactSep, text)
    BY AnswerStands, Zenon
  <2> QED
    BY <2>1, Zenon DEF Framed
<1>2. ASSUME NEW k \in 1..n
      PROVE  ~IsSep(ls[(p + 1) + k])
  BY <1>1, <1>2 DEF LiesAt
<1>3. p + n + 2 < Len(ls) /\ IsSep(ls[p + n + 3])
  OBVIOUS
<1>4. SubSeq(ls, (p + 1) + 1, (p + 1) + n) = text
  BY <1>1, PartOf
<1> HIDE DEF n
<1>5. end \in found
  <2>1. end \in i + 1..Len(ls) /\ end + 1 = p + n + 3
    BY <1>1
  <2> QED
    BY <1>1, <1>3, <2>1
<1>6. ASSUME NEW j \in found
      PROVE  end <= j
  <2>1. j \in i + 1..Len(ls) /\ (IsSep(ls[j]) \/ IsSep(ls[j + 1]))
    OBVIOUS
  <2> HIDE DEF found
  <2>2. ASSUME ~(end <= j)
        PROVE  FALSE
    <3> DEFINE k == j - (p + 1)
    <3>1. j \in Nat /\ p + 2 <= j /\ j < p + n + 2
      BY <1>1, <2>1, <2>2
    <3>2. k \in 1..n /\ (p + 1) + k = j
      BY <1>1, <3>1
    <3>3. ~IsSep(ls[j])
      BY <1>2, <3>2
    <3>4. ~IsSep(ls[j + 1])
      <4> HIDE DEF k
      <4>1. CASE k = n
        <5>1. j + 1 = p + n + 2
          BY <1>1, <3>2, <4>1
        <5> QED
          BY <1>1, <5>1, Separators
      <4>2. CASE k # n
        <5>1. k + 1 \in 1..n /\ (p + 1) + (k + 1) = j + 1
          BY <1>1, <3>2, <4>2
        <5> QED
          BY <1>2, <5>1
      <4> QED
        BY <4>1, <4>2
    <3> QED
      BY <2>1, <3>3, <3>4
  <2> QED
    BY <2>2
<1>7. FirstOf(ls, found) = end
  <2>1. found \in SUBSET Nat
    BY <1>1
  <2> HIDE DEF found, end
  <2> QED
    BY <1>5, <1>6, <2>1, FirstOfIs
<1>8. ParsedCompaction(ls, i) = step
  <2> HIDE DEF end, i
  <2> QED
    BY <1>7, Zenon DEF ParsedCompaction, found
<1>9. ParsedAt(ls, i) = ParsedCompaction(ls, i)
  <2> DEFINE l == ls[i]
  <2>1. /\ l[1] # "session" /\ ~(l[1] = "sep" /\ l[2] \in {"model", "level"})
        /\ l = CompactSep /\ l # TurnLine
    BY <1>1, Separators
  <2> HIDE DEF l
  <2> QED
    BY <2>1, Zenon DEF ParsedAt, l
<1>10. SubSeq(ls, i + 1, end - 1) = text
  <2>1. i + 1 = (p + 1) + 1 /\ end - 1 = (p + 1) + n
    BY <1>1
  <2> QED
    BY <1>4, <2>1 DEF n
<1>11. SkipBlank(ls, end) = p + n + 3
  BY <1>1 DEF SkipBlank
<1>12. step.events = <<Compaction(text)>> /\ step.next = p + n + 3
  <2> HIDE DEF i, end
  <2> QED
    BY <1>10, <1>11
<1> QED
  BY <1>8, <1>9, <1>12, Zenon DEF ParsesTo, n

LEMMA JoinsInAnyOrder ==
  ASSUME NEW s, NEW t, NEW v, IsList(s), IsList(t), IsList(v)
  PROVE  (s \o t) \o v = s \o (t \o v)
<1> DEFINE V == ToSet(s) \cup ToSet(t) \cup ToSet(v)
<1>1. s \in Seq(V) /\ t \in Seq(V) /\ v \in Seq(V)
  <2>1. /\ s \in Seq(ToSet(s)) /\ t \in Seq(ToSet(t)) /\ v \in Seq(ToSet(v))
        /\ ToSet(s) \subseteq V /\ ToSet(t) \subseteq V /\ ToSet(v) \subseteq V
    BY DEF IsList
  <2> HIDE DEF V
  <2> QED
    BY <2>1
<1> HIDE DEF V
<1> QED
  BY <1>1, ConcatAssociative

LEMMA EventRead ==
  ASSUME NEW ls, IsList(ls), NEW p, NEW e, IsEvent(e), PlainEvent(e),
         LiesAt(ls, p, EventLines(e, opts)), Behind(ls, p + Len(EventLines(e, opts))),
         e.type = "compaction" => p + Len(EventLines(e, opts)) # Len(ls)
  PROVE  Told(ls, p + 1, e, p + Len(EventLines(e, opts)) + 1)
<1>1. CASE e.type \in {"session", "model", "level"} /\ e = Mark(e.type, e.of)
  <2>1. e.type \in {"session", "model", "level"} /\ e = Mark(e.type, e.of)
    BY <1>1
  <2>2. ParsesTo(ls, p + 1, e, p + Len(EventLines(e, opts)) + 1)
    BY <2>1, MarkRead
  <2> QED
    BY <2>2, Zenon DEF Told
<1>2. CASE e.type = "compaction" /\ e = Compaction(e.text) /\ IsList(e.text)
  <2> DEFINE text == e.text
             lines == <<CompactSep>> \o text \o <<Blank>>
  <2>1. EventLines(e, opts) = lines
    BY <1>2, SMT DEF EventLines
  <2>2. \A k \in 1..Len(text) : ~IsSep(text[k])
    <3>1. \A k \in DOMAIN text : ~IsSep(text[k])
      BY <1>2, SMT DEF PlainEvent
    <3>2. DOMAIN text = 1..Len(text)
      BY <1>2 DEF IsList
    <3> QED
      BY <3>1, <3>2, Zenon
  <2>3. LiesAt(ls, p, lines) /\ Behind(ls, p + Len(lines)) /\ p + Len(lines) # Len(ls)
    BY <1>2, <2>1, Zenon
  <2>4. IsList(text)
    BY <1>2
  <2> HIDE DEF text
  <2>5. p \in Nat /\ Len(ls) \in Nat /\ Len(text) \in Nat /\ Len(lines) = Len(text) + 2
    BY <2>3, <2>4, AnswerStands DEF Framed
  <2> HIDE DEF lines
  <2>6. /\ p + Len(text) + 2 = p + Len(lines)
        /\ p + Len(text) + 3 = (p + Len(lines)) + 1
    BY <2>5
  <2>7. p + Len(text) + 2 < Len(ls) /\ IsSep(ls[p + Len(text) + 3])
    BY <2>3, <2>6 DEF Behind
  <2>8. ParsesTo(ls, p + 1, Compaction(text), p + Len(text) + 3)
    BY <2>2, <2>3, <2>4, <2>7, CompactionRead DEF lines
  <2>9. ParsesTo(ls, p + 1, Compaction(text), p + Len(lines) + 1)
    BY <2>6, <2>8, Zenon
  <2> QED
    BY <1>2, <2>1, <2>9, Zenon DEF text, Told
<1>3. CASE IsTurn(e)
  <2> DEFINE cs == e.contents
             isUser == e.role = "user"
             body == AllContents(cs, opts)
             usage == UsageLines(e, opts)
  <2>1. e = TurnOf(e.role, cs) /\ e.type = "turn" /\ AreContents(cs) /\ cs # <<>>
    BY <1>3 DEF IsTurn, AreContents, TurnOf
  <2>2. /\ e.role \in {"user", "assistant"}
        /\ \A j \in DOMAIN cs : PlainContent(isUser, cs[j])
        /\ Apart(cs)
        /\ e.role = "assistant" /\ cs[1].type = "text" => cs[1].text[1] # Up
    BY <2>1, Zenon DEF PlainEvent, Apart
  <2>3. AllPlain(isUser, cs)
    <3>1. DOMAIN cs = 1..Len(cs)
      BY <2>1 DEF AreContents
    <3> QED
      BY <2>2, <3>1, Zenon DEF AllPlain
  <2>0. IsUsage(usage)
    BY Zenon DEF IsUsage, UsageLines
  <2>4. CASE e.role = "user"
    <3>1. EventLines(e, opts) = UserLines(body, usage)
      BY <2>1, <2>4, SMT DEF EventLines, UserLines
    <3>2. isUser = TRUE
      BY <2>4, Zenon
    <3>3. AllPlain(TRUE, cs)
      BY <2>3, <3>2, Zenon
    <3>4. LiesAt(ls, p, UserLines(body, usage))
      BY <3>1
    <3> HIDE DEF usage
    <3>5. Told(ls, p + 1, TurnOf("user", cs), p + Len(UserLines(body, usage)) + 1)
      BY <2>0, <2>1, <2>2, <3>3, <3>4, UserRead, Zenon
    <3> QED
      BY <2>1, <2>4, <3>1, <3>5, Zenon
  <2>5. CASE e.role = "assistant"
    <3>0. EventLines(e, opts) = <<TurnLine>> \o body \o usage \o <<Blank>>
      BY <2>1, <2>5, SMT DEF EventLines
    <3>2. isUser = FALSE
      <4>1. e.role # "user"
        BY <2>5
      <4> QED
        BY <4>1, Zenon
    <3>3. AllPlain(FALSE, cs)
      BY <2>3, <3>2, Zenon
    <3>4. AnswerBody(cs, body)
      BY <2>1, <2>2, <2>5, <3>3, AnswerIs, Zenon
    <3>5. AnswerBody(cs, body \o usage)
      <4> HIDE DEF body, usage
      <4> QED
        BY <2>0, <3>4, UsageDropped, Zenon
    <3>1. EventLines(e, opts) = AnswerLines(body \o usage)
      <4>1. IsList(body) /\ IsList(usage)
        BY <2>0, <3>4, UsageIs, Zenon DEF AnswerBody
      <4> HIDE DEF body, usage
      <4> DEFINE line == <<TurnLine>>
      <4>2. IsList(line)
        BY ListOfOne, Zenon
      <4> HIDE DEF line
      <4>3. (line \o body) \o usage = line \o (body \o usage)
        BY <4>1, <4>2, JoinsInAnyOrder
      <4> QED
        BY <3>0, <4>3, Zenon DEF AnswerLines, line
    <3> DEFINE longer == body \o usage
    <3>6. LiesAt(ls, p, AnswerLines(longer)) /\ Behind(ls, p + Len(AnswerLines(longer)))
      BY <3>1, Zenon
    <3>7. AnswerBody(cs, longer)
      BY <3>5
    <3> HIDE DEF longer
    <3>8. ParsesTo(ls, p + 1, TurnOf("assistant", cs), p + Len(AnswerLines(longer)) + 1)
      BY <2>1, <3>6, <3>7, AnswerRead, Zenon
    <3>9. Told(ls, p + 1, TurnOf("assistant", cs), p + Len(AnswerLines(longer)) + 1)
      BY <3>8, Zenon DEF Told
    <3> QED
      BY <2>1, <2>5, <3>1, <3>9, Zenon DEF longer
  <2> QED
    BY <2>2, <2>4, <2>5
<1> QED
  BY <1>1, <1>2, <1>3 DEF IsEvent

(* What emit writes for an event begins with a separator.                    *)
Begins(lines) == IsList(lines) /\ Len(lines) \in Nat /\ Len(lines) >= 1 /\ IsSep(lines[1])

LEMMA JoinBegins ==
  ASSUME NEW s, NEW t, Begins(s), IsList(t)
  PROVE  Begins(s \o t)
<1>1. IsList(s)
  BY DEF Begins
<1>2. IsList(s \o t)
  BY <1>1, ListJoined
<1>3. /\ Len(s) \in Nat /\ Len(t) \in Nat /\ Len(s \o t) = Len(s) + Len(t)
      /\ \A k \in 1..Len(s) : (s \o t)[k] = s[k]
  BY <1>1, JoinedElements
<1>4. 1 \in 1..Len(s)
  BY DEF Begins
<1> DEFINE st == s \o t
<1>5. Len(st) \in Nat /\ Len(st) >= 1 /\ st[1] = s[1]
  BY <1>3, <1>4
<1> QED
  BY <1>2, <1>5 DEF Begins

LEMMA EventBegins ==
  ASSUME NEW e, IsEvent(e), PlainEvent(e)
  PROVE  Begins(EventLines(e, opts))
<1>1. ASSUME NEW x, IsSep(x)
      PROVE  Begins(<<x>>) /\ \A y : Begins(<<x, y>>)
  <2>1. \A y : Len(<<x, y>>) = 2 /\ <<x, y>>[1] = x
    OBVIOUS
  <2>2. Len(<<x>>) = 1 /\ <<x>>[1] = x
    OBVIOUS
  <2>3. ASSUME NEW y
        PROVE  Begins(<<x, y>>)
    <3> DEFINE s == <<x, y>>
    <3>1. Len(s) = 2 /\ s[1] = x /\ IsList(s)
      BY PairIsList
    <3> HIDE DEF s
    <3>2. Begins(s)
      BY <1>1, <3>1 DEF Begins
    <3> QED
      BY <3>2 DEF s
  <2>4. Begins(<<x>>)
    <3> DEFINE s == <<x>>
    <3>1. Len(s) = 1 /\ s[1] = x /\ IsList(s)
      BY ListOfOne
    <3> HIDE DEF s
    <3>2. Begins(s)
      BY <1>1, <3>1 DEF Begins
    <3> QED
      BY <3>2 DEF s
  <2> QED
    BY <2>3, <2>4
<1>2. CASE e.type = "session"
  <2> DEFINE l == <<"session", e.of>>
  <2>1. EventLines(e, opts) = <<l, Blank>>
    BY <1>2, SMT DEF EventLines
  <2>2. IsSep(l)
    BY DEF IsSep
  <2> HIDE DEF l
  <2> QED
    BY <1>1, <2>1, <2>2
<1>3. CASE e.type \in {"model", "level"}
  <2> DEFINE l == <<"sep", e.type, e.of>>
  <2>1. EventLines(e, opts) = <<l, Blank>>
    BY <1>3, SMT DEF EventLines
  <2>2. IsSep(l)
    BY DEF IsSep
  <2> HIDE DEF l
  <2> QED
    BY <1>1, <2>1, <2>2
<1>4. CASE e.type = "compaction" /\ IsList(e.text)
  <2>1. EventLines(e, opts) = <<CompactSep>> \o e.text \o <<Blank>>
    BY <1>4, SMT DEF EventLines
  <2>2. Begins(<<CompactSep>>)
    BY <1>1, Separators
  <2>3. Begins(<<CompactSep>> \o e.text)
    BY <1>4, <2>2, JoinBegins
  <2>4. Begins(<<CompactSep>> \o e.text \o <<Blank>>)
    BY <2>3, JoinBegins, ListOfOne
  <2> QED
    BY <2>1, <2>4
<1>5. CASE IsTurn(e)
  <2> DEFINE cs == e.contents
             isUser == e.role = "user"
             body == AllContents(cs, opts)
             usage == UsageLines(e, opts)
  <2>1. e = TurnOf(e.role, cs) /\ e.type = "turn" /\ AreContents(cs) /\ cs # <<>>
    BY <1>5 DEF IsTurn, AreContents, TurnOf
  <2>2. \A j \in DOMAIN cs : PlainContent(isUser, cs[j])
    BY <2>1, Zenon DEF PlainEvent
  <2>3. AllPlain(isUser, cs)
    <3>1. DOMAIN cs = 1..Len(cs)
      BY <2>1 DEF AreContents
    <3> QED
      BY <2>2, <3>1, Zenon DEF AllPlain
  <2>4. IsList(body)
    <3>1. BodyOf(cs, isUser, body)
      BY <2>1, <2>3, BodyIs, Zenon
    <3> QED
      BY <3>1, Zenon DEF BodyOf
  <2>5. \/ EventLines(e, opts) = <<TurnLine, Up>> \o body \o <<EndUp>> \o usage \o <<Blank>>
        \/ EventLines(e, opts) = <<TurnLine>> \o body \o usage \o <<Blank>>
    BY <2>1, SMT DEF EventLines
  <2>6. Begins(<<TurnLine, Up>>) /\ Begins(<<TurnLine>>)
    BY <1>1, Separators
  <2>7. IsList(usage)
    <3>1. IsUsage(usage)
      BY Zenon DEF IsUsage, UsageLines
    <3> QED
      BY <3>1, UsageIs, Zenon
  <2> HIDE DEF body, usage
  <2>8. IsList(<<EndUp>>) /\ IsList(<<Blank>>)
    BY ListOfOne
  <2>9. Begins(<<TurnLine, Up>> \o body) /\ Begins(<<TurnLine>> \o body)
    BY <2>4, <2>6, JoinBegins
  <2>10. Begins(<<TurnLine, Up>> \o body \o <<EndUp>>)
    BY <2>8, <2>9, JoinBegins
  <2>11. /\ Begins(<<TurnLine, Up>> \o body \o <<EndUp>> \o usage)
         /\ Begins(<<TurnLine>> \o body \o usage)
    BY <2>7, <2>9, <2>10, JoinBegins
  <2>12. /\ Begins(<<TurnLine, Up>> \o body \o <<EndUp>> \o usage \o <<Blank>>)
         /\ Begins(<<TurnLine>> \o body \o usage \o <<Blank>>)
    BY <2>8, <2>11, JoinBegins
  <2> QED
    BY <2>5, <2>12
<1> QED
  BY <1>2, <1>3, <1>4, <1>5 DEF IsEvent

(* The events behind the first k.                                            *)
Rest(s, k) == [j \in 1..(Len(s) - k) |-> s[k + j]]

LEMMA RestOneLess ==
  ASSUME NEW s, IsList(s)
  PROVE  /\ \A k \in 0..Len(s) : IsList(Rest(s, k))
         /\ Rest(s, 0) = s /\ Rest(s, Len(s)) = <<>>
         /\ \A k \in Nat : k < Len(s) => <<s[k + 1]>> \o Rest(s, k + 1) = Rest(s, k)
<1> DEFINE V == ToSet(s)
           n == Len(s)
<1>1. s \in Seq(V) /\ n \in Nat /\ s = [j \in 1..n |-> s[j]]
  BY DEF IsList
<1>2. \A j \in 1..n : s[j] \in V
  BY <1>1 DEF ToSet
<1> HIDE DEF V, n
<1>3. ASSUME NEW k \in 0..n
      PROVE  /\ Rest(s, k) \in Seq(V) /\ Len(Rest(s, k)) = n - k
             /\ \A j \in 1..(n - k) : Rest(s, k)[j] = s[k + j]
  <2>1. \A j \in 1..(n - k) : k + j \in 1..n
    BY <1>1
  <2> DEFINE m == n - k
             r == [j \in 1..m |-> s[k + j]]
  <2>2. m \in Nat
    BY <1>1
  <2>3. Rest(s, k) = r
    BY DEF Rest, n
  <2>4. \A j \in 1..m : s[k + j] \in V
    BY <1>2, <2>1
  <2> HIDE DEF m
  <2>5. r \in [1..m -> V]
    BY <2>4
  <2>6. r \in Seq(V) /\ Len(r) = m /\ \A j \in 1..m : r[j] = s[k + j]
    BY <2>2, <2>5
  <2> QED
    BY <2>3, <2>6 DEF m
<1>4. Rest(s, n) = <<>>
  <2>1. n \in 0..n /\ n - n = 0
    BY <1>1
  <2>2. Rest(s, n) \in Seq(V) /\ Len(Rest(s, n)) = 0
    BY <1>3, <2>1
  <2> QED
    BY <2>2
<1>5. Rest(s, 0) = s
  <2>1. n - 0 = n /\ \A j \in 1..n : 0 + j = j
    BY <1>1
  <2>2. Rest(s, 0) = [j \in 1..n |-> s[j]]
    BY <2>1 DEF Rest, n
  <2> QED
    BY <1>1, <2>2
<1>6. ASSUME NEW k \in Nat, k < n
      PROVE  <<s[k + 1]>> \o Rest(s, k + 1) = Rest(s, k)
  <2> DEFINE x == s[k + 1]
             r == Rest(s, k + 1)
             t == Rest(s, k)
             z == <<x>> \o r
  <2>1. k \in 0..n /\ k + 1 \in 0..n /\ k + 1 \in 1..n
    BY <1>1, <1>6
  <2>2. /\ r \in Seq(V) /\ Len(r) = n - (k + 1) /\ x \in V
        /\ \A j \in 1..(n - (k + 1)) : r[j] = s[(k + 1) + j]
    BY <1>2, <1>3, <2>1
  <2>3. t \in Seq(V) /\ Len(t) = n - k /\ \A j \in 1..(n - k) : t[j] = s[k + j]
    BY <1>3, <2>1
  <2> HIDE DEF r, t
  <2>4. /\ z \in Seq(V) /\ Len(z) = 1 + Len(r)
        /\ \A j \in 1..(1 + Len(r)) : z[j] = IF j = 1 THEN x ELSE r[j - 1]
    <3> HIDE DEF x
    <3> QED
      BY <2>2
  <2> HIDE DEF z
  <2>5. Len(z) = n - k
    BY <1>1, <2>2, <2>4
  <2>6. ASSUME NEW j \in 1..(n - k)
        PROVE  z[j] = t[j]
    <3>1. j \in 1..(1 + Len(r)) /\ (j # 1 => j - 1 \in 1..(n - (k + 1)))
      BY <1>1, <1>6, <2>2
    <3>2. (k + 1) + (j - 1) = k + j
      BY <1>1
    <3>3. CASE j = 1
      BY <2>3, <2>4, <3>1, <3>3
    <3>4. CASE j # 1
      <4>1. z[j] = r[j - 1]
        BY <2>4, <3>1, <3>4
      <4>2. r[j - 1] = s[(k + 1) + (j - 1)]
        BY <2>2, <3>1, <3>4
      <4> QED
        BY <2>3, <3>2, <4>1, <4>2
    <3> QED
      BY <3>3, <3>4
  <2>7. z = t
    BY <2>3, <2>4, <2>5, <2>6
  <2> QED
    BY <2>7 DEF z, t, r
<1>7. \A k \in 0..n : IsList(Rest(s, k))
  BY <1>3, OwnSeq DEF IsList
<1> QED
  BY <1>4, <1>5, <1>6, <1>7 DEF n

(* A line of token counts or a blank line outside a turn.                    *)
LEMMA NotRead ==
  ASSUME NEW ls, NEW i, ls[i] \in {Tokens, Blank}
  PROVE  ParsedAt(ls, i).events = <<>> /\ ParsedAt(ls, i).next = i + 1
<1> DEFINE l == ls[i]
<1>1. l[1] \in {"tokens", "blank"}
  BY DEF Tokens, Blank
<1>2. l[1] # "session" /\ l[1] # "sep" /\ l # CompactSep /\ l # TurnLine
  <2> HIDE DEF l
  <2> QED
    BY <1>1, Separators
<1> HIDE DEF l
<1>3. ParsedAt(ls, i) = [events |-> <<>>, next |-> i + 1]
  BY <1>2, Zenon DEF ParsedAt, l
<1> QED
  BY <1>3

(* What emit writes, parse gives back.                                       *)
LEMMA EmitParsed ==
  ASSUME NEW es, AreEvents(es), Plain(es)
  PROVE  parse(emit(es, opts)) = es
<1> DEFINE n == Len(es)
           ss == [i \in 1..n |-> EventLines(es[i], opts)]
           ls == emit(es, opts)
<1>1. n \in Nat /\ DOMAIN es = 1..n /\ IsList(es)
  BY OwnSeq DEF AreEvents, IsList
<1>2. ls = FlattenSeq(ss)
  BY <1>1, Zenon DEF emit
<1>3. \A i \in 1..n : ss[i] = EventLines(es[i], opts)
  OBVIOUS
<1>4. ss = [i \in 1..n |-> ss[i]]
  OBVIOUS
<1> HIDE DEF n, ss, ls
<1>5. ASSUME NEW i \in 1..n
      PROVE  IsEvent(es[i]) /\ PlainEvent(es[i]) /\ Begins(ss[i])
  <2>1. IsEvent(es[i])
    BY DEF AreEvents, n
  <2>2. PlainEvent(es[i])
    BY <1>1 DEF Plain
  <2> QED
    BY <1>3, <2>1, <2>2, EventBegins
<1>6. \A i \in 1..n : IsList(ss[i]) /\ ss[i] \in Seq(ToSet(ss[i]))
  BY <1>5 DEF Begins, IsList
<1>7. IsList(ls)
  BY <1>1, <1>2, <1>4, <1>6, ListFlattened
<1>8. PICK V : ss \in Seq(Seq(V)) /\ Len(ss) = n
  BY <1>1, <1>4, <1>6, SeqOfSeqs
<1>9. PICK at : Lays(at, ls, ss, n)
  BY <1>2, <1>8, FlattenLays
<1>10. /\ at \in [1..(n + 1) -> Nat] /\ at[1] = 0 /\ Len(ls) = at[n + 1]
       /\ \A i \in 1..n : at[i + 1] = at[i] + Len(ss[i])
       /\ \A i \in 1..n : \A k \in 1..Len(ss[i]) :
            at[i] + k \in 1..Len(ls) /\ ls[at[i] + k] = ss[i][k]
  BY <1>9, Zenon DEF Lays
<1>11. Len(ls) \in Nat
  BY <1>7, OwnSeq DEF IsList
<1>12. ASSUME NEW i \in 1..n
       PROVE  /\ LiesAt(ls, at[i], ss[i])
              /\ at[i] + 1 \in 1..Len(ls) /\ IsSep(ls[at[i] + 1])
  <2>1. at[i] \in Nat /\ Len(ss[i]) \in Nat /\ Len(ss[i]) >= 1 /\ IsSep(ss[i][1])
    BY <1>1, <1>5, <1>10 DEF Begins
  <2>2. 1 \in 1..Len(ss[i]) /\ Len(ss[i]) \in 1..Len(ss[i])
    BY <2>1
  <2>3. at[i] + 1 \in 1..Len(ls) /\ ls[at[i] + 1] = ss[i][1]
    BY <1>10, <2>2
  <2>4. at[i] + Len(ss[i]) <= Len(ls)
    <3>1. at[i] + Len(ss[i]) \in 1..Len(ls)
      BY <1>10, <2>2
    <3> QED
      BY <3>1
  <2>5. \A k \in 1..Len(ss[i]) : ls[at[i] + k] = ss[i][k]
    BY <1>10
  <2>6. LiesAt(ls, at[i], ss[i])
    BY <1>11, <2>1, <2>4, <2>5 DEF LiesAt
  <2> QED
    BY <2>1, <2>3, <2>6
<1>13. ASSUME NEW i \in 1..n
       PROVE  Told(ls, at[i] + 1, es[i], at[i + 1] + 1)
  <2> DEFINE e == es[i]
             q == at[i + 1]
  <2>1. ss[i] = EventLines(e, opts) /\ q = at[i] + Len(ss[i])
    BY <1>3, <1>10
  <2>2. q \in Nat
    <3>1. i + 1 \in 1..(n + 1)
      BY <1>1
    <3> QED
      BY <1>10, <3>1
  <2>3. i # n => i + 1 \in 1..n
    BY <1>1
  <2>4. i # n => q < Len(ls) /\ IsSep(ls[q + 1])
    <3>1. ASSUME i # n
          PROVE  q + 1 \in 1..Len(ls) /\ IsSep(ls[q + 1])
      BY <1>12, <2>3, <3>1
    <3> HIDE DEF q
    <3> QED
      BY <1>11, <2>2, <3>1
  <2>5. Behind(ls, q)
    BY <1>10, <2>4 DEF Behind
  <2>6. e.type = "compaction" => q # Len(ls)
    <3>1. Last(es) = es[n] /\ es # <<>>
      BY <1>1 DEF Last, n
    <3>2. es[n].type # "compaction"
      BY <3>1, Zenon DEF Plain
    <3>3. e.type = "compaction" => i # n
      BY <3>2
    <3>4. i # n => q # Len(ls)
      <4> HIDE DEF q
      <4> QED
        BY <1>11, <2>2, <2>4
    <3> QED
      BY <3>3, <3>4, Zenon
  <2>7. IsEvent(e) /\ PlainEvent(e) /\ LiesAt(ls, at[i], EventLines(e, opts))
    BY <1>5, <1>12, <2>1
  <2>8. /\ Behind(ls, at[i] + Len(EventLines(e, opts)))
        /\ e.type = "compaction" => at[i] + Len(EventLines(e, opts)) # Len(ls)
    <3> HIDE DEF e, q
    <3> QED
      BY <2>1, <2>5, <2>6, Zenon
  <2> HIDE DEF e, q
  <2>9. Told(ls, at[i] + 1, e, at[i] + Len(EventLines(e, opts)) + 1)
    BY <1>7, <2>7, <2>8, EventRead, Zenon
  <2>10. Told(ls, at[i] + 1, e, q + 1)
    BY <2>1, <2>9, Zenon
  <2> QED
    BY <2>10 DEF e, q
<1> DEFINE f == CHOOSE g : Parses(g, ls, 1)
           A == {d \in Nat : d <= n => f[at[(n - d) + 1] + 1] = Rest(es, n - d)}
<1>14. parse(ls) = f[1]
  BY Zenon DEF parse, Parses
<1>15. Parses(f, ls, 1)
  <2>1. \E g : Parses(g, ls, 1)
    BY <1>7, ParsesExist DEF IsList
  <2> HIDE DEF Parses
  <2> QED
    BY <2>1
<1> HIDE DEF f
<1>16. \A i \in 1..(Len(ls) + 2) :
         f[i] = IF i > Len(ls) THEN <<>> ELSE ParsedAt(ls, i).events \o f[ParsedAt(ls, i).next]
  BY <1>15, Zenon DEF Parses
<1>17. /\ \A k \in 0..n : IsList(Rest(es, k))
       /\ Rest(es, 0) = es /\ Rest(es, n) = <<>>
       /\ \A k \in Nat : k < n => <<es[k + 1]>> \o Rest(es, k + 1) = Rest(es, k)
  BY <1>1, RestOneLess DEF n
<1>18. 0 \in A
  <2>1. (n - 0) + 1 = n + 1 /\ n - 0 = n
    BY <1>1
  <2>2. Len(ls) + 1 \in 1..(Len(ls) + 2) /\ Len(ls) + 1 > Len(ls)
    BY <1>11
  <2>3. f[Len(ls) + 1] = <<>>
    BY <1>16, <2>2, Zenon
  <2>4. f[at[(n - 0) + 1] + 1] = Rest(es, n - 0)
    BY <1>10, <1>17, <2>1, <2>3, Zenon
  <2> QED
    BY <2>4
<1>19. ASSUME NEW d \in Nat, d \in A
       PROVE  d + 1 \in A
  <2> DEFINE i == n - d
             k == n - (d + 1)
  <2>0. SUFFICES ASSUME d + 1 <= n
                 PROVE  f[at[k + 1] + 1] = Rest(es, k)
    OBVIOUS
  <2>1. /\ i \in 1..n /\ k \in Nat /\ k < n /\ k + 1 = i
    BY <1>1, <2>0
  <2>2. f[at[i + 1] + 1] = Rest(es, i)
    <3>1. d <= n
      BY <1>1, <2>0
    <3> QED
      BY <1>19, <3>1, Zenon
  <2> HIDE DEF i, k, A
  <2>3. at[i] + 1 \in 1..Len(ls) /\ Told(ls, at[i] + 1, es[i], at[i + 1] + 1)
    BY <1>12, <1>13, <2>1
  <2>4. at[i] + 1 \in 1..(Len(ls) + 2) /\ ~(at[i] + 1 > Len(ls))
    BY <1>11, <2>3
  <2>5. f[at[i] + 1] = ParsedAt(ls, at[i] + 1).events \o f[ParsedAt(ls, at[i] + 1).next]
    BY <1>16, <2>4, Zenon
  <2>6. f[at[i] + 1] = <<es[i]>> \o f[at[i + 1] + 1]
    <3>1. CASE ParsesTo(ls, at[i] + 1, es[i], at[i + 1] + 1)
      BY <2>5, <3>1, Zenon DEF ParsesTo
    <3>2. ASSUME NEW m \in 1..Len(ls), ParsesTo(ls, at[i] + 1, es[i], m), m + 1 <= Len(ls),
                 at[i + 1] + 1 = m + 2, ls[m] = Tokens, ls[m + 1] = Blank
          PROVE  f[at[i] + 1] = <<es[i]>> \o f[at[i + 1] + 1]
      <4>1. /\ m \in 1..(Len(ls) + 2) /\ ~(m > Len(ls)) /\ (m + 1) + 1 = m + 2
            /\ m + 1 \in 1..(Len(ls) + 2) /\ ~(m + 1 > Len(ls))
        BY <1>11, <3>2
      <4>2. f[at[i] + 1] = <<es[i]>> \o f[m]
        BY <2>5, <3>2, Zenon DEF ParsesTo
      <4>0. /\ ParsedAt(ls, m).events = <<>> /\ ParsedAt(ls, m).next = m + 1
            /\ ParsedAt(ls, m + 1).events = <<>> /\ ParsedAt(ls, m + 1).next = (m + 1) + 1
        BY <3>2, NotRead
      <4>3. f[m] = <<>> \o f[m + 1]
        BY <1>16, <4>0, <4>1, Zenon
      <4>4. f[m + 1] = <<>> \o f[m + 2]
        BY <1>16, <4>0, <4>1, Zenon
      <4>5. IsList(f[m + 2])
        <5>1. i \in 0..n
          BY <1>1, <2>1
        <5> QED
          BY <1>17, <2>2, <3>2, <5>1, Zenon
      <4> DEFINE x == f[m + 2]
      <4>6. <<>> \o x = x
        <5>1. x \in Seq(ToSet(x))
          BY <4>5 DEF IsList
        <5> HIDE DEF x
        <5> QED
          BY <5>1
      <4> QED
        BY <3>2, <4>2, <4>3, <4>4, <4>6, Zenon
    <3> QED
      BY <2>3, <3>1, <3>2, Zenon DEF Told
  <2>7. <<es[i]>> \o Rest(es, i) = Rest(es, k)
    BY <1>17, <2>1, Zenon
  <2> QED
    BY <2>1, <2>2, <2>6, <2>7, Zenon
<1>20. \A d \in Nat : d \in A
  <2> HIDE DEF A
  <2> QED
    BY <1>18, <1>19, Induction
<1>21. f[1] = es
  <2>1. n \in A /\ n <= n /\ n - n = 0 /\ 0 + 1 = 1
    BY <1>1, <1>20
  <2>2. f[at[(n - n) + 1] + 1] = Rest(es, n - n)
    BY <2>1
  <2> QED
    BY <1>10, <1>17, <2>1, <2>2, Zenon
<1> QED
  BY <1>14, <1>21 DEF ls

(* context.rs:63: what the .ctx output of a session says parses back to the  *)
(* events it was made of, save for the format version and the token counts,  *)
(* in whatever order turns, thinking, calls, results and lines of token      *)
(* counts come, as long as every text is plain.                              *)
THEOREM RoundTripHolds == WatchSpec => []RoundTrip
<1>1. ReadInv => RoundTrip
  <2> SUFFICES ASSUME ReadInv, phase = "write", output = "ctx", Plain(EventsOf(read))
               PROVE  parse(process_file(read)) = EventsOf(read)
    BY DEF RoundTrip
  <2>1. AreEvents(EventsOf(read))
    BY ReadEvents
  <2>2. process_file(read) = emit(EventsOf(read), opts)
    BY SMT DEF process_file
  <2> QED
    BY <2>1, <2>2, EmitParsed
<1>2. WatchInit => ReadInv
  BY DEF WatchInit, ReadInv
<1> QED
  BY <1>1, <1>2, FileInit, FileNext, ReadNext, PTL DEF WatchSpec
=============================================================================
